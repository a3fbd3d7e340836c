SPECIFICATION FairSpec
CONSTANTS
    OpIds = {1, 2}
    MaxTasks = 2
    MaxChunks = 1
    RequestedFeatures <- OnlyPcap
    LogOptionsValid = TRUE
    ShutdownDrains = {TRUE, FALSE}
PROPERTIES
    AcceptedIsReported
    CancelledIsReported
    ShutdownNowTerminates
    StopTerminates
