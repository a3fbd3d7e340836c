SPECIFICATION BoundedCaptureSpec
CONSTANTS
    OpIds = {1, 2}
    MaxTasks = 1
    MaxChunks = 1
    RequestedFeatures <- OnlyExec
    LogOptionsValid = TRUE
    ShutdownDrains = {TRUE}
PROPERTIES
    DrainTerminates
