SPECIFICATION Spec
CONSTANTS
    OpIds = {1, 2, 3}
    MaxTasks = 3
    MaxChunks = 1
    RequestedFeatures <- OnlyExec
    LogOptionsValid = TRUE
    ShutdownDrains = {TRUE}
INVARIANTS
    ExactlyOneOutcome
    RunsInOrder
PROPERTIES
    SerialLifecycle
