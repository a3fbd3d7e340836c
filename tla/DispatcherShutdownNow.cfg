SPECIFICATION Spec
CONSTANTS
    OpIds = {1, 2}
    MaxTasks = 2
    MaxChunks = 1
    RequestedFeatures <- AllFeatures
    LogOptionsValid = TRUE
    ShutdownDrains = {FALSE}
INVARIANTS
    AtMostOneTerminal
