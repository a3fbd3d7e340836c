SPECIFICATION FairSpec
CONSTANTS
    MaxCalls = 3
    MaxMessages = 3
    WorkerSends = TRUE
    EarlyDone = TRUE
INVARIANTS
    TypeOK
    SerialUnlessUnlocked
    NoGapOnTheWire
    NoIdleBacklog
    FlagHasWrite
    ReactorNotDangling
PROPERTIES
    DropsOnlyWithTheCall
    HelloIsWritten
