SPECIFICATION Spec
CONSTANTS
    Threads = {t1, t2}
    Names = {"a", "b"}
    Levels = {"info", "debug"}
    DefaultLevel = "info"
    MaxLoggers = 2
    MaxSinks = 2
SYMMETRY ThreadSymmetry
CHECK_DEADLOCK FALSE
INVARIANTS
    TypeOK
    LiveIsRegistered
    NoDanglingEntry
    SinksShared
    PendingAwaitsLogger
