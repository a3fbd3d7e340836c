SPECIFICATION Spec
CONSTANTS
    Log <- SomeLog
    ZoneOffset = 1
    NanosPerSecond = 4
    NanosPerMilli = 2
    Specs <- SomeSpecs
    Limits = {0, 3, 150}
    Int64Half = 100
    ChunkSizes = {2}
    MaxFiles = 2
    MaxDepth = 1
    MaxRotations = 2
CHECK_DEADLOCK FALSE
INVARIANTS
    TypeOK
    NothingMissed
    OutputAsAsked
    RepeatsNeedRotation
    TempFileFate
    LimitIsHard
    ChunksMatchEof
