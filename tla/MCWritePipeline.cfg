SPECIFICATION FairSpec
CONSTANTS
    t1 = t1
    t2 = t2
    Threads = {t1, t2}
    Sessions <- MCSessions
    MaxQueuedBytes = 2
    TotalSize = 3
    MinSegment = 1
    MaxSegment = 3
    Targets <- MCTargets
    SplitThreshold = 1
    MaxLeases = 4
    NWorkers = 2
    Chunks <- MCChunks
    FrameQuantum = 1
    ReadAhead = 2
    WriterCap = 6
    Scenarios <- MCScenarios
INVARIANTS
    PublishedWritten
    NoLateWrite
PROPERTIES
    WorkersExit
CHECK_DEADLOCK FALSE
