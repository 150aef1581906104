CONSTANTS
    TotalSize = 4
    MinSegment = 1
    MaxSegment = 2
    Targets <- SomeTargets
    Divisors = {0, 3}
    MaxLeases = 4
    SplitThreshold = 1
    MaxGeneration = 2
SPECIFICATION SchedulerSpec
INVARIANTS
    InvariantsHold
PROPERTIES
    SettledGrows
    CarveLeavesReadyWork
CHECK_DEADLOCK FALSE
