CONSTANTS
    TotalSize = 2
    MinSegment = 1
    MaxSegment = 4
    Targets <- WholeTarget
    SplitThreshold = 1
    MaxLeases = 5
    Divisors = {0}
    MaxGeneration = 3
    NWorkers = 2
    MaxAttempts = 0
    MaxFaults = 1
    Scenarios <- LiveScenarios
SPECIFICATION FairSpec
PROPERTIES
    Terminates
CHECK_DEADLOCK FALSE
