CONSTANTS
    TotalSize = 4
    MinSegment = 1
    MaxSegment = 4
    Targets <- WholeTarget
    SplitThreshold = 1
    MaxLeases = 5
    Divisors = {0}
    MaxGeneration = 3
    NWorkers = 2
    MaxAttempts = 1
    MaxFaults = 1
    Scenarios <- SafetyScenarios
SPECIFICATION Spec
INVARIANTS
    SettledWritten
    CheckpointSound
    OutcomeSound
    PauseIsResumable
CHECK_DEADLOCK FALSE
