CONSTANTS
    Total = 2
    Generations = 2
    MaxAttempts = 2
    MaxRuns = 2
    Window = 1
    Scenarios <- Undisturbed
SPECIFICATION ControllerSpec
INVARIANT PublishedComplete
CHECK_DEADLOCK FALSE
