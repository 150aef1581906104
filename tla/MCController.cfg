CONSTANTS
    Total = 2
    Generations = 2
    MaxAttempts = 2
    MaxRuns = 2
    Window = 1
    Scenarios <- MCScenarios
SPECIFICATION FairController
INVARIANTS
    PublishedIntact
    CheckpointBacked
    ReportsPartialFile
PROPERTIES
    RunsEnd
CHECK_DEADLOCK FALSE
