CONSTANTS
    Jobs = {"j1", "j2"}
    Scenarios <- MCScenarios

SPECIFICATION FairSupervisor

CHECK_DEADLOCK FALSE

INVARIANTS
    RunsTracked
    OneOpenAttempt

PROPERTIES
    Settles
