SPECIFICATION MCSpec
CONSTANTS
    Capacity = 2
    MaxSamples = 1
    Budget = 2
    WireLimit = 1
    PageJobs = {1, 2, 3, 4}
    MaxMillis = 3
    MaxPage = 1
    Dirs = {1, 2}
    Clients = {"c", "d"}
    RootJobs = {1}
    Concurrencies = {0, 2}
    Names = {"a", "b"}
    Requested <- MCRequested
    MaxSwaps = 2
INVARIANTS
    
    PagesExact
    DisabledUnused
    LandsInside
CHECK_DEADLOCK FALSE
