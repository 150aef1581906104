SPECIFICATION MCSpec
CONSTANTS
    Bytes <- MCBytes
    Generations <- MCGenerations
    MaxRanges = 2
    MaxSaves = 2
    MaxFaults = 1
    MaxCrashes = 2
    Size = 2
    MaxNode = 4
    MaxWriters = 2
    MaxRuns = 2
    MaxIntrusions = 1
    MaxIoFaults = 1
    StrangersAt = {"idle", "opening", "opened"}
    Alphabet = {"a", "C", ".", " ", "/", "^", "?", "w"}
    MaxLength = 3
    Caps = {2, 7}
    SiblingNumbers = {1, 2, 12}
    HardCap = 8
    j1 = j1
    j2 = j2
    p1 = p1
    p2 = p2
    u1 = u1
    u2 = u2
    Jobs = {j1, j2}
    Processes = {p1, p2}
    Urls = {u1, u2}
    LastCandidate = 1
    Assignments <- MCAssignments
    MaxDeaths = 1
    MaxStrangers = 1
    Tasks = {"x", "y", "z"}
    BudgetJob <- MCBudgetJob
    BudgetMax <- MCBudgetMax
    Quanta = {1, 2}
    Users = {"a", "b", "c", "d"}
    MaxBuffers = 2
    Submitters = {"v", "w"}
    LaneOffsets = {1, 2, 3}
    Publications <- MCPublications
    MaxReads = 3
    MaxOffset = 7
    Counts = {0, 1, 2, 15, 513, 200000}
    Sizes = {0, 1, 511, 512, 8193, 2200000, 2195457, 1000000000}
    MaxChanges = 2
    WordMax = 1000000000
INVARIANTS
    OthersUntouched
    OneOwner
    SavedSafely
    NoMissedRelease
    SnapshotCoherent
    RangeEditsExact
    MemoryWithinAggregate
PROPERTIES
    ImplementsRegister
    PublishedSealed
CHECK_DEADLOCK FALSE
