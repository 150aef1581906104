SPECIFICATION MCSpec
CONSTANTS
    Clients = {"a", "b"}
    JobOf <- MCJobOf
    Sizes = {1, 2}
    Caps <- MCCaps
    Subscribers = {"a"}
    Buffer = 2
    MaxEvents = 5
    r1 = r1
    r2 = r2
    k1 = k1
    k2 = k2
    Keys = {k1, k2}
    Requests = {r1, r2}
    Capacity = 1
    EntryLimits = {1, 2}
    Delays = {1, 2}
    MaxThrottles = 2
    ChunkLengths = {1, 2}
    AcceptedLengths = {0, 3}
    IdleTimeout = 2
    MaxBody = 4
    MaxRevisions = 2
    MaxPauses = 1
INVARIANTS
    
    FinalEventsKept
    StallDetected
PROPERTIES
    CallsReturn
    AdmissionEnds
CHECK_DEADLOCK FALSE
