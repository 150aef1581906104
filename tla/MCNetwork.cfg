SPECIFICATION MCSpec
CONSTANTS
    Readers = {"a", "b"}
    Sharing <- MCSharing
    Rates = {0, 1, 2}
    EngineRate = 2
    ChunkSizes = {2}
    MaxClock = 2
    MaxRead = 4
    MaxChanges = 1
    MinWorkers = 1
    MaxWorkers = 3
    ConnectionCap = 2
    Goodputs = {0, 3}
    CooldownWindows = 2
    SustainedWindows = 2
    OpeningCap = 2
    o1 = o1
    o2 = o2
    c1 = c1
    c2 = c2
    Conns = {c1, c2}
    OriginNames = {o1, o2}
    Limits <- MCLimits
    Policies = {"none", "http", "socks5"}
    MaxAddresses = 2
    Window = 1
    Urls <- MCUrls
    Locations <- MCLocations
    RedirectPolicies <- MCPolicies
    Jobs <- MCJobs
    Lengths = {1, 3}
    Styles = {"strong", "none"}
    Clients = {"w1", "w2"}
    Challenges = {"c1", "c2"}
    MAX_AUTH_STAGES = 2
    MaxAttempts = 2
INVARIANTS
    
    
    CredentialsScoped
    AuthenticationBounded
CHECK_DEADLOCK FALSE
