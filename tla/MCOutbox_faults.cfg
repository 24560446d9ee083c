CONSTANTS
    j1 = j1
    j2 = j2
    w1 = w1
    w2 = w2
    NoJob = NoJob
    Jobs <- OneJob
    Inbound <- NoFaults
    Hooks <- OneHook
    Workers <- TwoWorkers
    Faults <- AllFaults
    BatchLimit = 1
    MaxUnknownAttempts = 2
    OutageBound = 1
    RateLimitBound = 1
SPECIFICATION FairSpec
INVARIANTS
    TriesBounded
PROPERTIES
    Settles
