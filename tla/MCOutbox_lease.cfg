CONSTANTS
    j1 = j1
    j2 = j2
    w1 = w1
    w2 = w2
    NoJob = NoJob
    Jobs <- TwoJobs
    Inbound <- OneInbound
    Hooks <- TwoHooks
    Workers <- TwoWorkers
    Faults <- Outages
    BatchLimit = 2
    MaxUnknownAttempts = 3
    OutageBound = 2
    RateLimitBound = 1
SPECIFICATION Spec
SYMMETRY WorkerSymmetry
INVARIANTS
    OneHolder
PROPERTIES
    RecordedNotRetried
    Lifecycle
