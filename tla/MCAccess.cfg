CONSTANTS
    a1 = a1
    a2 = a2
    x1 = x1
    x2 = x2
    x3 = x3
    y1 = y1
    y2 = y2
    Accounts = {a1, a2}
    Flows = {y1, y2}
    Requests = {x1, x2, x3}
    MaxConsents = 2
    Rows = 2
    Batch = 1
    Writers = {y1, y2}
    WayBack = {"expanded"}
    MaxDeploys = 5
    Visits = {y1, y2}
    Sessions = {y1, y2}
    MaxCodes = 2
    MaxPerWindow = 2
    MaxAttempts = 2
    MaxFailures = 2
    Steps = {x1, x2, x3}
    Devices = {y1, y2}
    RecoveryCodes = {1, 2}
    MaxSecrets = 2
    MaxMfaFailures = 2
    Buckets = {a1, a2}
    Hourly = {a2}
    Capacity = 2
    Minute = 2
    Hour = 3
    MaxBuckets = 1
    MaxNow = 4
SPECIFICATION AccessSpec
SYMMETRY AccessSymmetry
INVARIANTS
    ConsentsNotCrossed
    EveryInstanceReads
    GuessesBounded
    RecoveryCodeOnce
    BudgetExact
PROPERTIES
    ImplementsConnection
    EndedStaysEnded
CHECK_DEADLOCK FALSE
