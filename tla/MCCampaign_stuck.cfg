CONSTANTS
    a1 = a1
    a2 = a2
    r1 = r1
    r2 = r2
    r3 = r3
    r4 = r4
    w1 = w1
    w2 = w2
    Free = Free
    Accounts <- TwoAccounts
    Requests <- ApproveAndSend
    Kind <- ApprovedThenSent
    Workers <- TwoWorkers
    CanThrow = FALSE
    RevisionBound = 2
SPECIFICATION Spec
INVARIANTS
    RunningHasWork
