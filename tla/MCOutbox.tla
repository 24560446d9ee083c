------------------------------ MODULE MCOutbox ------------------------------
EXTENDS Outbox, TLC

CONSTANTS j1, j2, w1, w2

OneJob == {j1}
TwoJobs == {j1, j2}
OneInbound == {j2}
TwoWorkers == {w1, w2}
\* A hook that selects both jobs, and one that selects a single one of them.
TwoHooks == {{j1, j2}, {j1}}
OneHook == {{j1}}

Outages == {"crash", "stop"}
NoFaults == {}

WorkerSymmetry == Permutations(Workers)
=============================================================================
