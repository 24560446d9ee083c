------------------------------- MODULE Outbox -------------------------------
(***************************************************************************)
(* The durable outbox and the workers that drain it: the table outbox_jobs *)
(* and its finalizers (src/src/infra/outbox.ts), and the tick that every   *)
(* worker runs (src/src/infra/worker.ts: the long-running process, the     *)
(* HTTP tick and the webhook's post-response tick are all "workers").      *)
(*                                                                         *)
(* One action is one database transaction, or one step of a worker between *)
(* two transactions.  Rows are shared; what a worker keeps between two of  *)
(* its transactions (the claimed batch, the row snapshot RETURNING gave    *)
(* it, the answer of the transport) is its own and may be stale.           *)
(***************************************************************************)
EXTENDS Integers, FiniteSets

CONSTANTS
    Jobs,                 \* the rows, one per dedupe key
    Inbound,              \* the rows of kind 'telegram_update' (no transport)
    Hooks,                \* the row sets the WHERE of a suppression hook selects
    Workers,
    NoJob,
    BatchLimit,           \* deps.batchLimit, BATCH_LIMIT
    MaxUnknownAttempts,   \* MAX_UNKNOWN_ATTEMPTS
    Faults,               \* which of the faults below the environment commits
    OutageBound,          \* bound: crashes and shutdown signals in a behaviour
    RateLimitBound        \* bound: 429 answers for one job (uncapped in the code)

\* "crash": a worker process dies.  "stop": it receives SIGTERM or SIGINT.
\* "lapse": a lease runs out under a live worker (10 calls of 10 s, 60 s lease).
\* "throw": processJob throws (transport or database error).
AllFaults == {"crash", "stop", "lapse", "throw"}

ASSUME OutboxAssumption ==
    /\ Inbound \subseteq Jobs
    /\ Hooks \subseteq SUBSET Jobs
    /\ NoJob \notin Jobs
    /\ BatchLimit \in Nat \ {0}
    /\ MaxUnknownAttempts \in Nat \ {0}
    /\ Faults \subseteq AllFaults
    /\ OutageBound \in Nat
    /\ RateLimitBound \in Nat

VARIABLES
    status, attempt, text, \* columns; text: payload still has the message body
    due,                   \* due_at <= now()
    lapsed,                \* lease_until < now(), meaningful while leased
    pc,                    \* where each worker is in tickOnce
    todo,                  \* claimed by this tick and not begun yet
    cur,                   \* the job processJob is working on
    snap,                  \* the row as the claim returned it to this worker
    outcome,               \* what is about to be recorded for cur
    stopping,              \* the shutdown flag of runWorker
    outages,               \* crashes and signals so far
    holder, tries, limited \* history: last claimant; handler or transport calls; 429s

rowVars == <<status, attempt, text, due, lapsed>>
workerVars == <<pc, todo, cur, snap, outcome>>
historyVars == <<holder, tries, limited>>
vars == <<rowVars, workerVars, stopping, outages, historyVars>>

L == INSTANCE JobLifecycle
Open == L!Open
Terminal == L!Terminal

Phases == {"idle", "claiming", "batch", "checking", "calling", "recording",
           "failing", "down"}
Answers == {"sent", "failed", "unknown", "rate_limited"}
Outcomes == {"none", "suppress", "processed"} \cup Answers
Unclaimed == [attempt |-> 0, text |-> FALSE]

RowsOK ==
    /\ status \in [Jobs -> L!Statuses]
    /\ attempt \in [Jobs -> Nat]
    /\ text \in [Jobs -> BOOLEAN]
    /\ due \in [Jobs -> BOOLEAN]
    /\ lapsed \in [Jobs -> BOOLEAN]

WorkersOK ==
    /\ pc \in [Workers -> Phases]
    /\ todo \in [Workers -> SUBSET Jobs]
    /\ cur \in [Workers -> Jobs \cup {NoJob}]
    /\ snap \in [Workers -> [Jobs -> [attempt : Nat, text : BOOLEAN]]]
    /\ outcome \in [Workers -> Outcomes]
    /\ stopping \in [Workers -> BOOLEAN]

HistoryOK ==
    /\ outages \in 0..OutageBound
    /\ holder \in [Jobs -> Workers \cup {NoJob}]
    /\ tries \in [Jobs -> Nat]
    /\ limited \in [Jobs -> 0..RateLimitBound]

\* The types the schema (migration 001) and the code give the state.
TypeOK == RowsOK /\ WorkersOK /\ HistoryOK

Init ==
    /\ status = [j \in Jobs |-> "absent"]
    /\ attempt = [j \in Jobs |-> 0]
    /\ text = [j \in Jobs |-> FALSE]
    /\ due = [j \in Jobs |-> FALSE]
    /\ lapsed = [j \in Jobs |-> FALSE]
    /\ pc = [w \in Workers |-> "idle"]
    /\ todo = [w \in Workers |-> {}]
    /\ cur = [w \in Workers |-> NoJob]
    /\ snap = [w \in Workers |-> [j \in Jobs |-> Unclaimed]]
    /\ outcome = [w \in Workers |-> "none"]
    /\ stopping = [w \in Workers |-> FALSE]
    /\ outages = 0
    /\ holder = [j \in Jobs |-> NoJob]
    /\ tries = [j \in Jobs |-> 0]
    /\ limited = [j \in Jobs |-> 0]

\* The jobs a live worker still has in memory.
Held(w) == todo[w] \cup ({cur[w]} \cap Jobs)

-----------------------------------------------------------------------------
(* The queue, as the rest of the application and the clock act on it.      *)

\* enqueueOutbox: ON CONFLICT (dedupe_key) DO NOTHING, so a key is inserted once.
Enqueue(j) ==
    /\ status[j] = "absent"
    /\ status' = [status EXCEPT ![j] = "pending"]
    /\ text' = [text EXCEPT ![j] = j \notin Inbound]
    /\ due' = [due EXCEPT ![j] = TRUE]
    /\ UNCHANGED <<attempt, lapsed, workerVars, stopping, outages, historyVars>>

\* The suppression hooks (consent, /stop, opt-out, campaign cancel): one UPDATE
\* over the queued and the leased rows of one account or campaign.
SuppressQueued(g) ==
    LET S == {j \in g : status[j] \in Open} IN
    /\ S # {}
    /\ status' = [j \in Jobs |-> IF j \in S THEN "suppressed" ELSE status[j]]
    /\ lapsed' = [j \in Jobs |-> IF j \in S THEN FALSE ELSE lapsed[j]]
    /\ UNCHANGED <<attempt, text, due, workerVars, stopping, outages, historyVars>>

\* The backoff of a re-queued job runs out.
ComeDue(j) ==
    /\ status[j] = "pending" /\ ~due[j]
    /\ due' = [due EXCEPT ![j] = TRUE]
    /\ UNCHANGED <<status, attempt, text, lapsed, workerVars, stopping, outages, historyVars>>

\* 60 seconds pass after a claim.
LeaseLapse(j) ==
    /\ status[j] = "leased" /\ ~lapsed[j]
    /\ "lapse" \in Faults \/ \A w \in Workers : j \notin Held(w)
    /\ lapsed' = [lapsed EXCEPT ![j] = TRUE]
    /\ UNCHANGED <<status, attempt, text, due, workerVars, stopping, outages, historyVars>>

-----------------------------------------------------------------------------
(* tickOnce: requeue the expired leases, claim a batch, process it.        *)

\* Mutant: the sweep leaves a lease that expired at the cap alone.
ExpiredBelowCap ==
    {j \in Jobs : status[j] = "leased" /\ lapsed[j] /\ attempt[j] + 1 < MaxUnknownAttempts}

Expired == {j \in Jobs : status[j] = "leased" /\ lapsed[j]}

RequeueExpired(w) ==
    LET atCap(j) == attempt[j] + 1 >= MaxUnknownAttempts IN
    /\ pc[w] = "idle" /\ ~stopping[w]
    /\ pc' = [pc EXCEPT ![w] = "claiming"]
    /\ status' = [j \in Jobs |-> IF j \notin Expired THEN status[j]
                                 ELSE IF atCap(j) THEN "unknown" ELSE "pending"]
    /\ attempt' = [j \in Jobs |-> IF j \in Expired THEN attempt[j] + 1 ELSE attempt[j]]
    /\ due' = [j \in Jobs |-> IF j \in Expired /\ ~atCap(j) THEN FALSE ELSE due[j]]
    /\ lapsed' = [j \in Jobs |-> IF j \in Expired THEN FALSE ELSE lapsed[j]]
    /\ UNCHANGED <<text, todo, cur, snap, outcome, stopping, outages, historyVars>>

\* Mutants: the claim takes whatever is due; the claim skips leased rows only.
ClaimableWhenDue == {j \in Jobs : status[j] \in Open /\ due[j]}
ClaimableUnlessLeased == {j \in Jobs : status[j] # "leased" /\ due[j]}

Claimable == {j \in Jobs : status[j] = "pending" /\ due[j]}

Claim(w) ==
    /\ pc[w] = "claiming"
    /\ \E S \in SUBSET Claimable :
        /\ Cardinality(S) <= BatchLimit
        /\ S = Claimable \/ Cardinality(S) = BatchLimit
        /\ status' = [j \in Jobs |-> IF j \in S THEN "leased" ELSE status[j]]
        /\ lapsed' = [j \in Jobs |-> IF j \in S THEN FALSE ELSE lapsed[j]]
        /\ todo' = [todo EXCEPT ![w] = S]
        /\ snap' = [snap EXCEPT ![w] =
                [j \in Jobs |-> IF j \in S THEN [attempt |-> attempt[j], text |-> text[j]]
                                ELSE Unclaimed]]
        /\ holder' = [j \in Jobs |-> IF j \in S THEN w ELSE holder[j]]
    /\ pc' = [pc EXCEPT ![w] = "batch"]
    /\ UNCHANGED <<attempt, text, due, cur, outcome, stopping, outages, tries, limited>>

\* shouldStop is asked before each job; RETURNING promises no order.
BeginJob(w, j) ==
    /\ pc[w] = "batch" /\ j \in todo[w] /\ ~stopping[w]
    /\ pc' = [pc EXCEPT ![w] = "checking"]
    /\ todo' = [todo EXCEPT ![w] = @ \ {j}]
    /\ cur' = [cur EXCEPT ![w] = j]
    /\ UNCHANGED <<rowVars, snap, outcome, stopping, outages, historyVars>>

\* processOutbound refuses: no text in the payload it was claimed with, or a
\* send-time precondition (consent, binding, block, opt-in) does not hold.
Refuse(w) ==
    /\ pc[w] = "checking" /\ cur[w] \notin Inbound
    /\ pc' = [pc EXCEPT ![w] = "recording"]
    /\ outcome' = [outcome EXCEPT ![w] = "suppress"]
    /\ UNCHANGED <<rowVars, todo, cur, snap, stopping, outages, historyVars>>

\* transport.send, or handleTelegramUpdate: outside any transaction on the job,
\* decided on the claimed row: the status the row has by now is not read again.
Call(w) ==
    /\ pc[w] = "checking"
    /\ cur[w] \in Inbound \/ snap[w][cur[w]].text
    /\ pc' = [pc EXCEPT ![w] = "calling"]
    /\ tries' = [tries EXCEPT ![cur[w]] = @ + 1]
    /\ UNCHANGED <<rowVars, todo, cur, snap, outcome, stopping, outages, holder, limited>>

Answer(w, o) ==
    /\ pc[w] = "calling"
    /\ o \in IF cur[w] \in Inbound THEN {"processed"} ELSE Answers
    /\ o = "rate_limited" => limited[cur[w]] < RateLimitBound
    /\ pc' = [pc EXCEPT ![w] = "recording"]
    /\ outcome' = [outcome EXCEPT ![w] = o]
    /\ limited' = IF o = "rate_limited" THEN [limited EXCEPT ![cur[w]] = @ + 1] ELSE limited
    /\ UNCHANGED <<rowVars, todo, cur, snap, stopping, outages, holder, tries>>

-----------------------------------------------------------------------------
(* The finalizers.  Each is one transaction that locks the row and does    *)
(* nothing unless its status is 'leased'; the attempt it writes is the     *)
(* claimed one plus one, not the current one plus one.                     *)

EndJob(w) ==
    /\ pc' = [pc EXCEPT ![w] = "batch"]
    /\ snap' = [snap EXCEPT ![w][cur[w]] = Unclaimed]
    /\ cur' = [cur EXCEPT ![w] = NoJob]
    /\ outcome' = [outcome EXCEPT ![w] = "none"]
    /\ UNCHANGED <<todo, stopping, outages, historyVars>>

\* Mutant: the attempt is not counted.
AttemptUncounted(w) == snap[w][cur[w]].attempt
NextAttempt(w) == snap[w][cur[w]].attempt + 1

StillLeased(w) == status[cur[w]] = "leased"

\* Writes the row of cur: its new status and the attempt; the lease is over.
WriteJob(w, s) ==
    /\ status' = [status EXCEPT ![cur[w]] = s]
    /\ attempt' = [attempt EXCEPT ![cur[w]] = NextAttempt(w)]
    /\ lapsed' = [lapsed EXCEPT ![cur[w]] = FALSE]

Recording(w, outs) == pc[w] = "recording" /\ outcome[w] \in outs

ApplyOutcome(w) ==
    LET j == cur[w]
        retry == \/ outcome[w] = "rate_limited"
                 \/ outcome[w] = "unknown" /\ NextAttempt(w) < MaxUnknownAttempts
    IN
    /\ Recording(w, Answers)
    /\ IF ~StillLeased(w) THEN UNCHANGED rowVars
       ELSE /\ WriteJob(w, IF retry THEN "pending" ELSE outcome[w])
            /\ text' = IF outcome[w] = "sent" THEN [text EXCEPT ![j] = FALSE] ELSE text
            /\ due' = IF retry THEN [due EXCEPT ![j] = FALSE] ELSE due
    /\ EndJob(w)

\* applySuppression, applyUpdateProcessed
ApplyEnding(w, out, s) ==
    /\ Recording(w, {out})
    /\ IF ~StillLeased(w) THEN UNCHANGED rowVars
       ELSE WriteJob(w, s) /\ UNCHANGED <<text, due>>
    /\ EndJob(w)

ApplySuppression(w) == ApplyEnding(w, "suppress", "suppressed")
ApplyUpdateProcessed(w) == ApplyEnding(w, "processed", "delivered")

\* An exception anywhere in processJob, the finalizer's transaction included
\* (which then rolls back), is caught ...
Throw(w) ==
    /\ "throw" \in Faults
    /\ pc[w] \in {"checking", "calling", "recording"}
    /\ pc' = [pc EXCEPT ![w] = "failing"]
    /\ outcome' = [outcome EXCEPT ![w] = "none"]
    /\ UNCHANGED <<rowVars, todo, cur, snap, stopping, outages, historyVars>>

\* ... and the row is re-queued by its id, whatever its status is by now.
RequeueWithErrorCap(w) ==
    LET final == NextAttempt(w) >= MaxUnknownAttempts IN
    /\ pc[w] = "failing"
    /\ WriteJob(w, IF final THEN "unknown" ELSE "pending")
    /\ due' = IF final THEN due ELSE [due EXCEPT ![cur[w]] = FALSE]
    /\ UNCHANGED text
    /\ EndJob(w)

-----------------------------------------------------------------------------
(* The end of a tick, shutdown and crash.                                  *)

Forget(w, phase) ==
    /\ pc' = [pc EXCEPT ![w] = phase]
    /\ todo' = [todo EXCEPT ![w] = {}]
    /\ cur' = [cur EXCEPT ![w] = NoJob]
    /\ snap' = [snap EXCEPT ![w] = [j \in Jobs |-> Unclaimed]]
    /\ outcome' = [outcome EXCEPT ![w] = "none"]

EndTick(w) ==
    /\ pc[w] = "batch" /\ todo[w] = {}
    /\ pc' = [pc EXCEPT ![w] = "idle"]
    /\ UNCHANGED <<rowVars, todo, cur, snap, outcome, stopping, outages, historyVars>>

\* Mutant: the release does not ask who ended the job.
ReleasedWhatever(w) == todo[w]
Released(w) == {j \in todo[w] : status[j] = "leased"}

\* releaseUnattemptedJobs: the rest of the batch goes back to the queue, the
\* attempt unspent, and the process exits.
ReleaseUnattempted(w) ==
    /\ pc[w] = "batch" /\ todo[w] # {} /\ stopping[w]
    /\ status' = [j \in Jobs |-> IF j \in Released(w) THEN "pending" ELSE status[j]]
    /\ lapsed' = [j \in Jobs |-> IF j \in Released(w) THEN FALSE ELSE lapsed[j]]
    /\ Forget(w, "down")
    /\ UNCHANGED <<attempt, text, due, stopping, outages, historyVars>>

\* The loop of runWorker ends between two ticks.
Exit(w) ==
    /\ pc[w] = "idle" /\ stopping[w]
    /\ Forget(w, "down")
    /\ UNCHANGED <<rowVars, stopping, outages, historyVars>>

Stop(w) ==
    /\ "stop" \in Faults /\ outages < OutageBound
    /\ pc[w] # "down" /\ ~stopping[w]
    /\ stopping' = [stopping EXCEPT ![w] = TRUE]
    /\ outages' = outages + 1
    /\ UNCHANGED <<rowVars, workerVars, historyVars>>

\* The process is killed, or tickOnce itself throws: the leases stay behind.
Crash(w) ==
    /\ "crash" \in Faults /\ outages < OutageBound
    /\ pc[w] # "down"
    /\ Forget(w, "down")
    /\ outages' = outages + 1
    /\ UNCHANGED <<rowVars, stopping, historyVars>>

Restart(w) ==
    /\ pc[w] = "down"
    /\ pc' = [pc EXCEPT ![w] = "idle"]
    /\ stopping' = [stopping EXCEPT ![w] = FALSE]
    /\ UNCHANGED <<rowVars, todo, cur, snap, outcome, outages, historyVars>>

-----------------------------------------------------------------------------
(* What a live worker does next, of its own accord. *)
WorkerStep(w) ==
    \/ RequeueExpired(w) \/ Claim(w)
    \/ \E j \in Jobs : BeginJob(w, j)
    \/ Refuse(w) \/ Call(w)
    \/ \E o \in Outcomes : Answer(w, o)
    \/ ApplyOutcome(w) \/ ApplySuppression(w) \/ ApplyUpdateProcessed(w)
    \/ RequeueWithErrorCap(w)
    \/ EndTick(w) \/ ReleaseUnattempted(w) \/ Exit(w) \/ Restart(w)

Next ==
    \/ \E j \in Jobs : Enqueue(j) \/ ComeDue(j) \/ LeaseLapse(j)
    \/ \E g \in Hooks : SuppressQueued(g)
    \/ \E w \in Workers : WorkerStep(w) \/ Throw(w) \/ Stop(w) \/ Crash(w)

Spec == Init /\ [][Next]_vars

\* Workers keep running (a loop under a supervisor, a scheduled HTTP tick) and
\* every transport call has a timeout; time passes.
Fairness ==
    /\ \A w \in Workers : WF_vars(WorkerStep(w))
    /\ \A j \in Jobs : WF_vars(ComeDue(j)) /\ WF_vars(LeaseLapse(j))

FairSpec == Spec /\ Fairness

-----------------------------------------------------------------------------
(* Properties *)

\* While no lease lapses under a live worker, no job is in the hands of two
\* workers at a time (claimJobs: "concurrent workers never grab the same job"),
\* whatever crashes, shutdown releases and suppressions come between.
OneHolder ==
    \A v, w \in Workers : v # w => Held(v) \cap Held(w) = {}

\* Under the same condition a job is tried at most MaxUnknownAttempts times,
\* answers 429 not counted: crashes, timeouts and releases together never buy
\* one more send (AC-42).
TriesCapped ==
    \A j \in Jobs : tries[j] <= MaxUnknownAttempts + limited[j]

\* When leases do lapse under live workers the cap is not kept (the attempt a
\* stale worker writes may be lower than the one it overwrites), but the number of
\* sends stays finite: each try can make way for two at the next attempt, its
\* own retry and that of the lease that expired under it, and each shutdown
\* release repeats this at worst once.
TriesBounded ==
    \A j \in Jobs :
        tries[j] <= (1 + outages) * (2^MaxUnknownAttempts - 1) + limited[j]

\* A row that reached a terminal status keeps it, as long as processJob throws
\* no exception: a stale worker, an expiry sweep, a release and a hook all leave
\* it alone.
TerminalIsFinal ==
    [][\A j \in Jobs : status[j] \in Terminal => status'[j] = status[j]]_vars

\* No message is handed to a transport again once an outcome of it has been
\* recorded ("suppressed" is not one: the worker that holds the job still tries it).
RecordedNotRetried ==
    [][\A j \in Jobs : tries'[j] # tries[j]
          => status[j] \notin {"sent", "delivered", "failed", "unknown"}]_vars

\* Every queued job ends for good, whatever the workers and the network do.
Settles == \A j \in Jobs :
    status[j] # "absent" ~> [](status[j] \in Terminal)

\* The queue implements the life cycle its header draws.
Lifecycle == L!Spec
=============================================================================
