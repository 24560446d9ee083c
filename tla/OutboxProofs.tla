---------------------------- MODULE OutboxProofs ----------------------------
(***************************************************************************)
(* Proofs about the outbox, for every set of jobs and workers, every batch *)
(* size and every bound.  First type correctness, then the refinement of   *)
(* the job life cycle, then the inductive invariant behind the exclusivity *)
(* of leases and the cap on tries, and last the bound that is kept where   *)
(* the cap is not.                                                         *)
(***************************************************************************)
EXTENDS Outbox, FiniteSetTheorems, TLAPS

Working == {"checking", "calling", "recording", "failing"}

\* A worker has a job in hand exactly while processJob runs.
CurOK ==
    \A w \in Workers :
        /\ pc[w] \in Working => cur[w] \in Jobs /\ cur[w] \notin todo[w]
        /\ pc[w] \notin Working => cur[w] = NoJob
        /\ pc[w] \in {"idle", "claiming", "down"} => todo[w] = {}

TypeInv == TypeOK /\ CurOK

LEMMA InitTypeInv == Init => TypeInv
BY OutboxAssumption DEF Init, TypeInv, TypeOK, RowsOK, WorkersOK, HistoryOK, CurOK,
    Working, Unclaimed, Phases, Outcomes, Answers, L!Statuses, L!Open, L!Terminal

\* A finalizer's write keeps the types of the row, and the end of processJob
\* those of the worker.
LEMMA WriteJobOK ==
    ASSUME TypeInv, NEW w \in Workers, cur[w] \in Jobs, NEW s \in L!Statuses, WriteJob(w, s)
    PROVE  /\ status' \in [Jobs -> L!Statuses]
           /\ attempt' \in [Jobs -> Nat]
           /\ lapsed' \in [Jobs -> BOOLEAN]
<1>1. snap[w][cur[w]].attempt \in Nat
    BY DEF TypeInv, TypeOK, WorkersOK
<1>2. QED
    BY <1>1 DEF TypeInv, TypeOK, RowsOK, WriteJob, NextAttempt

LEMMA EndJobOK ==
    ASSUME TypeInv, NEW w \in Workers, cur[w] \in Jobs, EndJob(w)
    PROVE  WorkersOK' /\ HistoryOK' /\ CurOK'
<1>1. snap' \in [Workers -> [Jobs -> [attempt : Nat, text : BOOLEAN]]]
    BY DEF TypeInv, TypeOK, WorkersOK, EndJob, Unclaimed
<1>2. WorkersOK'
    BY <1>1 DEF TypeInv, TypeOK, WorkersOK, EndJob, Phases, Outcomes
<1>3. HistoryOK' /\ CurOK'
    BY DEF TypeInv, TypeOK, WorkersOK, HistoryOK, CurOK, Working, EndJob, historyVars
<1>4. QED
    BY <1>2, <1>3

LEMMA NextTypeInv == TypeInv /\ [Next]_vars => TypeInv'
<1> SUFFICES ASSUME TypeInv, [Next]_vars PROVE TypeInv'
    OBVIOUS
<1> USE OutboxAssumption DEF TypeInv, TypeOK, CurOK, Working, rowVars, workerVars, historyVars
<1>1. ASSUME NEW j \in Jobs, Enqueue(j) PROVE TypeInv'
    BY <1>1 DEF Enqueue, RowsOK, WorkersOK, HistoryOK, Phases, Outcomes, Answers, Unclaimed,
        L!Statuses, L!Open, L!Terminal
<1>2. ASSUME NEW j \in Jobs, ComeDue(j) PROVE TypeInv'
    BY <1>2 DEF ComeDue, RowsOK, WorkersOK, HistoryOK, Phases, Outcomes, Answers, Unclaimed,
        L!Statuses, L!Open, L!Terminal
<1>3. ASSUME NEW j \in Jobs, LeaseLapse(j) PROVE TypeInv'
    BY <1>3 DEF LeaseLapse, RowsOK, WorkersOK, HistoryOK, Phases, Outcomes, Answers, Unclaimed,
        L!Statuses, L!Open, L!Terminal
<1>4. ASSUME NEW g \in Hooks, SuppressQueued(g) PROVE TypeInv'
    BY <1>4 DEF SuppressQueued, RowsOK, WorkersOK, HistoryOK, Phases, Outcomes, Answers,
        Unclaimed, L!Statuses, L!Open, L!Terminal
<1>5. ASSUME NEW w \in Workers, RequeueExpired(w) PROVE TypeInv'
    <2>1. RowsOK'
        <3>1. status' \in [Jobs -> L!Statuses]
            BY <1>5 DEF RequeueExpired, Expired, RowsOK, L!Statuses, L!Open, L!Terminal
        <3>2. attempt' \in [Jobs -> Nat]
            BY <1>5 DEF RequeueExpired, Expired, RowsOK
        <3>3. due' \in [Jobs -> BOOLEAN]
            BY <1>5 DEF RequeueExpired, Expired, RowsOK
        <3>4. lapsed' \in [Jobs -> BOOLEAN]
            BY <1>5 DEF RequeueExpired, Expired, RowsOK
        <3>5. QED
            BY <1>5, <3>1, <3>2, <3>3, <3>4 DEF RequeueExpired, Expired, RowsOK
    <2>2. WorkersOK' /\ HistoryOK' /\ CurOK'
        BY <1>5 DEF RequeueExpired, Expired, WorkersOK, HistoryOK, Phases
    <2>3. QED
        BY <2>1, <2>2
<1>6. ASSUME NEW w \in Workers, Claim(w) PROVE TypeInv'
    <2>1. PICK S \in SUBSET Claimable :
            /\ status' = [j \in Jobs |-> IF j \in S THEN "leased" ELSE status[j]]
            /\ lapsed' = [j \in Jobs |-> IF j \in S THEN FALSE ELSE lapsed[j]]
            /\ todo' = [todo EXCEPT ![w] = S]
            /\ snap' = [snap EXCEPT ![w] =
                    [j \in Jobs |-> IF j \in S THEN [attempt |-> attempt[j], text |-> text[j]]
                                    ELSE Unclaimed]]
            /\ holder' = [j \in Jobs |-> IF j \in S THEN w ELSE holder[j]]
        BY <1>6 DEF Claim
    <2>2. RowsOK' /\ HistoryOK'
        BY <1>6, <2>1 DEF Claim, RowsOK, HistoryOK, L!Statuses, L!Open
    <2>3. snap' \in [Workers -> [Jobs -> [attempt : Nat, text : BOOLEAN]]]
        BY <2>1 DEF RowsOK, WorkersOK, Unclaimed
    <2>4. WorkersOK' /\ CurOK'
        BY <1>6, <2>1, <2>3 DEF Claim, Claimable, WorkersOK, Phases
    <2>5. QED
        BY <2>2, <2>4
<1>7. ASSUME NEW w \in Workers, NEW j \in Jobs, BeginJob(w, j) PROVE TypeInv'
    BY <1>7 DEF BeginJob, RowsOK, WorkersOK, HistoryOK, Phases, Outcomes, Answers, Unclaimed,
        L!Statuses, L!Open, L!Terminal
<1>8. ASSUME NEW w \in Workers, Refuse(w) PROVE TypeInv'
    BY <1>8 DEF Refuse, RowsOK, WorkersOK, HistoryOK, Phases, Outcomes, Answers, Unclaimed,
        L!Statuses, L!Open, L!Terminal
<1>9. ASSUME NEW w \in Workers, Call(w) PROVE TypeInv'
    BY <1>9 DEF Call, RowsOK, WorkersOK, HistoryOK, Phases, Outcomes, Answers, Unclaimed,
        L!Statuses, L!Open, L!Terminal
<1>10. ASSUME NEW w \in Workers, NEW o \in Outcomes, Answer(w, o) PROVE TypeInv'
    BY <1>10 DEF Answer, RowsOK, WorkersOK, HistoryOK, Phases, Outcomes, Answers, Unclaimed,
        L!Statuses, L!Open, L!Terminal
<1>11. ASSUME NEW w \in Workers, ApplyOutcome(w) PROVE TypeInv'
    <2>1. cur[w] \in Jobs /\ outcome[w] \in Answers /\ EndJob(w)
        BY <1>11 DEF ApplyOutcome, StillLeased, Recording, WorkersOK
    <2>2. CASE status[cur[w]] # "leased"
        BY <1>11, <2>1, <2>2, EndJobOK DEF ApplyOutcome, StillLeased, RowsOK
    <2>3. CASE status[cur[w]] = "leased"
        <3>1. PICK s \in L!Statuses : WriteJob(w, s)
            BY <1>11, <2>1, <2>3 DEF ApplyOutcome, StillLeased, Answers, L!Statuses, L!Open,
                L!Terminal
        <3>2. text' \in [Jobs -> BOOLEAN] /\ due' \in [Jobs -> BOOLEAN]
            BY ZenonT(40), <1>11, <2>1, <2>3 DEF ApplyOutcome, StillLeased, RowsOK
        <3>3. QED
            BY <2>1, <3>1, <3>2, WriteJobOK, EndJobOK DEF RowsOK
    <2>4. QED
        BY <2>2, <2>3
<1>12. ASSUME NEW w \in Workers, ApplySuppression(w) PROVE TypeInv'
    <2>1. cur[w] \in Jobs /\ EndJob(w)
        BY <1>12 DEF ApplySuppression, ApplyEnding, StillLeased, Recording, WorkersOK
    <2>2. CASE status[cur[w]] # "leased"
        BY <1>12, <2>1, <2>2, EndJobOK DEF ApplySuppression, ApplyEnding, StillLeased, RowsOK
    <2>3. CASE status[cur[w]] = "leased"
        <3>1. WriteJob(w, "suppressed") /\ UNCHANGED <<text, due>>
            BY <1>12, <2>3 DEF ApplySuppression, ApplyEnding, StillLeased
        <3>2. QED
            BY <2>1, <3>1, WriteJobOK, EndJobOK DEF RowsOK, L!Statuses, L!Terminal
    <2>4. QED
        BY <2>2, <2>3
<1>13. ASSUME NEW w \in Workers, ApplyUpdateProcessed(w) PROVE TypeInv'
    <2>1. cur[w] \in Jobs /\ EndJob(w)
        BY <1>13 DEF ApplyUpdateProcessed, ApplyEnding, StillLeased, Recording, WorkersOK
    <2>2. CASE status[cur[w]] # "leased"
        BY <1>13, <2>1, <2>2, EndJobOK DEF ApplyUpdateProcessed, ApplyEnding, StillLeased, RowsOK
    <2>3. CASE status[cur[w]] = "leased"
        <3>1. WriteJob(w, "delivered") /\ UNCHANGED <<text, due>>
            BY <1>13, <2>3 DEF ApplyUpdateProcessed, ApplyEnding, StillLeased
        <3>2. QED
            BY <2>1, <3>1, WriteJobOK, EndJobOK DEF RowsOK, L!Statuses, L!Terminal
    <2>4. QED
        BY <2>2, <2>3
<1>14. ASSUME NEW w \in Workers, RequeueWithErrorCap(w) PROVE TypeInv'
    <2>1. cur[w] \in Jobs /\ EndJob(w)
        BY <1>14 DEF RequeueWithErrorCap, WorkersOK
    <2>2. PICK s \in L!Statuses : WriteJob(w, s)
        BY <1>14 DEF RequeueWithErrorCap, L!Statuses, L!Open, L!Terminal
    <2>3. text' \in [Jobs -> BOOLEAN] /\ due' \in [Jobs -> BOOLEAN]
        BY <1>14, <2>1 DEF RequeueWithErrorCap, RowsOK
    <2>4. QED
        BY <2>1, <2>2, <2>3, WriteJobOK, EndJobOK DEF RowsOK
<1>15. ASSUME NEW w \in Workers, EndTick(w) PROVE TypeInv'
    BY <1>15 DEF EndTick, RowsOK, WorkersOK, HistoryOK, Phases, Outcomes, Answers, Unclaimed,
        L!Statuses, L!Open, L!Terminal
<1>16. ASSUME NEW w \in Workers, ReleaseUnattempted(w) PROVE TypeInv'
    <2>1. RowsOK'
        BY <1>16 DEF ReleaseUnattempted, Released, RowsOK, L!Statuses, L!Open
    <2>2. WorkersOK' /\ HistoryOK' /\ CurOK'
        BY <1>16 DEF ReleaseUnattempted, Released, Forget, WorkersOK, HistoryOK, Phases,
            Outcomes, Unclaimed
    <2>3. QED
        BY <2>1, <2>2
<1>17. ASSUME NEW w \in Workers, Exit(w) PROVE TypeInv'
    BY <1>17 DEF Exit, Forget, RowsOK, WorkersOK, HistoryOK, Phases, Outcomes, Answers,
        Unclaimed, L!Statuses, L!Open, L!Terminal
<1>18. ASSUME NEW w \in Workers, Restart(w) PROVE TypeInv'
    BY <1>18 DEF Restart, RowsOK, WorkersOK, HistoryOK, Phases, Outcomes, Answers, Unclaimed,
        L!Statuses, L!Open, L!Terminal
<1>19. ASSUME NEW w \in Workers, Throw(w) PROVE TypeInv'
    BY <1>19 DEF Throw, RowsOK, WorkersOK, HistoryOK, Phases, Outcomes, Answers, Unclaimed,
        L!Statuses, L!Open, L!Terminal
<1>20. ASSUME NEW w \in Workers, Stop(w) PROVE TypeInv'
    BY <1>20 DEF Stop, RowsOK, WorkersOK, HistoryOK, Phases, Outcomes, Answers, Unclaimed,
        L!Statuses, L!Open, L!Terminal
<1>21. ASSUME NEW w \in Workers, Crash(w) PROVE TypeInv'
    BY <1>21 DEF Crash, Forget, RowsOK, WorkersOK, HistoryOK, Phases, Outcomes, Answers,
        Unclaimed, L!Statuses, L!Open, L!Terminal
<1>22. CASE UNCHANGED vars
    BY <1>22 DEF vars, RowsOK, WorkersOK, HistoryOK
<1>23. QED
    BY <1>1, <1>2, <1>3, <1>4, <1>5, <1>6, <1>7, <1>8, <1>9, <1>10, <1>11, <1>12, <1>13, <1>14,
        <1>15, <1>16, <1>17, <1>18, <1>19, <1>20, <1>21, <1>22
       DEF Next, WorkerStep

\* The rows and the workers' memory always have the types the schema and the
\* code give them, whatever faults occur.
THEOREM TypeCorrect == Spec => []TypeOK
<1>1. Init => TypeInv
    BY InitTypeInv
<1>2. TypeInv /\ [Next]_vars => TypeInv'
    BY NextTypeInv
<1>3. TypeInv => TypeOK
    BY DEF TypeInv
<1>4. QED
    BY <1>1, <1>2, <1>3, PTL DEF Spec

-----------------------------------------------------------------------------
(* The life cycle: without an exception in processJob, every write of a    *)
(* status follows an arrow of JobLifecycle.                                *)

NoneFailing == \A w \in Workers : pc[w] # "failing"

LEMMA NextNoneFailing ==
    ASSUME "throw" \notin Faults, TypeInv, NoneFailing, [Next]_vars
    PROVE  NoneFailing'
<1>1. CASE UNCHANGED pc
    BY <1>1 DEF NoneFailing
<1>2. ASSUME NEW w \in Workers, NEW p \in Phases \ {"failing"}, pc' = [pc EXCEPT ![w] = p]
      PROVE  NoneFailing'
    BY <1>2 DEF NoneFailing, TypeInv, TypeOK, WorkersOK
<1>3. ASSUME NEW w \in Workers, WorkerStep(w) PROVE NoneFailing'
    <2>1. \E p \in Phases \ {"failing"} : pc' = [pc EXCEPT ![w] = p]
        BY <1>3 DEF WorkerStep, Phases, RequeueExpired, Expired, Claim, BeginJob, Refuse, Call,
            Answer,
            ApplyOutcome, ApplySuppression, ApplyUpdateProcessed, ApplyEnding, StillLeased,
                EndJob,
            RequeueWithErrorCap, EndTick, ReleaseUnattempted, Released, Exit, Restart, Forget
    <2>2. QED
        BY <1>2, <2>1
<1>4. ASSUME NEW w \in Workers, Crash(w) PROVE NoneFailing'
    BY <1>2, <1>4 DEF Crash, Forget, Phases
<1>5. QED
    BY <1>1, <1>3, <1>4 DEF Next, vars, workerVars, Enqueue, ComeDue, LeaseLapse,
        SuppressQueued, Throw, Stop

\* Along an arrow, or not at all.
Moves == \A j \in Jobs : status'[j] = status[j] \/ status'[j] \in L!Arrows(status[j])

LEMMA WriteMoves ==
    ASSUME TypeInv, NEW w \in Workers, cur[w] \in Jobs, status[cur[w]] = "leased",
           NEW s \in {"pending"} \cup Terminal, WriteJob(w, s)
    PROVE  Moves
BY DEF TypeInv, TypeOK, RowsOK, WriteJob, Moves, Terminal, L!Arrows

LEMMA NextMoves ==
    ASSUME "throw" \notin Faults, TypeInv, NoneFailing, [Next]_vars
    PROVE  Moves
<1>1. ASSUME NEW j \in Jobs, Enqueue(j) PROVE Moves
    BY <1>1 DEF Enqueue, Moves, TypeInv, TypeOK, RowsOK, L!Arrows
<1>2. ASSUME NEW g \in Hooks, SuppressQueued(g) PROVE Moves
    BY <1>2 DEF SuppressQueued, Moves, Open, L!Open, L!Arrows, L!Terminal
<1>3. ASSUME NEW w \in Workers, RequeueExpired(w) PROVE Moves
    BY <1>3 DEF RequeueExpired, Expired, Moves, L!Arrows, L!Terminal
<1>4. ASSUME NEW w \in Workers, Claim(w) PROVE Moves
    BY <1>4 DEF Claim, Claimable, Moves, L!Arrows
<1>5. ASSUME NEW w \in Workers, ApplyOutcome(w) PROVE Moves
    <2>1. cur[w] \in Jobs /\ outcome[w] \in Answers
        BY <1>5 DEF ApplyOutcome, StillLeased, Recording, TypeInv, CurOK, Working
    <2>2. CASE status[cur[w]] # "leased"
        BY <1>5, <2>2 DEF ApplyOutcome, StillLeased, Moves, rowVars
    <2>3. CASE status[cur[w]] = "leased"
        <3>1. PICK s \in {"pending"} \cup Terminal : WriteJob(w, s)
            BY <1>5, <2>1, <2>3 DEF ApplyOutcome, StillLeased, Answers, Terminal, L!Terminal
        <3>2. QED
            BY <2>1, <2>3, <3>1, WriteMoves
    <2>4. QED
        BY <2>2, <2>3
<1>6. ASSUME NEW w \in Workers, ApplySuppression(w) \/ ApplyUpdateProcessed(w) PROVE Moves
    <2>1. cur[w] \in Jobs
        BY <1>6 DEF ApplySuppression, ApplyUpdateProcessed, ApplyEnding, StillLeased,
            Recording, TypeInv,
            CurOK, Working
    <2>2. CASE status[cur[w]] # "leased"
        BY <1>6, <2>2 DEF ApplySuppression, ApplyUpdateProcessed, ApplyEnding, StillLeased,
            Moves, rowVars
    <2>3. CASE status[cur[w]] = "leased"
        <3>1. PICK s \in {"pending"} \cup Terminal : WriteJob(w, s)
            BY <1>6, <2>3 DEF ApplySuppression, ApplyUpdateProcessed, ApplyEnding, StillLeased,
                Terminal,
                L!Terminal
        <3>2. QED
            BY <2>1, <2>3, <3>1, WriteMoves
    <2>4. QED
        BY <2>2, <2>3
<1>7. ASSUME NEW w \in Workers, ReleaseUnattempted(w) PROVE Moves
    BY <1>7 DEF ReleaseUnattempted, Released, Moves, L!Arrows
<1>8. CASE UNCHANGED status
    BY <1>8 DEF Moves
<1>9. ASSUME NEW w \in Workers, RequeueWithErrorCap(w) PROVE FALSE
    BY <1>9 DEF RequeueWithErrorCap, NoneFailing
<1>10. QED
    BY <1>1, <1>2, <1>3, <1>4, <1>5, <1>6, <1>7, <1>8, <1>9
       DEF Next, WorkerStep, vars, rowVars, ComeDue, LeaseLapse, BeginJob, Refuse, Call,
           Answer, EndTick, Exit, Restart, Throw, Stop, Crash

\* While processJob throws nothing, the outbox implements the job life cycle of
\* its header, under crashes, shutdowns, suppressions and lapsed leases alike.
THEOREM LifecycleImplemented ==
    ASSUME "throw" \notin Faults PROVE Spec => Lifecycle
<1>1. Init => TypeInv /\ NoneFailing
    BY InitTypeInv DEF Init, NoneFailing
<1>2. TypeInv /\ NoneFailing /\ [Next]_vars => TypeInv' /\ NoneFailing'
    BY NextTypeInv, NextNoneFailing
<1>3. Init => L!Init
    BY DEF Init, L!Init
<1>4. TypeInv /\ TypeInv' /\ NoneFailing /\ [Next]_vars => [L!Next]_status
    BY NextMoves DEF Moves, L!Next, TypeInv, TypeOK, RowsOK
<1>5. QED
    BY <1>1, <1>2, <1>3, <1>4, PTL DEF Spec, Lifecycle, L!Spec

\* A terminal status is never left, under the same condition.
THEOREM TerminalStays ==
    ASSUME "throw" \notin Faults PROVE Spec => TerminalIsFinal
<1>1. Init => TypeInv /\ NoneFailing
    BY InitTypeInv DEF Init, NoneFailing
<1>2. TypeInv /\ NoneFailing /\ [Next]_vars => TypeInv' /\ NoneFailing'
    BY NextTypeInv, NextNoneFailing
<1>3. TypeInv /\ NoneFailing /\ [Next]_vars
          => [\A j \in Jobs : status[j] \in Terminal => status'[j] = status[j]]_vars
    <2> SUFFICES ASSUME TypeInv, NoneFailing, [Next]_vars, NEW j \in Jobs,
                        status[j] \in Terminal
                 PROVE  status'[j] = status[j]
        OBVIOUS
    <2>1. L!Arrows(status[j]) = {}
        BY DEF Terminal, L!Terminal, L!Arrows
    <2>2. QED
        BY <2>1, NextMoves DEF Moves
<1>4. QED
    BY <1>1, <1>2, <1>3, PTL DEF Spec, TerminalIsFinal

-----------------------------------------------------------------------------
(* Exclusive leases: what a worker holds is leased to it alone, with the   *)
(* attempt it was claimed with, unless a hook suppressed it meanwhile.     *)

Steady == Faults \cap {"lapse", "throw"} = {}

HeldOK ==
    \A w \in Workers, j \in Jobs : j \in Held(w) =>
        /\ status[j] \in {"leased"} \cup Terminal
        /\ status[j] = "leased" => ~lapsed[j] /\ snap[w][j].attempt = attempt[j]

LeaseInv == TypeInv /\ NoneFailing /\ OneHolder /\ HeldOK

\* The end of processJob takes the job out of the worker's hands and changes
\* nothing it holds otherwise; a write of cur[w] disturbs no other job.
LEMMA FinalizerLeases ==
    ASSUME LeaseInv, NEW w \in Workers, cur[w] \in Jobs, EndJob(w), Moves,
           \A j \in Jobs \ {cur[w]} : /\ status'[j] = status[j]
                                      /\ attempt'[j] = attempt[j]
                                      /\ lapsed'[j] = lapsed[j]
    PROVE  OneHolder' /\ HeldOK'
<1> USE DEF LeaseInv, TypeInv, TypeOK, WorkersOK, CurOK, Working
<1>1. ASSUME NEW v \in Workers PROVE Held(v)' = IF v = w THEN Held(w) \ {cur[w]} ELSE Held(v)
    BY OutboxAssumption DEF EndJob, Held
<1>2. OneHolder'
    BY ZenonT(40), <1>1 DEF OneHolder
<1>3. HeldOK'
    <2> SUFFICES ASSUME NEW v \in Workers, NEW j \in Jobs, (j \in Held(v))'
                 PROVE  /\ status'[j] \in {"leased"} \cup Terminal
                        /\ status'[j] = "leased"
                              => ~lapsed'[j] /\ snap'[v][j].attempt = attempt'[j]
        BY DEF HeldOK, Terminal
    <2>1. j \in Held(v) /\ j # cur[w]
        BY <1>1 DEF OneHolder, Held
    <2>2. snap'[v][j] = snap[v][j]
        BY <2>1 DEF EndJob
    <2>3. QED
        BY ZenonT(40), <2>1, <2>2 DEF HeldOK
<1>4. QED
    BY <1>2, <1>3

LEMMA NextLeaseInv ==
    ASSUME Steady, LeaseInv, [Next]_vars
    PROVE  LeaseInv'
<1> USE DEF LeaseInv
<1> DEFINE Goal == OneHolder' /\ HeldOK'
<1>0. "throw" \notin Faults /\ "lapse" \notin Faults
    BY DEF Steady
<1>m. Moves
    BY <1>0, NextMoves
<1>f. ASSUME UNCHANGED <<todo, cur, snap>>,
             \A j \in Jobs : \/ status'[j] = status[j] /\ attempt'[j] = attempt[j]
                                /\ (status[j] = "leased" => lapsed'[j] = lapsed[j])
                             \/ \A w \in Workers : j \notin Held(w)
                             \/ status[j] \in Open /\ status'[j] \in Terminal
      PROVE  Goal
    BY <1>f, <1>m DEF OneHolder, HeldOK, Held, Moves, L!Arrows, Terminal, L!Terminal
<1>1. ASSUME NEW j \in Jobs, Enqueue(j) PROVE Goal
    <2>1. \A w \in Workers : j \notin Held(w)
        BY <1>1 DEF Enqueue, HeldOK, Terminal, L!Terminal
    <2>2. QED
        BY <1>1, <1>f, <2>1 DEF Enqueue, workerVars, TypeInv, TypeOK, RowsOK
<1>2. ASSUME NEW j \in Jobs, ComeDue(j) PROVE Goal
    BY <1>2, <1>f DEF ComeDue, workerVars
<1>3. ASSUME NEW j \in Jobs, LeaseLapse(j) PROVE Goal
    BY <1>0, <1>3, <1>f DEF LeaseLapse, workerVars, TypeInv, TypeOK, RowsOK
<1>4. ASSUME NEW g \in Hooks, SuppressQueued(g) PROVE Goal
    BY <1>4, <1>f DEF SuppressQueued, workerVars, Terminal, L!Terminal
<1>5. ASSUME NEW w \in Workers, RequeueExpired(w) PROVE Goal
    <2>1. \A j \in Jobs : status[j] = "leased" /\ lapsed[j] => \A v \in Workers : j \notin Held(v)
        BY DEF HeldOK
    <2>2. QED
        BY <1>5, <1>f, <2>1 DEF RequeueExpired, Expired
<1>6. ASSUME NEW w \in Workers, Claim(w) PROVE Goal
    <2>1. PICK S \in SUBSET Claimable :
            /\ status' = [j \in Jobs |-> IF j \in S THEN "leased" ELSE status[j]]
            /\ lapsed' = [j \in Jobs |-> IF j \in S THEN FALSE ELSE lapsed[j]]
            /\ todo' = [todo EXCEPT ![w] = S]
            /\ snap' = [snap EXCEPT ![w] =
                    [j \in Jobs |-> IF j \in S THEN [attempt |-> attempt[j], text |-> text[j]]
                                    ELSE Unclaimed]]
        BY <1>6 DEF Claim
    <2>2. /\ \A v \in Workers : Held(v)' = IF v = w THEN S ELSE Held(v)
          /\ \A v \in Workers : S \cap Held(v) = {}
        <3>1. cur[w] = NoJob /\ S \subseteq Jobs /\ UNCHANGED cur
            BY <1>6 DEF Claim, Claimable, TypeInv, CurOK, Working
        <3>2. \A v \in Workers : todo'[v] = IF v = w THEN S ELSE todo[v]
            BY <2>1 DEF TypeInv, TypeOK, WorkersOK
        <3>3. \A v \in Workers : Held(v)' = IF v = w THEN S ELSE Held(v)
            BY <3>1, <3>2, OutboxAssumption DEF Held
        <3>4. \A v \in Workers : S \cap Held(v) = {}
            BY <3>1 DEF Claimable, HeldOK, Terminal, L!Terminal
        <3>5. QED
            BY <3>3, <3>4
    <2>3. OneHolder'
        BY <2>2 DEF OneHolder
    <2>4. HeldOK'
        <3> SUFFICES ASSUME NEW v \in Workers, NEW j \in Jobs, (j \in Held(v))'
                     PROVE  /\ status'[j] \in {"leased"} \cup Terminal
                            /\ status'[j] = "leased"
                                  => ~lapsed'[j] /\ snap'[v][j].attempt = attempt'[j]
            BY DEF HeldOK, Terminal
        <3>1. CASE v = w
            BY <1>6, <2>1, <2>2, <3>1 DEF Claim, TypeInv, TypeOK, WorkersOK
        <3>2. CASE v # w
            BY <1>6, <2>1, <2>2, <3>2 DEF Claim, HeldOK, TypeInv, TypeOK, WorkersOK
        <3>3. QED
            BY <3>1, <3>2
    <2>5. QED
        BY <2>3, <2>4
<1>7. ASSUME NEW w \in Workers, NEW j \in Jobs, BeginJob(w, j) PROVE Goal
    <2>1. \A v \in Workers : Held(v)' = Held(v)
        <3>1. /\ \A v \in Workers \ {w} : todo'[v] = todo[v] /\ cur'[v] = cur[v]
              /\ todo'[w] = todo[w] \ {j} /\ cur'[w] = j /\ j \in todo[w] /\ cur[w] = NoJob
            BY <1>7 DEF BeginJob, TypeInv, TypeOK, WorkersOK, CurOK, Working
        <3>2. Held(w)' = Held(w)
            BY <3>1, OutboxAssumption DEF Held
        <3>3. \A v \in Workers \ {w} : Held(v)' = Held(v)
            BY <3>1 DEF Held
        <3>4. QED
            BY <3>2, <3>3
    <2>2. QED
        BY <1>7, <2>1 DEF BeginJob, OneHolder, HeldOK, rowVars, Terminal
<1>8. ASSUME NEW w \in Workers, Refuse(w) \/ Call(w) \/ (\E o \in Outcomes : Answer(w,
    o)) \/ EndTick(w) PROVE Goal
    BY <1>8, <1>f DEF Refuse, Call, Answer, EndTick, rowVars
<1>9. ASSUME NEW w \in Workers,
    ApplyOutcome(w) \/ ApplySuppression(w) \/ ApplyUpdateProcessed(w) PROVE Goal
    <2>1. cur[w] \in Jobs /\ EndJob(w)
        BY <1>9 DEF ApplyOutcome, ApplySuppression, ApplyUpdateProcessed, ApplyEnding,
            StillLeased, Recording,
            TypeInv, CurOK, Working
    <2> DEFINE UntouchedRows ==
            \A j \in Jobs \ {cur[w]} : /\ status'[j] = status[j]
                                       /\ attempt'[j] = attempt[j]
                                       /\ lapsed'[j] = lapsed[j]
    <2>2. UntouchedRows
        <3>1. CASE UNCHANGED rowVars
            BY <3>1 DEF rowVars
        <3>2. ASSUME NEW s, WriteJob(w, s) PROVE UntouchedRows
            BY <2>1, <3>2 DEF WriteJob, TypeInv, TypeOK, RowsOK
        <3>3. QED
            BY <1>9, <3>1, <3>2 DEF ApplyOutcome, ApplySuppression, ApplyUpdateProcessed,
                ApplyEnding, StillLeased
    <2>3. QED
        BY <1>m, <2>1, <2>2, FinalizerLeases
<1>10. ASSUME NEW w \in Workers, ReleaseUnattempted(w) \/ Exit(w) \/ Crash(w) PROVE Goal
    <2>1. \A v \in Workers : Held(v)' = IF v = w THEN {} ELSE Held(v)
        <3>1. /\ \A v \in Workers \ {w} : todo'[v] = todo[v] /\ cur'[v] = cur[v]
              /\ todo'[w] = {} /\ cur'[w] = NoJob
            BY <1>10 DEF ReleaseUnattempted, Released, Exit, Crash, Forget, TypeInv, TypeOK,
                WorkersOK
        <3>2. Held(w)' = {}
            BY <3>1, OutboxAssumption DEF Held
        <3>3. \A v \in Workers \ {w} : Held(v)' = Held(v)
            BY <3>1 DEF Held
        <3>4. QED
            BY <3>2, <3>3
    <2>2. \A v \in Workers, j \in Jobs : v # w /\ j \in Held(v)
              => status'[j] = status[j] /\ attempt'[j] = attempt[j] /\ lapsed'[j] = lapsed[j]
                 /\ snap'[v][j] = snap[v][j]
        <3> SUFFICES ASSUME NEW v \in Workers, NEW j \in Jobs, v # w, j \in Held(v)
                     PROVE  /\ status'[j] = status[j] /\ attempt'[j] = attempt[j]
                            /\ lapsed'[j] = lapsed[j] /\ snap'[v][j] = snap[v][j]
            OBVIOUS
        <3>1. snap'[v] = snap[v]
            BY <1>10 DEF ReleaseUnattempted, Released, Exit, Crash, Forget, TypeInv, TypeOK,
                WorkersOK
        <3>2. j \notin todo[w]
            BY DEF OneHolder, Held
        <3>3. QED
            BY <1>10, <3>1, <3>2 DEF ReleaseUnattempted, Released, Exit, Crash, rowVars
    <2>3. OneHolder'
        BY <2>1 DEF OneHolder
    <2>4. HeldOK'
        BY <2>1, <2>2 DEF HeldOK, Terminal
    <2>5. QED
        BY <2>3, <2>4
<1>11. ASSUME NEW w \in Workers, Restart(w) \/ Stop(w) PROVE Goal
    BY <1>11, <1>f DEF Restart, Stop, rowVars, workerVars
<1>12. ASSUME NEW w \in Workers, RequeueWithErrorCap(w) \/ Throw(w) PROVE FALSE
    BY <1>0, <1>12 DEF RequeueWithErrorCap, Throw, NoneFailing
<1>13. ASSUME UNCHANGED vars PROVE Goal
    BY <1>13 DEF vars, rowVars, workerVars, OneHolder, HeldOK, Held, Terminal
<1>14. Goal
    BY <1>1, <1>2, <1>3, <1>4, <1>5, <1>6, <1>7, <1>8, <1>9, <1>10, <1>11, <1>12, <1>13
       DEF Next, WorkerStep
<1>15. QED
    BY <1>0, <1>14, NextTypeInv, NextNoneFailing

\* While no lease lapses under a live worker and processJob throws nothing, no
\* job is ever in the hands of two workers.
THEOREM LeasesExclusive ==
    ASSUME Steady PROVE Spec => []OneHolder
<1>1. Init => LeaseInv
    BY InitTypeInv, OutboxAssumption DEF Init, LeaseInv, NoneFailing, OneHolder, HeldOK, Held
<1>2. LeaseInv /\ [Next]_vars => LeaseInv'
    BY NextLeaseInv
<1>3. LeaseInv => OneHolder
    BY DEF LeaseInv
<1>4. QED
    BY <1>1, <1>2, <1>3, PTL DEF Spec

-----------------------------------------------------------------------------
(* The cap on tries.  Between two tries the attempt column has counted at   *)
(* least as many as were made; a lease adds at most one try to them, and    *)
(* nothing is queued or leased whose attempt reached the cap (429s apart).  *)

CapOK ==
    \A j \in Jobs :
        /\ status[j] = "absent" => tries[j] = 0 /\ attempt[j] = 0
        /\ status[j] = "pending" => tries[j] <= attempt[j]
        /\ status[j] = "leased" => tries[j] <= attempt[j] + 1
        /\ status[j] \in Open => attempt[j] < MaxUnknownAttempts + limited[j]
        /\ tries[j] <= MaxUnknownAttempts + limited[j]

\* w claimed j and has not called its transport yet.
Waiting(w, j) == j \in todo[w] \/ (cur[w] = j /\ pc[w] = "checking")

WaitOK ==
    \A w \in Workers, j \in Jobs : Waiting(w, j) =>
        /\ tries[j] < MaxUnknownAttempts + limited[j]
        /\ status[j] = "leased" => tries[j] <= attempt[j]

LimitOK ==
    \A w \in Workers, j \in Jobs :
        (pc[w] = "recording" /\ outcome[w] = "rate_limited" /\ cur[w] = j /\ status[j] = "leased")
            => attempt[j] + 1 < MaxUnknownAttempts + limited[j]

CountOK == CapOK /\ WaitOK /\ LimitOK

CapInv == LeaseInv /\ CountOK

\* The counters are numbers, and who waits for a job holds it.
LEMMA CapFacts ==
    ASSUME CapInv
    PROVE  /\ MaxUnknownAttempts \in Nat
           /\ \A j \in Jobs : attempt[j] \in Nat /\ tries[j] \in Nat /\ limited[j] \in Nat
           /\ \A w \in Workers, j \in Jobs : Waiting(w, j) => j \in Held(w)
           /\ \A w \in Workers, j \in Jobs : j \in Held(w)
                 => status[j] \notin {"absent", "pending"}
           /\ \A v, w \in Workers, j \in Jobs : j \in Held(v) /\ j \in Held(w) => v = w
BY OutboxAssumption DEF CapInv, LeaseInv, TypeInv, TypeOK, RowsOK, HistoryOK, Waiting, Held,
    HeldOK, OneHolder, Terminal, L!Terminal

\* A step that leaves the counters alone, makes nobody wait who did not, and at
\* most ends leases and queues, keeps the count.
LEMMA QuietStep ==
    ASSUME CapInv, UNCHANGED <<attempt, tries, limited>>,
           \A w \in Workers, j \in Jobs : Waiting(w, j)' => Waiting(w, j),
           \A w \in Workers, j \in Jobs :
               (pc[w] = "recording" /\ outcome[w] = "rate_limited" /\ cur[w] = j)'
                  => pc[w] = "recording" /\ outcome[w] = "rate_limited" /\ cur[w] = j,
           \A j \in Jobs : \/ status'[j] = status[j]
                           \/ status'[j] = "suppressed"
                           \/ status[j] = "absent" /\ status'[j] = "pending"
    PROVE  CountOK'
<1> USE CapFacts DEF CapInv, CountOK
<1>1. CapOK'
    BY OutboxAssumption DEF CapOK, Open, L!Open
<1>2. WaitOK'
    BY DEF WaitOK
<1>3. LimitOK'
    BY DEF LimitOK
<1>4. QED
    BY <1>1, <1>2, <1>3

\* A finalizer ends the lease: the attempt grows by one, and the job is queued
\* again only below the cap.
LEMMA FinalizerCount ==
    ASSUME CapInv, NEW w \in Workers, NEW i \in Jobs, cur[w] = i, pc[w] = "recording", EndJob(w),
           UNCHANGED <<status, attempt>>
             \/ /\ status[i] = "leased" /\ attempt'[i] = attempt[i] + 1
                /\ status'[i] \in {"pending"} \cup Terminal
                /\ status'[i] = "pending" => attempt[i] + 1 < MaxUnknownAttempts + limited[i]
                /\ \A j \in Jobs \ {i} : status'[j] = status[j] /\ attempt'[j] = attempt[j]
    PROVE  CountOK'
<1> USE CapFacts DEF CapInv, CountOK
<1>1. /\ UNCHANGED <<tries, limited, todo>>
      /\ pc' = [pc EXCEPT ![w] = "batch"]
      /\ cur' = [cur EXCEPT ![w] = NoJob]
      /\ outcome' = [outcome EXCEPT ![w] = "none"]
    BY DEF EndJob, historyVars
<1>2. pc \in [Workers -> Phases] /\ cur \in [Workers -> Jobs \cup {NoJob}]
      /\ outcome \in [Workers -> Outcomes]
    BY DEF LeaseInv, TypeInv, TypeOK, WorkersOK
<1>3. \A v \in Workers, j \in Jobs : Waiting(v, j)' => Waiting(v, j) /\ j # i
    <2>1. i \in Held(w) /\ i \notin todo[w]
        BY DEF Held, LeaseInv, TypeInv, CurOK, Working
    <2>2. \A v \in Workers, j \in Jobs : Waiting(v, j)' => Waiting(v, j)
        BY <1>1, <1>2 DEF Waiting
    <2>3. \A v \in Workers : ~Waiting(v, i)
        BY <2>1 DEF Waiting
    <2>4. QED
        BY <2>2, <2>3
<1>4. CapOK'
    BY <1>1 DEF CapOK, Open, L!Open, Terminal, L!Terminal
<1>5. WaitOK'
    BY <1>1, <1>3 DEF WaitOK
<1>6. LimitOK'
    <2> SUFFICES ASSUME NEW v \in Workers, NEW j \in Jobs,
                        (pc[v] = "recording" /\ outcome[v] = "rate_limited" /\ cur[v] = j)',
                        status'[j] = "leased"
                 PROVE  attempt'[j] + 1 < MaxUnknownAttempts + limited'[j]
        BY DEF LimitOK
    <2>1. v # w /\ pc[v] = "recording" /\ outcome[v] = "rate_limited" /\ cur[v] = j
        BY <1>1, <1>2
    <2>2. j # i
        BY <2>1 DEF Held
    <2>3. QED
        BY <1>1, <2>1, <2>2 DEF LimitOK
<1>7. QED
    BY <1>4, <1>5, <1>6

LEMMA NextCapInv ==
    ASSUME Steady, CapInv, [Next]_vars
    PROVE  CapInv'
<1> USE CapFacts DEF CapInv
<1> DEFINE Goal == CountOK'
<1>0. "throw" \notin Faults /\ LeaseInv'
    BY NextLeaseInv DEF Steady
<1>t. /\ status \in [Jobs -> L!Statuses] /\ attempt \in [Jobs -> Nat] /\ tries \in [Jobs -> Nat]
      /\ limited \in [Jobs -> Nat] /\ todo \in [Workers -> SUBSET Jobs]
      /\ pc \in [Workers -> Phases]
      /\ cur \in [Workers -> Jobs \cup {NoJob}] /\ outcome \in [Workers -> Outcomes]
    BY DEF LeaseInv, TypeInv, TypeOK, RowsOK, WorkersOK, HistoryOK
<1>c. \A w \in Workers : /\ pc[w] \in {"checking", "calling", "recording"}
                              => cur[w] \in Jobs /\ cur[w] \in Held(w) /\ cur[w] \notin todo[w]
                         /\ pc[w] \in {"idle", "claiming", "batch"} => cur[w] = NoJob
    BY DEF LeaseInv, TypeInv, CurOK, Working, Held
<1>1. ASSUME NEW j \in Jobs, Enqueue(j) \/ ComeDue(j) \/ LeaseLapse(j) PROVE Goal
    BY <1>1, <1>t, QuietStep DEF Enqueue, ComeDue, LeaseLapse, workerVars, historyVars, Waiting
<1>2. ASSUME NEW g \in Hooks, SuppressQueued(g) PROVE Goal
    BY <1>2, <1>t, QuietStep DEF SuppressQueued, workerVars, historyVars, Waiting
<1>3. ASSUME NEW w \in Workers, RequeueExpired(w) PROVE Goal
    <2> DEFINE expired == {j \in Jobs : status[j] = "leased" /\ lapsed[j]}
    <2>1. \A v \in Workers, j \in expired : j \notin Held(v)
        BY DEF LeaseInv, HeldOK
    <2>2. /\ \A j \in Jobs \ expired : status'[j] = status[j] /\ attempt'[j] = attempt[j]
          /\ \A j \in expired : /\ attempt'[j] = attempt[j] + 1
                                /\ \/ status'[j] = "unknown"
                                   \/ status'[j] = "pending" /\ attempt'[j] < MaxUnknownAttempts
          /\ UNCHANGED <<tries, limited, todo, cur, outcome>>
          /\ pc[w] = "idle" /\ pc' = [pc EXCEPT ![w] = "claiming"]
        BY <1>3, <1>t DEF RequeueExpired, Expired, historyVars
    <2>3. \A v \in Workers, j \in Jobs : Waiting(v, j)' => Waiting(v, j) /\ j \notin expired
        BY <1>t, <2>1, <2>2 DEF Waiting
    <2>4. CapOK'
        BY <1>t, <2>2 DEF CountOK, CapOK, Open, L!Open
    <2>5. WaitOK'
        BY <1>t, <2>2, <2>3 DEF CountOK, WaitOK
    <2>6. LimitOK'
        BY <1>t, <1>c, <2>1, <2>2 DEF CountOK, LimitOK
    <2>7. QED
        BY <2>4, <2>5, <2>6 DEF CountOK
<1>4. ASSUME NEW w \in Workers, Claim(w) PROVE Goal
    <2>1. PICK S \in SUBSET Claimable :
            /\ status' = [j \in Jobs |-> IF j \in S THEN "leased" ELSE status[j]]
            /\ todo' = [todo EXCEPT ![w] = S]
        BY <1>4 DEF Claim
    <2>2. /\ UNCHANGED <<attempt, tries, limited, cur, outcome>>
          /\ pc[w] = "claiming" /\ pc' = [pc EXCEPT ![w] = "batch"]
        BY <1>4 DEF Claim
    <2>3. \A j \in S : status[j] = "pending" /\ j \in Jobs /\ \A v \in Workers : j \notin Held(v)
        BY DEF Claimable
    <2>4. \A v \in Workers, j \in Jobs : Waiting(v, j)' => j \in S \/ Waiting(v, j)
        BY <1>t, <2>1, <2>2 DEF Waiting
    <2>5. CapOK'
        BY <1>t, <2>1, <2>2, <2>3 DEF CountOK, CapOK, Open, L!Open
    <2>6. WaitOK'
        BY <1>t, <2>1, <2>2, <2>3, <2>4 DEF CountOK, CapOK, WaitOK, Open, L!Open
    <2>7. LimitOK'
        BY <1>t, <1>c, <2>1, <2>2, <2>3 DEF CountOK, LimitOK
    <2>8. QED
        BY <2>5, <2>6, <2>7 DEF CountOK
<1>5. ASSUME NEW w \in Workers, NEW j \in Jobs, BeginJob(w, j) PROVE Goal
    BY <1>5, <1>t, <1>c, QuietStep DEF BeginJob, rowVars, historyVars, Waiting
<1>6. ASSUME NEW w \in Workers, Refuse(w) \/ EndTick(w) \/ Restart(w) \/ Stop(w) PROVE Goal
    BY <1>6, <1>t, QuietStep DEF Refuse, EndTick, Restart, Stop, rowVars, workerVars,
        historyVars, Waiting
<1>7. ASSUME NEW w \in Workers, Call(w) PROVE Goal
    <2>1. PICK i \in Jobs : cur[w] = i /\ i \in Held(w) /\ Waiting(w, i)
        BY <1>7, <1>c DEF Call, Waiting
    <2>2. /\ tries' = [tries EXCEPT ![i] = @ + 1]
          /\ pc' = [pc EXCEPT ![w] = "calling"] /\ pc[w] = "checking"
          /\ UNCHANGED <<status, attempt, limited, todo, cur, outcome>>
        BY <1>7, <2>1 DEF Call, rowVars
    <2>3. \A v \in Workers, j \in Jobs : Waiting(v, j)' => Waiting(v, j) /\ j # i
        <3>1. \A v \in Workers, j \in Jobs : Waiting(v, j)' => Waiting(v, j)
            BY <1>t, <2>2 DEF Waiting
        <3>2. \A v \in Workers : ~Waiting(v, i)'
            BY <1>t, <1>c, <2>1, <2>2, <3>1 DEF Waiting
        <3>3. QED
            BY <3>1, <3>2
    <2>4. CapOK'
        BY <1>t, <2>1, <2>2 DEF CountOK, CapOK, WaitOK
    <2>5. WaitOK'
        BY <1>t, <2>2, <2>3 DEF CountOK, WaitOK
    <2>6. LimitOK'
        BY <1>t, <2>2 DEF CountOK, LimitOK
    <2>7. QED
        BY <2>4, <2>5, <2>6 DEF CountOK
<1>8. ASSUME NEW w \in Workers, NEW o \in Outcomes, Answer(w, o) PROVE Goal
    <2>1. PICK i \in Jobs : cur[w] = i /\ i \in Held(w)
        BY <1>8, <1>c DEF Answer
    <2>2. /\ pc' = [pc EXCEPT ![w] = "recording"] /\ pc[w] = "calling"
          /\ outcome' = [outcome EXCEPT ![w] = o]
          /\ UNCHANGED <<status, attempt, tries, todo, cur>>
          /\ limited' = IF o = "rate_limited" THEN [limited EXCEPT ![i] = @ + 1] ELSE limited
        BY <1>8, <2>1 DEF Answer, rowVars
    <2>3. \A v \in Workers, j \in Jobs : Waiting(v, j)' => Waiting(v, j)
        BY <1>t, <2>2 DEF Waiting
    <2>l. \A j \in Jobs : limited'[j] \in Nat /\ limited[j] <= limited'[j]
        BY <1>t, <2>2
    <2>4. CapOK'
        BY <1>t, <2>2, <2>l DEF CountOK, CapOK
    <2>5. WaitOK'
        BY <1>t, <2>2, <2>3, <2>l DEF CountOK, WaitOK
    <2>6. LimitOK'
        BY <1>t, <2>1, <2>2, <2>l DEF CountOK, LimitOK, CapOK, Open, L!Open
    <2>7. QED
        BY <2>4, <2>5, <2>6 DEF CountOK
<1>9. ASSUME NEW w \in Workers, ApplyOutcome(w) \/ ApplySuppression(w) \/ ApplyUpdateProcessed(w)
      PROVE  Goal
    <2>1. PICK i \in Jobs : cur[w] = i /\ i \in Held(w)
        BY <1>9, <1>c DEF ApplyOutcome, ApplySuppression, ApplyUpdateProcessed, ApplyEnding,
            StillLeased, Recording
    <2>2. pc[w] = "recording" /\ EndJob(w)
        BY <1>9 DEF ApplyOutcome, ApplySuppression, ApplyUpdateProcessed, ApplyEnding,
            StillLeased, Recording
    <2>3. CASE status[i] # "leased"
        BY <1>9, <2>1, <2>2, <2>3, FinalizerCount
           DEF ApplyOutcome, ApplySuppression, ApplyUpdateProcessed, ApplyEnding, StillLeased,
               rowVars
    <2>4. CASE status[i] = "leased"
        <3>1. NextAttempt(w) = attempt[i] + 1
            BY <2>1, <2>4 DEF NextAttempt, LeaseInv, HeldOK
        <3>2. PICK s \in {"pending"} \cup Terminal :
                /\ WriteJob(w, s)
                /\ s = "pending" => \/ outcome[w] = "rate_limited"
                                    \/ NextAttempt(w) < MaxUnknownAttempts
            <4>1. CASE ApplyOutcome(w)
                <5>1. outcome[w] \in Answers
                    BY <4>1 DEF ApplyOutcome, StillLeased, Recording
                <5>2. QED
                    BY <2>1, <2>4, <4>1, <5>1 DEF ApplyOutcome, StillLeased, Answers, Terminal,
                        L!Terminal
            <4>2. CASE ApplySuppression(w) \/ ApplyUpdateProcessed(w)
                BY <2>1, <2>4, <4>2 DEF ApplySuppression, ApplyUpdateProcessed, ApplyEnding,
                    StillLeased, Terminal,
                    L!Terminal
            <4>3. QED
                BY <1>9, <4>1, <4>2
        <3>3. /\ status'[i] = s /\ attempt'[i] = attempt[i] + 1
              /\ \A j \in Jobs \ {i} : status'[j] = status[j] /\ attempt'[j] = attempt[j]
            BY <1>t, <2>1, <3>1, <3>2 DEF WriteJob
        <3>4. s = "pending" => attempt[i] + 1 < MaxUnknownAttempts + limited[i]
            BY <2>1, <2>2, <2>4, <3>1, <3>2 DEF CountOK, LimitOK
        <3>5. QED
            BY <2>1, <2>2, <2>4, <3>3, <3>4, FinalizerCount
    <2>5. QED
        BY <2>3, <2>4
<1>10. ASSUME NEW w \in Workers, ReleaseUnattempted(w) PROVE Goal
    <2>1. /\ \A j \in Jobs : \/ status'[j] = status[j]
                             \/ status[j] = "leased" /\ status'[j] = "pending" /\ j \in todo[w]
          /\ UNCHANGED <<attempt, tries, limited>>
        BY <1>10, <1>t DEF ReleaseUnattempted, Released, historyVars
    <2>2. \A v \in Workers : /\ v # w => todo'[v] = todo[v] /\ pc'[v] = pc[v] /\ cur'[v] = cur[v]
                                         /\ outcome'[v] = outcome[v]
                             /\ v = w => todo'[v] = {} /\ pc'[v] = "down" /\ cur'[v] = NoJob
        BY <1>10, <1>t DEF ReleaseUnattempted, Released, Forget
    <2>3. \A v \in Workers, j \in Jobs : Waiting(v, j)' => Waiting(v, j)
        BY <2>2 DEF Waiting
    <2>4. \A j \in todo[w] : Waiting(w, j)
        BY DEF Waiting
    <2>5. CapOK'
        BY <1>t, <2>1, <2>4 DEF CountOK, CapOK, WaitOK, Open, L!Open
    <2>6. WaitOK'
        BY <2>1, <2>3 DEF CountOK, WaitOK
    <2>7. LimitOK'
        BY <2>1, <2>2 DEF CountOK, LimitOK
    <2>8. QED
        BY <2>5, <2>6, <2>7 DEF CountOK
<1>11. ASSUME NEW w \in Workers, Exit(w) \/ Crash(w) PROVE Goal
    <2>1. /\ UNCHANGED <<status, attempt, tries, limited>>
          /\ \A v \in Workers : /\ v # w => todo'[v] = todo[v] /\ pc'[v] = pc[v] /\ cur'[v] = cur[v]
                                            /\ outcome'[v] = outcome[v]
                                /\ v = w => todo'[v] = {} /\ pc'[v] = "down" /\ cur'[v] = NoJob
        BY <1>11, <1>t DEF Exit, Crash, Forget, rowVars, historyVars
    <2>2. \A v \in Workers, j \in Jobs : Waiting(v, j)' => Waiting(v, j)
        BY <2>1 DEF Waiting
    <2>3. QED
        BY <2>1, <2>2, QuietStep
<1>12. ASSUME NEW w \in Workers, RequeueWithErrorCap(w) \/ Throw(w) PROVE FALSE
    BY <1>0, <1>12 DEF RequeueWithErrorCap, Throw, LeaseInv, NoneFailing
<1>13. ASSUME UNCHANGED vars PROVE Goal
    BY <1>13, QuietStep DEF vars, rowVars, workerVars, historyVars, Waiting
<1>14. Goal
    BY <1>1, <1>2, <1>3, <1>4, <1>5, <1>6, <1>7, <1>8, <1>9, <1>10, <1>11, <1>12, <1>13
       DEF Next, WorkerStep
<1>15. QED
    BY <1>0, <1>14

\* Under the same condition no job is tried more than MaxUnknownAttempts times,
\* 429 answers apart, over all its retries, crashes and releases.
THEOREM TriesStayCapped ==
    ASSUME Steady PROVE Spec => []TriesCapped
<1>1. Init => CapInv
    <2> SUFFICES ASSUME Init PROVE CapInv
        OBVIOUS
    <2>1. LeaseInv
        BY InitTypeInv, OutboxAssumption
           DEF Init, LeaseInv, NoneFailing, OneHolder, HeldOK, Held
    <2>2. CountOK
        BY OutboxAssumption DEF Init, CountOK, CapOK, WaitOK, LimitOK, Waiting, Open, L!Open
    <2>3. QED
        BY <2>1, <2>2 DEF CapInv
<1>2. CapInv /\ [Next]_vars => CapInv'
    BY NextCapInv
<1>3. CapInv => TriesCapped
    BY DEF CapInv, CountOK, CapOK, TriesCapped
<1>4. QED
    BY <1>1, <1>2, <1>3, PTL DEF Spec

-----------------------------------------------------------------------------
(* No second try of what is recorded.  A stale row is what a worker calls   *)
(* the transport with; the invariant says that the only change it can miss  *)
(* is a suppression.                                                        *)

Unrecorded ==
    \A w \in Workers, j \in Jobs : j \in Held(w) => status[j] \in {"leased", "suppressed"}

RecordInv == LeaseInv /\ Unrecorded

LEMMA NextRecordInv ==
    ASSUME Steady, RecordInv, [Next]_vars
    PROVE  RecordInv'
<1> DEFINE Drops == \A v \in Workers, j \in Jobs : (j \in Held(v))' => j \in Held(v)
<1>0. LeaseInv' /\ LeaseInv /\ Unrecorded /\ OneHolder /\ HeldOK /\ "throw" \notin Faults
    BY NextLeaseInv DEF RecordInv, LeaseInv, Steady
<1>t. /\ status \in [Jobs -> L!Statuses] /\ todo \in [Workers -> SUBSET Jobs]
      /\ pc \in [Workers -> Phases] /\ cur \in [Workers -> Jobs \cup {NoJob}]
      /\ NoJob \notin Jobs
    BY OutboxAssumption DEF RecordInv, LeaseInv, TypeInv, TypeOK, RowsOK, WorkersOK
<1>c. \A w \in Workers : /\ pc[w] \in {"checking", "calling", "recording"}
                              => cur[w] \in Jobs /\ cur[w] \in Held(w) /\ cur[w] \notin todo[w]
    BY DEF RecordInv, LeaseInv, TypeInv, CurOK, Working, Held
<1>q. ASSUME Drops,
             \A j \in Jobs : \/ status'[j] = status[j]
                             \/ status'[j] = "suppressed"
                             \/ \A v \in Workers : (j \notin Held(v))'
      PROVE  Unrecorded'
    BY <1>q, <1>0 DEF Unrecorded
<1>k. ASSUME UNCHANGED <<todo, cur>> PROVE Drops
    BY <1>k DEF Held
<1>1. ASSUME NEW j \in Jobs, Enqueue(j) \/ ComeDue(j) \/ LeaseLapse(j) PROVE Unrecorded'
    <2>1. Drops /\ \A i \in Jobs : status'[i] = status[i] \/ status[i] = "absent"
        BY <1>1, <1>k, <1>t DEF Enqueue, ComeDue, LeaseLapse, workerVars
    <2>2. QED
        BY <1>0, <1>q, <2>1 DEF Unrecorded
<1>2. ASSUME NEW g \in Hooks, SuppressQueued(g) PROVE Unrecorded'
    BY <1>2, <1>k, <1>q, <1>t DEF SuppressQueued, workerVars
<1>3. ASSUME NEW w \in Workers, RequeueExpired(w) PROVE Unrecorded'
    <2>1. Drops /\ \A i \in Jobs : status'[i] = status[i] \/ i \in Expired
        BY <1>3, <1>k DEF RequeueExpired
    <2>2. \A v \in Workers, i \in Expired : i \notin Held(v)
        BY <1>0 DEF HeldOK, Expired
    <2>3. QED
        BY <1>q, <2>1, <2>2
<1>4. ASSUME NEW w \in Workers, Claim(w) PROVE Unrecorded'
    <2>1. PICK S \in SUBSET Claimable :
            /\ status' = [j \in Jobs |-> IF j \in S THEN "leased" ELSE status[j]]
            /\ todo' = [todo EXCEPT ![w] = S]
        BY <1>4 DEF Claim
    <2>2. UNCHANGED cur
          /\ \A v \in Workers, j \in Jobs : (j \in Held(v))' => j \in Held(v) \/ j \in S
        BY <1>4, <1>t, <2>1 DEF Claim, Held
    <2>3. QED
        BY <1>0, <2>1, <2>2 DEF Unrecorded
<1>5. ASSUME NEW w \in Workers, NEW j \in Jobs, BeginJob(w, j) PROVE Unrecorded'
    <2>1. Drops /\ UNCHANGED status
        BY <1>5, <1>t DEF BeginJob, Held, rowVars
    <2>2. QED
        BY <1>q, <2>1
<1>6. ASSUME NEW w \in Workers, \/ Refuse(w) \/ Call(w) \/ EndTick(w) \/ Restart(w) \/ Stop(w)
                                \/ \E o \in Outcomes : Answer(w, o)
      PROVE  Unrecorded'
    BY <1>6, <1>k, <1>q DEF Refuse, Call, EndTick, Restart, Stop, Answer, rowVars, workerVars
<1>7. ASSUME NEW w \in Workers, ApplyOutcome(w) \/ ApplySuppression(w) \/ ApplyUpdateProcessed(w)
      PROVE  Unrecorded'
    <2>1. /\ pc[w] = "recording" /\ UNCHANGED todo /\ cur' = [cur EXCEPT ![w] = NoJob]
          /\ \A j \in Jobs \ {cur[w]} : status'[j] = status[j]
        BY <1>7, <1>t DEF ApplyOutcome, ApplySuppression, ApplyUpdateProcessed, ApplyEnding,
            Recording, EndJob, WriteJob, rowVars
    <2>2. Drops
        BY <1>t, <2>1 DEF Held
    <2>3. PICK i \in Jobs : cur[w] = i /\ i \in Held(w) /\ i \notin todo[w]
        BY <1>c, <2>1
    <2>4. \A v \in Workers : (i \notin Held(v))'
        <3>1. \A v \in Workers \ {w} : i \notin Held(v)
            BY <1>0, <2>3 DEF OneHolder
        <3>2. \A v \in Workers : i \notin todo'[v] /\ cur'[v] # i
            BY <1>t, <2>1, <2>3, <3>1 DEF Held
        <3>3. QED
            BY <3>2 DEF Held
    <2>5. QED
        BY <1>q, <2>1, <2>2, <2>3, <2>4
<1>8. ASSUME NEW w \in Workers, ReleaseUnattempted(w) \/ Exit(w) \/ Crash(w) PROVE Unrecorded'
    <2>1. /\ \A v \in Workers : /\ v # w => todo'[v] = todo[v] /\ cur'[v] = cur[v]
                                /\ v = w => todo'[v] = {} /\ cur'[v] = NoJob
          /\ \A j \in Jobs : status'[j] = status[j] \/ j \in todo[w]
        BY <1>8, <1>t DEF ReleaseUnattempted, Released, Exit, Crash, Forget, rowVars
    <2>2. Drops
        BY <2>1, <1>t DEF Held
    <2>3. \A v \in Workers \ {w}, j \in todo[w] : (j \notin Held(v))'
        BY <1>0, <2>1 DEF OneHolder, Held
    <2>4. \A j \in Jobs : (j \notin Held(w))'
        BY <2>1, <1>t DEF Held
    <2>5. QED
        BY <1>q, <2>1, <2>2, <2>3, <2>4
<1>9. ASSUME NEW w \in Workers, RequeueWithErrorCap(w) \/ Throw(w) PROVE FALSE
    BY <1>0, <1>9 DEF RequeueWithErrorCap, Throw, LeaseInv, NoneFailing
<1>10. ASSUME UNCHANGED vars PROVE Unrecorded'
    BY <1>10, <1>k, <1>q DEF vars, rowVars, workerVars
<1>11. Unrecorded'
    BY <1>1, <1>2, <1>3, <1>4, <1>5, <1>6, <1>7, <1>8, <1>9, <1>10 DEF Next, WorkerStep
<1>12. QED
    BY <1>0, <1>11 DEF RecordInv

\* Only Call hands a job to its transport.
LEMMA OnlyCallTries ==
    ASSUME TypeInv, [Next]_vars, NEW j \in Jobs, tries'[j] # tries[j]
    PROVE  \E w \in Workers : Call(w) /\ cur[w] = j
<1>1. ASSUME NEW w \in Workers, WorkerStep(w), ~Call(w) PROVE UNCHANGED tries
    BY <1>1 DEF WorkerStep, RequeueExpired, Claim, BeginJob, Refuse, Answer, ApplyOutcome,
        ApplySuppression, ApplyUpdateProcessed, ApplyEnding, RequeueWithErrorCap, EndJob, EndTick,
        ReleaseUnattempted, Exit, Restart, historyVars
<1>2. ASSUME NEW w \in Workers, Throw(w) \/ Stop(w) \/ Crash(w) PROVE UNCHANGED tries
    BY <1>2 DEF Throw, Stop, Crash, historyVars
<1>3. ASSUME \/ \E i \in Jobs : Enqueue(i) \/ ComeDue(i) \/ LeaseLapse(i)
             \/ \E g \in Hooks : SuppressQueued(g)
             \/ UNCHANGED vars
      PROVE  UNCHANGED tries
    BY <1>3 DEF Enqueue, ComeDue, LeaseLapse, SuppressQueued, vars, historyVars
<1>4. PICK w \in Workers : Call(w)
    BY <1>1, <1>2, <1>3 DEF Next
<1>5. cur[w] = j
    BY <1>4 DEF Call, TypeInv, TypeOK, HistoryOK
<1>6. QED
    BY <1>4, <1>5

\* RecordedNotRetried of Spec: while no lease lapses under a live worker and no
\* exception re-queues a row, a message whose outcome is recorded is never handed to a
\* transport again, whatever crashes, shutdowns and suppressions come between.
THEOREM NoSecondTry ==
    ASSUME Steady PROVE Spec => RecordedNotRetried
<1>1. Init => RecordInv
    BY InitTypeInv, OutboxAssumption
       DEF Init, RecordInv, Unrecorded, LeaseInv, NoneFailing, OneHolder, HeldOK, Held
<1>2. RecordInv /\ [Next]_vars => RecordInv'
    BY NextRecordInv
<1> DEFINE Step == \A j \in Jobs : tries'[j] # tries[j]
                      => status[j] \notin {"sent", "delivered", "failed", "unknown"}
<1>3. RecordInv /\ [Next]_vars => Step
    <2> SUFFICES ASSUME RecordInv, [Next]_vars, NEW j \in Jobs, tries'[j] # tries[j]
                 PROVE  status[j] \notin {"sent", "delivered", "failed", "unknown"}
        OBVIOUS
    <2>1. PICK w \in Workers : Call(w) /\ cur[w] = j
        BY OnlyCallTries DEF RecordInv, LeaseInv
    <2>2. j \in Held(w)
        BY <2>1 DEF Held
    <2>3. QED
        BY <2>2 DEF RecordInv, Unrecorded
<1>4. QED
    BY <1>1, <1>2, <1>3, PTL DEF Spec, RecordedNotRetried

-----------------------------------------------------------------------------
(* TriesBounded.  A job is given a purse: the tries its row and every      *)
(* worker that holds it can still lead to.  A row re-queued at attempt a   *)
(* is worth Worth(a) tries, because a claim turns it into one try and two  *)
(* rows at attempt a + 1, the retry of the claimant and that of the lease  *)
(* that expires under it.  A try spends a coin, an answer 429 pays for the *)
(* try it allows, and a shutdown for the one batch it releases.  The purse *)
(* is a set of coins, its sum the cardinality.                             *)

\* A set of n elements has 2^n subsets.
LEMMA PowerIsSubsets ==
    ASSUME NEW n \in Nat
    PROVE  IsFiniteSet(SUBSET (1..n)) /\ Cardinality(SUBSET (1..n)) = 2^n /\ 2^n \in Nat
<1>1. IsFiniteSet(1..n) /\ Cardinality(1..n) = n
    BY FS_Interval
<1>2. IsFiniteSet(SUBSET (1..n)) /\ Cardinality(SUBSET (1..n)) = 2^n
    BY <1>1, FS_SUBSET
<1>3. QED
    BY <1>2, FS_CardinalityType

LEMMA PowerOfZero == 2^0 = 1
<1>1. 1..0 = {} /\ SUBSET {} = {{}}
    OBVIOUS
<1>2. QED
    BY <1>1, PowerIsSubsets, FS_Singleton

\* The subsets with n + 1 are as many as those without it.
LEMMA PowerDoubles ==
    ASSUME NEW n \in Nat
    PROVE  2^(n + 1) = 2 * 2^n
<1> DEFINE A == SUBSET (1..n)
           f == [s \in A |-> s \cup {n + 1}]
           B == {s \cup {n + 1} : s \in A}
<1>1. f \in Bijection(A, B)
  <2>1. f \in Surjection(A, B)
    BY DEF Surjection
  <2>2. ASSUME NEW s \in A, NEW t \in A, f[s] = f[t] PROVE s = t
    <3>1. s \cup {n + 1} = t \cup {n + 1} /\ n + 1 \notin s /\ n + 1 \notin t
      BY <2>2
    <3> QED
      BY <3>1
  <2> QED
    BY <2>1, <2>2 DEF Bijection, Injection, Surjection, IsInjective
<1>2. IsFiniteSet(B) /\ Cardinality(B) = 2^n
    BY <1>1, PowerIsSubsets, FS_Bijection DEF ExistsBijection
<1>3. SUBSET (1..(n + 1)) = A \cup B
  <2>1. ASSUME NEW s \in SUBSET (1..(n + 1)) PROVE s \in A \cup B
    <3>1. CASE n + 1 \in s
      <4>1. s \ {n + 1} \in A /\ s = (s \ {n + 1}) \cup {n + 1}
        BY <3>1
      <4> QED
        BY <4>1
    <3>2. CASE n + 1 \notin s
      BY <3>2
    <3> QED
      BY <3>1, <3>2
  <2>2. ASSUME NEW s \in A PROVE s \in SUBSET (1..(n + 1)) /\ s \cup {n + 1} \in SUBSET (1..(n + 1))
    <3>1. \A x \in s : x \in 1..(n + 1)
      OBVIOUS
    <3>2. n + 1 \in 1..(n + 1)
      OBVIOUS
    <3> QED
      BY <3>1, <3>2
  <2>3. A \subseteq SUBSET (1..(n + 1)) /\ B \subseteq SUBSET (1..(n + 1))
    <3> DEFINE C == SUBSET (1..(n + 1))
    <3>1. \A s \in A : s \in C /\ s \cup {n + 1} \in C
      BY <2>2
    <3> HIDE DEF A, C
    <3>2. A \subseteq C /\ B \subseteq C
      BY <3>1
    <3> QED
      BY <3>2 DEF C
  <2> HIDE DEF A, B
  <2> QED
    BY <2>1, <2>3, Zenon
<1>4. A \cap B = {}
    OBVIOUS
<1> HIDE DEF A, B
<1>5. PICK p \in Nat : p = 2^n
    BY PowerIsSubsets
<1>6. IsFiniteSet(A) /\ Cardinality(A) = p /\ IsFiniteSet(B) /\ Cardinality(B) = p
    BY <1>2, <1>5, PowerIsSubsets DEF A
<1>7. Cardinality(A \cup B) = 2 * p
    BY <1>4, <1>6, FS_Union, FS_EmptySet
<1>8. Cardinality(A \cup B) = 2^(n + 1)
    BY <1>3, PowerIsSubsets
<1>9. QED
    BY <1>5, <1>7, <1>8

LEMMA PowersGrow ==
    ASSUME NEW n \in Nat, NEW m \in 0..n
    PROVE  1 <= 2^m /\ 2^m <= 2^n
<1>1. SUBSET (1..m) \in SUBSET SUBSET (1..n)
    OBVIOUS
<1>2. Cardinality(SUBSET (1..m)) <= Cardinality(SUBSET (1..n))
    BY <1>1, PowerIsSubsets, FS_Subset
<1>3. Cardinality(SUBSET (1..m)) # 0 /\ m \in Nat
    BY PowerIsSubsets, FS_EmptySet
<1>4. PICK p \in Nat, q \in Nat : p = 2^m /\ q = 2^n
    BY <1>3, PowerIsSubsets
<1>5. p <= q /\ p # 0
    BY <1>2, <1>3, <1>4, PowerIsSubsets
<1>6. QED
    BY <1>4, <1>5

Worth(a) == IF a < MaxUnknownAttempts THEN 2^(MaxUnknownAttempts - a) - 1 ELSE 0

RowWorth(j) ==
    CASE status[j] = "absent" -> Worth(0)
      [] status[j] = "pending" -> IF attempt[j] < MaxUnknownAttempts THEN Worth(attempt[j]) ELSE 1
      [] status[j] = "leased" -> Worth(attempt[j] + 1)
      [] OTHER -> 0

\* w has been answered 429.
Limited(w) == pc[w] = "recording" /\ outcome[w] = "rate_limited"

JobWorth(w, j) ==
    LET retry == Worth(snap[w][j].attempt + 1) IN
    CASE Waiting(w, j) -> retry + 1
      [] cur[w] = j /\ ~Waiting(w, j) -> IF Limited(w) THEN retry + 1 ELSE retry
      [] OTHER -> 0

StopWorth(w) == IF stopping[w] /\ pc[w] # "down" THEN Worth(0) ELSE 0

HandWorth(w, j) == JobWorth(w, j) + StopWorth(w)

Coins(kind, x, n) == {<<kind, x>>} \X (1..n)

HandCoins(w, j) == Coins("hand", w, HandWorth(w, j))

Purse(j) == Coins("row", j, RowWorth(j)) \cup UNION {HandCoins(w, j) : w \in Workers}

PurseOK ==
    \A j \in Jobs :
        /\ IsFiniteSet(Purse(j))
        /\ tries[j] + Cardinality(Purse(j)) <= (1 + outages) * Worth(0) + limited[j]

PurseInv == TypeInv /\ PurseOK

LEMMA WorthFacts ==
    /\ MaxUnknownAttempts \in Nat /\ Worth(0) >= 1
    /\ \A a \in Nat :
          /\ Worth(a) \in Nat /\ Worth(a) <= Worth(0)
          /\ a < MaxUnknownAttempts => Worth(a) = 2 * Worth(a + 1) + 1
          /\ a >= MaxUnknownAttempts => Worth(a) = 0
<1> DEFINE M == MaxUnknownAttempts
<1>1. M \in Nat \ {0}
    BY OutboxAssumption
<1>2. ASSUME NEW a \in Nat, a < M
      PROVE  Worth(a) \in Nat /\ Worth(a) <= Worth(0) /\ Worth(a) = 2 * Worth(a + 1) + 1
  <2>1. PICK n \in Nat : n = M - a - 1 /\ M - a = n + 1 /\ M - (a + 1) = n
    BY <1>1, <1>2
  <2>2. 2^(n + 1) = 2 * 2^n
    BY PowerDoubles
  <2>3. 1 <= 2^n /\ 2^(n + 1) <= 2^M /\ 2^n \in Nat /\ 2^M \in Nat
    BY <1>1, <1>2, <2>1, PowersGrow, PowerIsSubsets
  <2>4. PICK p \in Nat, q \in Nat : p = 2^n /\ q = 2^M
    BY <2>3
  <2>5. Worth(a) = 2 * p - 1
    BY <1>2, <2>1, <2>2, <2>4 DEF Worth
  <2>6. Worth(0) = q - 1
    BY <1>1, <2>4 DEF Worth
  <2>7. Worth(a + 1) = p - 1
    <3>1. CASE a + 1 < M
      BY <3>1, <2>1, <2>4 DEF Worth
    <3>2. CASE ~(a + 1 < M)
      <4>1. n = 0 /\ Worth(a + 1) = 0
        BY <3>2, <1>1, <1>2, <2>1 DEF Worth
      <4> QED
        BY <4>1, <2>4, PowerOfZero
    <3> QED
      BY <3>1, <3>2
  <2>8. 1 <= p /\ 2 * p <= q
    BY <2>2, <2>3, <2>4
  <2> QED
    BY <2>5, <2>6, <2>7, <2>8
<1>3. \A a \in Nat : a >= M => Worth(a) = 0
  BY <1>1 DEF Worth
<1>4. Worth(0) \in Nat /\ Worth(0) = 2 * Worth(1) + 1 /\ Worth(1) \in Nat
  <2>1. Worth(0) \in Nat /\ Worth(0) = 2 * Worth(0 + 1) + 1
    BY <1>1, <1>2
  <2>2. Worth(1) \in Nat
    <3>1. CASE 1 < M
      BY <3>1, <1>2
    <3>2. CASE ~(1 < M)
      BY <3>2, <1>1, <1>3
    <3> QED
      BY <3>1, <3>2
  <2> QED
    BY <2>1, <2>2
<1>5. QED
  BY <1>1, <1>2, <1>3, <1>4

\* A coin is taken out only with what is put in.
LEMMA Exchange ==
    ASSUME NEW T, IsFiniteSet(T), NEW Old \in SUBSET T, NEW New, IsFiniteSet(New),
           NEW After \in SUBSET ((T \ Old) \cup New)
    PROVE  IsFiniteSet(After)
           /\ Cardinality(After) <= Cardinality(T) - Cardinality(Old) + Cardinality(New)
           /\ Cardinality(After) \in Nat /\ Cardinality(T) \in Nat
<1>1. IsFiniteSet(Old) /\ T \cap Old = Old
  BY FS_Subset
<1>2. IsFiniteSet(T \ Old) /\ Cardinality(T \ Old) = Cardinality(T) - Cardinality(Old)
  BY <1>1, FS_Difference
<1>3. /\ IsFiniteSet((T \ Old) \cup New)
      /\ Cardinality((T \ Old) \cup New)
            = Cardinality(T \ Old) + Cardinality(New) - Cardinality((T \ Old) \cap New)
  BY <1>2, FS_Union
<1>4. IsFiniteSet((T \ Old) \cap New)
  BY <1>2, FS_Subset
<1>5. IsFiniteSet(After) /\ Cardinality(After) <= Cardinality((T \ Old) \cup New)
  BY <1>3, FS_Subset
<1>6. /\ Cardinality(T) \in Nat /\ Cardinality(T \ Old) \in Nat /\ Cardinality(New) \in Nat
      /\ Cardinality((T \ Old) \cap New) \in Nat /\ Cardinality(After) \in Nat
      /\ Cardinality((T \ Old) \cup New) \in Nat /\ Cardinality(Old) \in Nat
  BY <1>1, <1>2, <1>3, <1>4, <1>5, FS_CardinalityType
<1>7. QED
  BY <1>2, <1>3, <1>5, <1>6

LEMMA CoinsAre ==
    ASSUME NEW kind, NEW x, NEW n \in Nat
    PROVE  IsFiniteSet(Coins(kind, x, n)) /\ Cardinality(Coins(kind, x, n)) = n
<1>1. IsFiniteSet({<<kind, x>>}) /\ Cardinality({<<kind, x>>}) = 1
  BY FS_Singleton
<1>2. IsFiniteSet(1..n) /\ Cardinality(1..n) = n
  BY FS_Interval
<1>3. IsFiniteSet(Coins(kind, x, n))
      /\ Cardinality(Coins(kind, x, n)) = Cardinality({<<kind, x>>}) * Cardinality(1..n)
  BY <1>1, <1>2, FS_Product, Zenon DEF Coins
<1>4. QED
  BY <1>1, <1>2, <1>3

\* What lies in the purse is a number, whoever it is for.
WorthOK ==
    \A j \in Jobs : /\ RowWorth(j) \in Nat
                    /\ \A w \in Workers : JobWorth(w, j) \in Nat /\ StopWorth(w) \in Nat
                                          /\ HandWorth(w, j) \in Nat

LEMMA WorthTyped == TypeInv => WorthOK
<1> SUFFICES ASSUME TypeInv, NEW j \in Jobs
             PROVE  /\ RowWorth(j) \in Nat
                    /\ \A w \in Workers : JobWorth(w, j) \in Nat /\ StopWorth(w) \in Nat
                                          /\ HandWorth(w, j) \in Nat
  BY DEF WorthOK
<1>1. attempt[j] \in Nat /\ \A w \in Workers : snap[w][j].attempt \in Nat
  BY DEF TypeInv, TypeOK, RowsOK, WorkersOK
<1>2. RowWorth(j) \in Nat
  BY <1>1, WorthFacts DEF RowWorth
<1>3. ASSUME NEW w \in Workers
      PROVE  JobWorth(w, j) \in Nat /\ StopWorth(w) \in Nat /\ HandWorth(w, j) \in Nat
  <2>1. Worth(snap[w][j].attempt + 1) \in Nat
    BY <1>1, WorthFacts
  <2>2. JobWorth(w, j) \in Nat
    BY <2>1 DEF JobWorth
  <2>3. StopWorth(w) \in Nat
    BY WorthFacts DEF StopWorth
  <2> QED
    BY <2>2, <2>3 DEF HandWorth
<1>4. QED
  BY <1>2, <1>3

\* A step that touches the row of a job and the hands of one worker keeps the purse, if what it
\* spends was in them, is paid by an answer 429, or by an outage.
LEMMA PurseStep ==
    ASSUME TypeInv, TypeInv', NEW j \in Jobs, NEW w \in Workers,
           \A v \in Workers \ {w} : HandWorth(v, j)' = HandWorth(v, j),
           IsFiniteSet(Purse(j)),
           tries[j] + Cardinality(Purse(j)) <= (1 + outages) * Worth(0) + limited[j],
           \/ /\ outages' = outages
              /\ tries'[j] + RowWorth(j)' + HandWorth(w, j)' + limited[j]
                    <= tries[j] + RowWorth(j) + HandWorth(w, j) + limited'[j]
           \/ /\ outages' = outages + 1
              /\ tries'[j] + RowWorth(j)' + HandWorth(w, j)' + limited[j]
                    <= tries[j] + RowWorth(j) + HandWorth(w, j) + limited'[j] + Worth(0)
    PROVE  /\ IsFiniteSet(Purse(j))'
           /\ tries'[j] + Cardinality(Purse(j)') <= (1 + outages') * Worth(0) + limited'[j]
<1> DEFINE row == Coins("row", j, RowWorth(j))
           rowAfter == Coins("row", j, RowWorth(j)')
           hand == Coins("hand", w, HandWorth(w, j))
           handAfter == Coins("hand", w, HandWorth(w, j)')
           others == UNION {HandCoins(v, j) : v \in Workers \ {w}}
<1>1. /\ RowWorth(j) \in Nat /\ HandWorth(w, j) \in Nat
      /\ RowWorth(j)' \in Nat /\ HandWorth(w, j)' \in Nat
  <2>1. TypeInv' => WorthOK'
    BY WorthTyped, PTL
  <2> QED
    BY <2>1, WorthTyped DEF WorthOK
<1>2. /\ IsFiniteSet(row) /\ Cardinality(row) = RowWorth(j)
      /\ IsFiniteSet(hand) /\ Cardinality(hand) = HandWorth(w, j)
      /\ IsFiniteSet(rowAfter) /\ Cardinality(rowAfter) = RowWorth(j)'
      /\ IsFiniteSet(handAfter) /\ Cardinality(handAfter) = HandWorth(w, j)'
  BY <1>1, CoinsAre
<1>3. row \cap hand = {} /\ rowAfter \cap handAfter = {}
  BY DEF Coins
<1>4. Purse(j) = (row \cup hand) \cup others
  BY DEF Purse, HandCoins
<1>5. Purse(j)' = (rowAfter \cup handAfter) \cup others
  <2>1. \A v \in Workers \ {w} : HandCoins(v, j)' = HandCoins(v, j)
    BY DEF HandCoins, Coins
  <2>2. HandCoins(w, j)' = handAfter
    BY DEF HandCoins, Coins
  <2>3. Purse(j)' = rowAfter \cup UNION {HandCoins(v, j)' : v \in Workers}
    BY DEF Purse, Coins
  <2> QED
    BY <2>1, <2>2, <2>3
<1>6. others \cap (row \cup hand) = {}
  BY DEF HandCoins, Coins
<1> HIDE DEF row, hand, rowAfter, handAfter, others
<1>7. /\ IsFiniteSet(row \cup hand) /\ Cardinality(row \cup hand) = RowWorth(j) + HandWorth(w, j)
      /\ IsFiniteSet(rowAfter \cup handAfter)
      /\ Cardinality(rowAfter \cup handAfter) = RowWorth(j)' + HandWorth(w, j)'
  <2>1. IsFiniteSet(row \cup hand) /\ Cardinality(row \cup hand) = RowWorth(j) + HandWorth(w, j)
    BY <1>1, <1>2, <1>3, FS_Union, FS_EmptySet
  <2>2. /\ IsFiniteSet(rowAfter \cup handAfter)
        /\ Cardinality(rowAfter \cup handAfter) = RowWorth(j)' + HandWorth(w, j)'
    <3>1. PICK m \in Nat, n \in Nat : m = RowWorth(j)' /\ n = HandWorth(w, j)'
      BY <1>1
    <3>2. /\ IsFiniteSet(rowAfter) /\ Cardinality(rowAfter) = m
          /\ IsFiniteSet(handAfter) /\ Cardinality(handAfter) = n
      BY <3>1, <1>2
    <3>3. IsFiniteSet(rowAfter \cup handAfter)
          /\ Cardinality(rowAfter \cup handAfter) = Cardinality(rowAfter) + Cardinality(handAfter)
                                                     - Cardinality(rowAfter \cap handAfter)
      BY <3>2, FS_Union
    <3>4. Cardinality(rowAfter \cap handAfter) = 0
      BY <1>3, FS_EmptySet
    <3> QED
      BY <3>1, <3>2, <3>3, <3>4
  <2> QED
    BY <2>1, <2>2
<1>8. /\ IsFiniteSet(Purse(j)')
      /\ Cardinality(Purse(j)') <= Cardinality(Purse(j)) - Cardinality(row \cup hand)
                                      + Cardinality(rowAfter \cup handAfter)
      /\ Cardinality(Purse(j)') \in Nat /\ Cardinality(Purse(j)) \in Nat
  <2>1. row \cup hand \in SUBSET Purse(j)
    BY <1>4
  <2>2. Purse(j)' \in SUBSET ((Purse(j) \ (row \cup hand)) \cup (rowAfter \cup handAfter))
    BY <1>4, <1>5, <1>6
  <2> QED
    BY <2>1, <2>2, <1>7, Exchange
<1>9. /\ tries[j] \in Nat /\ tries'[j] \in Nat /\ limited[j] \in Nat /\ limited'[j] \in Nat
      /\ outages \in Nat /\ Worth(0) \in Nat
  BY WorthFacts, OutboxAssumption DEF TypeInv, TypeOK, HistoryOK
<1>10. (1 + (outages + 1)) * Worth(0) = (1 + outages) * Worth(0) + Worth(0)
       /\ (1 + outages) * Worth(0) \in Nat
  BY <1>9
<1>11. IsFiniteSet(Purse(j))'
  BY <1>8
<1>12. tries'[j] + Cardinality(Purse(j)') <= (1 + outages') * Worth(0) + limited'[j]
  <2>1. CASE /\ outages' = outages
             /\ tries'[j] + RowWorth(j)' + HandWorth(w, j)' + limited[j]
                   <= tries[j] + RowWorth(j) + HandWorth(w, j) + limited'[j]
    BY <2>1, <1>1, <1>7, <1>8, <1>9, <1>10
  <2>2. CASE /\ outages' = outages + 1
             /\ tries'[j] + RowWorth(j)' + HandWorth(w, j)' + limited[j]
                   <= tries[j] + RowWorth(j) + HandWorth(w, j) + limited'[j] + Worth(0)
    BY <2>2, <1>1, <1>7, <1>8, <1>9, <1>10
  <2> QED
    BY <2>1, <2>2
<1>13. QED
  BY <1>11, <1>12

\* A step of no worker leaves the purse as it is, or takes coins of the row out.
LEMMA RowStep ==
    ASSUME TypeInv, TypeInv', PurseOK, UNCHANGED <<workerVars, stopping, outages, historyVars>>,
           \A j \in Jobs : RowWorth(j)' <= RowWorth(j)
    PROVE  PurseOK'
<1> SUFFICES ASSUME NEW j \in Jobs
             PROVE  /\ IsFiniteSet(Purse(j)')
                    /\ tries'[j] + Cardinality(Purse(j)') <= (1 + outages') * Worth(0) + limited'[j]
  BY DEF PurseOK
<1>1. RowWorth(j) \in Nat /\ RowWorth(j)' \in Nat
  <2>1. TypeInv' => WorthOK'
    BY WorthTyped, PTL
  <2> QED
    BY <2>1, WorthTyped DEF WorthOK
<1>2. Coins("row", j, RowWorth(j)') \subseteq Coins("row", j, RowWorth(j))
  BY <1>1 DEF Coins
<1>3. \A w \in Workers : HandCoins(w, j)' = HandCoins(w, j)
  BY DEF HandCoins, HandWorth, JobWorth, StopWorth, Waiting, Limited, Coins, workerVars, historyVars
<1>4. Purse(j)' = Coins("row", j, RowWorth(j)') \cup UNION {HandCoins(w, j) : w \in Workers}
  BY <1>3 DEF Purse, Coins
<1>5. Purse(j)' \in SUBSET Purse(j)
  BY <1>2, <1>4 DEF Purse
<1>6. IsFiniteSet(Purse(j)') /\ Cardinality(Purse(j)') <= Cardinality(Purse(j))
      /\ IsFiniteSet(Purse(j))
  BY <1>5, FS_Subset DEF PurseOK
<1>7. Cardinality(Purse(j)') \in Nat /\ Cardinality(Purse(j)) \in Nat
  BY <1>6, FS_CardinalityType
<1>8. /\ tries[j] \in Nat /\ limited[j] \in Nat /\ outages \in Nat /\ Worth(0) \in Nat
      /\ tries[j] + Cardinality(Purse(j)) <= (1 + outages) * Worth(0) + limited[j]
      /\ tries' = tries /\ limited' = limited /\ outages' = outages
  BY WorthFacts, OutboxAssumption DEF TypeInv, TypeOK, HistoryOK, PurseOK, historyVars
<1>9. PICK p \in Nat : p = (1 + outages) * Worth(0)
  BY <1>8
<1>10. QED
  BY <1>6, <1>7, <1>8, <1>9

Alike(v) ==
    /\ todo'[v] = todo[v] /\ cur'[v] = cur[v] /\ pc'[v] = pc[v] /\ snap'[v] = snap[v]
    /\ outcome'[v] = outcome[v] /\ stopping'[v] = stopping[v]

\* What a step of w spends on j was in the purse.
Pays(w, j) ==
    \/ /\ outages' = outages
       /\ tries'[j] + RowWorth(j)' + HandWorth(w, j)' + limited[j]
             <= tries[j] + RowWorth(j) + HandWorth(w, j) + limited'[j]
    \/ /\ outages' = outages + 1
       /\ tries'[j] + RowWorth(j)' + HandWorth(w, j)' + limited[j]
             <= tries[j] + RowWorth(j) + HandWorth(w, j) + limited'[j] + Worth(0)

LEMMA WorkerPays ==
    ASSUME TypeInv, TypeInv', PurseOK, NEW w \in Workers, \A v \in Workers \ {w} : Alike(v),
           \A j \in Jobs : Pays(w, j)
    PROVE  PurseOK'
<1> SUFFICES ASSUME NEW j \in Jobs
             PROVE  /\ IsFiniteSet(Purse(j))'
                    /\ tries'[j] + Cardinality(Purse(j)') <= (1 + outages') * Worth(0) + limited'[j]
  BY DEF PurseOK
<1>1. \A v \in Workers \ {w} : HandWorth(v, j)' = HandWorth(v, j)
  BY DEF Alike, HandWorth, JobWorth, StopWorth, Waiting, Limited
<1>2. /\ IsFiniteSet(Purse(j))
      /\ tries[j] + Cardinality(Purse(j)) <= (1 + outages) * Worth(0) + limited[j]
  BY DEF PurseOK
<1>3. Pays(w, j)
  OBVIOUS
<1>4. QED
  BY <1>1, <1>2, <1>3, PurseStep DEF Pays

HandsAre ==
    \A w \in Workers, j \in Jobs :
        LET retry == Worth(snap[w][j].attempt + 1) IN
        /\ j \in todo[w] => cur[w] # j /\ JobWorth(w, j) = retry + 1
        /\ cur[w] = j /\ pc[w] = "checking" => JobWorth(w, j) = retry + 1
        /\ cur[w] = j /\ pc[w] # "checking" =>
              JobWorth(w, j) = IF Limited(w) THEN retry + 1 ELSE retry
        /\ cur[w] # j /\ j \notin todo[w] => JobWorth(w, j) = 0
        /\ pc[w] \notin Working => cur[w] # j
        /\ pc[w] \in {"idle", "claiming", "down"} => j \notin todo[w]
        /\ retry \in Nat /\ HandWorth(w, j) = JobWorth(w, j) + StopWorth(w)
        /\ JobWorth(w, j) \in Nat /\ StopWorth(w) \in Nat

LEMMA HandsTold == TypeInv => HandsAre
<1> SUFFICES ASSUME TypeInv, NEW w \in Workers, NEW j \in Jobs
             PROVE  LET retry == Worth(snap[w][j].attempt + 1) IN
                    /\ j \in todo[w] => cur[w] # j /\ JobWorth(w, j) = retry + 1
                    /\ cur[w] = j /\ pc[w] = "checking" => JobWorth(w, j) = retry + 1
                    /\ cur[w] = j /\ pc[w] # "checking" =>
                          JobWorth(w, j) = IF Limited(w) THEN retry + 1 ELSE retry
                    /\ cur[w] # j /\ j \notin todo[w] => JobWorth(w, j) = 0
                    /\ pc[w] \notin Working => cur[w] # j
                    /\ pc[w] \in {"idle", "claiming", "down"} => j \notin todo[w]
                    /\ retry \in Nat /\ HandWorth(w, j) = JobWorth(w, j) + StopWorth(w)
                    /\ JobWorth(w, j) \in Nat /\ StopWorth(w) \in Nat
  BY DEF HandsAre
<1>1. /\ pc[w] \in Working => cur[w] \in Jobs /\ cur[w] \notin todo[w]
      /\ pc[w] \notin Working => cur[w] = NoJob
      /\ pc[w] \in {"idle", "claiming", "down"} => todo[w] = {}
      /\ NoJob \notin Jobs
  BY OutboxAssumption DEF TypeInv, CurOK
<1>2. snap[w][j].attempt \in Nat
  BY DEF TypeInv, TypeOK, WorkersOK
<1>3. Worth(snap[w][j].attempt + 1) \in Nat
  BY <1>2, WorthFacts
<1>4. JobWorth(w, j) \in Nat /\ StopWorth(w) \in Nat
  BY WorthTyped DEF WorthOK
<1>5. QED
  BY <1>1, <1>3, <1>4 DEF HandWorth, JobWorth, Waiting

\* The numbers a step is about.
LEMMA StepNumbers ==
    ASSUME TypeInv, TypeInv', NEW w \in Workers, NEW j \in Jobs
    PROVE  /\ attempt[j] \in Nat /\ tries[j] \in Nat /\ limited[j] \in Nat /\ outages \in Nat
           /\ RowWorth(j) \in Nat /\ RowWorth(j)' \in Nat
           /\ tries'[j] \in Nat /\ limited'[j] \in Nat
           /\ MaxUnknownAttempts \in Nat
<1>1. TypeInv' => WorthOK'
  BY WorthTyped, PTL
<1>2. QED
  BY <1>1, WorthTyped, OutboxAssumption DEF WorthOK, TypeInv, TypeOK, RowsOK, HistoryOK

LEMMA SweepPays ==
    ASSUME TypeInv, TypeInv', NEW w \in Workers, RequeueExpired(w), NEW j \in Jobs
    PROVE  Pays(w, j)
<1>1. RowWorth(j)' <= RowWorth(j)
  <2>1. CASE j \in Expired
    <3>1. status[j] = "leased" /\ RowWorth(j) = Worth(attempt[j] + 1)
      BY <2>1 DEF Expired, RowWorth
    <3>2. CASE attempt[j] + 1 >= MaxUnknownAttempts
      <4>1. status'[j] = "unknown"
        BY <2>1, <3>2 DEF RequeueExpired
      <4> QED
        BY <4>1, <3>1, StepNumbers DEF RowWorth
    <3>3. CASE ~(attempt[j] + 1 >= MaxUnknownAttempts)
      <4>1. status'[j] = "pending" /\ attempt'[j] = attempt[j] + 1
            /\ attempt[j] + 1 < MaxUnknownAttempts
        BY <2>1, <3>3, StepNumbers DEF RequeueExpired
      <4>2. RowWorth(j)' = Worth(attempt[j] + 1)
        BY <4>1 DEF RowWorth
      <4> QED
        BY <4>2, <3>1, StepNumbers
    <3> QED
      BY <3>2, <3>3
  <2>2. CASE j \notin Expired
    <3>1. status'[j] = status[j] /\ attempt'[j] = attempt[j]
      BY <2>2 DEF RequeueExpired
    <3> QED
      BY <3>1, StepNumbers DEF RowWorth
  <2> QED
    BY <2>1, <2>2
<1>2. HandWorth(w, j)' = HandWorth(w, j)
  <2>1. HandsAre /\ HandsAre'
    BY HandsTold, PTL
  <2>2. pc[w] = "idle" /\ pc'[w] = "claiming" /\ UNCHANGED <<todo, cur, snap, outcome, stopping>>
    BY DEF RequeueExpired, TypeInv, TypeOK, WorkersOK
  <2>3. JobWorth(w, j) = 0 /\ JobWorth(w, j)' = 0
    BY <2>1, <2>2 DEF HandsAre, Working
  <2>4. StopWorth(w)' = StopWorth(w)
    BY <2>2 DEF StopWorth
  <2> QED
    BY <2>3, <2>4 DEF HandWorth
<1>3. HandWorth(w, j) \in Nat
  BY WorthTyped DEF WorthOK
<1>4. QED
  BY <1>1, <1>2, <1>3, StepNumbers DEF Pays, RequeueExpired, historyVars

\* One try, its retry, and the retry of the lease that expires under it.
LEMMA ClaimPays ==
    ASSUME TypeInv, TypeInv', NEW w \in Workers, Claim(w), NEW j \in Jobs
    PROVE  Pays(w, j)
<1>1. PICK S \in SUBSET Claimable :
        /\ status' = [i \in Jobs |-> IF i \in S THEN "leased" ELSE status[i]]
        /\ todo' = [todo EXCEPT ![w] = S]
        /\ snap' = [snap EXCEPT ![w] =
                [i \in Jobs |-> IF i \in S THEN [attempt |-> attempt[i], text |-> text[i]]
                                ELSE Unclaimed]]
  BY DEF Claim
<1>2. HandsAre /\ HandsAre'
  BY HandsTold, PTL
<1>3. /\ pc[w] = "claiming" /\ pc'[w] = "batch" /\ todo'[w] = S
      /\ snap'[w] = [i \in Jobs |-> IF i \in S THEN [attempt |-> attempt[i], text |-> text[i]]
                                    ELSE Unclaimed]
      /\ UNCHANGED <<attempt, stopping, outages, tries, limited>>
  BY <1>1 DEF Claim, TypeInv, TypeOK, WorkersOK
<1>4. StopWorth(w)' = StopWorth(w) /\ StopWorth(w) \in Nat
  BY <1>2, <1>3 DEF StopWorth, HandsAre
<1>5. JobWorth(w, j) = 0
  BY <1>2, <1>3 DEF HandsAre, Working
<1>6. RowWorth(j)' + JobWorth(w, j)' <= RowWorth(j)
  <2>1. CASE j \in S
    <3>1. status[j] = "pending" /\ status'[j] = "leased" /\ snap'[w][j].attempt = attempt[j]
      BY <2>1, <1>1, <1>3 DEF Claimable
    <3>2. RowWorth(j)' = Worth(attempt[j] + 1)
      BY <3>1, <1>3 DEF RowWorth
    <3>3. JobWorth(w, j)' = Worth(attempt[j] + 1) + 1
      BY <2>1, <3>1, <1>2, <1>3 DEF HandsAre
    <3>4. CASE attempt[j] < MaxUnknownAttempts
      <4>1. RowWorth(j) = 2 * Worth(attempt[j] + 1) + 1
        BY <3>1, <3>4, StepNumbers, WorthFacts DEF RowWorth
      <4>2. Worth(attempt[j] + 1) \in Nat
        BY StepNumbers, WorthFacts
      <4> QED
        BY <3>2, <3>3, <4>1, <4>2
    <3>5. CASE ~(attempt[j] < MaxUnknownAttempts)
      <4>1. RowWorth(j) = 1
        BY <3>1, <3>5 DEF RowWorth
      <4>2. Worth(attempt[j] + 1) = 0
        BY <3>5, StepNumbers, WorthFacts
      <4> QED
        BY <3>2, <3>3, <4>1, <4>2
    <3> QED
      BY <3>4, <3>5
  <2>2. CASE j \notin S
    <3>1. status'[j] = status[j] /\ attempt'[j] = attempt[j]
      BY <2>2, <1>1, <1>3
    <3>2. JobWorth(w, j)' = 0
      BY <2>2, <1>2, <1>3 DEF HandsAre, Working
    <3> QED
      BY <3>1, <3>2, StepNumbers DEF RowWorth
  <2> QED
    BY <2>1, <2>2
<1>7. JobWorth(w, j)' \in Nat /\ HandWorth(w, j) = StopWorth(w)
      /\ HandWorth(w, j)' = JobWorth(w, j)' + StopWorth(w)
  BY <1>2, <1>4, <1>5 DEF HandsAre
<1>8. QED
  BY <1>3, <1>4, <1>6, <1>7, StepNumbers DEF Pays

\* A step of the worker that leaves the row alone spends what it takes off its hands.
LEMMA HandPays ==
    ASSUME TypeInv, TypeInv', NEW w \in Workers, NEW j \in Jobs,
           UNCHANGED <<status, attempt, outages>>, StopWorth(w)' <= StopWorth(w),
           tries'[j] + JobWorth(w, j)' + limited[j] <= tries[j] + JobWorth(w, j) + limited'[j]
    PROVE  Pays(w, j)
<1>1. RowWorth(j)' = RowWorth(j)
  BY DEF RowWorth
<1>2. HandsAre /\ HandsAre'
  BY HandsTold, PTL
<1>3. /\ HandWorth(w, j) = JobWorth(w, j) + StopWorth(w)
      /\ HandWorth(w, j)' = JobWorth(w, j)' + StopWorth(w)'
      /\ JobWorth(w, j) \in Nat /\ JobWorth(w, j)' \in Nat
      /\ StopWorth(w) \in Nat /\ StopWorth(w)' \in Nat
  BY <1>2 DEF HandsAre
<1>4. QED
  BY <1>1, <1>3, StepNumbers DEF Pays

LEMMA BeginPays ==
    ASSUME TypeInv, TypeInv', NEW w \in Workers, NEW i \in Jobs, BeginJob(w, i), NEW j \in Jobs
    PROVE  Pays(w, j)
<1>1. HandsAre /\ HandsAre'
  BY HandsTold, PTL
<1>2. /\ pc[w] = "batch" /\ pc'[w] = "checking" /\ i \in todo[w] /\ cur'[w] = i
      /\ todo'[w] = todo[w] \ {i}
      /\ UNCHANGED <<rowVars, snap, outcome, stopping, outages, historyVars>>
  BY DEF BeginJob, TypeInv, TypeOK, WorkersOK
<1>3. StopWorth(w)' = StopWorth(w) /\ StopWorth(w) \in Nat
  BY <1>1, <1>2 DEF StopWorth, HandsAre
<1>4. JobWorth(w, j)' = JobWorth(w, j)
  BY <1>1, <1>2 DEF HandsAre, Working, Limited
<1>5. JobWorth(w, j) \in Nat
  BY <1>1 DEF HandsAre
<1>6. QED
  BY <1>2, <1>3, <1>4, <1>5, StepNumbers, HandPays DEF rowVars, historyVars

LEMMA CallPays ==
    ASSUME TypeInv, TypeInv', NEW w \in Workers, Call(w), NEW j \in Jobs
    PROVE  Pays(w, j)
<1>1. HandsAre /\ HandsAre'
  BY HandsTold, PTL
<1>2. /\ pc[w] = "checking" /\ pc'[w] = "calling"
      /\ tries' = [tries EXCEPT ![cur[w]] = @ + 1]
      /\ UNCHANGED <<rowVars, todo, cur, snap, outcome, stopping, outages, holder, limited>>
  BY DEF Call, TypeInv, TypeOK, WorkersOK
<1>3. StopWorth(w)' = StopWorth(w) /\ StopWorth(w) \in Nat
  BY <1>1, <1>2 DEF StopWorth, HandsAre
<1>4. JobWorth(w, j) \in Nat /\ JobWorth(w, j)' \in Nat
  BY <1>1 DEF HandsAre
<1>5. tries'[j] + JobWorth(w, j)' <= tries[j] + JobWorth(w, j)
  <2>1. CASE cur[w] = j
    <3>1. tries'[j] = tries[j] + 1
      BY <2>1, <1>2 DEF TypeInv, TypeOK, HistoryOK
    <3>2. JobWorth(w, j) = Worth(snap[w][j].attempt + 1) + 1
          /\ JobWorth(w, j)' = Worth(snap[w][j].attempt + 1)
      BY <2>1, <1>1, <1>2 DEF HandsAre, Limited
    <3>3. Worth(snap[w][j].attempt + 1) \in Nat
      BY <1>1 DEF HandsAre
    <3> QED
      BY <3>1, <3>2, <3>3, StepNumbers
  <2>2. CASE cur[w] # j
    <3>1. tries'[j] = tries[j]
      BY <2>2, <1>2 DEF TypeInv, TypeOK, HistoryOK
    <3>2. JobWorth(w, j)' = JobWorth(w, j)
      BY <2>2, <1>1, <1>2 DEF HandsAre
    <3> QED
      BY <3>1, <3>2, <1>4, StepNumbers
  <2> QED
    BY <2>1, <2>2
<1>6. QED
  BY <1>2, <1>3, <1>4, <1>5, StepNumbers, HandPays DEF rowVars

LEMMA AnswerPays ==
    ASSUME TypeInv, TypeInv', NEW w \in Workers, NEW o \in Outcomes, Answer(w, o), NEW j \in Jobs
    PROVE  Pays(w, j)
<1>1. HandsAre /\ HandsAre'
  BY HandsTold, PTL
<1>2. /\ pc[w] = "calling" /\ pc'[w] = "recording" /\ outcome'[w] = o
      /\ limited' = IF o = "rate_limited" THEN [limited EXCEPT ![cur[w]] = @ + 1] ELSE limited
      /\ UNCHANGED <<rowVars, todo, cur, snap, stopping, outages, holder, tries>>
  BY DEF Answer, TypeInv, TypeOK, WorkersOK
<1>3. StopWorth(w)' = StopWorth(w) /\ StopWorth(w) \in Nat
  BY <1>1, <1>2 DEF StopWorth, HandsAre
<1>4. JobWorth(w, j) \in Nat /\ Worth(snap[w][j].attempt + 1) \in Nat
  BY <1>1 DEF HandsAre
<1>5. JobWorth(w, j)' + limited[j] <= JobWorth(w, j) + limited'[j]
  <2>1. CASE cur[w] = j
    <3>1. JobWorth(w, j) = Worth(snap[w][j].attempt + 1)
      BY <2>1, <1>1, <1>2 DEF HandsAre, Limited
    <3>2. CASE o = "rate_limited"
      <4>1. limited'[j] = limited[j] + 1
        BY <2>1, <3>2, <1>2 DEF TypeInv, TypeOK, HistoryOK
      <4>2. JobWorth(w, j)' = Worth(snap[w][j].attempt + 1) + 1
        BY <2>1, <3>2, <1>1, <1>2 DEF HandsAre, Limited
      <4> QED
        BY <3>1, <4>1, <4>2, <1>4, StepNumbers
    <3>3. CASE o # "rate_limited"
      <4>1. JobWorth(w, j)' = Worth(snap[w][j].attempt + 1)
        BY <2>1, <3>3, <1>1, <1>2 DEF HandsAre, Limited
      <4> QED
        BY <3>1, <3>3, <4>1, <1>2, <1>4, StepNumbers
    <3> QED
      BY <3>2, <3>3
  <2>2. CASE cur[w] # j
    <3>1. limited'[j] = limited[j]
      BY <2>2, <1>2 DEF TypeInv, TypeOK, HistoryOK
    <3>2. JobWorth(w, j)' = JobWorth(w, j)
      BY <2>2, <1>1, <1>2 DEF HandsAre
    <3> QED
      BY <3>1, <3>2, <1>4, StepNumbers
  <2> QED
    BY <2>1, <2>2
<1>6. JobWorth(w, j)' \in Nat
  BY <1>1 DEF HandsAre
<1>7. QED
  BY <1>2, <1>3, <1>4, <1>5, <1>6, StepNumbers, HandPays DEF rowVars

\* What is in hand of another job stays, and the retry of this one is at most what it writes.
LEMMA EndingPays ==
    ASSUME TypeInv, TypeInv', NEW w \in Workers, pc[w] \in {"recording", "failing"}, EndJob(w),
           NEW j \in Jobs,
           \/ UNCHANGED <<status, attempt>>
           \/ /\ \A i \in Jobs \ {cur[w]} : status'[i] = status[i] /\ attempt'[i] = attempt[i]
              /\ status'[cur[w]] \notin {"absent", "leased"}
              /\ attempt'[cur[w]] = NextAttempt(w)
              /\ status'[cur[w]] = "pending" => Limited(w) \/ NextAttempt(w) < MaxUnknownAttempts
    PROVE  Pays(w, j)
<1>1. HandsAre /\ HandsAre'
  BY HandsTold, PTL
<1>2. /\ pc'[w] = "batch" /\ cur'[w] = NoJob /\ snap'[w] = [snap[w] EXCEPT ![cur[w]] = Unclaimed]
      /\ UNCHANGED <<todo, stopping, outages, tries, limited>>
      /\ cur[w] \in Jobs /\ NoJob \notin Jobs
  BY OutboxAssumption DEF EndJob, historyVars, TypeInv, TypeOK, WorkersOK, CurOK, Working
<1>3. StopWorth(w)' = StopWorth(w) /\ StopWorth(w) \in Nat
  BY <1>1, <1>2 DEF StopWorth, HandsAre
<1>4. /\ HandWorth(w, j) = JobWorth(w, j) + StopWorth(w) /\ JobWorth(w, j) \in Nat
      /\ HandWorth(w, j)' = JobWorth(w, j)' + StopWorth(w) /\ JobWorth(w, j)' \in Nat
      /\ Worth(snap[w][j].attempt + 1) \in Nat
  BY <1>1, <1>3 DEF HandsAre
<1>5. RowWorth(j)' + JobWorth(w, j)' <= RowWorth(j) + JobWorth(w, j)
  <2>1. CASE j # cur[w]
    <3>1. RowWorth(j)' = RowWorth(j)
      BY <2>1 DEF RowWorth
    <3>2. snap'[w][j] = snap[w][j]
      BY <2>1, <1>2 DEF TypeInv, TypeOK, WorkersOK
    <3>3. CASE j \in todo[w]
      <4>0. JobWorth(w, j) = Worth(snap[w][j].attempt + 1) + 1
        BY <3>3, <1>1 DEF HandsAre
      <4>1. j \in todo'[w]
        BY <3>3, <1>2
      <4>2. JobWorth(w, j)' = Worth(snap'[w][j].attempt + 1) + 1
        BY <4>1, <1>1 DEF HandsAre
      <4>3. JobWorth(w, j)' = JobWorth(w, j)
        BY <3>2, <4>0, <4>2
      <4> QED
        BY <3>1, <4>3, <1>4, StepNumbers
    <3>4. CASE j \notin todo[w]
      <4>1. JobWorth(w, j)' = 0 /\ JobWorth(w, j) = 0
        BY <2>1, <3>4, <1>1, <1>2 DEF HandsAre
      <4> QED
        BY <3>1, <4>1, StepNumbers
    <3> QED
      BY <3>3, <3>4
  <2>2. CASE j = cur[w]
    <3>1. j \notin todo[w] /\ JobWorth(w, j)' = 0
      BY <2>2, <1>1, <1>2 DEF HandsAre
    <3>2. JobWorth(w, j) = IF Limited(w) THEN Worth(NextAttempt(w)) + 1 ELSE Worth(NextAttempt(w))
      BY <2>2, <1>1 DEF HandsAre, NextAttempt
    <3>3. CASE UNCHANGED <<status, attempt>>
      BY <3>1, <3>3, <1>4, StepNumbers DEF RowWorth
    <3>4. CASE /\ status'[j] \notin {"absent", "leased"} /\ attempt'[j] = NextAttempt(w)
               /\ status'[j] = "pending" => Limited(w) \/ NextAttempt(w) < MaxUnknownAttempts
      <4>1. CASE status'[j] # "pending"
        <5>1. RowWorth(j)' = 0
          BY <4>1, <3>4 DEF RowWorth
        <5> QED
          BY <5>1, <3>1, <1>4, StepNumbers
      <4>2. CASE status'[j] = "pending" /\ NextAttempt(w) < MaxUnknownAttempts
        <5>1. RowWorth(j)' = Worth(NextAttempt(w))
          BY <4>2, <3>4 DEF RowWorth
        <5>2. Worth(NextAttempt(w)) \in Nat
          BY <2>2, <1>4 DEF NextAttempt
        <5> QED
          BY <5>1, <5>2, <3>1, <3>2, StepNumbers
      <4>3. CASE status'[j] = "pending" /\ ~(NextAttempt(w) < MaxUnknownAttempts)
        <5>1. RowWorth(j)' = 1 /\ Limited(w)
          BY <4>3, <3>4 DEF RowWorth
        <5>2. Worth(NextAttempt(w)) \in Nat
          BY <2>2, <1>4 DEF NextAttempt
        <5> QED
          BY <5>1, <5>2, <3>1, <3>2, StepNumbers
      <4> QED
        BY <4>1, <4>2, <4>3
    <3> QED
      BY <2>2, <3>3, <3>4
  <2> QED
    BY <2>1, <2>2
<1>6. QED
  BY <1>2, <1>3, <1>4, <1>5, StepNumbers DEF Pays

\* What a shutdown releases is paid by the outage it is.
LEMMA ReleasePays ==
    ASSUME TypeInv, TypeInv', NEW w \in Workers, ReleaseUnattempted(w), NEW j \in Jobs
    PROVE  Pays(w, j)
<1>1. HandsAre /\ HandsAre'
  BY HandsTold, PTL
<1>2. /\ pc[w] = "batch" /\ pc'[w] = "down" /\ stopping[w]
      /\ UNCHANGED <<attempt, text, due, stopping, outages, tries, limited>>
  BY DEF ReleaseUnattempted, Forget, TypeInv, TypeOK, WorkersOK, historyVars
<1>3. StopWorth(w) = Worth(0) /\ StopWorth(w)' = 0
  BY <1>2 DEF StopWorth
<1>4. JobWorth(w, j)' = 0
  BY <1>1, <1>2 DEF HandsAre, Working
<1>5. RowWorth(j)' <= RowWorth(j) + Worth(0)
  <2>1. CASE j \in Released(w)
    <3>1. status'[j] = "pending" /\ attempt'[j] = attempt[j]
      BY <2>1, <1>2 DEF ReleaseUnattempted
    <3>2. RowWorth(j)' <= Worth(0)
      BY <3>1, StepNumbers, WorthFacts DEF RowWorth
    <3> QED
      BY <3>2, StepNumbers, WorthFacts
  <2>2. CASE j \notin Released(w)
    <3>1. status'[j] = status[j] /\ attempt'[j] = attempt[j]
      BY <2>2, <1>2 DEF ReleaseUnattempted
    <3> QED
      BY <3>1, StepNumbers, WorthFacts DEF RowWorth
  <2> QED
    BY <2>1, <2>2
<1>6. /\ HandWorth(w, j) = JobWorth(w, j) + Worth(0) /\ JobWorth(w, j) \in Nat
      /\ HandWorth(w, j)' = 0 /\ Worth(0) \in Nat
  BY <1>1, <1>3, <1>4, WorthFacts DEF HandsAre
<1>7. QED
  BY <1>2, <1>5, <1>6, StepNumbers DEF Pays

\* A crash or a signal is an outage.
LEMMA OutagePays ==
    ASSUME TypeInv, TypeInv', NEW w \in Workers, Stop(w) \/ Crash(w), NEW j \in Jobs
    PROVE  Pays(w, j)
<1>1. HandsAre /\ HandsAre'
  BY HandsTold, PTL
<1>2. /\ outages' = outages + 1 /\ UNCHANGED <<rowVars, tries, limited>>
      /\ RowWorth(j)' = RowWorth(j)
  BY DEF Stop, Crash, rowVars, historyVars, RowWorth
<1>3. JobWorth(w, j)' <= JobWorth(w, j)
  <2>1. CASE Stop(w)
    <3>1. JobWorth(w, j)' = JobWorth(w, j)
      BY <2>1 DEF Stop, JobWorth, Waiting, Limited, workerVars
    <3> QED
      BY <3>1, <1>1 DEF HandsAre
  <2>2. CASE Crash(w)
    <3>1. pc'[w] = "down"
      BY <2>2 DEF Crash, Forget, TypeInv, TypeOK, WorkersOK
    <3>2. JobWorth(w, j)' = 0
      BY <3>1, <1>1 DEF HandsAre, Working
    <3> QED
      BY <3>2, <1>1 DEF HandsAre
  <2> QED
    BY <2>1, <2>2
<1>4. StopWorth(w)' <= StopWorth(w) + Worth(0)
  <2>1. StopWorth(w)' \in {0, Worth(0)}
    BY DEF StopWorth
  <2> QED
    BY <2>1, <1>1, WorthFacts DEF HandsAre
<1>5. /\ HandWorth(w, j) = JobWorth(w, j) + StopWorth(w) /\ JobWorth(w, j) \in Nat
      /\ HandWorth(w, j)' = JobWorth(w, j)' + StopWorth(w)' /\ JobWorth(w, j)' \in Nat
      /\ StopWorth(w) \in Nat /\ StopWorth(w)' \in Nat /\ Worth(0) \in Nat
  BY <1>1, WorthFacts DEF HandsAre
<1>6. QED
  BY <1>2, <1>3, <1>4, <1>5, StepNumbers DEF Pays

\* The other steps of a worker add nothing.
LEMMA OtherPays ==
    ASSUME TypeInv, TypeInv', NEW w \in Workers,
           Refuse(w) \/ Throw(w) \/ EndTick(w) \/ Exit(w) \/ Restart(w), NEW j \in Jobs
    PROVE  Pays(w, j)
<1>1. HandsAre /\ HandsAre'
  BY HandsTold, PTL
<1>2. UNCHANGED <<status, attempt, outages, tries, limited>>
  BY DEF Refuse, Throw, EndTick, Exit, Restart, rowVars, historyVars
<1>3. StopWorth(w)' <= StopWorth(w)
  <2>1. StopWorth(w)' = 0 \/ StopWorth(w)' = StopWorth(w)
    BY DEF Refuse, Throw, EndTick, Exit, Restart, Forget, StopWorth, TypeInv, TypeOK, WorkersOK
  <2> QED
    BY <2>1, <1>1 DEF HandsAre
<1>4. JobWorth(w, j)' <= JobWorth(w, j)
  <2>1. CASE Exit(w) \/ EndTick(w) \/ Restart(w)
    <3>1. pc'[w] \in {"idle", "down"}
      BY <2>1 DEF EndTick, Exit, Restart, Forget, TypeInv, TypeOK, WorkersOK
    <3>2. JobWorth(w, j)' = 0
      BY <3>1, <1>1 DEF HandsAre, Working
    <3> QED
      BY <3>2, <1>1 DEF HandsAre
  <2>2. CASE Refuse(w) \/ Throw(w)
    <3>1. /\ pc[w] \in Working /\ pc'[w] \in {"recording", "failing"}
          /\ outcome'[w] # "rate_limited" /\ UNCHANGED <<todo, cur, snap>>
      BY <2>2 DEF Refuse, Throw, TypeInv, TypeOK, WorkersOK, Working
    <3>2. ~Limited(w)'
      BY <3>1 DEF Limited
    <3>3. CASE j \in todo[w]
      BY <3>1, <3>3, <1>1 DEF HandsAre
    <3>4. CASE cur[w] = j
      BY <3>1, <3>2, <3>4, <1>1 DEF HandsAre
    <3>5. CASE j \notin todo[w] /\ cur[w] # j
      BY <3>1, <3>5, <1>1 DEF HandsAre
    <3> QED
      BY <3>3, <3>4, <3>5
  <2> QED
    BY <2>1, <2>2
<1>5. JobWorth(w, j)' \in Nat /\ JobWorth(w, j) \in Nat
  BY <1>1 DEF HandsAre
<1>6. QED
  BY <1>2, <1>3, <1>4, <1>5, StepNumbers, HandPays

LEMMA FinalizerPays ==
    ASSUME TypeInv, TypeInv', NEW w \in Workers, NEW j \in Jobs,
           \/ ApplyOutcome(w) \/ ApplySuppression(w) \/ ApplyUpdateProcessed(w)
           \/ RequeueWithErrorCap(w)
    PROVE  Pays(w, j)
<1> DEFINE Ends == /\ \A i \in Jobs \ {cur[w]} : status'[i] = status[i] /\ attempt'[i] = attempt[i]
                   /\ status'[cur[w]] \notin {"absent", "leased"}
                   /\ attempt'[cur[w]] = NextAttempt(w)
                   /\ status'[cur[w]] = "pending" => Limited(w) \/ NextAttempt(w) < MaxUnknownAttempts
<1>1. EndJob(w) /\ pc[w] \in {"recording", "failing"}
  BY DEF ApplyOutcome, ApplySuppression, ApplyUpdateProcessed, ApplyEnding, RequeueWithErrorCap,
      Recording
<1>2. cur[w] \in Jobs /\ NextAttempt(w) \in Nat /\ MaxUnknownAttempts \in Nat
  BY <1>1, OutboxAssumption DEF TypeInv, TypeOK, WorkersOK, CurOK, Working, NextAttempt
<1>3. ASSUME NEW s \in L!Statuses \ {"absent", "leased"}, WriteJob(w, s),
             s = "pending" => Limited(w) \/ NextAttempt(w) < MaxUnknownAttempts
      PROVE  Ends
  BY <1>2, <1>3 DEF WriteJob, TypeInv, TypeOK, RowsOK
<1> HIDE DEF Ends
<1>4. UNCHANGED <<status, attempt>> \/ Ends
  <2>1. CASE ApplyOutcome(w)
    <3>1. CASE ~StillLeased(w)
      BY <2>1, <3>1 DEF ApplyOutcome, rowVars
    <3>2. CASE StillLeased(w)
      <4> DEFINE Retry == \/ outcome[w] = "rate_limited"
                          \/ outcome[w] = "unknown" /\ NextAttempt(w) < MaxUnknownAttempts
      <4>1. pc[w] = "recording" /\ outcome[w] \in Answers
        BY <2>1 DEF ApplyOutcome, Recording
      <4>2. CASE Retry
        <5>1. WriteJob(w, "pending")
          BY <2>1, <3>2, <4>2 DEF ApplyOutcome
        <5> QED
          BY <5>1, <4>1, <4>2, <1>3 DEF Limited, L!Statuses, L!Open
      <4>3. CASE ~Retry
        <5>1. WriteJob(w, outcome[w])
          BY <2>1, <3>2, <4>3, Zenon DEF ApplyOutcome
        <5>2. outcome[w] # "rate_limited"
          BY <4>3, Zenon
        <5>3. outcome[w] \in {"sent", "failed", "unknown"}
          BY <4>1, <5>2 DEF Answers
        <5> QED
          BY <5>1, <5>3, <1>3 DEF L!Statuses, L!Terminal
      <4> QED
        BY <4>2, <4>3
    <3> QED
      BY <3>1, <3>2
  <2>2. ASSUME NEW out, NEW s \in {"suppressed", "delivered"}, ApplyEnding(w, out, s)
        PROVE  UNCHANGED <<status, attempt>> \/ Ends
    <3>1. CASE ~StillLeased(w)
      BY <2>2, <3>1 DEF ApplyEnding, rowVars
    <3>2. CASE StillLeased(w)
      BY <2>2, <3>2, <1>3 DEF ApplyEnding, L!Statuses, L!Terminal
    <3> QED
      BY <3>1, <3>2
  <2>3. CASE RequeueWithErrorCap(w)
    <3>1. CASE NextAttempt(w) >= MaxUnknownAttempts
      <4>1. WriteJob(w, "unknown")
        BY <2>3, <3>1 DEF RequeueWithErrorCap
      <4> QED
        BY <4>1, <1>3 DEF L!Statuses, L!Terminal
    <3>2. CASE ~(NextAttempt(w) >= MaxUnknownAttempts)
      <4>1. WriteJob(w, "pending") /\ NextAttempt(w) < MaxUnknownAttempts
        BY <2>3, <3>2, <1>2 DEF RequeueWithErrorCap
      <4> QED
        BY <4>1, <1>3 DEF L!Statuses, L!Open
    <3> QED
      BY <3>1, <3>2
  <2> QED
    BY <2>1, <2>2, <2>3 DEF ApplySuppression, ApplyUpdateProcessed
<1>5. QED
  BY <1>1, <1>4, EndingPays DEF Ends

LEMMA NextPurse == PurseInv /\ [Next]_vars => PurseInv'
<1> SUFFICES ASSUME PurseInv, [Next]_vars PROVE PurseInv'
  OBVIOUS
<1>1. TypeInv /\ TypeInv' /\ PurseOK
  BY NextTypeInv DEF PurseInv
<1>2. SUFFICES PurseOK'
  BY <1>1 DEF PurseInv
<1> DEFINE Steps(w) == \A v \in Workers \ {w} : Alike(v)
<1>3. ASSUME NEW w \in Workers, Steps(w), \A j \in Jobs : Pays(w, j) PROVE PurseOK'
  BY <1>1, <1>3, WorkerPays
<1>4. CASE UNCHANGED vars
  <2>1. \A j \in Jobs : RowWorth(j)' = RowWorth(j) /\ RowWorth(j) \in Nat
    BY <1>1, <1>4, WorthTyped DEF RowWorth, vars, rowVars, WorthOK
  <2>2. UNCHANGED <<workerVars, stopping, outages, historyVars>>
    BY <1>4 DEF vars
  <2> QED
    BY <1>1, <2>1, <2>2, RowStep
<1>5. ASSUME NEW j \in Jobs, Enqueue(j) \/ ComeDue(j) \/ LeaseLapse(j) PROVE PurseOK'
  <2>1. ASSUME NEW i \in Jobs PROVE RowWorth(i)' <= RowWorth(i)
    <3>1. RowWorth(i) \in Nat /\ attempt'[i] = attempt[i] /\ attempt[i] \in Nat
      BY <1>1, <1>5, WorthTyped DEF WorthOK, Enqueue, ComeDue, LeaseLapse, TypeInv, TypeOK, RowsOK
    <3>2. \/ status'[i] = status[i]
          \/ status[i] = "absent" /\ status'[i] = "pending"
      BY <1>1, <1>5 DEF Enqueue, ComeDue, LeaseLapse, TypeInv, TypeOK, RowsOK
    <3>3. CASE status'[i] = status[i]
      BY <3>1, <3>3 DEF RowWorth
    <3>4. CASE status[i] = "absent" /\ status'[i] = "pending"
      BY <3>1, <3>4, WorthFacts DEF RowWorth
    <3> QED
      BY <3>2, <3>3, <3>4
  <2>2. UNCHANGED <<workerVars, stopping, outages, historyVars>>
    BY <1>5 DEF Enqueue, ComeDue, LeaseLapse
  <2> QED
    BY <1>1, <2>1, <2>2, RowStep
<1>6. ASSUME NEW g \in Hooks, SuppressQueued(g) PROVE PurseOK'
  <2>1. ASSUME NEW i \in Jobs PROVE RowWorth(i)' <= RowWorth(i)
    <3>1. RowWorth(i) \in Nat /\ attempt'[i] = attempt[i]
      BY <1>1, <1>6, WorthTyped DEF WorthOK, SuppressQueued
    <3>2. status'[i] \in {status[i], "suppressed"}
      BY <1>6 DEF SuppressQueued
    <3> QED
      BY <3>1, <3>2 DEF RowWorth
  <2>2. UNCHANGED <<workerVars, stopping, outages, historyVars>>
    BY <1>6 DEF SuppressQueued
  <2> QED
    BY <1>1, <2>1, <2>2, RowStep
<1> HIDE DEF Steps
<1>7. ASSUME NEW w \in Workers, WorkerStep(w) \/ Throw(w) \/ Stop(w) \/ Crash(w) PROVE PurseOK'
  <2>1. Steps(w)
    <3> SUFFICES ASSUME NEW v \in Workers \ {w} PROVE Alike(v)
      BY DEF Steps
    <3> USE <1>1 DEF Alike, TypeInv, TypeOK, WorkersOK, workerVars
    <3>1. CASE RequeueExpired(w) \/ Claim(w) \/ Refuse(w) \/ Call(w) \/ EndTick(w) \/ Restart(w)
      BY <3>1 DEF RequeueExpired, Claim, Refuse, Call, EndTick, Restart
    <3>2. ASSUME NEW j \in Jobs, BeginJob(w, j) PROVE Alike(v)
      BY <3>2 DEF BeginJob
    <3>3. ASSUME NEW o \in Outcomes, Answer(w, o) PROVE Alike(v)
      BY <3>3 DEF Answer
    <3>4. CASE ApplyOutcome(w) \/ ApplySuppression(w) \/ ApplyUpdateProcessed(w)
               \/ RequeueWithErrorCap(w)
      <4>1. EndJob(w)
        BY <3>4 DEF ApplyOutcome, ApplySuppression, ApplyUpdateProcessed, ApplyEnding,
            RequeueWithErrorCap
      <4> QED
        BY <4>1 DEF EndJob
    <3>5. CASE ReleaseUnattempted(w) \/ Exit(w) \/ Crash(w)
      BY <3>5 DEF ReleaseUnattempted, Exit, Crash, Forget
    <3>6. CASE Throw(w) \/ Stop(w)
      BY <3>6 DEF Throw, Stop
    <3> QED
      BY <1>7, <3>1, <3>2, <3>3, <3>4, <3>5, <3>6 DEF WorkerStep
  <2>2. ASSUME NEW j \in Jobs PROVE Pays(w, j)
    <3>1. CASE RequeueExpired(w)
      BY <1>1, <3>1, SweepPays
    <3>2. CASE Claim(w)
      BY <1>1, <3>2, ClaimPays
    <3>3. ASSUME NEW i \in Jobs, BeginJob(w, i) PROVE Pays(w, j)
      BY <1>1, <3>3, BeginPays
    <3>4. CASE Call(w)
      BY <1>1, <3>4, CallPays
    <3>5. ASSUME NEW o \in Outcomes, Answer(w, o) PROVE Pays(w, j)
      BY <1>1, <3>5, AnswerPays
    <3>6. CASE ApplyOutcome(w) \/ ApplySuppression(w) \/ ApplyUpdateProcessed(w)
               \/ RequeueWithErrorCap(w)
      BY <1>1, <3>6, FinalizerPays
    <3>7. CASE ReleaseUnattempted(w)
      BY <1>1, <3>7, ReleasePays
    <3>8. CASE Stop(w) \/ Crash(w)
      BY <1>1, <3>8, OutagePays
    <3>9. CASE Refuse(w) \/ Throw(w) \/ EndTick(w) \/ Exit(w) \/ Restart(w)
      BY <1>1, <3>9, OtherPays
    <3> QED
      BY <1>7, <3>1, <3>2, <3>3, <3>4, <3>5, <3>6, <3>7, <3>8, <3>9 DEF WorkerStep
  <2> QED
    BY <2>1, <2>2, <1>3
<1>8. QED
  BY <1>4, <1>5, <1>6, <1>7 DEF Next

\* For any jobs, workers, lapses, exceptions and outages the tries of a job are bounded
\* (TriesBounded): a transport is never called for ever.
THEOREM TriesStayBounded == Spec => []TriesBounded
<1>1. Init => PurseInv
  <2> SUFFICES ASSUME Init PROVE PurseInv
    OBVIOUS
  <2>1. TypeInv
    BY InitTypeInv
  <2>2. ASSUME NEW j \in Jobs
        PROVE  /\ IsFiniteSet(Purse(j))
               /\ tries[j] + Cardinality(Purse(j)) <= (1 + outages) * Worth(0) + limited[j]
    <3>1. ASSUME NEW w \in Workers PROVE HandCoins(w, j) = {}
      <4>1. HandWorth(w, j) = 0
        BY OutboxAssumption DEF Init, HandWorth, JobWorth, StopWorth, Waiting
      <4> QED
        BY <4>1 DEF HandCoins, Coins
    <3>2. RowWorth(j) = Worth(0)
      BY DEF Init, RowWorth
    <3>3. Purse(j) = Coins("row", j, Worth(0))
      BY <3>1, <3>2 DEF Purse
    <3>4. IsFiniteSet(Purse(j)) /\ Cardinality(Purse(j)) = Worth(0)
      BY <3>3, CoinsAre, WorthFacts
    <3> QED
      BY <3>4, WorthFacts DEF Init
  <2> QED
    BY <2>1, <2>2 DEF PurseInv, PurseOK
<1>2. PurseInv => TriesBounded
  <2> SUFFICES ASSUME PurseInv, NEW j \in Jobs
               PROVE  tries[j] <= (1 + outages) * (2^MaxUnknownAttempts - 1) + limited[j]
    BY DEF TriesBounded
  <2>1. Worth(0) = 2^MaxUnknownAttempts - 1
    BY OutboxAssumption DEF Worth
  <2>2. /\ tries[j] + Cardinality(Purse(j)) <= (1 + outages) * Worth(0) + limited[j]
        /\ Cardinality(Purse(j)) \in Nat /\ Worth(0) \in Nat
        /\ tries[j] \in Nat /\ limited[j] \in Nat /\ outages \in Nat
    BY FS_CardinalityType, WorthFacts, OutboxAssumption
        DEF PurseInv, PurseOK, TypeInv, TypeOK, HistoryOK
  <2>3. PICK p \in Nat : p = (1 + outages) * Worth(0)
    BY <2>2
  <2>4. tries[j] <= p + limited[j]
    BY <2>2, <2>3
  <2> QED
    BY <2>1, <2>3, <2>4
<1>3. QED
  BY <1>1, <1>2, NextPurse, PTL DEF Spec
=============================================================================
