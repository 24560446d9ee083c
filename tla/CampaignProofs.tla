--------------------------- MODULE CampaignProofs ---------------------------
(***************************************************************************)
(* Proofs about a campaign, for any audience, any number of requests of    *)
(* every kind and of workers, with and without exceptions: type            *)
(* correctness, that what is queued is a text an owner approved, that the  *)
(* counters are the jobs, and that a completed campaign is drained.        *)
(***************************************************************************)
EXTENDS Campaign, FiniteSetTheorems, TLAPS

Queued == {"working", "finalizing", "bump", "check", "complete", "commit", "failing"}
Deciding == {"finalizing", "withdrawing", "revoking", "bump", "check", "complete", "commit"}

\* What a worker remembers: a job that has been queued, and once it has decided,
\* what it is about to write.
FinOK ==
    \A w \in Workers :
        /\ fin[w].phase # "idle" => fin[w].account \in Accounts
        /\ fin[w].phase \in Queued => job[fin[w].account] # "absent"
        /\ fin[w].phase \in Deciding => fin[w].outcome # "none"

\* Content that can still be edited or approved has a revision.
RevisionOK ==
    campaign.state \in {"draft", "approved"} => campaign.revision \in 1..RevisionBound

TypeInv == TypeOK /\ FinOK /\ RevisionOK

LEMMA InitTypeInv == Init => TypeInv
BY CampaignAssumption DEF Init, TypeInv, TypeOK, FinOK, RevisionOK, Queued, Deciding, NoRow, Idle,
    CampaignRow, States, Null, ReqPhases, FinPhases, Outcomes, Withdrawals

Requesting == [phase : ReqPhases, revision : 0..RevisionBound, members : SUBSET Accounts]

Finishing == [phase : FinPhases, account : Accounts \cup {Free}, outcome : Outcomes]

\* A step of a request that writes no row.
LEMMA RequestMoves ==
    ASSUME TypeInv, req' \in [Requests -> Requesting], UNCHANGED <<rows, eligible, jobLock, fin>>,
           campaignLock' \in Requests \cup Workers \cup {Free}
    PROVE  TypeInv'
BY DEF TypeInv, TypeOK, FinOK, RevisionOK, Requesting, rows

\* A step of a request that writes the campaign's row, and perhaps queues or suppresses.
LEMMA RequestWrites ==
    ASSUME TypeInv, req' \in [Requests -> Requesting], campaign' \in CampaignRow, RevisionOK',
           audience' \subseteq Accounts, approvals' \subseteq 1..RevisionBound,
           job' \in [Accounts -> {"absent"} \cup OpenJob \cup DoneJob],
           jobText' \in [Accounts -> 0..RevisionBound],
           \A a \in Accounts : job[a] # "absent" => job'[a] # "absent",
           UNCHANGED <<eligible, jobLock, fin, requeued>>,
           campaignLock' \in Requests \cup Workers \cup {Free}
    PROVE  TypeInv'
BY DEF TypeInv, TypeOK, FinOK, Requesting, Queued

LEMMA FinishOK ==
    ASSUME TypeOK, NEW r \in Requests, Finish(r) PROVE req' \in [Requests -> Requesting]
BY CampaignAssumption DEF TypeOK, Finish, Requesting, ReqPhases

-----------------------------------------------------------------------------
\* No job disappears.
JobsStay == \A a \in Accounts : job[a] # "absent" => job'[a] # "absent"

\* What a worker remembers next, ...
LEMMA FinMoves ==
    ASSUME TypeInv, JobsStay, NEW w \in Workers, NEW f \in Finishing, fin' = [fin EXCEPT ![w] = f],
           f.phase # "idle" => f.account \in Accounts,
           f.phase \in Queued => job'[f.account] # "absent",
           f.phase \in Deciding => f.outcome # "none"
    PROVE  fin' \in [Workers -> Finishing] /\ FinOK'
<1>1. fin \in [Workers -> Finishing] /\ FinOK
    BY DEF TypeInv, TypeOK, Finishing
<1>2. fin' \in [Workers -> Finishing]
    BY <1>1
<1>3. fin'[w] = f /\ \A v \in Workers : v # w => fin'[v] = fin[v]
    BY <1>1
<1>4. FinOK'
    BY <1>1, <1>3 DEF FinOK, JobsStay, Queued
<1>5. QED
    BY <1>2, <1>4

\* ... when it is done, ...
LEMMA LeaveOK ==
    ASSUME TypeInv, JobsStay, NEW w \in Workers, Leave(w)
    PROVE  fin' \in [Workers -> Finishing] /\ FinOK'
<1>1. Idle \in Finishing /\ Idle.phase = "idle"
    BY DEF Idle, Finishing, FinPhases, Outcomes
<1>2. QED
    BY <1>1, FinMoves DEF Leave, Queued, Deciding

\* ... and when it goes on with the job it has.
LEMMA EnterOK ==
    ASSUME TypeInv, JobsStay, NEW w \in Workers, NEW phase \in FinPhases, Enter(w, phase),
           fin[w].phase # "idle",
           phase \in Queued => job'[fin[w].account] # "absent",
           phase \in Deciding => fin[w].outcome # "none"
    PROVE  fin' \in [Workers -> Finishing] /\ FinOK'
<1> DEFINE f == [phase |-> phase, account |-> fin[w].account, outcome |-> fin[w].outcome]
<1>1. fin[w] \in Finishing /\ fin[w].account \in Accounts
    BY DEF TypeInv, TypeOK, FinOK, Finishing
<1>2. f \in Finishing /\ [fin[w] EXCEPT !.phase = phase] = f
    BY <1>1 DEF Finishing
<1>3. fin' = [fin EXCEPT ![w] = f]
    BY <1>2 DEF Enter
<1>4. QED
    BY <1>1, <1>2, <1>3, FinMoves

\* A step of a worker that writes no row.
LEMMA WorkerMoves ==
    ASSUME TypeInv, fin' \in [Workers -> Finishing], FinOK', UNCHANGED <<rows, req>>,
           eligible' \subseteq Accounts, campaignLock' \in Requests \cup Workers \cup {Free},
           jobLock' \in [Accounts -> Workers \cup {Free}]
    PROVE  TypeInv'
BY DEF TypeInv, TypeOK, RevisionOK, Finishing, rows

\* A step of a worker that writes a job.
LEMMA WorkerWrites ==
    ASSUME TypeInv, fin' \in [Workers -> Finishing], FinOK',
           UNCHANGED <<campaign, audience, eligible, jobText, locks, req, approvals>>,
           job' \in [Accounts -> {"absent"} \cup OpenJob \cup DoneJob], requeued' \subseteq Accounts
    PROVE  TypeInv'
BY DEF TypeInv, TypeOK, RevisionOK, Finishing, locks

LEMMA NextTypeInv == TypeInv /\ [Next]_vars => TypeInv'
<1> SUFFICES ASSUME TypeInv, [Next]_vars PROVE TypeInv'
    OBVIOUS
<1>1. ASSUME Create PROVE TypeInv'
    <2>1. campaign' \in CampaignRow /\ RevisionOK'
        <3>1. /\ campaign.approved \in 0..RevisionBound
              /\ campaign.queued \in Nat /\ campaign.sent \in Nat
            BY DEF TypeInv, TypeOK, CampaignRow
        <3>2. campaign' = [state |-> "draft", revision |-> 1, approved |-> campaign.approved,
                           queued |-> campaign.queued, sent |-> campaign.sent]
            BY <1>1 DEF Create, TypeInv, TypeOK, CampaignRow
        <3>3. 1 \in 0..RevisionBound /\ 1 \in 1..RevisionBound
            BY CampaignAssumption
        <3>4. QED
            BY <3>1, <3>2, <3>3 DEF CampaignRow, States, RevisionOK
    <2>2. QED
        BY <1>1, <2>1, RequestWrites DEF Create, TypeInv, TypeOK, locks, Requesting
<1>2. ASSUME NEW a \in Accounts, Join(a) PROVE TypeInv'
    BY <1>2 DEF Join, TypeInv, TypeOK, FinOK, RevisionOK, rows, locks
<1>3. ASSUME NEW r \in Requests, Load(r) PROVE TypeInv'
    <2>1. req' \in [Requests -> Requesting]
        <3>1. req \in [Requests -> Requesting] /\ campaign.revision \in 0..RevisionBound
            BY DEF TypeInv, TypeOK, CampaignRow, Requesting
        <3>2. req' = [req EXCEPT ![r] = [req[r] EXCEPT !.phase = "loaded",
                                                       !.revision = campaign.revision]]
            BY <1>3 DEF Load
        <3>3. [req[r] EXCEPT !.phase = "loaded", !.revision = campaign.revision] \in Requesting
            BY <3>1 DEF Requesting, ReqPhases
        <3> QED
            BY <3>1, <3>2, <3>3
    <2>2. QED
        BY <1>3, <2>1, RequestMoves DEF TypeInv, TypeOK, locks, Load
<1>4. ASSUME NEW r \in Requests, EditUpdate(r) PROVE TypeInv'
    <2>1. campaign' \in CampaignRow /\ RevisionOK'
        <3>1. CASE campaign' = campaign
            BY <3>1 DEF TypeInv, TypeOK, RevisionOK
        <3>2. CASE campaign' # campaign
            <4>1. campaign' = [campaign EXCEPT !.state = "draft", !.revision = req[r].revision + 1,
                                               !.approved = Null]
                BY <1>4, <3>2 DEF EditUpdate
            <4>2. campaign' = [state |-> "draft", revision |-> req[r].revision + 1, approved |-> 0,
                               queued |-> campaign.queued, sent |-> campaign.sent]
                BY <4>1 DEF TypeInv, TypeOK, CampaignRow, Null
            <4>3. req[r].revision + 1 \in 1..RevisionBound /\ campaign.queued \in Nat
                  /\ campaign.sent \in Nat
                BY <1>4, CampaignAssumption DEF EditUpdate, TypeInv, TypeOK, CampaignRow
            <4>4. QED
                BY <4>2, <4>3, CampaignAssumption DEF CampaignRow, States, RevisionOK
        <3>3. QED
            BY <3>1, <3>2
    <2>2. QED
        BY <1>4, <2>1, FinishOK, RequestWrites DEF EditUpdate, TypeInv, TypeOK, locks
<1>5. ASSUME NEW r \in Requests, ApproveRead(r) PROVE TypeInv'
    <2>1. req' \in [Requests -> Requesting]
        BY ZenonT(40), <1>5 DEF TypeInv, TypeOK, CampaignRow, Requesting, ReqPhases, ApproveRead
    <2>2. QED
        BY <1>5, <2>1, RequestMoves DEF TypeInv, TypeOK, locks, ApproveRead
<1>6. ASSUME NEW r \in Requests, ApproveUpdate(r) PROVE TypeInv'
    <2>1. req[r] \in Requesting
        BY DEF TypeInv, TypeOK, Requesting
    <2>2. campaign' \in CampaignRow /\ RevisionOK'
        BY <1>6 DEF ApproveUpdate, Reviewed, TypeInv, TypeOK, RevisionOK, CampaignRow, States
    <2>3. approvals' \subseteq 1..RevisionBound
        BY <1>6 DEF ApproveUpdate, Reviewed, TypeInv, TypeOK, RevisionOK
    <2>4. QED
        BY <1>6, <2>1, <2>2, <2>3, FinishOK, RequestWrites
        DEF ApproveUpdate, Requesting, TypeInv, TypeOK, locks
<1>7. ASSUME NEW r \in Requests, SendRead(r) PROVE TypeInv'
    <2>1. req' \in [Requests -> Requesting]
        BY ZenonT(40), <1>7 DEF TypeInv, TypeOK, CampaignRow, Requesting, ReqPhases, SendRead
    <2>2. QED
        BY <1>7, <2>1, RequestMoves DEF TypeInv, TypeOK, locks, SendRead
<1>8. ASSUME NEW r \in Requests, SendEnqueue(r) PROVE TypeInv'
    <2>1. req' \in [Requests -> Requesting]
        BY ZenonT(40), <1>8 DEF TypeInv, TypeOK, Requesting, ReqPhases, SendEnqueue
    <2>2. QED
        BY <1>8, <2>1, RequestMoves DEF TypeInv, TypeOK, locks, SendEnqueue
<1>9. ASSUME NEW r \in Requests, SendCommit(r) PROVE TypeInv'
    <2>1. req[r] \in Requesting
        BY DEF TypeInv, TypeOK, Requesting
    <2>2. Cardinality(req[r].members) \in Nat
        <3>1. req[r].members \subseteq Accounts
            BY <2>1 DEF Requesting
        <3>2. QED
            BY <3>1, CampaignAssumption, FS_Subset, FS_CardinalityType
    <2>3. campaign' \in CampaignRow /\ RevisionOK'
        <3>1. PICK s \in {"completed", "running"} :
                 campaign' = [campaign EXCEPT !.state = s,
                                              !.queued = @ + Cardinality(req[r].members)]
            BY <1>9 DEF SendCommit
        <3>2. campaign' = [state |-> s, revision |-> campaign.revision,
                           approved |-> campaign.approved,
                           queued |-> campaign.queued + Cardinality(req[r].members),
                           sent |-> campaign.sent]
            BY <3>1 DEF TypeInv, TypeOK, CampaignRow
        <3>3. /\ campaign.revision \in 0..RevisionBound /\ campaign.approved \in 0..RevisionBound
              /\ campaign.queued \in Nat /\ campaign.sent \in Nat
            BY DEF TypeInv, TypeOK, CampaignRow
        <3>4. campaign.queued + Cardinality(req[r].members) \in Nat
            BY <2>2, <3>3
        <3>5. QED
            BY <3>2, <3>3, <3>4 DEF RevisionOK, CampaignRow, States
    <2>4. /\ job' \in [Accounts -> {"absent"} \cup OpenJob \cup DoneJob]
          /\ jobText' \in [Accounts -> 0..RevisionBound]
          /\ \A a \in Accounts : job[a] # "absent" => job'[a] # "absent"
        BY <1>9, <2>1 DEF SendCommit, TypeInv, TypeOK, Requesting, OpenJob
    <2>5. QED
        BY <1>9, <2>3, <2>4, FinishOK, RequestWrites DEF SendCommit, TypeInv, TypeOK, locks
<1>10. ASSUME NEW r \in Requests, CancelUpdate(r) PROVE TypeInv'
    <2>1. req' \in [Requests -> Requesting]
        BY <1>10, FinishOK DEF TypeInv, TypeOK, Requesting, ReqPhases, CancelUpdate
    <2>2. QED
        BY <1>10, <2>1, RequestMoves DEF TypeInv, TypeOK, CancelUpdate
<1>11. ASSUME NEW r \in Requests, CancelScan(r) PROVE TypeInv'
    <2>1. req' \in [Requests -> Requesting]
        BY ZenonT(40), <1>11 DEF TypeInv, TypeOK, CampaignRow, Requesting, ReqPhases, CancelScan
    <2>2. QED
        BY <1>11, <2>1, RequestMoves DEF TypeInv, TypeOK, locks, CancelScan
<1>12. ASSUME NEW r \in Requests, CancelCommit(r) PROVE TypeInv'
    <2>1. campaign' \in CampaignRow /\ RevisionOK'
        BY <1>12 DEF CancelCommit, TypeInv, TypeOK, RevisionOK, CampaignRow, States
    <2>2. /\ job' \in [Accounts -> {"absent"} \cup OpenJob \cup DoneJob]
          /\ \A a \in Accounts : job[a] # "absent" => job'[a] # "absent"
        BY <1>12 DEF CancelCommit, TypeInv, TypeOK, DoneJob
    <2>3. QED
        BY <1>12, <2>1, <2>2, FinishOK, RequestWrites DEF CancelCommit, TypeInv, TypeOK
<1>13. ASSUME NEW r \in Requests, AbortCancel(r) PROVE TypeInv'
    BY <1>13, FinishOK, RequestMoves DEF TypeInv, AbortCancel
<1>f. ASSUME NEW w \in Workers
      PROVE  /\ fin[w] \in Finishing
             /\ fin[w].phase # "idle" => fin[w].account \in Accounts
             /\ fin[w].phase \in Queued => job[fin[w].account] # "absent"
             /\ fin[w].phase \in Deciding => fin[w].outcome # "none"
    BY DEF TypeInv, TypeOK, FinOK, Finishing
<1>t. /\ eligible \subseteq Accounts /\ campaignLock \in Requests \cup Workers \cup {Free}
      /\ jobLock \in [Accounts -> Workers \cup {Free}] /\ requeued \subseteq Accounts
      /\ job \in [Accounts -> {"absent"} \cup OpenJob \cup DoneJob]
    BY DEF TypeInv, TypeOK
<1>r. UNCHANGED rows => JobsStay
    BY DEF rows, JobsStay
<1>14. ASSUME NEW w \in Workers, NEW a \in Accounts, Claim(w, a) PROVE TypeInv'
    <2> DEFINE f == [phase |-> "working", account |-> a, outcome |-> "none"]
    <2>1. /\ job' \in [Accounts -> {"absent"} \cup OpenJob \cup DoneJob]
          /\ JobsStay /\ job'[a] # "absent"
        BY <1>14, <1>t DEF Claim, JobsStay, OpenJob
    <2>2. f \in Finishing /\ fin' = [fin EXCEPT ![w] = f]
        BY <1>14 DEF Claim, Finishing, FinPhases, Outcomes
    <2>3. fin' \in [Workers -> Finishing] /\ FinOK'
        BY <2>1, <2>2, FinMoves DEF Deciding
    <2>4. QED
        BY <1>14, <1>t, <2>1, <2>3, WorkerWrites DEF Claim
<1>15. ASSUME NEW w \in Workers, NEW a \in Accounts, Withdraw(w, a) PROVE TypeInv'
    <2> DEFINE f == [phase |-> "withdrawing", account |-> a, outcome |-> "withdrawn"]
    <2>1. f \in Finishing /\ fin' = [fin EXCEPT ![w] = f]
        BY <1>15 DEF Withdraw, Finishing, FinPhases, Outcomes, Withdrawals
    <2>2. UNCHANGED <<rows, eligible, locks, req>> /\ JobsStay
        BY <1>15, <1>r DEF Withdraw
    <2>3. fin' \in [Workers -> Finishing] /\ FinOK'
        BY <2>1, <2>2, FinMoves DEF Queued
    <2>4. QED
        BY <1>t, <2>2, <2>3, WorkerMoves DEF locks
<1>16. ASSUME NEW w \in Workers, NEW a \in Accounts, Revoke(w, a) PROVE TypeInv'
    <2> DEFINE f == [phase |-> "revoking", account |-> a, outcome |-> "revoked"]
    <2>1. f \in Finishing /\ fin' = [fin EXCEPT ![w] = f]
        BY <1>16 DEF Revoke, Finishing, FinPhases, Outcomes, Withdrawals
    <2>2. UNCHANGED <<rows, locks, req>> /\ JobsStay /\ eligible' \subseteq Accounts
        BY <1>16, <1>r, <1>t DEF Revoke
    <2>3. fin' \in [Workers -> Finishing] /\ FinOK'
        BY <2>1, <2>2, FinMoves DEF Queued
    <2>4. QED
        BY <1>t, <2>2, <2>3, WorkerMoves DEF locks
<1>17. ASSUME NEW w \in Workers, NEW o \in DoneJob, Answer(w, o) PROVE TypeInv'
    <2> DEFINE a == fin[w].account
               f == [phase |-> "finalizing", account |-> a, outcome |-> o]
    <2>1. f \in Finishing /\ fin' = [fin EXCEPT ![w] = f] /\ o # "none"
        <3>1. f \in Finishing /\ o # "none"
            BY <1>f DEF Finishing, FinPhases, Outcomes, DoneJob
        <3>2. fin[w] \in [phase : FinPhases, account : Accounts \cup {Free}, outcome : Outcomes]
            BY <1>f DEF Finishing
        <3>3. PICK g : g = [fin[w] EXCEPT !.phase = "finalizing", !.outcome = o]
            OBVIOUS
        <3>4. g = f
            BY <3>2, <3>3
        <3>5. fin' = [fin EXCEPT ![w] = g]
            BY <1>17, <3>3 DEF Answer
        <3>6. QED
            BY <3>1, <3>4, <3>5
    <2>2. UNCHANGED <<rows, eligible, locks, req>> /\ JobsStay
        BY <1>17, <1>r DEF Answer
    <2>3. a \in Accounts /\ job'[a] # "absent"
        BY <1>17, <1>f, <2>2 DEF Answer, Queued, rows
    <2>4. fin' \in [Workers -> Finishing] /\ FinOK'
        BY <2>1, <2>2, <2>3, FinMoves
    <2>5. QED
        BY <1>t, <2>2, <2>4, WorkerMoves DEF locks
<1>18. ASSUME NEW w \in Workers, Retry(w) PROVE TypeInv'
    <2>1. job' \in [Accounts -> {"absent"} \cup OpenJob \cup DoneJob] /\ JobsStay
        BY <1>18, <1>t DEF Retry, JobsStay, OpenJob
    <2>2. fin' \in [Workers -> Finishing] /\ FinOK'
        BY <1>18, <2>1, LeaveOK DEF Retry
    <2>3. QED
        BY <1>18, <1>t, <2>1, <2>2, WorkerWrites DEF Retry
<1>19. ASSUME NEW w \in Workers, LockJob(w) PROVE TypeInv'
    <2> DEFINE a == fin[w].account
    <2>1. /\ fin[w].phase \in {"finalizing", "withdrawing"} /\ UNCHANGED <<rows, campaignLock, req>>
          /\ a \in Accounts /\ fin[w].outcome # "none" /\ JobsStay
        BY <1>19, <1>f, <1>r DEF LockJob, Deciding
    <2>2. CASE Leave(w) /\ eligible' = EligibleAfter(w) /\ UNCHANGED jobLock
        <3>1. fin' \in [Workers -> Finishing] /\ FinOK'
            BY <2>1, <2>2, LeaveOK
        <3>2. eligible' \subseteq Accounts
            BY <2>2, <1>t DEF EligibleAfter
        <3>3. QED
            BY <1>t, <2>1, <2>2, <3>1, <3>2, WorkerMoves
    <2>3. CASE /\ job[a] \in OpenJob /\ UNCHANGED eligible
               /\ jobLock' = [jobLock EXCEPT ![a] = w]
               /\ Enter(w, IF fin[w].outcome = "sent" THEN "bump" ELSE "check")
        <3>1. PICK phase \in {"bump", "check"} : Enter(w, phase)
            BY <2>3
        <3>2. job'[a] # "absent" /\ phase \in FinPhases
            BY <2>1, <2>3 DEF rows, OpenJob, FinPhases
        <3>3. fin' \in [Workers -> Finishing] /\ FinOK'
            BY <2>1, <3>1, <3>2, EnterOK
        <3>4. jobLock' \in [Accounts -> Workers \cup {Free}]
            BY <2>1, <2>3, <1>t
        <3>5. QED
            BY <1>t, <2>1, <2>3, <3>3, <3>4, WorkerMoves
    <2>4. QED
        BY <1>19, <2>2, <2>3 DEF LockJob, OpenJob
<1>20. ASSUME NEW w \in Workers, BumpSentCount(w) PROVE TypeInv'
    <2>1. /\ UNCHANGED <<rows, eligible, jobLock, req>> /\ campaignLock' = w /\ JobsStay
          /\ fin[w].phase = "bump" /\ Enter(w, "check")
        BY <1>20, <1>r DEF BumpSentCount
    <2>2. job'[fin[w].account] # "absent" /\ fin[w].outcome # "none"
        BY <2>1, <1>f DEF Queued, Deciding, rows
    <2>3. fin' \in [Workers -> Finishing] /\ FinOK'
        BY <2>1, <2>2, EnterOK DEF FinPhases
    <2>4. QED
        BY <1>t, <2>1, <2>3, WorkerMoves
<1>21. ASSUME NEW w \in Workers, CheckDrained(w) PROVE TypeInv'
    <2>1. /\ UNCHANGED <<rows, eligible, locks, req>> /\ JobsStay /\ fin[w].phase = "check"
          /\ \E phase \in {"complete", "commit"} : Enter(w, phase)
        BY <1>21, <1>r DEF CheckDrained
    <2>2. job'[fin[w].account] # "absent" /\ fin[w].outcome # "none"
        BY <2>1, <1>f DEF Queued, Deciding, rows
    <2>3. fin' \in [Workers -> Finishing] /\ FinOK'
        BY <2>1, <2>2, EnterOK DEF FinPhases
    <2>4. QED
        BY <1>t, <2>1, <2>3, WorkerMoves DEF locks
<1>22. ASSUME NEW w \in Workers, CommitFinal(w) PROVE TypeInv'
    <2> DEFINE a == fin[w].account
    <2>1. a \in Accounts /\ job[a] # "absent" /\ fin[w].outcome \in Outcomes \ {"none"}
        BY <1>22, <1>f DEF CommitFinal, Queued, Deciding, Finishing
    <2>2. campaign' \in CampaignRow /\ RevisionOK'
        <3>1. PICK s \in {campaign.state, "completed"}, n \in {campaign.sent, campaign.sent + 1} :
                 campaign' = [campaign EXCEPT !.state = s, !.sent = n]
            BY <1>22 DEF CommitFinal
        <3>2. campaign \in CampaignRow /\ RevisionOK
            BY DEF TypeInv, TypeOK
        <3>3. campaign' = [state |-> s, revision |-> campaign.revision,
                           approved |-> campaign.approved, queued |-> campaign.queued, sent |-> n]
            BY <3>1, <3>2 DEF CampaignRow
        <3>4. QED
            BY <3>2, <3>3 DEF CampaignRow, States, RevisionOK
    <2>3. /\ job' \in [Accounts -> {"absent"} \cup OpenJob \cup DoneJob]
          /\ JobsStay
        BY <1>22, <2>1, <1>t DEF CommitFinal, Ending, Outcomes, Withdrawals, DoneJob, JobsStay
    <2>4. /\ eligible' \subseteq Accounts
          /\ campaignLock' \in Requests \cup Workers \cup {Free}
          /\ jobLock' \in [Accounts -> Workers \cup {Free}]
        BY <1>22, <2>1, <1>t DEF CommitFinal, EligibleAfter
    <2>5. /\ fin' \in [Workers -> Finishing] /\ FinOK'
          /\ UNCHANGED <<audience, jobText, req, approvals, requeued>>
        BY <1>22, <2>3, LeaveOK DEF CommitFinal
    <2>6. QED
        BY <2>2, <2>3, <2>4, <2>5 DEF TypeInv, TypeOK, Finishing
<1>23. ASSUME NEW w \in Workers, RevokeSuppress(w) PROVE TypeInv'
    <2> DEFINE a == fin[w].account
    <2>1. /\ fin[w].phase = "revoking" /\ a \in Accounts /\ fin[w].outcome # "none"
          /\ UNCHANGED <<campaign, audience, eligible, jobText, locks, req, approvals, requeued>>
        BY <1>23, <1>f DEF RevokeSuppress, Deciding
    <2>2. CASE job' = [job EXCEPT ![a] = "suppressed"] /\ Enter(w, "check")
        <3>1. /\ job' \in [Accounts -> {"absent"} \cup OpenJob \cup DoneJob]
              /\ JobsStay /\ job'[a] # "absent"
            BY <2>1, <2>2, <1>t DEF JobsStay, DoneJob
        <3>2. fin' \in [Workers -> Finishing] /\ FinOK'
            BY <2>1, <2>2, <3>1, EnterOK DEF FinPhases
        <3>3. QED
            BY <1>t, <2>1, <3>1, <3>2, WorkerWrites
    <2>3. CASE UNCHANGED job /\ Leave(w)
        <3>1. JobsStay
            BY <2>3 DEF JobsStay
        <3>2. fin' \in [Workers -> Finishing] /\ FinOK'
            BY <2>3, <3>1, LeaveOK
        <3>3. QED
            BY <1>t, <2>1, <2>3, <3>2, WorkerWrites
    <2>4. QED
        BY <1>23, <2>2, <2>3 DEF RevokeSuppress
<1>24. ASSUME NEW w \in Workers, RevokeDies(w) PROVE TypeInv'
    <2>1. UNCHANGED <<rows, eligible, locks, req>> /\ JobsStay /\ Leave(w)
        BY <1>24, <1>r DEF RevokeDies
    <2>2. fin' \in [Workers -> Finishing] /\ FinOK'
        BY <2>1, LeaveOK
    <2>3. QED
        BY <1>t, <2>1, <2>2, WorkerMoves DEF locks
<1>25. ASSUME NEW w \in Workers, AbortFinalizer(w) PROVE TypeInv'
    <2>1. /\ fin[w].phase \in {"bump", "complete"}
          /\ UNCHANGED <<rows, eligible, campaignLock, req>>
          /\ jobLock' = [jobLock EXCEPT ![fin[w].account] = Free] /\ JobsStay
          /\ Leave(w) \/ Enter(w, "failing")
        BY <1>25, <1>r DEF AbortFinalizer, Deadlocked
    <2>2. /\ fin[w].account \in Accounts /\ job'[fin[w].account] # "absent"
          /\ jobLock' \in [Accounts -> Workers \cup {Free}]
        BY <2>1, <1>f, <1>t DEF Queued, rows
    <2>3. CASE Leave(w)
        <3>1. fin' \in [Workers -> Finishing] /\ FinOK'
            BY <2>1, <2>3, LeaveOK
        <3>2. QED
            BY <1>t, <2>1, <2>2, <3>1, WorkerMoves
    <2>4. CASE Enter(w, "failing")
        <3>1. fin' \in [Workers -> Finishing] /\ FinOK'
            BY <2>1, <2>2, <2>4, EnterOK DEF FinPhases, Deciding
        <3>2. QED
            BY <1>t, <2>1, <2>2, <3>1, WorkerMoves
    <2>5. QED
        BY <2>1, <2>3, <2>4
<1>26. ASSUME NEW w \in Workers, Throw(w) PROVE TypeInv'
    <2>1. /\ UNCHANGED <<rows, eligible, locks, req>> /\ JobsStay /\ fin[w].phase = "working"
          /\ Enter(w, "failing")
        BY <1>26, <1>r DEF Throw
    <2>2. job'[fin[w].account] # "absent"
        BY <2>1, <1>f DEF Queued, rows
    <2>3. fin' \in [Workers -> Finishing] /\ FinOK'
        BY <2>1, <2>2, EnterOK DEF FinPhases, Deciding
    <2>4. QED
        BY <1>t, <2>1, <2>3, WorkerMoves DEF locks
<1>27. ASSUME NEW w \in Workers, RequeueWithErrorCap(w) PROVE TypeInv'
    <2> DEFINE a == fin[w].account
    <2>1. /\ a \in Accounts /\ Leave(w) /\ requeued' = requeued \cup {a}
          /\ UNCHANGED <<campaign, audience, eligible, jobText, locks, req, approvals>>
        BY <1>27, <1>f DEF RequeueWithErrorCap
    <2>2. job' \in [Accounts -> {"absent"} \cup OpenJob \cup DoneJob] /\ JobsStay
        BY <1>27, <2>1, <1>t DEF RequeueWithErrorCap, JobsStay, OpenJob, DoneJob
    <2>3. fin' \in [Workers -> Finishing] /\ FinOK'
        BY <2>1, <2>2, LeaveOK
    <2>4. QED
        BY <1>t, <2>1, <2>2, <2>3, WorkerWrites
<1>28. ASSUME UNCHANGED vars PROVE TypeInv'
    BY <1>28 DEF vars, TypeInv, TypeOK, FinOK, RevisionOK, rows, locks
<1>29. QED
    BY <1>1, <1>2, <1>3, <1>4, <1>5, <1>6, <1>7, <1>8, <1>9, <1>10, <1>11, <1>12, <1>13, <1>14,
       <1>15, <1>16, <1>17, <1>18, <1>19, <1>20, <1>21, <1>22, <1>23, <1>24, <1>25, <1>26, <1>27,
       <1>28 DEF Next, RequestStep, WorkerStep

-----------------------------------------------------------------------------
\* TypeOK of Spec: the row, the audience, the jobs, the locks and what requests and
\* workers remember keep the types the schema and the code give them.
THEOREM CampaignTypes == Spec => []TypeOK
<1>1. Init => TypeInv
    BY InitTypeInv
<1>2. TypeInv /\ [Next]_vars => TypeInv'
    BY NextTypeInv
<1>3. TypeInv => TypeOK
    BY DEF TypeInv
<1>4. QED
    BY <1>1, <1>2, <1>3, PTL DEF Spec

-----------------------------------------------------------------------------
\* A send that has loaded the campaign carries a revision that was approved; the approval
\* stands until an edit has overtaken the send.
SendsApproved ==
    \A r \in Requests : Kind[r] = "send" /\ req[r].phase \in {"loaded", "read", "enqueued"}
        => /\ req[r].revision \in approvals /\ campaign.state # "none"
           /\ \/ req[r].revision = campaign.revision /\ campaign.approved = campaign.revision
              \/ req[r].revision < campaign.revision

Approved == TypeInv /\ SendsApproved /\ ApprovalPinned

LEMMA InitApproved == Init => Approved
BY InitTypeInv DEF Init, Approved, SendsApproved, ApprovalPinned, NoRow

\* A step that approves nothing and loads no send: it leaves the row as it is, or takes
\* it out of "approved" with its content untouched, or edits it.
RowKept == campaign' = campaign

RowMoved ==
    /\ campaign'.state \notin {"none", "approved"}
    /\ campaign'.revision = campaign.revision /\ campaign'.approved = campaign.approved

RowEdited == campaign'.state = "draft" /\ campaign'.revision = campaign.revision + 1

SendsKept ==
    \A r \in Requests : Kind[r] = "send" =>
        \/ req'[r].phase \notin {"loaded", "read", "enqueued"}
        \/ /\ req[r].phase \in {"loaded", "read", "enqueued"}
           /\ req'[r].revision = req[r].revision

LEMMA ApprovedStays ==
    ASSUME TypeOK, SendsApproved, ApprovalPinned, UNCHANGED approvals, SendsKept,
           RowKept \/ RowMoved \/ RowEdited
    PROVE  SendsApproved' /\ ApprovalPinned'
<1>1. CASE RowKept
    BY <1>1 DEF SendsApproved, ApprovalPinned, SendsKept, RowKept
<1>2. CASE RowMoved
    BY <1>2 DEF SendsApproved, ApprovalPinned, SendsKept, RowMoved
<1>3. CASE RowEdited
    <2>1. campaign.revision \in Nat /\ (\A r \in Requests : req[r].revision \in Nat)
        BY CampaignAssumption DEF TypeOK, CampaignRow
    <2>2. ApprovalPinned'
        BY <1>3 DEF RowEdited, ApprovalPinned
    <2>3. SendsApproved'
        BY <1>3, <2>1 DEF RowEdited, SendsApproved, SendsKept
    <2>4. QED
        BY <2>2, <2>3
<1>4. QED
    BY <1>1, <1>2, <1>3

\* A step that moves one request, which is no send or goes on as one, or none.
LEMMA OneMoves ==
    ASSUME TypeOK, NEW r \in Requests, NEW q, req' = [req EXCEPT ![r] = q],
           \/ q.phase \notin {"loaded", "read", "enqueued"}
           \/ Kind[r] # "send"
           \/ req[r].phase \in {"loaded", "read", "enqueued"} /\ q.revision = req[r].revision
    PROVE  SendsKept
BY DEF TypeOK, SendsKept

LEMMA NextApproved == Approved /\ [Next]_vars => Approved'
<1> SUFFICES ASSUME Approved, [Next]_vars
             PROVE  SendsApproved' /\ ApprovalPinned'
    BY NextTypeInv DEF Approved
<1> DEFINE Goal == SendsApproved' /\ ApprovalPinned'
<1>t. TypeOK /\ FinOK
    BY DEF Approved, TypeInv
<1>a. SendsApproved /\ ApprovalPinned
    BY DEF Approved
<1>k. ASSUME UNCHANGED <<campaign, approvals>>, SendsKept PROVE Goal
    BY <1>k, <1>a, <1>t, ApprovedStays DEF RowKept
<1>q. ASSUME UNCHANGED <<campaign, approvals, req>> PROVE Goal
    BY <1>q, <1>k DEF SendsKept
<1>1. ASSUME Create PROVE Goal
    <2>1. campaign'.state = "draft"
        BY <1>1, <1>t DEF Create, TypeOK, CampaignRow
    <2>2. \A r \in Requests : Kind[r] = "send" => req[r].phase \notin {"loaded", "read", "enqueued"}
        BY <1>1, <1>a DEF Create, SendsApproved
    <2>3. QED
        BY <1>1, <2>1, <2>2 DEF Create, SendsApproved, ApprovalPinned
<1>2. ASSUME NEW a \in Accounts, Join(a) PROVE Goal
    BY <1>2, <1>q DEF Join, rows
<1>3. ASSUME NEW r \in Requests, Load(r) PROVE Goal
    <2>1. Kind[r] = "send" => /\ campaign.revision \in approvals
                              /\ campaign.state = "approved"
                              /\ campaign.approved = campaign.revision
        BY <1>3, <1>a DEF Load, Accepts, canSend, ApprovalPinned
    <2>2. /\ req'[r].revision = campaign.revision
          /\ \A q \in Requests \ {r} : req'[q] = req[q]
        BY <1>3, <1>t DEF Load, TypeOK
    <2>3. QED
        BY <1>3, <1>a, <2>1, <2>2 DEF Load, rows, SendsApproved, ApprovalPinned
<1>4. ASSUME NEW r \in Requests, EditUpdate(r) PROVE Goal
    <2>1. SendsKept
        BY <1>4, <1>t, OneMoves DEF EditUpdate, Finish
    <2>2. RowKept \/ RowEdited
        BY <1>4, <1>t DEF EditUpdate, TypeOK, CampaignRow, RowKept, RowEdited
    <2>3. UNCHANGED approvals
        BY <1>4 DEF EditUpdate
    <2>4. QED
        BY <1>a, <1>t, <2>1, <2>2, <2>3, ApprovedStays
<1>5. ASSUME NEW r \in Requests, ApproveRead(r) \/ CancelScan(r) PROVE Goal
    <2>1. /\ \A q \in Requests \ {r} : req'[q] = req[q]
          /\ Kind[r] # "send" /\ UNCHANGED <<campaign, approvals>>
        BY <1>5, <1>t DEF ApproveRead, CancelScan, TypeOK, rows
    <2>2. SendsKept
        BY <2>1 DEF SendsKept
    <2>3. QED
        BY <2>1, <2>2, <1>k
<1>6. ASSUME NEW r \in Requests, ApproveUpdate(r) PROVE Goal
    <2>1. SendsKept /\ approvals \subseteq approvals'
        BY <1>6, <1>t, OneMoves DEF ApproveUpdate, Finish
    <2>2. CASE Reviewed(r)
        <3>1. /\ campaign'.state = "approved" /\ campaign'.revision = campaign.revision
              /\ campaign'.approved = campaign.revision /\ campaign.revision \in approvals'
            BY <1>6, <1>t, <2>2 DEF ApproveUpdate, Reviewed, TypeOK, CampaignRow
        <3>2. QED
            BY <1>a, <2>1, <3>1 DEF SendsApproved, SendsKept, ApprovalPinned
    <2>3. CASE ~Reviewed(r)
        <3>1. UNCHANGED <<campaign, approvals>>
            BY <1>6, <2>3 DEF ApproveUpdate
        <3>2. QED
            BY <2>1, <3>1, <1>k
    <2>4. QED
        BY <2>2, <2>3
<1>7. ASSUME NEW r \in Requests, SendRead(r) \/ SendEnqueue(r) PROVE Goal
    <2>1. CASE SendRead(r)
        BY <2>1, <1>t, <1>k DEF SendRead, SendsKept, TypeOK, rows
    <2>2. CASE SendEnqueue(r)
        BY <2>2, <1>t, <1>k DEF SendEnqueue, SendsKept, TypeOK, rows
    <2>3. QED
        BY <1>7, <2>1, <2>2
<1>9. ASSUME NEW r \in Requests, SendCommit(r) PROVE Goal
    <2>1. RowMoved /\ UNCHANGED approvals
        BY <1>9, <1>t DEF SendCommit, RowMoved, TypeOK, CampaignRow
    <2>2. SendsKept
        BY <1>9, <1>t, OneMoves DEF SendCommit, Finish
    <2>3. QED
        BY <1>a, <1>t, <2>1, <2>2, ApprovedStays
<1>10. ASSUME NEW r \in Requests, CancelUpdate(r) \/ AbortCancel(r) PROVE Goal
    <2>1. UNCHANGED <<campaign, approvals>>
        BY <1>10 DEF CancelUpdate, AbortCancel, rows
    <2>2. \E q : req' = [req EXCEPT ![r] = q] /\ q.phase \in {"updated", "done"}
        BY <1>10, <1>t DEF CancelUpdate, AbortCancel, Finish, TypeOK
    <2>3. SendsKept
        BY <2>2, <1>t, OneMoves
    <2>4. QED
        BY <2>1, <2>3, <1>k
<1>12. ASSUME NEW r \in Requests, CancelCommit(r) PROVE Goal
    <2>1. RowMoved /\ UNCHANGED approvals
        BY <1>12, <1>t DEF CancelCommit, RowMoved, TypeOK, CampaignRow
    <2>2. SendsKept
        BY <1>12, <1>t, OneMoves DEF CancelCommit, Finish
    <2>3. QED
        BY <1>a, <1>t, <2>1, <2>2, ApprovedStays
<1>14. ASSUME NEW w \in Workers, NEW a \in Accounts, Claim(w, a) \/ Withdraw(w, a) \/ Revoke(w, a)
       PROVE Goal
    BY <1>14, <1>q DEF Claim, Withdraw, Revoke, rows
<1>17. ASSUME NEW w \in Workers, \/ \E o \in DoneJob : Answer(w, o)
                                 \/ LockJob(w) \/ BumpSentCount(w) \/ CheckDrained(w)
                                 \/ RevokeDies(w) \/ AbortFinalizer(w) \/ Throw(w)
                                 \/ Retry(w) \/ RevokeSuppress(w) \/ RequeueWithErrorCap(w)
       PROVE Goal
    BY <1>17, <1>q DEF Answer, LockJob, BumpSentCount, CheckDrained, RevokeDies, AbortFinalizer,
        Throw, Retry, RevokeSuppress, RequeueWithErrorCap, rows
<1>22. ASSUME NEW w \in Workers, CommitFinal(w) PROVE Goal
    <2>1. UNCHANGED <<req, approvals>>
        BY <1>22 DEF CommitFinal
    <2>2. /\ campaign'.state \in {campaign.state, "completed"}
          /\ campaign'.approved = campaign.approved
          /\ campaign'.revision = campaign.revision
        BY <1>22, <1>t DEF CommitFinal, TypeOK, CampaignRow
    <2>3. QED
        BY <1>a, <2>1, <2>2 DEF SendsApproved, ApprovalPinned
<1>28. ASSUME UNCHANGED vars PROVE Goal
    BY <1>28, <1>q DEF vars
<1>29. QED
    BY <1>1, <1>2, <1>3, <1>4, <1>5, <1>6, <1>7, <1>9, <1>10, <1>12, <1>14, <1>17, <1>22, <1>28
    DEF Next, RequestStep, WorkerStep

\* Only a send that commits queues a job that was not there, with the text it loaded.
LEMMA QueuedNow ==
    ASSUME TypeInv, [Next]_vars, NEW a \in Accounts, job[a] = "absent", job'[a] # "absent"
    PROVE  \E r \in Requests : /\ Kind[r] = "send" /\ req[r].phase = "enqueued"
                               /\ jobText'[a] = req[r].revision
<1>t. TypeOK /\ FinOK
    BY DEF TypeInv
<1>1. \A r \in Requests : ~Load(r) /\ ~EditUpdate(r) /\ ~ApproveRead(r) /\ ~ApproveUpdate(r)
         /\ ~SendRead(r) /\ ~SendEnqueue(r) /\ ~CancelUpdate(r) /\ ~CancelScan(r) /\ ~AbortCancel(r)
    BY DEF Load, EditUpdate, ApproveRead, ApproveUpdate, SendRead, SendEnqueue, CancelUpdate,
        CancelScan, AbortCancel, rows
<1>2. \A r \in Requests : ~CancelCommit(r)
    BY DEF CancelCommit, OpenJob
<1>3. ~Create /\ (\A b \in Accounts : ~Join(b)) /\ ~UNCHANGED vars
    BY DEF Create, Join, vars, rows
<1>4. ASSUME NEW w \in Workers, WorkerStep(w) PROVE FALSE
    <2>1. \A b \in Accounts : ~Withdraw(w, b) /\ ~Revoke(w, b)
        BY DEF Withdraw, Revoke, rows
    <2>2. \A o \in DoneJob : ~Answer(w, o)
        BY DEF Answer, rows
    <2>3. ~LockJob(w) /\ ~BumpSentCount(w) /\ ~CheckDrained(w) /\ ~RevokeDies(w)
          /\ ~AbortFinalizer(w) /\ ~Throw(w)
        BY DEF LockJob, BumpSentCount, CheckDrained, RevokeDies, AbortFinalizer, Throw, rows
    <2>4. \A b \in Accounts : ~Claim(w, b)
        BY <1>t DEF Claim, TypeOK
    <2>5. ~Retry(w) /\ ~RevokeSuppress(w)
        BY <1>t DEF Retry, RevokeSuppress, TypeOK, OpenJob
    <2>6. ~RequeueWithErrorCap(w) /\ ~CommitFinal(w)
        <3>1. fin[w].phase \in {"failing", "complete", "commit"} => job[fin[w].account] # "absent"
            BY <1>t DEF FinOK, Queued
        <3>2. QED
            BY <1>t, <3>1 DEF RequeueWithErrorCap, CommitFinal, TypeOK
    <2>7. QED
        BY <1>4, <2>1, <2>2, <2>3, <2>4, <2>5, <2>6 DEF WorkerStep
<1>5. PICK r \in Requests : SendCommit(r)
    BY <1>1, <1>2, <1>3, <1>4 DEF Next, RequestStep
<1>6. jobText'[a] = req[r].revision
    BY <1>5, <1>t DEF SendCommit, TypeOK
<1>7. QED
    BY <1>5, <1>6 DEF SendCommit

\* QueuedAsApproved of Spec: whatever edits, approvals, sends and cancellations overlap, a
\* job that is queued carries a text an owner approved, and that approval is in force at
\* that moment unless an edit has overtaken the send since it loaded the campaign.
THEOREM TextWasApproved == Spec => QueuedAsApproved
<1> DEFINE Queues == \A a \in Accounts : job[a] = "absent" /\ job'[a] # "absent" =>
          /\ jobText'[a] \in approvals
          /\ \/ jobText'[a] = campaign.revision /\ campaign.approved = campaign.revision
             \/ jobText'[a] < campaign.revision
<1>1. ASSUME Approved, [Next]_vars PROVE Queues
    <2>1. SUFFICES ASSUME NEW a \in Accounts, job[a] = "absent", job'[a] # "absent"
                   PROVE  /\ jobText'[a] \in approvals
                          /\ \/ /\ jobText'[a] = campaign.revision
                                /\ campaign.approved = campaign.revision
                             \/ jobText'[a] < campaign.revision
        OBVIOUS
    <2>2. PICK r \in Requests : /\ Kind[r] = "send" /\ req[r].phase = "enqueued"
                                /\ jobText'[a] = req[r].revision
        BY <1>1, <2>1, QueuedNow DEF Approved
    <2>3. QED
        BY <1>1, <2>2 DEF Approved, SendsApproved
<1>2. Approved /\ [Next]_vars => [Queues]_vars
    BY <1>1
<1>3. QED
    BY <1>2, InitApproved, NextApproved, PTL DEF Spec, QueuedAsApproved

\* ApprovalPinned of Spec: an approval stands for the revision the row has, and that
\* revision is one an owner reviewed.
THEOREM ApprovalsPinned == Spec => []ApprovalPinned
<1>1. Approved => ApprovalPinned
    BY DEF Approved
<1>2. QED
    BY <1>1, InitApproved, NextApproved, PTL DEF Spec

-----------------------------------------------------------------------------
(* The counters.  A finalizer that counts an acceptance must be the only    *)
(* one that can end the job: the invariant says who holds a job and what    *)
(* the holder of a job row's lock is about to do.                           *)

\* The finalizer's transaction, from its first write to its commit.
Closing == {"bump", "check", "complete", "commit"}

\* w has claimed the job of its account and has not given it back.
Holds(w) ==
    \/ fin[w].phase \in {"working", "finalizing", "failing"}
    \/ fin[w].phase \in Closing /\ fin[w].outcome \in DoneJob

\* A claimed job stays claimed, or is suppressed under its holder; two workers
\* never hold the same job.
HeldOK ==
    /\ \A w \in Workers : Holds(w) => job[fin[w].account] \in {"leased", "suppressed"}
    /\ \A v, w \in Workers :
          Holds(v) /\ Holds(w) /\ fin[v].account = fin[w].account => v = w

\* A locked job row is open and its holder is ending it; all finalizers but the
\* consent route, which has no transaction, keep the lock to their end.
LockOK ==
    \A w \in Workers :
        /\ \A a \in Accounts : jobLock[a] = w =>
              /\ fin[w].account = a /\ fin[w].phase \in Closing
              /\ fin[w].outcome # "revoked" /\ job[a] \in OpenJob
        /\ fin[w].phase \in Closing /\ fin[w].outcome # "revoked" => jobLock[fin[w].account] = w

\* A send that is inserting jobs: not committed yet, and no other send's.
EnqueuedOK ==
    /\ \A r \in Requests : Kind[r] = "send" /\ req[r].phase = "enqueued"
          => \A a \in req[r].members : job[a] = "absent"
    /\ \A q, r \in Requests :
          /\ Kind[q] = "send" /\ req[q].phase = "enqueued"
          /\ Kind[r] = "send" /\ req[r].phase = "enqueued"
          /\ q # r
          => req[q].members \cap req[r].members = {}

LEMMA EnqueuedStays ==
    ASSUME EnqueuedOK, \A a \in Accounts : job[a] = "absent" => job'[a] = "absent", TypeOK,
           \A r \in Requests : Kind[r] = "send" =>
              req'[r] = req[r] \/ req'[r].phase # "enqueued"
    PROVE  EnqueuedOK'
<1>1. \A r \in Requests : req[r].members \subseteq Accounts
    BY DEF TypeOK
<1>2. QED
    BY <1>1 DEF EnqueuedOK

LEMMA CountersStay ==
    ASSUME CountersHonest, campaign'.queued = campaign.queued, campaign'.sent = campaign.sent,
           \A a \in Accounts : /\ job'[a] = "absent" <=> job[a] = "absent"
                               /\ job'[a] = "sent" <=> job[a] = "sent"
    PROVE  CountersHonest'
<1>1. /\ {a \in Accounts : job'[a] # "absent"} = {a \in Accounts : job[a] # "absent"}
      /\ {a \in Accounts : job'[a] = "sent"} = {a \in Accounts : job[a] = "sent"}
    OBVIOUS
<1>2. QED
    BY <1>1 DEF CountersHonest

\* A step of w: what the others hold and have locked is left to them.
LEMMA HoldersMove ==
    ASSUME TypeInv, HeldOK, LockOK, NEW w \in Workers,
           \A v \in Workers \ {w} : fin'[v] = fin[v],
           \A v \in Workers \ {w} : \A a \in Accounts :
              /\ jobLock'[a] = v <=> jobLock[a] = v
              /\ jobLock[a] = v => job'[a] = job[a],
           \A v \in Workers \ {w} : Holds(v) =>
              job'[fin[v].account] \in {"leased", "suppressed"},
           Holds(w)' => /\ job'[fin'[w].account] \in {"leased", "suppressed"}
                        /\ \A v \in Workers \ {w} :
                              Holds(v) => fin[v].account # fin'[w].account,
           \A a \in Accounts : jobLock'[a] = w =>
              /\ fin'[w].account = a /\ fin'[w].phase \in Closing
              /\ fin'[w].outcome # "revoked" /\ job'[a] \in OpenJob,
           fin'[w].phase \in Closing /\ fin'[w].outcome # "revoked"
              => jobLock'[fin'[w].account] = w
    PROVE  HeldOK' /\ LockOK'
<1>1. \A v \in Workers \ {w} : Holds(v)' <=> Holds(v)
    BY DEF Holds
<1>2. HeldOK'
    BY <1>1 DEF HeldOK
<1>3. \A v \in Workers : fin[v].phase \in Closing => fin[v].account \in Accounts
    BY DEF TypeInv, FinOK, Closing
<1>4. ASSUME NEW v \in Workers \ {w}
      PROVE  /\ \A a \in Accounts : jobLock'[a] = v =>
                    /\ fin'[v].account = a /\ fin'[v].phase \in Closing
                    /\ fin'[v].outcome # "revoked" /\ job'[a] \in OpenJob
             /\ fin'[v].phase \in Closing /\ fin'[v].outcome # "revoked"
                    => jobLock'[fin'[v].account] = v
    BY <1>3 DEF LockOK
<1>5. LockOK'
    BY <1>4 DEF LockOK
<1>6. QED
    BY <1>2, <1>5

\* A step of a request: it leaves alone what is held or locked, but may suppress a
\* job under its holder.
LEMMA HoldersStay ==
    ASSUME TypeInv, HeldOK, LockOK, UNCHANGED <<fin, jobLock>>,
           \A a \in Accounts :
              \/ job'[a] = job[a]
              \/ job[a] = "absent"
              \/ jobLock[a] = Free /\ job'[a] = "suppressed"
    PROVE  HeldOK' /\ LockOK'
<1>1. \A v \in Workers : Holds(v)' <=> Holds(v)
    BY DEF Holds
<1>2. \A v \in Workers : Holds(v) => fin[v].account \in Accounts
    BY DEF TypeInv, FinOK, Holds, Closing
<1>3. HeldOK'
    BY <1>1, <1>2 DEF HeldOK
<1>4. LockOK'
    BY CampaignAssumption DEF LockOK, OpenJob
<1>5. QED
    BY <1>3, <1>4

\* A step of w that writes no job and takes no lock.
LEMMA HolderGoesOn ==
    ASSUME TypeInv, HeldOK, LockOK, NEW w \in Workers, UNCHANGED <<job, jobLock>>,
           \A v \in Workers \ {w} : fin'[v] = fin[v],
           Holds(w)' => Holds(w) /\ fin'[w].account = fin[w].account,
           \A a \in Accounts : jobLock[a] = w =>
              /\ fin'[w].account = fin[w].account /\ fin'[w].outcome = fin[w].outcome
              /\ fin'[w].phase \in Closing,
           fin'[w].phase \in Closing /\ fin'[w].outcome # "revoked"
              => jobLock[fin'[w].account] = w
    PROVE  HeldOK' /\ LockOK'
<1>1. \A v \in Workers \ {w} : Holds(v) => job'[fin[v].account] \in {"leased", "suppressed"}
    BY DEF HeldOK
<1>2. Holds(w)' => /\ job'[fin'[w].account] \in {"leased", "suppressed"}
                   /\ \A v \in Workers \ {w} : Holds(v) => fin[v].account # fin'[w].account
    BY DEF HeldOK
<1>3. \A a \in Accounts : jobLock'[a] = w =>
              /\ fin'[w].account = a /\ fin'[w].phase \in Closing
              /\ fin'[w].outcome # "revoked" /\ job'[a] \in OpenJob
    BY DEF LockOK
<1>4. QED
    BY <1>1, <1>2, <1>3, HoldersMove

\* The outcome a worker has decided on before it locks the job.
DecidedOK ==
    \A w \in Workers :
        /\ fin[w].phase = "finalizing" => fin[w].outcome \in DoneJob
        /\ fin[w].phase = "withdrawing" => fin[w].outcome = "withdrawn"
        /\ fin[w].phase = "revoking" => fin[w].outcome = "revoked"

CountInv == TypeInv /\ HeldOK /\ LockOK /\ DecidedOK /\ EnqueuedOK /\ CountersHonest

LEMMA InitCountInv == Init => CountInv
<1> SUFFICES ASSUME Init PROVE CountInv
    OBVIOUS
<1>1. {a \in Accounts : job[a] # "absent"} = {} /\ {a \in Accounts : job[a] = "sent"} = {}
    BY DEF Init
<1>2. CountersHonest
    BY <1>1, FS_EmptySet DEF Init, CountersHonest, NoRow
<1>3. HeldOK /\ LockOK /\ DecidedOK /\ EnqueuedOK
    BY CampaignAssumption DEF Init, HeldOK, Holds, LockOK, DecidedOK, EnqueuedOK, Idle, Closing
<1>4. QED
    BY <1>2, <1>3, InitTypeInv DEF CountInv

\* Requests that queue nothing.
LEMMA RequestCounts ==
    ASSUME CountInv, NEW r \in Requests,
           \/ Load(r) \/ EditUpdate(r) \/ ApproveRead(r) \/ ApproveUpdate(r) \/ SendRead(r)
           \/ CancelUpdate(r) \/ CancelScan(r) \/ CancelCommit(r) \/ AbortCancel(r)
    PROVE  HeldOK' /\ LockOK' /\ EnqueuedOK' /\ CountersHonest'
<1>t. TypeInv /\ TypeOK /\ HeldOK /\ LockOK /\ EnqueuedOK /\ CountersHonest
    BY DEF CountInv, TypeInv
<1> DEFINE Suppressed(a) ==
                jobLock[a] = Free /\ job'[a] = "suppressed" /\ job[a] \in OpenJob
<1>1. /\ UNCHANGED <<fin, jobLock>>
      /\ \A a \in Accounts : job'[a] = job[a] \/ Suppressed(a)
    <2>1. CancelCommit(r) => /\ UNCHANGED <<fin, jobLock>>
                             /\ \A a \in Accounts : job'[a] = job[a] \/ Suppressed(a)
        BY <1>t DEF CancelCommit, TypeOK
    <2>2. ~CancelCommit(r) => UNCHANGED job /\ UNCHANGED <<fin, jobLock>>
        BY DEF Load, EditUpdate, ApproveRead, ApproveUpdate, SendRead, CancelUpdate,
            CancelScan, AbortCancel, rows, locks
    <2>3. QED
        BY <2>1, <2>2
<1>2. HeldOK' /\ LockOK'
    BY <1>t, <1>1, HoldersStay
<1>3. \A q \in Requests : Kind[q] = "send" =>
          req'[q] = req[q] \/ req'[q].phase # "enqueued"
    <2>1. Load(r) \/ ApproveRead(r) \/ SendRead(r) \/ CancelScan(r) =>
             /\ \A q \in Requests \ {r} : req'[q] = req[q]
             /\ req'[r].phase # "enqueued"
        <3>1. Load(r) => /\ \A q \in Requests \ {r} : req'[q] = req[q]
                         /\ req'[r].phase # "enqueued"
            BY <1>t DEF Load, TypeOK
        <3>2. ApproveRead(r) => /\ \A q \in Requests \ {r} : req'[q] = req[q]
                                /\ req'[r].phase # "enqueued"
            BY <1>t DEF ApproveRead, TypeOK
        <3>3. SendRead(r) => /\ \A q \in Requests \ {r} : req'[q] = req[q]
                             /\ req'[r].phase # "enqueued"
            BY <1>t DEF SendRead, TypeOK
        <3>4. CancelScan(r) => /\ \A q \in Requests \ {r} : req'[q] = req[q]
                               /\ req'[r].phase # "enqueued"
            BY <1>t DEF CancelScan, TypeOK
        <3>5. QED
            BY <3>1, <3>2, <3>3, <3>4
    <2>2. EditUpdate(r) \/ ApproveUpdate(r) \/ CancelUpdate(r) \/ CancelCommit(r)
             \/ AbortCancel(r) =>
             /\ \A q \in Requests \ {r} : req'[q] = req[q]
             /\ req'[r].phase # "enqueued"
        BY <1>t DEF EditUpdate, ApproveUpdate, CancelUpdate, CancelCommit, AbortCancel, Finish,
            TypeOK
    <2>3. QED
        BY <2>1, <2>2
<1>4. EnqueuedOK'
    BY <1>t, <1>1, <1>3, EnqueuedStays DEF OpenJob
<1>5. campaign'.queued = campaign.queued /\ campaign'.sent = campaign.sent
    BY <1>t DEF Load, EditUpdate, ApproveRead, ApproveUpdate, SendRead, CancelUpdate,
        CancelScan, CancelCommit, AbortCancel, rows, TypeOK, CampaignRow
<1>6. CountersHonest'
    BY <1>t, <1>1, <1>5, CountersStay DEF OpenJob
<1>7. QED
    BY <1>2, <1>4, <1>6

\* A send inserts its jobs: none was there, and no other send inserts them.
LEMMA EnqueueCounts ==
    ASSUME CountInv, NEW r \in Requests, SendEnqueue(r)
    PROVE  HeldOK' /\ LockOK' /\ EnqueuedOK' /\ CountersHonest'
<1>t. TypeInv /\ TypeOK /\ HeldOK /\ LockOK /\ EnqueuedOK /\ CountersHonest
    BY DEF CountInv, TypeInv
<1>1. UNCHANGED <<job, campaign, fin, jobLock>>
    BY DEF SendEnqueue, rows, locks
<1>2. HeldOK' /\ LockOK'
    BY <1>t, <1>1, HoldersStay
<1>3. CountersHonest'
    BY <1>t, <1>1, CountersStay
<1>4. /\ \A q \in Requests \ {r} : req'[q] = req[q]
      /\ req'[r].members = {a \in req[r].members : job[a] = "absent"}
    BY <1>t DEF SendEnqueue, TypeOK
<1>5. \A q \in Requests \ {r} : Kind[q] = "send" /\ req[q].phase = "enqueued"
          => req[q].members \cap req'[r].members = {}
    BY <1>4 DEF SendEnqueue
<1>6. EnqueuedOK'
    <2>1. \A q \in Requests : Kind[q] = "send" /\ req'[q].phase = "enqueued"
             => \A a \in req'[q].members : job'[a] = "absent"
        BY <1>1, <1>4, <1>t DEF EnqueuedOK
    <2>2. \A p, q \in Requests :
             /\ Kind[p] = "send" /\ req'[p].phase = "enqueued"
             /\ Kind[q] = "send" /\ req'[q].phase = "enqueued"
             /\ p # q
             => req'[p].members \cap req'[q].members = {}
        BY <1>4, <1>5, <1>t DEF EnqueuedOK
    <2>3. QED
        BY <2>1, <2>2 DEF EnqueuedOK
<1>7. QED
    BY <1>2, <1>3, <1>6

\* A send commits: its jobs are new, and queued_count grows by their number.
LEMMA SendCounts ==
    ASSUME CountInv, NEW r \in Requests, SendCommit(r)
    PROVE  HeldOK' /\ LockOK' /\ EnqueuedOK' /\ CountersHonest'
<1> DEFINE new == req[r].members
           old == {a \in Accounts : job[a] # "absent"}
<1>t. TypeInv /\ TypeOK /\ HeldOK /\ LockOK /\ EnqueuedOK /\ CountersHonest
    BY DEF CountInv, TypeInv
<1>1. Kind[r] = "send" /\ req[r].phase = "enqueued" /\ new \subseteq Accounts
    BY <1>t DEF SendCommit, TypeOK
<1>2. /\ \A a \in new : job[a] = "absent" /\ job'[a] = "pending"
      /\ \A a \in Accounts \ new : job'[a] = job[a]
    BY <1>1, <1>t DEF SendCommit, EnqueuedOK
<1>3. HeldOK' /\ LockOK'
    BY <1>t, <1>2, HoldersStay DEF SendCommit, locks
<1>4. EnqueuedOK'
    <2>1. /\ \A q \in Requests \ {r} : req'[q] = req[q]
          /\ req'[r].phase = "done"
        BY <1>t DEF SendCommit, Finish, TypeOK
    <2>2. ASSUME NEW q \in Requests \ {r}, Kind[q] = "send", req[q].phase = "enqueued",
                 NEW a \in req[q].members
          PROVE  job'[a] = "absent"
        <3>1. a \in Accounts /\ a \notin new /\ job[a] = "absent"
            BY <2>2, <1>1, <1>t DEF EnqueuedOK, TypeOK
        <3>2. QED
            BY <3>1, <1>2
    <2>3. QED
        BY <2>1, <2>2, <1>t DEF EnqueuedOK
<1>5. /\ campaign'.queued = campaign.queued + Cardinality(new)
      /\ campaign'.sent = campaign.sent
    BY <1>t DEF SendCommit, TypeOK, CampaignRow
<1>6. Cardinality(old \cup new) = Cardinality(old) + Cardinality(new)
    <2>1. IsFiniteSet(old) /\ IsFiniteSet(new) /\ old \cap new = {}
        BY <1>1, <1>2, FS_Subset, CampaignAssumption
    <2>2. Cardinality(old \cup new)
             = Cardinality(old) + Cardinality(new) - Cardinality(old \cap new)
        BY <2>1, FS_Union
    <2>3. Cardinality(old \cap new) = 0
        BY <2>1, FS_EmptySet
    <2>4. Cardinality(old) \in Nat /\ Cardinality(new) \in Nat
        BY <2>1, FS_CardinalityType
    <2>5. QED
        BY <2>2, <2>3, <2>4
<1>7. /\ {a \in Accounts : job'[a] # "absent"} = old \cup new
      /\ {a \in Accounts : job'[a] = "sent"} = {a \in Accounts : job[a] = "sent"}
    BY <1>1, <1>2
<1>8. CountersHonest'
    BY <1>5, <1>6, <1>7, <1>t DEF CountersHonest
<1>9. QED
    BY <1>3, <1>4, <1>8

\* What w's step does to fin.
LEMMA FinFacts ==
    ASSUME TypeInv, NEW w \in Workers
    PROVE  /\ fin[w].phase \in Queued \cup Deciding => fin[w].account \in Accounts
           /\ \A p \in FinPhases : Enter(w, p) =>
                 /\ fin'[w].phase = p /\ fin'[w].account = fin[w].account
                 /\ fin'[w].outcome = fin[w].outcome
                 /\ \A v \in Workers \ {w} : fin'[v] = fin[v]
           /\ Leave(w) => /\ fin'[w] = Idle
                          /\ \A v \in Workers \ {w} : fin'[v] = fin[v]
BY DEF TypeInv, TypeOK, FinOK, Enter, Leave, Queued, Deciding

\* A worker's step moves no request, and a job that was not there does not appear.
LEMMA WorkerKeepsEnqueued ==
    ASSUME CountInv, UNCHANGED req, \A a \in Accounts : job[a] = "absent" => job'[a] = "absent"
    PROVE  EnqueuedOK'
BY EnqueuedStays DEF CountInv, TypeInv

\* Steps of a worker that write no row and take no job row's lock.
LEMMA WorkingCounts ==
    ASSUME CountInv, NEW w \in Workers,
           \/ \E a \in Accounts : Withdraw(w, a) \/ Revoke(w, a)
           \/ \E o \in DoneJob : Answer(w, o)
           \/ BumpSentCount(w) \/ CheckDrained(w) \/ RevokeDies(w) \/ Throw(w)
    PROVE  HeldOK' /\ LockOK' /\ EnqueuedOK' /\ CountersHonest'
<1>t. TypeInv /\ TypeOK /\ HeldOK /\ LockOK /\ EnqueuedOK /\ CountersHonest
    BY DEF CountInv, TypeInv
<1>1. UNCHANGED <<job, jobLock, campaign, req>>
    BY DEF Withdraw, Revoke, Answer, BumpSentCount, CheckDrained, RevokeDies, Throw, rows, locks
<1>2. EnqueuedOK' /\ CountersHonest'
    BY <1>t, <1>1, WorkerKeepsEnqueued, CountersStay
<1>l. \A a \in Accounts : jobLock[a] = w => fin[w].phase \in Closing /\ fin[w].outcome # "revoked"
    BY <1>t DEF LockOK
<1>3. ASSUME NEW a \in Accounts, Withdraw(w, a) \/ Revoke(w, a) PROVE HeldOK' /\ LockOK'
    <2>1. /\ \A v \in Workers \ {w} : fin'[v] = fin[v]
          /\ fin'[w].phase \in {"withdrawing", "revoking"} /\ fin[w].phase = "idle"
        BY <1>3, <1>t DEF Withdraw, Revoke, TypeOK
    <2>2. QED
        BY <1>t, <1>1, <1>l, <2>1, HolderGoesOn DEF Holds, Closing
<1>4. ASSUME NEW o \in DoneJob, Answer(w, o) PROVE HeldOK' /\ LockOK'
    <2>1. /\ \A v \in Workers \ {w} : fin'[v] = fin[v]
          /\ fin'[w].phase = "finalizing" /\ fin[w].phase = "working"
          /\ fin'[w].account = fin[w].account
        BY <1>4, <1>t DEF Answer, TypeOK
    <2>2. QED
        BY <1>t, <1>1, <1>l, <2>1, HolderGoesOn DEF Holds, Closing
<1>5. ASSUME BumpSentCount(w) \/ CheckDrained(w) PROVE HeldOK' /\ LockOK'
    <2>1. PICK p \in {"check", "complete", "commit"} : Enter(w, p) /\ fin[w].phase \in Closing
        BY <1>5 DEF BumpSentCount, CheckDrained, Closing
    <2>2. p \in FinPhases
        BY DEF FinPhases
    <2>3. /\ fin'[w].phase = p /\ fin'[w].account = fin[w].account
          /\ fin'[w].outcome = fin[w].outcome
          /\ \A v \in Workers \ {w} : fin'[v] = fin[v]
        BY <1>t, <2>1, <2>2, FinFacts
    <2>4. p \in Closing
        BY DEF Closing
    <2>5. /\ Holds(w)' => Holds(w)
          /\ fin'[w].phase \in Closing /\ fin'[w].outcome # "revoked"
              => jobLock[fin'[w].account] = w
        BY <1>t, <2>1, <2>3, <2>4 DEF Holds, LockOK, Closing
    <2>6. QED
        BY <1>t, <1>1, <2>3, <2>4, <2>5, HolderGoesOn
<1>6. ASSUME RevokeDies(w) PROVE HeldOK' /\ LockOK'
    <2>1. /\ fin[w].outcome = "revoked" /\ fin'[w] = Idle
          /\ \A v \in Workers \ {w} : fin'[v] = fin[v]
        BY <1>6, <1>t, FinFacts DEF RevokeDies
    <2>2. QED
        BY <1>t, <1>1, <1>l, <2>1, HolderGoesOn DEF Holds, Closing, Idle
<1>7. ASSUME Throw(w) PROVE HeldOK' /\ LockOK'
    <2>1. /\ fin'[w].phase = "failing" /\ fin'[w].account = fin[w].account
          /\ fin[w].phase = "working"
          /\ \A v \in Workers \ {w} : fin'[v] = fin[v]
        BY <1>7, <1>t, FinFacts DEF Throw, FinPhases
    <2>2. QED
        BY <1>t, <1>1, <1>l, <2>1, HolderGoesOn DEF Holds, Closing
<1>8. QED
    BY <1>2, <1>3, <1>4, <1>5, <1>6, <1>7

\* A job is claimed: it was pending, so nobody held it or had locked it.
LEMMA ClaimCounts ==
    ASSUME CountInv, NEW w \in Workers, NEW a \in Accounts, Claim(w, a)
    PROVE  HeldOK' /\ LockOK' /\ EnqueuedOK' /\ CountersHonest'
<1>t. TypeInv /\ TypeOK /\ HeldOK /\ LockOK /\ EnqueuedOK /\ CountersHonest
    BY DEF CountInv, TypeInv
<1>1. /\ \A v \in Workers \ {w} : fin'[v] = fin[v]
      /\ fin'[w].phase = "working" /\ fin'[w].account = a /\ fin[w].phase = "idle"
      /\ job[a] = "pending" /\ job'[a] = "leased" /\ jobLock[a] = Free
      /\ \A b \in Accounts \ {a} : job'[b] = job[b]
      /\ UNCHANGED <<jobLock, campaign, req>>
    BY <1>t DEF Claim, TypeOK, locks
<1>2. EnqueuedOK' /\ CountersHonest'
    BY <1>t, <1>1, WorkerKeepsEnqueued, CountersStay
<1>3. \A v \in Workers : Holds(v) => fin[v].account # a /\ fin[v].account \in Accounts
    BY <1>t, <1>1 DEF HeldOK, TypeInv, FinOK, Holds, Closing
<1>4. \A b \in Accounts : jobLock[b] # w
    BY <1>t, <1>1 DEF LockOK, Closing
<1>5. \A v \in Workers \ {w} : Holds(v) => job'[fin[v].account] \in {"leased", "suppressed"}
    BY <1>t, <1>1, <1>3 DEF HeldOK
<1>6. HeldOK' /\ LockOK'
    BY <1>t, <1>1, <1>3, <1>4, <1>5, HoldersMove, CampaignAssumption DEF Closing
<1>7. QED
    BY <1>2, <1>6

\* The holder gives a job back: queued again, or ended by the error cap.
LEMMA ReturnCounts ==
    ASSUME CountInv, NEW w \in Workers, Retry(w) \/ RequeueWithErrorCap(w)
    PROVE  HeldOK' /\ LockOK' /\ EnqueuedOK' /\ CountersHonest'
<1> DEFINE a == fin[w].account
<1>d. DecidedOK
    BY DEF CountInv
<1>t. TypeInv /\ TypeOK /\ HeldOK /\ LockOK /\ EnqueuedOK /\ CountersHonest
    BY DEF CountInv, TypeInv
<1>1. Holds(w) /\ a \in Accounts /\ job[a] \in {"leased", "suppressed"} /\ jobLock[a] = Free
    BY <1>t DEF Retry, RequeueWithErrorCap, Holds, HeldOK, TypeInv, FinOK
<1>2. /\ \A b \in Accounts \ {a} : job'[b] = job[b]
      /\ job'[a] \in {"pending", "failed", job[a]}
    BY <1>1, <1>t DEF Retry, RequeueWithErrorCap, TypeOK
<1>3. /\ \A v \in Workers \ {w} : fin'[v] = fin[v]
      /\ fin'[w] = Idle /\ UNCHANGED <<jobLock, campaign, req>>
    BY <1>t, FinFacts DEF Retry, RequeueWithErrorCap, locks
<1>4. EnqueuedOK' /\ CountersHonest'
    BY <1>t, <1>1, <1>2, <1>3, WorkerKeepsEnqueued, CountersStay
<1>5. \A v \in Workers \ {w} : Holds(v) => job'[fin[v].account] \in {"leased", "suppressed"}
    BY <1>t, <1>1, <1>2 DEF HeldOK, TypeInv, FinOK, Holds, Closing
<1>6. \A b \in Accounts : jobLock[b] # w
    BY <1>t DEF LockOK, Closing, Retry, RequeueWithErrorCap
<1>7. ~Holds(w)' /\ fin'[w].phase \notin Closing
    BY <1>3 DEF Holds, Closing, Idle
<1>8. \A v \in Workers \ {w} : \A b \in Accounts : jobLock[b] = v => job'[b] = job[b]
    BY <1>1, <1>2, CampaignAssumption
<1>9. HeldOK' /\ LockOK'
    BY <1>t, <1>3, <1>5, <1>6, <1>7, <1>8, HoldersMove
<1>10. QED
    BY <1>4, <1>9

\* A finalizer locks its job row, or finds the job ended and leaves.
LEMMA LockCounts ==
    ASSUME CountInv, NEW w \in Workers, LockJob(w)
    PROVE  HeldOK' /\ LockOK' /\ EnqueuedOK' /\ CountersHonest'
<1> DEFINE a == fin[w].account
<1>d. DecidedOK
    BY DEF CountInv
<1>t. TypeInv /\ TypeOK /\ HeldOK /\ LockOK /\ EnqueuedOK /\ CountersHonest
    BY DEF CountInv, TypeInv
<1>1. UNCHANGED <<job, campaign, req>>
    BY DEF LockJob, rows
<1>2. EnqueuedOK' /\ CountersHonest'
    BY <1>t, <1>1, WorkerKeepsEnqueued, CountersStay
<1>3. fin[w].phase \in {"finalizing", "withdrawing"} /\ a \in Accounts /\ jobLock[a] = Free
    BY <1>t DEF LockJob, TypeInv, FinOK
<1>l. \A b \in Accounts : jobLock[b] # w
    BY <1>t, <1>3 DEF LockOK, Closing
<1>4. CASE Leave(w) /\ UNCHANGED jobLock
    <2>1. fin'[w] = Idle /\ \A v \in Workers \ {w} : fin'[v] = fin[v]
        BY <1>4, <1>t, FinFacts
    <2>2. ~Holds(w)' /\ fin'[w].phase \notin Closing
        BY <2>1 DEF Holds, Closing, Idle
    <2>3. QED
        BY <1>t, <1>1, <1>2, <1>4, <1>l, <2>1, <2>2, HolderGoesOn
<1>5. CASE /\ jobLock' = [jobLock EXCEPT ![a] = w]
           /\ Enter(w, IF fin[w].outcome = "sent" THEN "bump" ELSE "check")
           /\ job[a] \in OpenJob /\ (fin[w].phase = "finalizing" => job[a] = "leased")
    <2>1. PICK p \in {"bump", "check"} : Enter(w, p)
        BY <1>5
    <2>2. p \in FinPhases /\ p \in Closing
        BY DEF FinPhases, Closing
    <2>3. /\ fin'[w].phase = p /\ fin'[w].account = a /\ fin'[w].outcome = fin[w].outcome
          /\ \A v \in Workers \ {w} : fin'[v] = fin[v]
        BY <1>t, <2>1, <2>2, FinFacts
    <2>4. jobLock'[a] = w /\ \A b \in Accounts \ {a} : jobLock'[b] = jobLock[b]
        BY <1>5, <1>3, <1>t DEF TypeOK
    <2>5. \A v \in Workers \ {w} : \A b \in Accounts :
             /\ jobLock'[b] = v <=> jobLock[b] = v
             /\ jobLock[b] = v => job'[b] = job[b]
        BY <1>1, <1>3, <2>4, CampaignAssumption
    <2>6. /\ fin[w].phase = "finalizing" => fin[w].outcome \in DoneJob
          /\ fin[w].phase = "withdrawing" => fin[w].outcome = "withdrawn"
        BY <1>d DEF DecidedOK
    <2>7. fin[w].outcome # "revoked" /\ (Holds(w)' => Holds(w))
        BY <2>3, <2>6, <1>3 DEF Holds, DoneJob
    <2>8. /\ \A v \in Workers \ {w} : Holds(v) => job'[fin[v].account] \in {"leased", "suppressed"}
          /\ Holds(w)' => /\ job'[fin'[w].account] \in {"leased", "suppressed"}
                          /\ \A v \in Workers \ {w} : Holds(v) => fin[v].account # fin'[w].account
        BY <1>1, <1>t, <2>3, <2>7 DEF HeldOK
    <2>9. /\ \A b \in Accounts : jobLock'[b] = w =>
                /\ fin'[w].account = b /\ fin'[w].phase \in Closing
                /\ fin'[w].outcome # "revoked" /\ job'[b] \in OpenJob
          /\ jobLock'[fin'[w].account] = w
        BY <1>1, <1>5, <1>l, <2>2, <2>3, <2>4, <2>7
    <2>10. QED
        BY <1>1, <1>2, <1>t, <2>3, <2>5, <2>8, <2>9, HoldersMove
<1>6. (Leave(w) /\ UNCHANGED jobLock) \/ (/\ jobLock' = [jobLock EXCEPT ![a] = w]
           /\ Enter(w, IF fin[w].outcome = "sent" THEN "bump" ELSE "check")
           /\ job[a] \in OpenJob /\ (fin[w].phase = "finalizing" => job[a] = "leased"))
    BY <1>3 DEF LockJob, OpenJob
<1>7. QED
    BY <1>2, <1>4, <1>5, <1>6

\* The database aborts a finalizer: its lock goes, its claim of the job stays.
LEMMA AbortCounts ==
    ASSUME CountInv, NEW w \in Workers, AbortFinalizer(w)
    PROVE  HeldOK' /\ LockOK' /\ EnqueuedOK' /\ CountersHonest'
<1> DEFINE a == fin[w].account
<1>d. DecidedOK
    BY DEF CountInv
<1>t. TypeInv /\ TypeOK /\ HeldOK /\ LockOK /\ EnqueuedOK /\ CountersHonest
    BY DEF CountInv, TypeInv
<1>1. UNCHANGED <<job, campaign, req>> /\ jobLock' = [jobLock EXCEPT ![a] = Free]
    BY DEF AbortFinalizer, rows
<1>2. EnqueuedOK' /\ CountersHonest'
    BY <1>t, <1>1, WorkerKeepsEnqueued, CountersStay
<1>3. a \in Accounts /\ jobLock[a] = w /\ fin[w].phase \in Closing
    BY <1>t DEF AbortFinalizer, Deadlocked, TypeInv, FinOK, Closing
<1>4. \A b \in Accounts : jobLock[b] = w => b = a
    BY <1>t DEF LockOK
<1>5. jobLock'[a] = Free /\ \A b \in Accounts \ {a} : jobLock'[b] = jobLock[b]
    BY <1>1, <1>3, <1>t DEF TypeOK
<1>6. \A b \in Accounts : /\ jobLock'[b] # w
                          /\ \A v \in Workers \ {w} : jobLock'[b] = v <=> jobLock[b] = v
    BY <1>3, <1>4, <1>5, CampaignAssumption
<1>7. /\ \A v \in Workers \ {w} : fin'[v] = fin[v]
      /\ fin'[w].phase \notin Closing
      /\ Holds(w)' => fin[w].outcome \in DoneJob /\ fin'[w].account = a
    <2>1. CASE Leave(w)
        BY <2>1, <1>t, FinFacts DEF Closing, Idle, Holds
    <2>2. CASE fin[w].outcome # "withdrawn" /\ Enter(w, "failing")
        <3>1. fin[w].outcome \in DoneJob
            BY <1>3, <1>t, <2>2 DEF LockOK, TypeInv, TypeOK, FinOK, Closing, Deciding, Outcomes,
                Withdrawals
        <3>2. QED
            BY <2>2, <3>1, <1>t, FinFacts DEF Closing, FinPhases
    <2>3. QED
        BY <2>1, <2>2 DEF AbortFinalizer
<1>8. Holds(w)' => Holds(w) /\ fin'[w].account = a
    BY <1>3, <1>7 DEF Holds
<1>9. /\ \A v \in Workers \ {w} : Holds(v) => job'[fin[v].account] \in {"leased", "suppressed"}
      /\ Holds(w)' => /\ job'[fin'[w].account] \in {"leased", "suppressed"}
                      /\ \A v \in Workers \ {w} : Holds(v) => fin[v].account # fin'[w].account
    BY <1>1, <1>8, <1>t DEF HeldOK
<1>10. HeldOK' /\ LockOK'
    BY <1>1, <1>6, <1>7, <1>9, <1>t, HoldersMove
<1>11. QED
    BY <1>2, <1>10

\* The consent route suppresses an open job nobody has locked.
LEMMA RevokeCounts ==
    ASSUME CountInv, NEW w \in Workers, RevokeSuppress(w)
    PROVE  HeldOK' /\ LockOK' /\ EnqueuedOK' /\ CountersHonest'
<1> DEFINE a == fin[w].account
<1>d. DecidedOK
    BY DEF CountInv
<1>t. TypeInv /\ TypeOK /\ HeldOK /\ LockOK /\ EnqueuedOK /\ CountersHonest
    BY DEF CountInv, TypeInv
<1>1. a \in Accounts /\ jobLock[a] = Free /\ fin[w].phase = "revoking"
    BY <1>t DEF RevokeSuppress, TypeInv, FinOK
<1>2. /\ \A b \in Accounts \ {a} : job'[b] = job[b]
      /\ job'[a] = job[a] \/ (job[a] \in OpenJob /\ job'[a] = "suppressed")
      /\ UNCHANGED <<jobLock, campaign, req>>
    BY <1>t, <1>1 DEF RevokeSuppress, TypeOK, locks
<1>3. EnqueuedOK' /\ CountersHonest'
    BY <1>t, <1>1, <1>2, WorkerKeepsEnqueued, CountersStay DEF OpenJob
<1>4. fin[w].outcome = "revoked" /\ \A b \in Accounts : jobLock[b] # w
    BY <1>d, <1>t, <1>1 DEF DecidedOK, LockOK, Closing
<1>5. /\ \A v \in Workers \ {w} : fin'[v] = fin[v]
      /\ fin'[w] = Idle \/ (fin'[w].phase = "check" /\ fin'[w].outcome = "revoked")
    BY <1>4, <1>t, FinFacts DEF RevokeSuppress, FinPhases
<1>6. ~Holds(w)' /\ ~(fin'[w].phase \in Closing /\ fin'[w].outcome # "revoked")
    BY <1>5 DEF Holds, Closing, Idle, DoneJob
<1>7. \A v \in Workers \ {w} : Holds(v) => job'[fin[v].account] \in {"leased", "suppressed"}
    BY <1>1, <1>2, <1>t DEF HeldOK, Holds, TypeInv, FinOK, Closing
<1>8. \A v \in Workers \ {w} : \A b \in Accounts : jobLock[b] = v => job'[b] = job[b]
    BY <1>1, <1>2, CampaignAssumption
<1>9. HeldOK' /\ LockOK'
    BY <1>2, <1>4, <1>5, <1>6, <1>7, <1>8, <1>t, HoldersMove
<1>10. QED
    BY <1>3, <1>9

\* A finalizer commits: it ends the job it has locked, which nobody else holds, and
\* counts it if the provider accepted it.
LEMMA CommitCounts ==
    ASSUME CountInv, NEW w \in Workers, CommitFinal(w)
    PROVE  HeldOK' /\ LockOK' /\ EnqueuedOK' /\ CountersHonest'
<1> DEFINE a == fin[w].account
           o == fin[w].outcome
           sent == {b \in Accounts : job[b] = "sent"}
<1>t. TypeInv /\ TypeOK /\ HeldOK /\ LockOK /\ EnqueuedOK /\ CountersHonest
    BY DEF CountInv, TypeInv
<1>1. fin[w].phase \in Closing /\ a \in Accounts /\ o \in DoneJob \cup Withdrawals
    BY <1>t DEF CommitFinal, TypeInv, TypeOK, FinOK, Closing, Deciding, Outcomes
<1>2. /\ fin'[w] = Idle /\ \A v \in Workers \ {w} : fin'[v] = fin[v]
      /\ UNCHANGED req /\ campaign'.queued = campaign.queued
      /\ campaign'.sent = IF o = "sent" THEN campaign.sent + 1 ELSE campaign.sent
    BY <1>t, FinFacts DEF CommitFinal, TypeOK, CampaignRow, CountsAsSent
<1>3. \A b \in Accounts : jobLock[b] = w => b = a
    BY <1>t DEF LockOK
<1>4. /\ \A b \in Accounts \ {a} : jobLock'[b] = jobLock[b] /\ job'[b] = job[b]
      /\ jobLock[a] = w => jobLock'[a] = Free /\ job'[a] = Ending(o)
      /\ jobLock[a] # w => jobLock'[a] = jobLock[a] /\ job'[a] = job[a]
    BY <1>1, <1>t DEF CommitFinal, TypeOK
<1>5. /\ o = "revoked" => jobLock[a] # w
      /\ o # "revoked" => jobLock[a] = w
      /\ jobLock[a] = w => job[a] \in OpenJob
    BY <1>1, <1>t DEF LockOK
<1>6. HeldOK' /\ LockOK'
    <2>1. ~Holds(w)' /\ fin'[w].phase \notin Closing
        BY <1>2 DEF Holds, Closing, Idle
    <2>2. \A b \in Accounts : /\ jobLock'[b] # w
                              /\ \A v \in Workers \ {w} : jobLock'[b] = v <=> jobLock[b] = v
        BY <1>3, <1>4, CampaignAssumption
    <2>3. \A v \in Workers \ {w} : \A b \in Accounts : jobLock[b] = v => job'[b] = job[b]
        BY <1>4
    <2>4. ASSUME NEW v \in Workers \ {w}, Holds(v)
          PROVE  job'[fin[v].account] \in {"leased", "suppressed"}
        <3>1. fin[v].account \in Accounts /\ job[fin[v].account] \in {"leased", "suppressed"}
            BY <2>4, <1>t DEF HeldOK, Holds, TypeInv, FinOK, Closing
        <3>2. CASE o \in DoneJob
            <4>1. Holds(w)
                BY <1>1, <3>2 DEF Holds
            <4>2. fin[v].account # a
                BY <2>4, <4>1, <1>t DEF HeldOK
            <4>3. QED
                BY <3>1, <4>2, <1>4
        <3>3. CASE o \in Withdrawals
            BY <3>1, <3>3, <1>4 DEF Ending
        <3>4. QED
            BY <1>1, <3>2, <3>3
    <2>5. QED
        BY <1>2, <1>t, <2>1, <2>2, <2>3, <2>4, HoldersMove
<1>7. EnqueuedOK'
    BY <1>2, <1>4, <1>5, WorkerKeepsEnqueued DEF OpenJob
<1>8. CASE o # "sent"
    <2>1. jobLock[a] = w => Ending(o) \notin {"sent", "absent"}
        BY <1>1, <1>8 DEF Ending, DoneJob, Withdrawals
    <2>2. CountersHonest'
        BY <1>2, <1>4, <1>5, <1>8, <1>t, <2>1, CountersStay DEF OpenJob
    <2>3. QED
        BY <1>6, <1>7, <2>2
<1>9. CASE o = "sent"
    <2>1. job[a] \in OpenJob /\ job'[a] = "sent"
        BY <1>4, <1>5, <1>9 DEF Ending, Withdrawals
    <2>2. /\ {b \in Accounts : job'[b] = "sent"} = sent \cup {a}
          /\ {b \in Accounts : job'[b] # "absent"} = {b \in Accounts : job[b] # "absent"}
        BY <1>1, <1>4, <2>1 DEF OpenJob
    <2>3. Cardinality(sent \cup {a}) = Cardinality(sent) + 1
        <3>1. IsFiniteSet(sent) /\ a \notin sent
            BY <2>1, FS_Subset, CampaignAssumption DEF OpenJob
        <3>2. QED
            BY <3>1, FS_AddElement
    <2>4. CountersHonest'
        BY <1>2, <1>9, <1>t, <2>2, <2>3 DEF CountersHonest
    <2>5. QED
        BY <1>6, <1>7, <2>4
<1>10. QED
    BY <1>8, <1>9

LEMMA NextDecided == TypeInv /\ DecidedOK /\ [Next]_vars => DecidedOK'
<1> SUFFICES ASSUME TypeInv, DecidedOK, [Next]_vars PROVE DecidedOK'
    OBVIOUS
<1>k. ASSUME UNCHANGED fin PROVE DecidedOK'
    BY <1>k DEF DecidedOK
<1>m. ASSUME NEW w \in Workers, \A v \in Workers \ {w} : fin'[v] = fin[v],
             fin'[w].phase \notin {"finalizing", "withdrawing", "revoking"}
      PROVE  DecidedOK'
    BY <1>m DEF DecidedOK
<1>1. ASSUME NEW r \in Requests, RequestStep(r) PROVE DecidedOK'
    BY <1>1, <1>k DEF RequestStep, Load, EditUpdate, ApproveRead, ApproveUpdate, SendRead,
        SendEnqueue, SendCommit, CancelUpdate, CancelScan, CancelCommit, AbortCancel
<1>2. ASSUME NEW w \in Workers, NEW a \in Accounts,
             Claim(w, a) \/ Withdraw(w, a) \/ Revoke(w, a)
      PROVE  DecidedOK'
    <2>1. /\ \A v \in Workers \ {w} : fin'[v] = fin[v]
          /\ \/ fin'[w].phase = "working"
             \/ fin'[w].phase = "withdrawing" /\ fin'[w].outcome = "withdrawn"
             \/ fin'[w].phase = "revoking" /\ fin'[w].outcome = "revoked"
        BY <1>2 DEF Claim, Withdraw, Revoke, TypeInv, TypeOK
    <2>2. QED
        BY <2>1 DEF DecidedOK
<1>3. ASSUME NEW w \in Workers, NEW o \in DoneJob, Answer(w, o) PROVE DecidedOK'
    <2>1. /\ \A v \in Workers \ {w} : fin'[v] = fin[v]
          /\ fin'[w].phase = "finalizing" /\ fin'[w].outcome = o
        BY <1>3 DEF Answer, TypeInv, TypeOK
    <2>2. QED
        BY <2>1 DEF DecidedOK
<1>4. ASSUME NEW w \in Workers, NEW p \in {"bump", "check", "complete", "commit", "failing"},
             Enter(w, p) \/ Leave(w)
      PROVE  DecidedOK'
    <2>1. p \in FinPhases
        BY DEF FinPhases
    <2>2. /\ \A v \in Workers \ {w} : fin'[v] = fin[v]
          /\ fin'[w].phase \in {p, "idle"}
        BY <1>4, <2>1, FinFacts DEF Idle
    <2>3. QED
        BY <1>m, <2>2
<1>5. ASSUME NEW w \in Workers, \/ Retry(w) \/ LockJob(w) \/ BumpSentCount(w) \/ CheckDrained(w)
                                \/ CommitFinal(w) \/ RevokeSuppress(w) \/ RevokeDies(w)
                                \/ AbortFinalizer(w) \/ Throw(w) \/ RequeueWithErrorCap(w)
      PROVE  DecidedOK'
    BY <1>5, <1>4 DEF Retry, LockJob, BumpSentCount, CheckDrained, CommitFinal, RevokeSuppress,
        RevokeDies, AbortFinalizer, Throw, RequeueWithErrorCap
<1>6. ASSUME Create \/ \E a \in Accounts : Join(a) PROVE DecidedOK'
    BY <1>6, <1>k DEF Create, Join
<1>7. ASSUME UNCHANGED vars PROVE DecidedOK'
    BY <1>7, <1>k DEF vars
<1>8. QED
    BY <1>1, <1>2, <1>3, <1>5, <1>6, <1>7 DEF Next, WorkerStep

LEMMA NextCountInv == CountInv /\ [Next]_vars => CountInv'
<1> SUFFICES ASSUME CountInv, [Next]_vars
             PROVE  HeldOK' /\ LockOK' /\ EnqueuedOK' /\ CountersHonest'
    BY NextTypeInv, NextDecided DEF CountInv
<1> DEFINE Goal == HeldOK' /\ LockOK' /\ EnqueuedOK' /\ CountersHonest'
<1>t. TypeInv /\ TypeOK /\ HeldOK /\ LockOK /\ EnqueuedOK /\ CountersHonest
    BY DEF CountInv, TypeInv
<1>1. ASSUME UNCHANGED <<job, jobLock, fin, req>>, campaign'.queued = campaign.queued,
             campaign'.sent = campaign.sent
      PROVE  Goal
    BY <1>1, <1>t, HoldersStay, CountersStay, EnqueuedStays
<1>2. ASSUME Create \/ (\E a \in Accounts : Join(a)) \/ UNCHANGED vars PROVE Goal
    BY <1>2, <1>1, <1>t DEF Create, Join, vars, rows, locks, TypeOK, CampaignRow
<1>3. ASSUME NEW r \in Requests, RequestStep(r) PROVE Goal
    BY <1>3, RequestCounts, EnqueueCounts, SendCounts DEF RequestStep
<1>4. ASSUME NEW w \in Workers, WorkerStep(w) PROVE Goal
    BY <1>4, WorkingCounts, ClaimCounts, ReturnCounts, LockCounts, AbortCounts, RevokeCounts,
       CommitCounts DEF WorkerStep
<1>5. QED
    BY <1>2, <1>3, <1>4 DEF Next

\* CountersHonest of Spec: for any audience and any number of sends, finalizers,
\* withdrawals and aborts, queued_count is the number of jobs and sent_count the number
\* of jobs a provider accepted.  It needs to know that one worker at a time holds a job.
THEOREM CountersAreHonest == Spec => []CountersHonest
<1>1. CountInv => CountersHonest
    BY DEF CountInv
<1>2. QED
    BY <1>1, InitCountInv, NextCountInv, PTL DEF Spec

-----------------------------------------------------------------------------
(* Completion.  With two overlapping sends the promise does not hold: the   *)
(* second may queue jobs between the check of a finalizer and its wait for  *)
(* the campaign row.  With one send it holds, whatever else overlaps.       *)

OneSend == \A q, r \in Requests : Kind[q] = "send" /\ Kind[r] = "send" => q = r

\* A campaign runs, or is about to be completed, only after its send.
SentBefore ==
    (\/ campaign.state \in {"running", "completed"}
     \/ \E w \in Workers : fin[w].phase = "complete")
        => \A r \in Requests : Kind[r] = "send" => req[r].phase = "done"

\* What a finalizer that is about to complete the campaign has seen still holds: no
\* job is open but the one it is ending.
SeenDrained ==
    \A w \in Workers : fin[w].phase = "complete" /\ campaign.state = "running"
        => \A a \in Accounts \ requeued : job[a] \notin OpenJob \/ jobLock[a] = w

DrainInv == CountInv /\ SentBefore /\ SeenDrained /\ CompletedDrained

LEMMA InitDrainInv == Init => DrainInv
BY InitCountInv DEF Init, DrainInv, SentBefore, SeenDrained, CompletedDrained, NoRow, Idle

\* A step that opens no job but by an exception, and completes nothing.
LEMMA DrainStays ==
    ASSUME SentBefore, SeenDrained, CompletedDrained,
           campaign'.state = campaign.state \/ campaign'.state \notin {"running", "completed"},
           \A w \in Workers : fin'[w].phase = "complete" =>
              /\ fin[w].phase = "complete"
              /\ \A a \in Accounts : jobLock[a] = w => jobLock'[a] = w,
           \A a \in Accounts : job'[a] \in OpenJob => job[a] \in OpenJob \/ a \in requeued',
           requeued \subseteq requeued',
           \A r \in Requests : Kind[r] = "send" /\ req[r].phase = "done" => req'[r].phase = "done"
    PROVE  SentBefore' /\ SeenDrained' /\ CompletedDrained'
<1>1. SentBefore'
    BY DEF SentBefore
<1>2. SeenDrained'
    BY DEF SeenDrained
<1>3. CompletedDrained'
    BY DEF CompletedDrained
<1>4. QED
    BY <1>1, <1>2, <1>3

\* A request other than a send's commit.
LEMMA RequestDrains ==
    ASSUME DrainInv, NEW r \in Requests, RequestStep(r), ~SendCommit(r)
    PROVE  SentBefore' /\ SeenDrained' /\ CompletedDrained'
<1>t. TypeOK /\ SentBefore /\ SeenDrained /\ CompletedDrained
    BY DEF DrainInv, CountInv, TypeInv
<1>1. UNCHANGED <<fin, jobLock, requeued>>
    BY DEF RequestStep, Load, EditUpdate, ApproveRead, ApproveUpdate, SendRead, SendEnqueue,
        CancelUpdate, CancelScan, CancelCommit, AbortCancel, rows, locks
<1>2. campaign'.state = campaign.state \/ campaign'.state \notin {"running", "completed"}
    BY <1>t DEF RequestStep, Load, EditUpdate, ApproveRead, ApproveUpdate, SendRead, SendEnqueue,
        CancelUpdate, CancelScan, CancelCommit, AbortCancel, rows, TypeOK, CampaignRow
<1>3. \A a \in Accounts : job'[a] \in OpenJob => job[a] \in OpenJob
    BY <1>t DEF RequestStep, Load, EditUpdate, ApproveRead, ApproveUpdate, SendRead, SendEnqueue,
        CancelUpdate, CancelScan, CancelCommit, AbortCancel, rows, OpenJob, TypeOK
<1>4. \A q \in Requests \ {r} : req'[q] = req[q]
    <2>1. Load(r) \/ ApproveRead(r) \/ SendRead(r) \/ SendEnqueue(r) \/ CancelScan(r)
             => \A q \in Requests \ {r} : req'[q] = req[q]
        BY <1>t DEF Load, ApproveRead, SendRead, SendEnqueue, CancelScan, TypeOK
    <2>2. EditUpdate(r) \/ ApproveUpdate(r) \/ CancelUpdate(r) \/ CancelCommit(r)
             \/ AbortCancel(r) => \A q \in Requests \ {r} : req'[q] = req[q]
        BY <1>t DEF EditUpdate, ApproveUpdate, CancelUpdate, CancelCommit, AbortCancel, Finish,
            TypeOK
    <2>3. QED
        BY <2>1, <2>2 DEF RequestStep
<1>5. Kind[r] = "send" => req[r].phase # "done"
    BY DEF RequestStep, Load, EditUpdate, ApproveRead, ApproveUpdate, SendRead, SendEnqueue,
        CancelUpdate, CancelScan, CancelCommit, AbortCancel, Deadlocked
<1>6. QED
    BY <1>t, <1>1, <1>2, <1>3, <1>4, <1>5, DrainStays

\* The only send commits: nobody is about to complete the campaign.
LEMMA SendDrains ==
    ASSUME DrainInv, OneSend, NEW r \in Requests, SendCommit(r)
    PROVE  SentBefore' /\ SeenDrained' /\ CompletedDrained'
<1>t. TypeOK /\ SentBefore /\ SeenDrained /\ CompletedDrained
    BY DEF DrainInv, CountInv, TypeInv
<1>1. /\ Kind[r] = "send" /\ req[r].phase = "enqueued" /\ UNCHANGED fin
      /\ campaign'.state = "completed" => Drained(job')
    BY <1>t DEF SendCommit, TypeOK, CampaignRow
<1>2. \A w \in Workers : fin'[w].phase # "complete"
    BY <1>1, <1>t DEF SentBefore
<1>3. \A q \in Requests : Kind[q] = "send" => req'[q].phase = "done"
    BY <1>1, <1>t DEF OneSend, SendCommit, Finish, TypeOK
<1>4. CompletedDrained'
    BY <1>1 DEF CompletedDrained, Drained
<1>5. QED
    BY <1>2, <1>3, <1>4 DEF SentBefore, SeenDrained

\* A worker's step, but for the check, the commit and what an exception re-queues.
LEMMA WorkerDrains ==
    ASSUME DrainInv, NEW w \in Workers, WorkerStep(w), ~CheckDrained(w), ~CommitFinal(w)
    PROVE  SentBefore' /\ SeenDrained' /\ CompletedDrained'
<1>t. TypeInv /\ TypeOK /\ LockOK /\ SentBefore /\ SeenDrained /\ CompletedDrained
    BY DEF DrainInv, CountInv, TypeInv
<1>1. campaign' = campaign /\ UNCHANGED req /\ requeued \subseteq requeued'
    BY DEF WorkerStep, Claim, Withdraw, Revoke, Answer, Retry, LockJob, BumpSentCount,
        RevokeSuppress, RevokeDies, AbortFinalizer, Throw, RequeueWithErrorCap, rows
<1>2. \A a \in Accounts : job'[a] \in OpenJob => job[a] \in OpenJob \/ a \in requeued'
    <2>1. RequeueWithErrorCap(w) =>
             \A a \in Accounts : job'[a] \in OpenJob => job[a] \in OpenJob \/ a \in requeued'
        BY <1>t DEF RequeueWithErrorCap, TypeOK
    <2>2. ~RequeueWithErrorCap(w) =>
             \A a \in Accounts : job'[a] \in OpenJob => job[a] \in OpenJob
        BY <1>t DEF WorkerStep, Claim, Withdraw, Revoke, Answer, Retry, LockJob, BumpSentCount,
            RevokeSuppress, RevokeDies, AbortFinalizer, Throw, rows, OpenJob, TypeOK
    <2>3. QED
        BY <2>1, <2>2
<1> DEFINE Moved == /\ \A v \in Workers \ {w} : fin'[v] = fin[v]
                    /\ fin'[w].phase # "complete"
<1>3. Moved
    <2>1. ASSUME NEW a \in Accounts, Claim(w, a) \/ Withdraw(w, a) \/ Revoke(w, a) PROVE Moved
        BY <2>1, <1>t DEF Claim, Withdraw, Revoke, TypeOK
    <2>2. ASSUME NEW o \in DoneJob, Answer(w, o) PROVE Moved
        BY <2>2, <1>t DEF Answer, TypeOK
    <2>3. ASSUME NEW p \in {"bump", "check", "failing"}, Enter(w, p) \/ Leave(w) PROVE Moved
        <3>1. p \in FinPhases
            BY DEF FinPhases
        <3>2. QED
            BY <2>3, <3>1, <1>t, FinFacts DEF Idle
    <2>4. QED
        BY <2>1, <2>2, <2>3 DEF WorkerStep, Retry, LockJob, BumpSentCount, RevokeSuppress,
            RevokeDies, AbortFinalizer, Throw, RequeueWithErrorCap
<1> DEFINE Kept == \A v \in Workers \ {w} : \A a \in Accounts :
                       jobLock[a] = v => jobLock'[a] = v
<1>4. Kept
    <2>1. LockJob(w) \/ AbortFinalizer(w) => Kept
        BY <1>t, CampaignAssumption DEF LockJob, AbortFinalizer, Deadlocked, TypeOK
    <2>2. ~LockJob(w) /\ ~AbortFinalizer(w) => UNCHANGED jobLock
        BY DEF WorkerStep, Claim, Withdraw, Revoke, Answer, Retry, BumpSentCount, RevokeSuppress,
            RevokeDies, Throw, RequeueWithErrorCap, locks
    <2>3. QED
        BY <2>1, <2>2
<1>5. QED
    BY <1>t, <1>1, <1>2, <1>3, <1>4, DrainStays

\* The check: no job is open but the one the finalizer is ending.
LEMMA CheckDrains ==
    ASSUME DrainInv, NEW w \in Workers, CheckDrained(w)
    PROVE  SentBefore' /\ SeenDrained' /\ CompletedDrained'
<1>t. TypeInv /\ TypeOK /\ SentBefore /\ SeenDrained /\ CompletedDrained
    BY DEF DrainInv, CountInv, TypeInv
<1> DEFINE seen == campaign.state = "running" /\ Drained(JobsSeen(w))
<1>1. /\ UNCHANGED <<campaign, job, jobLock, req, requeued>>
      /\ Enter(w, IF seen THEN "complete" ELSE "commit")
    BY DEF CheckDrained, rows, locks
<1>2. PICK p \in {"complete", "commit"} : Enter(w, p) /\ (p = "complete" => seen)
    BY <1>1
<1>3. fin'[w].phase = p /\ \A v \in Workers \ {w} : fin'[v] = fin[v]
    BY <1>2, <1>t, FinFacts DEF FinPhases
<1>4. CASE p = "commit"
    BY <1>1, <1>3, <1>4, <1>t, DrainStays
<1>5. CASE p = "complete"
    <2>1. \A a \in Accounts : job[a] \notin OpenJob \/ jobLock[a] = w
        BY <1>2, <1>5 DEF Drained, JobsSeen
    <2>2. SentBefore'
        BY <1>1, <1>2, <1>5, <1>t DEF SentBefore
    <2>3. SeenDrained'
        BY <1>1, <1>3, <2>1, <1>t DEF SeenDrained
    <2>4. CompletedDrained'
        BY <1>1, <1>t DEF CompletedDrained
    <2>5. QED
        BY <2>2, <2>3, <2>4
<1>6. QED
    BY <1>4, <1>5

\* The commit: the job the finalizer had locked is ended with it.
LEMMA CommitDrains ==
    ASSUME DrainInv, NEW w \in Workers, CommitFinal(w)
    PROVE  SentBefore' /\ SeenDrained' /\ CompletedDrained'
<1> DEFINE a == fin[w].account
           o == fin[w].outcome
<1>t. TypeInv /\ TypeOK /\ LockOK /\ SentBefore /\ SeenDrained /\ CompletedDrained
    BY DEF DrainInv, CountInv, TypeInv
<1>1. a \in Accounts /\ o \in DoneJob \cup Withdrawals /\ UNCHANGED <<req, requeued>>
    BY <1>t DEF CommitFinal, TypeInv, TypeOK, FinOK, Deciding, Outcomes
<1>2. /\ fin'[w].phase = "idle" /\ \A v \in Workers \ {w} : fin'[v] = fin[v]
      /\ campaign'.state = IF Completes(w) THEN "completed" ELSE campaign.state
    BY <1>t, FinFacts DEF CommitFinal, TypeOK, CampaignRow, Idle
<1>3. /\ \A b \in Accounts \ {a} : jobLock'[b] = jobLock[b] /\ job'[b] = job[b]
      /\ jobLock[a] = w => jobLock'[a] = Free /\ job'[a] = Ending(o)
      /\ jobLock[a] # w => jobLock'[a] = jobLock[a] /\ job'[a] = job[a]
    BY <1>1, <1>t DEF CommitFinal, TypeOK
<1>4. Ending(o) \notin OpenJob
    BY <1>1 DEF Ending, DoneJob, Withdrawals, OpenJob
<1>5. CASE ~Completes(w)
    BY <1>1, <1>2, <1>3, <1>4, <1>5, <1>t, DrainStays
<1>6. CASE Completes(w)
    <2>1. \A b \in Accounts \ requeued : job'[b] \notin OpenJob
        BY <1>3, <1>4, <1>6, <1>t DEF Completes, SeenDrained, LockOK
    <2>2. SentBefore'
        BY <1>1, <1>6, <1>t DEF Completes, SentBefore
    <2>3. QED
        BY <1>1, <1>2, <1>6, <2>1, <2>2 DEF SeenDrained, CompletedDrained
<1>7. QED
    BY <1>5, <1>6

LEMMA NextDrainInv == OneSend /\ DrainInv /\ [Next]_vars => DrainInv'
<1> SUFFICES ASSUME OneSend, DrainInv, [Next]_vars
             PROVE  SentBefore' /\ SeenDrained' /\ CompletedDrained'
    BY NextCountInv DEF DrainInv
<1> DEFINE Goal == SentBefore' /\ SeenDrained' /\ CompletedDrained'
<1>t. TypeOK /\ SentBefore /\ SeenDrained /\ CompletedDrained
    BY DEF DrainInv, CountInv, TypeInv
<1>1. ASSUME Create \/ (\E a \in Accounts : Join(a)) \/ UNCHANGED vars PROVE Goal
    <2>1. /\ UNCHANGED <<job, jobLock, fin, req, requeued>>
          /\ campaign'.state = campaign.state \/ campaign'.state = "draft"
        BY <1>1, <1>t DEF Create, Join, vars, rows, locks, TypeOK, CampaignRow
    <2>2. QED
        BY <2>1, <1>t, DrainStays
<1>2. ASSUME NEW r \in Requests, RequestStep(r) PROVE Goal
    BY <1>2, RequestDrains, SendDrains
<1>3. ASSUME NEW w \in Workers, WorkerStep(w) PROVE Goal
    BY <1>3, WorkerDrains, CheckDrains, CommitDrains
<1>4. QED
    BY <1>1, <1>2, <1>3 DEF Next

\* CompletedDrained of Spec: a completed campaign has no open job but one that an
\* exception re-queued, however many finalizers, hooks, edits and cancellations overlap
\* the campaign's one send.
THEOREM CompletedIsDrained == ASSUME OneSend PROVE Spec => []CompletedDrained
<1>1. DrainInv /\ [Next]_vars => DrainInv'
    BY NextDrainInv
<1>2. DrainInv => CompletedDrained
    BY DEF DrainInv
<1>3. QED
    BY <1>1, <1>2, InitDrainInv, PTL DEF Spec
=============================================================================
