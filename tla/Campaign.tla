------------------------------ MODULE Campaign ------------------------------
(***************************************************************************)
(* One organizer campaign: its row, its frozen audience and its outbox     *)
(* jobs, under the concurrent requests of the organizers (edit, approve,   *)
(* send, cancel), the workers that finalize its jobs and the withdrawals   *)
(* of its recipients.                                                      *)
(*                                                                         *)
(* The transactions run at READ COMMITTED: a statement sees what is        *)
(* committed when it starts and its own transaction's writes, a row that   *)
(* another transaction wrote is waited for, and after the wait the WHERE   *)
(* is evaluated again on the new version of that row only.  campaign and   *)
(* job are the committed rows.  A transaction that holds a row lock over   *)
(* several statements is several actions; one that cannot be told from a   *)
(* single statement is one action.                                         *)
(***************************************************************************)
EXTENDS Naturals, FiniteSets

CONSTANTS
    Accounts,       \* the members of the event
    Requests,       \* organizer requests, each served once
    Kind,           \* what each request asks for
    Workers,        \* workers, and routes that withdraw a recipient
    Free,           \* no lock holder, no account
    CanThrow,       \* processJob may throw, a route may die
    RevisionBound   \* bound: edits of the content

Kinds == {"edit", "approve", "send", "cancel"}

ASSUME CampaignAssumption ==
    /\ IsFiniteSet(Accounts)
    /\ Kind \in [Requests -> Kinds]
    /\ Requests \cap Workers = {}
    /\ Free \notin Accounts \cup Requests \cup Workers
    /\ CanThrow \in BOOLEAN
    /\ RevisionBound \in Nat \ {0}

VARIABLES
    campaign,     \* the row of campaigns
    audience,     \* campaign_audience: the frozen snapshot
    eligible,     \* what currentEligibleAudience would return now
    job,          \* status of the job campaign:<id>:<account>
    jobText,      \* the content revision whose text the job carries
    campaignLock, \* the transaction that has written the campaign row
    jobLock,      \* the transaction that has locked each job row
    req,          \* each request: where it is, the revision and the members it read
    fin,          \* each finalizing transaction: where it is, which job, what outcome
    approvals,    \* history: the revisions an owner reviewed and approved
    requeued      \* history: the jobs re-queued after an exception

vars == <<campaign, audience, eligible, job, jobText, campaignLock, jobLock, req, fin,
          approvals, requeued>>
rows == <<campaign, audience, job, jobText, approvals, requeued>>
locks == <<campaignLock, jobLock>>

States == {"none", "draft", "approved", "running", "completed", "cancelled"}
OpenJob == {"pending", "leased"}                \* NON_TERMINAL_CAMPAIGN_JOB_STATUSES
DoneJob == {"sent", "failed", "suppressed"}     \* "failed" stands for "unknown" too
Null == 0

ReqPhases == {"new", "loaded", "read", "enqueued", "updated", "suppressing", "done"}
FinPhases == {"idle", "working", "finalizing", "withdrawing", "revoking", "bump", "check",
              "complete", "commit", "failing"}

\* The suppression hooks: "withdrawn" (/stop, unlink, account deletion) is a
\* transaction, "revoked" (the consent route) three statements on their own.
Withdrawals == {"withdrawn", "revoked"}
Outcomes == {"none"} \cup Withdrawals \cup DoneJob

Ending(o) == IF o \in Withdrawals THEN "suppressed" ELSE o

CampaignRow == [state : States, revision : 0..RevisionBound, approved : 0..RevisionBound,
                queued : Nat, sent : Nat]

TypeOK ==
    /\ campaign \in CampaignRow
    /\ audience \subseteq Accounts /\ eligible \subseteq Accounts
    /\ job \in [Accounts -> {"absent"} \cup OpenJob \cup DoneJob]
    /\ jobText \in [Accounts -> 0..RevisionBound]
    /\ campaignLock \in Requests \cup Workers \cup {Free}
    /\ jobLock \in [Accounts -> Workers \cup {Free}]
    /\ req \in [Requests -> [phase : ReqPhases, revision : 0..RevisionBound,
                            members : SUBSET Accounts]]
    /\ fin \in [Workers -> [phase : FinPhases, account : Accounts \cup {Free},
                            outcome : Outcomes]]
    /\ approvals \subseteq 1..RevisionBound
    /\ requeued \subseteq Accounts

NoRow == [state |-> "none", revision |-> 0, approved |-> Null, queued |-> 0, sent |-> 0]
Idle == [phase |-> "idle", account |-> Free, outcome |-> "none"]

Init ==
    /\ campaign = NoRow
    /\ audience = {} /\ eligible \in SUBSET Accounts
    /\ job = [a \in Accounts |-> "absent"]
    /\ jobText = [a \in Accounts |-> 0]
    /\ campaignLock = Free
    /\ jobLock = [a \in Accounts |-> Free]
    /\ req = [r \in Requests |-> [phase |-> "new", revision |-> 0, members |-> {}]]
    /\ fin = [w \in Workers |-> Idle]
    /\ approvals = {} /\ requeued = {}

-----------------------------------------------------------------------------
(* The organizers' requests.                                               *)

\* POST /api/organizer/campaigns
Create ==
    /\ campaign.state = "none"
    /\ campaign' = [campaign EXCEPT !.state = "draft", !.revision = 1]
    /\ UNCHANGED <<audience, eligible, job, jobText, locks, req, fin, approvals, requeued>>


canSend(c) == c.state = "approved" /\ c.approved # Null /\ c.approved = c.revision
campaignEditTransition(c) == c.state \in {"draft", "approved"}
campaignCancelTransition(c) == c.state = "running"

\* What the loaded row must satisfy, else the request is refused (409).
Accepts(kind, c) ==
    CASE kind = "edit"    -> campaignEditTransition(c)
      [] kind = "approve" -> c.state \in {"draft", "approved"}
      [] kind = "send"    -> canSend(c)
      [] kind = "cancel"  -> campaignCancelTransition(c)

\* loadCampaignWithRole and the state check, outside any transaction; a refused
\* request changes nothing and may be made again.
Load(r) ==
    /\ req[r].phase = "new" /\ Accepts(Kind[r], campaign)
    /\ req' = [req EXCEPT ![r] = [@ EXCEPT !.phase = "loaded", !.revision = campaign.revision]]
    /\ UNCHANGED <<rows, eligible, locks, fin>>

Finish(r) == req' = [req EXCEPT ![r] = [phase |-> "done", revision |-> 0, members |-> {}]]

\* PATCH: the compare-and-set is on the revision alone.
EditUpdate(r) ==
    LET old == req[r].revision IN
    /\ Kind[r] = "edit" /\ req[r].phase = "loaded" /\ campaignLock = Free
    /\ old < RevisionBound
    /\ campaign' = IF campaign.revision # old THEN campaign
                   ELSE [campaign EXCEPT !.state = "draft",
                                         !.revision = old + 1, !.approved = Null]
    /\ Finish(r)
    /\ UNCHANGED <<audience, eligible, job, jobText, locks, fin, approvals, requeued>>

\* approve: the audience is read, ...
ApproveRead(r) ==
    /\ Kind[r] = "approve" /\ req[r].phase = "loaded"
    /\ req' = [req EXCEPT ![r] = [@ EXCEPT !.phase = "read", !.members = eligible]]
    /\ UNCHANGED <<rows, eligible, locks, fin>>

\* Mutant: whatever revision the row has by now is approved.
ReviewedOnce(r) == campaign.state \in {"draft", "approved"}

Reviewed(r) ==
    campaign.state \in {"draft", "approved"} /\ campaign.revision = req[r].revision

\* ... the snapshot replaced and the row approved if it is still the loaded
\* revision; the transaction commits the new snapshot either way.
ApproveUpdate(r) ==
    /\ Kind[r] = "approve" /\ req[r].phase = "read" /\ campaignLock = Free
    /\ audience' = req[r].members
    /\ campaign' = IF Reviewed(r)
                   THEN [campaign EXCEPT !.state = "approved", !.approved = campaign.revision]
                   ELSE campaign
    /\ approvals' = approvals \cup (IF Reviewed(r) THEN {req[r].revision} ELSE {})
    /\ Finish(r)
    /\ UNCHANGED <<eligible, job, jobText, locks, fin, requeued>>

\* send: live revalidation of the frozen snapshot, outside the transaction.
SendRead(r) ==
    /\ Kind[r] = "send" /\ req[r].phase = "loaded"
    /\ req' = [req EXCEPT ![r] = [@ EXCEPT !.phase = "read", !.members = audience \cap eligible]]
    /\ UNCHANGED <<rows, eligible, locks, fin>>

\* enqueueOutbox for each recipient; a key already inserted (or being inserted,
\* which is waited for) is skipped.
SendEnqueue(r) ==
    /\ Kind[r] = "send" /\ req[r].phase = "read"
    /\ \A q \in Requests : Kind[q] = "send" /\ req[q].phase = "enqueued"
          => req[q].members \cap req[r].members = {}
    /\ LET created == {a \in req[r].members : job[a] = "absent"} IN
       req' = [req EXCEPT ![r] = [@ EXCEPT !.phase = "enqueued", !.members = created]]
    /\ UNCHANGED <<rows, eligible, locks, fin>>

\* Mutant: a leased job does not count as open.
DrainedQueue(jobs) == \A a \in Accounts : jobs[a] # "pending"

Drained(jobs) == \A a \in Accounts : jobs[a] \notin OpenJob

\* The row is set to 'running' by its id, whatever its state is by now, and
\* completed at once when nothing is open.
SendCommit(r) ==
    LET created == req[r].members IN
    /\ Kind[r] = "send" /\ req[r].phase = "enqueued" /\ campaignLock = Free
    /\ job' = [a \in Accounts |-> IF a \in created THEN "pending" ELSE job[a]]
    /\ jobText' = [a \in Accounts |->
            IF a \in created THEN req[r].revision ELSE jobText[a]]
    /\ campaign' = [campaign EXCEPT !.state = IF Drained(job') THEN "completed" ELSE "running",
                                    !.queued = @ + Cardinality(created)]
    /\ Finish(r)
    /\ UNCHANGED <<audience, eligible, locks, fin, approvals, requeued>>

\* cancel: 'running' -> 'cancelled' takes the row lock, ...
CancelUpdate(r) ==
    /\ Kind[r] = "cancel" /\ req[r].phase = "loaded" /\ campaignLock = Free
    /\ IF campaign.state = "running"
       THEN /\ campaignLock' = r
            /\ req' = [req EXCEPT ![r].phase = "updated"]
       ELSE Finish(r) /\ UNCHANGED campaignLock
    /\ UNCHANGED <<rows, eligible, jobLock, fin>>

\* ... suppressJobsForCampaign finds the queued and leased jobs, ...
CancelScan(r) ==
    /\ Kind[r] = "cancel" /\ req[r].phase = "updated"
    /\ req' = [req EXCEPT ![r] = [@ EXCEPT !.phase = "suppressing",
                                           !.members = {a \in Accounts : job[a] \in OpenJob}]]
    /\ UNCHANGED <<rows, eligible, locks, fin>>

\* ... waits for those that a finalizer has locked, suppresses what is still
\* open and commits.
CancelCommit(r) ==
    /\ Kind[r] = "cancel" /\ req[r].phase = "suppressing"
    /\ \A a \in req[r].members : jobLock[a] = Free
    /\ job' = [a \in Accounts |-> IF a \in req[r].members /\ job[a] \in OpenJob
                                  THEN "suppressed" ELSE job[a]]
    /\ campaign' = [campaign EXCEPT !.state = "cancelled"]
    /\ campaignLock' = Free
    /\ Finish(r)
    /\ UNCHANGED <<audience, eligible, jobText, jobLock, fin, approvals, requeued>>

-----------------------------------------------------------------------------
(* The workers: a job is claimed, handed to its transport, finalized.      *)

Enter(w, phase) == fin' = [fin EXCEPT ![w] = [@ EXCEPT !.phase = phase]]
Leave(w) == fin' = [fin EXCEPT ![w] = Idle]

Claim(w, a) ==
    /\ fin[w].phase = "idle" /\ job[a] = "pending" /\ jobLock[a] = Free
    /\ job' = [job EXCEPT ![a] = "leased"]
    /\ fin' = [fin EXCEPT ![w] = [phase |-> "working", account |-> a, outcome |-> "none"]]
    /\ UNCHANGED <<campaign, audience, eligible, jobText, locks, req, approvals, requeued>>

\* A terminal outcome: accepted, given up on, or refused by a precondition.
Answer(w, o) ==
    /\ fin[w].phase = "working"
    /\ fin' = [fin EXCEPT ![w] = [@ EXCEPT !.phase = "finalizing", !.outcome = o]]
    /\ UNCHANGED <<rows, eligible, locks, req>>

\* A non-terminal outcome (429, or unknown below the cap): back to the queue.
Retry(w) ==
    LET a == fin[w].account IN
    /\ fin[w].phase = "working" /\ jobLock[a] = Free
    /\ job' = IF job[a] = "leased" THEN [job EXCEPT ![a] = "pending"] ELSE job
    /\ Leave(w)
    /\ UNCHANGED <<campaign, audience, eligible, jobText, locks, req, approvals, requeued>>

\* A recipient's /stop begins.
Withdraw(w, a) ==
    /\ fin[w].phase = "idle" /\ a \in eligible
    /\ fin' = [fin EXCEPT ![w] = [phase |-> "withdrawing", account |-> a,
                                 outcome |-> "withdrawn"]]
    /\ UNCHANGED <<rows, eligible, locks, req>>

\* POST /api/consents/revoke: the consent is withdrawn, ...
Revoke(w, a) ==
    /\ fin[w].phase = "idle" /\ a \in eligible
    /\ eligible' = eligible \ {a}
    /\ fin' = [fin EXCEPT ![w] = [phase |-> "revoking", account |-> a, outcome |-> "revoked"]]
    /\ UNCHANGED <<rows, locks, req>>

\* ... then the open job is suppressed, ... (the completion check comes last)
RevokeSuppress(w) ==
    LET a == fin[w].account IN
    /\ fin[w].phase = "revoking" /\ jobLock[a] = Free
    /\ IF job[a] \in OpenJob
       THEN job' = [job EXCEPT ![a] = "suppressed"] /\ Enter(w, "check")
       ELSE UNCHANGED job /\ Leave(w)
    /\ UNCHANGED <<campaign, audience, eligible, jobText, locks, req, approvals, requeued>>

\* ... unless the route dies in between.
RevokeDies(w) ==
    /\ CanThrow /\ fin[w].outcome = "revoked"
    /\ Leave(w)
    /\ UNCHANGED <<rows, eligible, locks, req>>

Join(a) ==
    /\ eligible' = eligible \cup {a}
    /\ a \notin eligible
    /\ UNCHANGED <<rows, locks, req, fin>>

EligibleAfter(w) ==
    IF fin[w].outcome = "withdrawn" THEN eligible \ {fin[w].account} ELSE eligible

\* The finalizer's transaction locks the job row and writes the terminal status,
\* unless someone else ended the job first.
LockJob(w) ==
    LET a == fin[w].account
        guard == IF fin[w].phase = "withdrawing" THEN OpenJob ELSE {"leased"} IN
    /\ fin[w].phase \in {"finalizing", "withdrawing"} /\ jobLock[a] = Free
    /\ IF job[a] \in guard
       THEN /\ jobLock' = [jobLock EXCEPT ![a] = w]
            /\ Enter(w, IF fin[w].outcome = "sent" THEN "bump" ELSE "check")
            /\ UNCHANGED eligible
       ELSE Leave(w) /\ eligible' = EligibleAfter(w) /\ UNCHANGED jobLock
    /\ UNCHANGED <<rows, campaignLock, req>>

\* bumpCampaignSentCount: takes the lock of the campaign row.
BumpSentCount(w) ==
    /\ fin[w].phase = "bump" /\ campaignLock = Free
    /\ campaignLock' = w
    /\ Enter(w, "check")
    /\ UNCHANGED <<rows, eligible, jobLock, req>>

\* What a statement of w's transaction sees: its own write, and what others committed.
JobsSeen(w) ==
    [a \in Accounts |-> IF jobLock[a] = w THEN Ending(fin[w].outcome) ELSE job[a]]

\* completeCampaignsIfDrained, first half: the WHERE on the statement's snapshot,
\* in which the jobs that other transactions are ending have not ended.
CheckDrained(w) ==
    /\ fin[w].phase = "check"
    /\ Enter(w, IF campaign.state = "running"
                   /\ Drained(JobsSeen(w))
                THEN "complete" ELSE "commit")
    /\ UNCHANGED <<rows, eligible, locks, req>>

\* Mutant: a rejected message counts as sent.
CountsAttempt(w) == fin[w].outcome \in {"sent", "failed"}

Completes(w) == fin[w].phase = "complete" /\ campaign.state = "running"
CountsAsSent(w) == fin[w].outcome = "sent"

\* Second half, only for a row that matched: wait for its lock, see if it is
\* still 'running'.  Then the transaction commits.
CommitFinal(w) ==
    LET a == fin[w].account IN
    /\ \/ fin[w].phase = "commit"
       \/ fin[w].phase = "complete" /\ campaignLock \in {Free, w}
    /\ job' = IF jobLock[a] = w THEN [job EXCEPT ![a] = Ending(fin[w].outcome)] ELSE job
    /\ campaign' = [campaign EXCEPT
            !.state = IF Completes(w) THEN "completed" ELSE @,
            !.sent = IF CountsAsSent(w) THEN @ + 1 ELSE @]
    /\ campaignLock' = IF campaignLock = w THEN Free ELSE campaignLock
    /\ jobLock' = IF jobLock[a] = w THEN [jobLock EXCEPT ![a] = Free] ELSE jobLock
    /\ eligible' = EligibleAfter(w)
    /\ Leave(w)
    /\ UNCHANGED <<audience, jobText, req, approvals, requeued>>

\* A cancellation has the campaign row and waits for a job row; the finalizer
\* that has the job row waits for the campaign row.
Deadlocked(r, w) ==
    /\ req[r].phase = "suppressing" /\ campaignLock = r
    /\ fin[w].phase \in {"bump", "complete"}
    /\ fin[w].account \in req[r].members /\ jobLock[fin[w].account] = w

\* PostgreSQL aborts one of the two: the cancellation answers 500, ...
AbortCancel(r) ==
    /\ \E w \in Workers : Deadlocked(r, w)
    /\ campaignLock' = Free
    /\ Finish(r)
    /\ UNCHANGED <<rows, eligible, jobLock, fin>>

\* ... or the finalizer throws (a withdrawal's route just fails).
AbortFinalizer(w) ==
    /\ \E r \in Requests : Deadlocked(r, w)
    /\ jobLock' = [jobLock EXCEPT ![fin[w].account] = Free]
    /\ IF fin[w].outcome = "withdrawn" THEN Leave(w) ELSE Enter(w, "failing")
    /\ UNCHANGED <<rows, eligible, campaignLock, req>>

Throw(w) ==
    /\ CanThrow /\ fin[w].phase = "working"
    /\ Enter(w, "failing")
    /\ UNCHANGED <<rows, eligible, locks, req>>

\* requeueWithErrorCap: by id, whatever the status is, and no completion check.
RequeueWithErrorCap(w) ==
    LET a == fin[w].account IN
    /\ fin[w].phase = "failing" /\ jobLock[a] = Free
    /\ \E s \in {"pending", "failed"} : job' = [job EXCEPT ![a] = s]
    /\ requeued' = requeued \cup {a}
    /\ Leave(w)
    /\ UNCHANGED <<campaign, audience, eligible, jobText, locks, req, approvals>>

-----------------------------------------------------------------------------
RequestStep(r) ==
    \/ Load(r) \/ EditUpdate(r) \/ ApproveRead(r) \/ ApproveUpdate(r)
    \/ SendRead(r) \/ SendEnqueue(r) \/ SendCommit(r)
    \/ CancelUpdate(r) \/ CancelScan(r) \/ CancelCommit(r) \/ AbortCancel(r)

WorkerStep(w) ==
    \/ \E a \in Accounts : Claim(w, a) \/ Withdraw(w, a) \/ Revoke(w, a)
    \/ \E o \in DoneJob : Answer(w, o)
    \/ Retry(w) \/ LockJob(w) \/ BumpSentCount(w) \/ CheckDrained(w) \/ CommitFinal(w)
    \/ RevokeSuppress(w) \/ RevokeDies(w) \/ AbortFinalizer(w)
    \/ Throw(w) \/ RequeueWithErrorCap(w)

Next ==
    \/ Create
    \/ \E a \in Accounts : Join(a)
    \/ \E r \in Requests : RequestStep(r)
    \/ \E w \in Workers : WorkerStep(w)

Spec == Init /\ [][Next]_vars

-----------------------------------------------------------------------------
(* Properties *)

\* What is queued is a text an owner reviewed, and when it is what the campaign says
\* now, its approval is in force at that moment ("any edit invalidates a prior
\* approval", campaigns.ts).  The rule stops a send only where the send loads the
\* campaign: one that an edit overtakes after that still queues the text it loaded.
QueuedAsApproved ==
    [][\A a \in Accounts : job[a] = "absent" /\ job'[a] # "absent" =>
          /\ jobText'[a] \in approvals
          /\ \/ jobText'[a] = campaign.revision /\ campaign.approved = campaign.revision
             \/ jobText'[a] < campaign.revision]_vars

\* An approved campaign is approved at the revision it has now.
ApprovalPinned ==
    campaign.state = "approved"
        => campaign.approved = campaign.revision /\ campaign.revision \in approvals

\* The counters an organizer reads are the jobs: queued_count those ever queued,
\* sent_count those a provider accepted, under concurrent finalizers and aborts.
CountersHonest ==
    /\ campaign.queued = Cardinality({a \in Accounts : job[a] # "absent"})
    /\ campaign.sent = Cardinality({a \in Accounts : job[a] = "sent"})

\* "'completed' with drained=false is impossible" (stats route), as long as the
\* campaign's sends do not overlap and no exception sent a job back to the queue: no
\* finalizer, hook, edit or cancellation lets a completed campaign keep an open job.
CompletedDrained ==
    campaign.state = "completed" => \A a \in Accounts \ requeued : job[a] \notin OpenJob

\* "A campaign can never be observed as running while every recipient has
\* already finished" (applyOutcome), at least when no transaction is under way.
RunningHasWork ==
    campaign.state = "running" /\ (\A w \in Workers : fin[w].phase = "idle") => ~Drained(job)

\* "A cancelled campaign cannot be resumed, which is the point" (cancel route).
CancelledStays ==
    [][campaign.state = "cancelled" => campaign'.state = "cancelled"]_vars
=============================================================================
