------------------------------ MODULE FollowUp ------------------------------
(***************************************************************************)
(* The "next step" reminders of one member: the notes they keep, the scan  *)
(* a worker tick runs over them, the jobs it makes and the last check a    *)
(* worker makes before it sends one, next to the member's own switch, the  *)
(* reach of their channel and the retention pass that deletes old jobs.    *)
(* Ticks overlap, and each reads, checks and writes in separate steps.     *)
(*                                                                         *)
(* The scan takes its notes from every member at once: notes of others     *)
(* take up its limit as this member's do.  Retries and leases of a job are *)
(* in module Outbox.                                                       *)
(***************************************************************************)
EXTENDS Naturals, FiniteSets, Sequences, SequencesExt

CONSTANTS
    Notes,        \* notes about people, one per person
    Limit,        \* REMINDER_SCAN_LIMIT
    Ticks,        \* worker ticks that may overlap
    MaxEdits      \* bound: times a note is saved

ASSUME FollowUpAssumption == /\ IsFiniteSet(Notes)
                             /\ Limit \in Nat \ {0}
                             /\ MaxEdits \in Nat

VARIABLES
    note,         \* connection_notes: the status of the step, and the one reminded of
    line,         \* the notes saved so far, by updated_at
    edits,
    mutual,       \* the notes about somebody the introduction to whom became mutual
    optIn,        \* followup_preferences: the newer of the two stamps is the opt-in
    reachable,    \* the service_channel consent is granted and a channel is open
    withdrawing,  \* a request has withdrawn the consent and not yet suppressed the jobs
    job,          \* outbox_jobs of kind followup_reminder, by dedupe key
    tick,         \* each tick: the reminders it found due, and the one it goes on with
    delivery,     \* the worker that holds a job: how far its checks are
    late,         \* history: jobs past those checks when the member opted out
    reminders,    \* history: reminders made under each key
    forgotten     \* history: jobs deleted under each key

noteVars == <<note, line, edits, mutual>>
followUpVars == <<noteVars, optIn, reachable, withdrawing, job, tick, delivery,
                  late, reminders, forgotten>>
history == <<late, reminders, forgotten>>

Remindable == {"proposed", "confirmed"}
Statuses == {"none", "done"} \cup Remindable
Keys == Notes \X Remindable
ReminderStates == {"none", "pending", "leased", "sent", "suppressed"}
Stages == {"idle", "claimed", "opted in", "cleared"}

FollowUpTypeOK ==
    /\ note \in [Notes -> [status : Statuses, aged : BOOLEAN,
                           reminded : {"none"} \cup Remindable]]
    /\ line \in Seq(Notes)
    /\ edits \in 0..MaxEdits
    /\ mutual \subseteq Notes
    /\ optIn \in BOOLEAN /\ reachable \in BOOLEAN /\ withdrawing \in BOOLEAN
    /\ job \in [Keys -> ReminderStates]
    /\ tick \in [Ticks -> [todo : SUBSET Keys, at : SUBSET Keys]]
    /\ delivery \in [Keys -> Stages]
    /\ late \subseteq Keys
    /\ reminders \in [Keys -> Nat] /\ forgotten \in [Keys -> Nat]

NoTick == [todo |-> {}, at |-> {}]

FollowUpInit ==
    /\ note = [n \in Notes |-> [status |-> "none", aged |-> FALSE, reminded |-> "none"]]
    /\ line = <<>> /\ edits = 0
    /\ mutual \in SUBSET Notes
    /\ optIn = TRUE /\ reachable = TRUE /\ withdrawing = FALSE
    /\ job = [k \in Keys |-> "none"]
    /\ tick = [t \in Ticks |-> NoTick]
    /\ delivery = [k \in Keys |-> "idle"]
    /\ late = {}
    /\ reminders = [k \in Keys |-> 0] /\ forgotten = [k \in Keys |-> 0]

-----------------------------------------------------------------------------
(***************************************************************************)
(* PUT /api/me/notes/{profile}: the note is upserted and counts as new;    *)
(* what it was reminded of stays.  Time, and an introduction, come later.  *)
(***************************************************************************)
SaveNote(n, s) ==
    /\ edits < MaxEdits
    /\ edits' = edits + 1
    /\ note' = [note EXCEPT ![n].status = s, ![n].aged = FALSE]
    /\ line' = Append(Remove(line, n), n)
    /\ UNCHANGED <<mutual, optIn, reachable, withdrawing, job, tick, delivery, history>>

Ages(n) ==
    /\ n \in ToSet(line) /\ ~note[n].aged
    /\ \A i \in 1..Len(line) : line[i] = n => \A j \in 1..(i - 1) : note[line[j]].aged
    /\ note' = [note EXCEPT ![n].aged = TRUE]
    /\ UNCHANGED <<line, edits, mutual, optIn, reachable, withdrawing, job, tick, delivery,
                   history>>

Meet(n) ==
    /\ n \notin mutual
    /\ mutual' = mutual \cup {n}
    /\ UNCHANGED <<note, line, edits, optIn, reachable, withdrawing, job, tick, delivery, history>>

-----------------------------------------------------------------------------
(***************************************************************************)
(* The scan.  The query takes the oldest Limit notes it calls candidates;  *)
(* selectDueReminders drops the ones whose introduction is not mutual only *)
(* afterwards.                                                             *)
(***************************************************************************)
Candidate(n) == /\ note[n].status \in Remindable
                /\ note[n].aged
                /\ note[n].reminded # note[n].status
                /\ optIn

Scanned == LET candidates == SelectSeq(line, Candidate)
           IN  {candidates[i] : i \in {j \in 1..Len(candidates) : j <= Limit}}

Due(rows) == {<<n, note[n].status>> : n \in rows \cap mutual}

Scan(t) ==
    /\ tick[t] = NoTick
    /\ tick' = [tick EXCEPT ![t].todo = Due(Scanned)]
    /\ UNCHANGED <<noteVars, optIn, reachable, withdrawing, job, delivery, history>>

(***************************************************************************)
(* recipientIsReachable, for one reminder after the other.                 *)
(***************************************************************************)
Reach(t, k) ==
    /\ k \in tick[t].todo /\ tick[t].at = {}
    /\ tick' = [tick EXCEPT ![t] = [todo |-> tick[t].todo \ {k},
                                    at |-> IF reachable THEN {k} ELSE {}]]
    /\ UNCHANGED <<noteVars, optIn, reachable, withdrawing, job, delivery, history>>

(***************************************************************************)
(* The transaction: a job unless its key is taken, and with a new job the  *)
(* note's bookkeeping.                                                     *)
(***************************************************************************)
KeyFree(k) == job[k] = "none"

EnqueueReminder(t, k) ==
    /\ k \in tick[t].at
    /\ tick' = [tick EXCEPT ![t].at = {}]
    /\ \/ /\ KeyFree(k)
          /\ job' = [job EXCEPT ![k] = "pending"]
          /\ note' = [note EXCEPT ![k[1]].reminded = k[2]]
          /\ reminders' = [reminders EXCEPT ![k] = @ + 1]
       \/ /\ ~KeyFree(k)
          /\ UNCHANGED <<job, note, reminders>>
    /\ UNCHANGED <<line, edits, mutual, optIn, reachable, withdrawing, delivery, late, forgotten>>

(***************************************************************************)
(* An error ends the scan of a tick wherever it is (runFollowupScan).      *)
(***************************************************************************)
ScanFails(t) ==
    /\ tick[t] # NoTick
    /\ tick' = [tick EXCEPT ![t] = NoTick]
    /\ UNCHANGED <<noteVars, optIn, reachable, withdrawing, job, delivery, history>>

-----------------------------------------------------------------------------
(***************************************************************************)
(* The member's switch (POST /api/me/followup, or the unsubscribe link)    *)
(* and their channel (chat unlinked) turn off together with everything     *)
(* that is queued; a consent is withdrawn first.                           *)
(***************************************************************************)
Suppressed == [k \in Keys |-> IF job[k] \in {"pending", "leased"} THEN "suppressed" ELSE job[k]]
PastSwitch == {k \in Keys : delivery[k] \in {"opted in", "cleared"}}

OptOut ==
    /\ optIn
    /\ optIn' = FALSE
    /\ job' = Suppressed
    /\ late' = PastSwitch
    /\ UNCHANGED <<noteVars, reachable, withdrawing, tick, delivery, reminders, forgotten>>

OptBackIn ==
    /\ ~optIn
    /\ optIn' = TRUE
    /\ late' = {}
    /\ UNCHANGED <<noteVars, reachable, withdrawing, job, tick, delivery, reminders, forgotten>>

CloseChannel ==
    /\ reachable
    /\ reachable' = FALSE
    /\ job' = Suppressed
    /\ UNCHANGED <<noteVars, optIn, withdrawing, tick, delivery, history>>

\* POST /api/consents/revoke: the consent is withdrawn, ...
WithdrawConsent ==
    /\ reachable
    /\ reachable' = FALSE /\ withdrawing' = TRUE
    /\ UNCHANGED <<noteVars, optIn, job, tick, delivery, history>>

\* ... then what is queued is suppressed, if the route gets that far.
SuppressWithdrawn ==
    /\ withdrawing
    /\ withdrawing' = FALSE
    /\ job' = Suppressed
    /\ UNCHANGED <<noteVars, optIn, reachable, tick, delivery, history>>

ReopenChannel ==
    /\ ~reachable
    /\ reachable' = TRUE
    /\ UNCHANGED <<noteVars, optIn, withdrawing, job, tick, delivery, history>>

-----------------------------------------------------------------------------
(***************************************************************************)
(* processOutbound: the switch, then consent and channel, then the call.   *)
(* A job that was suppressed meanwhile is sent all the same by the worker  *)
(* that holds it; its row keeps "suppressed".                              *)
(***************************************************************************)
Claim(k) ==
    /\ job[k] = "pending" /\ delivery[k] = "idle"
    /\ job' = [job EXCEPT ![k] = "leased"]
    /\ delivery' = [delivery EXCEPT ![k] = "claimed"]
    /\ UNCHANGED <<noteVars, optIn, reachable, withdrawing, tick, history>>

\* Mutant: the switch was looked at when the job was made.
AsScanned == TRUE

StillOptedIn == optIn

Gate(k, from, open, to) ==
    /\ delivery[k] = from
    /\ delivery' = [delivery EXCEPT ![k] = IF open THEN to ELSE "idle"]
    /\ job' = [job EXCEPT ![k] = IF open THEN @ ELSE "suppressed"]
    /\ UNCHANGED <<noteVars, optIn, reachable, withdrawing, tick, history>>

CheckSwitch(k) == Gate(k, "claimed", StillOptedIn, "opted in")
CheckChannel(k) == Gate(k, "opted in", reachable, "cleared")

Send(k) ==
    /\ delivery[k] = "cleared"
    /\ delivery' = [delivery EXCEPT ![k] = "idle"]
    /\ job' = [job EXCEPT ![k] = IF @ = "leased" THEN "sent" ELSE @]
    /\ UNCHANGED <<noteVars, optIn, reachable, withdrawing, tick, history>>

(***************************************************************************)
(* The retention pass deletes jobs that ended 90 days ago and more: no     *)
(* tick or worker of those days is still at work.                          *)
(***************************************************************************)
ForgetJob(k) ==
    /\ job[k] \in {"sent", "suppressed"} /\ delivery[k] = "idle"
    /\ \A t \in Ticks : tick[t] = NoTick
    /\ job' = [job EXCEPT ![k] = "none"]
    /\ forgotten' = [forgotten EXCEPT ![k] = @ + 1]
    /\ UNCHANGED <<noteVars, optIn, reachable, withdrawing, tick, delivery, late, reminders>>

FollowUpNext ==
    \/ \E n \in Notes, s \in Statuses : SaveNote(n, s)
    \/ \E n \in Notes : Ages(n) \/ Meet(n)
    \/ \E t \in Ticks : Scan(t) \/ ScanFails(t)
    \/ \E t \in Ticks, k \in Keys : Reach(t, k) \/ EnqueueReminder(t, k)
    \/ OptOut \/ OptBackIn \/ CloseChannel \/ ReopenChannel
    \/ WithdrawConsent \/ SuppressWithdrawn
    \/ \E k \in Keys : Claim(k) \/ CheckSwitch(k) \/ CheckChannel(k) \/ Send(k) \/ ForgetJob(k)

FollowUpSpec == FollowUpInit /\ [][FollowUpNext]_followUpVars

(***************************************************************************)
(* The cron runs ticks for ever, errors do not end every scan at the same  *)
(* step, and days pass.                                                    *)
(***************************************************************************)
FollowUpFairness ==
    /\ \A n \in Notes : WF_followUpVars(Ages(n))
    /\ \A t \in Ticks : /\ WF_followUpVars(Scan(t))
                        /\ \A k \in Keys : /\ SF_followUpVars(Reach(t, k))
                                           /\ SF_followUpVars(EnqueueReminder(t, k))

FollowUpFair == FollowUpSpec /\ FollowUpFairness

-----------------------------------------------------------------------------
(***************************************************************************)
(* After the member has opted out nothing is sent, whatever ticks were in  *)
(* the middle of a scan by then, except what a worker had already found    *)
(* allowed at that moment.                                                 *)
(***************************************************************************)
OptedOutLeftAlone == ~optIn => PastSwitch \subseteq late

(***************************************************************************)
(* Overlapping ticks make one reminder of a step, not two, as long as its  *)
(* job is on file.                                                         *)
(***************************************************************************)
OneReminderOnFile == \A k \in Keys : reminders[k] <= 1 + forgotten[k]

(***************************************************************************)
(* What the scan says of its limit: "oldest first, so nothing starves".  A *)
(* note that is due and stays so is reminded of.                           *)
(***************************************************************************)
Waiting(n) == Candidate(n) /\ n \in mutual /\ reachable /\ KeyFree(<<n, note[n].status>>)
NothingStarves == \A n \in Notes : Waiting(n) ~> ~Waiting(n)
=============================================================================
