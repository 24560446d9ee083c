---------------------------- MODULE MembersProofs ----------------------------
(***************************************************************************)
(* Proofs about linking a chat, reminding of a note and belonging to an    *)
(* event, for any number of members, chats, notes, registrations and       *)
(* requests.                                                               *)
(***************************************************************************)
EXTENDS MCMembers, TLAPS

-----------------------------------------------------------------------------
(***************************************************************************)
(* TelegramLink.                                                           *)
(***************************************************************************)
ChallengeRecord == [st : ChallengeStates, by : Members \cup {Nobody}, web : BOOLEAN]
BindingRecord == [acct : Members \cup {Nobody}, st : {"none", "active", "revoked"}]

RowsTyped == challenge \in [Challenges -> ChallengeRecord] /\ binding \in [Chats -> BindingRecord]

LEMMA RevokedOnly ==
    ASSUME RowsTyped, NEW a
    PROVE  /\ Revoked(a) \in [Chats -> BindingRecord]
           /\ \A c \in Chats : Revoked(a)[c].st = "active" => Revoked(a)[c] = binding[c]
BY DEF RowsTyped, Revoked, BindingRecord

\* What a step does to challenges and chats: it links nothing new, or it links one chat by
\* a challenge it consumes.
NothingLinked ==
    \A c \in Chats : binding'[c].st = "active" => binding'[c] = binding[c]

LinkedBy(k) ==
    /\ Linkable(k) /\ challenge'[k].st = "consumed"
    /\ \A c \in Chats : (binding'[c].st = "active" /\ binding'[c] # binding[c]) =>
                            challenge[k].by = binding'[c].acct

LEMMA IssueTyped ==
    ASSUME RowsTyped, NEW a \in Members, NEW k \in Challenges,
           IssueChallenge(a, k) \/ WebConfirm(a, k)
    PROVE  RowsTyped' /\ NothingLinked
<1>1. UNCHANGED binding
    BY DEF IssueChallenge, WebConfirm
<1>2. PICK row \in ChallengeRecord : challenge' = [challenge EXCEPT ![k] = row]
  <2>1. CASE IssueChallenge(a, k)
    BY <2>1 DEF IssueChallenge, ChallengeRecord, ChallengeStates
  <2>2. CASE WebConfirm(a, k)
    <3>1. PICK row : row = [challenge[k] EXCEPT !.web = TRUE]
        OBVIOUS
    <3>2. row \in ChallengeRecord
        BY <3>1 DEF RowsTyped, ChallengeRecord
    <3>3. QED
        BY <2>2, <3>1, <3>2 DEF WebConfirm
  <2>3. QED
    BY <2>1, <2>2
<1>3. QED
    BY <1>1, <1>2 DEF RowsTyped, NothingLinked

LEMMA RevokeTyped ==
    ASSUME RowsTyped, UNCHANGED challenge,
           UNCHANGED binding \/ \E a : binding' = Revoked(a)
    PROVE  RowsTyped' /\ NothingLinked
BY RevokedOnly DEF RowsTyped, NothingLinked

LEMMA LinkTyped ==
    ASSUME RowsTyped, NEW h, NEW u, NEW k \in Challenges, Link(h, u, k)
    PROVE  RowsTyped' /\ (NothingLinked \/ LinkedBy(k))
<1>1. CASE UNCHANGED <<challenge, binding>>
    BY <1>1 DEF RowsTyped, NothingLinked
<1>2. CASE /\ Linkable(k)
           /\ challenge' = [challenge EXCEPT ![k].st = "consumed"]
           /\ binding' = [binding EXCEPT ![update[u].chat] =
                                    [acct |-> challenge[k].by, st |-> "active"]]
  <2>1. challenge' \in [Challenges -> ChallengeRecord] /\ challenge'[k].st = "consumed"
    BY <1>2 DEF RowsTyped, ChallengeRecord, ChallengeStates
  <2>2. PICK new : new = [acct |-> challenge[k].by, st |-> "active"]
    OBVIOUS
  <2>3. new \in BindingRecord /\ new.acct = challenge[k].by
    BY <2>2 DEF RowsTyped, ChallengeRecord, BindingRecord
  <2>4. \A c \in Chats : binding'[c] = binding[c] \/ binding'[c] = new
    BY <1>2, <2>2 DEF RowsTyped
  <2>5. binding' \in [Chats -> BindingRecord]
    BY <1>2, <2>2, <2>3 DEF RowsTyped
  <2>6. QED
    BY <1>2, <2>1, <2>3, <2>4, <2>5 DEF RowsTyped, LinkedBy
<1>3. QED
    BY <1>1, <1>2 DEF Link, StillLinkable

LEMMA LinkStep ==
    ASSUME RowsTyped, [LinkNext]_linkVars
    PROVE  RowsTyped' /\ (NothingLinked \/ \E k \in Challenges : LinkedBy(k))
<1>1. CASE UNCHANGED <<challenge, binding>>
    BY <1>1, RevokeTyped
<1>2. ASSUME NEW h \in Handlers, NEW u \in Updates, Known(h, u)
      PROVE  RowsTyped' /\ NothingLinked
  <2>1. UNCHANGED challenge /\ (UNCHANGED binding \/ binding' = Revoked(run[h].acct))
    BY <1>2 DEF Known
  <2>2. PICK a : a = run[h].acct
    OBVIOUS
  <2>3. binding' = Revoked(run[h].acct) => binding' = Revoked(a)
    BY <2>2
  <2>4. QED
    BY <2>1, <2>3, RevokeTyped
<1>3. ASSUME NEW a \in Members, Unlink(a)
      PROVE  RowsTyped' /\ NothingLinked
    BY <1>3, RevokeTyped DEF Unlink
<1>4. CASE LinkNext
  <2>1. CASE \/ \E a \in Members, k \in Challenges : IssueChallenge(a, k) \/ WebConfirm(a, k)
             \/ \E k \in Challenges : ChallengeExpires(k)
    <3>1. ASSUME NEW k \in Challenges, ChallengeExpires(k)
          PROVE  RowsTyped' /\ NothingLinked
      <4>1. PICK row : row = [challenge[k] EXCEPT !.st = "expired"]
        OBVIOUS
      <4>2. row \in ChallengeRecord
        BY <4>1 DEF RowsTyped, ChallengeRecord, ChallengeStates
      <4>3. QED
        BY <3>1, <4>1, <4>2 DEF ChallengeExpires, RowsTyped, NothingLinked
    <3>2. QED
        BY <2>1, <3>1, IssueTyped
  <2>2. CASE \E h \in Handlers, u \in Updates, k \in Challenges : Link(h, u, k)
    BY <2>2, LinkTyped
  <2>3. QED
    BY ZenonT(40), <1>1, <1>2, <1>3, <1>4, <2>1, <2>2
       DEF LinkNext, Webhook, Handle, Stranger, FinishUpdate, Die, RequeueUpdate
<1>5. QED
    BY <1>1, <1>4 DEF linkVars

(***************************************************************************)
(* A chat becomes active only by a challenge of its account, confirmed on  *)
(* the web, pending and consumed with it.                                  *)
(***************************************************************************)
THEOREM TwoSidedLinking == LinkSpec => ActivationConsumesChallenge
<1>1. LinkInit => RowsTyped
    BY DEF LinkInit, RowsTyped, ChallengeRecord, ChallengeStates, NoBinding, BindingRecord
<1>2. RowsTyped /\ [LinkNext]_linkVars => RowsTyped'
    BY LinkStep
<1>3. RowsTyped /\ [LinkNext]_linkVars =>
          [\A c \in Chats :
             (binding'[c].st = "active" /\ binding'[c] # binding[c]) =>
                 \E k \in Challenges : /\ Linkable(k) /\ challenge[k].by = binding'[c].acct
                                       /\ challenge'[k].st = "consumed"]_linkVars
    BY LinkStep DEF NothingLinked, LinkedBy
<1>4. QED
    BY <1>1, <1>2, <1>3, PTL DEF LinkSpec, ActivationConsumesChallenge

-----------------------------------------------------------------------------
(***************************************************************************)
(* FollowUp.  A job a worker holds is on file; reminders are the jobs on   *)
(* file and the deleted ones.                                              *)
(***************************************************************************)
JobsTyped ==
    /\ job \in [Keys -> ReminderStates] /\ delivery \in [Keys -> Stages]
    /\ reminders \in [Keys -> Nat] /\ forgotten \in [Keys -> Nat]

HeldOnFile == \A k \in Keys : delivery[k] # "idle" => job[k] # "none"

RemindersCounted ==
    \A k \in Keys : reminders[k] = forgotten[k] + (IF job[k] = "none" THEN 0 ELSE 1)

FollowUpInv == JobsTyped /\ HeldOnFile /\ RemindersCounted /\ OptedOutLeftAlone

\* No job comes or goes, and nobody passes the switch.
LEMMA JobsChange ==
    ASSUME FollowUpInv, job' \in [Keys -> ReminderStates], delivery' \in [Keys -> Stages],
           UNCHANGED <<reminders, forgotten>>,
           \A k \in Keys : job'[k] = "none" <=> job[k] = "none",
           \A k \in Keys : delivery'[k] # "idle" => delivery[k] # "idle" \/ job[k] # "none",
           OptedOutLeftAlone'
    PROVE  FollowUpInv'
BY DEF FollowUpInv, JobsTyped, HeldOnFile, RemindersCounted

LEMMA SameJobs ==
    ASSUME FollowUpInv, UNCHANGED <<job, delivery, late, reminders, forgotten, optIn>>
    PROVE  FollowUpInv'
BY DEF FollowUpInv, JobsTyped, HeldOnFile, RemindersCounted, OptedOutLeftAlone, PastSwitch

LEMMA SuppressedType ==
    ASSUME FollowUpInv
    PROVE  /\ Suppressed \in [Keys -> ReminderStates]
           /\ \A k \in Keys : Suppressed[k] = "none" <=> job[k] = "none"
BY DEF FollowUpInv, JobsTyped, Suppressed, ReminderStates

LEMMA SwitchInv ==
    ASSUME FollowUpInv, OptOut \/ OptBackIn \/ CloseChannel \/ ReopenChannel
                        \/ WithdrawConsent \/ SuppressWithdrawn
    PROVE  FollowUpInv'
<1>1. CASE OptOut
    BY <1>1, SuppressedType, JobsChange
       DEF OptOut, OptedOutLeftAlone, PastSwitch, FollowUpInv, JobsTyped
<1>2. CASE OptBackIn
    BY <1>2, JobsChange DEF OptBackIn, OptedOutLeftAlone, FollowUpInv, JobsTyped
<1>3. CASE CloseChannel \/ SuppressWithdrawn
    BY <1>3, SuppressedType, JobsChange
       DEF CloseChannel, SuppressWithdrawn, history, OptedOutLeftAlone, PastSwitch, FollowUpInv, JobsTyped
<1>4. CASE ReopenChannel \/ WithdrawConsent
    BY <1>4, SameJobs DEF ReopenChannel, WithdrawConsent, history
<1>5. QED
    BY <1>1, <1>2, <1>3, <1>4

LEMMA EnqueueReminderInv ==
    ASSUME FollowUpInv, NEW t, NEW k \in Keys, EnqueueReminder(t, k)
    PROVE  FollowUpInv'
<1>1. CASE UNCHANGED <<job, reminders>>
    BY <1>1, SameJobs DEF EnqueueReminder
<1>2. CASE /\ job[k] = "none"
           /\ job' = [job EXCEPT ![k] = "pending"]
           /\ reminders' = [reminders EXCEPT ![k] = reminders[k] + 1]
  <2>1. UNCHANGED <<delivery, late, forgotten, optIn>>
    BY DEF EnqueueReminder
  <2>2. \A j \in Keys : job'[j] = IF j = k THEN "pending" ELSE job[j]
    BY <1>2 DEF FollowUpInv, JobsTyped
  <2>3. \A j \in Keys : reminders'[j] = IF j = k THEN reminders[j] + 1 ELSE reminders[j]
    BY <1>2 DEF FollowUpInv, JobsTyped
  <2>4. JobsTyped' /\ HeldOnFile'
    BY <1>2, <2>1, <2>2 DEF FollowUpInv, JobsTyped, HeldOnFile, ReminderStates
  <2>5. RemindersCounted'
    BY <1>2, <2>1, <2>2, <2>3 DEF FollowUpInv, JobsTyped, RemindersCounted
  <2>6. OptedOutLeftAlone'
    BY <2>1 DEF FollowUpInv, OptedOutLeftAlone, PastSwitch
  <2>7. QED
    BY <2>4, <2>5, <2>6 DEF FollowUpInv
<1>3. QED
    BY <1>1, <1>2 DEF EnqueueReminder, KeyFree

LEMMA ForgetJobInv ==
    ASSUME FollowUpInv, NEW k \in Keys, ForgetJob(k)
    PROVE  FollowUpInv'
<1>1. job[k] # "none" /\ delivery[k] = "idle" /\ job' = [job EXCEPT ![k] = "none"]
      /\ forgotten' = [forgotten EXCEPT ![k] = forgotten[k] + 1]
      /\ UNCHANGED <<delivery, late, reminders, optIn>>
    BY DEF ForgetJob
<1>2. \A j \in Keys : job'[j] = IF j = k THEN "none" ELSE job[j]
    BY <1>1 DEF FollowUpInv, JobsTyped
<1>3. \A j \in Keys : forgotten'[j] = IF j = k THEN forgotten[j] + 1 ELSE forgotten[j]
    BY <1>1 DEF FollowUpInv, JobsTyped
<1>4. JobsTyped' /\ HeldOnFile'
    BY <1>1, <1>2 DEF FollowUpInv, JobsTyped, HeldOnFile, ReminderStates
<1>5. RemindersCounted'
    BY <1>1, <1>2, <1>3 DEF FollowUpInv, JobsTyped, RemindersCounted
<1>6. OptedOutLeftAlone'
    BY <1>1 DEF FollowUpInv, OptedOutLeftAlone, PastSwitch
<1>7. QED
    BY <1>4, <1>5, <1>6 DEF FollowUpInv

\* A worker's step on the job it holds, or takes: it passes the switch only while it is on.
LEMMA DeliveryInv ==
    ASSUME FollowUpInv, NEW k \in Keys, NEW st \in ReminderStates \ {"none"}, NEW to \in Stages,
           job[k] # "none", job' = [job EXCEPT ![k] = st], delivery' = [delivery EXCEPT ![k] = to],
           UNCHANGED <<optIn, late, reminders, forgotten>>,
           to \in {"opted in", "cleared"} => optIn \/ delivery[k] \in {"opted in", "cleared"}
    PROVE  FollowUpInv'
<1>1. \A j \in Keys : job'[j] = "none" <=> job[j] = "none"
    BY DEF FollowUpInv, JobsTyped
<1>2. OptedOutLeftAlone'
    BY DEF FollowUpInv, JobsTyped, OptedOutLeftAlone, PastSwitch
<1>3. job' \in [Keys -> ReminderStates] /\ delivery' \in [Keys -> Stages]
    BY DEF FollowUpInv, JobsTyped
<1>4. \A j \in Keys : delivery'[j] # "idle" => delivery[j] # "idle" \/ job[j] # "none"
    BY DEF FollowUpInv, JobsTyped
<1>5. QED
    BY <1>1, <1>2, <1>3, <1>4, JobsChange

LEMMA WorkerInv ==
    ASSUME FollowUpInv, NEW k \in Keys,
           Claim(k) \/ CheckSwitch(k) \/ CheckChannel(k) \/ Send(k)
    PROVE  FollowUpInv'
<1>0. job[k] \in ReminderStates
    BY DEF FollowUpInv, JobsTyped
<1>1. CASE Claim(k)
    BY <1>1, DeliveryInv DEF Claim, history, ReminderStates, Stages
<1>2. CASE CheckSwitch(k)
  <2>1. CASE optIn
    <3>1. job' = [job EXCEPT ![k] = job[k]] /\ delivery' = [delivery EXCEPT ![k] = "opted in"]
          /\ UNCHANGED <<optIn, late, reminders, forgotten>> /\ delivery[k] = "claimed"
        BY <1>2, <2>1 DEF CheckSwitch, StillOptedIn, Gate, history
    <3>2. job[k] # "none"
        BY <3>1 DEF FollowUpInv, HeldOnFile
    <3>3. QED
        BY <1>0, <2>1, <3>1, <3>2, DeliveryInv DEF Stages
  <2>2. CASE ~optIn
    <3>1. job' = [job EXCEPT ![k] = "suppressed"] /\ delivery' = [delivery EXCEPT ![k] = "idle"]
          /\ UNCHANGED <<optIn, late, reminders, forgotten>> /\ delivery[k] = "claimed"
        BY <1>2, <2>2 DEF CheckSwitch, StillOptedIn, Gate, history
    <3>2. job[k] # "none"
        BY <3>1 DEF FollowUpInv, HeldOnFile
    <3>3. QED
        BY <3>1, <3>2, DeliveryInv DEF Stages, ReminderStates
  <2>3. QED
    BY <2>1, <2>2
<1>3. CASE CheckChannel(k)
  <2>1. delivery[k] = "opted in" /\ job[k] # "none"
    BY <1>3 DEF CheckChannel, Gate, FollowUpInv, HeldOnFile
  <2>2. CASE reachable
    <3>1. job' = [job EXCEPT ![k] = job[k]] /\ delivery' = [delivery EXCEPT ![k] = "cleared"]
          /\ UNCHANGED <<optIn, late, reminders, forgotten>>
        BY <1>3, <2>2 DEF CheckChannel, Gate, history
    <3>2. QED
        BY <1>0, <2>1, <3>1, DeliveryInv DEF Stages
  <2>3. CASE ~reachable
    <3>1. job' = [job EXCEPT ![k] = "suppressed"] /\ delivery' = [delivery EXCEPT ![k] = "idle"]
          /\ UNCHANGED <<optIn, late, reminders, forgotten>>
        BY <1>3, <2>3 DEF CheckChannel, Gate, history
    <3>2. QED
        BY <2>1, <3>1, DeliveryInv DEF Stages, ReminderStates
  <2>4. QED
    BY <2>2, <2>3
<1>4. CASE Send(k)
  <2>1. job[k] # "none" /\ delivery' = [delivery EXCEPT ![k] = "idle"]
        /\ UNCHANGED <<optIn, late, reminders, forgotten>>
    BY <1>4 DEF Send, history, FollowUpInv, HeldOnFile
  <2>2. PICK st : st = IF job[k] = "leased" THEN "sent" ELSE job[k]
    OBVIOUS
  <2>3. job' = [job EXCEPT ![k] = st] /\ st \in ReminderStates \ {"none"}
    BY <1>0, <1>4, <2>1, <2>2 DEF Send, ReminderStates
  <2>4. QED
    BY <2>1, <2>3, DeliveryInv DEF Stages
<1>5. QED
    BY <1>1, <1>2, <1>3, <1>4

LEMMA FollowUpStep == FollowUpInv /\ [FollowUpNext]_followUpVars => FollowUpInv'
<1> SUFFICES ASSUME FollowUpInv, [FollowUpNext]_followUpVars PROVE FollowUpInv'
    OBVIOUS
<1>1. CASE UNCHANGED <<job, delivery, late, reminders, forgotten, optIn>>
    BY <1>1, SameJobs
<1>2. CASE FollowUpNext
    BY <1>1, <1>2, SwitchInv, EnqueueReminderInv, ForgetJobInv, WorkerInv
       DEF FollowUpNext, SaveNote, Ages, Meet, Scan, ScanFails, Reach, history
<1>3. QED
    BY <1>1, <1>2 DEF followUpVars

LEMMA InitFollowUp == FollowUpInit => FollowUpInv
BY DEF FollowUpInit, FollowUpInv, JobsTyped, HeldOnFile, RemindersCounted, OptedOutLeftAlone,
       ReminderStates, Stages

(***************************************************************************)
(* After the member has opted out nothing is sent but what a worker had    *)
(* already found allowed.                                                  *)
(***************************************************************************)
THEOREM OptOutHolds == FollowUpSpec => []OptedOutLeftAlone
<1>1. FollowUpInv => OptedOutLeftAlone
    BY DEF FollowUpInv
<1>2. QED
    BY <1>1, InitFollowUp, FollowUpStep, PTL DEF FollowUpSpec

(***************************************************************************)
(* A step is reminded of once as long as its job is on file.               *)
(***************************************************************************)
THEOREM RemindedOnce == FollowUpSpec => []OneReminderOnFile
<1>1. FollowUpInv => OneReminderOnFile
    BY DEF FollowUpInv, JobsTyped, RemindersCounted, OneReminderOnFile
<1>2. QED
    BY <1>1, InitFollowUp, FollowUpStep, PTL DEF FollowUpSpec

-----------------------------------------------------------------------------
(***************************************************************************)
(* Membership.                                                             *)
(***************************************************************************)
MemberRecord == [st : {"none", "active", "left"}, visible : BOOLEAN,
                 guest : Registrations \cup {NoGuest}]
GuestRecord == [st : {"none", "unclaimed", "claimed"}, email : People \cup {NoOne}]

InviteRecord == [st : {"none", "open", "spent", "gone"}, guest : Registrations \cup {NoGuest}]
CallRecord == [phase : CallPhases, by : People \cup {NoOne}, st : {"none", "active", "left"},
               visible : BOOLEAN, invite : SUBSET Invites]

\* A link that is open names a registration.
OpenNamed == \A i \in Invites : invite[i].st = "open" => invite[i].guest \in Registrations

MembershipInv == MembershipTypeOK /\ OpenNamed /\ RegistrationBoundOnce

LEMMA MembershipTypes ==
    ASSUME MembershipInv
    PROVE  /\ member \in [People -> MemberRecord] /\ guest \in [Registrations -> GuestRecord]
           /\ invite \in [Invites -> InviteRecord] /\ call \in [Calls -> CallRecord]
           /\ account \in [People -> {"active", "deleting", "purged"}] /\ ended \in BOOLEAN
           /\ sweep \in {"idle", "challenges deleted"}
BY DEF MembershipInv, MembershipTypeOK, MemberRecord, GuestRecord, InviteRecord, CallRecord

LEMMA NothingType ==
    NoMember \in MemberRecord /\ NotListed \in GuestRecord /\ NoCall \in CallRecord
BY DEF NoMember, NotListed, NoCall, MemberRecord, GuestRecord, CallRecord, CallPhases

LEMMA RevivedType ==
    ASSUME NEW m \in MemberRecord
    PROVE  /\ Revived(m) \in MemberRecord /\ Revived(m).st = "active"
           /\ m.st # "none" => Revived(m).guest = m.guest
           /\ m.st = "none" => Revived(m).guest = NoGuest
BY NothingType DEF Revived, MemberRecord, NoMember

(***************************************************************************)
(* Most steps bind nobody to a registration and take back no claim.        *)
(***************************************************************************)
LEMMA BindsNobody ==
    ASSUME MembershipInv, MembershipTypeOK', OpenNamed',
           \A p \in People : member'[p].guest = member[p].guest \/ member'[p].guest = NoGuest,
           \A g \in Registrations : guest[g].st = "claimed" => guest'[g].st = "claimed"
    PROVE  MembershipInv'
<1>1. RegistrationBoundOnce'
  <2>1. SUFFICES ASSUME NEW p \in People, member'[p].guest # NoGuest
                 PROVE  /\ guest'[member'[p].guest].st = "claimed"
                        /\ \A q \in People \ {p} : member'[q].guest # member'[p].guest
    BY DEF RegistrationBoundOnce
  <2>2. member'[p].guest = member[p].guest /\ member[p].guest \in Registrations
    BY <2>1, MembershipTypes DEF MemberRecord
  <2>3. QED
    BY <2>1, <2>2 DEF MembershipInv, RegistrationBoundOnce
<1>2. QED
    BY <1>1 DEF MembershipInv

\* A request reads, or hangs up, and changes no list.
LEMMA CallChanges ==
    ASSUME MembershipInv, NEW c \in Calls, NEW s \in CallRecord, call' = [call EXCEPT ![c] = s],
           UNCHANGED <<member, guest, invite, account, ended, sweep>>
    PROVE  MembershipInv'
<1>1. call' \in [Calls -> CallRecord]
    BY MembershipTypes
<1>2. MembershipTypeOK'
    BY <1>1 DEF MembershipInv, MembershipTypeOK, CallRecord
<1>3. OpenNamed'
    BY DEF MembershipInv, OpenNamed
<1>4. QED
    BY <1>2, <1>3, BindsNobody

LEMMA JoinInv ==
    ASSUME MembershipInv, NEW c \in Calls, NEW p \in People, Join(c, p)
    PROVE  MembershipInv' /\ UNCHANGED member
<1>1. PICK s : s = [call[c] EXCEPT !.phase = "joining", !.by = p]
    OBVIOUS
<1>2. s \in CallRecord
    BY <1>1, MembershipTypes DEF CallRecord, CallPhases
<1>3. QED
    BY ZenonT(40), <1>1, <1>2, CallChanges DEF Join

LEMMA PatchReadInv ==
    ASSUME MembershipInv, NEW c \in Calls, NEW p \in People, PatchRead(c, p)
    PROVE  MembershipInv' /\ UNCHANGED member
<1>1. PICK s : s = [NoCall EXCEPT !.phase = "patching", !.by = p, !.st = member[p].st,
                                  !.visible = member[p].visible]
    OBVIOUS
<1>2. member[p].st \in {"none", "active", "left"} /\ member[p].visible \in BOOLEAN
    BY MembershipTypes DEF MemberRecord
<1>3. s \in CallRecord
    BY <1>1, <1>2, NothingType DEF CallRecord, CallPhases
<1>4. QED
    BY <1>1, <1>3, CallChanges DEF PatchRead

LEMMA ClaimReadInv ==
    ASSUME MembershipInv, NEW c \in Calls, NEW p \in People, NEW i \in Invites,
           ClaimRead(c, p, i)
    PROVE  MembershipInv' /\ UNCHANGED member
<1>1. PICK s : s = [call[c] EXCEPT !.phase = "claiming", !.by = p, !.invite = {i}]
    OBVIOUS
<1>2. s \in CallRecord
    BY <1>1, MembershipTypes DEF CallRecord, CallPhases
<1>3. /\ call' = [call EXCEPT ![c].phase = "claiming", ![c].by = p, ![c].invite = {i}]
      /\ UNCHANGED <<member, guest, invite, account, ended, sweep>>
    BY DEF ClaimRead
<1>4. call' = [call EXCEPT ![c] = s]
    BY <1>1, <1>3, MembershipTypes
<1>5. QED
    BY <1>2, <1>3, <1>4, CallChanges

\* A request writes one membership and hangs up.
LEMMA MemberWritten ==
    ASSUME MembershipInv, NEW c \in Calls, NEW p, NEW row,
           member' = [member EXCEPT ![p] = row],
           p \in People => row \in MemberRecord /\ row.guest \in {member[p].guest, NoGuest},
           Hang(c), UNCHANGED <<guest, invite, account, ended, sweep>>
    PROVE  MembershipInv'
<1>1. call' \in [Calls -> CallRecord]
    BY NothingType, MembershipTypes DEF Hang
<1>2. member' \in [People -> MemberRecord]
      /\ \A q \in People : member'[q] = IF q = p THEN row ELSE member[q]
    BY MembershipTypes
<1>3. MembershipTypeOK'
    BY <1>1, <1>2 DEF MembershipInv, MembershipTypeOK, CallRecord, MemberRecord
<1>4. OpenNamed'
    BY DEF MembershipInv, OpenNamed
<1>5. QED
    BY <1>2, <1>3, <1>4, BindsNobody

LEMMA WritesInv ==
    ASSUME MembershipInv, NEW c \in Calls,
           JoinEvent(c) \/ \E wish \in Wishes, leave \in BOOLEAN : PatchWrite(c, wish, leave)
    PROVE  MembershipInv' /\ \A q \in People : member[q].st = "active" =>
                                 member'[q].guest = member[q].guest
<1>1. PICK p : p = call[c].by
    OBVIOUS
<1>2. CASE JoinEvent(c)
  <2>1. PICK row : row = Revived(member[p])
    OBVIOUS
  <2>2. member' = [member EXCEPT ![p] = row] /\ Hang(c)
        /\ UNCHANGED <<guest, invite, account, ended, sweep>>
    BY <1>1, <1>2, <2>1 DEF JoinEvent
  <2>3. p \in People => /\ row \in MemberRecord /\ row.guest \in {member[p].guest, NoGuest}
                        /\ member[p].st # "none" => row.guest = member[p].guest
    BY <2>1, RevivedType, MembershipTypes
  <2>4. \A q \in People : member'[q] = IF q = p THEN row ELSE member[q]
    BY <2>2, MembershipTypes
  <2>5. QED
    BY <2>2, <2>3, <2>4, MemberWritten
<1>3. ASSUME NEW wish \in Wishes, NEW leave \in BOOLEAN, PatchWrite(c, wish, leave)
      PROVE  MembershipInv' /\ \A q \in People : member'[q].guest = member[q].guest
  <2>1. PICK st : st = IF leave THEN "left" ELSE call[c].st
    OBVIOUS
  <2>2. PICK row : row = [member[p] EXCEPT !.st = st, !.visible = Shown(c, wish)]
    OBVIOUS
  <2>3. st \in {"none", "active", "left"} /\ Shown(c, wish) \in BOOLEAN
    BY <2>1, MembershipTypes DEF CallRecord, Shown
  <2>4. p \in People => row \in MemberRecord /\ row.guest = member[p].guest
    BY <2>2, <2>3, MembershipTypes DEF MemberRecord
  <2>5. member' = [member EXCEPT ![p] = row] /\ Hang(c)
        /\ UNCHANGED <<guest, invite, account, ended, sweep>>
    BY <1>1, <1>3, <2>1, <2>2 DEF PatchWrite
  <2>6. \A q \in People : member'[q] = IF q = p THEN row ELSE member[q]
    BY <2>5, MembershipTypes
  <2>7. QED
    BY <2>4, <2>5, <2>6, MemberWritten
<1>4. QED
    BY <1>2, <1>3

\* The organizer's steps and time.
LEMMA OrganizerInv ==
    ASSUME MembershipInv,
           \/ \E g \in Registrations, email \in People \cup {NoOne} : Import(g, email)
           \/ \E i \in Invites, g \in Registrations : Invite(i, g)
           \/ \E i \in Invites : InviteLapses(i)
           \/ EventEnds
    PROVE  MembershipInv' /\ UNCHANGED member
<1>1. ASSUME NEW g \in Registrations, NEW email \in People \cup {NoOne}, Import(g, email)
      PROVE  MembershipInv' /\ UNCHANGED member
  <2>1. PICK row : row = [st |-> IF guest[g].st = "none" THEN "unclaimed" ELSE guest[g].st,
                          email |-> IF email = NoOne THEN guest[g].email ELSE email]
    OBVIOUS
  <2>2. guest' = [guest EXCEPT ![g] = row]
        /\ UNCHANGED <<member, invite, account, ended, call, sweep>>
    BY <1>1, <2>1 DEF Import
  <2>3. row \in GuestRecord /\ (guest[g].st = "claimed" => row.st = "claimed")
    BY <2>1, MembershipTypes DEF GuestRecord
  <2>4. guest' \in [Registrations -> GuestRecord]
        /\ \A h \in Registrations : guest[h].st = "claimed" => guest'[h].st = "claimed"
    BY <2>2, <2>3, MembershipTypes
  <2>5. MembershipTypeOK' /\ OpenNamed'
    BY <2>2, <2>4 DEF MembershipInv, MembershipTypeOK, OpenNamed, GuestRecord
  <2>6. QED
    BY <2>2, <2>4, <2>5, BindsNobody
<1>2. ASSUME NEW i \in Invites, NEW row \in InviteRecord, invite' = [invite EXCEPT ![i] = row],
             row.st = "open" => row.guest \in Registrations,
             UNCHANGED <<member, guest, account, ended, call, sweep>>
      PROVE  MembershipInv'
  <2>1. invite' \in [Invites -> InviteRecord]
        /\ \A j \in Invites : invite'[j] = IF j = i THEN row ELSE invite[j]
    BY <1>2, MembershipTypes
  <2>2. MembershipTypeOK' /\ OpenNamed'
    BY ZenonT(40), <1>2, <2>1 DEF MembershipInv, MembershipTypeOK, OpenNamed, InviteRecord
  <2>3. QED
    BY <1>2, <2>2, BindsNobody
<1>3. ASSUME NEW i \in Invites, NEW g \in Registrations, Invite(i, g)
      PROVE  MembershipInv' /\ UNCHANGED member
  <2>1. PICK row : row = [st |-> "open", guest |-> g]
    OBVIOUS
  <2>2. row \in InviteRecord /\ row.guest \in Registrations
    BY <2>1 DEF InviteRecord
  <2>3. QED
    BY <1>2, <1>3, <2>1, <2>2 DEF Invite
<1>4. ASSUME NEW i \in Invites, InviteLapses(i)
      PROVE  MembershipInv' /\ UNCHANGED member
  <2>1. PICK row : row = [invite[i] EXCEPT !.st = "spent"]
    OBVIOUS
  <2>2. row \in InviteRecord /\ row.st = "spent"
    BY <2>1, MembershipTypes DEF InviteRecord
  <2>3. QED
    BY <1>2, <1>4, <2>1, <2>2 DEF InviteLapses
<1>5. CASE EventEnds
    BY <1>5, BindsNobody DEF EventEnds, MembershipInv, MembershipTypeOK, OpenNamed
<1>6. QED
    BY <1>1, <1>3, <1>4, <1>5

(***************************************************************************)
(* The claim: the registration is unclaimed until this step, so that no    *)
(* membership names it.                                                    *)
(***************************************************************************)
LEMMA ClaimCommitInv ==
    ASSUME MembershipInv, NEW c \in Calls, NEW i \in Invites, ClaimCommit(c, i)
    PROVE  MembershipInv' /\ \A q \in People : member[q].st = "active" =>
                                 member'[q].guest = member[q].guest
<1>1. call' \in [Calls -> CallRecord] /\ UNCHANGED <<account, ended, sweep>>
    BY NothingType, MembershipTypes DEF ClaimCommit, Hang
<1>2. CASE UNCHANGED <<invite, guest, member>>
  <2>1. MembershipTypeOK' /\ OpenNamed'
    BY <1>1, <1>2 DEF MembershipInv, MembershipTypeOK, OpenNamed, CallRecord
  <2>2. QED
    BY <1>2, <2>1, BindsNobody
<1>3. PICK spent : spent = [invite[i] EXCEPT !.st = "spent"]
    OBVIOUS
<1>4. spent \in InviteRecord /\ spent.st = "spent"
    BY <1>3, MembershipTypes DEF InviteRecord
<1>5. ASSUME invite' = [invite EXCEPT ![i].st = "spent"]
      PROVE  /\ invite' \in [Invites -> InviteRecord] /\ OpenNamed'
  <2>1. invite' = [invite EXCEPT ![i] = spent]
    BY <1>3, <1>5
  <2>2. QED
    BY <1>4, <2>1, MembershipTypes DEF MembershipInv, OpenNamed
<1>6. CASE invite' = [invite EXCEPT ![i].st = "spent"] /\ UNCHANGED <<guest, member>>
  <2>1. MembershipTypeOK'
    BY <1>1, <1>5, <1>6 DEF MembershipInv, MembershipTypeOK, CallRecord, InviteRecord
  <2>2. QED
    BY <1>5, <1>6, <2>1, BindsNobody
<1>7. PICK g : g = invite[i].guest
    OBVIOUS
<1>8. PICK p : p = call[c].by
    OBVIOUS
<1>9. CASE /\ StillOpen(i) /\ StillUnclaimed(g)
           /\ invite' = [invite EXCEPT ![i].st = "spent"]
           /\ guest' = [guest EXCEPT ![g].st = "claimed"]
           /\ member' = [member EXCEPT ![p] = Bound(member[p], g)]
  <2>1. g \in Registrations /\ guest[g].st = "unclaimed"
    BY <1>7, <1>9 DEF StillOpen, StillUnclaimed, MembershipInv, OpenNamed
  <2>2. \A q \in People : member[q].guest # NoGuest => member[q].guest # g
    BY <2>1 DEF MembershipInv, RegistrationBoundOnce
  <2>3. PICK claimed : claimed = [guest[g] EXCEPT !.st = "claimed"]
    OBVIOUS
  <2>4. claimed \in GuestRecord /\ claimed.st = "claimed"
    BY <2>1, <2>3, MembershipTypes DEF GuestRecord
  <2>5. guest' \in [Registrations -> GuestRecord]
        /\ \A h \in Registrations : guest'[h] = IF h = g THEN claimed ELSE guest[h]
    BY <1>9, <2>3, <2>4, MembershipTypes
  <2>6. PICK row : row = Bound(member[p], g)
    OBVIOUS
  <2>7. p \in People => /\ row \in MemberRecord
                        /\ row.guest = member[p].guest \/ row.guest = g
                        /\ member[p].st = "active" => row = member[p]
    <3>1. ASSUME p \in People, member[p].st # "active"
          PROVE  row \in MemberRecord /\ row.guest = g
      <4>1. PICK r : r = Revived(member[p])
        OBVIOUS
      <4>2. r \in MemberRecord
        BY <3>1, <4>1, RevivedType, MembershipTypes
      <4>3. row = [r EXCEPT !.guest = g]
        BY <2>6, <3>1, <4>1 DEF Bound
      <4>4. QED
        BY <2>1, <4>2, <4>3 DEF MemberRecord
    <3>2. QED
        BY <2>6, <3>1, MembershipTypes DEF Bound
  <2>8. member' \in [People -> MemberRecord]
        /\ \A q \in People : member'[q] = IF q = p THEN row ELSE member[q]
    BY <1>9, <2>6, <2>7, MembershipTypes
  <2>9. MembershipTypeOK'
    BY <1>1, <1>5, <1>9, <2>5, <2>8
       DEF MembershipInv, MembershipTypeOK, CallRecord, InviteRecord, GuestRecord, MemberRecord
  <2>10. RegistrationBoundOnce'
    <3>1. SUFFICES ASSUME NEW q \in People, member'[q].guest # NoGuest
                   PROVE  /\ guest'[member'[q].guest].st = "claimed"
                          /\ \A t \in People \ {q} : member'[t].guest # member'[q].guest
        BY DEF RegistrationBoundOnce
    <3>2. member'[q].guest \in Registrations
        BY <2>8, <3>1 DEF MemberRecord
    <3>3. \A t \in People :
          (member'[t].guest = member[t].guest) \/ (t = p /\ member'[t].guest = g)
      <4>1. TAKE t \in People
      <4>2. CASE t = p
        <5>1. t \in People /\ member'[t] = row
          BY <2>8, <4>2
        <5>2. QED
          BY <2>7, <4>2, <5>1
      <4>3. CASE t # p
          BY <2>8, <4>3
      <4>4. QED
          BY <4>2, <4>3
    <3>4. CASE member'[q].guest = member[q].guest
        BY <2>2, <2>4, <2>5, <3>1, <3>2, <3>3, <3>4 DEF MembershipInv, RegistrationBoundOnce
    <3>5. CASE q = p /\ member'[q].guest = g
        BY <2>1, <2>2, <2>4, <2>5, <3>1, <3>3, <3>5
    <3>6. QED
        BY <3>3, <3>4, <3>5
  <2>11. QED
    BY <1>5, <1>9, <2>7, <2>8, <2>9, <2>10 DEF MembershipInv
<1>10. QED
    BY <1>2, <1>6, <1>7, <1>8, <1>9 DEF ClaimCommit

-----------------------------------------------------------------------------
LEMMA SweepInv ==
    ASSUME MembershipInv, SweepInvites \/ SweepGuests
    PROVE  MembershipInv' /\ \A q \in People : member[q].guest # NoGuest =>
                                 member'[q].guest = member[q].guest
<1>1. CASE SweepInvites
  <2>1. PICK gone : gone = [st |-> "gone", guest |-> NoGuest]
    OBVIOUS
  <2>2. gone \in InviteRecord /\ gone.st = "gone"
    BY <2>1 DEF InviteRecord
  <2>3. invite' = [i \in Invites |-> IF invite[i].guest \in Unclaimed THEN gone ELSE invite[i]]
        /\ UNCHANGED <<member, guest, account, ended, call>> /\ sweep' = "challenges deleted"
    BY <1>1, <2>1 DEF SweepInvites
  <2>4. invite' \in [Invites -> InviteRecord] /\ OpenNamed'
    BY <2>2, <2>3, MembershipTypes DEF MembershipInv, OpenNamed
  <2>5. MembershipTypeOK'
    BY <2>3, <2>4 DEF MembershipInv, MembershipTypeOK, InviteRecord
  <2>6. QED
    BY <2>3, <2>4, <2>5, BindsNobody
<1>2. CASE SweepGuests
  <2>1. UNCHANGED <<invite, account, ended, call>> /\ sweep' = "idle"
    BY <1>2 DEF SweepGuests
  <2>2. \A q \in People : member[q].guest # NoGuest => member[q].guest \notin Unclaimed
    BY DEF Unclaimed, MembershipInv, RegistrationBoundOnce
  <2>3. CASE UNCHANGED <<guest, member>>
    <3>1. MembershipTypeOK' /\ OpenNamed'
        BY <2>1, <2>3 DEF MembershipInv, MembershipTypeOK, OpenNamed
    <3>2. QED
        BY <2>3, <3>1, BindsNobody
  <2>4. CASE /\ guest' = [g \in Registrations |-> IF g \in Unclaimed THEN NotListed ELSE guest[g]]
             /\ member' = [p \in People |-> IF member[p].guest \in Unclaimed
                                            THEN [member[p] EXCEPT !.guest = NoGuest]
                                            ELSE member[p]]
    <3>1. guest' \in [Registrations -> GuestRecord]
          /\ \A g \in Registrations : guest[g].st = "claimed" => guest'[g].st = "claimed"
        BY <2>4, NothingType, MembershipTypes DEF Unclaimed
    <3>2. member' \in [People -> MemberRecord]
          /\ \A q \in People : member'[q].guest = member[q].guest \/ member'[q].guest = NoGuest
        BY <2>4, MembershipTypes DEF MemberRecord
    <3>3. MembershipTypeOK' /\ OpenNamed'
        BY <2>1, <3>1, <3>2
           DEF MembershipInv, MembershipTypeOK, OpenNamed, GuestRecord, MemberRecord
    <3>4. \A q \in People : member[q].guest # NoGuest => member'[q] = member[q]
        BY <2>2, <2>4
    <3>5. QED
        BY <3>1, <3>2, <3>3, <3>4, BindsNobody
  <2>5. QED
    BY <1>2, <2>3, <2>4 DEF SweepGuests
<1>3. QED
    BY <1>1, <1>2

LEMMA PurgeInv ==
    ASSUME MembershipInv, NEW p \in People, DeleteAccount(p) \/ Purge(p)
    PROVE  MembershipInv' /\ \A q \in People : member'[q].guest = member[q].guest
                                               \/ account'[q] = "purged"
<1>1. CASE DeleteAccount(p)
  <2>1. account' \in [People -> {"active", "deleting", "purged"}]
        /\ UNCHANGED <<member, guest, invite, ended, call, sweep>>
    BY <1>1, MembershipTypes DEF DeleteAccount
  <2>2. MembershipTypeOK' /\ OpenNamed'
    BY <2>1 DEF MembershipInv, MembershipTypeOK, OpenNamed
  <2>3. QED
    BY <2>1, <2>2, BindsNobody
<1>2. CASE Purge(p)
  <2>1. account' = [account EXCEPT ![p] = "purged"] /\ UNCHANGED <<invite, ended, call, sweep>>
        /\ member' = [member EXCEPT ![p] = NoMember]
        /\ guest' = [g \in Registrations |-> IF g \in Given(p)
                                 THEN [guest[g] EXCEPT !.st = "unclaimed"] ELSE guest[g]]
    BY <1>2 DEF Purge
  <2>2. member' \in [People -> MemberRecord]
        /\ \A q \in People : member'[q] = IF q = p THEN NoMember ELSE member[q]
    BY <2>1, NothingType, MembershipTypes
  <2>3. guest' \in [Registrations -> GuestRecord]
        /\ \A g \in Registrations : g # member[p].guest => guest'[g] = guest[g]
    BY <2>1, MembershipTypes DEF GuestRecord, Given
  <2>4. account' \in [People -> {"active", "deleting", "purged"}] /\ account'[p] = "purged"
    BY <2>1, MembershipTypes
  <2>5. MembershipTypeOK' /\ OpenNamed'
    BY <2>1, <2>2, <2>3, <2>4
       DEF MembershipInv, MembershipTypeOK, OpenNamed, GuestRecord, MemberRecord
  <2>6. RegistrationBoundOnce'
    <3>1. SUFFICES ASSUME NEW q \in People, member'[q].guest # NoGuest
                   PROVE  /\ guest'[member'[q].guest].st = "claimed"
                          /\ \A t \in People \ {q} : member'[t].guest # member'[q].guest
        BY DEF RegistrationBoundOnce
    <3>2. NoMember.guest = NoGuest
        BY DEF NoMember
    <3>3. q # p /\ member'[q] = member[q] /\ member[q].guest \in Registrations
        BY <2>2, <3>1, <3>2, MembershipTypes DEF MemberRecord
    <3>4. member[q].guest # member[p].guest /\ guest[member[q].guest].st = "claimed"
        BY <3>1, <3>3 DEF MembershipInv, RegistrationBoundOnce
    <3>5. QED
        BY <2>2, <2>3, <3>1, <3>2, <3>3, <3>4 DEF MembershipInv, RegistrationBoundOnce
  <2>7. QED
    BY <2>2, <2>4, <2>5, <2>6 DEF MembershipInv
<1>3. QED
    BY <1>1, <1>2

LEMMA InitMembership == MembershipInit => MembershipInv
<1> SUFFICES ASSUME MembershipInit PROVE MembershipInv
    OBVIOUS
<1>1. MembershipTypeOK
    BY NothingType DEF MembershipInit, MembershipTypeOK, MemberRecord, GuestRecord, CallRecord
<1>2. OpenNamed /\ RegistrationBoundOnce
    BY DEF MembershipInit, OpenNamed, RegistrationBoundOnce, NoMember
<1>3. QED
    BY <1>1, <1>2 DEF MembershipInv

LEMMA MembershipStep ==
    ASSUME MembershipInv, [MembershipNext]_memberVars
    PROVE  /\ MembershipInv'
           /\ \A p \in People : (member[p].st = "active" /\ member[p].guest # NoGuest) =>
                                 \/ member'[p].guest = member[p].guest
                                 \/ account'[p] = "purged"
<1>1. CASE UNCHANGED memberVars
  <2>1. MembershipTypeOK' /\ OpenNamed'
    BY <1>1 DEF memberVars, MembershipInv, MembershipTypeOK, OpenNamed
  <2>2. QED
    BY <1>1, <2>1, BindsNobody DEF memberVars
<1>2. CASE MembershipNext
    BY <1>2, JoinInv, PatchReadInv, ClaimReadInv, WritesInv, OrganizerInv, ClaimCommitInv,
       SweepInv, PurgeInv DEF MembershipNext
<1>3. QED
    BY <1>1, <1>2

(***************************************************************************)
(* A registration stands behind one membership at most and counts as       *)
(* claimed as long as it does.                                             *)
(***************************************************************************)
THEOREM OneMemberPerRegistration == MembershipSpec => []RegistrationBoundOnce
<1>1. MembershipInv => RegistrationBoundOnce
    BY DEF MembershipInv
<1>2. MembershipInv /\ [MembershipNext]_memberVars => MembershipInv'
    BY MembershipStep
<1>3. QED
    BY <1>1, <1>2, InitMembership, PTL DEF MembershipSpec

(***************************************************************************)
(* An active member keeps the registration until the account is purged.    *)
(***************************************************************************)
THEOREM RegistrationKept == MembershipSpec => BoundUntilPurged
<1>1. MembershipInv /\ [MembershipNext]_memberVars => MembershipInv'
    BY MembershipStep
<1>2. MembershipInv /\ [MembershipNext]_memberVars =>
          [\A p \in People : (member[p].st = "active" /\ member[p].guest # NoGuest) =>
              \/ member'[p].guest = member[p].guest
              \/ account'[p] = "purged"]_memberVars
    BY MembershipStep
<1>3. QED
    BY <1>1, <1>2, InitMembership, PTL DEF MembershipSpec, BoundUntilPurged

-----------------------------------------------------------------------------
(***************************************************************************)
(* The sum of the three components adds nothing to them: a behaviour of the *)
(* specification that is model-checked is one of each component, so what is *)
(* proved of a component alone holds of the sum.                           *)
(***************************************************************************)
THEOREM MembersCompose ==
    MembersSpec => LinkSpec /\ FollowUpSpec /\ MembershipSpec
<1>1. MembersInit => LinkInit /\ FollowUpInit /\ MembershipInit
  BY DEF MembersInit
<1>2. [MembersNext]_membersVars => [LinkNext]_linkVars
  BY DEF MembersNext, membersVars
<1>3. [MembersNext]_membersVars => [FollowUpNext]_followUpVars
  BY DEF MembersNext, membersVars
<1>4. [MembersNext]_membersVars => [MembershipNext]_memberVars
  BY DEF MembersNext, membersVars
<1>5. QED
  BY <1>1, <1>2, <1>3, <1>4, PTL DEF MembersSpec, LinkSpec, FollowUpSpec, MembershipSpec
=============================================================================
