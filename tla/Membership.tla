----------------------------- MODULE Membership -----------------------------
(***************************************************************************)
(* The members of one event: joining, leaving and editing a membership,    *)
(* the guest list an organizer imports, the claim links sent out for it    *)
(* and what retention and account deletion take away again.  A request     *)
(* reads in statements of its own and writes later, some of them in a      *)
(* transaction; the row it writes need not be the row it read.             *)
(*                                                                         *)
(* A member and the e-mail address the account was proved with are one     *)
(* value.  Tags, attendance and the profile's fields are left out: only    *)
(* their own request reads them.                                           *)
(***************************************************************************)
EXTENDS Naturals, FiniteSets

CONSTANTS
    People,         \* members to be, each with an account and an address
    Registrations,  \* rows of the guest list
    Invites,        \* claim links
    Calls,          \* requests in flight
    Wishes          \* what a body may say of the visibility: a set of "keep", "show", "hide"

ASSUME MembershipAssumption == Wishes \subseteq {"keep", "show", "hide"}

VARIABLES
    member,       \* event_memberships of the event, by person
    guest,        \* registrations of the event
    invite,       \* link_challenges of purpose registration_claim
    account,      \* accounts: "deleting" from DELETE /api/me on, then "purged"
    ended,        \* the event ended longer ago than the retention grace
    call,         \* each request: where it is and what it has read
    sweep         \* the retention pass: between its two statements on guests

memberVars == <<member, guest, invite, account, ended, call, sweep>>

NoGuest == "no registration"
NoOne == "nobody"
CallPhases == {"idle", "joining", "patching", "claiming"}

MembershipTypeOK ==
    /\ member \in [People -> [st : {"none", "active", "left"}, visible : BOOLEAN,
                              guest : Registrations \cup {NoGuest}]]
    /\ guest \in [Registrations -> [st : {"none", "unclaimed", "claimed"},
                                    email : People \cup {NoOne}]]
    /\ invite \in [Invites -> [st : {"none", "open", "spent", "gone"},
                               guest : Registrations \cup {NoGuest}]]
    /\ account \in [People -> {"active", "deleting", "purged"}]
    /\ ended \in BOOLEAN
    /\ call \in [Calls -> [phase : CallPhases, by : People \cup {NoOne},
                           st : {"none", "active", "left"}, visible : BOOLEAN,
                           invite : SUBSET Invites]]
    /\ sweep \in {"idle", "challenges deleted"}

NoMember == [st |-> "none", visible |-> FALSE, guest |-> NoGuest]
NotListed == [st |-> "none", email |-> NoOne]
NoCall == [phase |-> "idle", by |-> NoOne, st |-> "none", visible |-> FALSE, invite |-> {}]

MembershipInit ==
    /\ member = [p \in People |-> NoMember]
    /\ guest = [g \in Registrations |-> NotListed]
    /\ invite = [i \in Invites |-> [st |-> "none", guest |-> NoGuest]]
    /\ account = [p \in People |-> "active"]
    /\ ended = FALSE
    /\ call = [c \in Calls |-> NoCall]
    /\ sweep = "idle"

Hang(c) == call' = [call EXCEPT ![c] = NoCall]
SignedIn(p) == account[p] = "active"

-----------------------------------------------------------------------------
(***************************************************************************)
(* POST join: the view says who is no active member, the policy lets the   *)
(* person in; the transaction locks the row, creates or revives it.  A     *)
(* membership that left keeps its visibility.                              *)
(***************************************************************************)
Join(c, p) ==
    /\ call[c].phase = "idle" /\ SignedIn(p)
    /\ member[p].st # "active"
    /\ call' = [call EXCEPT ![c].phase = "joining", ![c].by = p]
    /\ UNCHANGED <<member, guest, invite, account, ended, sweep>>

Revived(m) == IF m.st = "none" THEN [NoMember EXCEPT !.st = "active"]
              ELSE [m EXCEPT !.st = "active"]

JoinEvent(c) ==
    /\ call[c].phase = "joining"
    /\ member' = [member EXCEPT ![call[c].by] = Revived(@)]
    /\ Hang(c)
    /\ UNCHANGED <<guest, invite, account, ended, sweep>>

(***************************************************************************)
(* PATCH membership: the row is read, and written whole: a field the body  *)
(* does not name, the state among them, goes back to what was read.        *)
(***************************************************************************)
PatchRead(c, p) ==
    /\ call[c].phase = "idle" /\ SignedIn(p)
    /\ member[p].st # "none"
    /\ call' = [call EXCEPT ![c] = [NoCall EXCEPT !.phase = "patching", !.by = p,
                                                  !.st = member[p].st,
                                                  !.visible = member[p].visible]]
    /\ UNCHANGED <<member, guest, invite, account, ended, sweep>>

Shown(c, wish) == IF wish = "keep" THEN call[c].visible ELSE wish = "show"

PatchWrite(c, wish, leave) ==
    /\ call[c].phase = "patching"
    /\ member' = [member EXCEPT ![call[c].by] =
           [@ EXCEPT !.st = IF leave THEN "left" ELSE call[c].st, !.visible = Shown(c, wish)]]
    /\ Hang(c)
    /\ UNCHANGED <<guest, invite, account, ended, sweep>>

-----------------------------------------------------------------------------
(***************************************************************************)
(* The organizer: an import writes the row of its guest id, with an        *)
(* address or keeping the one it has; an invite goes out for a row that is *)
(* unclaimed.  Quarantine is left out: the file of any import sets or      *)
(* lifts it, so that the checks on it may go either way at every read.     *)
(***************************************************************************)
Import(g, email) ==
    /\ guest' = [guest EXCEPT ![g] =
           [st |-> IF @.st = "none" THEN "unclaimed" ELSE @.st,
            email |-> IF email = NoOne THEN @.email ELSE email]]
    /\ UNCHANGED <<member, invite, account, ended, call, sweep>>

Invite(i, g) ==
    /\ invite[i].st = "none"
    /\ guest[g].st = "unclaimed"
    /\ invite' = [invite EXCEPT ![i] = [st |-> "open", guest |-> g]]
    /\ UNCHANGED <<member, guest, account, ended, call, sweep>>

(***************************************************************************)
(* POST registration-claims: the link, the registration and the account's  *)
(* address are read and compared; the transaction then consumes the link   *)
(* and claims the row, each by compare-and-set.  When the second one fails *)
(* the link stays consumed.  An active membership is left as it is.        *)
(***************************************************************************)
ClaimRead(c, p, i) ==
    /\ call[c].phase = "idle" /\ SignedIn(p)
    /\ invite[i].st = "open"
    /\ LET g == guest[invite[i].guest] IN
         /\ g.st = "unclaimed"
         /\ g.email = p
    /\ call' = [call EXCEPT ![c].phase = "claiming", ![c].by = p, ![c].invite = {i}]
    /\ UNCHANGED <<member, guest, invite, account, ended, sweep>>

\* Mutant: the registration is not read again.
AsCompared(g) == TRUE

StillOpen(i) == invite[i].st = "open"
StillUnclaimed(g) == guest[g].st = "unclaimed"

Bound(m, g) == IF m.st = "active" THEN m ELSE [Revived(m) EXCEPT !.guest = g]

ClaimCommit(c, i) ==
    /\ call[c].phase = "claiming" /\ i \in call[c].invite
    /\ LET g == invite[i].guest IN
         \/ /\ StillOpen(i) /\ StillUnclaimed(g)
            /\ invite' = [invite EXCEPT ![i].st = "spent"]
            /\ guest' = [guest EXCEPT ![g].st = "claimed"]
            /\ member' = [member EXCEPT ![call[c].by] = Bound(@, g)]
         \/ /\ StillOpen(i) /\ ~StillUnclaimed(g)
            /\ invite' = [invite EXCEPT ![i].st = "spent"]
            /\ UNCHANGED <<guest, member>>
         \/ /\ ~StillOpen(i)
            /\ UNCHANGED <<invite, guest, member>>
    /\ Hang(c)
    /\ UNCHANGED <<account, ended, sweep>>

-----------------------------------------------------------------------------
(***************************************************************************)
(* Time: a link lapses, the event is over for good.                        *)
(***************************************************************************)
InviteLapses(i) ==
    /\ invite[i].st = "open"
    /\ invite' = [invite EXCEPT ![i].st = "spent"]
    /\ UNCHANGED <<member, guest, account, ended, call, sweep>>

EventEnds ==
    /\ ~ended
    /\ ended' = TRUE
    /\ UNCHANGED <<member, guest, invite, account, call, sweep>>

(***************************************************************************)
(* The retention pass: the claim links of unclaimed guests of an event     *)
(* long over (6a), then those guests (6b).  The shape check refuses 6b as  *)
(* long as a link names one of them, and the pass ends with the error.     *)
(***************************************************************************)
\* Mutant: the claimed guests go too.
Listed == {g \in Registrations : guest[g].st # "none"}

Unclaimed == {g \in Registrations : guest[g].st = "unclaimed"}

SweepInvites ==
    /\ sweep = "idle" /\ ended
    /\ sweep' = "challenges deleted"
    /\ invite' = [i \in Invites |-> IF invite[i].guest \in Unclaimed
                                    THEN [st |-> "gone", guest |-> NoGuest] ELSE invite[i]]
    /\ UNCHANGED <<member, guest, account, ended, call>>

SweepGuests ==
    /\ sweep = "challenges deleted"
    /\ sweep' = "idle"
    /\ \/ /\ \E i \in Invites : invite[i].guest \in Unclaimed
          /\ UNCHANGED <<guest, member>>
       \/ /\ \A i \in Invites : invite[i].guest \notin Unclaimed
          /\ guest' = [g \in Registrations |-> IF g \in Unclaimed THEN NotListed ELSE guest[g]]
          /\ member' = [p \in People |-> IF member[p].guest \in Unclaimed
                                         THEN [member[p] EXCEPT !.guest = NoGuest]
                                         ELSE member[p]]
    /\ UNCHANGED <<invite, account, ended, call>>

(***************************************************************************)
(* DELETE /api/me signs the account out for good; a week later the purge   *)
(* gives back the registrations its memberships name and deletes them with *)
(* the profile.  No request of that account is left by then.               *)
(***************************************************************************)
DeleteAccount(p) ==
    /\ SignedIn(p)
    /\ account' = [account EXCEPT ![p] = "deleting"]
    /\ UNCHANGED <<member, guest, invite, ended, call, sweep>>

Given(p) == {g \in Registrations : g = member[p].guest /\ guest[g].st = "claimed"}

Purge(p) ==
    /\ account[p] = "deleting"
    /\ \A c \in Calls : call[c].by # p
    /\ account' = [account EXCEPT ![p] = "purged"]
    /\ guest' = [g \in Registrations |-> IF g \in Given(p)
                                         THEN [guest[g] EXCEPT !.st = "unclaimed"] ELSE guest[g]]
    /\ member' = [member EXCEPT ![p] = NoMember]
    /\ UNCHANGED <<invite, ended, call, sweep>>

MembershipNext ==
    \/ \E c \in Calls, p \in People : Join(c, p) \/ PatchRead(c, p)
    \/ \E c \in Calls : JoinEvent(c)
    \/ \E c \in Calls, wish \in Wishes, leave \in BOOLEAN :
         PatchWrite(c, wish, leave)
    \/ \E c \in Calls, p \in People, i \in Invites : ClaimRead(c, p, i)
    \/ \E c \in Calls, i \in Invites : ClaimCommit(c, i)
    \/ \E g \in Registrations, email \in People \cup {NoOne} : Import(g, email)
    \/ \E i \in Invites, g \in Registrations : Invite(i, g)
    \/ \E i \in Invites : InviteLapses(i)
    \/ EventEnds \/ SweepInvites \/ SweepGuests
    \/ \E p \in People : DeleteAccount(p) \/ Purge(p)

MembershipSpec == MembershipInit /\ [][MembershipNext]_memberVars

-----------------------------------------------------------------------------
(***************************************************************************)
(* A registration stands behind one membership at most, and counts as      *)
(* claimed as long as it does, whatever links were sent out for it, who    *)
(* presents them together and how often the list is imported.              *)
(***************************************************************************)
RegistrationBoundOnce ==
    \A p \in People : member[p].guest # NoGuest =>
        /\ guest[member[p].guest].st = "claimed"
        /\ \A q \in People \ {p} : member[q].guest # member[p].guest

(***************************************************************************)
(* Whoever is an active member through a registration keeps it: the        *)
(* retention pass, imports and further claims take nothing from them, only *)
(* the purge of their own account does.                                    *)
(***************************************************************************)
BoundUntilPurged ==
    [][\A p \in People : (member[p].st = "active" /\ member[p].guest # NoGuest) =>
          \/ member'[p].guest = member[p].guest
          \/ account'[p] = "purged"]_memberVars
=============================================================================
