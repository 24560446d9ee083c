---------------------------- MODULE Introductions ----------------------------
(***************************************************************************)
(* One introduction between two members in one context: the requests that  *)
(* create, answer and view it, and the blocks between the two, each in its *)
(* own transactions at READ COMMITTED.  The introduction's row, the        *)
(* consents and the blocks are separate tables; FOR UPDATE locks the row   *)
(* of the introduction and nothing else.                                   *)
(***************************************************************************)
EXTENDS FiniteSets, Naturals

CONSTANTS
    Parties,      \* the two profiles of the pair
    Fields,       \* the contact fields a party may reveal
    Requests,     \* HTTP requests of either party, each served once
    Free          \* no lock holder

ASSUME IntroductionsAssumption ==
    /\ \E p, q \in Parties : p # q /\ Parties = {p, q}
    /\ Free \notin Requests

VARIABLES
    state,        \* introductions.state, "none" while there is no row
    consent,      \* the row of introduction_consents of each party
    blocks,       \* the parties who have blocked the other one
    lock,         \* the transaction that holds the row FOR UPDATE
    notices,      \* the outbox jobs of the introduction, by their dedupe key
    req,          \* each request: what it asks, where it is, what it has read
    mutuals,      \* history: intro.mutual audit rows
    agreed,       \* history: fields both parties had agreed to reveal, once mutual
    shown,        \* history: the fields of the other that each party has been shown
    late          \* history: requests that came in under the block that stands

vars == <<state, consent, blocks, lock, notices, req, mutuals, agreed, shown, late>>
rows == <<state, consent, notices, mutuals, agreed>>

States == {"none", "pending", "mutual", "declined", "revoked"}
Endings == {"decline", "withdraw"}
Decisions == {"accept"} \cup Endings
Kinds == {"request", "view"} \cup Decisions
Phases == {"new", "cleared", "seen", "matched", "done"}

NoConsent == [decision |-> "none", fields |-> {}, source |-> "none"]
Idle(phase) == [phase |-> phase, kind |-> "view", party |-> CHOOSE p \in Parties : TRUE,
                fields |-> {}, seen |-> "none"]

Other(p) == CHOOSE q \in Parties : q # p

TypeOK ==
    /\ state \in States
    /\ consent \in [Parties -> [decision : {"none"} \cup Decisions, fields : SUBSET Fields,
                                source : {"none", "explicit", "implicit_by_initiation"}]]
    /\ blocks \subseteq Parties
    /\ lock \in Requests \cup {Free}
    /\ notices \subseteq ({"requested", "mutual"} \cup Endings) \X Parties
    /\ req \in [Requests -> [phase : Phases, kind : Kinds, party : Parties,
                             fields : SUBSET Fields, seen : States]]
    /\ mutuals \in Nat
    /\ agreed \subseteq Fields
    /\ shown \subseteq Parties \X Fields
    /\ late \subseteq Requests

Init ==
    /\ state = "none"
    /\ consent = [p \in Parties |-> NoConsent]
    /\ blocks = {} /\ lock = Free /\ notices = {}
    /\ req = [r \in Requests |-> Idle("new")]
    /\ mutuals = 0 /\ agreed = {} /\ shown = {} /\ late = {}

-----------------------------------------------------------------------------
\* A request's first read that can depend on the others: before it, it is not there.
Arrive(r) ==
    /\ req[r].phase = "new"
    /\ late' = IF blocks = {} THEN late ELSE late \cup {r}

Serve(r, k, p, f, phase) ==
    req' = [req EXCEPT ![r] = [phase |-> phase, kind |-> k, party |-> p, fields |-> f,
                               seen |-> state]]
Finish(r) == req' = [req EXCEPT ![r] = Idle("done")]

\* Mutant: only the caller's own block counts.
BlockedByCaller(p) == p \in blocks

\* Blocks are symmetric.
Blocked(p) == blocks # {}

\* POST /api/introductions: membership and blocks are read outside the transaction, ...
CheckEligible(r, p, f) ==
    /\ Arrive(r)
    /\ IF Blocked(p) THEN Finish(r) ELSE Serve(r, "request", p, f, "cleared")
    /\ UNCHANGED <<rows, blocks, lock, shown>>

\* ... then the row is inserted, unless there is one, with the initiator's consent
\* and the notice to the other party.
Create(r) ==
    LET p == req[r].party IN
    /\ req[r].kind = "request" /\ req[r].phase = "cleared"
    /\ IF state # "none" THEN UNCHANGED rows
       ELSE /\ state' = "pending"
            /\ consent' = [consent EXCEPT ![p] =
                    [decision |-> "accept", fields |-> req[r].fields,
                     source |-> "implicit_by_initiation"]]
            /\ notices' = notices \cup {<<"requested", Other(p)>>}
            /\ UNCHANGED <<mutuals, agreed>>
    /\ Finish(r)
    /\ UNCHANGED <<blocks, lock, shown, late>>

\* Mutant: SELECT without FOR UPDATE.
Readable == TRUE

Lockable == lock = Free

\* POST .../respond: the row is read and locked, then the blocks are read.
RespondBegin(r, k, p, f) ==
    /\ Arrive(r) /\ Lockable
    /\ IF state = "none" \/ Blocked(p)
       THEN Finish(r) /\ UNCHANGED lock
       ELSE Serve(r, k, p, f, "cleared") /\ lock' = r
    /\ UNCHANGED <<rows, blocks, shown>>

\* upsertConsent
Consented(r) ==
    [consent EXCEPT ![req[r].party] =
        [decision |-> req[r].kind, fields |-> req[r].fields, source |-> "explicit"]]

BothAccept(c) == \A p \in Parties : c[p].decision = "accept"

Ended(d) == IF d = "decline" THEN "declined" ELSE "revoked"

\* Mutant: the notice goes to the party who decided.
Decider(r) == req[r].party

Informed(r) == Other(req[r].party)

\* decline, withdraw: only while pending, by compare-and-set.
RespondEnd(r) ==
    /\ req[r].kind \in Endings /\ req[r].phase = "cleared"
    /\ IF req[r].seen # "pending" \/ state # "pending" THEN UNCHANGED rows
       ELSE /\ state' = Ended(req[r].kind)
            /\ consent' = Consented(r)
            /\ notices' = notices \cup {<<req[r].kind, Informed(r)>>}
            /\ UNCHANGED <<mutuals, agreed>>
    /\ Finish(r) /\ lock' = Free
    /\ UNCHANGED <<blocks, shown, late>>

\* The fields both parties reveal.
Common(c) == {f \in Fields : \A p \in Parties : f \in c[p].fields}

\* accept: the consent is written, and the transition made if both have accepted.
RespondAccept(r) ==
    LET wins == req[r].seen = "pending" /\ BothAccept(Consented(r)) /\ state = "pending" IN
    /\ req[r].kind = "accept" /\ req[r].phase = "cleared"
    /\ IF req[r].seen \notin {"pending", "mutual"} THEN UNCHANGED rows
       ELSE /\ consent' = Consented(r)
            /\ state' = IF wins THEN "mutual" ELSE state
            /\ notices' = notices \cup (IF wins THEN {"mutual"} \X Parties ELSE {})
            /\ mutuals' = IF wins THEN mutuals + 1 ELSE mutuals
            /\ agreed' = agreed \cup (IF state' = "mutual" THEN Common(consent') ELSE {})
    /\ Finish(r) /\ lock' = Free
    /\ UNCHANGED <<blocks, shown, late>>

\* Mutant: the caller's own choice of fields decides.
OwnFields(p) == consent[p].fields

Matched(p) == Common(consent)

\* GET /api/introductions/[id]: four reads, no transaction: the state, ...
ViewState(r, p) ==
    /\ Arrive(r)
    /\ IF state = "none" THEN Finish(r) ELSE Serve(r, "view", p, {}, "seen")
    /\ UNCHANGED <<rows, blocks, lock, shown>>

\* ... the consents, ...
ViewConsents(r) ==
    /\ req[r].phase = "seen"
    /\ req' = [req EXCEPT ![r] = [@ EXCEPT !.phase = "matched",
                                           !.fields = Matched(req[r].party)]]
    /\ UNCHANGED <<rows, blocks, lock, shown, late>>

\* ... the blocks, and the contact fields of the other party.
ViewReveal(r) ==
    /\ req[r].phase = "matched"
    /\ shown' = shown \cup (IF req[r].seen = "mutual" /\ ~Blocked(req[r].party)
                            THEN {req[r].party} \X req[r].fields ELSE {})
    /\ Finish(r)
    /\ UNCHANGED <<rows, blocks, lock, late>>

\* POST /api/blocks
Block(p) ==
    /\ blocks' = blocks \cup {p}
    /\ UNCHANGED <<rows, lock, req, shown, late>>

\* DELETE /api/blocks/[targetAccountId]
Unblock(p) ==
    /\ blocks' = blocks \ {p}
    /\ late' = IF blocks' = {} THEN {} ELSE late
    /\ UNCHANGED <<rows, lock, req, shown>>

-----------------------------------------------------------------------------
RequestStep(r) ==
    \/ \E p \in Parties, f \in SUBSET Fields :
          CheckEligible(r, p, f) \/ \E k \in Decisions : RespondBegin(r, k, p, f)
    \/ Create(r) \/ RespondEnd(r) \/ RespondAccept(r)
    \/ \E p \in Parties : ViewState(r, p)
    \/ ViewConsents(r) \/ ViewReveal(r)

Next ==
    \/ \E r \in Requests : RequestStep(r)
    \/ \E p \in Parties : Block(p) \/ Unblock(p)

Spec == Init /\ [][Next]_vars

-----------------------------------------------------------------------------
(* Properties *)

\* The state agrees with the consents, whatever answers overlap: mutual exactly
\* when both parties accept, ended exactly when one of them ended it ("the reveal
\* needs BOTH parties to have agreed", AC-31 and AC-32).
StateIsConsent ==
    /\ state = "mutual" <=> BothAccept(consent)
    /\ state \in {"declined", "revoked"}
          <=> \E p \in Parties : consent[p].decision \in Endings

\* Exactly one mutual transition and its two notices, or one notice of the ending
\* to the party who did not decide it, or neither (AC-32).
NoticesTellTheOutcome ==
    /\ mutuals = IF state = "mutual" THEN 1 ELSE 0
    /\ {n \in notices : n[1] = "mutual"} = IF state = "mutual" THEN {"mutual"} \X Parties ELSE {}
    /\ LET enders == {p \in Parties : consent[p].decision \in Endings} IN
       {n \in notices : n[1] \in Endings} = {<<consent[p].decision, Other(p)>> : p \in enders}

\* A contact field is shown only if, at one moment since the introduction became
\* mutual, both parties had agreed to reveal it, although the view reads the state,
\* the consents and the blocks one after the other (AC-34).
ShownAgreed == \A s \in shown : s[2] \in agreed

\* A request that comes in under a block, in either direction, passes no check
\* while the block stands: it creates, answers and reveals nothing ("a block freezes
\* the introduction").  One that passed before may still finish.
LateRefused ==
    [][\A r \in late : req[r].phase \in {"cleared", "matched"} /\ req'[r].phase = "done"
          => UNCHANGED <<rows, shown>>]_vars
==============================================================================
