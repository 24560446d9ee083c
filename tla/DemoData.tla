------------------------------- MODULE DemoData -------------------------------
(***************************************************************************)
(* The demo's data in one event: the command that makes the spent pair and *)
(* the spent join demonstrable again (pnpm demo:reset), the seeder of the  *)
(* demo event, and the members who meanwhile use the product.  A run of    *)
(* the command is two parts: the introduction of a named pair, in one      *)
(* transaction of two DELETEs, and the membership of a named persona.      *)
(*                                                                         *)
(* Of the seeder its memberships and introductions are modelled: each of   *)
(* its statements is committed by itself.  Consents and delivery attempts  *)
(* go with their rows by the schema's cascade and are left out.            *)
(***************************************************************************)
EXTENDS FiniteSets, Naturals

CONSTANTS
    Listed,         \* DEMO_EMAIL_ALLOWLIST
    Owner,          \* a real person's address
    Seeded,         \* the pairs the seeder introduces
    Runs,           \* runs of the command, each made once
    MaxMade         \* bound: introductions made

People == Listed \cup {Owner}
Pairs == {s \in SUBSET People : Cardinality(s) = 2}
Contexts == {"event", "personal"}

ASSUME DemoAssumption == Owner \notin Listed /\ Seeded \subseteq Pairs /\ MaxMade \in Nat

VARIABLES
    account,        \* whether each listed address has an active demo account with a profile
    membership,     \* its row of event_memberships in the demo event, where the owner is a member
    intros,         \* rows of introductions
    intronotices,   \* the introductions with notices in the outbox
    made,           \* introductions made, the next row's id
    run,            \* each run of the command
    raced           \* history: those with notices written when a run had begun to delete the row

demoVars == <<account, membership, intros, intronotices, made, run, raced>>

Args == [pair : Pairs, unjoin : {{}} \cup {{p} : p \in People}, dry : BOOLEAN]
Rows == [id : 1 .. MaxMade, pair : Pairs, context : Contexts]
EndedRun(at) == [at |-> at, args |-> [pair |-> {}, unjoin |-> {}, dry |-> TRUE], plan |-> {}]

RunRecord == [at : {"new", "loaded", "planned", "deleting", "membership", "unjoin", "over"},
              args : Args \cup {EndedRun("new").args}, plan : SUBSET (1 .. MaxMade)]

DemoTypeOK ==
    /\ account \in [Listed -> BOOLEAN]
    /\ membership \in [Listed -> {"none", "active", "left"}]
    /\ intros \subseteq Rows
    /\ intronotices \subseteq 1 .. MaxMade
    /\ made \in 0 .. MaxMade
    /\ run \in [Runs -> RunRecord]
    /\ raced \subseteq 1 .. MaxMade

\* The account of a listed address may be a person's, or closed.
DemoInit ==
    /\ account \in [Listed -> BOOLEAN]
    /\ membership = [p \in Listed |-> "none"]
    /\ intros = {} /\ intronotices = {} /\ made = 0 /\ raced = {}
    /\ run = [r \in Runs |-> EndedRun("new")]

-----------------------------------------------------------------------------
(* The product and the seeder *)

Ids(rows) == {i.id : i \in rows}

\* A run that has deleted the notices of these rows and not yet the rows.
Deleting == UNION {run[r].plan : r \in {q \in Runs : run[q].at = "deleting"}}

Notify(id) ==
    /\ intronotices' = intronotices \cup {id}
    /\ raced' = raced \cup ({id} \cap Deleting)

\* UNIQUE (context_key, profile_a, profile_b)
Existing(pair, context) == {i \in intros : i.pair = pair /\ i.context = context}

NewRow(pair, context) == [id |-> made + 1, pair |-> pair, context |-> context]

\* POST /api/introductions: in the event both are members of it.
Propose(pair, context) ==
    /\ made < MaxMade /\ Existing(pair, context) = {}
    /\ context = "event" => \A p \in pair \ {Owner} : membership[p] = "active"
    /\ intros' = intros \cup {NewRow(pair, context)} /\ made' = made + 1
    /\ Notify(made + 1)
    /\ UNCHANGED <<account, membership, run>>

\* POST .../respond: an answer, or its withdrawal, with its notice in one transaction.
RespondTo(i) ==
    /\ Notify(i.id)
    /\ UNCHANGED <<account, membership, intros, made, run>>

\* The worker has sent the notices of an introduction.
SendNotices(id) ==
    /\ intronotices' = intronotices \ {id} /\ raced' = raced \ {id}
    /\ UNCHANGED <<account, membership, intros, made, run>>

JoinOrLeave(p, state) ==
    /\ membership[p] # state
    /\ state = "left" => membership[p] = "active"
    /\ membership' = [membership EXCEPT ![p] = state]
    /\ UNCHANGED <<account, intros, intronotices, made, run, raced>>

\* upsertDemoMembership; of the real owner it reads the membership only.
SeedMembership(p) ==
    /\ p \in (UNION Seeded) \ {Owner}
    /\ membership' = [membership EXCEPT ![p] = "active"]
    /\ UNCHANGED <<account, intros, intronotices, made, run, raced>>

\* upsertMutualIntro, without a notice; a row that is there stays this row.
SeedIntroduction(pair) ==
    /\ made < MaxMade /\ Existing(pair, "event") = {}
    /\ intros' = intros \cup {NewRow(pair, "event")} /\ made' = made + 1
    /\ UNCHANGED <<account, membership, intronotices, run, raced>>

-----------------------------------------------------------------------------
(* The command *)

Advanced(r, at) == run' = [run EXCEPT ![r].at = at]
Over(r) == run' = [run EXCEPT ![r] = EndedRun("over")]

\* parseDemoResetArgs, guardDemoReset: before any connection malformed arguments, an address
\* that is not on the list and a target that is production-like and not acknowledged are
\* refused.
Guarded(args) == args.pair \cup args.unjoin \subseteq Listed

\* qualifyDemoAccounts, qualifyMembershipPersona
Qualified(p) == account[p]

\* loadDemoTarget: both qualify, or the run ends; both are active members, except the one
\* this run takes out, or this part is skipped if there is another one.
Start(r, args) ==
    LET admitted == \A p \in args.pair : membership[p] = "active" \/ p \in args.unjoin IN
    /\ run[r].at = "new"
    /\ \/ Over(r)
       \/ /\ Guarded(args) /\ \A p \in args.pair : Qualified(p)
          /\ admitted \/ args.unjoin # {}
          /\ run' = [run EXCEPT ![r] = [at |-> IF admitted THEN "loaded" ELSE "membership",
                                        args |-> args, plan |-> {}]]
    /\ UNCHANGED <<account, membership, intros, intronotices, made, raced>>

\* selectResetIntroductions, and the counts; a dry run stops here.
Plan(r) ==
    LET args == run[r].args
        plan == Ids(Existing(args.pair, "event")) IN
    /\ run[r].at = "loaded"
    /\ run' = [run EXCEPT ![r].plan = IF args.dry THEN {} ELSE plan,
                          ![r].at = IF args.dry \/ plan = {} THEN "membership" ELSE "planned"]
    /\ UNCHANGED <<account, membership, intros, intronotices, made, raced>>

\* Mutant: the rows are deleted and their notices stay.
KeptNotices(r) == intronotices

\* applyReset: the notices of the planned rows, of every kind, ...
NoticesLeft(r) == intronotices \ run[r].plan

DeleteNotices(r) ==
    /\ run[r].at = "planned"
    /\ intronotices' = NoticesLeft(r)
    /\ raced' = raced \ run[r].plan
    /\ Advanced(r, "deleting")
    /\ UNCHANGED <<account, membership, intros, made>>

\* Mutant: the rows of the scope, planned or not.
InScope(r) == Existing(run[r].args.pair, "event")

\* ... then the rows that were planned and are still of the scope.  A notice written in
\* between is not seen by the first DELETE.
Removable(r) == {i \in Existing(run[r].args.pair, "event") : i.id \in run[r].plan}

DeleteIntroductions(r) ==
    /\ run[r].at = "deleting"
    /\ intros' = intros \ Removable(r)
    /\ run' = [run EXCEPT ![r].at = "membership", ![r].plan = {}]
    /\ UNCHANGED <<account, membership, intronotices, made, raced>>

\* loadMembershipTarget: a persona who is outside already is nothing to refuse.
LoadMembership(r) ==
    LET args == run[r].args IN
    /\ run[r].at = "membership"
    /\ IF /\ args.unjoin # {} /\ ~args.dry
          /\ \A p \in args.unjoin : Qualified(p) /\ membership[p] # "none"
       THEN Advanced(r, "unjoin") ELSE Over(r)
    /\ UNCHANGED <<account, membership, intros, intronotices, made, raced>>

\* applyMembershipReset, whatever state the row is in by now.
Unjoin(r) ==
    /\ run[r].at = "unjoin"
    /\ membership' = [p \in Listed |-> IF p \in run[r].args.unjoin THEN "none" ELSE membership[p]]
    /\ Over(r)
    /\ UNCHANGED <<account, intros, intronotices, made, raced>>

\* The command fails; between its two DELETEs PostgreSQL takes the first one back, which is
\* the failure of the step before.
Fail(r) ==
    /\ run[r].at \in {"loaded", "planned", "membership", "unjoin"}
    /\ Over(r)
    /\ UNCHANGED <<account, membership, intros, intronotices, made, raced>>

DemoNext ==
    \/ \E pair \in Pairs, c \in Contexts : Propose(pair, c)
    \/ \E i \in intros : RespondTo(i)
    \/ \E id \in intronotices : SendNotices(id)
    \/ \E p \in Listed : SeedMembership(p) \/ \E s \in {"active", "left"} : JoinOrLeave(p, s)
    \/ \E pair \in Seeded : SeedIntroduction(pair)
    \/ \E r \in Runs :
          \/ \E a \in Args : Start(r, a)
          \/ Plan(r) \/ DeleteNotices(r) \/ DeleteIntroductions(r)
          \/ LoadMembership(r) \/ Unjoin(r) \/ Fail(r)

DemoSpec == DemoInit /\ [][DemoNext]_demoVars

-----------------------------------------------------------------------------
(* Properties *)

\* What is erased was named: an introduction only if a run that is no dry run planned this
\* very row, and it is in the event and between two listed addresses, even if the pair has
\* been introduced anew since ("rows to delete ... exactly"); a membership only if a run
\* was asked to take that listed persona out.
ErasedAsPlanned ==
    [][/\ \A i \in intros : i.id \notin Ids(intros') =>
             \E r \in Runs : /\ run[r].at = "deleting" /\ ~run[r].args.dry
                             /\ i.id \in run[r].plan
                             /\ i.context = "event" /\ \A p \in i.pair : account[p]
       /\ \A p \in Listed : membership[p] # "none" /\ membership'[p] = "none" =>
             \E r \in Runs : run[r].args.unjoin = {p} /\ ~run[r].args.dry /\ account[p]]_demoVars

\* No notice outlives its introduction ("keeping them would let the worker announce an
\* introduction that no longer exists"), but for one written between the two DELETEs.
NoticesHaveRows == intronotices \subseteq Ids(intros) \cup raced
===============================================================================
