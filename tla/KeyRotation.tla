---------------------------- MODULE KeyRotation ----------------------------
(***************************************************************************)
(* A key rotation of a running deployment: expand, flip, backfill,         *)
(* contract.  The application's instances seal values under the key their  *)
(* environment calls active, the operator changes that environment one     *)
(* step at a time, and scripts/rotate-encryption-key.mts walks the         *)
(* encrypted columns page by page while all of that goes on.               *)
(*                                                                         *)
(* The six columns are walked one after another in primary-key order:      *)
(* their rows stand here in one line, 1 to Rows.  A payload is the id of   *)
(* the key that sealed it and the value; "lost" is an id no keyring has,   *)
(* "garbled" a payload that does not open under its own id.                *)
(***************************************************************************)
EXTENDS Naturals, FiniteSets

CONSTANTS
    Rows,         \* number of rows of the encrypted columns
    Batch,        \* rows per page (--batch)
    Writers,      \* requests of the application; each writes one row once
    WayBack,      \* the environments the operator may go back to: a set of stages
    MaxDeploys    \* bound: changes of the environment

ASSUME RotationAssumption == /\ Rows \in Nat
                             /\ Batch \in Nat \ {0}
                             /\ MaxDeploys \in Nat
                             /\ WayBack \subseteq {"single", "expanded"}

VARIABLES
    payload,      \* what each row holds
    live,         \* the environments under which instances still serve requests
    deploys,      \* changes of the environment so far; the newest one is "stage"
    stage,
    writer,       \* each writing request: the payload it has sealed, and for which row
    script,       \* the run of the command, if one is under way
    cleared,      \* the last run found the columns free of the retired key
    late          \* history: the rows that instances of the environment before the flip
                  \* have written since the newest census began

rotationVars == <<payload, live, deploys, stage, writer, script, cleared, late>>
deployment == <<live, deploys, stage>>

RowIds == 1..Rows
Values == {"before"} \cup Writers
KeyIds == {"old", "new", "lost", "garbled"}
Payloads == [key : KeyIds \cup {"null"}, val : Values]
Null == [key |-> "null", val |-> "before"]

(***************************************************************************)
(* parseKeyring: ENCRYPTION_KEY and its id are the active key,             *)
(* ENCRYPTION_KEYS lists the others that can still be read.                *)
(***************************************************************************)
Stages == {"single", "expanded", "flipped", "contracted"}
Active(s) == IF s \in {"single", "expanded"} THEN "old" ELSE "new"
Keyring(s) == CASE s = "single"     -> {"old"}
                [] s = "contracted" -> {"new"}
                [] OTHER            -> {"old", "new"}

\* Mutant: whatever the keyring opens is current.
Opened(p) == CASE p.key = "null"    -> "null"
               [] p.key = "garbled" -> "corrupt"
               [] p.key \notin Keyring("flipped") \cup {"null", "garbled"} -> "foreign"
               [] OTHER -> "current"

(***************************************************************************)
(* classifyStoredValue, under the keyring of the flipped environment that  *)
(* the command shares with the application.                                *)
(***************************************************************************)
Class(p) == CASE p.key = "null"    -> "null"
              [] p.key = "garbled" -> "corrupt"
              [] p.key \notin Keyring("flipped") \cup {"null", "garbled"} -> "foreign"
              [] p.key = Active("flipped") -> "current"
              [] OTHER -> "stale"

Unreadable(p) == Class(p) \in {"foreign", "corrupt"}

ScriptPhases == {"idle", "before", "apply", "swap", "after"}
NoScript == [phase |-> "idle", dry |-> FALSE, cursor |-> 0,
             page |-> [i \in RowIds |-> Null], stale |-> FALSE,
             unreadable |-> 0, unreadableBefore |-> 0]

RotationTypeOK ==
    /\ payload \in [RowIds -> Payloads]
    /\ live \subseteq Stages
    /\ deploys \in 0..MaxDeploys
    /\ stage \in Stages
    /\ writer \in [Writers -> [phase : {"idle", "sealed", "done"}, stage : Stages,
                               row : {0} \cup RowIds]]
    /\ script \in [phase : ScriptPhases, dry : BOOLEAN, cursor : 0..Rows,
                   page : [RowIds -> Payloads], stale : BOOLEAN,
                   unreadable : 0..Rows, unreadableBefore : 0..Rows]
    /\ cleared \in BOOLEAN
    /\ late \subseteq RowIds

RotationInit ==
    /\ payload \in [RowIds -> {Null} \cup [key : {"old", "lost", "garbled"}, val : {"before"}]]
    /\ live = {"single"}
    /\ deploys = 0
    /\ stage = "single"
    /\ writer = [w \in Writers |-> [phase |-> "idle", stage |-> "single", row |-> 0]]
    /\ script = NoScript
    /\ cleared = FALSE
    /\ late = {}

-----------------------------------------------------------------------------
(***************************************************************************)
(* The application.  A value is sealed under the active key of the         *)
(* instance that serves the request (encryptStored) and written after      *)
(* that, over whatever the row holds; a row may also be emptied.           *)
(***************************************************************************)
Seal(w, s, i) ==
    /\ writer[w].phase = "idle"
    /\ s \in live
    /\ writer' = [writer EXCEPT ![w] = [phase |-> "sealed", stage |-> s, row |-> i]]
    /\ UNCHANGED <<payload, deployment, script, cleared, late>>

Sealed(w) == [key |-> Active(writer[w].stage), val |-> w]

Store(w) ==
    /\ writer[w].phase = "sealed"
    /\ payload' = [payload EXCEPT ![writer[w].row] = Sealed(w)]
    /\ writer' = [writer EXCEPT ![w].phase = "done"]
    /\ late' = IF Active(stage) = "new" /\ Sealed(w).key = "old"
               THEN late \cup {writer[w].row} ELSE late
    /\ UNCHANGED <<deployment, script, cleared>>

Empty(w, i) ==
    /\ writer[w].phase = "idle"
    /\ payload' = [payload EXCEPT ![i] = Null]
    /\ writer' = [writer EXCEPT ![w].phase = "done"]
    /\ UNCHANGED <<deployment, script, cleared, late>>

-----------------------------------------------------------------------------
(***************************************************************************)
(* The operator.  An environment is changed only when every instance runs  *)
(* the one before it; the backfill, its censuses included, may run while   *)
(* the flip is still rolling out ("steps 2 and 3 may be combined").  The   *)
(* last step asks for a clean census; a step back leaves one that is no    *)
(* longer good.                                                            *)
(***************************************************************************)
Following(s) == CASE s = "single" -> "expanded" [] s = "expanded" -> "flipped"
                  [] OTHER -> "contracted"

Deploy(s) ==
    /\ deploys < MaxDeploys
    /\ live = {stage}
    /\ deploys' = deploys + 1
    /\ stage' = s
    /\ live' = live \cup {s}
    /\ UNCHANGED <<payload, writer>>

StepForward ==
    /\ stage # "contracted"
    /\ stage = "flipped" => cleared /\ script.phase = "idle"
    /\ Deploy(Following(stage))
    /\ UNCHANGED <<script, cleared, late>>

StepBack(s) ==
    /\ s \in WayBack
    /\ stage \in {"expanded", "flipped"} /\ s # stage
    /\ Deploy(s)
    /\ script' = NoScript
    /\ cleared' = FALSE
    /\ UNCHANGED late

(***************************************************************************)
(* The instances of an earlier environment end once their requests have.   *)
(***************************************************************************)
Drain(s) ==
    /\ s \in live \ {stage}
    /\ \A w \in Writers : ~(writer[w].phase = "sealed" /\ writer[w].stage = s)
    /\ live' = live \ {s}
    /\ UNCHANGED <<payload, deploys, stage, writer, script, cleared, late>>

-----------------------------------------------------------------------------
(***************************************************************************)
(* The command.  A page is the next rows after the cursor, at most Batch   *)
(* of them, read in one statement; no cursor stays open between pages.     *)
(***************************************************************************)
Page(S, last) == {i \in S : script.cursor < i /\ i <= last}

IsPage(S, last) == /\ Cardinality(Page(S, last)) \in 1..Batch
                   /\ last \in Page(S, last)

\* The operator goes by the newest run.
StartScript(dry) ==
    /\ script.phase = "idle"
    /\ stage = "flipped"
    /\ script' = [NoScript EXCEPT !.phase = "before", !.dry = dry]
    /\ cleared' = FALSE
    /\ late' = {}
    /\ UNCHANGED <<payload, deployment, writer>>

(***************************************************************************)
(* censusColumn: every row of the page is classed and counted.             *)
(***************************************************************************)
Census(last) ==
    /\ script.phase \in {"before", "after"}
    /\ IsPage(RowIds, last)
    /\ LET page == Page(RowIds, last) IN
         script' = [script EXCEPT
             !.cursor = last,
             !.stale = script.stale \/ \E i \in page : Class(payload[i]) = "stale",
             !.unreadable = script.unreadable + Cardinality({i \in page : Unreadable(payload[i])})]
    /\ UNCHANGED <<payload, deployment, writer, cleared, late>>

(***************************************************************************)
(* After the first census: nothing stale ends the run as complete, a dry   *)
(* run ends here in any case, and everything else goes on to the rewrite.  *)
(***************************************************************************)
CensusRead(phase) == script.phase = phase /\ script.cursor = Rows

BeforeVerdict ==
    /\ CensusRead("before")
    /\ \/ /\ ~script.stale \/ script.dry
          /\ script' = NoScript
          /\ cleared' = ~script.stale
       \/ /\ script.stale /\ ~script.dry
          /\ script' = [NoScript EXCEPT !.phase = "apply",
                                        !.unreadableBefore = script.unreadable]
          /\ UNCHANGED cleared
    /\ UNCHANGED <<payload, deployment, writer, late>>

(***************************************************************************)
(* applyColumn: a page of rows whose id is retired is read, and the        *)
(* transaction that follows writes each of them back under the active key  *)
(* if the row still holds what was read.                                   *)
(***************************************************************************)
Retired == {i \in RowIds : payload[i].key = "old"}

ReadPage(last) ==
    /\ script.phase = "apply"
    /\ IsPage(Retired, last)
    /\ script' = [script EXCEPT
           !.phase = "swap", !.cursor = last,
           !.page = [i \in RowIds |-> IF i \in Page(Retired, last) THEN payload[i] ELSE Null]]
    /\ UNCHANGED <<payload, deployment, writer, cleared, late>>

Reencrypt(p) == [p EXCEPT !.key = Active("flipped")]

Swappable(i) == script.page[i].key # "null" /\ payload[i] = script.page[i]

SwapPage ==
    /\ script.phase = "swap"
    /\ payload' = [i \in RowIds |-> IF Swappable(i) THEN Reencrypt(script.page[i])
                                                    ELSE payload[i]]
    /\ script' = [script EXCEPT !.phase = "apply", !.page = NoScript.page]
    /\ UNCHANGED <<deployment, writer, cleared, late>>

Applied ==
    /\ script.phase = "apply"
    /\ \A i \in Retired : i <= script.cursor
    /\ script' = [script EXCEPT !.phase = "after", !.cursor = 0]
    /\ late' = {}
    /\ UNCHANGED <<payload, deployment, writer, cleared>>

(***************************************************************************)
(* The second census decides: stale rows left, or another number of        *)
(* unreadable rows than before, is a failed verification.                  *)
(***************************************************************************)
Verified == ~script.stale /\ script.unreadable = script.unreadableBefore

AfterVerdict ==
    /\ CensusRead("after")
    /\ cleared' = Verified
    /\ script' = NoScript
    /\ UNCHANGED <<payload, deployment, writer, late>>

Interrupted ==
    /\ script.phase # "idle"
    /\ script' = NoScript
    /\ UNCHANGED <<payload, deployment, writer, cleared, late>>

RotationNext ==
    \/ \E w \in Writers, s \in Stages, i \in RowIds : Seal(w, s, i)
    \/ \E w \in Writers : Store(w)
    \/ \E w \in Writers, i \in RowIds : Empty(w, i)
    \/ StepForward
    \/ \E s \in Stages : StepBack(s) \/ Drain(s)
    \/ \E dry \in BOOLEAN : StartScript(dry)
    \/ \E last \in RowIds : Census(last) \/ ReadPage(last)
    \/ BeforeVerdict \/ SwapPage \/ Applied \/ AfterVerdict \/ Interrupted

RotationSpec == RotationInit /\ [][RotationNext]_rotationVars

-----------------------------------------------------------------------------
(***************************************************************************)
(* No instance that serves requests meets a payload sealed under a key of  *)
(* this rotation that its keyring lacks: values stay readable from the     *)
(* first step to the last, whatever was written between the census and the *)
(* removal of the old key - but for a row that an instance of the          *)
(* environment before the flip wrote after the newest census began: a      *)
(* census taken while the flip is still rolling out can come out clean and *)
(* be overtaken.                                                           *)
(***************************************************************************)
EveryInstanceReads ==
    \A i \in RowIds, s \in live : payload[i].key \in {"old", "new"} =>
        \/ payload[i].key \in Keyring(s)
        \/ payload[i].key = "old" /\ i \in late

(***************************************************************************)
(* The command changes no value: a step that is not a write of the         *)
(* application leaves every value as it is and every payload it cannot     *)
(* read untouched (the compare-and-swap of applyColumn).                   *)
(***************************************************************************)
RotationKeepsValues ==
    [][writer' = writer =>
         \A i \in RowIds : /\ payload'[i].val = payload[i].val
                           /\ Unreadable(payload[i]) => payload'[i] = payload[i]]_rotationVars
=============================================================================
