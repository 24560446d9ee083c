----------------------------- MODULE TagBackfill ------------------------------
(***************************************************************************)
(* scripts/migrate-tags-to-v3: the old tags of profiles and memberships    *)
(* become interests where the catalogue knows them and keywords where it   *)
(* does not, one transaction a table, while people edit the same lists     *)
(* with the pickers.  The rows are read before the transaction begins.     *)
(***************************************************************************)
EXTENDS Taxonomy

CONSTANTS
    TagLists,       \* the old tags a row may carry
    FirstLists,     \* the interests and keywords it may have from the start
    NewWords,       \* the words people type
    MaxPasses,      \* bounds how often the script is started
    MaxForms        \* bounds how often an editor is opened

\* The lists of a row were saved through the API.
ASSUME BackfillAssumption ==
    /\ MaxInterests \in Nat /\ MaxKeywords \in Nat
    /\ NewWords \subseteq Words
    /\ \A tags \in TagLists : tags \in Seq(Words)
    /\ \A lists \in FirstLists :
          /\ lists.interests \in Seq(InterestIds) /\ lists.keywords \in Seq(Words)
          /\ ValidateInterests(lists.interests) = Accepted(lists.interests)
          /\ ValidateKeywords(lists.keywords) = Accepted(lists.keywords)

VARIABLES
    stored,         \* a row of each table: old tags, interests, keywords
    script,         \* where the script is, what it planned, and whether that is a change
    form            \* the editor of a row, and the lists its pickers hold

backfillVars == <<stored, script, form>>

Tables == <<"profiles", "event_memberships">>
NoPlan == [interests |-> <<>>, keywords |-> <<>>]
Lists(r) == [interests |-> r.interests, keywords |-> r.keywords]
NoScript == [at |-> "off", table |-> 1, plan |-> NoPlan, changed |-> FALSE, passes |-> 0]
NoForm == [table |-> "none", interests |-> <<>>, keywords |-> <<>>, opened |-> 0]

BackfillInit ==
    /\ stored \in [Range(Tables) ->
                   {[tags |-> t, interests |-> l.interests, keywords |-> l.keywords] :
                       t \in TagLists, l \in FirstLists}]
    /\ script = NoScript
    /\ form = NoForm

-----------------------------------------------------------------------------
(* The script *)

\* Tags the catalogue knows, in its order; the others, cut to the length of a keyword.
Mapped(tags) == Among(InterestOrder, {NormalizeInterest(tag) : tag \in Range(tags)})
Demoted(tags) ==
    LET own == Among(tags, {tag \in Range(tags) : NormalizeInterest(tag) = Unknown
                                                   /\ Plain(tag) # ""})
    IN [i \in DOMAIN own |-> Cut(Plain(own[i]))]

\* Mutant: nothing caps the lists.
Uncapped(r) ==
    [interests |-> Dedupe(Among(r.interests, InterestIds) \o Mapped(r.tags)),
     keywords |-> Dedupe(r.keywords \o Demoted(r.tags))]

\* planRow: what is there comes first and caps the lists.
PlanRow(r) ==
    [interests |-> FirstOf(Dedupe(Among(r.interests, InterestIds) \o Mapped(r.tags)), MaxInterests),
     keywords |-> FirstOf(Dedupe(r.keywords \o Demoted(r.tags)), MaxKeywords)]

Current == Tables[script.table]

\* The table is read and every row planned.
ReadTable ==
    /\ script.at = "off" /\ script.passes < MaxPasses
    /\ script' = [script EXCEPT !.at = "planned", !.plan = PlanRow(stored[Current]),
                                !.changed = PlanRow(stored[Current]) # Lists(stored[Current]),
                                !.passes = IF script.table = 1 THEN @ + 1 ELSE @]
    /\ UNCHANGED <<stored, form>>

\* The transaction writes the rows whose plan differs from what was read, whatever they hold
\* by then; the next table follows.
WriteTable ==
    /\ script.at = "planned"
    /\ stored' = IF script.changed
              THEN [stored EXCEPT ![Current].interests = script.plan.interests,
                               ![Current].keywords = script.plan.keywords]
              ELSE stored
    /\ script' = [NoScript EXCEPT !.passes = script.passes, !.table = 3 - script.table]
    /\ UNCHANGED form

\* The script stops before it writes: a dry run, a lost connection, a transaction undone.
StopScript ==
    /\ script.at = "planned"
    /\ script' = [NoScript EXCEPT !.passes = script.passes]
    /\ UNCHANGED <<stored, form>>

-----------------------------------------------------------------------------
(* The editors *)

OpenForm(t) ==
    /\ form.table = "none" /\ form.opened < MaxForms
    /\ form' = [table |-> t, interests |-> stored[t].interests, keywords |-> stored[t].keywords,
                opened |-> form.opened + 1]
    /\ UNCHANGED <<stored, script>>

\* A chip, or the button that clears the axis.
Toggle(id) ==
    /\ form.table # "none"
    /\ form' = [form EXCEPT !.interests = Toggled(@, id)]
    /\ UNCHANGED <<stored, script>>

ClearChips ==
    /\ form.interests # <<>>
    /\ form' = [form EXCEPT !.interests = <<>>]
    /\ UNCHANGED <<stored, script>>

\* Enter, a comma or leaving the field commits the word.
AddWord(word) ==
    /\ form.table # "none"
    /\ form' = [form EXCEPT !.keywords = WithKeyword(@, word)]
    /\ UNCHANGED <<stored, script>>

\* Its cross; Backspace in an empty field takes the last one.
RemoveWord(word) ==
    /\ word \in Range(form.keywords)
    /\ form' = [form EXCEPT !.keywords = Among(@, Range(@) \ {word})]
    /\ UNCHANGED <<stored, script>>

\* The editor saves; what the validators refuse changes nothing.  Editing on after that is
\* counted as opening it again.
SaveForm ==
    /\ form.table # "none"
    /\ LET interests == ValidateInterests(form.interests)
           keywords == ValidateKeywords(form.keywords) IN
       IF interests.ok /\ keywords.ok
       THEN stored' = [stored EXCEPT ![form.table].interests = interests.value,
                                     ![form.table].keywords = keywords.value]
       ELSE stored' = stored
    /\ form' = [NoForm EXCEPT !.opened = form.opened]
    /\ UNCHANGED script

BackfillNext ==
    \/ ReadTable \/ WriteTable \/ StopScript
    \/ \E t \in Range(Tables) : OpenForm(t)
    \/ \E id \in InterestIds : Toggle(id)
    \/ ClearChips
    \/ \E word \in NewWords : AddWord(word)
    \/ \E word \in Words : RemoveWord(word)
    \/ SaveForm

BackfillSpec == BackfillInit /\ [][BackfillNext]_backfillVars

-----------------------------------------------------------------------------
BackfillTypeOK ==
    /\ \A t \in Range(Tables) :
          /\ stored[t].interests \in Seq(InterestIds)
          /\ stored[t].keywords \in Seq(Words)
    /\ script.at \in {"off", "planned"}
    /\ script.table \in 1 .. 2

\* Whatever the script, the pickers and the API made of a row, its lists go through the
\* validators unchanged, and nothing the pickers let one choose is refused: a profile that
\* is opened and saved stays what it was.
RoundTrips ==
    /\ \A t \in Range(Tables) :
          /\ ValidateInterests(stored[t].interests) = Accepted(stored[t].interests)
          /\ ValidateKeywords(stored[t].keywords) = Accepted(stored[t].keywords)
    /\ ValidateInterests(form.interests).ok /\ ValidateKeywords(form.keywords).ok
===============================================================================
