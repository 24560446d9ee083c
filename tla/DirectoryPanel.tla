---------------------------- MODULE DirectoryPanel ----------------------------
(***************************************************************************)
(* The directory of an event as a member sees it: the page opens it from   *)
(* its address, the panel mirrors every change of the filters into the     *)
(* address and loads list and recommendations anew.  A load passes its     *)
(* `cancelled` check once, when both answers are there, and reads the two  *)
(* bodies afterwards.                                                      *)
(***************************************************************************)
EXTENDS FiniteSets, Naturals

CONSTANTS
    Facets,       \* interest, function, industry: each chosen or "any"
    RecModes,     \* the modes of the recommendations
    MaxChanges    \* bounds how often the member changes something before opening it again

ASSUME DirectoryAssumption == MaxChanges \in Nat /\ "useful" \in RecModes

VARIABLES
    filters, recMode, \* the state of the filters
    address,          \* the query of the page's address
    members,          \* the list on the page
    strip,            \* the recommendations on the page
    shut,             \* the organizer has closed the directory: `closed`
    loads,            \* the effects that have asked for list and recommendations
    changed           \* how often something was changed since the page was opened

directoryVars == <<filters, recMode, address, members, strip, shut, loads, changed>>

Modes == {"intent", "interest", "all"}
Texts == {"", "anna", "anna "}
Trimmed(typed) == IF typed = "anna " THEN "anna" ELSE typed
FilterStates == [mode : Modes, facets : SUBSET Facets, text : Texts]

\* filtersToQuery and filtersToApiQuery: the address and the API are told the same, under
\* other names.  The mode is always written.
Query(f) == [f EXCEPT !.text = Trimmed(f.text)]
NoQuery == [mode |-> "absent", facets |-> {}, text |-> ""]

\* The mode of an address that names none, or none there is.
DefaultMode(intentPossible) == IF intentPossible THEN "intent" ELSE "all"
FromQuery(query, intentPossible) ==
    [query EXCEPT !.mode = IF @ \in Modes THEN @ ELSE DefaultMode(intentPossible)]

\* `overtaken` is history: what is shown was written by a load that had been overtaken.
Loading == [what |-> "loading", of |-> NoQuery, overtaken |-> FALSE]
StripLoading == [what |-> "loading", of |-> "nothing", overtaken |-> FALSE]

LoadNames == 0..MaxChanges
NoLoad == [at |-> "none", of |-> NoQuery, rec |-> "nothing", cancelled |-> FALSE,
           overtaken |-> FALSE, directory |-> "none", recs |-> "none"]
LoadOf(f, mode) == [NoLoad EXCEPT !.at = "asked", !.of = Query(f), !.rec = mode]

UnderWay(l) == loads[l].at # "none" /\ ~loads[l].cancelled

\* The page as it is drawn first, and again whenever it is left and opened.
PageOf(f) ==
    /\ recMode' = "useful"
    /\ address' = Query(f)
    /\ members' = Loading /\ strip' = StripLoading
    /\ shut' = FALSE
    /\ changed' = 0
    /\ loads' = [l \in LoadNames |-> IF l = 0 THEN LoadOf(f, "useful") ELSE NoLoad]

DirectoryInit ==
    \E query \in {NoQuery, [mode |-> "unknown", facets |-> Facets, text |-> "anna"]},
       intentPossible \in BOOLEAN :
        /\ filters = FromQuery(query, intentPossible)
        /\ recMode = "useful"
        /\ address = Query(filters)
        /\ members = Loading /\ strip = StripLoading
        /\ shut = FALSE
        /\ changed = 0
        /\ loads = [l \in LoadNames |-> IF l = 0 THEN LoadOf(filters, recMode) ELSE NoLoad]

-----------------------------------------------------------------------------
(* The member *)

\* The clean-up of the effect cancels the load under way; one that waits for a body has
\* passed its check already.
Cancelled ==
    [l \in LoadNames |->
        IF UnderWay(l)
        THEN [loads[l] EXCEPT !.cancelled = TRUE, !.overtaken = @ \/ loads[l].at # "asked"]
        ELSE loads[l]]

\* Both effects follow a change: the address is replaced and a load starts.
Apply(f, mode) ==
    /\ ~shut /\ changed < MaxChanges
    /\ <<f, mode>> # <<filters, recMode>>
    /\ filters' = f /\ recMode' = mode
    /\ address' = Query(f)
    /\ changed' = changed + 1
    /\ loads' = [Cancelled EXCEPT ![changed + 1] = LoadOf(f, mode)]
    /\ UNCHANGED <<members, strip, shut>>

ChooseMode(mode) == Apply([filters EXCEPT !.mode = mode], recMode)
ChooseFacet(facet) ==
    \/ Apply([filters EXCEPT !.facets = @ \cup {facet}], recMode)
    \/ Apply([filters EXCEPT !.facets = @ \ {facet}], recMode)
Search(typed) == Apply([filters EXCEPT !.text = typed], recMode)
ChooseRecMode(mode) == Apply(filters, mode)

\* Offered under a narrowed list, and once the list is there.
HasFilters == filters.facets # {} \/ Trimmed(filters.text) # ""
ClearFilters == HasFilters /\ Apply([filters EXCEPT !.facets = {}, !.text = ""], recMode)
ShowEveryone == members.what # "loading" /\ ChooseMode("all")

\* The page is left and opened again: from the address as it stands, or from one without
\* a query.
OpenPage(query, intentPossible) ==
    /\ filters' = FromQuery(query, intentPossible)
    /\ PageOf(filters')

-----------------------------------------------------------------------------
(* A load *)

ListOf(l, what) ==
    [what |-> what, overtaken |-> loads[l].overtaken,
     of |-> IF what = "list" THEN loads[l].of ELSE NoQuery]
StripOf(l, what) ==
    [what |-> what, overtaken |-> loads[l].overtaken,
     of |-> IF what = "list" THEN loads[l].rec ELSE "nothing"]

\* The directory is dealt with: the recommendations' answer comes next, its body last.
ThenRecommendations(l, answer) ==
    IF answer = "ok"
    THEN loads' = [loads EXCEPT ![l].at = "recs"] /\ UNCHANGED strip
    ELSE loads' = [loads EXCEPT ![l] = NoLoad] /\ strip' = StripOf(l, "nobody")

\* The mutant of BothAnswered: no check after the answers.
UncheckedAnswers(l, directory, recs) ==
    /\ loads[l].at = "asked"
    /\ \/ /\ directory \in {"ok", "closed"}
          /\ loads' = [loads EXCEPT ![l].at = "directory", ![l].directory = directory,
                                    ![l].recs = recs]
          /\ UNCHANGED <<members, strip>>
       \/ /\ directory = "error"
          /\ members' = ListOf(l, "nobody")
          /\ ThenRecommendations(l, recs)
    /\ UNCHANGED <<filters, recMode, address, shut, changed>>

\* Both answers are there.
BothAnswered(l, directory, recs) ==
    /\ loads[l].at = "asked"
    /\ \/ /\ loads[l].cancelled
          /\ loads' = [loads EXCEPT ![l] = NoLoad]
          /\ UNCHANGED <<members, strip>>
       \/ /\ ~loads[l].cancelled
          /\ directory \in {"ok", "closed"}
          /\ loads' = [loads EXCEPT ![l].at = "directory", ![l].directory = directory,
                                    ![l].recs = recs]
          /\ UNCHANGED <<members, strip>>
       \/ /\ ~loads[l].cancelled
          /\ directory = "error"
          /\ members' = ListOf(l, "nobody")
          /\ ThenRecommendations(l, recs)
    /\ UNCHANGED <<filters, recMode, address, shut, changed>>

\* The directory's body is read; without one nobody is listed, and a 403 without a code
\* is not taken for a closed directory.
DirectoryRead(l, readable) ==
    /\ loads[l].at = "directory"
    /\ shut' = (shut \/ (loads[l].directory = "closed" /\ readable))
    /\ members' = ListOf(l, IF loads[l].directory = "ok" /\ readable THEN "list" ELSE "nobody")
    /\ ThenRecommendations(l, loads[l].recs)
    /\ UNCHANGED <<filters, recMode, address, changed>>

RecommendationsRead(l, readable) ==
    /\ loads[l].at = "recs"
    /\ strip' = StripOf(l, IF readable THEN "list" ELSE "nobody")
    /\ loads' = [loads EXCEPT ![l] = NoLoad]
    /\ UNCHANGED <<filters, recMode, address, members, shut, changed>>

NetworkFails(l) ==
    /\ loads[l].at = "asked"
    /\ members' = IF loads[l].cancelled THEN members ELSE ListOf(l, "nobody")
    /\ strip' = IF loads[l].cancelled THEN strip ELSE StripOf(l, "nobody")
    /\ loads' = [loads EXCEPT ![l] = NoLoad]
    /\ UNCHANGED <<filters, recMode, address, shut, changed>>

DirectoryNext ==
    \/ \E mode \in Modes : ChooseMode(mode)
    \/ \E facet \in Facets : ChooseFacet(facet)
    \/ \E typed \in {"", "anna "} : Search(typed)
    \/ \E mode \in RecModes : ChooseRecMode(mode)
    \/ ClearFilters \/ ShowEveryone
    \/ \E query \in {address, NoQuery}, intentPossible \in BOOLEAN :
          OpenPage(query, intentPossible)
    \/ \E l \in LoadNames :
          \/ \E directory \in {"ok", "closed", "error"}, recs \in {"ok", "error"} :
                BothAnswered(l, directory, recs)
          \/ \E readable \in BOOLEAN : DirectoryRead(l, readable) \/ RecommendationsRead(l, readable)
          \/ NetworkFails(l)

DirectorySpec == DirectoryInit /\ [][DirectoryNext]_directoryVars

-----------------------------------------------------------------------------
(* Properties *)

QueryRecord == [mode : Modes \cup {"absent"}, facets : SUBSET Facets, text : Texts]
LoadRecord == [at : {"none", "asked", "directory", "recs"}, of : QueryRecord,
               rec : RecModes \cup {"nothing"}, cancelled : BOOLEAN, overtaken : BOOLEAN,
               directory : {"none", "ok", "closed"}, recs : {"none", "ok", "error"}]

DirectoryTypeOK ==
    /\ filters \in FilterStates /\ recMode \in RecModes /\ address \in FilterStates
    /\ members \in [what : {"loading", "list", "nobody"}, of : QueryRecord,
                    overtaken : BOOLEAN]
    /\ strip \in [what : {"loading", "list", "nobody"}, of : RecModes \cup {"nothing"},
                  overtaken : BOOLEAN]
    /\ shut \in BOOLEAN
    /\ changed \in LoadNames
    /\ loads \in [LoadNames -> LoadRecord]

\* What the panel draws: the hint under the tabs is the mode's, and the list whatever was
\* written last.
Panel ==
    IF shut THEN [hint |-> "closed", mode |-> "none", list |-> Loading.of, named |-> FALSE]
    ELSE [hint |-> filters.mode, mode |-> recMode, list |-> members.of,
          named |-> members.what = "list"]

\* Once no load is under way, the list under the filters and the recommendations under
\* their mode are the ones asked with them, however the answers to earlier filters came
\* in, and the address opens the same list; a load that was overtaken while its bodies
\* were read is the exception (its check is behind it).
ListIsOfItsFilters ==
    (~shut /\ ~\E l \in LoadNames : UnderWay(l)) =>
        /\ (Panel.named /\ ~members.overtaken) =>
              /\ Panel.list = Query(filters)
              /\ Panel.list.mode = Panel.hint
              /\ \A intentPossible \in BOOLEAN :
                    Query(FromQuery(address, intentPossible)) = members.of
        /\ (strip.what = "list" /\ ~strip.overtaken) => strip.of = recMode
        /\ members.what # "loading" /\ strip.what # "loading"
=============================================================================
