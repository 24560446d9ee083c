------------------------------- MODULE MCPeople -------------------------------
(***************************************************************************)
(* What one person does with the product beside introductions, and what    *)
(* the demo does with it: the public card, filling it in from the web, a   *)
(* meeting in the calendar, the demo's data.  They share no state: one run *)
(* checks them all, each from its own initial states, with the others at   *)
(* rest in theirs.  They also share the model values: what is x1 to one    *)
(* component has nothing to do with what is x1 to another.                 *)
(***************************************************************************)
EXTENDS ProfileCard, Enrichment, MeetingCalendar, DemoData, TLC

CONSTANTS a1, a2, f1, x1, x2, y1, y2

VARIABLE part

ListedPair == {{x1, x2}}

Parts == {"card", "enrichment", "calendar", "demo"}

PeopleInit ==
    /\ part \in Parts
    /\ CardInit
    /\ EnrichmentInit /\ (part # "enrichment" => provider = "disabled" /\ ~hasProfile)
    /\ CalendarInit
    /\ part # "calendar" => grantState = "connected" /\ \A c \in Cards : card[c].control = "ready"
    /\ DemoInit /\ (part # "demo" => \A p \in Listed : account[p])

PeopleNext ==
    /\ UNCHANGED part
    /\ \/ part = "card" /\ CardNext /\ UNCHANGED <<fillVars, calendarVars, demoVars>>
       \/ part = "enrichment" /\ EnrichmentNext /\ UNCHANGED <<cardVars, calendarVars, demoVars>>
       \/ part = "calendar" /\ CalendarNext /\ UNCHANGED <<cardVars, fillVars, demoVars>>
       \/ part = "demo" /\ DemoNext /\ UNCHANGED <<cardVars, fillVars, calendarVars>>

peopleVars == <<part, cardVars, fillVars, calendarVars, demoVars>>

PeopleSpec == PeopleInit /\ [][PeopleNext]_peopleVars

PeopleSymmetry == Permutations({x1, x2}) \cup Permutations({y1, y2})

-----------------------------------------------------------------------------
\* Every variable of every component keeps to its type.
PeopleTypesOK == CardTypeOK /\ EnrichmentTypeOK /\ CalendarTypeOK /\ DemoTypeOK
===============================================================================
