------------------------------- MODULE Matching -------------------------------
(***************************************************************************)
(* Who is listed and who is recommended to whom at one event: the          *)
(* directory and the recommendations route over profiles, memberships,     *)
(* blocks and introductions that the members change meanwhile.             *)
(***************************************************************************)
EXTENDS Scoring

CONSTANTS
    Me,             \* the member whose lists are looked at
    Persons,        \* members, by their profile's id: a number, for its order
    Profiles,       \* what a profile may hold
    GoalLists,      \* the lists of goals one may choose
    ListLimit,      \* how many are recommended
    MaxChanges      \* bounds the number of changes

ASSUME MatchingAssumption ==
    /\ Persons \subseteq Nat /\ IsFiniteSet(Persons) /\ Me \in Persons /\ ListLimit \in Nat
    /\ Profiles # {}
    /\ \A p \in Profiles : \A s \in {p.needs, p.interests, p.wants, p.has} : IsFiniteSet(s)
    /\ \A list \in GoalLists : IsFiniteSet(DOMAIN list)

VARIABLES
    mode,           \* the mode chosen for the recommendations
    profile,        \* each one's profile
    goals,          \* each one's goals, in order of priority; private
    member,         \* each one's membership, with its own interests for the event
    recency,        \* how lately each one was seen
    blocks,         \* pairs of a blocker and the one blocked
    intro,          \* each pair's introduction at this event
    closed,         \* the directory is closed
    changes         \* how many changes were made

matchingVars == <<mode, profile, goals, member, recency, blocks, intro, closed, changes>>

Couples == {{p, q} : p, q \in Persons} \ {{p} : p \in Persons}
IntroStates == {"none", "pending", "mutual", "declined", "declined long ago"}

Joined == [active |-> TRUE, visible |-> TRUE, matching |-> TRUE, account |-> TRUE,
           interests |-> {}]

MatchingInit ==
    /\ mode \in Modes
    /\ profile \in [Persons -> Profiles]
    /\ \E list \in GoalLists : goals = [p \in Persons |-> list]
    /\ member = [p \in Persons |-> Joined]
    /\ recency = [p \in Persons |-> 0]
    /\ blocks = {}
    /\ intro = [couple \in Couples |-> "none"]
    /\ closed = FALSE
    /\ changes = 0

-----------------------------------------------------------------------------
(* What the routes read *)

\* A list of the membership wins over the profile's unless it is empty.
Interests(p) == IF member[p].interests = {} THEN profile[p].interests ELSE member[p].interests

Candidate(p) ==
    LET own == NormalProfile(profile[p]) IN
    [needs |-> own.needs, offers |-> own.offers, interests |-> Interests(p),
     function |-> own.function, industry |-> own.industry,
     id |-> p, recency |-> recency[p], goals |-> <<>>]

Viewer(p) == [Candidate(p) EXCEPT !.goals = goals[p], !.recency = 0]

Blocked(p, q) == <<p, q>> \in blocks \/ <<q, p>> \in blocks

\* Mutant: only the viewer's own blocks hide a member.
OwnBlocks(p, q) == <<p, q>> \in blocks

HiddenFrom(p, q) == Blocked(p, q)

ShareLanguage(p, q) ==
    LET l == profile[p].languages  m == profile[q].languages IN
    l \cap m # {} \/ l = {} \/ m = {}

\* The directory of all members.
Directory(v) ==
    IF ~member[v].active \/ closed THEN {}
    ELSE {q \in Persons \ {v} : /\ member[q].active /\ member[q].visible /\ member[q].account
                                /\ ~Blocked(v, q)}

\* The candidates of the recommendations.
Eligible(v) ==
    IF ~member[v].active \/ ~member[v].matching THEN {}
    ELSE {q \in Persons \ {v} :
            /\ member[q].active /\ member[q].visible /\ member[q].matching /\ member[q].account
            /\ ~HiddenFrom(v, q)
            /\ ShareLanguage(v, q)
            /\ intro[{v, q}] \in {"none", "declined long ago"}}

Pending(q) == Cardinality({couple \in Couples : q \in couple /\ intro[couple] = "pending"})

Ranked == RankedCandidates(mode, Viewer(Me), {Candidate(q) : q \in Eligible(Me)}, ListLimit)

\* Those the ranking left out whose tags fit both ways ...
Fitting(ranked) ==
    {q \in Eligible(Me) \ {c.id : c \in Range(ranked)} : TagFits(profile[Me], profile[q])}

\* ... by score, by requests waiting, by id.
Before(p, q) ==
    LET s == TagScore(profile[Me], profile[p])
        t == TagScore(profile[Me], profile[q]) IN
    \/ s > t
    \/ s = t /\ Pending(p) < Pending(q)
    \/ s = t /\ Pending(p) = Pending(q) /\ p < q

TagMatches(ranked) ==
    LET fits == Fitting(ranked) IN
    [i \in 1 .. Cardinality(fits) |->
        CHOOSE q \in fits : Cardinality({p \in fits : Before(p, q)}) = i - 1]

Recommended ==
    LET ranked == Ranked
        list == [i \in DOMAIN ranked |-> ranked[i].id] \o TagMatches(ranked) IN
    SubSeq(list, 1, LesserOf(ListLimit, Len(list)))

-----------------------------------------------------------------------------
(* What the members do *)

Changed == changes < MaxChanges /\ changes' = changes + 1

SetGoals(p, list) ==
    /\ Changed /\ goals' = [goals EXCEPT ![p] = list]
    /\ UNCHANGED <<mode, profile, member, recency, blocks, intro, closed>>

\* A profile is saved, or an event's own interests; the first is a signal of life.
EditProfile(p, new) ==
    /\ Changed /\ profile' = [profile EXCEPT ![p] = new]
    /\ recency' = [recency EXCEPT ![p] = changes + 1]
    /\ UNCHANGED <<mode, goals, member, blocks, intro, closed>>

EditMembership(p) ==
    /\ Changed
    /\ \/ \E flag \in {"active", "visible", "matching", "account"} :
             member' = [member EXCEPT ![p][flag] = ~@]
       \/ \E interests \in SUBSET {"hiring", "climate"} :
             member' = [member EXCEPT ![p].interests = interests]
    /\ UNCHANGED <<mode, profile, goals, recency, blocks, intro, closed>>

\* A session is used.
BeSeen(p) ==
    /\ Changed /\ recency' = [recency EXCEPT ![p] = changes + 1]
    /\ UNCHANGED <<mode, profile, goals, member, blocks, intro, closed>>

ToggleBlock(p, q) ==
    /\ Changed
    /\ blocks' = IF <<p, q>> \in blocks THEN blocks \ {<<p, q>>} ELSE blocks \cup {<<p, q>>}
    /\ UNCHANGED <<mode, profile, goals, member, recency, intro, closed>>

\* An introduction is asked for, answered, or its cooldown ends; there is one row for ever.
MoveIntro(couple) ==
    /\ Changed
    /\ \/ /\ intro[couple] = "none"
          /\ \A p, q \in couple : member[p].active /\ ~Blocked(p, q)
          /\ intro' = [intro EXCEPT ![couple] = "pending"]
       \/ /\ intro[couple] = "pending"
          /\ \E answer \in {"mutual", "declined"} : intro' = [intro EXCEPT ![couple] = answer]
       \/ /\ intro[couple] = "declined"
          /\ intro' = [intro EXCEPT ![couple] = "declined long ago"]
    /\ UNCHANGED <<mode, profile, goals, member, recency, blocks, closed>>

Close ==
    /\ ~closed /\ closed' = TRUE
    /\ UNCHANGED <<mode, profile, goals, member, recency, blocks, intro, changes>>

MatchingNext ==
    \/ \E p \in Persons :
          \/ \E list \in GoalLists : SetGoals(p, list)
          \/ \E new \in Profiles : EditProfile(p, new)
          \/ EditMembership(p) \/ BeSeen(p)
          \/ \E q \in Persons \ {p} : ToggleBlock(p, q)
    \/ \E couple \in Couples : MoveIntro(couple)
    \/ Close

MatchingSpec == MatchingInit /\ [][MatchingNext]_matchingVars

-----------------------------------------------------------------------------
Memberships ==
    [active : BOOLEAN, visible : BOOLEAN, matching : BOOLEAN, account : BOOLEAN,
     interests : SUBSET {"hiring", "climate"}]

MatchingTypeOK ==
    /\ mode \in Modes /\ changes \in Nat
    /\ profile \in [Persons -> Profiles]
    /\ goals \in [Persons -> GoalLists \cup {<<>>}]
    /\ member \in [Persons -> Memberships]
    /\ recency \in [Persons -> Nat]
    /\ blocks \subseteq Persons \X Persons
    /\ intro \in [Couples -> IntroStates]

\* Whoever the ranking lets through, in whatever mode, comes with a reason: the gates, the
\* components and the two lines of reasons are written apart and have to agree.
PicksExplained ==
    \A c \in Range(Ranked) :
        UsefulReasons(Viewer(Me), c) # <<>> \/ GrowthReasons(Viewer(Me), c) # <<>>

\* Nobody is recommended whom the open directory does not show: the two routes filter the
\* members apart, each with a query of its own.
RecommendedAreListed == ~closed => Range(Recommended) \subseteq Directory(Me)
===============================================================================
