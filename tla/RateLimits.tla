----------------------------- MODULE RateLimits -----------------------------
(***************************************************************************)
(* The token buckets of one server process: a bucket per route and caller, *)
(* refilled at capacity / window, held in a map that is pruned when it has *)
(* grown past a bound.  Levels are kept in tokens times the window, which  *)
(* makes the refill of one unit of time the capacity and all of it exact.  *)
(* The clock is assumed not to be set back.                                *)
(***************************************************************************)
EXTENDS Naturals, Sequences, FiniteSets

CONSTANTS
    Buckets,      \* keys: a route and an address, or a route and an account
    Hourly,       \* the keys of the import routes, whose window is the longer one
    Capacity,     \* tokens of a full bucket
    Minute, Hour, \* the two windows, in units of time
    MaxBuckets,   \* the number of buckets beyond which a call prunes
    MaxNow        \* bound: the clock stops here

ASSUME LimitsAssumption ==
    /\ Hourly \subseteq Buckets
    /\ Capacity \in Nat \ {0} /\ Minute \in Nat \ {0} /\ Hour \in Nat /\ Minute <= Hour

VARIABLES
    now,
    bucket,     \* the map: level and time of the last call, by key
    granted     \* history: the times of the calls let through since the start

limitVars == <<now, bucket, granted>>

Window(k) == IF k \in Hourly THEN Hour ELSE Minute
Absent == [level |-> 0, last |-> 0, here |-> FALSE]

LimitsTypeOK ==
    /\ now \in 0..MaxNow
    /\ bucket \in [Buckets -> [level : 0..(Capacity * Hour), last : 0..MaxNow, here : BOOLEAN]]
    /\ \A k \in Buckets : granted[k] \in Seq(0..MaxNow)

LimitsInit ==
    /\ now = 0
    /\ bucket = [k \in Buckets |-> Absent]
    /\ granted = [k \in Buckets |-> <<>>]

-----------------------------------------------------------------------------
\* What a bucket holds at this moment: a new one is full.
Level(k, b) ==
    LET full == Capacity * Window(k)
        refilled == b.level + (now - b.last) * Capacity
    IN IF ~b.here \/ refilled > full THEN full ELSE refilled

\* Mutant: pruning empties the map.
Anything(k, b) == b.here

\* Past the bound, a call first drops what has rested longer than ITS OWN window.
Stale(k, b) == b.here /\ now - b.last > Window(k)
Pruned(k) ==
    IF Cardinality({j \in Buckets : bucket[j].here}) > MaxBuckets
    THEN [j \in Buckets |-> IF Stale(k, bucket[j]) THEN Absent ELSE bucket[j]]
    ELSE bucket

LetThrough(k) == Level(k, Pruned(k)[k]) >= Window(k)

\* consumeToken: prune, take, store; a refusal stores what was refilled.
Take(k) ==
    LET level == Level(k, Pruned(k)[k]) IN
    /\ bucket' = [Pruned(k) EXCEPT ![k] =
           [level |-> IF LetThrough(k) THEN level - Window(k) ELSE level,
            last |-> now, here |-> TRUE]]
    /\ granted' = IF LetThrough(k) THEN [granted EXCEPT ![k] = Append(@, now)] ELSE granted
    /\ UNCHANGED now

Elapse ==
    /\ now < MaxNow
    /\ now' = now + 1
    /\ UNCHANGED <<bucket, granted>>

\* The process dies with its map.
RestartProcess ==
    /\ bucket' = [k \in Buckets |-> Absent]
    /\ granted' = [k \in Buckets |-> <<>>]
    /\ UNCHANGED now

LimitsNext == (\E k \in Buckets : Take(k)) \/ Elapse \/ RestartProcess

LimitsSpec == LimitsInit /\ [][LimitsNext]_limitVars

-----------------------------------------------------------------------------
\* One more call now keeps every span that ends now within the budget: as many calls
\* as a full bucket holds, and what the span's length refills.
WithinBudget(k) ==
    LET times == granted[k] IN
    \A i \in 1..Len(times) :
        (Len(times) - i + 2) * Window(k) <= Capacity * Window(k) + (now - times[i]) * Capacity

(***************************************************************************)
(* A call is let through exactly when every span of time that ends with it *)
(* stays within capacity and refill, whatever was refused in between and   *)
(* however often the map was pruned.  For the buckets with the longer      *)
(* window only half of it holds: they are never refused too early, but a   *)
(* call with the shorter window may drop them before they are full again.  *)
(***************************************************************************)
BudgetExact ==
    \A k \in Buckets :
        /\ WithinBudget(k) => LetThrough(k)
        /\ (LetThrough(k) /\ k \notin Hourly) => WithinBudget(k)
=============================================================================
