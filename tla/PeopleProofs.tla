----------------------------- MODULE PeopleProofs -----------------------------
(***************************************************************************)
(* What holds of one person's public card, of filling it in from the web,  *)
(* of the meeting in the calendar and of the demo's data, for any number   *)
(* of forms, requests, presses and runs.                                   *)
(***************************************************************************)
EXTENDS MCPeople, FiniteSetTheorems, TLAPS

-----------------------------------------------------------------------------
(* Filling in from the web *)

Paid == {r \in Fills : fill[r].phase \in {"calling", "done"}}
Untried == {r \in Fills : fill[r].phase = "calling" /\ fill[r].calls = 0}
Retried == {r \in Fills : fill[r].phase = "calling" /\ fill[r].calls = 1}

(* A request that has taken quota still has two calls to make, one after   *)
(* its first: what was asked and what may still be asked stay within twice *)
(* the charge.  A request between the count and its row is room that the   *)
(* ledger has promised already; the most of them there ever were is what   *)
(* the limit may be passed by.                                             *)
FillInv ==
    /\ EnrichmentTypeOK
    /\ \A r \in Fills : fill[r].calls \in 0 .. 1 /\ (fill[r].phase # "calling" => fill[r].calls = 0)
    /\ ledger <= charged /\ charged <= Cardinality(Paid)
    /\ ledger + Cardinality(Between) <= HourlyMax - 1 + peak
    /\ asked + 2 * Cardinality(Untried) + Cardinality(Retried) <= 2 * charged
    /\ provider = "disabled" => charged = 0 /\ Between = {}

\* T is S but for r, and its size says which way.
Resized(T, S, r) ==
    /\ Cardinality(S) \in Nat /\ Cardinality(T) \in Nat
    /\ r \in T /\ r \notin S => Cardinality(T) = Cardinality(S) + 1
    /\ r \notin T /\ r \in S => Cardinality(T) = Cardinality(S) - 1
    /\ (r \in T <=> r \in S) => Cardinality(T) = Cardinality(S)

LEMMA OneElement ==
    ASSUME NEW S, IsFiniteSet(S), NEW T, NEW r,
           \A q : q # r => (q \in T <=> q \in S)
    PROVE  Resized(T, S, r)
<1>1. /\ Cardinality(S) \in Nat
      /\ IsFiniteSet(S \cup {r}) /\ IsFiniteSet(S \ {r})
      /\ r \notin S => Cardinality(S \cup {r}) = Cardinality(S) + 1
      /\ r \in S => Cardinality(S \ {r}) = Cardinality(S) - 1
    BY FS_CardinalityType, FS_AddElement, FS_RemoveElement
<1>2. /\ T = IF r \in T THEN S \cup {r} ELSE S \ {r}
      /\ r \in S => S \cup {r} = S
      /\ r \notin S => S \ {r} = S
    OBVIOUS
<1>3. IsFiniteSet(T) /\ Cardinality(T) \in Nat
    BY <1>1, <1>2, FS_CardinalityType
<1> QED
    BY <1>1, <1>2, <1>3 DEF Resized

LEMMA FillSets ==
    FillInv => /\ IsFiniteSet(Between) /\ IsFiniteSet(Paid)
               /\ IsFiniteSet(Untried) /\ IsFiniteSet(Retried)
               /\ Cardinality(Fills) \in Nat
<1>1. IsFiniteSet(Fills) /\ Cardinality(Fills) \in Nat
    BY EnrichmentAssumption, FS_CardinalityType
<1>2. Between \subseteq Fills /\ Paid \subseteq Fills
      /\ Untried \subseteq Fills /\ Retried \subseteq Fills
    BY DEF Between, Paid, Untried, Retried
<1> QED
    BY <1>1, <1>2, FS_Subset

\* One request moves on: what that does to the four sets.
LEMMA FillMoves ==
    ASSUME FillInv, NEW r \in Fills, NEW x \in FillRecord, fill' = [fill EXCEPT ![r] = x]
    PROVE  /\ fill' \in [Fills -> FillRecord] /\ fill'[r] = x
           /\ \A q \in Fills \ {r} : fill'[q] = fill[q]
           /\ r \in Between <=> fill[r].phase = "counted"
           /\ r \in Between' <=> x.phase = "counted"
           /\ Resized(Between', Between, r)
           /\ r \in Paid <=> fill[r].phase \in {"calling", "done"}
           /\ r \in Paid' <=> x.phase \in {"calling", "done"}
           /\ Resized(Paid', Paid, r)
           /\ r \in Untried <=> fill[r].phase = "calling" /\ fill[r].calls = 0
           /\ r \in Untried' <=> x.phase = "calling" /\ x.calls = 0
           /\ Resized(Untried', Untried, r)
           /\ r \in Retried <=> fill[r].phase = "calling" /\ fill[r].calls = 1
           /\ r \in Retried' <=> x.phase = "calling" /\ x.calls = 1
           /\ Resized(Retried', Retried, r)
           /\ Cardinality(Between') <= Cardinality(Fills)
           /\ Cardinality(Paid') <= Cardinality(Fills)
           /\ x.phase # "counted" /\ Between = {} => Between' = {}
<1>1. fill \in [Fills -> FillRecord]
    BY DEF FillInv, EnrichmentTypeOK
<1>2. /\ fill' \in [Fills -> FillRecord] /\ fill'[r] = x
      /\ \A q \in Fills \ {r} : fill'[q] = fill[q]
    BY <1>1
<1>3. /\ IsFiniteSet(Between) /\ IsFiniteSet(Paid)
      /\ IsFiniteSet(Untried) /\ IsFiniteSet(Retried)
    BY FillSets
<1>4. /\ r \in Between <=> fill[r].phase = "counted"
      /\ r \in Between' <=> x.phase = "counted"
      /\ Resized(Between', Between, r)
    <2>1. /\ r \in Between <=> fill[r].phase = "counted"
          /\ r \in Between' <=> x.phase = "counted"
          /\ \A q : q # r => (q \in Between' <=> q \in Between)
        BY <1>2 DEF Between
    <2> QED
        BY <2>1, <1>3, OneElement
<1>5. /\ r \in Paid <=> fill[r].phase \in {"calling", "done"}
      /\ r \in Paid' <=> x.phase \in {"calling", "done"}
      /\ Resized(Paid', Paid, r)
    <2>1. /\ r \in Paid <=> fill[r].phase \in {"calling", "done"}
          /\ r \in Paid' <=> x.phase \in {"calling", "done"}
          /\ \A q : q # r => (q \in Paid' <=> q \in Paid)
        BY <1>2 DEF Paid
    <2> QED
        BY <2>1, <1>3, OneElement
<1>6. /\ r \in Untried <=> fill[r].phase = "calling" /\ fill[r].calls = 0
      /\ r \in Untried' <=> x.phase = "calling" /\ x.calls = 0
      /\ Resized(Untried', Untried, r)
    <2>1. /\ r \in Untried <=> fill[r].phase = "calling" /\ fill[r].calls = 0
          /\ r \in Untried' <=> x.phase = "calling" /\ x.calls = 0
          /\ \A q : q # r => (q \in Untried' <=> q \in Untried)
        BY <1>2 DEF Untried
    <2> QED
        BY <2>1, <1>3, OneElement
<1>7. /\ r \in Retried <=> fill[r].phase = "calling" /\ fill[r].calls = 1
      /\ r \in Retried' <=> x.phase = "calling" /\ x.calls = 1
      /\ Resized(Retried', Retried, r)
    <2>1. /\ r \in Retried <=> fill[r].phase = "calling" /\ fill[r].calls = 1
          /\ r \in Retried' <=> x.phase = "calling" /\ x.calls = 1
          /\ \A q : q # r => (q \in Retried' <=> q \in Retried)
        BY <1>2 DEF Retried
    <2> QED
        BY <2>1, <1>3, OneElement
<1>8. Cardinality(Between') <= Cardinality(Fills) /\ Cardinality(Paid') <= Cardinality(Fills)
    <2>1. Between' \subseteq Fills /\ Paid' \subseteq Fills
        BY DEF Between, Paid
    <2> QED
        BY <2>1, EnrichmentAssumption, FS_Subset
<1>9. x.phase # "counted" /\ Between = {} => Between' = {}
    BY <1>2 DEF Between
<1> QED
    BY <1>2, <1>4, <1>5, <1>6, <1>7, <1>8, <1>9

LEMMA InitFill == EnrichmentInit => FillInv
<1> SUFFICES ASSUME EnrichmentInit PROVE FillInv
    OBVIOUS
<1>1. Between = {} /\ Paid = {} /\ Untried = {} /\ Retried = {}
    BY DEF EnrichmentInit, NewFill, Between, Paid, Untried, Retried
<1>2. Cardinality(Between) = 0 /\ Cardinality(Paid) = 0
      /\ Cardinality(Untried) = 0 /\ Cardinality(Retried) = 0
    BY <1>1, FS_EmptySet
<1>3. Cardinality(Fills) \in Nat /\ HourlyMax \in Nat \ {0} /\ Timeout \in Nat
    BY EnrichmentAssumption, FS_CardinalityType
<1>4. NewFill \in FillRecord /\ NewFill.calls = 0
    BY <1>3 DEF NewFill, FillRecord
<1>5. EnrichmentTypeOK
    BY <1>3, <1>4 DEF EnrichmentInit, EnrichmentTypeOK, Errors
<1> QED
    BY <1>1, <1>2, <1>3, <1>4, <1>5 DEF EnrichmentInit, FillInv

LEMMA FillNumbers ==
    FillInv => /\ HourlyMax \in Nat \ {0} /\ Timeout \in Nat \ {0}
               /\ ledger \in Nat /\ charged \in Nat /\ peak \in Nat /\ asked \in Nat
               /\ Cardinality(Fills) \in Nat
BY EnrichmentAssumption, FillSets DEF FillInv, EnrichmentTypeOK

\* A request that moves on without taking quota or the provider's time.
LEMMA FillMovesOn ==
    ASSUME FillInv, NEW r \in Fills, NEW x \in FillRecord, fill' = [fill EXCEPT ![r] = x],
           x.phase # "counted" \/ fill[r].phase = "counted",
           x.phase = "calling" => fill[r].phase = "calling" /\ x.calls = fill[r].calls,
           fill[r].phase \in {"calling", "done"} => x.phase \in {"calling", "done"},
           x.phase # "calling" => x.calls = 0,
           panel' \in [Panels -> {"idle", "busy", "draft", "degraded"} \cup Errors],
           UNCHANGED <<provider, hasProfile, ledger, asked, charged, peak>>
    PROVE  FillInv'
<1> USE DEF FillInv
<1>1. EnrichmentTypeOK'
    BY FillMoves DEF EnrichmentTypeOK
<1>2. \A q \in Fills : fill'[q].calls \in 0 .. 1
                       /\ (fill'[q].phase # "calling" => fill'[q].calls = 0)
    BY FillMoves
<1>3. /\ Cardinality(Between') <= Cardinality(Between)
      /\ Cardinality(Paid') >= Cardinality(Paid)
      /\ Cardinality(Untried') <= Cardinality(Untried)
      /\ Cardinality(Retried') <= Cardinality(Retried)
      /\ Cardinality(Between') \in Nat /\ Cardinality(Between) \in Nat
      /\ Cardinality(Paid') \in Nat /\ Cardinality(Paid) \in Nat
      /\ Cardinality(Untried') \in Nat /\ Cardinality(Untried) \in Nat
      /\ Cardinality(Retried') \in Nat /\ Cardinality(Retried) \in Nat
    <2> HIDE DEF FillInv
    <2>1. /\ r \in Between' => r \in Between
          /\ r \in Paid => r \in Paid'
          /\ r \in Untried' => r \in Untried
          /\ r \in Retried' => r \in Retried
        BY FillMoves
    <2>2. /\ Resized(Between', Between, r) /\ Resized(Paid', Paid, r)
          /\ Resized(Untried', Untried, r) /\ Resized(Retried', Retried, r)
        BY FillMoves
    <2> QED
        BY <2>1, <2>2 DEF Resized
<1>4. ledger' <= charged' /\ charged' <= Cardinality(Paid')
      /\ ledger' + Cardinality(Between') <= HourlyMax - 1 + peak'
      /\ asked' + 2 * Cardinality(Untried') + Cardinality(Retried') <= 2 * charged'
    BY <1>3, FillNumbers
<1>5. provider' = "disabled" => charged' = 0 /\ Between' = {}
    <2>1. provider = "disabled" => Between = {} /\ charged = 0
        OBVIOUS
    <2>2. Between = {} => fill[r].phase # "counted"
        BY DEF Between
    <2> QED
        BY <2>1, <2>2, FillMoves
<1> QED
    BY <1>1, <1>2, <1>4, <1>5

LEMMA Replied ==
    ASSUME FillInv, NEW r \in Fills,
           NEW shows \in {"idle", "busy", "draft", "degraded"} \cup Errors,
           Reply(r, shows)
    PROVE  /\ fill' = [fill EXCEPT ![r] = DoneFill]
           /\ DoneFill \in FillRecord /\ DoneFill.phase = "done" /\ DoneFill.calls = 0
           /\ panel' \in [Panels -> {"idle", "busy", "draft", "degraded"} \cup Errors]
BY FillNumbers DEF FillInv, EnrichmentTypeOK, Reply, DoneFill, NewFill, FillRecord

LEMMA PressInv ==
    ASSUME FillInv, NEW r \in Fills, NEW p \in Panels, Press(p, r)
    PROVE  FillInv'
<1>1. PICK x : x = [NewFill EXCEPT !.phase = "sent", !.from = p]
    OBVIOUS
<1>2. x \in FillRecord /\ x.phase = "sent" /\ x.calls = 0
    <2>1. x = [phase |-> "sent", from |-> p, left |-> 0, calls |-> 0]
        BY <1>1 DEF NewFill
    <2>2. 0 \in 0 .. Timeout
        BY FillNumbers
    <2> QED
        BY <2>1, <2>2 DEF FillRecord
<1>3. fill' = [fill EXCEPT ![r] = x]
      /\ panel' \in [Panels -> {"idle", "busy", "draft", "degraded"} \cup Errors]
    BY <1>1 DEF Press, FillInv, EnrichmentTypeOK
<1> QED
    BY <1>2, <1>3, FillMovesOn DEF Press

LEMMA CountInv ==
    ASSUME FillInv, NEW r \in Fills, Count(r)
    PROVE  FillInv'
<1>1. ASSUME NEW shows \in Errors, Reply(r, shows), UNCHANGED peak
      PROVE  FillInv'
    BY <1>1, Replied, FillMovesOn DEF Count
<1>2. CASE /\ provider = "enabled" /\ ~Limited
           /\ fill' = [fill EXCEPT ![r].phase = "counted"]
           /\ peak' = IF Cardinality(Between) + 1 > peak THEN Cardinality(Between) + 1 ELSE peak
           /\ UNCHANGED panel
    <2> USE DEF FillInv
    <2>1. PICK x : x = [fill[r] EXCEPT !.phase = "counted"]
        OBVIOUS
    <2>2. fill[r] \in FillRecord /\ fill[r].phase = "sent" /\ fill[r].calls = 0
        BY DEF Count, EnrichmentTypeOK
    <2>3. x \in FillRecord /\ x.phase = "counted" /\ x.calls = 0
        BY <2>1, <2>2 DEF FillRecord
    <2>4. fill' = [fill EXCEPT ![r] = x]
        BY <1>2, <2>1
    <2>5. /\ Cardinality(Between') = Cardinality(Between) + 1
          /\ Cardinality(Paid') = Cardinality(Paid)
          /\ Cardinality(Untried') = Cardinality(Untried)
          /\ Cardinality(Retried') = Cardinality(Retried)
          /\ Cardinality(Between) \in Nat /\ Cardinality(Between') <= Cardinality(Fills)
        BY <2>2, <2>3, <2>4, FillMoves DEF Resized
    <2>6. ledger < HourlyMax
        BY <1>2, FillNumbers DEF Limited
    <2>7. /\ peak' >= Cardinality(Between') /\ peak' \in 0 .. Cardinality(Fills)
          /\ UNCHANGED <<provider, hasProfile, ledger, asked, charged, panel>>
        BY <1>2, <2>5, FillNumbers DEF Count, EnrichmentTypeOK
    <2>8. EnrichmentTypeOK'
        BY <2>3, <2>4, <2>7, FillMoves DEF EnrichmentTypeOK
    <2>9. ledger' + Cardinality(Between') <= HourlyMax - 1 + peak'
        BY <2>5, <2>6, <2>7, FillNumbers
    <2>10. \A q \in Fills : fill'[q].calls \in 0 .. 1
                       /\ (fill'[q].phase # "calling" => fill'[q].calls = 0)
        BY <2>3, <2>4, FillMoves
    <2> QED
        BY <1>2, <2>5, <2>7, <2>8, <2>9, <2>10
<1> QED
    BY <1>1, <1>2 DEF Count, Errors

LEMMA ChargeInv ==
    ASSUME FillInv, NEW r \in Fills, Charge(r)
    PROVE  FillInv'
<1> USE DEF FillInv
<1>1. fill[r] \in FillRecord /\ fill[r].phase = "counted" /\ fill[r].calls = 0 /\ Between # {}
    BY DEF Charge, EnrichmentTypeOK, Between
<1>2. PICK x : /\ x \in FillRecord /\ x.calls = 0 /\ x.phase \in {"calling", "done"}
               /\ fill' = [fill EXCEPT ![r] = x]
               /\ panel' \in [Panels -> {"idle", "busy", "draft", "degraded"} \cup Errors]
    <2>1. CASE hasProfile
        <3>1. PICK x : x = [fill[r] EXCEPT !.phase = "calling", !.left = Timeout]
            OBVIOUS
        <3>2. x \in FillRecord /\ x.calls = 0 /\ x.phase = "calling"
            <4>1. Timeout \in 0 .. Timeout
                BY FillNumbers
            <4> QED
                BY <1>1, <3>1, <4>1 DEF FillRecord
        <3>3. fill' = [fill EXCEPT ![r] = x] /\ UNCHANGED panel
            BY <2>1, <3>1 DEF Charge
        <3> QED
            BY <3>2, <3>3 DEF EnrichmentTypeOK
    <2>2. CASE ~hasProfile
        BY <2>2, Replied DEF Charge, Errors
    <2> QED
        BY <2>1, <2>2
<1>3. /\ Cardinality(Between') = Cardinality(Between) - 1
      /\ Cardinality(Paid') = Cardinality(Paid) + 1
      /\ Cardinality(Untried') <= Cardinality(Untried) + 1
      /\ Cardinality(Retried') = Cardinality(Retried)
      /\ Cardinality(Between) \in Nat /\ Cardinality(Paid) \in Nat /\ Cardinality(Untried) \in Nat
      /\ Cardinality(Untried') \in Nat /\ Cardinality(Retried) \in Nat
      /\ Cardinality(Paid') <= Cardinality(Fills)
    <2> HIDE DEF FillInv
    <2>4. /\ r \in Between <=> fill[r].phase = "counted"
          /\ r \in Between' <=> x.phase = "counted"
          /\ r \in Paid <=> fill[r].phase \in {"calling", "done"}
          /\ r \in Paid' <=> x.phase \in {"calling", "done"}
          /\ r \in Untried <=> fill[r].phase = "calling" /\ fill[r].calls = 0
          /\ r \in Untried' <=> x.phase = "calling" /\ x.calls = 0
          /\ r \in Retried <=> fill[r].phase = "calling" /\ fill[r].calls = 1
          /\ r \in Retried' <=> x.phase = "calling" /\ x.calls = 1
        BY <1>2, FillMoves
    <2>1. /\ r \in Between /\ r \notin Between'
          /\ r \notin Paid /\ r \in Paid' /\ r \notin Untried
          /\ r \notin Retried /\ r \notin Retried'
        BY <1>1, <1>2, <2>4
    <2>2. /\ Resized(Between', Between, r) /\ Resized(Paid', Paid, r)
          /\ Resized(Untried', Untried, r) /\ Resized(Retried', Retried, r)
        BY <1>2, FillMoves
    <2>3. Cardinality(Paid') <= Cardinality(Fills)
        BY <1>2, FillMoves
    <2> QED
        BY <2>1, <2>2, <2>3 DEF Resized
<1>4. /\ ledger' = ledger + 1 /\ charged' = charged + 1
      /\ UNCHANGED <<provider, hasProfile, asked, peak>>
    BY DEF Charge
<1>5. /\ ledger' <= charged' /\ charged' <= Cardinality(Paid')
      /\ ledger' + Cardinality(Between') <= HourlyMax - 1 + peak'
      /\ asked' + 2 * Cardinality(Untried') + Cardinality(Retried') <= 2 * charged'
    BY <1>3, <1>4, FillNumbers
<1>6. ledger' \in 0 .. Cardinality(Fills) /\ charged' \in 0 .. Cardinality(Fills)
    BY <1>3, <1>4, <1>5, FillNumbers
<1>7. EnrichmentTypeOK'
    BY <1>2, <1>4, <1>6, FillMoves DEF EnrichmentTypeOK
<1>8. \A q \in Fills : fill'[q].calls \in 0 .. 1
                       /\ (fill'[q].phase # "calling" => fill'[q].calls = 0)
    BY <1>2, FillMoves
<1> QED
    BY <1>1, <1>4, <1>5, <1>7, <1>8

LEMMA AskProviderInv ==
    ASSUME FillInv, NEW r \in Fills, NEW took \in 1 .. Timeout,
           NEW outcome \in {"draft", "nothing", "failure"}, AskProvider(r, took, outcome)
    PROVE  FillInv'
<1> USE DEF FillInv
<1>1. /\ fill[r] \in FillRecord /\ fill[r].phase = "calling" /\ fill[r].calls \in 0 .. 1
      /\ took <= fill[r].left /\ asked' = asked + 1
      /\ UNCHANGED <<provider, hasProfile, ledger, charged, peak>>
    BY DEF AskProvider, EnrichmentTypeOK
<1>2. PICK x \in FillRecord :
          /\ fill' = [fill EXCEPT ![r] = x]
          /\ \/ x.phase = "done" /\ x.calls = 0
             \/ x.phase = "calling" /\ x.calls = 1 /\ fill[r].calls = 0
          /\ panel' \in [Panels -> {"idle", "busy", "draft", "degraded"} \cup Errors]
    <2>1. ASSUME NEW shows \in {"draft", "failed", "degraded"}, Reply(r, shows)
          PROVE  /\ fill' = [fill EXCEPT ![r] = DoneFill]
                 /\ DoneFill \in FillRecord /\ DoneFill.phase = "done" /\ DoneFill.calls = 0
                 /\ panel' \in [Panels -> {"idle", "busy", "draft", "degraded"} \cup Errors]
        BY <2>1, Replied DEF Errors
    <2>2. PICK left : left = fill[r].left - took
        OBVIOUS
    <2>3. ASSUME Retries(r, left), fill' = [fill EXCEPT ![r].left = left, ![r].calls = 1],
                 UNCHANGED panel
          PROVE  \E x \in FillRecord :
                     /\ fill' = [fill EXCEPT ![r] = x]
                     /\ x.phase = "calling" /\ x.calls = 1 /\ fill[r].calls = 0
                     /\ panel' \in [Panels -> {"idle", "busy", "draft", "degraded"} \cup Errors]
        <3>1. PICK x : x = [fill[r] EXCEPT !.left = left, !.calls = 1]
            OBVIOUS
        <3>2. left \in 0 .. Timeout
            BY <1>1, <2>2, FillNumbers DEF FillRecord
        <3>3. x \in FillRecord /\ x.phase = "calling" /\ x.calls = 1
            <4>1. 1 \in 0 .. 2
                OBVIOUS
            <4>2. x \in FillRecord
                BY <1>1, <3>1, <3>2, <4>1 DEF FillRecord
            <4>3. x.phase = "calling" /\ x.calls = 1
                BY <1>1, <3>1 DEF FillRecord
            <4> QED
                BY <4>2, <4>3
        <3>4. fill' = [fill EXCEPT ![r] = x]
            BY <2>3, <3>1
        <3> QED
            BY <2>3, <3>3, <3>4 DEF EnrichmentTypeOK, Retries
    <2>4. \/ Reply(r, "draft") \/ Reply(r, "failed") \/ Reply(r, "degraded")
          \/ /\ Retries(r, left) /\ fill' = [fill EXCEPT ![r].left = left, ![r].calls = 1]
             /\ UNCHANGED panel
        BY <2>2 DEF AskProvider
    <2> QED
        BY <2>1, <2>3, <2>4
<1>3. /\ Cardinality(Between') = Cardinality(Between)
      /\ Cardinality(Paid') = Cardinality(Paid)
      /\ 2 * Cardinality(Untried') + Cardinality(Retried') + 1
            <= 2 * Cardinality(Untried) + Cardinality(Retried)
      /\ Cardinality(Untried') \in Nat /\ Cardinality(Retried') \in Nat
      /\ Cardinality(Untried) \in Nat /\ Cardinality(Retried) \in Nat
    <2> HIDE DEF FillInv
    <2>4. /\ r \in Between <=> fill[r].phase = "counted"
          /\ r \in Between' <=> x.phase = "counted"
          /\ r \in Paid <=> fill[r].phase \in {"calling", "done"}
          /\ r \in Paid' <=> x.phase \in {"calling", "done"}
          /\ r \in Untried <=> fill[r].phase = "calling" /\ fill[r].calls = 0
          /\ r \in Untried' <=> x.phase = "calling" /\ x.calls = 0
          /\ r \in Retried <=> fill[r].phase = "calling" /\ fill[r].calls = 1
          /\ r \in Retried' <=> x.phase = "calling" /\ x.calls = 1
        BY <1>2, FillMoves
    <2>1. /\ r \notin Between /\ r \notin Between' /\ r \in Paid /\ r \in Paid'
          /\ r \notin Untried'
          /\ \/ r \in Untried /\ r \notin Retried
             \/ r \notin Untried /\ r \in Retried /\ r \notin Retried'
        BY <1>1, <1>2, <2>4
    <2>2. /\ Resized(Between', Between, r) /\ Resized(Paid', Paid, r)
          /\ Resized(Untried', Untried, r) /\ Resized(Retried', Retried, r)
        BY <1>2, FillMoves
    <2> QED
        BY <2>1, <2>2 DEF Resized
<1>4. asked' + 2 * Cardinality(Untried') + Cardinality(Retried') <= 2 * charged'
    BY <1>1, <1>3, FillNumbers
<1>5. EnrichmentTypeOK'
    BY <1>1, <1>2, FillMoves DEF EnrichmentTypeOK
<1>6. \A q \in Fills : fill'[q].calls \in 0 .. 1
                       /\ (fill'[q].phase # "calling" => fill'[q].calls = 0)
    BY <1>2, FillMoves
<1>7. provider' = "disabled" => charged' = 0 /\ Between' = {}
    BY <1>1, <1>2, FillMoves
<1> QED
    BY <1>1, <1>3, <1>4, <1>5, <1>6, <1>7

\* The requests that end without asking: no token, a lost connection, an instance that dies.
LEMMA FillEndsInv ==
    ASSUME FillInv, NEW r \in Fills, NoToken(r) \/ LoseConnection(r) \/ Die(r)
    PROVE  FillInv'
<1>1. ASSUME NEW shows \in Errors, Reply(r, shows),
             UNCHANGED <<provider, hasProfile, ledger, asked, charged, peak>>
      PROVE  FillInv'
    BY <1>1, Replied, FillMovesOn
<1>2. CASE LoseConnection(r)
    <2>1. PICK x : x = [fill[r] EXCEPT !.from = "nobody"]
        OBVIOUS
    <2>2. fill[r] \in FillRecord
        BY DEF FillInv, EnrichmentTypeOK
    <2>3. x \in FillRecord /\ x.phase = fill[r].phase /\ x.calls = fill[r].calls
        BY <2>1, <2>2 DEF FillRecord
    <2>4. fill' = [fill EXCEPT ![r] = x]
          /\ panel' \in [Panels -> {"idle", "busy", "draft", "degraded"} \cup Errors]
        BY <1>2, <2>1 DEF LoseConnection, FillInv, EnrichmentTypeOK, Errors
    <2>5. fill[r].phase # "calling" => fill[r].calls = 0
        BY DEF FillInv
    <2> QED
        BY <1>2, <2>3, <2>4, <2>5, FillMovesOn DEF LoseConnection
<1> QED
    BY <1>1, <1>2 DEF NoToken, Die, Errors

LEMMA HourPassesInv == FillInv /\ HourPasses => FillInv'
<1> SUFFICES ASSUME FillInv, HourPasses PROVE FillInv'
    OBVIOUS
<1>1. /\ UNCHANGED Between /\ UNCHANGED Paid /\ UNCHANGED Untried /\ UNCHANGED Retried
      /\ Cardinality(Between) \in Nat
    BY FillSets, FS_CardinalityType DEF HourPasses, Between, Paid, Untried, Retried
<1>2. ledger' = ledger - 1 /\ ledger > 0
    BY DEF HourPasses
<1>3. ledger' \in 0 .. Cardinality(Fills) /\ ledger' <= charged
      /\ ledger' + Cardinality(Between) <= HourlyMax - 1 + peak
    BY <1>1, <1>2, FillNumbers DEF FillInv, EnrichmentTypeOK
<1> QED
    BY <1>1, <1>3 DEF HourPasses, FillInv, EnrichmentTypeOK

LEMMA NextFill == FillInv /\ [EnrichmentNext]_fillVars => FillInv'
<1> SUFFICES ASSUME FillInv, [EnrichmentNext]_fillVars PROVE FillInv'
    OBVIOUS
<1>1. CASE UNCHANGED fillVars
    BY <1>1 DEF fillVars, FillInv, EnrichmentTypeOK, Between, Paid, Untried, Retried
<1> QED
    BY <1>1, PressInv, CountInv, ChargeInv, FillEndsInv, AskProviderInv, HourPassesInv
       DEF EnrichmentNext

\* Requests, panels and the ledger keep to their types, for any number of them.
THEOREM EnrichmentTypes == EnrichmentSpec => []EnrichmentTypeOK
<1>1. FillInv => EnrichmentTypeOK
    BY DEF FillInv
<1> QED
    BY InitFill, NextFill, <1>1, PTL DEF EnrichmentSpec

\* The provider is asked at most twice for a request that took quota, and the hourly limit
\* (enrich/route.ts:98) is passed by no more than the requests that were counted together.
THEOREM ProviderSpendBounded == EnrichmentSpec => []SpendBounded
<1>1. FillInv => SpendBounded
    <2> SUFFICES ASSUME FillInv PROVE SpendBounded
        OBVIOUS
    <2>1. /\ Cardinality(Between) \in Nat /\ Cardinality(Untried) \in Nat
          /\ Cardinality(Retried) \in Nat
        BY FillSets, FS_CardinalityType
    <2> QED
        BY <2>1, FillNumbers DEF FillInv, SpendBounded
<1> QED
    BY InitFill, NextFill, <1>1, PTL DEF EnrichmentSpec

-----------------------------------------------------------------------------
(* The meeting in the calendar *)

(* A press that is under way has no event before Google answered and one   *)
(* after; a card is told of the press it waits for only, and what it says  *)
(* of a press that is over stays so because nothing makes events for it.   *)
CardTold(c) ==
    LET r == card[c].about IN
    /\ card[c].shows = "busy" => r \in Presses /\ press[r].from = c
    /\ card[c].shows \notin {"form", "busy", "other"} => r \in Presses /\ press[r].phase = "over"
    /\ r \in Presses /\ card[c].shows = "done" => events[r] = 1
    /\ r \in Presses /\ card[c].shows \in Failures \ {"google_unavailable", "other"}
            => events[r] = 0

CalendarInv ==
    /\ CalendarTypeOK
    /\ \A r \in Presses :
          /\ events[r] <= 1
          /\ press[r].phase \in {"new", "sent", "found", "calling"} => events[r] = 0
          /\ press[r].phase = "made" => events[r] = 1
          /\ press[r].phase \in {"new", "over"} => press[r].from = "nobody"
          /\ press[r].from \in Cards => card[press[r].from].about = r
                                        /\ card[press[r].from].shows = "busy"
    /\ \A c \in Cards : CardTold(c)

LEMMA InitCalendar == CalendarInit => CalendarInv
<1> SUFFICES ASSUME CalendarInit PROVE CalendarInv
    OBVIOUS
<1>1. PICK configured \in BOOLEAN : card = [c \in Cards |-> Rendered(configured)]
    BY DEF CalendarInit
<1>2. ControlState(configured) \in ControlStates
    BY DEF CalendarInit, ControlState, ControlStates, GrantStates
<1>3. /\ card \in [Cards -> ControlRecord]
      /\ \A c \in Cards : card[c].shows = "form" /\ card[c].about = "nothing"
    BY <1>1, <1>2 DEF Rendered, ControlRecord
<1>4. /\ press \in [Presses -> PressRecord]
      /\ \A r \in Presses : press[r].phase = "new" /\ press[r].from = "nobody"
    BY DEF CalendarInit, PressRecord
<1>5. CalendarTypeOK
    BY <1>3, <1>4 DEF CalendarInit, CalendarTypeOK
<1>6. \A c \in Cards : CardTold(c)
    BY <1>3, CalendarAssumption DEF CardTold, Failures
<1> QED
    BY <1>4, <1>5, <1>6, CalendarAssumption DEF CalendarInit, CalendarInv

LEMMA SubmitInv ==
    ASSUME CalendarInv, NEW c \in Cards, NEW r \in Presses, Submit(c, r)
    PROVE  CalendarInv'
<1> USE DEF CalendarInv
<1>1. /\ press[r] \in PressRecord /\ card[c] \in ControlRecord
      /\ press[r].phase = "new" /\ press[r].from = "nobody" /\ events[r] = 0
      /\ card[c].shows # "busy"
    BY DEF Submit, CalendarTypeOK
<1>2. PICK x, y : /\ x \in ControlRecord /\ y \in PressRecord /\ x.about = r
                  /\ card' = [card EXCEPT ![c] = x] /\ press' = [press EXCEPT ![r] = y]
                  /\ \/ x.shows = "invalid_time" /\ y.phase = "over" /\ y.from = "nobody"
                     \/ x.shows = "busy" /\ y.phase = "sent" /\ y.from = c
    <2>1. CASE /\ card' = [card EXCEPT ![c].shows = "invalid_time", ![c].about = r]
               /\ press' = [press EXCEPT ![r].phase = "over"]
        <3>1. PICK x, y : /\ x = [card[c] EXCEPT !.shows = "invalid_time", !.about = r]
                          /\ y = [press[r] EXCEPT !.phase = "over"]
            OBVIOUS
        <3>2. x \in ControlRecord /\ x.about = r /\ x.shows = "invalid_time"
            BY <1>1, <3>1 DEF ControlRecord, Failures
        <3>3. y \in PressRecord /\ y.phase = "over" /\ y.from = "nobody"
            BY <1>1, <3>1 DEF PressRecord
        <3>4. card' = [card EXCEPT ![c] = x] /\ press' = [press EXCEPT ![r] = y]
            BY <2>1, <3>1
        <3> HIDE DEF CalendarInv
        <3> QED
            BY <3>2, <3>3, <3>4, Zenon
    <2>2. CASE /\ card' = [card EXCEPT ![c].shows = "busy", ![c].about = r]
               /\ press' = [press EXCEPT ![r] = [phase |-> "sent", from |-> c]]
        <3>1. PICK x, y : /\ x = [card[c] EXCEPT !.shows = "busy", !.about = r]
                          /\ y = [phase |-> "sent", from |-> c]
            OBVIOUS
        <3>2. x \in ControlRecord /\ x.about = r /\ x.shows = "busy"
            BY <1>1, <3>1 DEF ControlRecord
        <3>3. y \in PressRecord /\ y.phase = "sent" /\ y.from = c
            BY <3>1 DEF PressRecord
        <3>4. card' = [card EXCEPT ![c] = x] /\ press' = [press EXCEPT ![r] = y]
            BY <2>2, <3>1
        <3> HIDE DEF CalendarInv
        <3> QED
            BY <3>2, <3>3, <3>4, Zenon
    <2> QED
        BY <2>1, <2>2 DEF Submit
<1>3. /\ card' \in [Cards -> ControlRecord] /\ press' \in [Presses -> PressRecord]
      /\ card'[c] = x /\ press'[r] = y
      /\ \A d \in Cards \ {c} : card'[d] = card[d]
      /\ \A q \in Presses \ {r} : press'[q] = press[q]
      /\ UNCHANGED <<grantState, counterpart, events>>
    BY <1>2 DEF CalendarTypeOK, Submit
<1>4. CalendarTypeOK'
    BY <1>3 DEF CalendarTypeOK
<1>5. CardTold(c)'
    BY <1>1, <1>2, <1>3 DEF CardTold, Failures
<1>6. ASSUME NEW d \in Cards \ {c} PROVE CardTold(d)'
    <2>1. CardTold(d) /\ card'[d] = card[d]
        BY <1>3
    <2>2. card[d].shows = "busy" => card[d].about # r
        BY <1>1, <2>1, CalendarAssumption DEF CardTold
    <2>3. card[d].shows \notin {"form", "busy", "other"} => card[d].about # r
        BY <1>1, <2>1 DEF CardTold
    <2> QED
        BY <1>3, <2>1, <2>2, <2>3 DEF CardTold, Failures
<1>7. ASSUME NEW q \in Presses
      PROVE  /\ events'[q] <= 1
             /\ press'[q].phase \in {"new", "sent", "found", "calling"} => events'[q] = 0
             /\ press'[q].phase = "made" => events'[q] = 1
             /\ press'[q].phase \in {"new", "over"} => press'[q].from = "nobody"
             /\ press'[q].from \in Cards => card'[press'[q].from].about = q
                                           /\ card'[press'[q].from].shows = "busy"
    <2>1. CASE q = r
        BY <1>1, <1>2, <1>3, <2>1, CalendarAssumption
    <2>2. CASE q # r
        BY <1>1, <1>3, <2>2
    <2> QED
        BY <2>1, <2>2
<1> QED
    BY <1>4, <1>5, <1>6, <1>7

\* A press moves on on the server; no card hears of it yet.
LEMMA Advances ==
    ASSUME CalendarInv, NEW r \in Presses,
           NEW phase \in {"found", "calling", "made"}, Advance(r, phase),
           press[r].phase \in {"sent", "found", "calling"},
           events' = [events EXCEPT ![r] = IF phase = "made" THEN @ + 1 ELSE @],
           UNCHANGED <<grantState, counterpart>>
    PROVE  CalendarInv'
<1> USE DEF CalendarInv
<1>1. press[r] \in PressRecord /\ events[r] = 0
    BY DEF CalendarTypeOK
<1>2. PICK y : y = [press[r] EXCEPT !.phase = phase]
    OBVIOUS
<1>3. y \in PressRecord /\ y.phase = phase /\ y.from = press[r].from
    BY <1>1, <1>2 DEF PressRecord
<1>4. /\ press' \in [Presses -> PressRecord] /\ press'[r] = y
      /\ \A q \in Presses \ {r} : press'[q] = press[q]
      /\ events' \in [Presses -> Nat]
      /\ events'[r] = IF phase = "made" THEN 1 ELSE 0
      /\ \A q \in Presses \ {r} : events'[q] = events[q]
      /\ UNCHANGED <<card, grantState, counterpart>>
    BY <1>1, <1>2, <1>3 DEF Advance, CalendarTypeOK
<1>5. CalendarTypeOK'
    BY <1>4 DEF CalendarTypeOK
<1>6. ASSUME NEW c \in Cards PROVE CardTold(c)'
    <2>1. CardTold(c) /\ card'[c] = card[c]
        BY <1>4
    <2>2. card[c].shows \notin {"form", "busy", "other"} => card[c].about # r
        BY <2>1 DEF CardTold
    <2>3. card[c].about \in Presses => press'[card[c].about].from = press[card[c].about].from
        BY <1>3, <1>4
    <2> QED
        BY <1>4, <2>1, <2>2, <2>3 DEF CardTold, Failures
<1>7. \A q \in Presses :
          /\ events'[q] <= 1
          /\ press'[q].phase \in {"new", "sent", "found", "calling"} => events'[q] = 0
          /\ press'[q].phase = "made" => events'[q] = 1
          /\ press'[q].phase \in {"new", "over"} => press'[q].from = "nobody"
          /\ press'[q].from \in Cards => card'[press'[q].from].about = q
                                        /\ card'[press'[q].from].shows = "busy"
    BY <1>1, <1>3, <1>4
<1> QED
    BY <1>5, <1>6, <1>7

\* A press ends and the card that waits for it is told.
LEMMA Tells ==
    ASSUME CalendarInv, NEW r \in Presses, NEW shows \in {"done"} \cup Failures, Tell(r, shows),
           press[r].phase \in {"sent", "found", "calling", "made"},
           events' \in [Presses -> Nat], events'[r] <= 1,
           \A q \in Presses \ {r} : events'[q] = events[q],
           shows = "done" => events'[r] = 1,
           shows \in Failures \ {"google_unavailable", "other"} => events'[r] = 0,
           UNCHANGED <<grantState, counterpart>>
    PROVE  CalendarInv'
<1> USE DEF CalendarInv
<1>1. PICK y : y = [phase |-> "over", from |-> "nobody"]
    OBVIOUS
<1>2. y \in PressRecord /\ y.phase = "over" /\ y.from = "nobody"
    BY <1>1 DEF PressRecord
<1>3. /\ press' \in [Presses -> PressRecord] /\ press'[r] = y
      /\ \A q \in Presses \ {r} : press'[q] = press[q]
    BY <1>1, <1>2 DEF Tell, CalendarTypeOK
<1>4. ASSUME NEW c \in Cards
      PROVE  /\ card'[c] \in ControlRecord /\ card'[c].about = card[c].about
             /\ c = press[r].from => card'[c].shows = shows
             /\ c # press[r].from => card'[c] = card[c]
    <2>1. PICK x : x = [card[c] EXCEPT !.shows = shows]
        OBVIOUS
    <2>2. card[c] \in ControlRecord
        BY DEF CalendarTypeOK
    <2>3. x \in ControlRecord /\ x.about = card[c].about /\ x.shows = shows
        BY <2>1, <2>2 DEF ControlRecord
    <2>4. card'[c] = IF c = press[r].from THEN x ELSE card[c]
        BY <2>1 DEF Tell
    <2> QED
        BY <2>2, <2>3, <2>4
<1>5. CalendarTypeOK'
    <2>1. card' = [c \in Cards |-> card'[c]]
        BY DEF Tell
    <2> QED
        BY <1>3, <1>4, <2>1 DEF CalendarTypeOK
<1>6. ASSUME NEW c \in Cards PROVE CardTold(c)'
    <2>1. CardTold(c) /\ card'[c].about = card[c].about
        BY <1>4
    <2>2. CASE c = press[r].from
        <3>1. card'[c].shows = shows /\ card'[c].about = r /\ press'[r].phase = "over"
            BY <1>2, <1>3, <1>4, <2>2
        <3> QED
            BY <3>1 DEF CardTold, Failures
    <2>3. CASE c # press[r].from
        <3>1. card'[c] = card[c]
            BY <1>4, <2>3
        <3>2. /\ card[c].shows = "busy" => card[c].about # r
              /\ card[c].shows \notin {"form", "busy", "other"} => card[c].about # r
            BY <2>1, <2>3 DEF CardTold
        <3> QED
            BY <1>3, <2>1, <3>1, <3>2 DEF CardTold, Failures
    <2> QED
        BY <2>2, <2>3
<1>7. ASSUME NEW q \in Presses
      PROVE  /\ events'[q] <= 1
             /\ press'[q].phase \in {"new", "sent", "found", "calling"} => events'[q] = 0
             /\ press'[q].phase = "made" => events'[q] = 1
             /\ press'[q].phase \in {"new", "over"} => press'[q].from = "nobody"
             /\ press'[q].from \in Cards => card'[press'[q].from].about = q
                                           /\ card'[press'[q].from].shows = "busy"
    <2>1. CASE q = r
        BY <1>2, <1>3, <2>1, CalendarAssumption
    <2>2. CASE q # r
        <3>1. press[q].from \in Cards => press[q].from # press[r].from
            BY <2>2
        <3> QED
            BY <1>3, <1>4, <2>2, <3>1
    <2> QED
        BY <2>1, <2>2
<1> QED
    BY <1>5, <1>6, <1>7

LEMMA ValidateInv ==
    ASSUME CalendarInv, NEW r \in Presses, Validate(r)
    PROVE  CalendarInv'
<1>1. /\ press[r].phase = "sent" /\ events[r] = 0 /\ events \in [Presses -> Nat]
      /\ UNCHANGED <<grantState, counterpart, events>>
    BY DEF Validate, CalendarInv, CalendarTypeOK
<1>2. ASSUME NEW shows \in Failures, Tell(r, shows)
      PROVE  CalendarInv'
    BY <1>1, <1>2, Tells DEF Failures
<1>3. CASE Advance(r, "found")
    BY <1>1, <1>3, Advances
<1>4. ASSUME NEW code PROVE Failure(code) \in Failures
    BY DEF Failure, Failures
<1> QED
    BY <1>2, <1>3, <1>4 DEF Validate

LEMMA LoadTokenInv ==
    ASSUME CalendarInv, NEW r \in Presses, LoadToken(r)
    PROVE  CalendarInv'
<1>1. /\ press[r].phase = "found" /\ events[r] = 0 /\ events \in [Presses -> Nat]
      /\ UNCHANGED <<grantState, counterpart, events>>
    BY DEF LoadToken, CalendarInv, CalendarTypeOK
<1>2. ASSUME NEW shows \in Failures, Tell(r, shows)
      PROVE  CalendarInv'
    BY <1>1, <1>2, Tells DEF Failures
<1>3. CASE Advance(r, "calling")
    BY <1>1, <1>3, Advances
<1>4. ASSUME NEW code PROVE Failure(code) \in Failures
    BY DEF Failure, Failures
<1> QED
    BY <1>2, <1>3, <1>4 DEF LoadToken

LEMMA CallGoogleInv ==
    ASSUME CalendarInv, NEW r \in Presses, CallGoogle(r)
    PROVE  CalendarInv'
<1>1. /\ press[r].phase = "calling" /\ events[r] = 0 /\ events \in [Presses -> Nat]
      /\ UNCHANGED <<grantState, counterpart>>
    BY DEF CallGoogle, CalendarInv, CalendarTypeOK
<1>2. CASE events' = [events EXCEPT ![r] = @ + 1] /\ Advance(r, "made")
    BY <1>1, <1>2, Advances
<1>3. ASSUME NEW error \in Refusals \cup Unknowns, NEW n \in 0 .. 1, error \in Refusals => n = 0,
             events' = [events EXCEPT ![r] = @ + n], Tell(r, Failure(Reported(error)))
      PROVE  CalendarInv'
    <2>1. PICK shows : shows = Failure(Reported(error))
        OBVIOUS
    <2>2. /\ shows \in Failures
          /\ error \in Unknowns => shows = "google_unavailable"
        BY <2>1 DEF Failure, Reported, Failures, Refusals, Unknowns
    <2>3. /\ events' \in [Presses -> Nat] /\ events'[r] <= 1
          /\ \A q \in Presses \ {r} : events'[q] = events[q]
          /\ shows \notin {"google_unavailable"} => events'[r] = 0
        BY <1>1, <1>3, <2>2
    <2> QED
        BY <1>1, <1>3, <2>1, <2>2, <2>3, Tells DEF Failures
<1> QED
    BY <1>2, <1>3 DEF CallGoogle

LEMMA AuditEventInv ==
    ASSUME CalendarInv, NEW r \in Presses, AuditEvent(r)
    PROVE  CalendarInv'
<1>1. /\ press[r].phase = "made" /\ events[r] = 1 /\ events \in [Presses -> Nat]
      /\ UNCHANGED <<grantState, counterpart, events>>
    BY DEF AuditEvent, CalendarInv, CalendarTypeOK
<1>2. Failure("internal_error") = "other"
    BY DEF Failure, Failures
<1>3. CASE Tell(r, "done")
    BY <1>1, <1>3, Tells DEF Failures
<1>4. CASE Tell(r, "other")
    BY <1>1, <1>4, Tells DEF Failures
<1> QED
    BY <1>2, <1>3, <1>4 DEF AuditEvent

LEMMA LosePressInv ==
    ASSUME CalendarInv, NEW r \in Presses, LosePress(r)
    PROVE  CalendarInv'
<1> USE DEF CalendarInv
<1>1. PICK c \in Cards : c = press[r].from
    BY DEF LosePress
<1>2. /\ press[r] \in PressRecord /\ card[c] \in ControlRecord
      /\ card[c].about = r /\ card[c].shows = "busy"
    BY <1>1 DEF CalendarTypeOK
<1>3. PICK phase \in {press[r].phase, "over"} :
          press' = [press EXCEPT ![r] = [phase |-> phase, from |-> "nobody"]]
    BY DEF LosePress
<1>4. PICK x, y : /\ x = [card[c] EXCEPT !.shows = "other"]
                  /\ y = [phase |-> phase, from |-> "nobody"]
    OBVIOUS
<1>5. x \in ControlRecord /\ x.about = r /\ x.shows = "other"
    BY <1>2, <1>4 DEF ControlRecord, Failures
<1>6. y \in PressRecord /\ y.phase = phase /\ y.from = "nobody"
    BY <1>2, <1>4 DEF PressRecord
<1>7. /\ card' \in [Cards -> ControlRecord] /\ press' \in [Presses -> PressRecord]
      /\ card'[c] = x /\ press'[r] = y
      /\ \A d \in Cards \ {c} : card'[d] = card[d]
      /\ \A q \in Presses \ {r} : press'[q] = press[q]
      /\ UNCHANGED <<grantState, counterpart, events>>
    BY <1>1, <1>3, <1>4, <1>5, <1>6 DEF CalendarTypeOK, LosePress
<1>8. CalendarTypeOK'
    BY <1>7 DEF CalendarTypeOK
<1>9. CardTold(c)'
    BY <1>5, <1>7 DEF CardTold, Failures
<1>10. ASSUME NEW d \in Cards \ {c} PROVE CardTold(d)'
    <2>1. CardTold(d) /\ card'[d] = card[d]
        BY <1>7
    <2>2. /\ card[d].shows = "busy" => card[d].about # r
          /\ card[d].about = r /\ press[r].phase = "over" => press'[r].phase = "over"
        BY <1>1, <1>3, <1>6, <1>7, <2>1 DEF CardTold
    <2> QED
        BY <1>7, <2>1, <2>2 DEF CardTold, Failures
<1>11. ASSUME NEW q \in Presses
       PROVE  /\ events'[q] <= 1
              /\ press'[q].phase \in {"new", "sent", "found", "calling"} => events'[q] = 0
              /\ press'[q].phase = "made" => events'[q] = 1
              /\ press'[q].phase \in {"new", "over"} => press'[q].from = "nobody"
              /\ press'[q].from \in Cards => card'[press'[q].from].about = q
                                            /\ card'[press'[q].from].shows = "busy"
    <2>1. CASE q = r
        BY <1>3, <1>6, <1>7, <2>1, CalendarAssumption
    <2>2. CASE q # r
        <3>1. press[q].from \in Cards => press[q].from # c
            BY <1>2, <2>2
        <3> QED
            BY <1>7, <2>2, <3>1
    <2> QED
        BY <2>1, <2>2
<1> QED
    BY <1>8, <1>9, <1>10, <1>11

LEMMA NextCalendar == CalendarInv /\ [CalendarNext]_calendarVars => CalendarInv'
<1> SUFFICES ASSUME CalendarInv, [CalendarNext]_calendarVars PROVE CalendarInv'
    OBVIOUS
<1>1. CASE UNCHANGED calendarVars
    BY <1>1 DEF calendarVars, CalendarInv, CalendarTypeOK, CardTold
<1>2. ASSUME NEW g \in GrantStates, GrantMoves(g) PROVE CalendarInv'
    BY <1>2 DEF GrantMoves, CalendarInv, CalendarTypeOK, CardTold
<1>3. CASE CounterpartLeaves
    BY <1>3 DEF CounterpartLeaves, CalendarInv, CalendarTypeOK, CardTold
<1> QED
    BY <1>1, <1>2, <1>3, SubmitInv, ValidateInv, LoadTokenInv, CallGoogleInv, AuditEventInv,
       LosePressInv DEF CalendarNext

\* Cards and presses keep to their types.
THEOREM CalendarTypes == CalendarSpec => []CalendarTypeOK
<1>1. CalendarInv => CalendarTypeOK
    BY DEF CalendarInv
<1> QED
    BY InitCalendar, NextCalendar, <1>1, PTL DEF CalendarSpec

\* What a card says of the calendar (intro-calendar.tsx:139) is so, for any number of cards
\* and presses: "done" is one event, a cause other than the two open ones is none.
THEOREM CardsTellTheCalendar == CalendarSpec => []CalendarTold
<1>1. CalendarInv => CalendarTold
    <2> SUFFICES ASSUME CalendarInv PROVE CalendarTold
        OBVIOUS
    <2>1. ASSUME NEW c \in Cards, card[c].about # "nothing" PROVE card[c].about \in Presses
        BY <2>1 DEF CalendarInv, CalendarTypeOK, ControlRecord
    <2> QED
        BY <2>1 DEF CalendarInv, CardTold, CalendarTold
<1> QED
    BY InitCalendar, NextCalendar, <1>1, PTL DEF CalendarSpec

-----------------------------------------------------------------------------
(* The demo's data *)

(* A run past its guard is about listed demo accounts, and no account      *)
(* changes; once it has planned rows it is no dry run; and while it has    *)
(* deleted the notices of its rows but not the rows, whatever notice they  *)
(* have again was written since.                                           *)
DemoInv ==
    /\ DemoTypeOK
    /\ NoticesHaveRows
    /\ \A r \in Runs :
          /\ run[r].at \in {"loaded", "planned", "deleting"} =>
                \A p \in run[r].args.pair : p \in Listed /\ account[p]
          /\ run[r].at \notin {"new", "over"} =>
                run[r].args.unjoin \subseteq Listed /\ run[r].args \in Args
          /\ run[r].at \in {"planned", "deleting", "unjoin"} => ~run[r].args.dry
          /\ run[r].at = "unjoin" => \A p \in run[r].args.unjoin : account[p]
          /\ run[r].at = "deleting" => intronotices \cap run[r].plan \subseteq raced

LEMMA EndedRunTyped ==
    ASSUME NEW at \in {"new", "over"}
    PROVE  EndedRun(at) \in RunRecord /\ EndedRun(at).at = at
BY DEF EndedRun, RunRecord

LEMMA InitDemo == DemoInit => DemoInv
<1> SUFFICES ASSUME DemoInit PROVE DemoInv
    OBVIOUS
<1>1. run \in [Runs -> RunRecord] /\ \A r \in Runs : run[r].at = "new"
    BY EndedRunTyped DEF DemoInit
<1>2. MaxMade \in Nat
    BY DemoAssumption
<1>3. DemoTypeOK
    BY <1>1, <1>2 DEF DemoInit, DemoTypeOK
<1> QED
    BY <1>1, <1>3 DEF DemoInit, DemoInv, NoticesHaveRows

\* The product and the seeder leave the command's runs alone; a notice they write is of a
\* row that is there, and marked when a run is about to delete it.
LEMMA Products ==
    ASSUME DemoInv, UNCHANGED <<account, run>>,
           membership' \in [Listed -> {"none", "active", "left"}],
           NEW rows, NEW id, rows \subseteq Rows,
           intros' = intros \cup rows, made' \in 0 .. MaxMade,
           \/ Notify(id) /\ id \in Ids(intros') /\ id \in 1 .. MaxMade
           \/ intronotices' = intronotices \ {id} /\ raced' = raced \ {id}
           \/ UNCHANGED <<intronotices, raced>>
    PROVE  DemoInv'
<1> USE DEF DemoInv
<1>1. /\ intronotices' \subseteq 1 .. MaxMade /\ raced' \subseteq 1 .. MaxMade
      /\ Ids(intros) \subseteq Ids(intros')
    BY DEF DemoTypeOK, Notify, Ids
<1>2. DemoTypeOK'
    BY <1>1 DEF DemoTypeOK
<1>3. NoticesHaveRows'
    BY <1>1 DEF NoticesHaveRows, Notify
<1>4. ASSUME NEW r \in Runs, run[r].at = "deleting"
      PROVE  intronotices' \cap run[r].plan \subseteq raced'
    <2>1. intronotices \cap run[r].plan \subseteq raced
        BY <1>4
    <2>2. run[r].plan \subseteq Deleting
        BY <1>4 DEF Deleting
    <2> QED
        BY <2>1, <2>2 DEF Notify
<1> QED
    BY <1>2, <1>3, <1>4

LEMMA ProductInv ==
    ASSUME DemoInv,
           \/ \E pair \in Pairs, c \in Contexts : Propose(pair, c)
           \/ \E i \in intros : RespondTo(i)
           \/ \E id \in intronotices : SendNotices(id)
           \/ \E p \in Listed : SeedMembership(p) \/ \E s \in {"active", "left"} : JoinOrLeave(p, s)
           \/ \E pair \in Seeded : SeedIntroduction(pair)
    PROVE  DemoInv'
<1>1. MaxMade \in Nat /\ made \in 0 .. MaxMade /\ intros \subseteq Rows /\ Seeded \subseteq Pairs
      /\ membership \in [Listed -> {"none", "active", "left"}]
    BY DemoAssumption DEF DemoInv, DemoTypeOK
<1>2. ASSUME NEW pair \in Pairs, NEW c \in Contexts, made < MaxMade
      PROVE  /\ NewRow(pair, c) \in Rows /\ NewRow(pair, c).id = made + 1
             /\ made + 1 \in 1 .. MaxMade /\ made + 1 \in 0 .. MaxMade
    BY <1>1, <1>2 DEF NewRow, Rows
<1>3. ASSUME NEW pair \in Pairs, NEW c \in Contexts, Propose(pair, c) PROVE DemoInv'
    <2>1. PICK rows : rows = {NewRow(pair, c)}
        OBVIOUS
    <2>2. rows \subseteq Rows /\ intros' = intros \cup rows /\ made' \in 0 .. MaxMade
          /\ made + 1 \in 1 .. MaxMade
        BY <1>2, <1>3, <2>1 DEF Propose
    <2>3. made + 1 \in Ids(intros')
        BY <1>2, <1>3, <2>1, <2>2 DEF Propose, Ids
    <2>4. Notify(made + 1) /\ UNCHANGED <<account, membership, run>>
        BY <1>3 DEF Propose
    <2> QED
        BY <1>1, <2>2, <2>3, <2>4, Products
<1>4. ASSUME NEW i \in intros, RespondTo(i) PROVE DemoInv'
    <2>1. i.id \in Ids(intros') /\ i.id \in 1 .. MaxMade /\ intros' = intros \cup {}
        BY <1>1, <1>4 DEF Rows, Ids, RespondTo
    <2>2. Notify(i.id) /\ UNCHANGED <<account, membership, run, made>>
        BY <1>4 DEF RespondTo
    <2> QED
        BY <1>1, <2>1, <2>2, Products
<1>5. ASSUME NEW id \in intronotices, SendNotices(id) PROVE DemoInv'
    <2>1. intros' = intros \cup {}
        BY <1>5 DEF SendNotices
    <2> QED
        BY <1>1, <1>5, <2>1, Products DEF SendNotices
<1>6. ASSUME NEW p \in Listed, SeedMembership(p) \/ \E s \in {"active", "left"} : JoinOrLeave(p, s)
      PROVE  DemoInv'
    <2>1. /\ intros' = intros \cup {} /\ membership' \in [Listed -> {"none", "active", "left"}]
          /\ UNCHANGED <<account, made, run, intronotices, raced>>
        BY <1>1, <1>6 DEF SeedMembership, JoinOrLeave
    <2> QED
        BY <1>1, <2>1, Products
<1>7. ASSUME NEW pair \in Seeded, SeedIntroduction(pair) PROVE DemoInv'
    <2>1. pair \in Pairs /\ "event" \in Contexts
        BY <1>1 DEF Contexts
    <2>2. PICK rows : rows = {NewRow(pair, "event")}
        OBVIOUS
    <2>3. rows \subseteq Rows /\ intros' = intros \cup rows /\ made' \in 0 .. MaxMade
        BY <1>2, <1>7, <2>1, <2>2 DEF SeedIntroduction
    <2>4. UNCHANGED <<account, membership, run, intronotices, raced>>
        BY <1>7 DEF SeedIntroduction
    <2> QED
        BY <1>1, <2>3, <2>4, Products
<1> QED
    BY <1>3, <1>4, <1>5, <1>6, <1>7

\* A run of the command moves on.
LEMMA RunMoves ==
    ASSUME DemoInv, NEW r \in Runs, NEW x \in RunRecord, run' = [run EXCEPT ![r] = x],
           UNCHANGED account,
           x.at \in {"loaded", "planned", "deleting"} =>
               \A p \in x.args.pair : p \in Listed /\ account[p],
           x.at \notin {"new", "over"} => x.args.unjoin \subseteq Listed /\ x.args \in Args,
           x.at \in {"planned", "deleting", "unjoin"} => ~x.args.dry,
           x.at = "unjoin" => \A p \in x.args.unjoin : account[p],
           x.at = "deleting" => intronotices' \cap x.plan \subseteq raced',
           NEW gone, intronotices' = intronotices \ gone, raced' = raced \ gone,
           intros' \subseteq intros, NoticesHaveRows', UNCHANGED made,
           membership' \in [Listed -> {"none", "active", "left"}]
    PROVE  DemoInv'
<1> USE DEF DemoInv
<1>1. /\ run' \in [Runs -> RunRecord] /\ run'[r] = x
      /\ \A q \in Runs \ {r} : run'[q] = run[q]
    BY DEF DemoTypeOK
<1>2. DemoTypeOK'
    BY <1>1 DEF DemoTypeOK
<1>3. ASSUME NEW q \in Runs, run'[q].at = "deleting"
      PROVE  intronotices' \cap run'[q].plan \subseteq raced'
    <2>1. CASE q = r
        BY <1>1, <1>3, <2>1
    <2>2. CASE q # r
        <3>1. run'[q] = run[q] /\ intronotices \cap run[q].plan \subseteq raced
            BY <1>1, <1>3, <2>2
        <3> QED
            BY <3>1
    <2> QED
        BY <2>1, <2>2
<1> QED
    BY <1>1, <1>2, <1>3

LEMMA RunTypes ==
    ASSUME DemoInv, NEW r \in Runs
    PROVE  /\ run[r] \in RunRecord /\ run[r].plan \subseteq 1 .. MaxMade
           /\ run[r].at \notin {"new", "over"} => run[r].args \in Args
BY DEF DemoInv, DemoTypeOK, RunRecord

\* A run that stops, or that only changes where it is.
LEMMA RunStops ==
    ASSUME DemoInv, NEW r \in Runs, Over(r),
           UNCHANGED <<account, intros, intronotices, made, raced>>,
           membership' \in [Listed -> {"none", "active", "left"}]
    PROVE  DemoInv'
<1>1. EndedRun("over") \in RunRecord /\ EndedRun("over").at = "over"
    BY EndedRunTyped
<1>2. /\ intronotices' = intronotices \ {} /\ raced' = raced \ {} /\ NoticesHaveRows'
      /\ run' = [run EXCEPT ![r] = EndedRun("over")]
    BY DEF DemoInv, NoticesHaveRows, Over
<1> QED
    BY <1>1, <1>2, RunMoves

\* What a step that touches neither rows nor notices keeps.
LEMMA Untouched ==
    ASSUME DemoInv, UNCHANGED <<intros, intronotices, raced, membership>>
    PROVE  /\ intronotices' = intronotices \ {} /\ raced' = raced \ {} /\ intros' \subseteq intros
           /\ NoticesHaveRows' /\ membership' \in [Listed -> {"none", "active", "left"}]
BY DEF DemoInv, DemoTypeOK, NoticesHaveRows

LEMMA StartInv ==
    ASSUME DemoInv, NEW r \in Runs, NEW args \in Args, Start(r, args)
    PROVE  DemoInv'
<1>1. UNCHANGED <<account, membership, intros, intronotices, made, raced>>
    BY DEF Start
<1>2. ASSUME ~Over(r) PROVE DemoInv'
    <2>1. PICK at : at = IF \A p \in args.pair : membership[p] = "active" \/ p \in args.unjoin
                         THEN "loaded" ELSE "membership"
        OBVIOUS
    <2>2. PICK x : x = [at |-> at, args |-> args, plan |-> {}]
        OBVIOUS
    <2>3. run' = [run EXCEPT ![r] = x]
        BY <1>2, <2>1, <2>2 DEF Start
    <2>4. Guarded(args) /\ \A p \in args.pair : Qualified(p)
        BY <1>2 DEF Start
    <2>5. x \in RunRecord /\ x.at = at /\ x.args = args
        BY <2>1, <2>2 DEF RunRecord
    <2> QED
        BY <1>1, <2>1, <2>3, <2>4, <2>5, Untouched, RunMoves DEF Guarded, Qualified
<1>3. CASE Over(r)
    BY <1>1, <1>3, Untouched, RunStops
<1> QED
    BY <1>2, <1>3

LEMMA PlanInv ==
    ASSUME DemoInv, NEW r \in Runs, Plan(r)
    PROVE  DemoInv'
<1>1. /\ UNCHANGED <<account, membership, intros, intronotices, made, raced>>
      /\ run[r].at = "loaded" /\ run[r] \in RunRecord /\ run[r].args \in Args
    BY RunTypes DEF Plan
<1>2. PICK plan : plan = Ids(Existing(run[r].args.pair, "event"))
    OBVIOUS
<1>3. plan \subseteq 1 .. MaxMade
    BY <1>2 DEF DemoInv, DemoTypeOK, Rows, Ids, Existing
<1>4. PICK x : x = [run[r] EXCEPT !.plan = IF run[r].args.dry THEN {} ELSE plan,
                                  !.at = IF run[r].args.dry \/ plan = {} THEN "membership"
                                         ELSE "planned"]
    OBVIOUS
<1>5. run' = [run EXCEPT ![r] = x]
    BY <1>2, <1>4 DEF Plan
<1>6. /\ x \in RunRecord /\ x.args = run[r].args
      /\ x.at = IF run[r].args.dry \/ plan = {} THEN "membership" ELSE "planned"
    BY <1>1, <1>3, <1>4 DEF RunRecord
<1>7. /\ \A p \in run[r].args.pair : p \in Listed /\ account[p]
      /\ run[r].args.unjoin \subseteq Listed
    BY <1>1 DEF DemoInv
<1> QED
    BY <1>1, <1>5, <1>6, <1>7, Untouched, RunMoves

LEMMA DeleteNoticesInv ==
    ASSUME DemoInv, NEW r \in Runs, DeleteNotices(r)
    PROVE  DemoInv'
<1>1. /\ UNCHANGED <<account, membership, intros, made>>
      /\ run[r].at = "planned" /\ run[r] \in RunRecord /\ run[r].args \in Args
      /\ intronotices' = intronotices \ run[r].plan /\ raced' = raced \ run[r].plan
    BY RunTypes DEF DeleteNotices, NoticesLeft
<1>2. PICK x : x = [run[r] EXCEPT !.at = "deleting"]
    OBVIOUS
<1>3. run' = [run EXCEPT ![r] = x]
    BY <1>2 DEF DeleteNotices, Advanced
<1>4. x \in RunRecord /\ x.args = run[r].args /\ x.at = "deleting" /\ x.plan = run[r].plan
    BY <1>1, <1>2 DEF RunRecord
<1>5. /\ \A p \in run[r].args.pair : p \in Listed /\ account[p]
      /\ run[r].args.unjoin \subseteq Listed /\ ~run[r].args.dry
    BY <1>1 DEF DemoInv
<1>6. NoticesHaveRows' /\ intros' \subseteq intros
      /\ membership' \in [Listed -> {"none", "active", "left"}]
    BY <1>1 DEF DemoInv, DemoTypeOK, NoticesHaveRows
<1>7. intronotices' \cap x.plan \subseteq raced'
    BY <1>1, <1>4
<1> QED
    BY <1>1, <1>3, <1>4, <1>5, <1>6, <1>7, RunMoves

LEMMA DeleteIntroductionsInv ==
    ASSUME DemoInv, NEW r \in Runs, DeleteIntroductions(r)
    PROVE  DemoInv'
<1>1. /\ UNCHANGED <<account, membership, intronotices, made, raced>>
      /\ run[r].at = "deleting" /\ run[r] \in RunRecord /\ run[r].args \in Args
      /\ intros' = intros \ Removable(r)
    BY RunTypes DEF DeleteIntroductions
<1>2. PICK x : x = [run[r] EXCEPT !.at = "membership", !.plan = {}]
    OBVIOUS
<1>3. run' = [run EXCEPT ![r] = x]
    BY <1>2 DEF DeleteIntroductions
<1>4. x \in RunRecord /\ x.args = run[r].args /\ x.at = "membership"
    BY <1>1, <1>2 DEF RunRecord
<1>5. run[r].args.unjoin \subseteq Listed /\ intronotices \cap run[r].plan \subseteq raced
    BY <1>1 DEF DemoInv
<1>6. NoticesHaveRows'
    <2>1. \A i \in intros : i.id \notin run[r].plan => i \in intros'
        BY <1>1 DEF Removable
    <2>2. \A id \in Ids(intros) \ run[r].plan : id \in Ids(intros')
        BY <2>1 DEF Ids
    <2> QED
        BY <1>1, <1>5, <2>2 DEF DemoInv, NoticesHaveRows
<1>7. /\ intronotices' = intronotices \ {} /\ raced' = raced \ {} /\ intros' \subseteq intros
      /\ membership' \in [Listed -> {"none", "active", "left"}]
    BY <1>1 DEF DemoInv, DemoTypeOK
<1> QED
    BY <1>1, <1>3, <1>4, <1>5, <1>6, <1>7, RunMoves

LEMMA LoadMembershipInv ==
    ASSUME DemoInv, NEW r \in Runs, LoadMembership(r)
    PROVE  DemoInv'
<1>1. /\ UNCHANGED <<account, membership, intros, intronotices, made, raced>>
      /\ run[r].at = "membership" /\ run[r] \in RunRecord /\ run[r].args \in Args
    BY RunTypes DEF LoadMembership
<1>2. CASE Over(r)
    BY <1>1, <1>2, Untouched, RunStops
<1>3. CASE /\ Advanced(r, "unjoin") /\ ~run[r].args.dry
           /\ \A p \in run[r].args.unjoin : Qualified(p)
    <2>1. PICK x : x = [run[r] EXCEPT !.at = "unjoin"]
        OBVIOUS
    <2>2. run' = [run EXCEPT ![r] = x]
        BY <1>3, <2>1 DEF Advanced
    <2>3. x \in RunRecord /\ x.args = run[r].args /\ x.at = "unjoin"
        BY <1>1, <2>1 DEF RunRecord
    <2>4. run[r].args.unjoin \subseteq Listed
        BY <1>1 DEF DemoInv
    <2> QED
        BY <1>1, <1>3, <2>2, <2>3, <2>4, Untouched, RunMoves DEF Qualified
<1> QED
    BY <1>2, <1>3 DEF LoadMembership

LEMMA UnjoinInv ==
    ASSUME DemoInv, NEW r \in Runs, Unjoin(r) \/ Fail(r)
    PROVE  DemoInv'
<1>1. membership' \in [Listed -> {"none", "active", "left"}]
    BY DEF Unjoin, Fail, DemoInv, DemoTypeOK
<1> QED
    BY <1>1, RunStops DEF Unjoin, Fail

LEMMA NextDemo == DemoInv /\ [DemoNext]_demoVars => DemoInv'
<1> SUFFICES ASSUME DemoInv, [DemoNext]_demoVars PROVE DemoInv'
    OBVIOUS
<1>1. CASE UNCHANGED demoVars
    BY <1>1 DEF demoVars, DemoInv, DemoTypeOK, NoticesHaveRows
<1>2. CASE \E r \in Runs :
              \/ \E a \in Args : Start(r, a)
              \/ Plan(r) \/ DeleteNotices(r) \/ DeleteIntroductions(r)
              \/ LoadMembership(r) \/ Unjoin(r) \/ Fail(r)
    BY <1>2, StartInv, PlanInv, DeleteNoticesInv, DeleteIntroductionsInv, LoadMembershipInv,
       UnjoinInv
<1> QED
    BY <1>1, <1>2, ProductInv DEF DemoNext

\* Rows, notices and runs keep to their types.
THEOREM DemoTypes == DemoSpec => []DemoTypeOK
<1>1. DemoInv => DemoTypeOK
    BY DEF DemoInv
<1> QED
    BY InitDemo, NextDemo, <1>1, PTL DEF DemoSpec

\* No notice outlives its introduction (demo-reset.ts:236) but one written between the two
\* DELETEs of a run, for any number of runs and people.
THEOREM NoticesKeepTheirRows == DemoSpec => []NoticesHaveRows
<1>1. DemoInv => NoticesHaveRows
    BY DEF DemoInv
<1> QED
    BY InitDemo, NextDemo, <1>1, PTL DEF DemoSpec

Erases ==
    /\ \A i \in intros : i.id \notin Ids(intros') =>
           \E r \in Runs : /\ run[r].at = "deleting" /\ ~run[r].args.dry
                           /\ i.id \in run[r].plan
                           /\ i.context = "event" /\ \A p \in i.pair : account[p]
    /\ \A p \in Listed : membership[p] # "none" /\ membership'[p] = "none" =>
           \E r \in Runs : run[r].args.unjoin = {p} /\ ~run[r].args.dry /\ account[p]

LEMMA StepErases ==
    ASSUME DemoInv, DemoNext
    PROVE  Erases
<1>1. ASSUME intros \subseteq intros',
             \A p \in Listed : membership'[p] = "none" => membership[p] = "none"
      PROVE  Erases
    BY <1>1 DEF Erases, Ids
<1>2. membership \in [Listed -> {"none", "active", "left"}]
    BY DEF DemoInv, DemoTypeOK
<1>3. ASSUME NEW p \in Listed, SeedMembership(p) \/ \E s \in {"active", "left"} : JoinOrLeave(p, s)
      PROVE  Erases
    BY <1>1, <1>2, <1>3 DEF SeedMembership, JoinOrLeave
<1>4. ASSUME NEW r \in Runs, DeleteIntroductions(r)
      PROVE  Erases
    <2>1. /\ run[r].at = "deleting" /\ ~run[r].args.dry
          /\ \A p \in run[r].args.pair : account[p]
          /\ intros' = intros \ Removable(r) /\ UNCHANGED membership
        BY <1>4 DEF DeleteIntroductions, DemoInv
    <2>2. ASSUME NEW i \in intros, i.id \notin Ids(intros')
          PROVE  i.id \in run[r].plan /\ i.context = "event" /\ i.pair = run[r].args.pair
        BY <2>1, <2>2 DEF Ids, Removable, Existing
    <2> QED
        BY <2>1, <2>2 DEF Erases
<1>5. ASSUME NEW r \in Runs, Unjoin(r)
      PROVE  Erases
    <2>1. /\ run[r].at = "unjoin" /\ ~run[r].args.dry /\ run[r].args \in Args
          /\ \A p \in run[r].args.unjoin : account[p]
          /\ UNCHANGED intros
          /\ membership' = [p \in Listed |-> IF p \in run[r].args.unjoin THEN "none"
                                             ELSE membership[p]]
        BY <1>5 DEF Unjoin, DemoInv
    <2>2. ASSUME NEW p \in run[r].args.unjoin PROVE run[r].args.unjoin = {p}
        BY <2>1 DEF Args
    <2> QED
        BY <2>1, <2>2 DEF Erases, Ids
<1> QED
    BY <1>1, <1>3, <1>4, <1>5
       DEF DemoNext, Propose, RespondTo, SendNotices, SeedIntroduction, Start, Plan,
           DeleteNotices, LoadMembership, Fail

\* Only what a run that is no dry run was asked for is erased, and of introductions only the
\* rows it planned, of listed demo accounts (demo-reset.ts:236).
THEOREM ErasedOnlyAsPlanned == DemoSpec => ErasedAsPlanned
<1>1. DemoInv /\ [DemoNext]_demoVars => [Erases]_demoVars
    BY StepErases
<1> QED
    BY InitDemo, NextDemo, <1>1, PTL DEF DemoSpec, ErasedAsPlanned, Erases

-----------------------------------------------------------------------------
(* The public card *)

(* What the person wants kept off is unticked in every open wizard and in  *)
(* the draft.  An editor never knows of a revision that is not there yet;  *)
(* at the row's own revision it shows what the row hides but for what was  *)
(* ticked in it; and what it is about to write at that revision takes off  *)
(* the deny list only what was agreed.                                     *)
WizardOK(w) ==
    /\ wizard[w].mind \subseteq wizard[w].off
    /\ wizard[w].at = "creating" => CardFields \ wizard[w].sent \subseteq wizard[w].agreed

EditorOK(e) ==
    LET form == editor[e]
        current == form.revision # 0 /\ form.revision = profile.revision IN
    /\ form.revision <= profile.revision /\ form.conflict <= profile.revision
    /\ form.at = "creating" => form.revision = 0
    /\ form.at = "form" /\ current => profile.hidden \ form.hidden \subseteq form.ticked
    /\ form.at = "updating" /\ current => profile.hidden \ form.sent \subseteq form.agreed
    /\ form.at \in {"creating", "updating"} => form.sent \ form.hidden \subseteq form.ticked

CardInv ==
    /\ CardTypeOK
    /\ wanted \subseteq draft.off
    /\ \A w \in Wizards : WizardOK(w)
    /\ \A e \in Editors : EditorOK(e)

LEMMA CardNumbers ==
    CardInv => /\ MaxRevision \in Nat \ {0} /\ 0 \in 0 .. MaxRevision /\ 1 \in 0 .. MaxRevision
               /\ profile.revision \in 0 .. MaxRevision /\ profile.hidden \subseteq CardFields
               /\ profile.revision \in Nat
BY CardAssumption DEF CardInv, CardTypeOK, ProfileRecord

LEMMA ClosedForms ==
    CardInv => /\ ClosedWizard \in WizardRecord /\ ClosedWizard.mind = {}
               /\ ClosedWizard.at = "closed" /\ ClosedEditor \in EditorRecord
               /\ ClosedEditor.at = "closed" /\ ClosedEditor.revision = 0
               /\ ClosedEditor.conflict = 0 /\ ClosedEditor.ticked = {}
BY CardNumbers DEF ClosedWizard, WizardRecord, ClosedEditor, EditorRecord

LEMMA InitCard == CardInit => CardInv
<1> SUFFICES ASSUME CardInit PROVE CardInv
    OBVIOUS
<1>1. MaxRevision \in Nat \ {0} /\ 0 \in 0 .. MaxRevision
    BY CardAssumption
<1>2. profile \in ProfileRecord /\ profile.revision = 0
    BY <1>1 DEF CardInit, ProfileRecord
<1>3. /\ wizard \in [Wizards -> WizardRecord] /\ draft \in DraftRecord
      /\ wanted = {} /\ published = {}
      /\ \A w \in Wizards : wizard[w].mind = {} /\ wizard[w].at = "closed"
    BY DEF CardInit, ClosedWizard, WizardRecord, NoDraft, DraftRecord
<1>4. ClosedEditor \in EditorRecord
    BY <1>1 DEF ClosedEditor, EditorRecord
<1>5. /\ editor \in [Editors -> EditorRecord]
      /\ \A e \in Editors : editor[e].at = "closed" /\ editor[e].revision = 0
                            /\ editor[e].conflict = 0
    BY <1>4 DEF CardInit, ClosedEditor
<1>6. CardTypeOK
    BY <1>2, <1>3, <1>5 DEF CardTypeOK
<1>7. \A w \in Wizards : WizardOK(w)
    BY <1>3 DEF WizardOK
<1>8. \A e \in Editors : EditorOK(e)
    BY <1>2, <1>5 DEF EditorOK
<1> QED
    BY <1>3, <1>6, <1>7, <1>8 DEF CardInv

\* A form that stays is not disturbed by a row that stays or gets a higher revision.
LEMMA EditorStays ==
    ASSUME CardInv, NEW e \in Editors, editor'[e] = editor[e],
           \/ profile' = profile
           \/ profile' \in ProfileRecord /\ profile'.revision > profile.revision
    PROVE  EditorOK(e)'
<1>1. /\ editor[e].revision \in Nat /\ editor[e].conflict \in Nat /\ profile.revision \in Nat
      /\ EditorOK(e)
    BY CardNumbers DEF CardInv, CardTypeOK, EditorRecord
<1>2. CASE profile' = profile
    BY <1>1, <1>2 DEF EditorOK
<1>3. CASE profile' \in ProfileRecord /\ profile'.revision > profile.revision
    <2>1. profile'.revision \in Nat
        BY <1>3, CardNumbers DEF ProfileRecord
    <2> QED
        BY <1>1, <1>3, <2>1 DEF EditorOK
<1> QED
    BY <1>2, <1>3

\* A step of one wizard, and of the row it may write.
LEMMA WizardMoves ==
    ASSUME CardInv, NEW w \in Wizards, NEW x \in WizardRecord, wizard' = [wizard EXCEPT ![w] = x],
           x.mind \subseteq x.off,
           x.at = "creating" => CardFields \ x.sent \subseteq x.agreed,
           \/ profile' = profile
           \/ profile' \in ProfileRecord /\ profile'.revision > profile.revision,
           published' \subseteq LinkKinds, draft' \in DraftRecord,
           wanted' \subseteq draft'.off, UNCHANGED editor
    PROVE  CardInv'
<1>1. /\ wizard' \in [Wizards -> WizardRecord] /\ wizard'[w] = x
      /\ \A v \in Wizards \ {w} : wizard'[v] = wizard[v]
    BY DEF CardInv, CardTypeOK
<1>2. CardTypeOK'
    <2>1. wanted' \in SUBSET Flags
        BY DEF DraftRecord
    <2> QED
        BY <1>1, <2>1 DEF CardInv, CardTypeOK
<1>3. \A v \in Wizards : WizardOK(v)'
    BY <1>1 DEF CardInv, WizardOK
<1>4. \A e \in Editors : EditorOK(e)'
    BY EditorStays
<1> QED
    BY <1>2, <1>3, <1>4 DEF CardInv

\* A change of the wizard's form, which the draft follows.
LEMMA TouchInv ==
    ASSUME CardInv, NEW w \in Wizards, NEW form \in WizardRecord, Touch(w, form),
           form.mind \subseteq form.off,
           form.at = "creating" => CardFields \ form.sent \subseteq form.agreed
    PROVE  CardInv'
<1>1. /\ draft' \in DraftRecord /\ draft'.off = form.off /\ wanted' = form.mind
    BY DEF Touch, Persisted, DraftRecord, WizardRecord
<1> QED
    BY <1>1, WizardMoves DEF Touch, CardInv, CardTypeOK

LEMMA WizardTypes ==
    ASSUME CardInv, NEW w \in Wizards
    PROVE  /\ wizard[w] \in WizardRecord /\ WizardOK(w)
           /\ published \subseteq LinkKinds /\ draft \in DraftRecord /\ wanted \subseteq draft.off
BY DEF CardInv, CardTypeOK

LEMMA WizardFormInv ==
    ASSUME CardInv, NEW w \in Wizards,
           \/ \E f \in Flags : WizardFlag(w, f)
           \/ \E k \in LinkKinds : WizardLink(w, k)
           \/ WizardReset(w)
    PROVE  CardInv'
<1>1. wizard[w] \in WizardRecord /\ WizardOK(w)
    BY WizardTypes
<1>2. ASSUME NEW f \in Flags, WizardFlag(w, f) PROVE CardInv'
    <2>1. PICK off, mind :
              /\ off = IF f \in wizard[w].off THEN wizard[w].off \ {f} ELSE wizard[w].off \cup {f}
              /\ mind = IF f \in wizard[w].off THEN wizard[w].mind \ {f}
                                                ELSE wizard[w].mind \cup {f}
        OBVIOUS
    <2>2. PICK x : x = [wizard[w] EXCEPT !.off = off, !.mind = mind]
        OBVIOUS
    <2>3. Touch(w, x)
        BY <1>2, <2>1, <2>2 DEF WizardFlag
    <2>4. off \subseteq Flags /\ mind \subseteq Flags /\ mind \subseteq off
        BY <1>1, <2>1 DEF WizardRecord, WizardOK
    <2>5. /\ x \in WizardRecord /\ x.off = off /\ x.mind = mind
          /\ x.at = wizard[w].at /\ x.sent = wizard[w].sent /\ x.agreed = wizard[w].agreed
        BY <1>1, <2>2, <2>4 DEF WizardRecord
    <2> QED
        BY <1>1, <2>3, <2>4, <2>5, TouchInv DEF WizardOK
<1>3. ASSUME NEW k \in LinkKinds, WizardLink(w, k) PROVE CardInv'
    <2>1. PICK links : links = IF k \in wizard[w].links THEN wizard[w].links \ {k}
                               ELSE wizard[w].links \cup {k}
        OBVIOUS
    <2>2. PICK x : x = [wizard[w] EXCEPT !.links = links]
        OBVIOUS
    <2>3. Touch(w, x)
        BY <1>3, <2>1, <2>2 DEF WizardLink
    <2>4. links \subseteq LinkKinds
        BY <1>1, <2>1 DEF WizardRecord
    <2>5. /\ x \in WizardRecord /\ x.off = wizard[w].off /\ x.mind = wizard[w].mind
          /\ x.at = wizard[w].at /\ x.sent = wizard[w].sent /\ x.agreed = wizard[w].agreed
        BY <1>1, <2>2, <2>4 DEF WizardRecord
    <2> QED
        BY <1>1, <2>3, <2>5, TouchInv DEF WizardOK
<1>4. CASE WizardReset(w)
    <2>1. PICK x : x = [wizard[w] EXCEPT !.off = {}, !.mind = {}, !.links = {}]
        OBVIOUS
    <2>2. /\ x \in WizardRecord /\ x.mind = {}
          /\ x.at = wizard[w].at /\ x.sent = wizard[w].sent /\ x.agreed = wizard[w].agreed
        BY <1>1, <2>1 DEF WizardRecord
    <2> QED
        BY <1>1, <1>4, <2>1, <2>2, TouchInv DEF WizardReset, WizardOK
<1> QED
    BY <1>2, <1>3, <1>4

LEMMA OpenWizardInv ==
    ASSUME CardInv, NEW w \in Wizards, OpenWizard(w) \/ CloseWizard(w)
    PROVE  CardInv'
<1>1. UNCHANGED <<profile, published, draft, editor, wanted>>
    BY DEF OpenWizard, CloseWizard
<1>2. CASE OpenWizard(w)
    <2>1. PICK x : x = [ClosedWizard EXCEPT !.at = "form", !.off = draft.off,
                                            !.links = draft.links, !.mind = wanted]
        OBVIOUS
    <2>2. wizard' = [wizard EXCEPT ![w] = x]
        BY <1>2, <2>1 DEF OpenWizard
    <2>3. wanted \subseteq draft.off /\ draft \in DraftRecord
        BY WizardTypes
    <2>4. /\ x \in WizardRecord /\ x.at = "form" /\ x.off = draft.off /\ x.mind = wanted
        BY <2>1, <2>3, ClosedForms DEF ClosedWizard, WizardRecord, DraftRecord
    <2> QED
        BY <1>1, <2>2, <2>3, <2>4, WizardTypes, WizardMoves
<1>3. CASE CloseWizard(w)
    <2>1. wizard' = [wizard EXCEPT ![w] = ClosedWizard]
        BY <1>3 DEF CloseWizard
    <2> QED
        BY <1>1, <2>1, ClosedForms, WizardTypes, WizardMoves
<1> QED
    BY <1>2, <1>3

LEMMA PublishInv ==
    ASSUME CardInv, NEW w \in Wizards, Publish(w)
    PROVE  CardInv'
<1>1. wizard[w] \in WizardRecord /\ wizard[w].mind \subseteq wizard[w].off
      /\ wizard[w].off \subseteq CardFields
    BY WizardTypes DEF WizardOK, Publish
<1>2. PICK x : x = [wizard[w] EXCEPT !.at = "creating", !.sent = wizard[w].off,
                                     !.left = wizard[w].links,
                                     !.agreed = CardFields \ wizard[w].mind]
    OBVIOUS
<1>3. wizard' = [wizard EXCEPT ![w] = x] /\ UNCHANGED <<profile, published, draft, editor, wanted>>
    BY <1>2 DEF Publish
<1>4. /\ x \in WizardRecord /\ x.off = wizard[w].off /\ x.mind = wizard[w].mind
      /\ x.sent = wizard[w].off /\ x.agreed = CardFields \ wizard[w].mind
    BY <1>1, <1>2 DEF WizardRecord
<1> QED
    BY <1>1, <1>3, <1>4, WizardTypes, WizardMoves

\* The INSERT makes the first revision or none.
LEMMA Inserted ==
    ASSUME CardInv, NEW hidden \in SUBSET CardFields, Insert(hidden)
    PROVE  /\ profile' = profile
              \/ (profile' \in ProfileRecord /\ profile'.revision > profile.revision)
           /\ Insertable => profile.revision = 0 /\ profile'.revision = 1
                            /\ profile'.hidden = hidden
           /\ profile.revision = 0 => Insertable
           /\ ~Insertable => UNCHANGED profile
<1>1. profile.revision \in Nat /\ 1 \in 0 .. MaxRevision
    BY CardNumbers
<1>2. [revision |-> 1, hidden |-> hidden] \in ProfileRecord
    BY <1>1 DEF ProfileRecord
<1> QED
    BY <1>1, <1>2 DEF Insert, Insertable

LEMMA PublishEndsInv ==
    ASSUME CardInv, NEW w \in Wizards, NEW heard \in BOOLEAN, PublishEnds(w, heard)
    PROVE  CardInv'
<1>1. /\ wizard[w] \in WizardRecord /\ wizard[w].mind \subseteq wizard[w].off
      /\ wizard[w].sent \in SUBSET CardFields /\ Insert(wizard[w].sent)
      /\ UNCHANGED <<published, draft, editor, wanted>>
    BY WizardTypes DEF WizardOK, PublishEnds, WizardRecord
<1>2. PICK x, y : /\ x = [wizard[w] EXCEPT !.at = "linking"]
                  /\ y = [wizard[w] EXCEPT !.at = "form", !.sent = {}, !.left = {}, !.agreed = {}]
    OBVIOUS
<1>3. /\ x \in WizardRecord /\ x.at = "linking" /\ x.mind = wizard[w].mind /\ x.off = wizard[w].off
      /\ y \in WizardRecord /\ y.at = "form" /\ y.mind = wizard[w].mind /\ y.off = wizard[w].off
    BY <1>1, <1>2 DEF WizardRecord
<1>4. wizard' = [wizard EXCEPT ![w] = IF Insertable /\ heard THEN x ELSE y]
    BY <1>2 DEF PublishEnds
<1>5. PICK z : z = IF Insertable /\ heard THEN x ELSE y
    OBVIOUS
<1>6. wizard' = [wizard EXCEPT ![w] = z] /\ z \in WizardRecord
      /\ z.at # "creating" /\ z.mind = wizard[w].mind /\ z.off = wizard[w].off
    BY <1>3, <1>4, <1>5
<1> QED
    BY <1>1, <1>6, Inserted, WizardTypes, WizardMoves

LEMMA PublishLinkInv ==
    ASSUME CardInv, NEW w \in Wizards, NEW k \in LinkKinds, NEW stored \in BOOLEAN,
           PublishLink(w, k, stored)
    PROVE  CardInv'
<1>1. wizard[w] \in WizardRecord /\ WizardOK(w) /\ wizard[w].at = "linking"
    BY WizardTypes DEF PublishLink
<1>2. PICK x : x = [wizard[w] EXCEPT !.left = wizard[w].left \ {k}]
    OBVIOUS
<1>3. wizard' = [wizard EXCEPT ![w] = x] /\ UNCHANGED <<profile, draft, editor, wanted>>
      /\ published' \subseteq LinkKinds
    BY <1>2, WizardTypes DEF PublishLink
<1>4. /\ x \in WizardRecord /\ x.off = wizard[w].off /\ x.mind = wizard[w].mind /\ x.at = "linking"
    BY <1>1, <1>2 DEF WizardRecord
<1> QED
    BY <1>1, <1>3, <1>4, WizardTypes, WizardMoves DEF WizardOK

LEMMA PublishDoneInv ==
    ASSUME CardInv, NEW w \in Wizards, PublishDone(w)
    PROVE  CardInv'
<1>1. /\ wizard' = [wizard EXCEPT ![w] = ClosedWizard] /\ UNCHANGED <<profile, published, editor>>
      /\ draft' \in DraftRecord /\ wanted' = {}
    BY DEF PublishDone, NoDraft, DraftRecord
<1> QED
    BY <1>1, ClosedForms, WizardTypes, WizardMoves

\* A step of one editor, and of the row it may write.
LEMMA EditorMoves ==
    ASSUME CardInv, NEW e \in Editors, NEW x \in EditorRecord, editor' = [editor EXCEPT ![e] = x],
           EditorOK(e)',
           \/ profile' = profile
           \/ profile' \in ProfileRecord /\ profile'.revision > profile.revision,
           UNCHANGED <<published, wizard, draft, wanted>>
    PROVE  CardInv'
<1>1. /\ editor' \in [Editors -> EditorRecord]
      /\ \A d \in Editors \ {e} : editor'[d] = editor[d]
    BY DEF CardInv, CardTypeOK
<1>2. CardTypeOK'
    BY <1>1 DEF CardInv, CardTypeOK
<1>3. \A w \in Wizards : WizardOK(w)'
    BY DEF CardInv, WizardOK
<1>4. \A d \in Editors \ {e} : EditorOK(d)'
    BY <1>1, EditorStays
<1> QED
    BY <1>2, <1>3, <1>4 DEF CardInv

\* What an editor's record is made of.
LEMMA EditorTypes ==
    ASSUME CardInv, NEW e \in Editors
    PROVE  /\ editor[e] \in EditorRecord /\ EditorOK(e)
           /\ editor \in [Editors -> EditorRecord]
           /\ editor[e].revision \in Nat /\ editor[e].conflict \in Nat
BY DEF CardInv, CardTypeOK, EditorRecord

\* The form as the row is.
LEMMA LoadedForm ==
    CardInv => /\ Loaded \in EditorRecord /\ Loaded.at = "form"
               /\ Loaded.revision = profile.revision /\ Loaded.hidden = profile.hidden
               /\ Loaded.conflict = 0
BY CardNumbers, ClosedForms DEF Loaded, ClosedEditor, EditorRecord

\* An edit, a load or a refusal: the form moves and the row does not.
LEMMA EditInv ==
    ASSUME CardInv, NEW e \in Editors, NEW x \in EditorRecord, Edit(e, x),
           x.revision <= profile.revision, x.conflict <= profile.revision,
           x.at = "creating" => x.revision = 0,
           x.at = "form" /\ x.revision = profile.revision /\ x.revision # 0
               => profile.hidden \ x.hidden \subseteq x.ticked,
           x.at = "updating" /\ x.revision = profile.revision /\ x.revision # 0
               => profile.hidden \ x.sent \subseteq x.agreed,
           x.at \in {"creating", "updating"} => x.sent \ x.hidden \subseteq x.ticked
    PROVE  CardInv'
<1>1. /\ editor' = [editor EXCEPT ![e] = x] /\ editor'[e] = x
      /\ UNCHANGED <<profile, published, wizard, draft, wanted>>
    BY EditorTypes DEF Edit
<1>2. EditorOK(e)'
    BY <1>1 DEF EditorOK
<1> QED
    BY <1>1, <1>2, EditorMoves

LEMMA OpenEditorInv ==
    ASSUME CardInv, NEW e \in Editors, OpenEditor(e) \/ CloseEditor(e) \/ Reload(e)
    PROVE  CardInv'
<1>1. profile.revision \in Nat
    BY CardNumbers
<1>2. CASE Edit(e, Loaded)
    BY <1>1, <1>2, LoadedForm, EditInv
<1>3. CASE Edit(e, ClosedEditor)
    BY <1>1, <1>3, ClosedForms, EditInv
<1>4. CASE editor[e].at = "form" /\ Edit(e, [editor[e] EXCEPT !.conflict = 0])
    <2>1. PICK x : x = [editor[e] EXCEPT !.conflict = 0]
        OBVIOUS
    <2>2. /\ x \in EditorRecord /\ x.at = "form" /\ x.revision = editor[e].revision
          /\ x.hidden = editor[e].hidden /\ x.ticked = editor[e].ticked /\ x.conflict = 0
        BY <1>4, <2>1, EditorTypes, CardNumbers DEF EditorRecord
    <2>3. Edit(e, x)
        BY <1>4, <2>1
    <2>4. /\ x.revision <= profile.revision
          /\ x.revision = profile.revision /\ x.revision # 0
                => profile.hidden \ x.hidden \subseteq x.ticked
        BY <1>4, <2>2, EditorTypes DEF EditorOK
    <2> QED
        BY <1>1, <2>2, <2>3, <2>4, EditInv
<1> QED
    BY <1>2, <1>3, <1>4 DEF OpenEditor, CloseEditor, Reload, Reloaded

LEMMA EditorFlagInv ==
    ASSUME CardInv, NEW e \in Editors, NEW f \in CardFields, EditorFlag(e, f)
    PROVE  CardInv'
<1>1. PICK hidden, ticked :
          /\ hidden = IF f \in editor[e].hidden THEN editor[e].hidden \ {f}
                      ELSE editor[e].hidden \cup {f}
          /\ ticked = IF f \in editor[e].hidden THEN editor[e].ticked \cup {f}
                      ELSE editor[e].ticked \ {f}
    OBVIOUS
<1>2. PICK x : x = [editor[e] EXCEPT !.hidden = hidden, !.ticked = ticked]
    OBVIOUS
<1>3. Edit(e, x)
    BY <1>1, <1>2 DEF EditorFlag
<1>4. hidden \subseteq CardFields /\ ticked \subseteq CardFields
    BY <1>1, EditorTypes DEF EditorRecord
<1>5. /\ x \in EditorRecord /\ x.at = editor[e].at /\ x.revision = editor[e].revision
      /\ x.conflict = editor[e].conflict /\ x.sent = editor[e].sent
      /\ x.agreed = editor[e].agreed /\ x.hidden = hidden /\ x.ticked = ticked
    BY <1>2, <1>4, EditorTypes DEF EditorRecord
<1>6. EditorOK(e)
    BY EditorTypes
<1>7. /\ editor[e].sent \ editor[e].hidden \subseteq editor[e].ticked
            => x.sent \ x.hidden \subseteq x.ticked
      /\ profile.hidden \ editor[e].hidden \subseteq editor[e].ticked
            => profile.hidden \ x.hidden \subseteq x.ticked
    BY <1>1, <1>5
<1> QED
    BY <1>3, <1>5, <1>6, <1>7, EditInv DEF EditorOK

\* The form after a save that did not write, and after one the row refused.
LEMMA AnsweredForm ==
    ASSUME CardInv, NEW e \in Editors
    PROVE  /\ Answered(editor[e]) \in EditorRecord /\ Answered(editor[e]).at = "form"
           /\ Answered(editor[e]).revision = editor[e].revision
           /\ Answered(editor[e]).conflict = editor[e].conflict
           /\ Answered(editor[e]).hidden = editor[e].hidden
           /\ Answered(editor[e]).ticked = editor[e].ticked
           /\ Conflict(editor[e]) \in EditorRecord /\ Conflict(editor[e]).at = "form"
           /\ Conflict(editor[e]).revision = editor[e].revision
           /\ Conflict(editor[e]).conflict = profile.revision
<1>1. PICK y : y = Answered(editor[e])
    OBVIOUS
<1>2. /\ y \in EditorRecord /\ y.at = "form" /\ y.revision = editor[e].revision
      /\ y.conflict = editor[e].conflict /\ y.hidden = editor[e].hidden
      /\ y.ticked = editor[e].ticked
    BY <1>1, EditorTypes DEF Answered, EditorRecord
<1>3. PICK z : z = [y EXCEPT !.conflict = profile.revision]
    OBVIOUS
<1>4. z \in EditorRecord /\ z.at = "form" /\ z.revision = editor[e].revision
      /\ z.conflict = profile.revision
    BY <1>2, <1>3, CardNumbers DEF EditorRecord
<1>5. z = Conflict(editor[e])
    BY <1>1, <1>3 DEF Conflict
<1> QED
    BY <1>1, <1>2, <1>4, <1>5

LEMMA SaveInv ==
    ASSUME CardInv, NEW e \in Editors, NEW overwrite \in BOOLEAN, Save(e, overwrite)
    PROVE  CardInv'
<1>1. PICK form : form = editor[e]
    OBVIOUS
<1>2. /\ form \in EditorRecord /\ form.at = "form" /\ EditorOK(e)
      /\ form.revision \in Nat /\ form.conflict \in Nat /\ profile.revision \in Nat
      /\ form.hidden \subseteq CardFields /\ form.ticked \subseteq CardFields
      /\ profile.hidden \subseteq CardFields
    BY <1>1, EditorTypes, CardNumbers DEF Save, EditorRecord
<1>3. PICK expected, sent, agreed :
          /\ expected = IF overwrite THEN form.conflict ELSE form.revision
          /\ agreed = IF overwrite THEN CardFields ELSE form.ticked
          /\ sent = [form EXCEPT !.sent = form.hidden, !.agreed = agreed]
    OBVIOUS
<1>4. /\ sent \in EditorRecord /\ sent.revision = form.revision /\ sent.conflict = form.conflict
      /\ sent.hidden = form.hidden /\ sent.ticked = form.ticked
      /\ sent.sent = form.hidden /\ sent.agreed = agreed
    BY <1>2, <1>3 DEF EditorRecord
<1>5. \/ profile.revision = 0 /\ Edit(e, [sent EXCEPT !.at = "creating"])
      \/ /\ profile.revision # 0 /\ expected = profile.revision
         /\ Edit(e, [sent EXCEPT !.at = "updating", !.revision = expected])
      \/ /\ profile.revision # 0 /\ expected \notin {0, profile.revision}
         /\ Edit(e, Conflict(form))
    BY <1>1, <1>3 DEF Save
<1>6. CASE profile.revision = 0 /\ Edit(e, [sent EXCEPT !.at = "creating"])
    <2>1. PICK x : x = [sent EXCEPT !.at = "creating"]
        OBVIOUS
    <2>2. /\ x \in EditorRecord /\ x.at = "creating" /\ x.revision = form.revision
          /\ x.conflict = form.conflict /\ x.sent = x.hidden
        BY <1>4, <2>1 DEF EditorRecord
    <2>3. form.revision = 0 /\ form.conflict = 0
        BY <1>1, <1>2, <1>6 DEF EditorOK
    <2>4. Edit(e, x)
        BY <1>6, <2>1
    <2>5. x.sent \ x.hidden \subseteq x.ticked
        BY <2>2
    <2> QED
        BY <1>2, <2>2, <2>3, <2>4, <2>5, EditInv
<1>7. CASE /\ profile.revision # 0 /\ expected = profile.revision
           /\ Edit(e, [sent EXCEPT !.at = "updating", !.revision = expected])
    <2>1. PICK x : x = [sent EXCEPT !.at = "updating", !.revision = expected]
        OBVIOUS
    <2>2. expected \in 0 .. MaxRevision
        BY <1>7, CardNumbers
    <2>3. /\ x \in EditorRecord /\ x.at = "updating" /\ x.revision = profile.revision
          /\ x.conflict = form.conflict /\ x.sent = x.hidden /\ x.hidden = form.hidden
          /\ x.agreed = agreed
        BY <1>4, <1>7, <2>1, <2>2 DEF EditorRecord
    <2>4. profile.hidden \ x.sent \subseteq x.agreed
        BY <1>1, <1>2, <1>3, <1>7, <2>3 DEF EditorOK
    <2>5. form.conflict <= profile.revision
        BY <1>1, <1>2 DEF EditorOK
    <2>6. Edit(e, x)
        BY <1>7, <2>1
    <2>7. x.sent \ x.hidden \subseteq x.ticked /\ x.revision <= profile.revision
        BY <1>2, <2>3
    <2> QED
        BY <2>3, <2>4, <2>5, <2>6, <2>7, EditInv
<1>8. CASE profile.revision # 0 /\ expected \notin {0, profile.revision} /\ Edit(e, Conflict(form))
    <2>1. PICK x : x = Conflict(form)
        OBVIOUS
    <2>2. /\ x \in EditorRecord /\ x.at = "form" /\ x.revision = form.revision
          /\ x.conflict = profile.revision
        BY <1>1, <2>1, AnsweredForm
    <2>3. x.revision <= profile.revision
        BY <1>1, <1>2, <2>2 DEF EditorOK
    <2>4. /\ x.hidden = form.hidden /\ x.ticked = form.ticked
        <3>1. PICK y : y = Answered(form)
            OBVIOUS
        <3>2. y \in EditorRecord /\ y.hidden = form.hidden /\ y.ticked = form.ticked
            BY <1>1, <3>1, AnsweredForm
        <3>3. x = [y EXCEPT !.conflict = profile.revision]
            BY <2>1, <3>1 DEF Conflict
        <3> QED
            BY <3>2, <3>3 DEF EditorRecord
    <2> QED
        BY <1>1, <1>2, <1>8, <2>1, <2>2, <2>3, <2>4, EditInv DEF EditorOK
<1> QED
    BY <1>5, <1>6, <1>7, <1>8

LEMMA SaveEndsInv ==
    ASSUME CardInv, NEW e \in Editors, NEW heard \in BOOLEAN, SaveEnds(e, heard)
    PROVE  CardInv'
<1>1. PICK form : form = editor[e]
    OBVIOUS
<1>2. /\ form \in EditorRecord /\ form.at = "updating" /\ EditorOK(e)
      /\ form.revision \in Nat /\ form.conflict \in Nat /\ profile.revision \in Nat
      /\ UNCHANGED <<published, wizard, draft, wanted>>
    BY <1>1, EditorTypes, CardNumbers DEF SaveEnds
<1>3. CASE ~Updatable(e)
    <2>1. PICK x : x = Conflict(form)
        OBVIOUS
    <2>2. /\ x \in EditorRecord /\ x.at = "form" /\ x.revision = form.revision
          /\ x.conflict = profile.revision
        BY <1>1, <2>1, AnsweredForm
    <2>3. Edit(e, x)
        BY <1>1, <1>2, <1>3, <2>1 DEF SaveEnds, Edit
    <2>4. x.revision <= profile.revision /\ x.revision # profile.revision
        BY <1>1, <1>2, <1>3, <2>2 DEF EditorOK, Updatable
    <2> QED
        BY <1>2, <2>2, <2>3, <2>4, EditInv
<1>4. CASE Updatable(e)
    <2>1. PICK next : next = profile.revision + 1
        OBVIOUS
    <2>2. /\ profile' = [revision |-> next, hidden |-> form.sent]
          /\ next \in 0 .. MaxRevision /\ next > profile.revision /\ next \in Nat
        BY <1>1, <1>2, <1>4, <2>1, CardNumbers DEF SaveEnds
    <2>3. profile' \in ProfileRecord /\ profile'.revision = next /\ profile'.hidden = form.sent
        BY <1>2, <2>2 DEF ProfileRecord, EditorRecord
    <2>4. PICK y : y = Answered(form)
        OBVIOUS
    <2>5. /\ y \in EditorRecord /\ y.at = "form" /\ y.revision = form.revision
          /\ y.conflict = form.conflict /\ y.hidden = form.hidden /\ y.ticked = form.ticked
        BY <1>1, <2>4, AnsweredForm
    <2>6. /\ form.revision <= profile.revision /\ form.conflict <= profile.revision
          /\ form.sent \ form.hidden \subseteq form.ticked
        BY <1>1, <1>2 DEF EditorOK
    <2>7. CASE heard
        <3>1. PICK x : x = [y EXCEPT !.revision = next, !.conflict = 0]
            OBVIOUS
        <3>2. /\ x \in EditorRecord /\ x.at = "form" /\ x.revision = next /\ x.conflict = 0
              /\ x.hidden = form.hidden /\ x.ticked = form.ticked
            BY <2>2, <2>5, <3>1, CardNumbers DEF EditorRecord
        <3>3. editor' = [editor EXCEPT ![e] = x]
            BY <1>1, <1>2, <1>4, <2>1, <2>4, <2>7, <3>1 DEF SaveEnds
        <3>4. EditorOK(e)'
            <4>1. editor'[e] = x
                BY <3>3, EditorTypes
            <4> QED
                BY <2>2, <2>3, <2>6, <3>2, <4>1 DEF EditorOK
        <3> QED
            BY <1>2, <2>2, <2>3, <3>2, <3>3, <3>4, EditorMoves
    <2>8. CASE ~heard
        <3>1. editor' = [editor EXCEPT ![e] = y]
            BY <1>1, <1>2, <1>4, <2>4, <2>8 DEF SaveEnds
        <3>2. EditorOK(e)'
            <4>1. editor'[e] = y
                BY <3>1, EditorTypes
            <4>2. /\ y.revision <= next /\ y.conflict <= next /\ y.revision # next
                BY <1>2, <2>2, <2>5, <2>6
            <4> QED
                BY <2>3, <2>5, <4>1, <4>2 DEF EditorOK
        <3> QED
            BY <1>2, <2>2, <2>3, <2>5, <3>1, <3>2, EditorMoves
    <2> QED
        BY <2>7, <2>8
<1> QED
    BY <1>3, <1>4

LEMMA CreateEndsInv ==
    ASSUME CardInv, NEW e \in Editors, NEW heard \in BOOLEAN, CreateEnds(e, heard)
    PROVE  CardInv'
<1>1. PICK form : form = editor[e]
    OBVIOUS
<1>2. /\ form \in EditorRecord /\ form.at = "creating" /\ EditorOK(e)
      /\ form.revision = 0 /\ form.conflict \in Nat /\ profile.revision \in Nat
      /\ form.sent \in SUBSET CardFields /\ Insert(form.sent)
      /\ UNCHANGED <<published, wizard, draft, wanted>>
    BY <1>1, EditorTypes, CardNumbers DEF CreateEnds, EditorRecord, EditorOK
<1>3. /\ profile' = profile
         \/ (profile' \in ProfileRecord /\ profile'.revision > profile.revision)
      /\ Insertable => profile.revision = 0 /\ profile'.revision = 1 /\ profile'.hidden = form.sent
      /\ profile.revision = 0 => Insertable
      /\ ~Insertable => UNCHANGED profile
    BY <1>2, Inserted
<1>4. PICK y : y = Answered(form)
    OBVIOUS
<1>5. /\ y \in EditorRecord /\ y.at = "form" /\ y.revision = form.revision
      /\ y.conflict = form.conflict /\ y.hidden = form.hidden /\ y.ticked = form.ticked
    BY <1>1, <1>4, AnsweredForm
<1>6. /\ form.conflict <= profile.revision /\ form.sent \ form.hidden \subseteq form.ticked
      /\ profile.revision <= profile'.revision /\ profile'.revision \in Nat
    BY <1>1, <1>2, <1>3 DEF EditorOK, ProfileRecord
<1>7. CASE Insertable /\ heard
    <2>1. PICK x : x = [y EXCEPT !.revision = 1]
        OBVIOUS
    <2>2. /\ x \in EditorRecord /\ x.at = "form" /\ x.revision = 1 /\ x.conflict = form.conflict
          /\ x.hidden = form.hidden /\ x.ticked = form.ticked
        BY <1>5, <2>1, CardNumbers DEF EditorRecord
    <2>3. editor' = [editor EXCEPT ![e] = x]
        BY <1>1, <1>4, <1>7, <2>1 DEF CreateEnds
    <2>4. EditorOK(e)'
        <3>1. editor'[e] = x
            BY <2>3, EditorTypes
        <3>2. x.revision <= profile'.revision /\ x.conflict <= profile'.revision
            BY <1>2, <1>3, <1>6, <1>7, <2>2
        <3> QED
            BY <1>3, <1>6, <1>7, <2>2, <3>1, <3>2 DEF EditorOK
    <2> QED
        BY <1>2, <1>3, <2>2, <2>3, <2>4, EditorMoves
<1>8. CASE ~(Insertable /\ heard)
    <2>1. editor' = [editor EXCEPT ![e] = y]
        BY <1>1, <1>4, <1>8 DEF CreateEnds
    <2>2. EditorOK(e)'
        <3>1. editor'[e] = y
            BY <2>1, EditorTypes
        <3>2. y.revision = 0 /\ y.revision <= profile'.revision /\ y.conflict <= profile'.revision
            BY <1>2, <1>5, <1>6
        <3> QED
            BY <1>5, <3>1, <3>2 DEF EditorOK
    <2> QED
        BY <1>2, <1>3, <1>5, <2>1, <2>2, EditorMoves
<1> QED
    BY <1>7, <1>8

LEMMA ContactsInv == CardInv /\ ContactsNext => CardInv'
<1> SUFFICES ASSUME CardInv, ContactsNext PROVE CardInv'
    OBVIOUS
<1>1. /\ UNCHANGED <<profile, wizard, draft, editor, wanted>> /\ published' \subseteq LinkKinds
    BY DEF ContactsNext, PutContact, DeleteContact, CardInv, CardTypeOK
<1> QED
    BY <1>1 DEF CardInv, CardTypeOK, WizardOK, EditorOK

LEMMA NextCard == CardInv /\ [CardNext]_cardVars => CardInv'
<1> SUFFICES ASSUME CardInv, [CardNext]_cardVars PROVE CardInv'
    OBVIOUS
<1>1. CASE UNCHANGED cardVars
    BY <1>1 DEF cardVars, CardInv, CardTypeOK, WizardOK, EditorOK
<1>2. CASE WizardNext
    BY <1>2, OpenWizardInv, WizardFormInv, PublishInv, PublishEndsInv, PublishLinkInv,
       PublishDoneInv DEF WizardNext
<1>3. CASE EditorNext
    BY <1>3, OpenEditorInv, EditorFlagInv, SaveInv, SaveEndsInv, CreateEndsInv DEF EditorNext
<1> QED
    BY <1>1, <1>2, <1>3, ContactsInv DEF CardNext

\* The forms, the draft and the row keep to their types.
THEOREM CardTypes == CardSpec => []CardTypeOK
<1>1. CardInv => CardTypeOK
    BY DEF CardInv
<1> QED
    BY InitCard, NextCard, <1>1, PTL DEF CardSpec

ShownAsTicked ==
    \A f \in PublicFields(profile') \ PublicFields(profile) :
        \/ \E w \in Wizards : /\ wizard[w].at = "creating" /\ wizard'[w].at # "creating"
                              /\ f \in wizard[w].agreed
        \/ \E e \in Editors : /\ editor[e].at \in {"creating", "updating"}
                              /\ editor'[e].at = "form"
                              /\ profile.revision = 0 \/ f \in editor[e].agreed

LEMMA StepShows ==
    ASSUME CardInv, CardNext
    PROVE  ShownAsTicked
<1>1. CASE UNCHANGED profile
    BY <1>1 DEF ShownAsTicked, PublicFields
<1>2. ASSUME NEW w \in Wizards, NEW heard \in BOOLEAN, PublishEnds(w, heard)
      PROVE  ShownAsTicked
    <2>1. /\ wizard[w] \in WizardRecord /\ wizard[w].at = "creating"
          /\ wizard[w].sent \in SUBSET CardFields /\ Insert(wizard[w].sent)
          /\ CardFields \ wizard[w].sent \subseteq wizard[w].agreed
        BY <1>2, WizardTypes DEF PublishEnds, WizardOK, WizardRecord
    <2>2. wizard'[w].at # "creating"
        <3>1. PICK x, y : /\ x = [wizard[w] EXCEPT !.at = "linking"]
                          /\ y = [wizard[w] EXCEPT !.at = "form", !.sent = {}, !.left = {},
                                                   !.agreed = {}]
            OBVIOUS
        <3>2. x.at = "linking" /\ y.at = "form"
            BY <2>1, <3>1 DEF WizardRecord
        <3>3. wizard'[w] = IF Insertable /\ heard THEN x ELSE y
            BY <1>2, <3>1 DEF PublishEnds, CardInv, CardTypeOK
        <3> QED
            BY <3>2, <3>3
    <2>3. CASE Insertable
        <3>1. profile'.revision = 1 /\ profile'.hidden = wizard[w].sent
            BY <2>1, <2>3, Inserted
        <3>2. PublicFields(profile') \subseteq wizard[w].agreed
            BY <2>1, <3>1 DEF PublicFields
        <3> QED
            BY <2>1, <2>2, <3>2 DEF ShownAsTicked
    <2>4. CASE ~Insertable
        BY <1>1, <2>1, <2>4, Inserted
    <2> QED
        BY <2>3, <2>4
<1>3. ASSUME NEW e \in Editors, NEW heard \in BOOLEAN, CreateEnds(e, heard)
      PROVE  ShownAsTicked
    <2>1. /\ editor[e] \in EditorRecord /\ editor[e].at = "creating"
          /\ editor[e].sent \in SUBSET CardFields /\ Insert(editor[e].sent)
        BY <1>3, EditorTypes DEF CreateEnds, EditorRecord
    <2>2. editor'[e].at = "form"
        <3>1. PICK y : y = Answered(editor[e])
            OBVIOUS
        <3>2. y \in EditorRecord /\ y.at = "form"
            BY <3>1, AnsweredForm
        <3>3. PICK x : x = [y EXCEPT !.revision = 1]
            OBVIOUS
        <3>4. x.at = "form"
            BY <3>2, <3>3 DEF EditorRecord
        <3>5. editor'[e] = IF Insertable /\ heard THEN x ELSE y
            BY <1>3, <3>1, <3>3, EditorTypes DEF CreateEnds
        <3> QED
            BY <3>2, <3>4, <3>5
    <2>3. CASE Insertable
        BY <2>1, <2>2, <2>3, Inserted DEF ShownAsTicked
    <2>4. CASE ~Insertable
        BY <1>1, <2>1, <2>4, Inserted
    <2> QED
        BY <2>3, <2>4
<1>4. ASSUME NEW e \in Editors, NEW heard \in BOOLEAN, SaveEnds(e, heard)
      PROVE  ShownAsTicked
    <2>1. editor[e].at = "updating" /\ editor[e] \in EditorRecord /\ EditorOK(e)
        BY <1>4, EditorTypes DEF SaveEnds
    <2>2. CASE ~Updatable(e)
        BY <1>1, <1>4, <2>2 DEF SaveEnds
    <2>3. CASE Updatable(e)
        <3>1. /\ profile.revision = editor[e].revision
              /\ profile' = [revision |-> profile.revision + 1, hidden |-> editor[e].sent]
            BY <1>4, <2>3 DEF SaveEnds, Updatable
        <3>2. editor'[e].at = "form"
            <4>1. PICK y : y = Answered(editor[e])
                OBVIOUS
            <4>2. y \in EditorRecord /\ y.at = "form"
                BY <4>1, AnsweredForm
            <4>3. PICK x : x = [y EXCEPT !.revision = profile.revision + 1, !.conflict = 0]
                OBVIOUS
            <4>4. x.at = "form"
                BY <4>2, <4>3 DEF EditorRecord
            <4>5. editor'[e] = IF heard THEN x ELSE y
                BY <1>4, <2>3, <4>1, <4>3, EditorTypes DEF SaveEnds
            <4> QED
                BY <4>2, <4>4, <4>5
        <3>3. profile.revision # 0 => profile.hidden \ editor[e].sent \subseteq editor[e].agreed
            BY <2>1, <3>1 DEF EditorOK
        <3>4. ASSUME profile.revision # 0
              PROVE  PublicFields(profile') \ PublicFields(profile) \subseteq editor[e].agreed
            BY <3>1, <3>3, <3>4 DEF PublicFields
        <3> QED
            BY <2>1, <3>2, <3>4 DEF ShownAsTicked
    <2> QED
        BY <2>2, <2>3
<1>5. CASE WizardNext
    <2>1. ASSUME NEW w \in Wizards,
                 \/ OpenWizard(w) \/ WizardReset(w) \/ CloseWizard(w)
                 \/ \E f \in Flags : WizardFlag(w, f)
                 \/ \E k \in LinkKinds : WizardLink(w, k)
                 \/ \E k \in LinkKinds, b \in BOOLEAN : PublishLink(w, k, b)
                 \/ Publish(w) \/ PublishDone(w)
          PROVE  UNCHANGED profile
        BY <2>1 DEF OpenWizard, WizardReset, CloseWizard, WizardFlag, WizardLink, PublishLink,
                    Publish, PublishDone, Touch
    <2> QED
        BY <1>1, <1>2, <1>5, <2>1 DEF WizardNext
<1>6. CASE EditorNext
    <2>1. ASSUME NEW e \in Editors,
                 \/ OpenEditor(e) \/ CloseEditor(e) \/ Reload(e)
                 \/ \E f \in CardFields : EditorFlag(e, f)
                 \/ \E b \in BOOLEAN : Save(e, b)
          PROVE  UNCHANGED profile
        BY <2>1 DEF OpenEditor, CloseEditor, Reload, EditorFlag, Save, Edit
    <2> QED
        BY <1>1, <1>3, <1>4, <1>6, <2>1 DEF EditorNext
<1>7. CASE ContactsNext
    BY <1>1, <1>7 DEF ContactsNext, PutContact, DeleteContact
<1> QED
    BY <1>5, <1>6, <1>7 DEF CardNext

\* A field comes onto the public card only when the person put it there (profile/route.ts:92),
\* for any number of tabs, fields and saves.
THEOREM ShownOnlyWhenTicked == CardSpec => HiddenUntilTicked
<1>1. CardInv /\ [CardNext]_cardVars => [ShownAsTicked]_cardVars
    BY StepShows
<1> QED
    BY InitCard, NextCard, <1>1, PTL DEF CardSpec, HiddenUntilTicked, ShownAsTicked

-----------------------------------------------------------------------------
(***************************************************************************)
(* The sum of the four components adds nothing to them: a behaviour of the *)
(* specification that is model-checked is one of each component, so what is *)
(* proved of a component alone holds of the sum, whatever model values the *)
(* components share in a run.                                              *)
(***************************************************************************)
THEOREM PeopleCompose ==
    PeopleSpec => CardSpec /\ EnrichmentSpec /\ CalendarSpec /\ DemoSpec
<1>1. PeopleInit => CardInit /\ EnrichmentInit /\ CalendarInit /\ DemoInit
  BY DEF PeopleInit
<1>2. [PeopleNext]_peopleVars => [CardNext]_cardVars
  BY DEF PeopleNext, peopleVars
<1>3. [PeopleNext]_peopleVars => [EnrichmentNext]_fillVars
  BY DEF PeopleNext, peopleVars
<1>4. [PeopleNext]_peopleVars => [CalendarNext]_calendarVars
  BY DEF PeopleNext, peopleVars
<1>5. [PeopleNext]_peopleVars => [DemoNext]_demoVars
  BY DEF PeopleNext, peopleVars
<1>6. QED
  BY <1>1, <1>2, <1>3, <1>4, <1>5, PTL
     DEF PeopleSpec, CardSpec, EnrichmentSpec, CalendarSpec, DemoSpec

\* Every variable of the card, the enrichment, the calendar and the demo keeps to its type.
THEOREM PeopleTypes == PeopleSpec => []PeopleTypesOK
<1>1. CardTypeOK /\ EnrichmentTypeOK /\ CalendarTypeOK /\ DemoTypeOK => PeopleTypesOK
  BY DEF PeopleTypesOK
<1>2. QED
  BY <1>1, PeopleCompose, CardTypes, EnrichmentTypes, CalendarTypes, DemoTypes, PTL
=============================================================================
