------------------------------- MODULE Scoring --------------------------------
(***************************************************************************)
(* The pure scorers behind the recommendations: the intent and interest    *)
(* score (v3), the usefulness ranking (v4) with its two lines of reasons,  *)
(* and the frozen tag score, over a fragment of the catalogue.  A          *)
(* component between 0 and 1 is counted in sixtieths, a weight in          *)
(* twentieths; lists hold at most two needs and two goals, so that every   *)
(* share is a whole number of sixtieths.                                   *)
(***************************************************************************)
EXTENDS FiniteSetsExt, Integers, SequencesExt

(* The catalogue *)

NeedOrder == <<"hiring", "seeking-mentor">>
OfferOf == [n \in Range(NeedOrder) |-> IF n = "hiring" THEN "open-to-work" ELSE "mentoring"]
Offers == Range(OfferOf)
ComplementOf(i) == IF i \in Offers THEN CHOOSE n \in DOMAIN OfferOf : OfferOf[n] = i ELSE OfferOf[i]

Complementary == {{"founder-ceo", "investor"}, {"sales-bd", "marketing"}}
UsefulFunctions == {{"founder-ceo", "investor"}, {"design", "engineering"}, {"product", "engineering"},
                    {"sales-bd", "product"}, {"marketing", "sales-bd"}, {"hr-people", "operations"}}
TeachingOffers == {"mentoring"}
HelpableNeeds == {"seeking-mentor"}

GoalPattern == [find_mentor |-> [offers |-> {"mentoring"}, needs |-> {}, interests |-> {}],
                hire |-> [offers |-> {"open-to-work"}, needs |-> {}, interests |-> {"hiring"}],
                grow_network |-> [offers |-> {}, needs |-> {}, interests |-> {}]]
Broad == {"grow_network"}

-----------------------------------------------------------------------------
(* A profile as the scorers read it *)

\* normalizeIntentTag: an id of the other kind stands for its complement.
OfKind(ids, kind) ==
    {IF (i \in Offers) <=> (kind = "offer") THEN i ELSE ComplementOf(i) : i \in ids}

NormalProfile(p) ==
    [needs |-> OfKind(p.needs, "need"), offers |-> OfKind(p.offers, "offer"),
     interests |-> p.interests, function |-> p.function, industry |-> p.industry]

HasV3Data(p) == p.needs # {} \/ p.offers # {} \/ p.interests # {}

\* The needs of the one that the other's offers answer.
Covered(a, b) == {n \in a.needs \cap DOMAIN OfferOf : OfferOf[n] \in b.offers}

Share(part, whole) == IF whole = 0 THEN 0 ELSE (60 * part) \div whole
LesserOf(m, n) == IF m < n THEN m ELSE n
GreaterOf(m, n) == IF m > n THEN m ELSE n

Overlap(a, b) == Share(Cardinality(a.interests \cap b.interests),
                       LesserOf(Cardinality(a.interests), Cardinality(b.interests)))

SameFunction(a, b) == a.function # "none" /\ a.function = b.function
SameIndustry(a, b) == a.industry # "none" /\ a.industry = b.industry
Pairs(matrix, a, b) == {a.function, b.function} \in matrix

\* scoreNetworking: is the pair let through?  An overlap of 0.34 is 20.4 sixtieths.
V3Eligible(a, b) ==
    /\ HasV3Data(a) /\ HasV3Data(b)
    /\ \/ Covered(a, b) # {} \/ Covered(b, a) # {}
       \/ Overlap(a, b) > 20
       \/ (SameFunction(a, b) \/ Pairs(Complementary, a, b)) /\ SameIndustry(a, b)

-----------------------------------------------------------------------------
(* The components of usefulness *)

Weight(i) == 6 \div i      \* 1, 1/2, 1/3 in sixths

\* The places of the list by their weights; it has three at most.
WeighedShare(values) ==
    LET At(i) == IF i \in DOMAIN values THEN Weight(i) ELSE 0
        Of(i) == IF i \in DOMAIN values THEN Weight(i) * values[i] ELSE 0 IN
    Share(Of(1) + Of(2) + Of(3), 60 * (At(1) + At(2) + At(3)))

\* weightedCoverage over the needs, in the order of the catalogue.
NeedsInOrder(a) == SelectSeq(NeedOrder, LAMBDA n : n \in a.needs)

IntentFit(a, b) ==
    LET needs == NeedsInOrder(a) IN
    WeighedShare([i \in DOMAIN needs |-> IF needs[i] \in Covered(a, b) THEN 60 ELSE 0])

GoalScore(goal, b) ==
    LET pattern == GoalPattern[goal] IN
    CASE pattern.offers \cap b.offers # {} \/ pattern.needs \cap b.needs # {} -> 60
      [] pattern.offers \cap b.offers = {} /\ pattern.needs \cap b.needs = {} ->
            IF pattern.interests \cap b.interests # {} \/ goal \in Broad THEN 30 ELSE 0

GoalAlignment(a, b) == WeighedShare([i \in DOMAIN a.goals |-> GoalScore(a.goals[i], b)])

Complementarity(a, b) ==
    GreaterOf(IF Pairs(UsefulFunctions, a, b) THEN 60 ELSE 0,
              GreaterOf(Share(Cardinality(Covered(a, b)), Cardinality(a.needs)),
                        Share(Cardinality(Covered(b, a)), Cardinality(b.needs))))

FunctionMatch(a, b) == SameFunction(a, b) \/ Pairs(UsefulFunctions, a, b)
LearningFit(b) == IF b.offers \cap TeachingOffers # {} THEN 60 ELSE 0

Half(condition) == IF condition THEN 30 ELSE 0
PeerFit(a, b) == Half(FunctionMatch(a, b)) + Half(SameIndustry(a, b))
OutsideFit(a, b) == Half(b.function # "none" /\ ~FunctionMatch(a, b))
                  + Half(b.industry # "none" /\ ~SameIndustry(a, b))

\* candidateSimilarity: 0.4 function, 0.3 industry, 0.3 shared interests.
Similarity(a, b) ==
    (4 * (IF SameFunction(a, b) THEN 60 ELSE 0) + 3 * (IF SameIndustry(a, b) THEN 60 ELSE 0)
        + 3 * Share(Cardinality(a.interests \cap b.interests),
                    Cardinality(a.interests \cup b.interests))) \div 10

Modes == {"useful", "grow", "similar", "explore"}
ModeWeights ==
    [useful  |-> [intent |-> 6, interest |-> 4, complement |-> 5, goal |-> 3, focus |-> 0, novelty |-> 2],
     grow    |-> [intent |-> 6, interest |-> 3, complement |-> 4, goal |-> 3, focus |-> 2, novelty |-> 2],
     similar |-> [intent |-> 1, interest |-> 6, complement |-> 1, goal |-> 1, focus |-> 7, novelty |-> 4],
     explore |-> [intent |-> 1, interest |-> 4, complement |-> 1, goal |-> 1, focus |-> 7, novelty |-> 6]]

Focus(mode, a, b) ==
    CASE mode = "similar" -> PeerFit(a, b)
      [] mode = "explore" -> OutsideFit(a, b)
      [] OTHER -> LearningFit(b)

\* usefulnessScore as a whole number of hundredths, rounded to the nearest.
Usefulness(mode, a, b, novelty) ==
    LET w == ModeWeights[mode] IN
    (w.intent * IntentFit(a, b) + w.interest * Overlap(a, b)
        + w.complement * Complementarity(a, b) + w.goal * GoalAlignment(a, b)
        + w.focus * Focus(mode, a, b) + w.novelty * novelty + 6) \div 12

Gate(mode, a, b) ==
    CASE mode = "useful" -> V3Eligible(a, b) /\ Complementarity(a, b) >= 15
      [] mode = "grow" -> LearningFit(b) > 0 \/ GoalAlignment(a, b) > 0 \/ Overlap(a, b) > 0
      [] mode = "similar" -> Overlap(a, b) > 0 \/ FunctionMatch(a, b) \/ SameIndustry(a, b)
      [] mode = "explore" -> a.interests \cap b.interests # {}

-----------------------------------------------------------------------------
(* The greedy ranking *)

\* Nothing shown yet, all is new; else the distance to the closest one shown.
Novelty(b, shown) == 60 - Max({0} \cup {Similarity(b, s) : s \in shown})

\* The later signal first, then the lower id.
TieBreak(b, c) == b.recency > c.recency \/ (b.recency = c.recency /\ b.id < c.id)

Beats(s, b, t, c) == s > t \/ (s = t /\ TieBreak(b, c))

\* The best of the pool, next to those that are shown already.
PickOf(mode, a, pool, shown) ==
    LET worth == [b \in pool |-> Usefulness(mode, a, b, Novelty(b, shown))] IN
    CHOOSE b \in pool : \A c \in pool \ {b} : Beats(worth[b], b, worth[c], c)

\* rankCandidates: of those the mode lets through the best one, then the best one next to
\* it, and so on.
Gated(mode, a, candidates) == {b \in candidates : Gate(mode, a, b)}

IsRanking(list, mode, a, pool) ==
    \A i \in DOMAIN list :
        LET shown == {list[j] : j \in 1 .. i - 1} IN
        list[i] = PickOf(mode, a, pool \ shown, shown)

RankedCandidates(mode, a, candidates, limit) ==
    LET pool == Gated(mode, a, candidates)
        size == LesserOf(limit, Cardinality(pool))
    IN CHOOSE list \in [1 .. size -> pool] : IsRanking(list, mode, a, pool)

-----------------------------------------------------------------------------
(* The two lines of reasons *)

If(condition, code) == IF condition THEN <<code>> ELSE <<>>
Each(s, code) == [i \in 1 .. Cardinality(s) |-> code]
Line(codes) == SubSeq(codes, 1, LesserOf(3, Len(codes)))

UsefulReasons(a, b) ==
    Line(Each({i \in DOMAIN a.goals : GoalScore(a.goals[i], b) = 60}, "goal_advanced")
         \o Each(Covered(a, b), "need_covered") \o Each(Covered(b, a), "mutual_needs")
         \o If(a.interests \cap b.interests # {}, "shared_interests")
         \o If(Pairs(UsefulFunctions, a, b), "complementary_functions")
         \o If(SameIndustry(a, b) \/ SameFunction(a, b), "same_context"))

DifferentContext(a, b) ==
    \/ ~SameIndustry(a, b) /\ b.industry # "none"
    \/ ~FunctionMatch(a, b) /\ b.function # "none"

\* Mutant: the last resort is left out.
ContextReason(a, b) == If(DifferentContext(a, b), "different_context")

LastReason(a, b) ==
    IF DifferentContext(a, b) THEN <<"different_context">>
    ELSE If(~FunctionMatch(a, b) /\ ~SameIndustry(a, b), "outside_circle")

GrowthReasons(a, b) ==
    Line(Each(b.offers \cap TeachingOffers, "can_teach")
         \o Each({n \in Covered(b, a) : n \in HelpableNeeds}, "wants_your_help")
         \o LastReason(a, b))

-----------------------------------------------------------------------------
(* The frozen tag score *)

\* scorePair needs a fit in both directions; the score weighs the weaker one more.
TagFits(a, b) == a.wants \cap b.has # {} /\ b.wants \cap a.has # {}

TagScore(a, b) ==
    LET ab == Share(Cardinality(a.wants \cap b.has), Cardinality(a.wants))
        ba == Share(Cardinality(b.wants \cap a.has), Cardinality(b.wants)) IN
    (6 * LesserOf(ab, ba) + 2 * (ab + ba) + 3) \div 6
===============================================================================
