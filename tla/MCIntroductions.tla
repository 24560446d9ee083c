-------------------------- MODULE MCIntroductions --------------------------
EXTENDS Introductions, TLC

CONSTANTS pa, pb, f1, r1, r2, r3, r4

Pair == {pa, pb}
OneField == {f1}
FourRequests == {r1, r2, r3, r4}

IntroductionSymmetry == Permutations(Requests)
============================================================================
