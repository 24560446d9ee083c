----------------------------- MODULE MCCampaign -----------------------------
EXTENDS Campaign, TLC

CONSTANTS a1, a2, r1, r2, r3, r4, w1, w2

TwoAccounts == {a1, a2}
FourRequests == {r1, r2, r3, r4}
ApproveAndSend == {r1, r2}
ApprovedThenSent == (r1 :> "approve") @@ (r2 :> "send")
OneOfEach == (r1 :> "approve") @@ (r2 :> "send") @@ (r3 :> "cancel") @@ (r4 :> "edit")
SentTwice == (r1 :> "approve") @@ (r2 :> "send") @@ (r3 :> "send") @@ (r4 :> "cancel")
TwoWorkers == {w1, w2}

CampaignSymmetry == Permutations(Accounts) \cup Permutations(Workers)
=============================================================================
