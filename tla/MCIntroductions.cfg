CONSTANTS
    pa = pa
    pb = pb
    f1 = f1
    r1 = r1
    r2 = r2
    r3 = r3
    r4 = r4
    Free = Free
    Parties <- Pair
    Fields <- OneField
    Requests <- FourRequests
SPECIFICATION Spec
SYMMETRY IntroductionSymmetry
INVARIANTS
    StateIsConsent
    NoticesTellTheOutcome
    ShownAgreed
PROPERTIES
    LateRefused
