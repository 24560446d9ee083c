CONSTANTS
    a1 = a1
    a2 = a2
    b1 = b1
    b2 = b2
    c1 = c1
    c2 = c2
    d1 = d1
    d2 = d2
    e1 = e1
    e2 = e2
    g1 = g1
    Members = {a1, a2}
    Chats = {b1, b2}
    Challenges = {c1, c2}
    Updates = {d1, d2}
    Handlers = {e1, e2}
    MaxRedone = 1
    Notes = {a1, a2}
    Limit = 1
    Ticks = {b1, b2}
    MaxEdits = 2
    People = {a1, a2}
    Registrations = {g1}
    Invites = {b1, b2}
    Calls = {c1, c2}
    Wishes = {"keep"}
SPECIFICATION MembersSpec
SYMMETRY MembersSymmetry
INVARIANTS
    OptedOutLeftAlone
    RegistrationBoundOnce
PROPERTIES
    ActivationConsumesChallenge
CHECK_DEADLOCK FALSE
