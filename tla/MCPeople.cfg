CONSTANTS
    a1 = a1
    a2 = a2
    f1 = f1
    x1 = x1
    x2 = x2
    y1 = y1
    y2 = y2
    CardFields = {f1}
    LinkKinds = {a1}
    Wizards = {a2}
    Editors = {x1, x2}
    MaxRevision = 3
    Panels = {x1, x2}
    Fills = {y1, y2, a1}
    HourlyMax = 1
    Timeout = 3
    MinRetry = 1
    Cards = {x1, x2}
    Presses = {y1, y2, a1}
    Listed = {x1, x2}
    Owner = a1
    Seeded <- ListedPair
    Runs = {y1, y2}
    MaxMade = 2
SPECIFICATION PeopleSpec
SYMMETRY PeopleSymmetry
INVARIANTS
    PeopleTypesOK
    SpendBounded
    CalendarTold
    NoticesHaveRows
PROPERTIES
    HiddenUntilTicked
    ErasedAsPlanned
CHECK_DEADLOCK FALSE
