CONSTANTS
    Facets = {"interest"}
    RecModes = {"useful", "grow"}
    MaxChanges = 1
    Others = {"o1", "o2"}
    Me = "me"
    LinkKinds = {"telegram"}
    MaxAdrift = 1
    MaxCalls = 2
SPECIFICATION ScreensSpec
INVARIANTS
    ScreensTypesOK
    ListIsOfItsFilters
    ProposedAsChosen
    OwnAnswerShown
    RetriedAsAsked
