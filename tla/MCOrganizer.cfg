CONSTANTS
    i1 = i1
    i2 = i2
    Files <- GuestFiles
    Content <- GuestsOf
    Addresses = {"a"}
    Imports = {i1, i2}
    Earlier <- EarlierGuests
    MaxPicks = 2
    Me = 0
    Persons = {0, 1, 2}
    Profiles <- Cast
    GoalLists <- GoalsChosen
    ListLimit = 2
    MaxChanges = 1
    MaxInterests = 2
    MaxKeywords = 2
    TagLists <- OldTags
    FirstLists <- ListsBefore
    MaxPasses = 2
    MaxForms = 1
    NewWords = {"own word", "own  word"}
    Asker = "me"
    Known = {"me", "a", "b", "c"}
    Texts <- AddressBooks
    PagedBooks <- GoogleBooks
    MaxContacts = 3
    MaxPages = 2
    ReadLimit = 3
    ShownLimit = 1
    Budget = 2
    MaxMoves = 3
SPECIFICATION OrganizerSpec
SYMMETRY OrganizerSymmetry
INVARIANTS
    OrganizerTypesOK
    PreviewedIsCommitted
    PicksExplained
    RecommendedAreListed
    RoundTrips
    AnswersWhole
PROPERTIES
    ImplementsAtomicImport
CHECK_DEADLOCK FALSE
