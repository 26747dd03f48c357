SPECIFICATION Spec
CONSTANTS
    a1 = a1
    a2 = a2
    a3 = a3
    d1 = d1
    d2 = d2
    r1 = r1
    r2 = r2
    v1 = v1
    None = None
    Asks = {a1, a2, a3}
    PageSize = 5
    Requests <- SomeRequests
    BeverageReplies <- SomeBeverages
    VenueReplies <- SomeVenues
    Texts <- SomeTexts
SYMMETRY Symmetry
CHECK_DEADLOCK FALSE
INVARIANTS
    TypeOK
    AnswersGrounded
    WarningsKept
    FollowUpsAreFresh
    VenueFollowUpStays
    SelectionIsLatest
