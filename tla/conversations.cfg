SPECIFICATION Spec
CONSTANTS
    u1 = u1
    u2 = u2
    k1 = k1
    None = None
    Messages = {1, 2, 3}
    Writers = 2
    Convs = {1, 2}
    Owner <- SomeOwners
    Readers = {r1}
    Users = {u1, u2}
    PageSizes = {0, 1}
    DefaultPage = 3
    MaxPage = 2
    Reports = {f1, f2}
    Calls <- SomeCalls
    MaxCalls = 2
SYMMETRY Symmetry
CHECK_DEADLOCK FALSE
INVARIANTS
    TypeOK
    PagesComplete
    RepeatsOnlyForLateRows
    FeedbackOnce
    DoubleAgrees
PROPERTIES
    FeedbackStays
