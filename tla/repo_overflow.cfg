SPECIFICATION Spec
CONSTANTS
    Asks = {a1, a2}
    Readers = {r1}
    QueueMaxSize = 2
    RetryAttempts = 2
    MaxStarts = 2
    Faults = {}
    None = None
SYMMETRY Symmetry
CHECK_DEADLOCK FALSE
INVARIANTS
    TypeOK
    NoSilentLoss
    ReadYourWrites
    WaitersHaveWork
    CloseLeavesNothing
