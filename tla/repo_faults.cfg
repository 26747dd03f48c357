SPECIFICATION Spec
CONSTANTS
    Asks = {a1, a2}
    Readers = {}
    QueueMaxSize = 8
    RetryAttempts = 2
    MaxStarts = 1
    Faults = {"lost", "acklost"}
    None = None
SYMMETRY Symmetry
CHECK_DEADLOCK FALSE
INVARIANTS
    NoSilentLoss
    FailuresBlamed
    TurnsWhole
    TurnsAdjacent
