SPECIFICATION Spec
CONSTANTS
    Asks = {a1, a2}
    Readers = {}
    QueueMaxSize = 5
    RetryAttempts = 3
    MaxStarts = 1
    Faults = {}
    None = None
SYMMETRY Symmetry
CHECK_DEADLOCK FALSE
INVARIANTS
    HealthyStoreKeepsAll
