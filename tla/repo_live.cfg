SPECIFICATION FairSpec
CONSTANTS
    Asks = {a1, a2}
    Readers = {r1}
    QueueMaxSize = 4
    RetryAttempts = 1
    MaxStarts = 1
    Faults = {}
    None = None
CHECK_DEADLOCK FALSE
PROPERTIES
    CallsEnd
    TurnsSettle
    ShutdownEnds
    ImplementsLog
