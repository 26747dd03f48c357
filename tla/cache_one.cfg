SPECIFICATION Spec
CONSTANTS
    a1 = a1
    a2 = a2
    a3 = a3
    i1 = i1
    i2 = i2
    Asks = {a1, a2, a3}
    Instances = {i1}
    Home <- OneHome
    Venue = FALSE
    ProfileTtl = 1
    RecsTtl = 1
    Latency = 1
    CacheFaults = FALSE
    ServiceFaults = TRUE
    MaxTime = 2
    MaxRev = 1
    None = None
SYMMETRY Symmetry
CHECK_DEADLOCK FALSE
INVARIANTS
    TypeOK
    SingleFlight
    MonotonicReads
