SPECIFICATION Spec
CONSTANTS
    a1 = a1
    a2 = a2
    a3 = a3
    i1 = i1
    i2 = i2
    Asks = {a1, a2}
    Instances = {i1, i2}
    Home <- TwoHomes
    Venue = TRUE
    ProfileTtl = 1
    RecsTtl = 1
    Latency = 1
    CacheFaults = TRUE
    ServiceFaults = TRUE
    MaxTime = 2
    MaxRev = 2
    None = None
CHECK_DEADLOCK FALSE
INVARIANTS
    NeverBehindProfile
PROPERTIES
    BoundedStaleness
    StaleVenuesUnshared
