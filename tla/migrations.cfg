SPECIFICATION FairSpec
CONSTANTS
    r1 = r1
    r2 = r2
    r3 = r3
    None = None
    Runners = {r1, r2, r3}
    Files <- TwoReleasesAndAnEdit
    MaxRuns = 2
CHECK_DEADLOCK FALSE
INVARIANTS
    TypeOK
    RecordsMatchSchema
    DoneMeansApplied
PROPERTIES
    ImplementsLedger
    RunsEnd
