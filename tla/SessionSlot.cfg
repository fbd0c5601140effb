SPECIFICATION FairSpec
CONSTANTS
    Procs = {p1, p2, p3}
    Nobody = Nobody
    Threshold = 2
    MaxCalls = 4
INVARIANTS
    RerunOnlyAfterCrash
    NoProcessLeaks
PROPERTIES
    RunsToItsEnd
    EveryCallReturns
CHECK_DEADLOCK FALSE
