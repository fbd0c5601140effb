SPECIFICATION PoolSpec
CONSTANTS
    Containers = {c1, c2}
    Entries = {e1, e2, e3}
    Nowhere = Nowhere
    MaxPermits = 1
    MaxQueue = 2
    NstMaintenance = FALSE
    RecoveryEnabled = TRUE
    CallerExclusions = {{}, {c1}, {c2}}
VIEW View
SYMMETRY Symmetric
INVARIANTS
    NothingLostOrDoubled
    TestsAloneUnlessReadmitted
    RoutedWell
PROPERTIES
    KeepsContract
    OrderKept
CHECK_DEADLOCK FALSE
