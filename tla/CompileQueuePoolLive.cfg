SPECIFICATION PoolSpec
CONSTANTS
    Containers = {c1, c2}
    Entries = {e1}
    Nowhere = Nowhere
    MaxPermits = 1
    MaxQueue = 2
    NstMaintenance = FALSE
    RecoveryEnabled = TRUE
    CallerExclusions = {{}}
PROPERTIES
    EverySubmissionSettles
CHECK_DEADLOCK FALSE
