SPECIFICATION Spec
CONSTANTS
    Containers = {c1}
    Entries = {e1, e2, e3}
    Nowhere = Nowhere
    MaxPermits = 2
    MaxQueue = 2
    NstMaintenance = TRUE
INVARIANTS
    PermitAccounting
    NoStall
PROPERTIES
    AllWorkEnds
CHECK_DEADLOCK FALSE
