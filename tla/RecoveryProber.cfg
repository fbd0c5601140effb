SPECIFICATION Spec
CONSTANTS
    Containers = {c1, c2}
    Fingerprints = {f, g}
    Catastrophic = {g}
    WindowSize = 1
    Threshold = 1
    GlobalMin = 2
    MaxAlerts = 2
    SuccessesRequired = 2
    MaxRecoveries = 1
    MaxRestarts = 1
    AutoRestart = TRUE
    Mendable = {c1}
INVARIANTS
    KeysMatchAlerts
PROPERTIES
    NeverMuted
    OutageCoversAffected
    ClearedIsProven
    NothingBegunAfterStop
    MendedComesBack
CHECK_DEADLOCK FALSE
