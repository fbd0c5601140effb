SPECIFICATION Spec
CONSTANTS
    Items = {i1, i2, i3, i4}
    Concurrent = 1
    Rpm = 3
    Tpm = 3
    Estimate = 1
    MaxGlobal = 3
    MaxRetries = 1
    Errors = {"rate_limit", "other"}
    RetryAfters = {0}
    ActualTokens = {0, 2}
SYMMETRY Symmetric
INVARIANTS
    LimitsHeld
    NothingLeaks
PROPERTIES
    ServedInTurn
CHECK_DEADLOCK FALSE
