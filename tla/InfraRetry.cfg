CONSTANTS
    Containers = {c1, c2, c3, c4}
    AlertIds = {a1, a2}
    MaxBudget = 1
SPECIFICATION Spec
INVARIANTS
    NeverBackToFailed
    TrailChains
    DeliveredRight
    WaiverOnce
PROPERTIES
    EveryCallEnds
