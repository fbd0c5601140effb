SPECIFICATION FairSpec
CONSTANTS
    Procs = {p1, p2}
    NoFile = NoFile
    Stale = 2
    Margin = 1
    MaxFaults = 2
PROPERTIES
    RefinesMutex
    GivesUpOnYoungOnly
    EveryAcquireReturns
