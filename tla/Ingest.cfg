SPECIFICATION FairSpec
CONSTANTS
    new = new
    old = old
    current = current
    former = former
    shared = shared
    own = own
    Clients = {p1, p2}
    Nobody = Nobody
    Runs = {new, old}
    TaskSets = {current, former}
    Current = current
    Blobs = {shared, own}
    SetOf <- SetsOfTwo
    Refs <- RefsOfTwo
    MaxTries = 2
    MaxDeletions = 1
    MaxFaults = 1
INVARIANTS
    SuccessIsWhole
PROPERTIES
    CompletedStays
    EveryRunLands
CHECK_DEADLOCK FALSE
