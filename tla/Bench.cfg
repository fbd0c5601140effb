SPECIFICATION FairBenchSpec
CONSTANTS
    NTasks = 2
    Variants = {v1, v2}
    MaxConcurrency = 2
    AttemptLimit = 2
    MaxRounds = 2
    MaxTroubles = 3
INVARIANTS
    RoundIsMerged
PROPERTIES
    NothingBeginsAfterAbort
    ResultsAreKept
    RoundEnds
CHECK_DEADLOCK FALSE
