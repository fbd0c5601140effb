SPECIFICATION Spec
CONSTANTS
    Workers = {w1, w2}
    Steps <- TwoSteps
    Requests <- SomeRequests
    CycleLimit = 6
    StepLimit = 12
    Pasts <- SomePast
    MaxCycles = 2
    MaxFaults = 1
    MaxHours = 1
VIEW View
SYMMETRY Symmetric
INVARIANTS
    RaceHasOneWinner
PROPERTIES
    CompletedIsEarned
    CompletedIsNotRepeated
CHECK_DEADLOCK FALSE
