SPECIFICATION FairSpec
CONSTANTS
    Changed = {"backend", "web"}
    MaxWrites = 2
    MaxFaults = 3
CHECK_DEADLOCK FALSE
INVARIANT ReopenedOnlyWhenDecided
INVARIANT OutcomeConsistent
PROPERTY DecisionFinal
PROPERTY KeepsContract
PROPERTY JobSettles
