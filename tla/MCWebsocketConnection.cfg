SPECIFICATION FairSpec
CONSTANTS
    InitialDelay = 1
    MaxDelay = 30
    FailuresCap = 7
INVARIANTS
    StopLeavesNothing
    BackoffCounts
PROPERTIES
    RefinesView
    Recovers
    StopReturns
CHECK_DEADLOCK FALSE
