SPECIFICATION MCSpec
CONSTANTS
    MaxMarkets = 4
    PageSize = 2
    MaxRetries = 2
PROPERTIES
    NothingSkipped
    EventuallyKnown
CHECK_DEADLOCK FALSE
