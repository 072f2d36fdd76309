SPECIFICATION FairSpec
CONSTANTS
    m1 = m1
    Assets = {a1}
    Conditions = {m1}
    Conns = {c1, c2, c3, c4}
    NoConn = NoConn
    NoCondition = NoCondition
    Expirations <- MCExpirations
    Times <- MCTimes
    Market <- MCMarket
    EndTimestamp <- MCEndTimestamp
    Target = 1
    MinPending = 1
    MaxMarkets = 3
    PollutionPercent = 30
    AgeThreshold = 1
    CleanupDelay = 0
    MaxNow = 1
    MonitorTasks = {t1, t2}
    ManualTasks = {}
    MaxConcurrent = 1
PROPERTIES
    RecycleEnds
    PendingServed
    ShutdownTerminates
INVARIANTS
    ShutdownClosesAll
CHECK_DEADLOCK FALSE
