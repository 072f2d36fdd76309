SPECIFICATION RunningSpec
CONSTANTS
    m1 = m1
    Assets = {a1, a2}
    Conditions = {m1}
    Conns = {c1, c2, c3, c4}
    NoConn = NoConn
    NoCondition = NoCondition
    Expirations <- MCExpirations
    Times <- MCTimes
    Market <- MCMarket
    EndTimestamp <- MCEndTimestamp
    Target = 2
    MinPending = 1
    MaxMarkets = 3
    PollutionPercent = 30
    AgeThreshold = 2
    CleanupDelay = 1
    MaxNow = 2
    MonitorTasks = {t1}
    ManualTasks = {f1}
    MaxConcurrent = 2
SYMMETRY Symmetry
INVARIANTS
    TypeOK
    PendingIsQueued
    SubscribedIsManaged
    StatsAccount
    NoLeakedConnection
PROPERTIES
    NoDowntime
    StatusOnlyForward
CHECK_DEADLOCK FALSE
