SPECIFICATION RunningSpec
CONSTANTS
    m1 = m1
    Assets = {a1}
    Conditions = {m1}
    Conns = {c1, c2}
    NoConn = NoConn
    NoCondition = NoCondition
    Expirations <- MCExpirations
    Times <- MCTimes
    Market <- MCMarket
    EndTimestamp <- MCEndTimestamp
    Target = 1
    MinPending = 1
    MaxMarkets = 3
    PollutionPercent = 30
    AgeThreshold = 2
    CleanupDelay = 1
    MaxNow = 0
    MonitorTasks = {t1}
    ManualTasks = {}
    MaxConcurrent = 1
INVARIANTS
    MigrationCounted
CHECK_DEADLOCK FALSE
