SPECIFICATION FleetSpec
CONSTANTS
    m1 = m1
    Assets = {a1, a2, a3}
    Conditions = {m1}
    Conns = {c1, c2, c3, c4, c5}
    NoConn = NoConn
    NoCondition = NoCondition
    Expirations <- MCExpirations
    Times <- MCTimes
    Market <- MCMarket
    EndTimestamp <- MCEndTimestamp
    Target = 1
    MinPending = 1
    MaxMarkets = 3
    PollutionPercent = 30
    AgeThreshold = 2
    CleanupDelay = 1
    MaxNow = 0
    MonitorTasks = {t1, t2, t3, t4}
    ManualTasks = {}
    MaxConcurrent = 2
SYMMETRY Symmetry
INVARIANTS
    NoDuplicateRecycle
CHECK_DEADLOCK FALSE
