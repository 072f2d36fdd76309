SPECIFICATION RegistrySpec
CONSTANTS
    Assets = {a1, a2, a3}
    Conditions = {m1, m2}
    Conns = {c1, c2}
    NoConn = NoConn
    NoCondition = NoCondition
    Expirations <- MCExpirations
    Times <- MCTimes
    Target = 2
SYMMETRY Symmetry
INVARIANTS
    RegistryTypeOK
    StatusIndexExact
    MarketIndexesExact
    EntryConnectionIndexed
    QueueSound
PROPERTIES
    QueueFifo
