SPECIFICATION FairSpec
CONSTANTS
    Clients = {c1}
    Streams = {s1, s2, s3}
    Assets = {a1, a2}
    NoStream = NoStream
    NoClient = NoClient
    NoAsset = NoAsset
INVARIANTS
    OneStream
    DependenciesUp
    CleanStop
PROPERTIES
    SignalStops
    StreamsEnd
    ClientsDropped
CHECK_DEADLOCK FALSE
