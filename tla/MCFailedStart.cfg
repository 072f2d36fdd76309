SPECIFICATION Spec
CONSTANTS
    Clients = {c1}
    Streams = {s1}
    Assets = {a1}
    NoStream = NoStream
    NoClient = NoClient
    NoAsset = NoAsset
INVARIANTS
    FailedStartStops
CHECK_DEADLOCK FALSE
