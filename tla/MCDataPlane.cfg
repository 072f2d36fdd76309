SPECIFICATION FairSpec
CONSTANTS
    a1 = a1
    a2 = a2
    Assets = {a1, a2}
    Workers = {0, 1}
    WorkerOf <- MCWorkerOf
    Queries = {q1, q2}
    AsyncQueueSize = 2
    WorkerQueueSize = 2
    BatchSize = 2
    MaxMessages <- MCMaxMessages
    StatsPipeSize = 2
    ResponsePipeSize = 1
    MaxReports = 1
CHECK_DEADLOCK FALSE
INVARIANTS
    DataPlaneTypeOK
    MessagesAccounted
    QueryFresh
    OneAnswer
PROPERTIES
    RefinesChannel
    RouterDrains
    WorkersEnd
