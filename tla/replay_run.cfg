SPECIFICATION FairSpec
CONSTANTS
    Lcores = {0, 1, 2, 3}
    EalCores = {0, 1, 2}
    SocketOf <- MCSocketOf
    MaxSockets = 2
    MaxPorts = 2
    MaxQueues = 2
    Tables <- MCTables
    PoolSize = 14
    CacheSize = 1
    RxRing = 3
    TxRing = 2
    RxBurst = 2
    TxBurst = 1
    MAX_CHECK_TIME = 3
    MaxFaults = 1
CHECK_DEADLOCK FALSE
INVARIANTS
    TypeOK
    MbufsConserved
    QueuesReady
    LinksReported
PROPERTIES
    PanicsForAReason
    KeepsSending
    KeepsReceiving
