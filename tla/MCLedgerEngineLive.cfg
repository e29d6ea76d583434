CONSTANTS
    AmountMax = 7
    MaxLegs = 3
    NumAccounts = 3
    SyncModes = {"SyncEveryWrite"}
    Producers = {p1, p2, p3}
    TxPerProducer = 1
    Requests <- FewRequests
    OpeningAccounts <- MCOpeningAccounts
    RingCapacity = 2
    IdempotencyCapacity = 1
    PublishEveryN = 1
    Faults = {"write", "fsync"}
SPECIFICATION FairSpec
CHECK_DEADLOCK FALSE
PROPERTIES
    ImplementsLedger
    EveryoneFinishes
