CONSTANTS
    AmountMax = 7
    MaxLegs = 2
    NumAccounts = 2
    SyncModes = {"SyncEveryWrite"}
    Producers = {p1, p2}
    TxPerProducer = 2
    Requests <- MCRequests
    OpeningAccounts <- MCOpeningAccounts
    RingCapacity = 2
    IdempotencyCapacity = 4
    PublishEveryN = 1
    Faults = {}
    MaxCrashes = 1
    MaxRestarts = 0
SPECIFICATION CrashSpec
CHECK_DEADLOCK FALSE
INVARIANT RecoversCommitted
