CONSTANTS
    AmountMax = 7
    MaxLegs = 2
    NumAccounts = 2
    SyncModes = {"SyncEveryWrite", "BatchSyncFlush"}
    Producers = {p1, p2}
    TxPerProducer = 2
    Requests <- MCRequests
    OpeningAccounts <- MCOpeningAccounts
    RingCapacity = 2
    IdempotencyCapacity = 4
    PublishEveryN = 1
    Faults = {}
    MaxCrashes = 2
    MaxRestarts = 0
SYMMETRY Symmetry
SPECIFICATION CrashSpec
CHECK_DEADLOCK FALSE
INVARIANTS
    CrashTypeOK
    RecoversCommittedIfOrdered
    NeverRefused
    
