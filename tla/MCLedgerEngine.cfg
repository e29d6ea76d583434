CONSTANTS
    AmountMax = 7
    MaxLegs = 3
    NumAccounts = 3
    SyncModes = {"SyncEveryWrite", "BatchSyncFlush"}
    Producers = {p1, p2}
    TxPerProducer = 2
    Requests <- ManyRequests
    OpeningAccounts <- MCOpeningAccounts
    RingCapacity = 2
    IdempotencyCapacity = 2
    PublishEveryN = 2
    Faults = {"write", "fsync"}
SYMMETRY Symmetry
SPECIFICATION Spec
CHECK_DEADLOCK FALSE
INVARIANTS
    TypeOK
    HeldExactlyWhileWaiting
    DurableBeforeApply
    PublishedIsRecentCommit
    DuplicateWithinWindow
    AcceptedAreCommitted
