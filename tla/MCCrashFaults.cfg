CONSTANTS
    AmountMax = 7
    MaxLegs = 2
    NumAccounts = 2
    SyncModes = {"SyncEveryWrite"}
    Producers = {p1}
    TxPerProducer = 2
    Requests <- MCRequests
    OpeningAccounts <- MCOpeningAccounts
    RingCapacity = 2
    IdempotencyCapacity = 4
    PublishEveryN = 1
    Faults = {"write", "fsync", "open_log", "open_snapshot", "read", "truncate", "snapshot"}
    MaxCrashes = 2
    MaxRestarts = 1
SPECIFICATION FairCrashSpec
CHECK_DEADLOCK FALSE
INVARIANTS NeverRefused
PROPERTY RecoveryTerminates
