CONSTANTS
    Wide = 2
    kMaxLegsPerTransaction = 3
    kMaxPayloadSize = 30
    Transactions <- MCTransactions
    Clock <- MCClock
    Modes = {"SyncEveryWrite", "BatchSyncFlush"}
    Flips = {1, 128}
    MaxFaults = 1
SPECIFICATION Spec
CHECK_DEADLOCK FALSE
INVARIANTS ReadsExactlyTheIntact  ChecksumByDivision
 
