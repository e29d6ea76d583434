CONSTANTS
    Writers = {w1, w2}
    Overlapping = FALSE
    Accounts <- MCAccounts
    Faults = {"open", "write", "fsync", "rename", "sync_dir"}
    MaxCrashes = 2
SPECIFICATION Spec
CHECK_DEADLOCK FALSE
INVARIANTS PathNeverCorrupt ReturnedSnapshotKept LogEntryKept
PROPERTY ImplementsAtomicSnapshot
