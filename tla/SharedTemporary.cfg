CONSTANTS
    Writers = {w1, w2}
    Overlapping = TRUE
    Accounts <- MCAccounts
    Faults = {}
    MaxCrashes = 0
SPECIFICATION Spec
CHECK_DEADLOCK FALSE
INVARIANT PathNeverCorrupt
