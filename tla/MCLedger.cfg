CONSTANTS
    AmountMax = 7
    MaxLegs = 4
    NumAccounts = 3
    TransactionIds = {1, 2}
    Openings <- MCOpenings
    LegLists <- MCLegLists
SPECIFICATION LedgerSpec
INVARIANTS LedgerTypeOK TrialBalanced OverdraftRespected
PROPERTIES AppliesProjection PendingDeltaFits
