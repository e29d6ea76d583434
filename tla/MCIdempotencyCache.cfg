CONSTANTS
    Keys = {k1, k2, k3, k4, k5}
    Capacities = {0, 1, 2, 3}
    HashValues = {8, 9}
SPECIFICATION Spec
INVARIANTS ListsPartitionNodes ChainsHoldOccupied
PROPERTY ImplementsSeenKeys
