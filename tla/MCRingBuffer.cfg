CONSTANTS
    Producers = {p1, p2}
    Items = {a, b}
    Capacity = 2
    Modulus = 8
    MaxStall = 1
    MaxPos = 9
    Watched = {1, 8}
SPECIFICATION FairSpec
INVARIANTS TypeOK WithinCapacity NoDataRace CellProtocol DataProtocol
PROPERTIES ImplementsQueue EveryClaimIsPopped
