SPECIFICATION Spec
CONSTANTS
    User = {u1, u2, u3}
    Nobody = Nobody
    NumSuits = 4
    NumRanks = 13
    Orders <- MCSomeOrders
    Garbage = {0}
    MaxGames = 2
SYMMETRY Users
INVARIANTS IInv FairDeal NoHalt HandsSent
CHECK_DEADLOCK FALSE
