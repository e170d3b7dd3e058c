SPECIFICATION Spec
CONSTANTS
    User = {u1, u2, u3}
    Nobody = Nobody
    NumSuits = 2
    NumRanks = 2
    Orders <- MCAllOrders
    Garbage <- MCGarbage
    MaxGames = 1
INVARIANT ThirdHandSent
CHECK_DEADLOCK FALSE
