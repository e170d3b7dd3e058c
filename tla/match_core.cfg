SPECIFICATION Spec
CONSTANTS
    w1 = w1 w2 = w2
    u1 = u1 u2 = u2 u3 = u3
    a = a b = b c = c
    Worker = {w1, w2}
    Stray = {}
    GameThread = game
    User = {u1, u2, u3}
    Name = {a, b, c}
    NameOf <- MCNameOfTwins
    NULL = NULL
    Wild = Wild
    MaxMatch = 2
    MaxFirst = 1
SYMMETRY Threads
INVARIANTS IInv ReadsAreFilled PickedStayFirst HandsKept
PROPERTIES LeavesFromFront Implements
