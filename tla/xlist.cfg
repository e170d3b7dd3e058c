SPECIFICATION SpecMore
CONSTANTS
    Handle = {h1, h2}
    Node = {n1, n2, n3, n4, n5}
    Key = {1, 2}
    Ptr = {p}
    Str = {s1, s2}
    NULL = NULL
    beg = beg
    end = end
SYMMETRY Same
INVARIANTS IInv StringsOwned
PROPERTIES ImplementsLists LoopsDoTheirs CallsDoTheirs
