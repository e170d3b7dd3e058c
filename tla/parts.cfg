\* Frames, the database, the containers and the sockets of the library.
SPECIFICATION Spec
CONSTANTS
    ByteMod = 8
    ExOr <- ExclusiveOr
    StartTag = 5
    FrameType = 6
    EndTag = 2
    Pad = 4
    Beyond <- HeapBytes
    Request <- Requests
    Account <- Accounts
    Leftover <- Memory
    U_ID_INIT = 100
    Address <- Server
    Inx = 1
    MaxRequests = 2
    MaxChunks = 3
    Row <- Rows
    Cut = "cut"
    Batch <- Both
    MaxWrites = 2
    BUFFER_GRANULE = 2
    Data <- Bytes123
    MaxQueue = 5
    Ref = {r1, r2, r3, r4, r5}
    Weight = {1, 2, 3}
    Key = {1, 2, 3}
    Value = {v1, v2, v3, v4}
    Fix = {1, 2}
    CELL_SIZE = 2
    PtrSize = 8
    CountMod = 3
    Index <- Indices
    Index2 <- Indices2
    Element = {e1, e2}
    Zero = Zero
    MaxSets = 3
    XSK_HEAD_LEN = 2
    BUFFER_SIZE = 2
    MaxSize = 4
    Room = 3
    Message <- Messages
    Junk <- Behind
    MaxAsked = 2
INVARIANT CutFramesRefused
INVARIANT WholeFramesAnswered
INVARIANT CallsTellTruth
INVARIANT ChainIsQueue
INVARIANT TreapFinds
INVARIANT ArrayReads
INVARIANT MessagesWhole
PROPERTY HeapKeepsOrder
CHECK_DEADLOCK FALSE
