SPECIFICATION FairSpec
CONSTANTS
    Client = {c1, c2}
    Fd = {f1}
    User = {u1, u2}
    NULL = NULL
    MAX_EVENTS = 2
    SweepLen = 1
    Timeout = 1
    TableSize = 2
    MaxTime = 1
    MaxSend = 1
    MaxTables = 1
PROPERTIES Served SweepReaches
