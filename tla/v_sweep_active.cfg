SPECIFICATION Spec
CONSTANTS
    Client = {c1, c2}
    Fd = {f1, f2}
    User = {u1, u2}
    NULL = NULL
    MAX_EVENTS = 2
    SweepLen = 1
    Timeout = 2
    TableSize = 2
    MaxTime = 3
    MaxSend = 1
    MaxTables = 1
PROPERTY SweepClosesSilent
