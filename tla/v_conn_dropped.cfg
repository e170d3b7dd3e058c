SPECIFICATION Spec
CONSTANTS
    NumThreads = 2
    Fd <- MCFd
    CharMod = 4
    MaxAccept = 3
    MaxFail = 0
    MaxOom = 0
PROPERTIES PopIsAdopted
CHECK_DEADLOCK FALSE
