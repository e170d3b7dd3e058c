SPECIFICATION FairSpec
CONSTANTS
    NumThreads = 2
    Fd <- MCFd
    CharMod = 8
    MaxAccept = 4
    MaxFail = 1
    MaxOom = 1
INVARIANTS IInv NoLeakedMutex NoEmptyPop HandedInOrder NoTwoOwners Turns
PROPERTIES EachAdopted
CHECK_DEADLOCK FALSE
