CONSTANTS
    t1 = t1
    t2 = t2
    NoThread = NoThread
    Times <- MCTimes
    Threads <- MCThreads
    MaxMsgs = 2
    MaxParts = 2
SPECIFICATION Spec
INVARIANT BInv
