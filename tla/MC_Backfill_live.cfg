CONSTANTS
    t1 = t1
    NoThread = NoThread
    Times <- MCTimes
    Threads <- MCThreads
    MaxMsgs = 2
    MaxParts = 1
SPECIFICATION Spec
PROPERTIES
    DisappearingEventuallyScheduled
