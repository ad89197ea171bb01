CONSTANTS
    t1 = t1
    NoThread = NoThread
    Times <- MCTimes
    Threads <- MCThreads
    MaxMsgs = 2
    MaxParts = 2
SPECIFICATION Spec
INVARIANTS
    TypeOK
    NothingNewerDropped
    ThreadEventsChained
    ReadMarkerAtLastSent
