SPECIFICATION SpecHeap
CONSTANTS
    a = a
    b = b
    Threads <- MCThreads
    NoThread = NoThread
INVARIANT
    NeverSpinsOnOwnLock
