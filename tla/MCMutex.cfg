SPECIFICATION Spec
CONSTANTS
    a = a
    b = b
    c = c
    Threads <- MCThreads
    NoThread = NoThread
INVARIANTS
    MutualExclusion
PROPERTY
    ImplementsLock
