SPECIFICATION MCSpec
CONSTANTS
    Procs = {p1, p2, p3}
    Started = {p1, p2}
    Names = {a, b}
    Inodes = {1, 2}
    MaxSize = 2
    Fds = {0, 3, 4}
    Budgets <- MCCalls
    HashKeys = {0, 1, 2, 4}
    HashVals = {"u", "w"}
    BucketCount = 2
    MaxNodes = 4
INVARIANTS
    CountsAreRight
    OpenFilesAreSound
    MapKeepsItsElements

    
SYMMETRY MCSymmetry
CHECK_DEADLOCK FALSE
