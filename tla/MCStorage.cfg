SPECIFICATION MCSpec
CONSTANTS
    NDir = 1
    Ind = 2
    Tasks = {t1, t2}
    None = None
    NGroups = 2
    BPG = 3
    IPG = 2
    DirCap = 4
    SbEntry = 3
    Scripts <- MCScripts
    Users = {u1, u2}
    S = 2
    Sectors = 6
    MaxAccess = 2
    Ranges <- MCRanges
    Faults = 1
INVARIANTS
    
    AccessesAreExact
    BlocksAreKept
    DirectoriesAreSound
