SPECIFICATION MCSpec
CONSTANTS
    Users = {"a", "b", "c"}
    Nobody = Nobody
    BufSize = 2
    PipeScripts <- MCPipes
    Ttys = {1, 2, 3}
    KernelTty = 1
    Rows = 2
    Readers = {"r", "s"}
    Writers = {"w"}
    Free = Free
    TtyScripts <- MCTtys
    AtaTasks = {"a", "b"}
    NoTask = Nobody
    AtaScripts <- MCAccesses
INVARIANTS
    PipeIsSound
    SwitchesAreSound
    KeysArrive
    AccessIsHonest
PROPERTIES
    OnlySignalsEndWaits
    PipeIsAStream
    CallsSettle
    TtySettles
    AccessesEnd
CHECK_DEADLOCK FALSE
