SPECIFICATION SpecInt
CONSTANTS
    idle = idle
    main = main
    clean = clean
    init = init
    irq = irq
    user = user
    Tasks <- MCTasks
    NoTask = NoTask
    Idle = idle
    Main = main
    TasksClean = clean
    InitTask = init
    IrqTask = irq
    MaxPriorityLevel = 1
    Priority <- MCPriority
    Sleepers = {user}
    Mortal = {user}
    MaxQuantum = 1
    MaxSleep = 1
    MaxNest = 1
INVARIANT
    NoLostWakeup
