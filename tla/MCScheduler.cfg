SPECIFICATION FairSpec
CONSTANTS
    idle = idle
    main = main
    clean = clean
    init = init
    user1 = user1
    user2 = user2
    Tasks <- MCTasks
    NoTask = NoTask
    Idle = idle
    Main = main
    TasksClean = clean
    InitTask = init
    MaxPriorityLevel = 1
    Priority <- MCPriority
    Sleepers = {user1, user2}
    MaxQuantum = 1
    MaxSleep = 2
INVARIANTS
    RingsOK
    NextTaskRunnable
    CleanerOwnsTheDead
    NoReadyTaskForgotten
PROPERTIES
    TopLevelTaskRuns
    LaterKillCleans
