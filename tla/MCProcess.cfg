SPECIFICATION MCSpec
CONSTANTS
    MaxPid = 4
    Budgets <- MCBudgets
    Sigs = {"a", "b"}
    Alrm = "a"
    MaxAlarm = 1
    Actions <- MCActions
    InfoWords = 17
    Signals <- MCSignals
INVARIANTS
    FamiliesAreSound
    EndsExplained
    NobodyIsForgotten
    ProgramGoesOn
PROPERTIES
    SignalsArrive
    BatchReleasesParent
CHECK_DEADLOCK FALSE
