SPECIFICATION Spec
CONSTANTS
    c1 = c1
    c2 = c2
    t1 = t1
    t2 = t2
    t3 = t3
    Boss = boss
    NULL = NULL
    EMPTY = EMPTY
    Conns <- OneConn
    NumWorkers = 2
    Scripted <- TwoScripts
    Tasks <- ThreeTasks
    Hooks <- AllHooks
    MaxData = 1
    MaxTicks = 1
    PoolClears = TRUE
    CountedPokes = TRUE
    OutOfMemory = FALSE
    SelectMayFail = FALSE
INVARIANT GcOnNamedScript
