SPECIFICATION ServedSpec
CONSTANTS
    c1 = c1
    c2 = c2
    t1 = t1
    t2 = t2
    t3 = t3
    Boss = boss
    NULL = NULL
    EMPTY = EMPTY
    Conns <- TwoConns
    NumWorkers = 2
    Scripted <- TwoScripts
    Tasks <- TwoTasks
    Hooks <- AllHooks
    MaxData = 1
    MaxTicks = 1
    PoolClears = TRUE
    CountedPokes = TRUE
    OutOfMemory = FALSE
    SelectMayFail = FALSE
    Servings <- OneOrAll
INVARIANT UnregOnce
INVARIANT AloneNoHookAfterUnreg
PROPERTY AloneHooksInOrder
PROPERTY FifoFairness
PROPERTY EventuallyUnregistered
