SPECIFICATION Spec
CONSTANTS
    c1 = c1
    c2 = c2
    t1 = t1
    t2 = t2
    t3 = t3
    Boss = boss
    NULL = NULL
    EMPTY = EMPTY
    Conns <- TwoConns
    NumWorkers = 2
    Scripted <- TwoScripts
    Tasks <- ThreeTasks
    Hooks <- AllHooks
    MaxData = 1
    MaxTicks = 0
    PoolClears = FALSE
    CountedPokes = TRUE
    OutOfMemory = TRUE
    SelectMayFail = TRUE
SYMMETRY Symmetry
INVARIANT QueueShape
INVARIANT OneHolder
 
INVARIANT PokesCoverQueue
PROPERTY NoWriteToTaken
PROPERTY FifoSpec
CHECK_DEADLOCK FALSE
