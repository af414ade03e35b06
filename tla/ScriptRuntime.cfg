SPECIFICATION RuntimeSpec
CONSTANTS
    h1 = h1
    h2 = h2
    a = a
    blank = blank
    one = one
    NULL = NULL
    HASH = HASH
    ARRAY = ARRAY
    Workers <- TwoWorkers
    Keys <- TwoKeys
    Blank <- blank
    Scalars <- OneScalar
    Values <- SomeValues
    Depth = 3
    Calls <- SomeCalls
    MaxCalls = 3
    Worlds <- AllWorlds
    NumWorkers = 2
    Hooks <- TwoHooks
    Files <- SomeFiles
    Room = 2
    Settings <- AllSettings
    MaxHooks = 3
    MaxSignals = 2
    MaxEdits = 1
INVARIANT RuntimeTypeOK
INVARIANT LockInside
INVARIANT Rooted
 
INVARIANT ReloadReachesAll
PROPERTY StoreSpec
PROPERTY HooksReturn
CHECK_DEADLOCK FALSE
