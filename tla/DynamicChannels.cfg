SPECIFICATION Spec
CONSTANTS
    k1 = k1
    k2 = k2
    k3 = k3
    k4 = k4
    k5 = k5
    Channels <- FiveChannels
    NULL = NULL
    Initial = 2
    MaxSize = 8
    DirtySize = 4
    Allocators <- ThreeAllocators
SYMMETRY Symmetry
INVARIANT IndicesInArray
INVARIANT LiveListed
INVARIANT NoStaleEntry
PROPERTY PoolSpec
CHECK_DEADLOCK FALSE
