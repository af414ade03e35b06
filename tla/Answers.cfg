SPECIFICATION Spec
CONSTANTS
    w1 = w1
    w2 = w2
    a1 = a1
    a2 = a2
    a3 = a3
    Workers <- TwoWorkers
    Slots <- ThreeSlots
    NULL = NULL
    MaxSends = 3
    MaxRequests = 2
    Worlds <- AllWorlds
SYMMETRY Symmetry
INVARIANT TypeOK
 
INVARIANT SlotKept
INVARIANT NoAnswerAsData
CHECK_DEADLOCK FALSE
