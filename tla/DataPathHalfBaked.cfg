SPECIFICATION Spec
CONSTANTS
    Scenarios <- CutPackets
    NULL = NULL
INVARIANT HalfBakedKept
CHECK_DEADLOCK FALSE
