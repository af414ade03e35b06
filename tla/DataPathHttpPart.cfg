SPECIFICATION Spec
CONSTANTS
    Scenarios <- CutUploads
    NULL = NULL
PROPERTY LoopProgress
CHECK_DEADLOCK FALSE
