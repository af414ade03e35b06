SPECIFICATION Spec
CONSTANTS
    Scenarios <- AllScenarios
    NULL = NULL
INVARIANT PayloadInInput
INVARIANT FramesHandledOnce
PROPERTY LoopProgress
CHECK_DEADLOCK FALSE
