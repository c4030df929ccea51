SPECIFICATION Spec
CONSTANTS
    Calls <- TwoCalls
    Shapes <- TwoShapes
    Faults <- OnlyCancel
    StartTimeoutIters = 2
    MaxCalls = 4
INVARIANT CsIdleHigh
CHECK_DEADLOCK FALSE
