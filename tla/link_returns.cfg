SPECIFICATION FairSpec
CONSTANTS
    Calls <- TwoCalls
    Shapes <- TwoShapes
    Faults <- BusFaults
    StartTimeoutIters = 2
    MaxCalls = 5
INVARIANTS CsIdleHigh AckComesBack
PROPERTY OperationsReturn
CHECK_DEADLOCK FALSE
