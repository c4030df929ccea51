SPECIFICATION Spec
CONSTANTS
    Calls <- ManyCalls
    Shapes <- ManyShapes
    Faults <- NoFaults
    StartTimeoutIters = 2
    MaxCalls = 6
INVARIANTS WindowsInPhase CsIdleHigh
CHECK_DEADLOCK FALSE
