SPECIFICATION Spec
CONSTANTS
    Calls <- TwoCalls
    Shapes <- TwoShapes
    Faults <- HostFaults
    StartTimeoutIters = 2
    MaxCalls = 5
INVARIANTS TypeOK ReplyMatchesRequest
PROPERTY ImplementsRpc
CHECK_DEADLOCK FALSE
