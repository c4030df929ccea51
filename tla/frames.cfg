SPECIFICATION Spec
CONSTANTS
    Base = 5
    START = 4
    ERR = 3
    END = 2
    REPLY = 1
    Payload = {1, 2}
    Sizes = {0, 1, 5, 9}
    Polls = 3
    AddrLen = 2
    PortLen = 1
INVARIANTS TypeOK OkIsFrame ReadsBounded IterComplete AddressesRead AckIsHeard
CHECK_DEADLOCK FALSE
