SPECIFICATION Spec
CONSTANTS
    a = a
    b = b
    c = c
    shared = shared
    own = own
    NoSender = NoSender
    Senders <- MCSenders
    Steppers = {c}
    Sockets = {shared, own}
    SocketOf <- MCSocketOf
    Calls = 2
    Pieces = 2
    Mishaps = 2
SYMMETRY Symmetry
INVARIANTS TypeOK DatagramWhole SentAsReported
CHECK_DEADLOCK FALSE
