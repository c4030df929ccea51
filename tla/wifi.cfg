SPECIFICATION FairSpec
CONSTANTS
    a = a
    b = b
    NoNetwork = NoNetwork
    Networks = {a, b}
    Attempts = 5
    Flushes = 3
    Failures = 4
    Restarts = 1
INVARIANTS TypeOK OkMeansJoined Unstuck NoLateJoin
PROPERTY CallsReturn
CHECK_DEADLOCK FALSE
