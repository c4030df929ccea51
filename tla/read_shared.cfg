SPECIFICATION FairSpec
CONSTANTS
    t1 = t1
    t2 = t2
    NoTask = NoTask
    Tasks = {t1, t2}
    N = 3
    Out = 2
    Failures = 1
    StateSeesData = TRUE
INVARIANTS TypeOK EofMeansEnd
PROPERTIES ReadReturns ImplementsStream
CHECK_DEADLOCK FALSE
