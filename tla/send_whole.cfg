SPECIFICATION FairSpec
CONSTANTS
    N = 200
    Chunk = 64
    Retries = 5
    SentPolls = 20
    TotalMax = 65535
    PartialAccept = FALSE
INVARIANTS TypeOK StreamIntact OkMeansAll
PROPERTY WriteAllEnds
CHECK_DEADLOCK FALSE
