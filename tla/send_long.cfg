SPECIFICATION FairSpec
CONSTANTS
    N = 7
    Chunk = 2
    Retries = 3
    SentPolls = 3
    TotalMax = 5
    PartialAccept = FALSE
INVARIANT OkMeansAll
CHECK_DEADLOCK FALSE
