SPECIFICATION FairSpec
CONSTANTS
    N = 6
    Chunk = 2
    Retries = 2
    SentPolls = 2
    TotalMax = 3
    PartialAccept = TRUE
INVARIANTS NeverOverReports
PROPERTIES WriteAllEnds LoopsAdvance
CHECK_DEADLOCK FALSE
