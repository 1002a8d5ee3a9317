SPECIFICATION FairSpec
CONSTANTS
    Urls = {u1, u2, u3}
    Pipelines = {p1, p2}
    ThreadsNo = 1
    HighWater = 1
    MaxStarts = 2
    None = None
CHECK_DEADLOCK FALSE
INVARIANTS
    TypeOK
    TakenAtMostOnce
PROPERTIES
    SentIsTaken
