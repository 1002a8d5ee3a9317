SPECIFICATION FairSpec
CONSTANTS
    Urls = {u1}
    Pipelines = {p1}
    ThreadsNo = 3
    HighWater = 1
    MaxStarts = 2
    None = None
CHECK_DEADLOCK FALSE
PROPERTIES
    TakenIsScraped
