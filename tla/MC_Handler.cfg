SPECIFICATION Spec
CONSTANTS
    Tokens <- MCTokens
    Stems <- MCStems
    MaxStemsNo = 2
    InitialFreqs = {2, 3, 4}
    Lower <- MCLower
    Stem <- MCStem
    Words = {"mouse", "table", "water", "zebra"}
    StopWords = {}
    Short = {"a", "b"}
    MinTokens = 4
    InvalidNum = 1
    InvalidDen = 2
    Threads = {t1, t2, t3}
    Scraped <- MCScraped
    Malformed = Malformed
    Loaded = {10, 20, 40}
    None = None
SYMMETRY Symmetry
CHECK_DEADLOCK FALSE
INVARIANTS
    TypeOK
    StemsNeverMove
    AnswerIsOwn
    CountsOriginals
    TellsWhetherFrequent
