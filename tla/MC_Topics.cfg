SPECIFICATION Spec
CONSTANTS
    Tokens <- MCTokens
    Stems <- MCStems
    MaxStemsNo = 4
    InitialFreqs = {0, 2}
    Lower <- MCLower
    Stem <- MCStem
    Words <- MCWords
    StopWords = {"the", "was"}
    Short = {}
    MinTokens = 3
    InvalidNum = 1
    InvalidDen = 2
    TfThreshold = 1
    MaxFreq = 4
    Beyond = {0, 1}
    Titles = {"t1", "t2", "t3", "t4"}
    Files <- MCFiles
    Malformed = Malformed
    Missing = Missing
    Concepts = 2
    Terms = 1
CHECK_DEADLOCK FALSE
INVARIANTS
    EndsWithArticles
    TypeOK
    TermsAreWithinLimits
    CellsCountTokens
