SPECIFICATION ClusteringSpec
CONSTANTS
    Tokens <- MCTokens
    Stems <- MCStems
    MaxStemsNo = 3
    InitialFreqs <- MCInitialFreqs
    Lower <- MCLower
    Stem <- MCStem
    Words <- MCWords
    StopWords = {"the"}
    Short = {"a"}
    MinTokens = 4
    InvalidNum = 1
    InvalidDen = 2
    TfThreshold = 1
    MaxFreq = 4
    Beyond = {0}
    Files <- MCFiles
    Malformed = Malformed
    Shingle <- MCShingle
    MinConcepts = 2
CHECK_DEADLOCK FALSE
INVARIANTS
    ClusteringTypeOK
    FreqGrowsByArticles
    TokensAreByStem
    StoredIdsDecode
    AbortsOnlyWhenFew
PROPERTIES
    ImplementsStartupBatch
