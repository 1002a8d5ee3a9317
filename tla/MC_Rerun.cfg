SPECIFICATION StartupSpec
CONSTANTS
    Tokens <- MCTokens
    Stems <- MCStems
    MaxStemsNo = 2
    InitialFreqs = {0}
    Lower <- MCLower
    Stem <- MCStem
    Words = {"mouse", "table"}
    StopWords = {"the"}
    Short = {}
    MinTokens = 3
    InvalidNum = 2
    InvalidDen = 3
    Files <- MCFiles
    Malformed = Malformed
    Shingle <- MCShingle
    MaxRuns = 2
    MaxArticles = 2
    Garbage = Garbage
    Shingles <- MCShingles
    Hashes <- MCHashes
    RangeMax = 5
    None = None
    Similar <- MCSimilar
CHECK_DEADLOCK FALSE
INVARIANTS
    StartupTypeOK
    SavedVocabularyIsEmpty
    NothingIsNewOnlyWhenKnown
    FailedStoresNothing
    AgreementIsCommonLeast
    AgreementIsJaccard
