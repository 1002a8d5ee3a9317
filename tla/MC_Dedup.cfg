SPECIFICATION FairSpec
CONSTANTS
    Ids = {i1, i2}
    Clients = {c1, c2}
    Signatures <- ThreeSignatures
    Garbage <- AAndD
    SignatureSize = 5
    BandsNo = 2
    HashCombine <- MCHashCombine
    Int32 <- MCInt32
    MaxStarts = 2
    MaxBatches = 1
    None = None
CHECK_DEADLOCK FALSE
INVARIANTS
    TypeOK
    AcceptedAreDissimilar
    VerdictIsAnswer
    WaitingIsServedOrLost
PROPERTIES
    ImplementsDedupOracle
    IsDuplicateReturns
