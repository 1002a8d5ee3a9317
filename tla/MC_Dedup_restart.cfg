SPECIFICATION Spec
CONSTANTS
    Ids = {i1, i2}
    Clients = {c1}
    Signatures <- AAndUnset
    Garbage <- OnlyUnset
    SignatureSize = 5
    BandsNo = 2
    HashCombine <- MCHashCombine
    Int32 <- MCInt32
    MaxStarts = 2
    MaxBatches = 0
    None = None
CHECK_DEADLOCK FALSE
INVARIANTS
    IdenticalAreDuplicates
