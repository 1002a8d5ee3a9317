SPECIFICATION FairSpec
CONSTANTS
    Writers = {t1, t2}
    Readers = {t1, t2}
    StemIds = {i1}
    Tokens = {table, tables}
    Sets = {s1, s2, s3}
    Null = Null
INVARIANTS
    TypeOK
    NoLostToken
    GetSeesCompletedAdds
PROPERTIES
    ImmutableSnapshots
    ImplementsTokensMap
    CallsReturn
