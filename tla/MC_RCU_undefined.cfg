SPECIFICATION Spec
CONSTANTS
    Writers = {w1}
    Readers = {r1}
    StemIds = {i1}
    Tokens = {table, tables}
    Sets = {s1, s2, s3}
    Null = Null
INVARIANTS
    NoUndefinedBehaviour
