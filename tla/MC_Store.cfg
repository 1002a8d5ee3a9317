SPECIFICATION Spec
CONSTANTS
    Stems = {10, 20}
    Titles = {"t"}
    Articles <- MCArticles
    Urls = {u1}
    Half = 4
    MaxIds = 3
    Undefined = Undefined
CHECK_DEADLOCK FALSE
INVARIANTS
    TypeOK
    SignaturesReadBack
    LoadsLastSaved
    ArticlesReadBack
