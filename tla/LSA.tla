--------------------------------- MODULE LSA ---------------------------------
(***************************************************************************)
(* engine/src/clustering/lsa.cpp and lsa.h: which stems become rows of the *)
(* term-document matrix, what its cells count, and how rows are turned     *)
(* back into words.                                                        *)
(*                                                                         *)
(* Weights and singular vectors are real numbers that dlib computes: here  *)
(* a cell is the count its weight is proportional to, a concept ranks the  *)
(* rows in any way, and a document may have any rows as keywords.          *)
(***************************************************************************)
EXTENDS ArticleParser

CONSTANTS
    TfThreshold,     \* tf_threshold
    MaxFreq,         \* the 50 of build_term_doc_matrix
    Beyond           \* what the memory past the end of terms_freq may hold

ASSUME LSAAssumption ==
    /\ TfThreshold \in Nat
    /\ MaxFreq \in Nat
    /\ Beyond \subseteq Nat /\ Beyond # {}

VARIABLES
    terms_mat_to_vocab,   \* terms_mat_to_vocab_: the stem id of each row
    term_doc_mat          \* term_doc_mat_: one column per article

lsa == <<terms_mat_to_vocab, term_doc_mat>>

InitLSA ==
    /\ terms_mat_to_vocab = <<>>
    /\ term_doc_mat = <<>>

stems_no == Cardinality(stems)

-----------------------------------------------------------------------------
\* Mutant: the lower limit on the number of articles is dropped.
TermIdsAnyFreq == {id \in 0 .. stems_no : stems_freq[id] < MaxFreq}

\* The loop runs to stems_no, one counter past that of the last stem.
TermIds ==
    {id \in 0 .. stems_no : stems_freq[id] > TfThreshold /\ stems_freq[id] < MaxFreq}

Occurrences(id, stem_ids) == Cardinality({i \in DOMAIN stem_ids : stem_ids[i] = id})

\* Mutant: terms_freq is read at the row, not at its stem id.
ColumnByRow(rows, stem_ids, past) ==
    [r \in DOMAIN rows |-> Occurrences(r - 1, stem_ids)]

\* terms_freq has stems_no elements; a row past them reads what lies beyond.
Column(rows, stem_ids, past) ==
    [r \in DOMAIN rows |->
        IF rows[r] < stems_no THEN Occurrences(rows[r], stem_ids) ELSE past]

\* The assertions on articles.size() and, at id stems_no, in get_stem_freq.
BuildAborts(articles) == articles = <<>> \/ stems_no >= MaxStemsNo

\* build_term_doc_matrix, for the stem ids of each article; the rows of an
\* earlier call would stay.
BuildTermDocMatrix(articles) ==
    LET rows == terms_mat_to_vocab \o InOrder(TermIds)
    IN  \E past \in Beyond :
            /\ terms_mat_to_vocab' = rows
            /\ term_doc_mat' = [c \in DOMAIN articles |-> Column(rows, articles[c], past)]

\* The number of columns of U_ and V_: dlib gives one per article, or as many
\* as the smaller dimension.
ConceptsNo(rows, cols) == {cols, IF rows < cols THEN rows ELSE cols}

-----------------------------------------------------------------------------
\* The assertion of get_top_concepts, on a row's tokens.
HasTokens(id) == id \in StemIds /\ tokensOf[id] # {}

\* The first token of a stem: which one it is makes no difference here.
Term(id) == CHOOSE t \in tokensOf[id] : TRUE

\* The terms one concept can have: the top rows of some order.
TopTerms(terms) ==
    LET rows == DOMAIN terms_mat_to_vocab
        no == IF terms < Cardinality(rows) THEN terms ELSE Cardinality(rows)
    IN  {{Term(terms_mat_to_vocab[r]) : r \in top} :
            top \in {t \in SUBSET rows : Cardinality(t) = no}}

\* The keywords one document can have: rows, counted from zero.
Keywords == SUBSET {r - 1 : r \in DOMAIN terms_mat_to_vocab}

\* get_word takes a stem id; it asserts that there is such a stem.
HasWord(id) == id < stems_no
=============================================================================
