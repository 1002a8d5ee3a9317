-------------------------------- MODULE Topics --------------------------------
(***************************************************************************)
(* engine/pybind/term_doc_mat_bind.cpp: the functions Python calls.  Each  *)
(* reads articles.xml, leaves out articles whose title it met before,      *)
(* fills a vocabulary of its own and runs LSA on it.                       *)
(*                                                                         *)
(* An article is its title and its tokens, or Malformed when read_xml      *)
(* throws on it.  One call is a behaviour: its objects are its own, though *)
(* the memory of the counters may hold what an earlier call left there.    *)
(***************************************************************************)
EXTENDS LSA

CONSTANTS
    Titles,
    Files,           \* possible contents of articles.xml
    Malformed,
    Missing,         \* when it, or a file of words, cannot be opened
    Concepts,        \* concepts_no asked for
    Terms            \* terms_no asked for

ASSUME TopicsAssumption ==
    /\ Malformed \notin [title : Titles, tokens : Seq(Tokens)]
    /\ Files \ {Missing} \subseteq
           Seq([title : Titles, tokens : Seq(Tokens)] \cup {Malformed})
    /\ Concepts \in Nat /\ Terms \in Nat

VARIABLES
    call,            \* the function called
    file,            \* articles.xml
    pc,
    idx,             \* article at hand
    titles,          \* titles
    articles,        \* articles: indexes in file
    processed,       \* processed_articles: their stem ids
    topics,          \* what compute_topics returns
    freq0            \* history: stems_freq_ before the first increase

vars == <<vocabulary, lsa, call, file, pc, idx, titles, articles, processed, topics,
          freq0>>

Init ==
    /\ InitVocabulary
    /\ InitLSA
    /\ call \in {"compute_term_doc_mat", "compute_lsa_mat", "compute_topics"}
    /\ file \in Files
    /\ pc = "load"
    /\ idx = 1
    /\ titles = {}
    /\ articles = <<>>
    /\ processed = <<>>
    /\ topics = <<>>
    /\ freq0 = stems_freq

-----------------------------------------------------------------------------
Reading == pc = "load" /\ file # Missing /\ idx <= Len(file)

\* An exception of load_articles_xml or of read_xml: compute_term_doc_mat lets
\* it through to Python, the others print it and return what they have.
Throw ==
    /\ pc = "load"
    /\ file = Missing \/ (Reading /\ file[idx] = Malformed)
    /\ pc' = IF call = "compute_term_doc_mat" THEN "threw" ELSE "returned"
    /\ UNCHANGED <<vocabulary, lsa, call, file, idx, titles, articles, processed, topics,
                   freq0>>

\* Mutant: the titles are never looked up.
TitleNotChecked(title) == FALSE

KnownTitle(title) == title \in titles

SkipTitle ==
    /\ Reading /\ file[idx] # Malformed /\ KnownTitle(file[idx].title)
    /\ idx' = idx + 1
    /\ UNCHANGED <<vocabulary, lsa, call, file, pc, titles, articles, processed, topics,
                   freq0>>

\* The title is taken whether or not the article is valid.
LoadArticle ==
    /\ Reading /\ file[idx] # Malformed /\ ~KnownTitle(file[idx].title)
    /\ titles' = titles \cup {file[idx].title}
    /\ IF IsValid(file[idx].tokens)
       THEN /\ AddStems(ValidStems(file[idx].tokens))
            /\ articles' = Append(articles, idx)
       ELSE UNCHANGED <<stems, articles>>
    /\ idx' = idx + 1
    /\ UNCHANGED <<stems_freq, freq_stems_no, tokensOf, lsa, call, file, pc, processed,
                   topics, freq0>>

EndOfLoad ==
    /\ pc = "load" /\ file # Missing /\ idx > Len(file)
    /\ pc' = "process"
    /\ idx' = 1
    /\ UNCHANGED <<vocabulary, lsa, call, file, titles, articles, processed, topics,
                   freq0>>

\* process_tokens finds a counter for every stem id of the article.
HaveRoom(stem_ids) == \A i \in DOMAIN stem_ids : HasRoom(stem_ids[i])

ProcessArticle ==
    /\ pc = "process" /\ idx <= Len(articles)
    /\ HaveRoom(StemIdsOf(file[articles[idx]].tokens))
    /\ ProcessTokens(file[articles[idx]].tokens)
    /\ processed' = Append(processed, StemIdsOf(file[articles[idx]].tokens))
    /\ idx' = idx + 1
    /\ UNCHANGED <<lsa, call, file, pc, titles, articles, topics, freq0>>

\* Or an assertion of the vocabulary fails: nobody reads what it holds then.
ProcessArticleAborts ==
    /\ pc = "process" /\ idx <= Len(articles)
    /\ ~HaveRoom(StemIdsOf(file[articles[idx]].tokens))
    /\ pc' = "aborted"
    /\ UNCHANGED <<vocabulary, lsa, call, file, idx, titles, articles, processed, topics,
                   freq0>>

\* Only compute_term_doc_mat stops at the matrix.
BuildMatrix ==
    /\ pc = "process" /\ idx > Len(articles)
    /\ IF BuildAborts(processed)
       THEN pc' = "aborted" /\ UNCHANGED lsa
       ELSE /\ BuildTermDocMatrix(processed)
            /\ pc' = IF call = "compute_topics" THEN "svd" ELSE "returned"
    /\ UNCHANGED <<vocabulary, call, file, idx, titles, articles, processed, topics,
                   freq0>>

\* get_top_concepts asks every row for a token, in each concept.
GetTopConcepts ==
    /\ pc = "svd"
    /\ \E nc \in ConceptsNo(Len(terms_mat_to_vocab), Len(processed)) :
        LET no == IF Concepts < nc THEN Concepts ELSE nc
        IN  IF no > 0 /\ \E r \in DOMAIN terms_mat_to_vocab : ~HasTokens(terms_mat_to_vocab[r])
            THEN pc' = "aborted" /\ UNCHANGED topics
            ELSE pc' = "returned" /\ topics' \in [1 .. no -> TopTerms(Terms)]
    /\ UNCHANGED <<vocabulary, lsa, call, file, idx, titles, articles, processed, freq0>>

Next ==
    \/ Throw \/ SkipTitle \/ LoadArticle \/ EndOfLoad
    \/ ProcessArticle \/ ProcessArticleAborts \/ BuildMatrix \/ GetTopConcepts

Spec == Init /\ [][Next]_vars
-----------------------------------------------------------------------------
TypeOK ==
    /\ VocabularyTypeOK
    /\ pc \in {"load", "process", "svd", "returned", "threw", "aborted"}
    /\ titles \subseteq Titles
    /\ articles \in Seq(1 .. IF file = Missing THEN 0 ELSE Len(file))
    /\ processed \in Seq(Seq(0 .. stems_no - 1))
    /\ terms_mat_to_vocab \in Seq(0 .. stems_no)
    /\ Len(term_doc_mat) \in {0, Len(processed)}
    /\ topics \in Seq(SUBSET Tokens)
    /\ freq0 \in [StemIds -> Int]

\* The articles under distinct titles whose tokens have stem s.
StemsIn(tokens) == {StemOf(t) : t \in {u \in TokensIn(tokens) : HasStem(u)}}

TitlesWith(s) ==
    {file[articles[k]].title :
        k \in {j \in DOMAIN articles : s \in StemsIn(file[articles[j]].tokens)}}

\* The counts that make a stem a row.
RowCounts == TfThreshold + 1 .. MaxFreq - 1

(***************************************************************************)
(* Every term of a concept is a token of a stem whose counter, from what   *)
(* it began at and with one for each title the stem was met under, is      *)
(* within the limits of lsa.cpp:19.  A story published again under its     *)
(* title weighs once, though its first copy may have been invalid.         *)
(***************************************************************************)
TermsAreWithinLimits ==
    \A c \in DOMAIN topics : \A t \in topics[c] :
        freq0[StemId(Stem[t])] + Cardinality(TitlesWith(Stem[t])) \in RowCounts

(***************************************************************************)
(* A row is a position in the set of stems, as are the ids the columns     *)
(* were counted by: each cell is the number of tokens of the article whose *)
(* stem is the one the row decodes to.  One row more may follow, the last, *)
(* for the counter behind the last stem's; what it holds is no count.      *)
(***************************************************************************)
CellsCountTokens ==
    \A c \in DOMAIN term_doc_mat : \A r \in DOMAIN term_doc_mat[c] :
        LET tokens == file[articles[c]].tokens
            id == terms_mat_to_vocab[r]
        IN  \/ /\ id < stems_no
               /\ term_doc_mat[c][r] =
                    Cardinality({i \in DOMAIN tokens :
                        HasStem(tokens[i]) /\ StemOf(tokens[i]) = StemAt(id)})
            \/ /\ id = stems_no /\ freq0[stems_no] \in RowCounts
               /\ r = Len(terms_mat_to_vocab)

\* No article raised this counter, and what it began at makes it a row.
IsRowFromStart(id) ==
    /\ freq0[id] \in RowCounts
    /\ id < stems_no => TitlesWith(StemAt(id)) = {}

(***************************************************************************)
(* The assertions of increase_stem_freq, build_term_doc_matrix and         *)
(* get_top_concepts: a call ends in one only if it read no valid article,  *)
(* if the stems left no counter behind the last one's, or, when it asks    *)
(* every row for a token, if a counter that no article raised made a row:  *)
(* the one behind the last stem's, or that of a stop word that is a word.  *)
(***************************************************************************)
EndsWithArticles ==
    pc = "aborted" =>
        \/ articles = <<>>
        \/ stems_no >= MaxStemsNo
        \/ call = "compute_topics" /\ \E id \in 0 .. stems_no : IsRowFromStart(id)
=============================================================================
