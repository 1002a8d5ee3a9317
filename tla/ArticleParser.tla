---------------------------- MODULE ArticleParser ----------------------------
(***************************************************************************)
(* engine/src/clustering/article_parser.cpp and article_parser.h over one  *)
(* vocabulary: which articles are valid, which stems they bring, and what  *)
(* processing their tokens does to the vocabulary.  A text is its sequence *)
(* of tokens; StartupBatch takes process_tokens one token at a time,       *)
(* ProcessTokens here is the whole call.                                   *)
(***************************************************************************)
EXTENDS Vocabulary, Sequences

CONSTANTS
    Lower,           \* Lower[t]: boost::locale::to_lower of a token
    Stem,            \* Stem[t]: trim_and_stem of a lower-case token
    Words,           \* words_
    StopWords,       \* stop_words_
    Short,           \* tokens of one character
    MinTokens,       \* min_tokens
    InvalidNum,      \* invalid_tokens_threshold = InvalidNum / InvalidDen
    InvalidDen

ASSUME ParserAssumption ==
    /\ Lower \in [Tokens -> Tokens]
    /\ Stem \in [Tokens -> Nat]
    /\ \A t \in Words \cap Tokens : Stem[Lower[t]] \in Stems
    /\ MinTokens \in Nat \ {0}
    /\ InvalidNum \in Nat /\ InvalidDen \in Nat \ {0}

-----------------------------------------------------------------------------
\* tokenize_validate: tokens as written are looked up in words_.
TokensIn(article) == {article[i] : i \in DOMAIN article}

ValidStems(article) == {Stem[Lower[t]] : t \in TokensIn(article) \cap Words}

IsUnknown(token) == token \notin Words \cup StopWords \cup Short

UnknownNo(article) == Cardinality({i \in DOMAIN article : IsUnknown(article[i])})

IsValid(article) ==
    /\ Len(article) >= MinTokens
    /\ (UnknownNo(article) + 1) * InvalidDen <= InvalidNum * Len(article)

\* process_tokens: lower-case tokens that are no stop words are stemmed.
HasStem(token) == Lower[token] \notin StopWords \cup Short

StemOf(token) == Stem[Lower[token]]

-----------------------------------------------------------------------------
IsKnown(token) == HasStem(token) /\ StemOf(token) \in stems

\* The tokens whose stem the vocabulary has, in the order of the article.
KnownTokens(article) ==
    LET at == InOrder({i \in DOMAIN article : IsKnown(article[i])})
    IN  [n \in DOMAIN at |-> article[at[n]]]

\* Mutant: positions are counted from one.
StemIdsFromOne(article) ==
    [i \in DOMAIN KnownTokens(article) |-> StemId(StemOf(KnownTokens(article)[i])) + 1]

\* proc_article.stem_ids.
StemIdsOf(article) ==
    [i \in DOMAIN KnownTokens(article) |-> StemId(StemOf(KnownTokens(article)[i]))]

\* process_tokens: each stem of the article is counted once, each of its
\* tokens is recorded; every increase beyond three steps freq_stems_no_.
ProcessTokens(article) ==
    LET ids == {StemIdsOf(article)[i] : i \in DOMAIN StemIdsOf(article)}
    IN  /\ stems_freq' = [id \in StemIds |->
                              stems_freq[id] + IF id \in ids THEN 1 ELSE 0]
        /\ freq_stems_no' =
               freq_stems_no + Cardinality({id \in ids : stems_freq[id] + 1 > 3})
        /\ tokensOf' = [id \in StemIds |-> tokensOf[id] \cup
               {Lower[t] : t \in {u \in TokensIn(KnownTokens(article)) :
                                     StemId(StemOf(u)) = id}}]
        /\ UNCHANGED stems
=============================================================================
