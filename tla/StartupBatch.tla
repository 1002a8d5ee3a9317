----------------------------- MODULE StartupBatch -----------------------------
(***************************************************************************)
(* engine/src/clustering/startup.cpp: the batch that reads articles.xml.   *)
(* A first loop parses and validates every article and adds the stems of   *)
(* the valid ones to the vocabulary; a second loop turns each valid        *)
(* article into stem ids, saves it and asks the dedup server about it; the *)
(* articles that are no duplicates are clustered.                          *)
(*                                                                         *)
(* An article is its sequence of tokens, or Malformed when read_xml throws *)
(* on it.  The answer of the dedup server is any answer (DedupService says *)
(* which); its signature is a function of the shingles.                    *)
(***************************************************************************)
EXTENDS ArticleParser

CONSTANTS
    Files,           \* possible contents of articles.xml
    Malformed,
    Shingle          \* Shingle[<<u, v, w>>]: get_shingle, a hash of three tokens

Triples == {<<u, v, w>> : u, v, w \in Tokens}

ASSUME BatchAssumption ==
    /\ Files \subseteq Seq(Seq(Tokens) \cup {Malformed})
    /\ Malformed \notin Seq(Tokens)
    /\ Shingle \in [Triples -> Int]

VARIABLES
    file,            \* articles_xml
    pc,              \* where the batch is
    idx,             \* index of the article at hand in file, then in articles
    articles,        \* the valid articles
    tidx,            \* index of the next token in process_tokens
    met,             \* stem_ids of process_tokens: ids already counted
    stem_ids,        \* proc_article.stem_ids
    lastToken,       \* proc_article.ids_tokens_map, 0 where it has no entry
    shingles,        \* hashes of token triples
    invalid_urls,    \* collection "invalid_urls": indexes in file
    saved,           \* collection "articles": indexes in articles
    processed,       \* processed_articles
    freq0            \* history: stems_freq_ before the first increase

parsing == <<tidx, met, stem_ids, lastToken, shingles>>
store   == <<invalid_urls, saved>>
vars    == <<vocabulary, file, pc, idx, articles, parsing, store, processed, freq0>>

-----------------------------------------------------------------------------
NoLastToken == [id \in StemIds |-> 0]

Init ==
    /\ InitVocabulary
    /\ file \in Files
    /\ pc = "load"
    /\ idx = 1
    /\ articles = <<>>
    /\ tidx = 1
    /\ met = {}
    /\ stem_ids = <<>>
    /\ lastToken = NoLastToken
    /\ shingles = {}
    /\ invalid_urls = {}
    /\ saved = {}
    /\ processed = <<>>
    /\ freq0 = stems_freq

\* One iteration of the first loop, for an article read_xml accepts.
LoadValid ==
    /\ pc = "load" /\ idx <= Len(file)
    /\ file[idx] # Malformed /\ IsValid(file[idx])
    /\ AddStems(ValidStems(file[idx]))
    /\ articles' = Append(articles, file[idx])
    /\ idx' = idx + 1
    /\ UNCHANGED <<stems_freq, freq_stems_no, tokensOf, file, pc, parsing, store,
                   processed, freq0>>

\* Mutant: the url saved is that of the article after the invalid one.
LoadInvalidSavesNext ==
    /\ pc = "load" /\ idx <= Len(file)
    /\ file[idx] # Malformed /\ ~IsValid(file[idx])
    /\ idx' = idx + 1
    /\ invalid_urls' = invalid_urls \cup {idx'}
    /\ UNCHANGED <<vocabulary, file, pc, articles, parsing, saved, processed, freq0>>

LoadInvalid ==
    /\ pc = "load" /\ idx <= Len(file)
    /\ file[idx] # Malformed /\ ~IsValid(file[idx])
    /\ invalid_urls' = invalid_urls \cup {idx}
    /\ idx' = idx + 1
    /\ UNCHANGED <<vocabulary, file, pc, articles, parsing, saved, processed, freq0>>

\* The exception of read_xml reaches main, which gives up the whole batch.
LoadMalformed ==
    /\ pc = "load" /\ idx <= Len(file) /\ file[idx] = Malformed
    /\ pc' = "failed"
    /\ UNCHANGED <<vocabulary, file, idx, articles, parsing, store, processed, freq0>>

EndOfLoad ==
    /\ pc = "load" /\ idx > Len(file)
    /\ pc' = IF articles = <<>> THEN "cluster" ELSE "tokens"
    /\ idx' = 1
    /\ UNCHANGED <<vocabulary, file, articles, parsing, store, processed, freq0>>

ShingleAt(article, i) == Shingle[<<article[i], article[i + 1], article[i + 2]>>]

\* A stop word or a one-letter token starts a shingle, when two tokens follow.
SkipToken ==
    /\ pc = "tokens" /\ tidx <= Len(articles[idx])
    /\ ~HasStem(articles[idx][tidx])
    /\ shingles' = IF tidx + 2 <= Len(articles[idx])
                   THEN shingles \cup {ShingleAt(articles[idx], tidx)}
                   ELSE shingles
    /\ tidx' = tidx + 1
    /\ UNCHANGED <<vocabulary, file, pc, idx, articles, met, stem_ids, lastToken,
                   store, processed, freq0>>

SkipUnknownStem ==
    /\ pc = "tokens" /\ tidx <= Len(articles[idx])
    /\ HasStem(articles[idx][tidx])
    /\ StemOf(articles[idx][tidx]) \notin stems
    /\ tidx' = tidx + 1
    /\ UNCHANGED <<vocabulary, file, pc, idx, articles, met, stem_ids, lastToken,
                   shingles, store, processed, freq0>>

\* Mutant: every occurrence is counted, not the first of each article.
CountOccurrence(id) ==
    /\ IncreaseStemFreq(id)
    /\ met' = met \cup {id}

CountArticle(id) ==
    IF id \in met THEN UNCHANGED <<stems_freq, freq_stems_no, met>>
    ELSE /\ IncreaseStemFreq(id)
         /\ met' = met \cup {id}

\* Mutant: the token is recorded as written.
RecordTokenAsWritten(id, token) ==
    /\ TokensMap!AddToken(id, token)
    /\ stem_ids' = Append(stem_ids, id)
    /\ lastToken' = [lastToken EXCEPT ![id] = tidx]

RecordToken(id, token) ==
    /\ TokensMap!AddToken(id, Lower[token])
    /\ stem_ids' = Append(stem_ids, id)
    /\ lastToken' = [lastToken EXCEPT ![id] = tidx]

ProcessToken ==
    /\ pc = "tokens" /\ tidx <= Len(articles[idx])
    /\ LET token == articles[idx][tidx]
       IN  /\ HasStem(token)
           /\ StemOf(token) \in stems
           /\ HasRoom(StemId(StemOf(token)))
           /\ CountArticle(StemId(StemOf(token)))
           /\ RecordToken(StemId(StemOf(token)), token)
    /\ tidx' = tidx + 1
    /\ UNCHANGED <<stems, file, pc, idx, articles, shingles, store, processed, freq0>>

\* increase_stem_freq asserts that the array has a counter for the stem id.
ProcessTokenAborts ==
    /\ pc = "tokens" /\ tidx <= Len(articles[idx])
    /\ IsKnown(articles[idx][tidx])
    /\ ~HasRoom(StemId(StemOf(articles[idx][tidx])))
    /\ pc' = "aborted"
    /\ UNCHANGED <<vocabulary, file, idx, articles, parsing, store, processed, freq0>>

\* save_article comes before compute_signature.
SaveArticle ==
    /\ pc = "tokens" /\ tidx > Len(articles[idx])
    /\ saved' = saved \cup {idx}
    /\ pc' = "dedup"
    /\ UNCHANGED <<vocabulary, file, idx, articles, parsing, invalid_urls,
                   processed, freq0>>

\* Mutant: proc_article is declared before the loop.
NextArticleInSameRecord ==
    /\ idx' = idx + 1
    /\ pc' = IF idx < Len(articles) THEN "tokens" ELSE "cluster"
    /\ tidx' = 1
    /\ met' = {}
    /\ shingles' = {}
    /\ UNCHANGED <<vocabulary, file, articles, stem_ids, lastToken, store, freq0>>

\* The next iteration of the second loop has a new ProcessedArticle.
NextArticle ==
    /\ idx' = idx + 1
    /\ pc' = IF idx < Len(articles) THEN "tokens" ELSE "cluster"
    /\ tidx' = 1
    /\ met' = {}
    /\ stem_ids' = <<>>
    /\ lastToken' = NoLastToken
    /\ shingles' = {}
    /\ UNCHANGED <<vocabulary, file, articles, store, freq0>>

IsOriginal ==
    /\ pc = "dedup"
    /\ processed' = Append(processed, [article |-> idx, stem_ids |-> stem_ids,
                                       lastToken |-> lastToken])
    /\ NextArticle

IsDuplicate ==
    /\ pc = "dedup"
    /\ UNCHANGED processed
    /\ NextArticle

\* create_clusters reads the vocabulary and the articles.  Its assertions want
\* an article and as many concepts as Clustering says.
CreateClusters ==
    /\ pc = "cluster"
    /\ pc' \in {"done", "aborted"}
    /\ processed = <<>> => pc' = "aborted"
    /\ UNCHANGED <<vocabulary, file, idx, articles, parsing, store, processed, freq0>>

Next ==
    \/ LoadValid \/ LoadInvalid \/ LoadMalformed \/ EndOfLoad
    \/ SkipToken \/ SkipUnknownStem \/ ProcessToken \/ ProcessTokenAborts
    \/ SaveArticle \/ IsOriginal \/ IsDuplicate \/ CreateClusters

Spec == Init /\ [][Next]_vars
-----------------------------------------------------------------------------
TypeOK ==
    /\ VocabularyTypeOK
    /\ file \in Files
    /\ pc \in {"load", "tokens", "dedup", "cluster", "done", "failed", "aborted"}
    /\ idx \in Nat \ {0}
    /\ articles \in Seq(Seq(Tokens))
    /\ tidx \in Nat \ {0}
    /\ met \subseteq StemIds
    /\ stem_ids \in Seq(StemIds)
    /\ lastToken \in [StemIds -> Nat]
    /\ shingles \subseteq Int
    /\ invalid_urls \subseteq DOMAIN file
    /\ saved \subseteq DOMAIN articles
    /\ processed \in Seq([article : DOMAIN articles, stem_ids : Seq(StemIds),
                          lastToken : [StemIds -> Nat]])
    /\ freq0 \in [StemIds -> Int]

\* The second loop is past token i of article k.
Reached(k, i) ==
    /\ pc \notin {"load", "failed"}
    /\ k < idx \/ (k = idx /\ i < tidx)

\* Token i of article k is a reached occurrence of stem s.
Occurs(s, k, i) ==
    /\ Reached(k, i)
    /\ HasStem(articles[k][i])
    /\ StemOf(articles[k][i]) = s

\* The articles in which stem s showed up so far.
SeenIn(s) ==
    {k \in DOMAIN articles : \E i \in DOMAIN articles[k] : Occurs(s, k, i)}

\* The stems the arrays have room for.
StemsWithRoom == {s \in stems : HasRoom(StemId(s))}

(***************************************************************************)
(* vocabulary.h:21, "keeps track of how many articles a stems shows up     *)
(* in": at every token, what was added to the counter of a stem is the     *)
(* number of articles it was met in, however often each repeats it.        *)
(***************************************************************************)
FreqGrowsByArticles ==
    \A s \in StemsWithRoom :
        stems_freq[StemId(s)] = freq0[StemId(s)] + Cardinality(SeenIn(s))

(***************************************************************************)
(* The tokens get_tokens answers for a stem are the lower-case tokens of   *)
(* that stem met so far: ids computed at different tokens name one stem.   *)
(***************************************************************************)
TokensAreByStem ==
    \A s \in StemsWithRoom :
        tokensOf[StemId(s)] =
            {Lower[articles[p[1]][p[2]]] : p \in {q \in
                UNION {{k} \X DOMAIN articles[k] : k \in DOMAIN articles} :
                    Occurs(s, q[1], q[2])}}

(***************************************************************************)
(* The stem ids an article stores are positions in an ordered set that     *)
(* grows while articles are read.  At clustering, and at every moment      *)
(* before, each decodes to the stem of the token it was computed from.     *)
(***************************************************************************)
KnownStems(article) ==
    [i \in DOMAIN KnownTokens(article) |-> StemOf(KnownTokens(article)[i])]

StoredIdsDecode ==
    \A a \in {processed[k] : k \in DOMAIN processed} :
        /\ [i \in DOMAIN a.stem_ids |-> StemAt(a.stem_ids[i])]
               = KnownStems(articles[a.article])
        /\ \A id \in StemIds : a.lastToken[id] # 0 =>
               StemOf(articles[a.article][a.lastToken[id]]) = StemAt(id)
=============================================================================
