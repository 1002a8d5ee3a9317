---------------------------- MODULE ArticleHandler ----------------------------
(***************************************************************************)
(* Pipeline::process_article of engine/src/clustering/pipeline.cpp, run by *)
(* the threads of one pipeline over the vocabulary its constructor loaded  *)
(* and one static DedupRPCStub.  (The completion handler that calls it is  *)
(* not started as the code stands: see Ingest.)                            *)
(*                                                                         *)
(* The calls of different threads interleave between the operations on     *)
(* what they share, down to the loads and stores of increase_stem_freq.    *)
(* add_token is one step: StemIdTokensRCUMap takes it apart.  Positions in *)
(* the set of stems are read where they are used: StemsNeverMove.          *)
(***************************************************************************)
EXTENDS ArticleParser

CONSTANTS
    Threads,
    Scraped,         \* the articles, a sequence: tokens or Malformed
    Malformed,
    Loaded,          \* the stems of the vocabulary document
    None

ASSUME HandlerAssumption ==
    /\ Scraped \in Seq(Seq(Tokens) \cup {Malformed})
    /\ Malformed \notin Seq(Tokens)
    /\ Loaded \subseteq Stems
    /\ None \notin DOMAIN Scraped
    /\ None \notin {"OK", "DUP"}

VARIABLES
    at,              \* where the call of a thread is
    article,         \* article[t]: the article t is at, or None
    tidx,            \* tidx[t]: the next of the article's tokens with a known stem
    loaded,          \* loaded[t]: what t read from freq_stems_no_
    stub,            \* the REQ socket: "ready", "sent" or "replied"
    request,         \* the article whose request the socket sent last
    saved,           \* collection "articles"
    invalid_urls,    \* collection "invalid_urls"
    processed_articles,
    alive,           \* FALSE once an assertion or undefined behaviour ended
                     \* the process
    begun,           \* history: the articles handed to a thread
    ended,           \* history: the articles whose call returned
    asked,           \* history: the articles the server was asked about
    answer,          \* history: what the server answered for each
    verdict,         \* history: what is_duplicate returned for each
    freq0            \* history: stems_freq_ before the first increase

socket  == <<stub, request>>
stored  == <<saved, invalid_urls>>
shared  == <<socket, stored, processed_articles, alive>>
history == <<begun, ended, asked, answer, verdict, freq0>>
parsing == <<tidx, loaded>>
vars    == <<vocabulary, at, article, parsing, shared, history>>

-----------------------------------------------------------------------------
\* Mutant: load_vocabulary restores the words, too.
PipelineWordsRestored == Words

\* A Vocabulary built without files has no words and no stop words, and
\* load_vocabulary adds stems only.
PipelineWords == {}
PipelineStopWords == {}

Parser == INSTANCE ArticleParser WITH
    Words <- PipelineWords, StopWords <- PipelineStopWords

Init ==
    /\ stems = Loaded
    /\ stems_freq \in [StemIds -> InitialFreqs]
    /\ freq_stems_no = 0
    /\ TokensMap!Init
    /\ at = [t \in Threads |-> "idle"]
    /\ article = [t \in Threads |-> None]
    /\ tidx = [t \in Threads |-> 1]
    /\ loaded = [t \in Threads |-> 0]
    /\ stub = "ready" /\ request = None
    /\ saved = {} /\ invalid_urls = {}
    /\ processed_articles = 0
    /\ alive = TRUE
    /\ begun = {} /\ ended = {} /\ asked = {}
    /\ answer = [a \in DOMAIN Scraped |-> None]
    /\ verdict = [a \in DOMAIN Scraped |-> None]
    /\ freq0 = stems_freq

Tokenized(t) == Scraped[article[t]]

Go(t, place) == at' = [at EXCEPT ![t] = place]

\* process_article returns.
End(t) ==
    /\ Go(t, "idle")
    /\ article' = [article EXCEPT ![t] = None]
    /\ ended' = ended \cup {article[t]}

Begin(t) ==
    /\ alive /\ at[t] = "idle"
    /\ \E a \in DOMAIN Scraped \ begun :
        /\ article' = [article EXCEPT ![t] = a]
        /\ begun' = begun \cup {a}
    /\ Go(t, "parse")
    /\ UNCHANGED <<vocabulary, parsing, shared, ended, asked, answer, verdict, freq0>>

\* parse_from_xml throws: the handler of the exception logs it.
Reject(t) ==
    /\ alive /\ at[t] = "parse" /\ Tokenized(t) = Malformed
    /\ End(t)
    /\ UNCHANGED <<vocabulary, parsing, shared, begun, asked, answer, verdict, freq0>>

\* save_doc may throw: the call ends in either case.
SaveInvalidUrl(t) ==
    /\ alive /\ at[t] = "parse"
    /\ Tokenized(t) # Malformed /\ ~Parser!IsValid(Tokenized(t))
    /\ invalid_urls' \in {invalid_urls, invalid_urls \cup {article[t]}}
    /\ End(t)
    /\ UNCHANGED <<vocabulary, parsing, socket, saved, processed_articles,
                   alive, begun, asked, answer, verdict, freq0>>

AddArticleStems(t) ==
    /\ alive /\ at[t] = "parse"
    /\ Tokenized(t) # Malformed /\ Parser!IsValid(Tokenized(t))
    /\ AddStems(Parser!ValidStems(Tokenized(t)))
    /\ Go(t, "process")
    /\ UNCHANGED <<stems_freq, freq_stems_no, tokensOf, article, parsing,
                   shared, history>>

-----------------------------------------------------------------------------
\* process_tokens: the stem id at hand, and whether the article met it before.
KnownIds(t) == Parser!StemIdsOf(Tokenized(t))
IdAt(t) == KnownIds(t)[tidx[t]]
IsRepeated(t) == \E j \in 1 .. tidx[t] - 1 : KnownIds(t)[j] = IdAt(t)

AtToken(t) == at[t] = "process" /\ tidx[t] <= Len(KnownIds(t))

\* increase_stem_freq: fetch_add, whose result is not used.
FetchAdd(t) ==
    /\ alive /\ AtToken(t) /\ ~IsRepeated(t) /\ HasRoom(IdAt(t))
    /\ stems_freq' = [stems_freq EXCEPT ![IdAt(t)] = @ + 1]
    /\ Go(t, "test")
    /\ UNCHANGED <<stems, freq_stems_no, tokensOf, article, parsing, shared,
                   history>>

\* Its assertion that the array has a counter for the stem id.
FetchAddAborts(t) ==
    /\ alive /\ AtToken(t) /\ ~IsRepeated(t) /\ ~HasRoom(IdAt(t))
    /\ alive' = FALSE
    /\ UNCHANGED <<vocabulary, at, article, parsing, socket, stored,
                   processed_articles, history>>

\* Mutant: the limit is off by one.
IsFrequentFromFour(id) == stems_freq[id] > 4

\* The counter as it is now, with what other threads added since.
IsFrequent(id) == stems_freq[id] > 3

Test(t) ==
    /\ alive /\ at[t] = "test"
    /\ Go(t, IF IsFrequent(IdAt(t)) THEN "load" ELSE "token")
    /\ UNCHANGED <<vocabulary, article, parsing, shared, history>>

\* The two halves of ++ on a plain int.
Load(t) ==
    /\ alive /\ at[t] = "load"
    /\ loaded' = [loaded EXCEPT ![t] = freq_stems_no]
    /\ Go(t, "store")
    /\ UNCHANGED <<vocabulary, article, tidx, shared, history>>

Store(t) ==
    /\ alive /\ at[t] = "store"
    /\ freq_stems_no' = loaded[t] + 1
    /\ loaded' = [loaded EXCEPT ![t] = 0]
    /\ Go(t, "token")
    /\ UNCHANGED <<stems, stems_freq, tokensOf, article, tidx, shared,
                   history>>

AddToken(t) ==
    /\ alive /\ (at[t] = "token" \/ (AtToken(t) /\ IsRepeated(t)))
    /\ TokensMap!AddToken(IdAt(t), Lower[Parser!KnownTokens(Tokenized(t))[tidx[t]]])
    /\ tidx' = [tidx EXCEPT ![t] = @ + 1]
    /\ Go(t, "process")
    /\ UNCHANGED <<stems, stems_freq, freq_stems_no, article, loaded, shared,
                   history>>

EndOfTokens(t) ==
    /\ alive /\ at[t] = "process" /\ ~AtToken(t)
    /\ tidx' = [tidx EXCEPT ![t] = 1]
    /\ Go(t, "save")
    /\ UNCHANGED <<vocabulary, article, loaded, shared, history>>

-----------------------------------------------------------------------------
\* Mutant: the article is counted as processed once it is stored.
SaveArticleCounted(t) ==
    /\ alive /\ at[t] = "save"
    /\ saved' = saved \cup {article[t]}
    /\ processed_articles' = processed_articles + 1
    /\ Go(t, "send")
    /\ UNCHANGED <<vocabulary, article, parsing, socket, invalid_urls, alive,
                   history>>

SaveArticle(t) ==
    /\ alive /\ at[t] = "save"
    /\ saved' = saved \cup {article[t]}
    /\ Go(t, "send")
    /\ UNCHANGED <<vocabulary, article, parsing, socket, invalid_urls,
                   processed_articles, alive, history>>

\* save_doc throws, whether or not the document got there: the handler of the
\* exception logs it.
SaveArticleFails(t) ==
    /\ alive /\ at[t] = "save"
    /\ saved' \in {saved, saved \cup {article[t]}}
    /\ End(t)
    /\ UNCHANGED <<vocabulary, parsing, socket, invalid_urls, processed_articles,
                   alive, begun, asked, answer, verdict, freq0>>

-----------------------------------------------------------------------------
\* Mutant: the socket takes a second request before the first reply.
SendAnyTime(t) ==
    /\ alive /\ at[t] = "send"
    /\ stub' = "sent" /\ request' = article[t]
    /\ asked' = asked \cup {article[t]}
    /\ Go(t, "receive")
    /\ UNCHANGED <<vocabulary, article, parsing, stored, processed_articles,
                   alive, begun, ended, answer, verdict, freq0>>

Send(t) ==
    /\ alive /\ at[t] = "send" /\ stub = "ready"
    /\ stub' = "sent" /\ request' = article[t]
    /\ asked' = asked \cup {article[t]}
    /\ Go(t, "receive")
    /\ UNCHANGED <<vocabulary, article, parsing, stored, processed_articles,
                   alive, begun, ended, answer, verdict, freq0>>

\* A REQ socket refuses to send until it received: an exception, caught.
SendRefused(t) ==
    /\ alive /\ at[t] = "send" /\ stub # "ready"
    /\ End(t)
    /\ UNCHANGED <<vocabulary, parsing, shared, begun, asked, answer, verdict, freq0>>

\* A socket of ZeroMQ is for one thread: a send during another thread's
\* receive may also trip an assertion of the library.
SocketAborts(t) ==
    /\ alive /\ at[t] = "send" /\ \E u \in Threads \ {t} : at[u] = "receive"
    /\ alive' = FALSE
    /\ UNCHANGED <<vocabulary, at, article, parsing, socket, stored,
                   processed_articles, history>>

\* The server answers, or never does: DedupService has the reasons.
Answer ==
    /\ stub = "sent"
    /\ \E text \in {"OK", "DUP"} : answer' = [answer EXCEPT ![request] = text]
    /\ stub' = "replied"
    /\ UNCHANGED <<vocabulary, at, article, parsing, request, stored,
                   processed_articles, alive, begun, ended, asked, verdict, freq0>>

Receive(t) ==
    /\ alive /\ at[t] = "receive" /\ stub = "replied"
    /\ stub' = "ready"
    /\ verdict' = [verdict EXCEPT ![article[t]] = answer[request]]
    /\ Go(t, "decide")
    /\ UNCHANGED <<vocabulary, article, parsing, request, stored,
                   processed_articles, alive, begun, ended, asked, answer, freq0>>

IsDuplicate(t) ==
    /\ alive /\ at[t] = "decide" /\ verdict[article[t]] = "DUP"
    /\ End(t)
    /\ UNCHANGED <<vocabulary, parsing, shared, begun, asked, answer, verdict, freq0>>

\* Mutant: the article is counted before the answer is looked at.
AddToClustersAny(t) ==
    /\ alive /\ at[t] = "decide"
    /\ processed_articles' = processed_articles + 1
    /\ End(t)
    /\ UNCHANGED <<vocabulary, parsing, socket, stored, alive, begun, asked,
                   answer, verdict, freq0>>

\* add_to_clusters does nothing, and returns if the build lets it.
AddToClusters(t) ==
    /\ alive /\ at[t] = "decide" /\ verdict[article[t]] = "OK"
    /\ processed_articles' = processed_articles + 1
    /\ End(t)
    /\ UNCHANGED <<vocabulary, parsing, socket, stored, alive, begun, asked,
                   answer, verdict, freq0>>

\* It is declared to return a number and does not: undefined behaviour.
AddToClustersAborts(t) ==
    /\ alive /\ at[t] = "decide" /\ verdict[article[t]] = "OK"
    /\ alive' = FALSE
    /\ UNCHANGED <<vocabulary, at, article, parsing, socket, stored,
                   processed_articles, history>>

Next ==
    \/ Answer
    \/ \E t \in Threads :
        \/ Begin(t) \/ Reject(t) \/ SaveInvalidUrl(t) \/ AddArticleStems(t)
        \/ FetchAdd(t) \/ FetchAddAborts(t) \/ Test(t) \/ Load(t) \/ Store(t)
        \/ AddToken(t) \/ EndOfTokens(t)
        \/ SaveArticle(t) \/ SaveArticleFails(t)
        \/ Send(t) \/ SendRefused(t) \/ SocketAborts(t) \/ Receive(t)
        \/ IsDuplicate(t) \/ AddToClusters(t) \/ AddToClustersAborts(t)

Spec == Init /\ [][Next]_vars
-----------------------------------------------------------------------------
TypeOK ==
    /\ VocabularyTypeOK
    /\ at \in [Threads -> {"idle", "parse", "process", "test", "load", "store", "token",
                         "save", "send", "receive", "decide"}]
    /\ article \in [Threads -> DOMAIN Scraped \cup {None}]
    /\ tidx \in [Threads -> Nat \ {0}]
    /\ loaded \in [Threads -> Nat]
    /\ stub \in {"ready", "sent", "replied"}
    /\ saved \cup invalid_urls \cup asked \cup ended \subseteq begun
    /\ processed_articles \in 0 .. Cardinality(asked)

(***************************************************************************)
(* A pipeline has no words, so no article brings it a stem: add_stems      *)
(* never moves the positions that other threads take for stem ids, and the *)
(* pipeline knows no more stems than it loaded.                            *)
(***************************************************************************)
StemsNeverMove == stems = Loaded

(***************************************************************************)
(* Over one socket, in threads that send and receive in any order, the     *)
(* answer is_duplicate returns is that for its own article.                *)
(***************************************************************************)
AnswerIsOwn ==
    \A a \in DOMAIN Scraped : verdict[a] # None => a \in asked /\ verdict[a] = answer[a]

(***************************************************************************)
(* processed_articles_ counts the articles the server let through whose    *)
(* call returned, and each of them is stored.                              *)
(***************************************************************************)
CountsOriginals ==
    LET originals == {a \in ended : verdict[a] = "OK"}
    IN  processed_articles = Cardinality(originals) /\ originals \subseteq saved

(***************************************************************************)
(* vocabulary.h:22 has increase_stem_freq "thread safe - atomic"; it tests *)
(* a counter again and steps a plain int, so increments are lost, or made  *)
(* twice.  Still, when no thread is inside, the number of frequent stems   *)
(* is zero exactly if no counter was raised to more than three.            *)
(***************************************************************************)
TellsWhetherFrequent ==
    (\A t \in Threads : at[t] \notin {"test", "load", "store"}) =>
        (freq_stems_no > 0 <=>
            \E id \in StemIds : stems_freq[id] > 3 /\ stems_freq[id] > freq0[id])
=============================================================================
