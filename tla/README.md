# unbiased: verification project

`unbiased` collects news articles, throws away duplicates and groups the rest by
topic. This directory holds TLA+ models of it, the TLC configurations that check
them and the TLAPS proofs about them. Paths are under `src/`; `E` is `engine/`.

- [1. Inventory](#1-inventory): the parts, their state, what makes them correct
- [2. Plan](#2-plan): what is done, what comes next
- [3. The models](#3-the-models): how modules correspond to code
- [4. The runs](#4-the-runs): bounds, and what each run shows
- [5. Findings](#5-findings): where code and documentation disagree
- [6. Fairness](#6-fairness)
- [7. Proofs](#7-proofs)
- [8. What is not shown](#8-what-is-not-shown)

## 1. Inventory

### Components

| component | code | state | operations |
|---|---|---|---|
| stem-id to tokens map | `E/include/common/stemid_tokens_rcumap.h` | an array of `shared_ptr<TokensSet>` | `add_token`, `get_tokens`, called by several threads |
| vocabulary | `E/*/common/vocabulary.*` | `stems_` (ordered; a stem id is a position), `words_`, `stop_words_`, `stems_freq_`, `freq_stems_no_`, the tokens map | `add_stems`, `get_stem_id`, `get_stem`, `increase_stem_freq`, getters |
| article parser | `E/*/clustering/article_parser.*`, `E/include/common/tokenize.h` | none of its own: it writes the vocabulary and the article | `parse_from_xml`, `tokenize_validate`, `process_tokens` |
| MinHash | `E/include/clustering/minhash.h` | none | `compute_signature` |
| LSH index | `E/include/dedup/lsh_deduplication.h` | `lsh_buckets_`: band, hash value, article ids | constructor, `process_signature` |
| dedup server | `E/include/dedup/article_dedup.h`, `E/src/dedup/article_dedup.cpp` | the LSH index, rebuilt from MongoDB at each start | a ROUTER loop: receive, look up and insert, reply `DUP` or `OK` |
| dedup client | `E/include/common/dedup_rpc_stub.h`, `zmq_helper.h` | a REQ socket | `is_duplicate`: send, wait |
| startup batch | `E/src/clustering/startup.cpp`, `article_utils.h` | a vocabulary, the articles of `articles.xml` | drop `articles`, save the vocabulary, parse and validate all articles, then process, save and deduplicate each, then cluster |
| pipeline | `E/*/clustering/pipeline.*`, `E/src/clustering/main.cpp` | an asio service and its threads, a vocabulary, a static dedup client | pull a url, start a scraper, `process_article` |
| broker | `E/src/zmq_broker.cpp` | two sockets | forwards urls to pipelines |
| article store | `E/*/common/mongodb*`, `E/*/common/bson_builder.*` | MongoDB collections `articles`, `vocabulary`, `invalid_urls` | `save_*`, `load_*`, `update_*`, `drop_collection` |
| LSA and clustering | `E/*/clustering/lsa.*`, `bu_clustering.*` | term-document matrix, its decomposition, distances | `build_term_doc_matrix`, `get_docs_keywords`, `get_top_concepts`, `create_clusters` |
| Python bindings | `E/pybind/term_doc_mat_bind.cpp` | a vocabulary and an LSA per call | `compute_term_doc_mat`, `compute_lsa_mat`, `compute_topics` |
| web back end | `web/backend/` | `UserEntry`, `Story`, users | `contribute_page`, `signup` |
| scripts | `scripts/` | files | `download_articles_sample`, `process_urls` |
| NER experiments | `ml/` | files | stand-alone |

The rest is not the program's own: `E/extern/` is vendored, `E/unit_tests/` and
`tests/` are read as documentation of what the code promises, `data/` and `bin/`
are inputs.

### Interactions

- `startup.cpp` (one thread) drives the parser, the vocabulary, the store, the
  dedup client and the clustering, in that order for every article.
- `pipeline.cpp` would do the same from several threads that share one
  vocabulary and one static dedup client.
- The dedup client and server talk over ZeroMQ, REQ to ROUTER, without timeouts.
- The batch and the pipelines write the collection `articles`; the dedup server
  reads it, once, in its constructor. Nothing keeps its index and the collection
  in step after that.
- The tokens map is the one structure written for concurrent use. Everything
  else in the vocabulary is a plain container.

### What is hard, and what makes each part correct

- **Tokens map.** Lock-free retry loop over a slot that is two machine words;
  copies of the slot that are not atomic. Correct when no added token is lost, a
  set handed out never changes, a get is not stale, every call returns, and no
  thread touches freed memory.
- **Vocabulary and parser.** A stem id is a position in a set that grows, so it
  goes stale; counters count articles, not occurrences. Correct when a stored id
  decodes to the stem it was computed from, counters equal the articles seen, and
  tokens are filed under their stem.
- **LSH index, dedup server, clients.** Crash and restart against clients that
  wait for ever; replies without an id; an index and a collection that drift
  apart; keys cut to 32 bits. Correct when similar articles are never both let
  through, each client reads the answer to its own request, and a client waits
  for ever only if a crash lost its message.
- **Store.** Drop-then-insert, save-before-compute, types that do not read back.
  Correct when what is loaded is what was saved.
- **LSA and clustering.** Index translation between matrix rows and stem ids;
  bounds. Correct when row, column and stem id name the same things throughout.
- **Pipeline.** Shared vocabulary and shared socket. Correct when interleaved
  articles give the same ids and answers as sequential ones, and an enqueued url
  is eventually processed.

`PROJECT.json` lists each hazard at its line with the properties that cover it.

## 2. Plan

The modules, in order of importance; all are written and checked:

1. `TokensMap`, `StemIdTokensRCUMap`
2. `Positions`, `Vocabulary`, `ArticleParser`, `StartupBatch`
3. `LSHDeduplication`, `DedupOracle`, `DedupService`
4. `LSA`, with its two users: `Topics` (the Python bindings) and `Clustering`
   (the end of the batch, which implements `StartupBatch`)
5. `MinHash` and `Startup`: main of the batch again and again beside a server
6. `ArticleStore`: the collections and the BSON codec
7. `Ingest`: broker, main's loop, `enqueue_article`
8. `ArticleHandler`: `process_article` in several threads

How they are composed:

```
Positions <- Vocabulary <- ArticleParser <- StartupBatch <- Startup (+ MinHash, DedupOracle)
                ^              ^  ^              ^
TokensMap ------+              |  LSA <---- Clustering (implements StartupBatch)
    ^                          |   ^
StemIdTokensRCUMap             |   |
(implements TokensMap) ArticleHandler Topics
LSHDeduplication <- DedupService (implements DedupOracle)
```

`ArticleStore` and `Ingest` stand alone: what the others need of them is a set of
stored signatures, and that a url arrives.

The proofs, in the same order: `StemIdTokensRCUMap_proofs`, `DedupService_proofs`,
`ArticleParser_proofs` (lemmas only), `Startup_proofs` (of `StartupBatch`,
`Clustering` and `Startup`), `Topics_proofs`, `ArticleStore_proofs`,
`Ingest_proofs`, `ArticleHandler_proofs`. Every safety property that a passing run
checks is a theorem, but for `AgreementIsJaccard`, and so are the three refinements.
Next: how much of the model of one module another one may rely on, stated as
theorems between them: that the collection `Startup` keeps is one `ArticleStore`
implements, and that what `ArticleHandler` does to the vocabulary is what
`TokensMap` and `Vocabulary` promise.

## 3. The models

### `TokensMap` and `StemIdTokensRCUMap`

`TokensMap` is the promise: `AddToken(id, token)` adds in one step.
`StemIdTokensRCUMap` is `add_token` and `get_tokens`, one action per access to
shared memory. A slot `tokens_rcu_map_[id]` is `ptr[id]` (pointer word) and
`own[id]` (control-block word). The plain copy of lines 28 and 49 is `LoadPtr`,
`LoadOwn`, `Acquire`; lines 29-41 are `AlreadyAdded` or `CopyAndInsert`; the
exchange of line 43 is `CasSucceeds`, `MoveOut`, `StorePtr`, `StoreOwn` or
`CasFails`, with `mover[id]` the thread inside it, because the library's lock
excludes other atomic operations and not the plain copies. The exchange moves the
old set out of the slot, a word in each of `CasSucceeds` and `MoveOut`, in either
order, and then the new one in; the plain copies see the slot at any of these
points. It takes effect when `MoveOut` has emptied the slot. Reference counts are
not stored: `Live(s)` says whether somebody owns allocation `s`. A step that touches
an allocation nobody owns is undefined behaviour: `undefined` becomes true and the
behaviour ends there. So every safety property here reads "until the behaviour is
undefined", and that it can be undefined is a finding of its own.

### `Vocabulary`, `ArticleParser` and `StartupBatch`

A stem is a natural number, because all the code uses of the strings is their
order. `Positions` has what the code does with ordered sets: the distance to an
element, the element at a distance, all of them in order. `StemId(s)` is the
distance the code computes, recomputed at every use as the code does. The initial
frequencies are any values of `InitialFreqs`, integers, since the array has no
initialiser; counters are not cut to 32 bits, as no run comes near 2^31 articles
unless the memory happened to hold a number near it. Nothing relates `MaxStemsNo`
to the number of stems: `HasRoom` is the assertion of `increase_stem_freq` and of
`add_token`, and a step that needs a counter where there is none aborts
(`ProcessTokenAborts`, `ProcessArticleAborts`, `FetchAddAborts`). The tokens map is
used through `TokensMap`, which the previous module implements.

`ArticleParser` has the pure part of the parser (`IsValid`, `ValidStems`,
`HasStem`, `StemOf`, and with the vocabulary `IsKnown` and `KnownTokens`: the tokens
of an article that leave a stem id) and the whole of `process_tokens` as one step
(`ProcessTokens`), for callers that nothing can interrupt. Tokens keep their
spelling: validation looks a token up as written, processing in lower case, and
the two disagree on words such as "Table". Thresholds are a fraction, so the
float comparison is a comparison of products.

`StartupBatch` is `process_articles_batch`: `LoadValid`, `LoadInvalid`,
`LoadMalformed` are the iterations of the first loop, `ProcessToken`,
`SkipToken`, `SkipUnknownStem` those of `process_tokens`, `SaveArticle`,
`IsOriginal`, `IsDuplicate` the rest of the second loop, `CreateClusters` the
end. The dedup server may answer anything here. A shingle is the value of
`Shingle`, a hash of three tokens of which nothing is assumed. `freq0` remembers
what the counters began at. `StemsWithRoom` are the stems a counter exists
for: the properties of the counters are about those.

### `LSA`, `Clustering`, `Topics`

`LSA` has the rows of the term-document matrix (`TermIds`: the stem ids whose
counter lies between two limits, one position past the last stem included, as the
loop bound `<=` has it), its cells (`Column`) and the ways rows are turned back
into words. A cell is the number of occurrences its weight is proportional to.
dlib's decomposition is external: `ConceptsNo` gives the two numbers of columns
it may have, a concept ranks the rows in any way, a document may have any rows as
keywords. `Beyond` is what `terms_freq` may hold past its end.

`Clustering` takes the two loops of the batch as they are (`BatchLoops`) and puts
the steps of `create_clusters` in the place of `CreateClusters`:
`RunSVD` builds the matrix, `AssertionInBuild`, `AssertionInThreshold` and
`GetDocsKeywords` are the assertions on the way. It implements `StartupBatch`
with `pc = "svd"` mapped to `"cluster"`.

`Topics` is one call of a Python function, from the titles it has met to what
it returns or throws. Articles are pairs of a title and tokens. Its objects are
its own, but the memory of the counters may hold what an earlier call left there.
`RowCounts` is what a counter must be at for its stem to be a row. A row no article
made can arise in two ways, which `IsRowFromStart` has: the counter behind the last
stem's, and that of a stop word that `words.dat` has too, whose stem is in the
vocabulary and never counted.

### `MinHash` and `Startup`

`ComputeSignature` is the minimum over the shingles, position by position, from a
start above the range; `Rem` is C's remainder, whose sign is that of the hash. The
murmur3 hashes are a constant sequence of functions, of which nothing is assumed.
`AgreementIsCommonLeast` is what follows whatever they are. `AgreementIsJaccard` is
the comment of `minhash.h:27`: it needs functions that rank the shingles in every
way, which the run's are and a hundred murmur3 hashes can only come near.

`Startup` runs `main` of `startup.cpp` up to `MaxRuns` times: `DropArticles`,
`DropVocabulary` and `InsertVocabulary`, then the steps of `StartupBatch`, in which
a save also writes the collection and the answer comes from `DedupOracle`, for the
signature `MinHash` gives. `Kill` ends a run at any step and `RestartServer` may
happen at any time. The exchange with the server is one step here; `DedupService`
takes it apart, and a batch killed between question and answer is one killed
before or after that step.

### `ArticleStore`

A collection is the sequence of its documents. `save_vocabulary` is two actions,
`DropVocabulary` and `InsertVocabulary`, with `Crash` possible in between. The
codec is modelled where types or fields change: which fields of a vocabulary and
of an article are written and read, the int64 a signature becomes and the casts it
comes back by (`AsInt32`, modulo `2 * Half`), stem ids written as int32 and asked
for as double. An article read back has the id of its document; its number of
unknown tokens is written and not read, its number of tokens and its map of tokens
are not even written. Text that is copied both ways is one field, the title, and
the date, which `operator==` does not compare. `Undefined` is what
dereferencing the cursor of an empty collection gives.

### `Ingest` and `ArticleHandler`

`Ingest` follows a url from a sender's socket through the broker (`Deliver`,
`Forward`) to a pipeline's loop (`Receive`) and into `enqueue_article` (`Spawn`,
`SpawnFails`, `Return`). Pipes hold `HighWater` messages. `CrashBroker` loses the
broker's queue and the end of any pipe it had not passed on. `WorkerReturns`: the
threads of the pipeline run an io service without work, so they end. `Return`
terminates a scraper that still runs, as the destructor of `bp::child` does.

`process_article` has no caller as the code stands: the read whose completion
would call it is commented out. `ArticleHandler` models it as its code has it, in
`Threads` threads that share the vocabulary, the static REQ socket (`stub`), the
collections and the counter. `FetchAdd`, `Test`, `Load`, `Store` are
`increase_stem_freq`. A save that fails throws, and the call ends there, whether or
not the document was stored (`SaveInvalidUrl`, `SaveArticleFails`); `SendRefused` is
the exception of a second send,
`SocketAborts` what a socket used by two threads may do, `AddToClustersAborts` the
missing return of `add_to_clusters`. The pipeline's vocabulary comes from the
database, without words (`PipelineWords`), so the parser is instantiated once with
these and the batch's words stay available as `Words`. Socket calls are single
steps.

### `LSHDeduplication`, `DedupOracle`, `DedupService`

`buckets` is `lsh_buckets_` as triples of band, key, id. `boost::hash_combine`
and the conversion to `int32_t` are constant operators: nothing is assumed of
them. `Similar` (a band with one key) is what the index promises, collisions
included.

`DedupService` adds the processes. A client saves an article (`Save`), sends
(`Send`) and waits (`Receive`). A request passes from the client's socket to the
server's (`Deliver`), is looked up and inserted (`Serve`: receive, deserialize,
`is_duplicate`, one thread, nothing shared, hence one step) and answered
(`Reply`). `Crash` empties the server and loses any of the messages in its
socket; `Start` loads the signatures of the collection. `Save` stores a garbage
signature, because the code saves the document before it computes the signature.
`BeginBatch` is the `drop_collection` of `startup.cpp`. Ids are unused until
saved: MongoDB generates them.

`DedupOracle` is the promise: one step that answers `DUP` exactly when the server
knows another similar article. A restart replaces what the server knows by what
is stored.

Definitions whose name follows a "Mutant:" comment are plausible wrong versions
of the definition after them. Nothing uses them; each is there to show that a
property notices the change.

## 4. The runs

| run | instance | what it shows |
|---|---|---|
| `rcu_map` | 2 threads that add and get, 1 id, 2 tokens, 3 allocations; 201175 states | type, `NoLostToken`, `GetSeesCompletedAdds`, `ImmutableSnapshots`, refinement of `TokensMap`, `CallsReturn`; deadlock is checked |
| `rcu_map_undefined` | 1 writer, 1 reader | finding 1 |
| `startup` | all files of up to three of five articles and a malformed one; 4 stems and room for 3, 11 tokens; each counter starts at -1 or 2; two concepts wanted; 58827 states | type, `FreqGrowsByArticles`, `TokensAreByStem`, `StoredIdsDecode`, `AbortsOnlyWhenFew`, `Clustering` implements `StartupBatch` |
| `topics` | all files of up to four of five articles, two of them of one title, and a malformed one; 5 stems and room for 4; counters start at 0 or 2; 434134 states | type, `TermsAreWithinLimits`, `CellsCountTokens`, `EndsWithArticles` |
| `rerun` | two runs over files of up to two of four articles and a malformed one; six hash functions; kills and restarts anywhere; 111995 states | type, `SavedVocabularyIsEmpty`, `NothingIsNewOnlyWhenKnown`, `FailedStoresNothing`, `AgreementIsCommonLeast`, `AgreementIsJaccard` |
| `dedup` | 2 articles, 2 clients, 3 signatures, 2 contents of unset memory, 2 starts, 1 drop; 134009 states | type, `AcceptedAreDissimilar`, `VerdictIsAnswer`, `WaitingIsServedOrLost`, refinement of `DedupOracle`, `IsDuplicateReturns` |
| `dedup_restart` | 2 articles, 1 client, 2 starts | finding 2 |
| `store` | 3 documents, 2 stems, 3-bit integers; 49928 states | type, `SignaturesReadBack`, `LoadsLastSaved`, `ArticlesReadBack` |
| `store_equal` | the instance of `store` | finding 4 |
| `ingest` | 3 urls, 2 pipelines with a thread each, pipes of one message, 2 starts of the broker; 59312 states | type, `TakenAtMostOnce`, `SentIsTaken` |
| `ingest_scraper` | 1 url, 1 pipeline, 3 threads | finding 3 |
| `handler` | 3 threads, 4 articles, 3 stems and room for 2, each counter starts at 2, 3 or 4; 281165 states under symmetry | type, `StemsNeverMove`, `AnswerIsOwn`, `CountsOriginals`, `TellsWhetherFrequent` |

Why the bounds are enough to be interesting:

- `rcu_map`: a lost update needs two threads inside `add_token`, a torn or stale
  read one that exchanges while another copies, and every call may be either; two
  tokens so that a copy can miss one. A thread has at most one allocation in hand
  besides the one published, so three never run out. Slots do not interact, so one
  id is enough for TLC; the safety theorems are for any number of threads, ids and
  tokens. Threads are no symmetry set, which liveness would not allow.
- `startup`: the articles repeat a stem in two spellings and in two articles,
  contain stop words, one-letter and unknown tokens, a word unknown as written
  whose stem is known, and one with too many unknown tokens. The stems arrive out
  of order, so positions do shift in the first loop. An article with the fourth stem
  finds no counter for it, or gives its place to another. A counter that starts at
  2 becomes a row too early, or makes a row of the position behind the last stem;
  one that starts below zero becomes a row too late. There are batches with fewer
  articles and with fewer rows than the two concepts wanted, which stand for fifty.
  The batch ends, so deadlock is not checked; the same holds of `topics`, `rerun`
  and `handler`.
- `topics`: a title's valid article may come after its invalid one, and a stem
  may be met in one, two, three or (by repetition) no new titles; the limits are
  one and four. A counter that starts at 2 is within them before any article raised
  it, as that behind the last stem or that of a stop word may be, and is beyond them
  after two. Files with all five stems run out of counters.
- `rerun`: two runs are what it takes for one to find what another left.
  The valid articles have two, two and no shingles, one in common; the hash
  functions are all rankings of the three shingles, so "the probability of
  agreement" is a share of positions. A signature has two bands of three.
- `dedup`: A and B share a band, A and D share only a key cut from different
  hash values, B and D nothing; the last row is in no band. Two starts is one
  crash and restart, at every point (`MaxStarts`); one batch that empties the
  collection (`MaxBatches`). Two articles can be answered before, after or on both
  sides of a restart; the theorems are for any number. When the ids are used up
  nothing is left to do, so deadlock is not checked; that nobody waits in vain is
  `WaitingIsServedOrLost` and `IsDuplicateReturns`.
- `store`: three insertions (`MaxIds`) are two vocabularies and an article, or
  three articles; with three bits every signature element, negative ones too, is
  tried. Drops and crashes are not bounded. Once no id is left the writer may
  stop, so deadlock is not checked.
- `ingest`: three urls are more than a broker and one pipe hold, so that queues
  fill; two starts of the broker are one crash. When all urls are taken nothing
  is left to do.
- `handler`: two valid articles with a common stem, so that two threads count it
  at once while a third meets the busy socket. Counters start at 2, 3 or 4 so that
  one article or two make a stem frequent, or it was before any. The third stem
  that was loaded has no counter. Threads do the same things, so they are symmetric.

## 5. Findings

Found violated by a run:

1. `stemid_tokens_rcumap.h:28`, said to be "thread-safe" (line 21): the plain copy
   of a slot races with the exchange. A thread can touch a set that was freed
   (`NoUndefinedBehaviour`). For the same reason `get_tokens` can return null for
   a stem that has tokens. `std::atomic_load` in both places would remove it.
2. `startup.cpp:59`: articles are saved before their signature is computed, so a
   restarted dedup server does not recognise articles it had let through
   (`IdenticalAreDuplicates`). `AcceptedAreDissimilar` says what does hold:
   between two starts it does.
3. `pipeline.cpp:43`: the child process is a local of `enqueue_article`, which
   returns at once, so its scraper is terminated and nothing comes of the url
   (`TakenIsScraped`).
4. `bson_builder.cpp:120`: `test_mongodb.cpp:106` requires the articles it loads to
   equal those it saved. Stem ids are asked for as doubles, which throws unless an
   article has none, and the id of an article read is that of its document, which
   `operator==` compares (`ArticlesReadBackEqual`). `ArticlesReadBack` says what
   does come back.

Differences for which the models state what holds instead:

- `vocabulary.h:129`: counters are not initialised; they grow by the right amount
  (`FreqGrowsByArticles`). For the same reason the terms of a concept need not "show
  up in multiple articles and not in too many", as `lsa.cpp:15` has it:
  `TermsAreWithinLimits` adds what their counters began at.
- `vocabulary.h:44` calls `freq_stems_no_` the "number of stems that show up in
  more than 3 articles", but line 27 steps it again at every further article of the
  same stem, and in several threads may miss or double a step. No code reads the
  number. What is left of it is whether it is zero (`TellsWhetherFrequent`).
- `stemid_tokens_rcumap.h:11`: `MAX_STEMS_NO` is 152588, but the 210444 words of
  `bin/words.dat` have 152636 different stems (counted with the repository's
  stemmer), and `add_stems` does not look. A stem id behind the arrays fails the
  assertions of `vocabulary.h:25` and `stemid_tokens_rcumap.h:24`; articles with
  nearly every word there is are needed to get there. `AbortsOnlyWhenFew` and
  `EndsWithArticles` have the full vocabulary among the reasons to abort. Where the
  assertions are compiled out the write is out of bounds, which is not modelled.
- `lsa.cpp:16`: the loop reads one counter past the last stem's, and may make a
  row of it (`AbortsOnlyWhenFew`, `CellsCountTokens`, `EndsWithArticles`).
- `bu_clustering.cpp:19` wants fifty concepts of any batch: fewer articles or
  terms end in an assertion (`AbortsOnlyWhenFew`). Keywords are row numbers that
  `get_word` takes for stem ids: they are the right stems only up to the first
  stem without a row.
- `startup.cpp:77` saves the vocabulary before there is a stem in it
  (`SavedVocabularyIsEmpty`), so a pipeline knows no stem, and, its words not
  being stored, learns none (`StemsNeverMove`); it rejects articles the batch
  accepts.
- `startup.cpp:75` empties the collection but not the server's index: a second
  run on the same file finds every article a duplicate
  (`NothingIsNewOnlyWhenKnown`).
- `load_articles_dates` looks documents up by the text of their ids and finds
  none, and `find_source` reads the first of its results; neither has a caller
  that is compiled, and neither is modelled.
- `pipeline.cpp:57`: while one thread waits for an answer, another's send
  throws; its article stays stored and is not deduplicated. `CountsOriginals`
  still holds.

## 6. Fairness

- `CallsReturn`: weak fairness of each thread inside a call, which is what a
  preemptive scheduler gives. No thread is bound to begin a call. Tokens are only
  added, so a writer's exchange can fail only finitely often on a finite set of
  tokens.
- `IsDuplicateReturns`: weak fairness of the server's start and reply, of the
  transport and of each client inside `is_duplicate`; strong fairness of serving
  each client, since the ROUTER socket takes its peers in turn and serving one
  is disabled while another is replied to. The start is fair because an operator
  starts the server again; a crash is never required to happen, nor a save.
- `SentIsTaken`: weak fairness of the broker's start, of the transport, of the
  proxy as a whole (it offers a url to whichever pipeline has room, to none in
  particular) and of each step of main's loop, where starting the scraper and
  failing to are one choice. Nobody is bound to send, and neither a pipeline's
  start nor a crash is assumed. `TakenIsScraped` is violated although a scraper
  that is left alone is bound to end.

## 7. Proofs

All of these hold for any value of the constants that meets the named
assumptions, which TLC evaluates in the runs. Each invariant called `...Inv` here is
the conjunction that the theorems of its module are read off.

`StemIdTokensRCUMap_proofs` (assumption: `Null` is no thread, set or token):
`Typing`, `TokensAreKept`, `GetsAreNotStale`, `SnapshotsAreImmutable` and
`Refinement`, the last saying that the map implements `TokensMap`. The invariant
`IInv` adds to `TypeOK` and `NoLostToken` what makes them inductive: what is set
at each point of a call (`CallsInv`), what a slot holds during a store
(`SlotsInv`), that what a thread read has all it asked for and is part of what is
published (`ReadInv`), and that a copy whose two words belong together was made
from the set it replaces (`CopyInv`). The last one is the heart: only then does
the exchange, which compares both words, publish a superset. The abstract
addition is the instant `MoveOut` has emptied the slot: from there on no copy can
find the set that is being replaced.

`DedupService_proofs` (assumptions: ids are finite, `None` is none of the other
values, a signature is longer than the number of bands): `Typing`,
`NoTwoSimilarAreAccepted`, `VerdictsAreAnswers`, `RequestsAreNotForgotten` and
`Refinement`. `IInv` adds `RequestsInv` (an article belongs to one client from its
save to its verdict; its request, its answer and its reply are about it, and it is
in one of those stages) and `IndexInv` (the buckets are those of what the server
knows, and it knows what it answered since its start). Finiteness is needed
because the code decides by the size of the set of duplicates. Lemmas on the index
say that inserting adds one document's entries (`GroupsGrow`) and that the reply
is `DUP` exactly when another known document is similar (`ReplyText`), for any
hash. `RequestsAreNotForgotten` rests on `PlacesInv`: a waiting client that a crash
did not rob has its request in exactly one place, and any other client in none,
which holds because a client has one message at a time (`OneMessage`).

`ArticleParser_proofs` has no specification to prove of, only the lemmas the next
two modules and `ArticleHandler_proofs` share. On positions: they lie below the
cardinality, grow with the element and differ for different ones (`PositionType`,
`PositionGrows`, `PositionInjective`); the element at a position has that position
and the other way round; listing a set in order hits every element once and adding a
larger one appends it (`InOrderLists`, `InOrderAppend`). On articles: `StemIdsType`
(an id computed from a stem decodes to the stem, and has a counter just when it is
below `MaxStemsNo`), `StemOfId` (each position is the id of what it decodes to),
`StemIdsAre` and `StemIdsCountTokens` (an id occurs among an article's stem ids as
often as its stem among the article's tokens).

`Startup_proofs`, in three parts.

- *StartupBatch* (assumptions: stems are finitely many, files are sequences of
  articles; nothing about the counters' first values, nor about their number):
  `Typing`, `FrequenciesCountArticles`, `TokensBelongToStems`, `StemIdsDecode`. The
  properties are about every token reached, so all rest on `OccursNext`: a step of
  `process_tokens` adds the token at hand to what was reached, and no other step
  adds any, nor changes the stems, once the first loop is over. `CountsInv` adds
  that `met` holds just the ids of the stems seen in the article at hand; `IdsInv`
  that the ids and the last tokens recorded so far are those of the known tokens
  before the one at hand.
- *Clustering* (with `MinConcepts` positive): `ClusteringImplementsBatch`,
  `AssertionsHold`, `ClusteringKeepsPromises` (the three properties above, at every
  step of `create_clusters` too) and `ClusteringTyping`. `ClusterInv` says the matrix
  is of the final vocabulary: nothing moves between `RunSVD` and the end.
- *Startup* (files of at most `MaxArticles` articles, whose shingles are hashed):
  `StartupTyping`, `OnlyEmptyVocabularies`, `MalformedStoresNothing`,
  `FirstIsNewUnlessKnown`, `EveryRunIsABatch` (the three properties again, in every
  run, wherever earlier ones were killed) and `AgreementOfSignatures`. `RunInv` is what
  makes the middle ones inductive: until the first answer the server knows no more
  than when main started or documents without a signature, whether or not it was
  restarted. `KnownInv` says that each signature of this run that the server knows
  was computed of the article its id names. `AgreementOfSignatures`
  (`AgreementIsCommonLeast`) needs nothing of the hash functions: a position keeps
  the least value, so two signatures agree there exactly if one value is the least
  of both sets.

`Topics_proofs`: `Typing`, `CellsAreCounts`, `CallsEnd`, `TermsAreMetOften`.
`CountInv` says that a stem's counter is what the memory held plus the articles met
so far, and that those of no stem still hold that; `MatrixInv` that the matrix is
built of the final vocabulary and all articles; `TopicsInv` that topics are made of
tokens of rows. The counters are never initialised, so each theorem says what holds
whatever they began at: `CellsAreCounts` has the one row that may follow those of
the stems, `CallsEnd` the rows no article made, and `TermsAreMetOften` adds what the
counter began at. An article with a stem that has no counter ends the call, so no
invariant needs the stems to be few.

`ArticleStore_proofs` (assumption: `Half` is positive): `Typing`,
`SignaturesSurvive`, `VocabularySurvives`, `ArticlesSurvive`. The arithmetic is one
lemma: an element of `-Half .. Half - 1` written as int64 and cast back is itself,
for any `Half`. `StoreInv` says the collection has the documents of what was saved,
in order, each under the id its save returned, and that the vocabulary's collection
is empty or holds the last one saved, also between its two steps and after a crash
there.

`Ingest_proofs`: `Typing` and `UrlsAreTakenOnce`. `PlacesInv` says where a url sent
can be: in at most one of the queues, once, or taken by one pipeline, once, or
lost with a crash. The lemmas on queues (`Members...`, `Distinct`) say what `Append`,
`Tail` and cutting off an end do to the urls they hold.

`ArticleHandler_proofs` (any number of threads and articles): `Typing`,
`StemIdsAreStable`, `AnswersAreOwn`, `OriginalsAreCounted` and `FrequentIsTold`.
`ArticlesInv` says that threads have different articles, none of them ended;
`SocketInv` that the socket is out of its ready state just while one thread waits, for
its own request: the second thread's send is refused, which is why an answer is
never another's. `RoomInv` says that a thread inside an increase is at a stem that has a
counter. `FrequentIsTold` (`freq_stems_no_` is zero exactly when no counter was
raised to more than three, when no thread is inside an increase) holds whatever the
counters began at, because it compares with `freq0`. `FrequentInv` adds which thread
is about to store.

## 8. What is not shown

- Liveness (`CallsReturn`, `IsDuplicateReturns`, `SentIsTaken`) is model-checked
  only, on the instances of section 4: fairness speaks of `ENABLED`, which the provers
  do not handle.
- The theorems about signatures assume nothing of the hash functions. That
  signatures agree in the share of shingles two articles have in common
  (`AgreementIsJaccard`) is model-checked for functions that rank three shingles in
  every way; how near a hundred murmur3 hashes come to it, nobody shows.
- Weights, singular vectors, distances and the grouping of articles: real
  arithmetic inside dlib. `bu_clustering.cpp`'s grouping after the keywords reads
  nothing that the models keep. `foldin_doc` and the printing functions have no
  state.
- The order of relaxed atomic operations: each access to a counter takes effect
  at once, and the exchange of the tokens map is sequentially consistent.
- Data races on the set of stems itself. `StemsNeverMove` says no thread of a
  pipeline ever changes it, which is why `ArticleHandler` reads it in one step.
- Text: XML, tokenization, lower case and stemming are given functions on tokens,
  and an article that `read_xml` rejects is `Malformed`.
- MongoDB's failures as such. A save that throws ends the call of
  `process_article`, which catches the exception (`SaveArticleFails`); in the batch
  the exception ends `main`, which is a `Kill`. `ArticleStore` has the crash of the
  writer and no failing operation. `get_docs_no`, `find_source` and
  `load_articles_dates` have no caller that is compiled.
- Counters at the end of their range: 2^31 articles, or memory that happened to
  hold a number near it.
- Configuration, logging and clocks: no state the properties depend on; their
  values are CONSTANTS. `pqldb.h` and `story.h` are used by no code.
- The web back end is a Django site with its own database that shares nothing
  with the engine. The scripts download and analyse without shared state: what
  they leave is a file the batch reads, which is any of `Files`, and a scraper
  started by a pipeline ends or is terminated in `Ingest`. The experiments in
  `ml/` are called by nothing.
