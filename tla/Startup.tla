-------------------------------- MODULE Startup --------------------------------
(***************************************************************************)
(* main of engine/src/clustering/startup.cpp, run again and again beside a *)
(* dedup server that lives on.  Each run empties the collection of         *)
(* articles, saves a new vocabulary and processes articles.xml, which may  *)
(* be another one each time; any of them may be killed between two steps.  *)
(*                                                                         *)
(* The batch is StartupBatch, the server what DedupService implements, the *)
(* oracle.                                                                 *)
(***************************************************************************)
EXTENDS StartupBatch, MinHash

CONSTANTS
    MaxRuns,         \* bound: runs of main
    MaxArticles,     \* bound: articles in a file
    Garbage,         \* the signature saved before it is computed
    None,
    Similar(_, _)

\* The shingles process_tokens makes of an article.
ShinglesOf(article) ==
    {ShingleAt(article, i) : i \in {j \in 1 .. Len(article) - 2 : ~HasStem(article[j])}}

ASSUME StartupAssumption ==
    /\ MaxRuns \in Nat
    /\ MaxArticles \in Nat
    /\ \A f \in Files :
           /\ Len(f) <= MaxArticles
           /\ \A k \in DOMAIN f : f[k] # Malformed => ShinglesOf(f[k]) \subseteq Shingles

VARIABLES
    main,            \* where main is, or "idle" between two runs
    runs,            \* how often main started
    vocabularies,    \* collection "vocabulary": at most one set of stems
    stored,          \* collection "articles": ids and signatures
    known,           \* what the server knows
    answer,          \* the server's answers
    knownBefore      \* history: what the server knew when main started

server == <<stored, known, answer>>
system == <<vars, main, runs, vocabularies, server, knownBefore>>

\* The server generates the ids of documents; a run and an index name them.
DocIds == (1 .. MaxRuns) \X (1 .. MaxArticles)
DocId == <<runs, idx>>

Server == INSTANCE DedupOracle WITH Ids <- DocIds, Signatures <- AnySignature \cup {Garbage}

StartupInit ==
    /\ Init
    /\ main = "idle" /\ runs = 0
    /\ vocabularies = {}
    /\ Server!Init
    /\ knownBefore = {}

-----------------------------------------------------------------------------
\* A new process: nothing of the previous one is left in memory.  saved and
\* invalid_urls name the documents of this run by their indexes.
NewBatch ==
    /\ stems' = {} /\ stems_freq' \in [StemIds -> InitialFreqs] /\ freq_stems_no' = 0
    /\ tokensOf' = [id \in StemIds |-> {}]
    /\ file' \in Files
    /\ pc' = "load" /\ idx' = 1 /\ articles' = <<>>
    /\ tidx' = 1 /\ met' = {} /\ stem_ids' = <<>> /\ lastToken' = NoLastToken
    /\ shingles' = {}
    /\ invalid_urls' = {} /\ saved' = {}
    /\ processed' = <<>>
    /\ freq0' = stems_freq'

Start ==
    /\ main = "idle" /\ runs < MaxRuns
    /\ main' = "drop"
    /\ runs' = runs + 1
    /\ knownBefore' = known
    /\ NewBatch
    /\ UNCHANGED <<vocabularies, server>>

\* Mutant: the collection is left as it is.
DropNothing ==
    /\ main = "drop"
    /\ main' = "save"
    /\ UNCHANGED <<vars, runs, vocabularies, server, knownBefore>>

DropArticles ==
    /\ main = "drop"
    /\ Server!Drop
    /\ main' = "save"
    /\ UNCHANGED <<vars, runs, vocabularies, knownBefore>>

\* save_vocabulary drops the collection and inserts the document.
DropVocabulary ==
    /\ main = "save"
    /\ vocabularies' = {}
    /\ main' = "insert"
    /\ UNCHANGED <<vars, runs, server, knownBefore>>

\* Mutant: main saves the vocabulary when the batch is through.
InsertVocabularyLast ==
    \/ /\ main = "insert"
       /\ main' = "batch"
       /\ UNCHANGED <<vars, runs, vocabularies, server, knownBefore>>
    \/ /\ main = "batch" /\ pc = "done"
       /\ vocabularies' = {stems}
       /\ main' = "idle"
       /\ UNCHANGED <<vars, runs, server, knownBefore>>

InsertVocabulary ==
    /\ main = "insert"
    /\ vocabularies' = {stems}
    /\ main' = "batch"
    /\ UNCHANGED <<vars, runs, server, knownBefore>>

BatchStep ==
    /\ \/ LoadValid \/ LoadInvalid \/ LoadMalformed \/ EndOfLoad
       \/ SkipToken \/ SkipUnknownStem \/ ProcessToken \/ ProcessTokenAborts
       \/ CreateClusters
    /\ UNCHANGED server

BatchSaveArticle ==
    /\ SaveArticle
    /\ Server!Save(DocId, Garbage)

\* Mutant: the server knows the article it is asked about.
BatchIsDuplicateAfterInsertion ==
    /\ pc = "dedup"
    /\ known' = known \cup {<<DocId, ComputeSignature(shingles)>>}
    /\ answer' = [answer EXCEPT ![DocId] =
           IF \E k \in known' : Similar(k[2], ComputeSignature(shingles)) THEN "DUP" ELSE "OK"]
    /\ UNCHANGED stored
    /\ \/ answer'[DocId] = "OK" /\ IsOriginal
       \/ answer'[DocId] = "DUP" /\ IsDuplicate

BatchIsDuplicate ==
    /\ pc = "dedup"
    /\ Server!Answer(DocId, ComputeSignature(shingles))
    /\ \/ answer'[DocId] = "OK" /\ IsOriginal
       \/ answer'[DocId] = "DUP" /\ IsDuplicate

ProcessArticlesBatch ==
    /\ main = "batch"
    /\ BatchStep \/ BatchSaveArticle \/ BatchIsDuplicate
    /\ UNCHANGED <<main, runs, vocabularies, knownBefore>>

\* The end of main: the batch is through, an exception was caught, or an
\* assertion failed.
Return ==
    /\ main = "batch" /\ pc \in {"done", "failed", "aborted"}
    /\ main' = "idle"
    /\ UNCHANGED <<vars, runs, vocabularies, server, knownBefore>>

Kill ==
    /\ main # "idle"
    /\ main' = "idle"
    /\ UNCHANGED <<vars, runs, vocabularies, server, knownBefore>>

RestartServer ==
    /\ Server!Restart
    /\ UNCHANGED <<vars, main, runs, vocabularies, knownBefore>>

StartupNext ==
    \/ Start \/ DropArticles \/ DropVocabulary \/ InsertVocabulary
    \/ ProcessArticlesBatch
    \/ Return \/ Kill \/ RestartServer

StartupSpec == StartupInit /\ [][StartupNext]_system
-----------------------------------------------------------------------------
StartupTypeOK ==
    /\ TypeOK
    /\ main \in {"idle", "drop", "save", "insert", "batch"}
    /\ runs \in 0 .. MaxRuns
    /\ \A v \in vocabularies : v \subseteq Stems
    /\ stored \subseteq DocIds \X {Garbage}
    /\ known \cup knownBefore \subseteq DocIds \X (AnySignature \cup {Garbage})
    /\ answer \in [DocIds -> {None, "OK", "DUP"}]

(***************************************************************************)
(* The vocabulary is saved before the batch adds a stem to it: whatever    *)
(* ran, failed or was killed, a pipeline that loads the vocabulary finds   *)
(* no document, or one without stems.                                      *)
(***************************************************************************)
SavedVocabularyIsEmpty == vocabularies \subseteq {{}}

(***************************************************************************)
(* A batch with valid articles is left with none to cluster, about to run  *)
(* into the assertion on their number, only if the server knew an article  *)
(* like its first one before the batch began, for example from the run     *)
(* before.                                                                 *)
(***************************************************************************)
NothingIsNewOnlyWhenKnown ==
    /\ main = "batch" /\ pc = "cluster"
    /\ articles # <<>> /\ processed = <<>>
    => \E k \in knownBefore \cup {<<DocId, Garbage>>} :
          Similar(k[2], ComputeSignature(ShinglesOf(articles[1])))

(***************************************************************************)
(* A batch that read_xml ended stored none of its articles, and those of   *)
(* the runs before are gone.                                               *)
(***************************************************************************)
FailedStoresNothing == main = "batch" /\ pc = "failed" => stored = {}

\* The documents of this run that the server knows.
KnownOfRun == {d \in known : d[1][1] = runs /\ d[2] # Garbage}

(***************************************************************************)
(* minhash.h:36-46 keep the least value of each position: whatever the     *)
(* hash functions, two signatures of a run agree at a position if the      *)
(* least value over the shingles of both articles is taken in each, or if  *)
(* neither has a shingle, and at no other position.                        *)
(***************************************************************************)
HaveCommonLeast(hidx, A, B) ==
    \E e \in A, f \in B :
        /\ HashVal(hidx, e) = HashVal(hidx, f)
        /\ \A g \in A \cup B : HashVal(hidx, e) <= HashVal(hidx, g)

AgreementIsCommonLeast ==
    main = "batch" =>
        \A j, k \in KnownOfRun : \A hidx \in DOMAIN Hashes :
            LET A == ShinglesOf(articles[j[1][2]])
                B == ShinglesOf(articles[k[1][2]])
            IN  j[2][hidx] = k[2][hidx] <=> A \cup B = {} \/ HaveCommonLeast(hidx, A, B)

(***************************************************************************)
(* minhash.h:27, "P(sign(A) == sign(B)) = Jacc(A, B) = (A intersect B) /   *)
(* (A U B)".  Where the hash functions rank the shingles in every way, the *)
(* probability is a count: any two signatures of a run that the server     *)
(* knows agree in the share of shingles that the two articles have in      *)
(* common, and everywhere when neither has any.                            *)
(***************************************************************************)
Agree(a, b) == {hidx \in DOMAIN Hashes : a[hidx] = b[hidx]}

AgreementIsJaccard ==
    main = "batch" =>
        \A j, k \in KnownOfRun :
            LET A == ShinglesOf(articles[j[1][2]])
                B == ShinglesOf(articles[k[1][2]])
            IN  IF A \cup B = {} THEN Agree(j[2], k[2]) = DOMAIN Hashes
                ELSE Cardinality(Agree(j[2], k[2])) * Cardinality(A \cup B)
                         = Cardinality(A \cap B) * Len(Hashes)
=============================================================================
