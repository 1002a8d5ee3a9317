------------------------------ MODULE Clustering ------------------------------
(***************************************************************************)
(* The end of the batch: BU_Clustering::create_clusters of                 *)
(* engine/src/clustering/bu_clustering.cpp over LSA, composed with         *)
(* StartupBatch, whose CreateClusters it implements.                       *)
(*                                                                         *)
(* What dlib computes is left open: which articles share a cluster decides *)
(* no state, and a document may have any rows as keywords.                 *)
(***************************************************************************)
EXTENDS StartupBatch, LSA

CONSTANT MinConcepts   \* the 50 of create_clusters and build_dist_mat

ASSUME ClusteringAssumption == MinConcepts \in Nat \ {0}

VARIABLES
    concepts_no,     \* U_.nc(), zero before run_svd
    docs_keywords    \* docs_keywords

clustering == <<lsa, concepts_no, docs_keywords>>
batch      == vars
batchRest  == <<vocabulary, file, idx, articles, parsing, store, processed, freq0>>

ClusteringInit ==
    /\ Init
    /\ InitLSA
    /\ concepts_no = 0
    /\ docs_keywords = <<>>

-----------------------------------------------------------------------------
BatchLoops ==
    /\ \/ LoadValid \/ LoadInvalid \/ LoadMalformed \/ EndOfLoad
       \/ SkipToken \/ SkipUnknownStem \/ ProcessToken \/ ProcessTokenAborts
       \/ SaveArticle \/ IsOriginal \/ IsDuplicate
    /\ UNCHANGED clustering

ArticleIds == [k \in DOMAIN processed |-> processed[k].stem_ids]

\* Mutant: the matrix is built while an answer of the server is awaited.
RunSVDEarly ==
    /\ pc \in {"dedup", "cluster"}
    /\ ~BuildAborts(ArticleIds)
    /\ BuildTermDocMatrix(ArticleIds)
    /\ concepts_no' \in ConceptsNo(Len(terms_mat_to_vocab'), Len(processed))
    /\ pc' = "svd"
    /\ UNCHANGED <<batchRest, docs_keywords>>

\* build_dist_mat calls run_svd, which builds the matrix first.
RunSVD ==
    /\ pc = "cluster"
    /\ ~BuildAborts(ArticleIds)
    /\ BuildTermDocMatrix(ArticleIds)
    /\ concepts_no' \in ConceptsNo(Len(terms_mat_to_vocab'), Len(processed))
    /\ pc' = "svd"
    /\ UNCHANGED <<batchRest, docs_keywords>>

AssertionInBuild ==
    /\ pc = "cluster"
    /\ BuildAborts(ArticleIds)
    /\ pc' = "aborted"
    /\ UNCHANGED <<batchRest, clustering>>

\* build_dist_mat takes fifty columns of each document without looking, and
\* get_terms_threshold asserts that they are there.
AssertionInThreshold ==
    /\ pc = "svd"
    /\ concepts_no < MinConcepts
    /\ pc' = "aborted"
    /\ UNCHANGED <<batchRest, clustering>>

\* get_docs_keywords answers rows, which get_word takes as stem ids.
GetDocsKeywords ==
    /\ pc = "svd"
    /\ concepts_no >= MinConcepts
    /\ docs_keywords' \in [DOMAIN processed -> Keywords]
    /\ pc' = IF \A d \in DOMAIN processed : \A k \in docs_keywords'[d] : HasWord(k)
             THEN "done" ELSE "aborted"
    /\ UNCHANGED <<batchRest, lsa, concepts_no>>

ClusteringNext ==
    \/ BatchLoops
    \/ RunSVD \/ AssertionInBuild \/ AssertionInThreshold \/ GetDocsKeywords

ClusteringSpec == ClusteringInit /\ [][ClusteringNext]_<<batch, clustering>>
-----------------------------------------------------------------------------
(***************************************************************************)
(* The batch with the details of create_clusters is a StartupBatch: the    *)
(* matrix is built once, after the last article, and nothing of the        *)
(* vocabulary or of the stored articles moves while it is.                 *)
(***************************************************************************)
Abstract ==
    INSTANCE StartupBatch WITH pc <- IF pc = "svd" THEN "cluster" ELSE pc

ImplementsStartupBatch == Abstract!Spec

ClusteringTypeOK ==
    /\ Abstract!TypeOK
    /\ terms_mat_to_vocab \in Seq(0 .. stems_no)
    /\ Len(term_doc_mat) \in {0, Len(processed)}
    /\ concepts_no \in 0 .. Len(processed)
    /\ Len(docs_keywords) \in {0, Len(processed)}

(***************************************************************************)
(* create_clusters asks for fifty concepts whatever there is, and takes    *)
(* rows for stem ids.  The assertions of get_terms_threshold and get_word  *)
(* still hold unless there were too few articles or terms, the stems left  *)
(* no counter behind the last one's, or that counter held what made it a   *)
(* row.                                                                    *)
(***************************************************************************)
AbortsOnlyWhenFew ==
    pc = "aborted" =>
        \/ Len(processed) < MinConcepts
        \/ Len(terms_mat_to_vocab) < MinConcepts
        \/ stems_no >= MaxStemsNo
        \/ freq0[stems_no] \in TfThreshold + 1 .. MaxFreq - 1
=============================================================================
