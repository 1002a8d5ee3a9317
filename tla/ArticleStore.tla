----------------------------- MODULE ArticleStore -----------------------------
(***************************************************************************)
(* The database: engine/src/common/mongodb.cpp, the helpers of             *)
(* mongodb_helper.h and mongodb_helper.cpp, and the conversions of         *)
(* bson_builder.cpp.  One process writes the three collections and may die *)
(* between any two operations; what a reader would find is an operator of  *)
(* the state.                                                              *)
(*                                                                         *)
(* A collection is the sequence of its documents, a document a record of   *)
(* its fields.  A value carries its BSON type where a reader asks for one. *)
(* The fields that to_bson copies and from_bson copies back are one field, *)
(* title, and date, which operator== leaves out.                           *)
(***************************************************************************)
EXTENDS Integers, Sequences, FiniteSets

CONSTANTS
    Stems,
    Titles,
    Articles,        \* the ProcessedArticles there may be
    Urls,
    Half,            \* half the values of an int32_t, 2 ^ 31
    MaxIds,          \* bound on the documents ever inserted
    Undefined        \* what undefined behaviour gives

Int32 == -Half .. Half - 1

\* The text of an object id; that of an article without an id is empty.
OidText(oid) == <<"text", oid[2]>>
NoText == <<>>
Texts == {NoText} \cup ({"text"} \X Nat)

ASSUME StoreAssumption ==
    /\ Half \in Nat \ {0}
    /\ Articles \subseteq
           [id : Texts, title : Titles, date : Nat, signature : Seq(Int32),
            stem_ids : Seq(Nat), unknown_tokens_no : Nat, tokens_no : Nat,
            ids_tokens_map : SUBSET (Nat \X Nat)]
    /\ MaxIds \in Nat

VARIABLES
    vocabularies,    \* collection "vocabulary"
    articles,        \* collection "articles"
    invalid_urls,    \* collection "invalid_urls"
    pc,              \* "idle", or "dropped" inside save_vocabulary
    vocab,           \* the writer's vocabulary: its stems and its counters
    ids,             \* how many object ids were generated
    memory,          \* history: each article saved, and the id save_doc returned
    lastSaved        \* history: the stems inserted last

vars == <<vocabularies, articles, invalid_urls, pc, vocab, ids, memory, lastSaved>>

NewVocab == [stems |-> {}, freq |-> 0]

-----------------------------------------------------------------------------
\* bson_builder.cpp.

Typed(type, values) == [i \in DOMAIN values |-> <<type, values[i]>>]

VocabularyToBson(v, only_freq) ==
    IF only_freq THEN [stems_freq |-> v.freq]
    ELSE [stems |-> v.stems, stems_freq |-> v.freq]

\* The constructor's words and the counters are not read back.
VocabularyFromBson(doc, v) == [v EXCEPT !.stems = @ \cup doc.stems]

\* A signature goes in as int64; a stem id as what it is, an int32.  The id, the
\* number of tokens and the map do not go in.
ArticleToBson(article) ==
    [title |-> article.title, date |-> article.date,
     unknown_tokens_no |-> article.unknown_tokens_no,
     signature |-> Typed("int64", article.signature),
     stem_ids |-> Typed("int32", article.stem_ids)]

UInt32(x) == x % (2 * Half)

\* Mutant: the signature is read as it was cast.
AsRead(x) == UInt32(x)

\* (uint32_t) of the int64, assigned to an int32_t.
AsInt32(x) ==
    IF UInt32(x) < Half THEN UInt32(x) ELSE UInt32(x) - 2 * Half

SignatureFromBson(doc) == [i \in DOMAIN doc.signature |-> AsInt32(doc.signature[i][2])]

\* The article read, or none: get_double throws on a value of another type.
\* The id is that of the document; what is not read stays as a new article has it.
ArticleFromBson(entry) ==
    LET doc == entry.doc
    IN  {[id |-> OidText(entry._id), title |-> doc.title, date |-> doc.date,
          signature |-> SignatureFromBson(doc),
          stem_ids |-> [i \in DOMAIN doc.stem_ids |-> doc.stem_ids[i][2]],
          unknown_tokens_no |-> 0, tokens_no |-> 0, ids_tokens_map |-> {}] :
            d \in {t \in {"double"} : \A i \in DOMAIN doc.stem_ids : doc.stem_ids[i][1] = t}}

-----------------------------------------------------------------------------
\* Mutant: a document has the id of the one before it.
SaveDocOldId(collection, doc) ==
    Append(collection, [_id |-> <<"oid", ids>>, doc |-> doc])

\* mongodb.cpp: insert_one has the server generate an ObjectId.
SaveDoc(collection, doc) ==
    Append(collection, [_id |-> <<"oid", ids + 1>>, doc |-> doc])

\* update_one changes the first document that has the key with the value; no
\* document has a field without a name.
UpdateDoc(collection, doc, key, value) ==
    LET matches == {k \in DOMAIN collection : key \in DOMAIN collection[k].doc
                                           /\ collection[k].doc[key] = value}
        first == CHOOSE k \in matches : \A j \in matches : k <= j
    IN  IF matches = {} THEN collection
        ELSE [collection EXCEPT ![first].doc =
                 [f \in DOMAIN @ \cup DOMAIN doc |-> IF f \in DOMAIN doc THEN doc[f] ELSE @[f]]]

Init ==
    /\ vocabularies = <<>> /\ articles = <<>> /\ invalid_urls = <<>>
    /\ pc = "idle"
    /\ vocab = NewVocab
    /\ ids = 0
    /\ memory = <<>>
    /\ lastSaved = Undefined

\* save_article; save_doc returns the text of the new id.
SaveArticle(article) ==
    /\ pc = "idle" /\ ids < MaxIds
    /\ articles' = SaveDoc(articles, ArticleToBson(article))
    /\ ids' = ids + 1
    /\ memory' = Append(memory, [id |-> OidText(<<"oid", ids'>>), article |-> article])
    /\ UNCHANGED <<vocabularies, invalid_urls, pc, vocab, lastSaved>>

\* Mutant: the name of the collection is misspelt.
DropMisspelt ==
    /\ pc = "idle"
    /\ memory' = <<>>
    /\ UNCHANGED <<vocabularies, articles, invalid_urls, pc, vocab, ids, lastSaved>>

\* drop_collection("articles"), as startup.cpp does.
DropArticles ==
    /\ pc = "idle"
    /\ articles' = <<>>
    /\ memory' = <<>>
    /\ UNCHANGED <<vocabularies, invalid_urls, pc, vocab, ids, lastSaved>>

SaveInvalidUrl(url) ==
    /\ pc = "idle" /\ ids < MaxIds
    /\ invalid_urls' = SaveDoc(invalid_urls, [url |-> url])
    /\ ids' = ids + 1
    /\ UNCHANGED <<vocabularies, articles, pc, vocab, memory, lastSaved>>

\* Mutant: save_vocabulary does not drop the collection.
DropNothing ==
    /\ pc = "idle" /\ ids < MaxIds
    /\ pc' = "dropped"
    /\ UNCHANGED <<vocabularies, articles, invalid_urls, vocab, ids, memory, lastSaved>>

\* The two halves of save_vocabulary.
DropVocabulary ==
    /\ pc = "idle" /\ ids < MaxIds
    /\ vocabularies' = <<>>
    /\ pc' = "dropped"
    /\ UNCHANGED <<articles, invalid_urls, vocab, ids, memory, lastSaved>>

InsertVocabulary ==
    /\ pc = "dropped"
    /\ vocabularies' = SaveDoc(vocabularies, VocabularyToBson(vocab, FALSE))
    /\ ids' = ids + 1
    /\ pc' = "idle"
    /\ lastSaved' = vocab.stems
    /\ UNCHANGED <<articles, invalid_urls, vocab, memory>>

\* update_vocab_freq: the key and the value of update_doc are left empty.
UpdateVocabFreq ==
    /\ pc = "idle"
    /\ vocabularies' = UpdateDoc(vocabularies, VocabularyToBson(vocab, TRUE), "", "")
    /\ UNCHANGED <<articles, invalid_urls, pc, vocab, ids, memory, lastSaved>>

\* add_stems and increase_stem_freq, between the calls of the store.
LearnStem(stem) ==
    /\ pc = "idle" /\ stem \notin vocab.stems
    /\ vocab' = [stems |-> vocab.stems \cup {stem}, freq |-> vocab.freq + 1]
    /\ UNCHANGED <<vocabularies, articles, invalid_urls, pc, ids, memory, lastSaved>>

\* The writer dies, and another starts.
Crash ==
    /\ vocab' = NewVocab
    /\ pc' = "idle"
    /\ UNCHANGED <<vocabularies, articles, invalid_urls, ids, memory, lastSaved>>

Next ==
    \/ \E article \in Articles : SaveArticle(article)
    \/ DropArticles
    \/ \E url \in Urls : SaveInvalidUrl(url)
    \/ DropVocabulary \/ InsertVocabulary \/ UpdateVocabFreq
    \/ \E stem \in Stems : LearnStem(stem)
    \/ Crash

Spec == Init /\ [][Next]_vars
-----------------------------------------------------------------------------
\* What a reader gets.

\* load_vocabulary into a new Vocabulary: *begin() of a cursor that may be at
\* its end.
LoadVocabulary ==
    IF vocabularies = <<>> THEN Undefined
    ELSE VocabularyFromBson(vocabularies[1].doc, NewVocab).stems

LoadArticlesSignatures ==
    [k \in DOMAIN articles |->
        <<OidText(articles[k]._id), SignatureFromBson(articles[k].doc)>>]

\* The load_articles of test_mongodb.cpp.
LoadArticles == [k \in DOMAIN articles |-> ArticleFromBson(articles[k])]

-----------------------------------------------------------------------------
TypeOK ==
    /\ ids \in 0 .. MaxIds
    /\ \A k \in DOMAIN articles : articles[k]._id \in {"oid"} \X (1 .. ids)
    /\ \A k \in DOMAIN vocabularies : vocabularies[k].doc.stems \subseteq Stems
    /\ \A k \in DOMAIN invalid_urls : invalid_urls[k].doc.url \in Urls
    /\ pc \in {"idle", "dropped"}
    /\ vocab \in [stems : SUBSET Stems, freq : Nat]
    /\ memory \in Seq([id : Texts, article : Articles])
    /\ lastSaved \in (SUBSET Stems) \cup {Undefined}

(***************************************************************************)
(* Through the int64 of the document and the unsigned cast of the reader,  *)
(* load_articles_signatures gives the signatures as they were saved, the   *)
(* negative ones too, each under the id its save_article returned.         *)
(***************************************************************************)
SignaturesReadBack ==
    LoadArticlesSignatures =
        [k \in DOMAIN memory |-> <<memory[k].id, memory[k].article.signature>>]

(***************************************************************************)
(* load_vocabulary gives the vocabulary saved last, through any crash; or  *)
(* it has no document to read, because none was saved or because a         *)
(* save_vocabulary is, or died, between its drop and its insertion.        *)
(***************************************************************************)
LoadsLastSaved == LoadVocabulary \in {lastSaved, Undefined}

\* What from_bson leaves of an article it can read.
Remembered(m) ==
    LET a == m.article
    IN  [id |-> m.id, title |-> a.title, date |-> a.date, signature |-> a.signature,
         stem_ids |-> a.stem_ids, unknown_tokens_no |-> 0, tokens_no |-> 0,
         ids_tokens_map |-> {}]

(***************************************************************************)
(* Articles without stem ids come back in their order with the id of their *)
(* document, their texts, date and signature; their counts and their map   *)
(* do not.  Reading one with stem ids throws.                              *)
(***************************************************************************)
ArticlesReadBack ==
    LoadArticles = [k \in DOMAIN memory |->
        IF memory[k].article.stem_ids = <<>> THEN {Remembered(memory[k])} ELSE {}]

\* ProcessedArticle's operator==, and ArticleMetaData's, which leaves the date out.
SameArticle(a, b) ==
    a.id = b.id /\ a.title = b.title /\ a.signature = b.signature /\ a.stem_ids = b.stem_ids

(***************************************************************************)
(* test_mongodb.cpp:106, "BOOST_REQUIRE_EQUAL(articles_db,                 *)
(* processed_articles)": what load_articles reads equals what was saved.   *)
(***************************************************************************)
ArticlesReadBackEqual ==
    \A k \in DOMAIN memory : \E a \in LoadArticles[k] : SameArticle(a, memory[k].article)
=============================================================================
