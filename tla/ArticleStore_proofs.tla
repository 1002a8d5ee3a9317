-------------------------- MODULE ArticleStore_proofs --------------------------
(***************************************************************************)
(* What the readers of the database get, for integers of any width, any    *)
(* articles and vocabularies, and a writer that dies at any point.         *)
(***************************************************************************)
EXTENDS ArticleStore, SequenceTheorems, TLAPS

\* The cast to unsigned and back is the identity on the values of an int32_t.
LEMMA AsInt32Inverts == ASSUME NEW x \in Int32 PROVE AsInt32(x) = x
<1>1. Half \in Nat \ {0}
  BY StoreAssumption
<1>2. CASE x \in 0 .. Half - 1
  <2>1. x % (2 * Half) = x
    BY <1>1, <1>2
  <2> QED BY <1>1, <1>2, <2>1 DEF AsInt32, UInt32
<1>3. CASE x \in -Half .. -1
  <2>1. ASSUME NEW M \in Nat \ {0}, NEW y \in -M .. -1 PROVE y % M = y + M
    OBVIOUS
  <2>2. 2 * Half \in Nat \ {0} /\ x \in -(2 * Half) .. -1
    BY <1>1, <1>3
  <2>3. x % (2 * Half) = x + 2 * Half
    BY <2>1, <2>2
  <2> QED BY <1>1, <1>3, <2>3 DEF AsInt32, UInt32
<1> QED BY <1>1, <1>2, <1>3 DEF Int32

LEMMA SignatureReadsBack ==
    ASSUME NEW a \in Articles
    PROVE  SignatureFromBson(ArticleToBson(a)) = a.signature
<1>1. a.signature \in [1 .. Len(a.signature) -> Int32]
  BY StoreAssumption, LenProperties
<1> DEFINE written == Typed("int64", a.signature)
<1>2. /\ DOMAIN written = DOMAIN a.signature
      /\ \A i \in DOMAIN a.signature : written[i][2] = a.signature[i]
  BY DEF Typed
<1>3. ArticleToBson(a).signature = written
  BY DEF ArticleToBson
<1> HIDE DEF written
<1>4. SignatureFromBson(ArticleToBson(a)) =
          [i \in DOMAIN a.signature |-> AsInt32(a.signature[i])]
  BY <1>2, <1>3 DEF SignatureFromBson
<1>5. \A i \in DOMAIN a.signature : AsInt32(a.signature[i]) = a.signature[i]
  BY <1>1, AsInt32Inverts
<1> QED BY <1>1, <1>4, <1>5

\* What from_bson leaves of an article it read from a document.
LEMMA ArticleReadsBack ==
    ASSUME NEW a \in Articles, NEW entry, entry.doc = ArticleToBson(a)
    PROVE  ArticleFromBson(entry) =
               IF a.stem_ids = <<>>
               THEN {Remembered([id |-> OidText(entry._id), article |-> a])}
               ELSE {}
<1>1. /\ a \in [id : Texts, title : Titles, date : Nat, signature : Seq(Int32),
                stem_ids : Seq(Nat), unknown_tokens_no : Nat, tokens_no : Nat,
                ids_tokens_map : SUBSET (Nat \X Nat)]
      /\ DOMAIN a.stem_ids = 1 .. Len(a.stem_ids) /\ Len(a.stem_ids) \in Nat
  BY StoreAssumption, LenProperties
<1> DEFINE doc == entry.doc
           ids_ == Typed("int32", a.stem_ids)
           read == [id |-> OidText(entry._id), title |-> doc.title, date |-> doc.date,
                    signature |-> SignatureFromBson(doc),
                    stem_ids |-> [i \in DOMAIN doc.stem_ids |-> doc.stem_ids[i][2]],
                    unknown_tokens_no |-> 0, tokens_no |-> 0, ids_tokens_map |-> {}]
           kept == Remembered([id |-> OidText(entry._id), article |-> a])
           types == {t \in {"double"} : \A i \in DOMAIN doc.stem_ids : doc.stem_ids[i][1] = t}
<1>2. doc.title = a.title /\ doc.date = a.date /\ doc.stem_ids = ids_
  BY DEF ArticleToBson
<1>3. DOMAIN ids_ = DOMAIN a.stem_ids /\ \A i \in DOMAIN a.stem_ids : ids_[i][1] = "int32"
  BY DEF Typed
<1>4. SignatureFromBson(doc) = a.signature
  BY SignatureReadsBack
<1>5. ArticleFromBson(entry) = {read : d \in types}
  BY DEF ArticleFromBson
<1>8. kept = [id |-> OidText(entry._id), title |-> a.title, date |-> a.date,
              signature |-> a.signature, stem_ids |-> a.stem_ids,
              unknown_tokens_no |-> 0, tokens_no |-> 0, ids_tokens_map |-> {}]
  BY DEF Remembered
<1>6. CASE a.stem_ids = <<>>
  <2>1. DOMAIN doc.stem_ids = {}
    BY <1>2, <1>3, <1>6
  <2>2. types = {"double"}
    BY <2>1
  <2>3. read.stem_ids = <<>>
    BY <2>1
  <2>4. read = kept
    BY <1>2, <1>4, <1>6, <1>8, <2>3
  <2> HIDE DEF read, types, kept
  <2>5. ArticleFromBson(entry) = {kept}
    BY <1>5, <2>2, <2>4
  <2> QED BY <1>6, <2>5 DEF kept
<1>7. CASE a.stem_ids # <<>>
  <2>1. 1 \in DOMAIN a.stem_ids
    BY <1>1, <1>7, EmptySeq
  <2>2. types = {}
    BY <1>2, <1>3, <2>1
  <2> HIDE DEF read, types
  <2> QED BY <1>5, <1>7, <2>2
<1> QED BY <1>6, <1>7

-----------------------------------------------------------------------------
(***************************************************************************)
(* The collection of articles is what was saved, written as documents; the *)
(* collection of vocabularies has the one saved last, or nothing.          *)
(***************************************************************************)
Oids == {"oid"} \X (1 .. ids)

Memories == [id : Texts, article : Articles]

ArticlesInv ==
    /\ ids \in 0 .. MaxIds
    /\ pc = "dropped" => ids < MaxIds
    /\ memory \in Seq(Memories)
    /\ articles \in Seq([_id : Oids, doc : {ArticleToBson(a) : a \in Articles}])
    /\ Len(articles) = Len(memory)
    /\ \A k \in 1 .. Len(memory) :
           /\ articles[k].doc = ArticleToBson(memory[k].article)
           /\ memory[k].id = OidText(articles[k]._id)
    /\ invalid_urls \in Seq([_id : Oids, doc : [url : Urls]])

VocabulariesInv ==
    /\ pc \in {"idle", "dropped"}
    /\ vocab \in [stems : SUBSET Stems, freq : Nat]
    /\ lastSaved \in (SUBSET Stems) \cup {Undefined}
    /\ pc = "dropped" => vocabularies = <<>>
    /\ vocabularies # <<>> =>
          /\ lastSaved \in SUBSET Stems
          /\ \E oid \in Oids, freq \in Nat :
                vocabularies =
                    <<[_id |-> oid, doc |-> [stems |-> lastSaved, stems_freq |-> freq]]>>

StoreInv == ArticlesInv /\ VocabulariesInv

LEMMA InitStore == Init => StoreInv
<1> SUFFICES ASSUME Init PROVE StoreInv
  OBVIOUS
<1>1. \A S : <<>> \in Seq(S)
  BY EmptySeq
<1>2. Len(<<>>) = 0
  BY EmptySeq
<1> QED BY <1>1, <1>2, StoreAssumption
        DEF Init, NewVocab, StoreInv, ArticlesInv, VocabulariesInv

LEMMA SeqElements == ASSUME NEW S, NEW q \in Seq(S), NEW k \in DOMAIN q PROVE q[k] \in S
BY LenProperties

\* More object ids do not change the type of what was stored before.
LEMMA NextId ==
    ASSUME ArticlesInv, ids < MaxIds, ids' = ids + 1
    PROVE  /\ ids' \in 0 .. MaxIds /\ Oids \subseteq Oids' /\ <<"oid", ids + 1>> \in Oids'
           /\ articles \in Seq([_id : Oids', doc : {ArticleToBson(a) : a \in Articles}])
           /\ invalid_urls \in Seq([_id : Oids', doc : [url : Urls]])
<1>1. ids' \in 0 .. MaxIds /\ 1 .. ids \subseteq 1 .. ids' /\ ids + 1 \in 1 .. ids'
  BY StoreAssumption DEF ArticlesInv
<1>2. Oids \subseteq Oids' /\ <<"oid", ids + 1>> \in Oids'
  BY <1>1 DEF Oids
<1>3. \A D : [_id : Oids, doc : D] \subseteq [_id : Oids', doc : D]
  BY <1>2
<1> QED BY <1>1, <1>2, <1>3, SeqMonotonic DEF ArticlesInv

LEMMA NextArticles == ASSUME ArticlesInv, [Next]_vars PROVE ArticlesInv'
<1>1. ASSUME NEW article \in Articles, SaveArticle(article)
      PROVE  ArticlesInv'
  <2> DEFINE Entries == [_id : Oids', doc : {ArticleToBson(a) : a \in Articles}]
             new == [_id |-> <<"oid", ids + 1>>, doc |-> ArticleToBson(article)]
             m == [id |-> OidText(<<"oid", ids + 1>>), article |-> article]
  <2>1. /\ ids < MaxIds /\ ids' = ids + 1 /\ memory' = Append(memory, m)
        /\ articles' = Append(articles, new) /\ UNCHANGED <<invalid_urls, pc>> /\ pc = "idle"
    BY <1>1 DEF SaveArticle, SaveDoc
  <2>2. articles \in Seq(Entries) /\ new \in Entries /\ memory \in Seq(Memories)
    BY <2>1, NextId DEF ArticlesInv
  <2>7. m \in Memories
    <3>1. ids + 1 \in Nat
      BY DEF ArticlesInv
    <3>2. OidText(<<"oid", ids + 1>>) \in Texts
      BY <3>1 DEF OidText, Texts
    <3> QED BY <3>2 DEF Memories
  <2>3. /\ articles' \in Seq(Entries) /\ memory' \in Seq(Memories)
        /\ Len(articles') = Len(articles) + 1 /\ Len(memory') = Len(memory) + 1
        /\ \A k \in 1 .. Len(articles) : articles'[k] = articles[k]
        /\ \A k \in 1 .. Len(memory) : memory'[k] = memory[k]
        /\ articles'[Len(articles) + 1] = new /\ memory'[Len(memory) + 1] = m
    <3> HIDE DEF Entries, new, m
    <3> QED BY <2>1, <2>2, <2>7, AppendProperties
  <2>4. Len(memory) \in Nat /\ Len(articles) = Len(memory)
    BY LenProperties DEF ArticlesInv
  <2>5. new.doc = ArticleToBson(m.article) /\ m.id = OidText(new._id)
    OBVIOUS
  <2> HIDE DEF new, m
  <2>6. \A k \in 1 .. Len(memory') : /\ articles'[k].doc = ArticleToBson(memory'[k].article)
                                     /\ memory'[k].id = OidText(articles'[k]._id)
    <3> SUFFICES ASSUME NEW k \in 1 .. Len(memory) + 1
                 PROVE  /\ articles'[k].doc = ArticleToBson(memory'[k].article)
                        /\ memory'[k].id = OidText(articles'[k]._id)
      BY <2>3
    <3>1. CASE k \in 1 .. Len(memory)
      BY <2>3, <2>4, <3>1 DEF ArticlesInv
    <3>2. CASE k = Len(memory) + 1
      BY <2>3, <2>4, <2>5, <3>2
    <3> QED BY <2>4, <3>1, <3>2
  <2> QED BY <2>1, <2>3, <2>4, <2>6, NextId DEF ArticlesInv
<1>2. ASSUME NEW url \in Urls, SaveInvalidUrl(url)
      PROVE  ArticlesInv'
  <2> DEFINE Entries == [_id : Oids', doc : [url : Urls]]
             new == [_id |-> <<"oid", ids + 1>>, doc |-> [url |-> url]]
  <2>1. /\ ids < MaxIds /\ ids' = ids + 1 /\ UNCHANGED <<articles, memory, pc>> /\ pc = "idle"
        /\ invalid_urls' = Append(invalid_urls, new)
    BY <1>2 DEF SaveInvalidUrl, SaveDoc
  <2>2. invalid_urls \in Seq(Entries) /\ new \in Entries
    BY <2>1, NextId
  <2>3. invalid_urls' \in Seq(Entries)
    BY <2>1, <2>2, AppendProperties
  <2> QED BY <2>1, <2>3, NextId DEF ArticlesInv
<1>3. CASE DropArticles
  <2>1. /\ articles' = <<>> /\ memory' = <<>> /\ UNCHANGED <<ids, pc, invalid_urls>>
        /\ Oids' = Oids
    BY <1>3 DEF DropArticles, Oids
  <2>2. (\A S : <<>> \in Seq(S)) /\ Len(<<>>) = 0
    BY EmptySeq
  <2> QED BY <2>1, <2>2 DEF ArticlesInv
<1>4. CASE InsertVocabulary
  <2>1. /\ pc = "dropped" /\ pc' = "idle" /\ ids' = ids + 1
        /\ UNCHANGED <<articles, invalid_urls, memory>>
    BY <1>4 DEF InsertVocabulary
  <2>2. ids < MaxIds
    BY <2>1 DEF ArticlesInv
  <2> QED BY <2>1, <2>2, NextId DEF ArticlesInv
<1>5. CASE DropVocabulary \/ UpdateVocabFreq \/ (\E stem \in Stems : LearnStem(stem)) \/ Crash
           \/ UNCHANGED vars
  BY <1>5 DEF DropVocabulary, UpdateVocabFreq, LearnStem, Crash, vars, ArticlesInv, Oids
<1> QED BY <1>1, <1>2, <1>3, <1>4, <1>5 DEF Next

LEMMA NextVocabularies ==
    ASSUME ArticlesInv, VocabulariesInv, [Next]_vars
    PROVE  VocabulariesInv'
<1>1. CASE \E article \in Articles : SaveArticle(article)
  <2>1. /\ ids < MaxIds /\ ids' = ids + 1 /\ UNCHANGED <<vocabularies, pc, vocab, lastSaved>>
    BY <1>1 DEF SaveArticle
  <2>2. Oids \subseteq Oids'
    BY <2>1, NextId
  <2> QED BY <2>1, <2>2 DEF VocabulariesInv
<1>2. CASE \E url \in Urls : SaveInvalidUrl(url)
  <2>1. /\ ids < MaxIds /\ ids' = ids + 1 /\ UNCHANGED <<vocabularies, pc, vocab, lastSaved>>
    BY <1>2 DEF SaveInvalidUrl
  <2>2. Oids \subseteq Oids'
    BY <2>1, NextId
  <2> QED BY <2>1, <2>2 DEF VocabulariesInv
<1>3. CASE DropArticles
  BY <1>3 DEF DropArticles, VocabulariesInv, Oids
<1>4. CASE DropVocabulary
  BY <1>4 DEF DropVocabulary, VocabulariesInv
<1>5. CASE InsertVocabulary
  <2> DEFINE doc == [stems |-> vocab.stems, stems_freq |-> vocab.freq]
  <2>1. /\ pc = "dropped" /\ pc' = "idle" /\ ids' = ids + 1 /\ vocab' = vocab
        /\ lastSaved' = vocab.stems
        /\ vocabularies' = Append(vocabularies, [_id |-> <<"oid", ids + 1>>, doc |-> doc])
    BY <1>5 DEF InsertVocabulary, SaveDoc, VocabularyToBson
  <2>2. vocab.stems \in SUBSET Stems /\ vocab.freq \in Nat
    BY DEF VocabulariesInv
  <2>3. vocabularies = <<>>
    BY <2>1 DEF VocabulariesInv
  <2>4. \A e : Append(<<>>, e) = <<e>>
    OBVIOUS
  <2>5. <<"oid", ids + 1>> \in Oids'
    BY <2>1, NextId DEF ArticlesInv
  <2> QED BY <2>1, <2>2, <2>3, <2>4, <2>5 DEF VocabulariesInv
\* No document has a field without a name: update_vocab_freq finds none.
<1>6. CASE UpdateVocabFreq
  <2>1. /\ vocabularies' = UpdateDoc(vocabularies, VocabularyToBson(vocab, TRUE), "", "")
        /\ UNCHANGED <<pc, vocab, ids, lastSaved>> /\ pc = "idle"
    BY <1>6 DEF UpdateVocabFreq
  <2>2. ASSUME NEW k \in DOMAIN vocabularies
        PROVE  DOMAIN vocabularies[k].doc = {"stems", "stems_freq"}
    BY SMTT(40) DEF VocabulariesInv
  <2>3. "" \notin {"stems", "stems_freq"}
    BY Zenon
  <2>4. ASSUME NEW key, key \notin {"stems", "stems_freq"}, NEW doc
        PROVE  UpdateDoc(vocabularies, doc, key, key) = vocabularies
    BY <2>2, <2>4, Zenon DEF UpdateDoc
  <2>5. UpdateDoc(vocabularies, VocabularyToBson(vocab, TRUE), "", "") = vocabularies
    BY <2>3, <2>4, Zenon
  <2>6. vocabularies' = vocabularies
    BY <2>1, <2>5, Zenon
  <2>7. UNCHANGED <<pc, vocab, ids, lastSaved>>
    BY <2>1, Zenon
  <2> QED BY <2>6, <2>7 DEF VocabulariesInv, Oids
<1>7. CASE \E stem \in Stems : LearnStem(stem)
  <2>1. PICK stem \in Stems : LearnStem(stem)
    BY <1>7
  <2>2. /\ vocab' = [stems |-> vocab.stems \cup {stem}, freq |-> vocab.freq + 1]
        /\ UNCHANGED <<vocabularies, pc, ids, lastSaved>>
    BY <2>1 DEF LearnStem
  <2>3. vocab' \in [stems : SUBSET Stems, freq : Nat]
    BY <2>2 DEF VocabulariesInv
  <2> QED BY <2>2, <2>3 DEF VocabulariesInv, Oids
<1>8. CASE Crash
  BY <1>8 DEF Crash, NewVocab, VocabulariesInv, Oids
<1>9. CASE UNCHANGED vars
  BY <1>9 DEF vars, VocabulariesInv, Oids
<1> QED BY <1>1, <1>2, <1>3, <1>4, <1>5, <1>6, <1>7, <1>8, <1>9 DEF Next

LEMMA StoreInvHolds == Spec => []StoreInv
<1>1. StoreInv /\ [Next]_vars => StoreInv'
  BY NextArticles, NextVocabularies DEF StoreInv
<1> QED BY <1>1, InitStore, PTL DEF Spec

\* Every article of the collection is what was saved, under the id returned.
LEMMA SavedArticles ==
    ASSUME StoreInv
    PROVE  /\ DOMAIN articles = DOMAIN memory
           /\ \A k \in DOMAIN memory : /\ articles[k].doc = ArticleToBson(memory[k].article)
                                       /\ memory[k].id = OidText(articles[k]._id)
                                       /\ memory[k].article \in Articles
                                       /\ memory[k] = [id |-> memory[k].id,
                                                       article |-> memory[k].article]
<1> DEFINE Entries == [_id : Oids, doc : {ArticleToBson(a) : a \in Articles}]
<1>1. articles \in Seq(Entries) /\ memory \in Seq(Memories) /\ Len(articles) = Len(memory)
  BY DEF StoreInv, ArticlesInv
<1> HIDE DEF Entries
<1>2. DOMAIN articles = DOMAIN memory /\ DOMAIN memory = 1 .. Len(memory)
  BY <1>1, LenProperties
<1>3. \A k \in DOMAIN memory : memory[k] \in Memories
  BY <1>1, SeqElements
<1>4. \A m \in Memories : m.article \in Articles /\ m = [id |-> m.id, article |-> m.article]
  BY DEF Memories
<1>5. \A k \in DOMAIN memory : /\ articles[k].doc = ArticleToBson(memory[k].article)
                               /\ memory[k].id = OidText(articles[k]._id)
  BY <1>2 DEF StoreInv, ArticlesInv
<1> QED BY <1>2, <1>3, <1>4, <1>5

-----------------------------------------------------------------------------
\* Types, and that every document has an object id the store has generated.
THEOREM Typing == Spec => []TypeOK
<1>1. StoreInv => TypeOK
  <2> SUFFICES ASSUME StoreInv PROVE TypeOK
    OBVIOUS
  <2> DEFINE docs == {ArticleToBson(a) : a \in Articles}
  <2>1. ASSUME NEW k \in DOMAIN articles PROVE articles[k]._id \in Oids
    <3>1. articles[k] \in [_id : Oids, doc : docs]
      BY SeqElements DEF StoreInv, ArticlesInv
    <3> HIDE DEF docs
    <3> QED BY <3>1
  <2> HIDE DEF docs
  <2>2. ASSUME NEW k \in DOMAIN invalid_urls PROVE invalid_urls[k].doc.url \in Urls
    <3>1. invalid_urls[k] \in [_id : Oids, doc : [url : Urls]]
      BY SeqElements DEF StoreInv, ArticlesInv
    <3> QED BY <3>1
  <2>3. \A k \in DOMAIN vocabularies : vocabularies[k].doc.stems \subseteq Stems
    BY DEF StoreInv, VocabulariesInv
  <2>4. /\ ids \in 0 .. MaxIds /\ memory \in Seq([id : Texts, article : Articles])
        /\ pc \in {"idle", "dropped"} /\ vocab \in [stems : SUBSET Stems, freq : Nat]
        /\ lastSaved \in (SUBSET Stems) \cup {Undefined}
    BY Zenon DEF StoreInv, ArticlesInv, VocabulariesInv, Memories
  <2> QED BY <2>1, <2>2, <2>3, <2>4, Zenon DEF TypeOK, Oids
<1> QED BY <1>1, StoreInvHolds, PTL

\* Whatever its width, a signature comes back from the database as it was, under
\* the id its save_article returned.
THEOREM SignaturesSurvive == Spec => []SignaturesReadBack
<1>1. StoreInv => SignaturesReadBack
  <2> SUFFICES ASSUME StoreInv PROVE SignaturesReadBack
    OBVIOUS
  <2>1. /\ DOMAIN articles = DOMAIN memory
        /\ \A k \in DOMAIN memory : /\ articles[k].doc = ArticleToBson(memory[k].article)
                                    /\ memory[k].id = OidText(articles[k]._id)
                                    /\ memory[k].article \in Articles
    BY SavedArticles
  <2>2. \A k \in DOMAIN memory :
            SignatureFromBson(articles[k].doc) = memory[k].article.signature
    BY <2>1, SignatureReadsBack
  <2> QED BY <2>1, <2>2 DEF SignaturesReadBack, LoadArticlesSignatures
<1> QED BY <1>1, StoreInvHolds, PTL

\* A reader gets the vocabulary saved last, or finds no document: never an
\* older one, nor a part of one.
THEOREM VocabularySurvives == Spec => []LoadsLastSaved
<1>1. StoreInv => LoadsLastSaved
  <2> SUFFICES ASSUME StoreInv, vocabularies # <<>> PROVE LoadVocabulary = lastSaved
    BY DEF LoadsLastSaved, LoadVocabulary
  <2>1. vocabularies[1].doc.stems = lastSaved
    BY DEF StoreInv, VocabulariesInv
  <2> QED BY <2>1 DEF LoadVocabulary, VocabularyFromBson, NewVocab
<1> QED BY <1>1, StoreInvHolds, PTL

\* An article without stem ids comes back with the id of its document and without
\* its counts and its map; one with stem ids does not come back.
THEOREM ArticlesSurvive == Spec => []ArticlesReadBack
<1>1. StoreInv => ArticlesReadBack
  <2> SUFFICES ASSUME StoreInv PROVE ArticlesReadBack
    OBVIOUS
  <2>1. /\ DOMAIN articles = DOMAIN memory
        /\ \A k \in DOMAIN memory : /\ articles[k].doc = ArticleToBson(memory[k].article)
                                    /\ memory[k].id = OidText(articles[k]._id)
                                    /\ memory[k].article \in Articles
                                    /\ memory[k] = [id |-> memory[k].id,
                                                    article |-> memory[k].article]
    BY SavedArticles
  <2>2. ASSUME NEW k \in DOMAIN memory
        PROVE  ArticleFromBson(articles[k]) =
                   IF memory[k].article.stem_ids = <<>> THEN {Remembered(memory[k])} ELSE {}
    <3>1. ArticleFromBson(articles[k]) =
              IF memory[k].article.stem_ids = <<>>
              THEN {Remembered([id |-> OidText(articles[k]._id),
                                article |-> memory[k].article])}
              ELSE {}
      BY <2>1, ArticleReadsBack
    <3>2. [id |-> OidText(articles[k]._id), article |-> memory[k].article] = memory[k]
      BY <2>1
    <3> QED BY <3>1, <3>2
  <2> QED BY <2>1, <2>2 DEF ArticlesReadBack, LoadArticles
<1> QED BY <1>1, StoreInvHolds, PTL
=============================================================================
