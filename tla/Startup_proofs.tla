---------------------------- MODULE Startup_proofs ----------------------------
(***************************************************************************)
(* startup.cpp, for any articles, any vocabulary and whatever the counters *)
(* hold at first, in three parts.                                          *)
(*                                                                         *)
(* 1. StartupBatch: each counter grows by the articles its stem was met    *)
(*    in, the tokens are kept by stem, and the stem ids an article stores  *)
(*    decode to its stems.                                                 *)
(* 2. Clustering: with the steps of create_clusters the batch is still a   *)
(*    StartupBatch, and its assertions fail only for the reasons given.    *)
(* 3. Startup: what each run of main leaves in the database and learns     *)
(*    from the server, run, failed and killed as often as there are runs,  *)
(*    and what two of its signatures have in common.                       *)
(***************************************************************************)
EXTENDS Clustering, Startup, ArticleParser_proofs

(***************************************************************************)
(* Part 1: StartupBatch.                                                   *)
(***************************************************************************)

-----------------------------------------------------------------------------
(***************************************************************************)
(* Types.  Clustering adds a value of pc; nothing here is about it.        *)
(***************************************************************************)
Record == [article : DOMAIN articles, stem_ids : Seq(StemIds), lastToken : [StemIds -> Nat]]

TypesInv ==
    /\ VocabularyTypeOK
    /\ file \in Files
    /\ idx \in Nat \ {0}
    /\ articles \in Seq(Seq(Tokens))
    /\ tidx \in Nat \ {0}
    /\ met \subseteq StemIds
    /\ stem_ids \in Seq(StemIds)
    /\ lastToken \in [StemIds -> Nat]
    /\ shingles \subseteq Int
    /\ invalid_urls \subseteq DOMAIN file
    /\ saved \subseteq DOMAIN articles
    /\ processed \in Seq(Record)
    /\ freq0 \in [StemIds -> Int]

\* What each loop finds: nothing is counted, recorded or stored before the
\* first is through, and the second stays in the articles and their tokens.
LoopsInv ==
    /\ pc \in {"load", "failed"} =>
          /\ stems_freq = freq0
          /\ tokensOf = [id \in StemIds |-> {}]
          /\ processed = <<>> /\ saved = {}
          /\ tidx = 1 /\ met = {} /\ stem_ids = <<>> /\ lastToken = NoLastToken
    /\ pc \in {"tokens", "dedup"} => idx <= Len(articles)
    /\ pc = "tokens" => tidx <= Len(articles[idx]) + 1
    /\ pc = "dedup" => tidx = Len(articles[idx]) + 1

LEMMA FileType ==
    ASSUME file \in Files
    PROVE  /\ file \in Seq(Seq(Tokens) \cup {Malformed})
           /\ DOMAIN file = 1 .. Len(file) /\ Len(file) \in Nat
           /\ \A i \in 1 .. Len(file) : file[i] # Malformed => file[i] \in Seq(Tokens)
<1>1. file \in Seq(Seq(Tokens) \cup {Malformed})
  BY BatchAssumption
<1>2. /\ file \in [1 .. Len(file) -> Seq(Tokens) \cup {Malformed}]
      /\ DOMAIN file = 1 .. Len(file) /\ Len(file) \in Nat
  BY <1>1, LenProperties
<1> QED BY <1>1, <1>2

\* The article at hand, and the token at hand.
LEMMA TokenAtHand ==
    ASSUME TypesInv, LoopsInv, pc \in {"tokens", "dedup"}
    PROVE  /\ idx \in DOMAIN articles /\ DOMAIN articles = 1 .. Len(articles)
           /\ Len(articles) \in Nat
           /\ articles[idx] \in Seq(Tokens) /\ Len(articles[idx]) \in Nat
           /\ DOMAIN articles[idx] = 1 .. Len(articles[idx])
           /\ tidx <= Len(articles[idx]) => articles[idx][tidx] \in Tokens
<1>1. /\ articles \in [1 .. Len(articles) -> Seq(Tokens)] /\ Len(articles) \in Nat
      /\ DOMAIN articles = 1 .. Len(articles)
  BY LenProperties DEF TypesInv
<1>2. idx \in 1 .. Len(articles)
  BY <1>1 DEF TypesInv, LoopsInv
<1>3. articles[idx] \in Seq(Tokens)
  BY <1>1, <1>2
<1>4. /\ articles[idx] \in [1 .. Len(articles[idx]) -> Tokens] /\ Len(articles[idx]) \in Nat
      /\ DOMAIN articles[idx] = 1 .. Len(articles[idx])
  BY <1>3, LenProperties
<1>5. tidx <= Len(articles[idx]) => tidx \in 1 .. Len(articles[idx])
  BY <1>4 DEF TypesInv
<1> QED BY <1>1, <1>2, <1>3, <1>4, <1>5

\* A shingle of an article, wherever two tokens follow.
LEMMA ShingleType ==
    ASSUME NEW art \in Seq(Tokens), NEW i \in Nat \ {0}, i + 2 <= Len(art)
    PROVE  ShingleAt(art, i) \in Int
<1>1. art \in [1 .. Len(art) -> Tokens] /\ Len(art) \in Nat
  BY LenProperties
<1>2. i \in 1 .. Len(art) /\ i + 1 \in 1 .. Len(art) /\ i + 2 \in 1 .. Len(art)
  BY <1>1
<1>3. art[i] \in Tokens /\ art[i + 1] \in Tokens /\ art[i + 2] \in Tokens
  BY <1>1, <1>2
<1>4. <<art[i], art[i + 1], art[i + 2]>> \in Triples
  BY <1>3 DEF Triples
<1> QED BY <1>4, BatchAssumption DEF ShingleAt

LEMMA InitTypes == Init => TypesInv /\ LoopsInv
<1> SUFFICES ASSUME Init PROVE TypesInv /\ LoopsInv
  OBVIOUS
<1>1. /\ <<>> \in Seq(Seq(Tokens)) /\ <<>> \in Seq(StemIds) /\ <<>> \in Seq(Record)
  BY EmptySeq
<1>2. /\ stems_freq \in [StemIds -> Int] /\ tokensOf = [id \in StemIds |-> {}]
      /\ stems = {} /\ freq_stems_no = 0
  BY VocabularyAssumption DEF Init, InitVocabulary, TokensMap!Init
<1>3. NoLastToken \in [StemIds -> Nat]
  BY DEF NoLastToken
<1> QED BY <1>1, <1>2, <1>3 DEF Init, TypesInv, LoopsInv, VocabularyTypeOK

-----------------------------------------------------------------------------
\* The steps of the two loops, and those that only move pc to behind them: the
\* assertion that ends process_tokens, and the clustering.
LoopStep ==
    \/ LoadValid \/ LoadInvalid \/ LoadMalformed \/ EndOfLoad
    \/ SkipToken \/ SkipUnknownStem \/ ProcessToken \/ SaveArticle
    \/ IsOriginal \/ IsDuplicate

LaterStep ==
    /\ pc \notin {"load", "failed"}
    /\ pc' \notin {"load", "failed", "tokens", "dedup"}
    /\ UNCHANGED <<vocabulary, file, idx, articles, parsing, store, processed, freq0>>

\* process_tokens changes the counters and the tokens of one stem id.
LEMMA ProcessTokenEffect ==
    ASSUME TypesInv, LoopsInv, ProcessToken,
           NEW token, token = articles[idx][tidx], NEW id, id = StemId(StemOf(token))
    PROVE  /\ token \in Tokens /\ Lower[token] \in Tokens
           /\ HasStem(token) /\ StemOf(token) \in stems /\ id \in StemIds
           /\ tokensOf' = [tokensOf EXCEPT ![id] = @ \cup {Lower[token]}]
           /\ stem_ids' = Append(stem_ids, id)
           /\ lastToken' = [lastToken EXCEPT ![id] = tidx]
           /\ id \in met => UNCHANGED <<stems_freq, freq_stems_no, met>>
           /\ id \notin met =>
                 /\ stems_freq' = [stems_freq EXCEPT ![id] = @ + 1]
                 /\ freq_stems_no' =
                       IF stems_freq[id] + 1 > 3 THEN freq_stems_no + 1 ELSE freq_stems_no
                 /\ met' = met \cup {id}
<1>1. pc = "tokens" /\ tidx <= Len(articles[idx]) /\ HasStem(token) /\ StemOf(token) \in stems
  BY DEF ProcessToken
<1>2. token \in Tokens /\ Lower[token] \in Tokens
  BY <1>1, TokenAtHand, ParserAssumption
<1>3. id \in StemIds
  BY DEF ProcessToken, HasRoom
<1>4. CountArticle(id) /\ RecordToken(id, token)
  BY DEF ProcessToken
<1> QED BY <1>1, <1>2, <1>3, <1>4
        DEF CountArticle, RecordToken, IncreaseStemFreq, TokensMap!AddToken

LEMMA NextTypes ==
    ASSUME TypesInv, LoopsInv, LoopStep \/ LaterStep \/ UNCHANGED vars
    PROVE  TypesInv' /\ LoopsInv'
<1> USE DEF vocabulary, parsing, store
<1>0. articles' = articles => Record' = Record
  BY DEF Record
<1>1. CASE LoadValid
  <2>1. file[idx] \in Seq(Tokens)
    BY <1>1, FileType DEF LoadValid, TypesInv
  <2>2. Append(articles, file[idx]) \in Seq(Seq(Tokens))
    BY <2>1, AppendProperties DEF TypesInv
  <2>3. stems' \subseteq Stems
    <3>1. \A t \in TokensIn(file[idx]) : t \in Tokens
      BY <2>1, LenProperties DEF TokensIn
    <3>2. ValidStems(file[idx]) \subseteq Stems
      BY <3>1, ParserAssumption DEF ValidStems
    <3> QED BY <1>1, <3>2 DEF LoadValid, AddStems, TypesInv, VocabularyTypeOK
  <2>4. processed' = <<>> /\ saved' = {} /\ <<>> \in Seq(Record')
    BY <1>1, EmptySeq DEF LoadValid, LoopsInv
  <2> QED BY <1>0, <1>1, <2>2, <2>3, <2>4 DEF LoadValid, TypesInv, LoopsInv, VocabularyTypeOK
<1>2. CASE LoadInvalid
  <2>1. idx \in DOMAIN file
    BY <1>2, FileType DEF LoadInvalid, TypesInv
  <2> QED BY <1>0, <1>2, <2>1 DEF LoadInvalid, TypesInv, LoopsInv, VocabularyTypeOK
<1>3. CASE LoadMalformed
  BY <1>0, <1>3 DEF LoadMalformed, TypesInv, LoopsInv, VocabularyTypeOK
<1>4. CASE EndOfLoad
  <2>1. TypesInv'
    BY <1>0, <1>4 DEF EndOfLoad, TypesInv, VocabularyTypeOK
  <2>2. articles # <<>> => 1 <= Len(articles) /\ Len(articles[1]) \in Nat
    <3> SUFFICES ASSUME articles # <<>> PROVE 1 <= Len(articles) /\ Len(articles[1]) \in Nat
      OBVIOUS
    <3>1. articles \in [1 .. Len(articles) -> Seq(Tokens)] /\ Len(articles) \in Nat
          /\ Len(articles) # 0
      BY LenProperties, EmptySeq DEF TypesInv
    <3>2. articles[1] \in Seq(Tokens)
      BY <3>1
    <3> QED BY <3>1, <3>2, LenProperties
  <2>3. LoopsInv'
    BY <1>4, <2>2 DEF EndOfLoad, LoopsInv
  <2> QED BY <2>1, <2>3
<1>5. CASE SkipToken
  <2>1. /\ pc = "tokens" /\ tidx <= Len(articles[idx])
        /\ articles[idx] \in Seq(Tokens) /\ Len(articles[idx]) \in Nat
    BY <1>5, TokenAtHand DEF SkipToken
  <2>2. tidx + 2 <= Len(articles[idx]) => ShingleAt(articles[idx], tidx) \in Int
    BY <2>1, ShingleType DEF TypesInv
  <2>3. shingles' \subseteq Int
    BY <1>5, <2>2 DEF SkipToken, TypesInv
  <2>4. TypesInv'
    BY <1>0, <1>5, <2>3 DEF SkipToken, TypesInv, VocabularyTypeOK
  <2>5. LoopsInv'
    BY <1>5, <2>1 DEF SkipToken, LoopsInv, TypesInv
  <2> QED BY <2>4, <2>5
<1>6. CASE SkipUnknownStem
  <2>1. pc = "tokens" /\ tidx <= Len(articles[idx]) /\ Len(articles[idx]) \in Nat
    BY <1>6, TokenAtHand DEF SkipUnknownStem
  <2> QED BY <1>0, <1>6, <2>1 DEF SkipUnknownStem, TypesInv, LoopsInv, VocabularyTypeOK
<1>7. CASE ProcessToken
  <2> DEFINE token == articles[idx][tidx]
             id == StemId(StemOf(token))
  <2>1. pc = "tokens" /\ tidx <= Len(articles[idx]) /\ Len(articles[idx]) \in Nat
    BY <1>7, TokenAtHand DEF ProcessToken
  <2>2. /\ Lower[token] \in Tokens /\ id \in StemIds
        /\ tokensOf' = [tokensOf EXCEPT ![id] = @ \cup {Lower[token]}]
        /\ stem_ids' = Append(stem_ids, id)
        /\ lastToken' = [lastToken EXCEPT ![id] = tidx]
        /\ id \in met => UNCHANGED <<stems_freq, freq_stems_no, met>>
        /\ id \notin met =>
              /\ stems_freq' = [stems_freq EXCEPT ![id] = @ + 1]
              /\ freq_stems_no' =
                    IF stems_freq[id] + 1 > 3 THEN freq_stems_no + 1 ELSE freq_stems_no
              /\ met' = met \cup {id}
    BY <1>7, ProcessTokenEffect
  <2>3. UNCHANGED <<stems, file, pc, idx, articles, shingles, store, processed, freq0>>
        /\ tidx' = tidx + 1
    BY <1>7 DEF ProcessToken
  <2> HIDE DEF token, id
  <2>4. stems_freq' \in [StemIds -> Int] /\ freq_stems_no' \in Nat /\ met' \subseteq StemIds
    <3>1. ASSUME NEW f \in [StemIds -> Int], NEW i \in StemIds
          PROVE  [f EXCEPT ![i] = @ + 1] \in [StemIds -> Int]
      OBVIOUS
    <3>2. stems_freq \in [StemIds -> Int] /\ freq_stems_no \in Nat /\ met \subseteq StemIds
      BY DEF TypesInv, VocabularyTypeOK
    <3>3. CASE id \in met
      BY <2>2, <3>2, <3>3
    <3>4. CASE id \notin met
      <4>1. stems_freq' = [stems_freq EXCEPT ![id] = @ + 1]
        BY <2>2, <3>4
      <4>2. stems_freq' \in [StemIds -> Int]
        BY ONLY <4>1, <3>1, <3>2, <2>2
      <4> QED BY <2>2, <3>2, <3>4, <4>2
    <3> QED BY <3>3, <3>4
  <2>5. tokensOf' \in [StemIds -> SUBSET Tokens]
    <3>1. tokensOf \in [StemIds -> SUBSET Tokens]
      BY DEF TypesInv, VocabularyTypeOK
    <3> QED BY <2>2, <3>1
  <2>6. stem_ids' \in Seq(StemIds)
    BY <2>2, AppendProperties DEF TypesInv
  <2>7. lastToken' \in [StemIds -> Nat]
    BY <2>2 DEF TypesInv
  <2>8. TypesInv'
    BY <1>0, <2>3, <2>4, <2>5, <2>6, <2>7 DEF TypesInv, VocabularyTypeOK
  <2>9. LoopsInv'
    BY <2>1, <2>3 DEF LoopsInv, TypesInv
  <2> QED BY <2>8, <2>9
<1>8. CASE SaveArticle
  <2>1. idx \in DOMAIN articles /\ Len(articles[idx]) \in Nat
    BY <1>8, TokenAtHand DEF SaveArticle
  <2>2. /\ pc = "tokens" /\ pc' = "dedup" /\ tidx > Len(articles[idx])
        /\ saved' = saved \cup {idx}
        /\ UNCHANGED <<vocabulary, file, idx, articles, parsing, invalid_urls, processed, freq0>>
    BY <1>8 DEF SaveArticle
  <2>3. TypesInv'
    BY <1>0, <2>1, <2>2 DEF TypesInv, VocabularyTypeOK
  <2>4. LoopsInv'
    BY <2>1, <2>2 DEF TypesInv, LoopsInv
  <2> QED BY <2>3, <2>4
<1>9. CASE IsOriginal \/ IsDuplicate
  <2>1. NextArticle /\ pc = "dedup"
    BY <1>9 DEF IsOriginal, IsDuplicate
  <2>2. idx \in DOMAIN articles /\ DOMAIN articles = 1 .. Len(articles) /\ Len(articles) \in Nat
        /\ articles \in [1 .. Len(articles) -> Seq(Tokens)]
    BY <2>1, TokenAtHand, LenProperties DEF TypesInv
  <2>3. processed' \in Seq(Record)
    <3>1. CASE IsOriginal
      <4>1. [article |-> idx, stem_ids |-> stem_ids, lastToken |-> lastToken] \in Record
        BY <2>2 DEF Record, TypesInv
      <4> QED BY <3>1, <4>1, AppendProperties DEF IsOriginal, TypesInv
    <3>2. CASE IsDuplicate
      BY <3>2 DEF IsDuplicate, TypesInv
    <3> QED BY <1>9, <3>1, <3>2
  <2>4. NoLastToken \in [StemIds -> Nat] /\ <<>> \in Seq(StemIds)
    BY EmptySeq DEF NoLastToken
  <2>5. TypesInv'
    BY <1>0, <2>1, <2>3, <2>4 DEF NextArticle, TypesInv, VocabularyTypeOK
  <2>6. idx < Len(articles) => Len(articles[idx + 1]) \in Nat
    BY <2>2, LenProperties
  <2>7. LoopsInv'
    BY <2>1, <2>2, <2>6 DEF NextArticle, LoopsInv, TypesInv
  <2> QED BY <2>5, <2>7
<1>10. CASE LaterStep
  BY <1>0, <1>10 DEF LaterStep, TypesInv, LoopsInv, VocabularyTypeOK
<1>11. CASE UNCHANGED vars
  BY <1>0, <1>11 DEF vars, TypesInv, LoopsInv, VocabularyTypeOK
<1> QED BY <1>1, <1>2, <1>3, <1>4, <1>5, <1>6, <1>7, <1>8, <1>9, <1>10, <1>11 DEF LoopStep

-----------------------------------------------------------------------------
(***************************************************************************)
(* What the loops reach: each step of process_tokens adds the token at     *)
(* hand, no other step adds any; the stems stay once they are all there.   *)
(***************************************************************************)
AtHand(s, k, i) ==
    ProcessToken /\ k = idx /\ i = tidx /\ s = StemOf(articles[idx][tidx])

LEMMA ArticleIndexes ==
    ASSUME TypesInv
    PROVE  \A k \in DOMAIN articles :
               /\ k \in Nat \ {0}
               /\ Len(articles[k]) \in Nat
               /\ DOMAIN articles[k] = 1 .. Len(articles[k])
<1>1. articles \in [1 .. Len(articles) -> Seq(Tokens)] /\ Len(articles) \in Nat
      /\ DOMAIN articles = 1 .. Len(articles)
  BY LenProperties DEF TypesInv
<1> QED BY <1>1, LenProperties

LEMMA NothingReachedAtFirst ==
    ASSUME pc \in {"load", "failed"}
    PROVE  \A s, k, i : ~Occurs(s, k, i)
BY DEF Occurs, Reached

LEMMA OccursNext ==
    ASSUME TypesInv, LoopsInv, LoopStep \/ LaterStep \/ UNCHANGED vars
    PROVE  \/ LoadValid /\ pc' = "load"
           \/ /\ UNCHANGED <<stems, articles, freq0>>
              /\ \A s \in stems, k \in DOMAIN articles : \A i \in DOMAIN articles[k] :
                    Occurs(s, k, i)' <=> Occurs(s, k, i) \/ AtHand(s, k, i)
<1> USE DEF vocabulary, parsing, store
<1> DEFINE Same == \A s \in stems, k \in DOMAIN articles : \A i \in DOMAIN articles[k] :
                       Occurs(s, k, i)' <=> Occurs(s, k, i) \/ AtHand(s, k, i)
           Indexed == \A k \in DOMAIN articles : \A i \in DOMAIN articles[k] :
                          k \in Nat \ {0} /\ i \in Nat \ {0}
<1>0. Indexed /\ idx \in Nat \ {0} /\ tidx \in Nat \ {0}
  BY ArticleIndexes DEF TypesInv
<1>1. CASE LoadValid
  BY <1>1 DEF LoadValid
<1>2. CASE LoadInvalid \/ LoadMalformed
  <2>1. pc \in {"load", "failed"} /\ pc' \in {"load", "failed"} /\ ~ProcessToken
        /\ UNCHANGED <<stems, articles, freq0>>
    BY <1>2 DEF LoadInvalid, LoadMalformed, ProcessToken
  <2> QED BY <2>1 DEF Occurs, Reached, AtHand
<1>3. CASE EndOfLoad
  <2>1. /\ pc = "load" /\ idx' = 1 /\ tidx' = 1 /\ ~ProcessToken
        /\ UNCHANGED <<stems, articles, freq0>>
    BY <1>3 DEF EndOfLoad, ProcessToken, LoopsInv
  <2>2. \A k \in DOMAIN articles : \A i \in DOMAIN articles[k] : ~Reached(k, i)'
    BY <1>0, <2>1 DEF Reached
  <2>3. \A k, i : ~Reached(k, i)
    BY <2>1 DEF Reached
  <2> QED BY <2>1, <2>2, <2>3 DEF Occurs, AtHand
<1>4. CASE SkipToken \/ SkipUnknownStem \/ ProcessToken
  <2>1. /\ pc = "tokens" /\ pc' = pc /\ idx' = idx /\ tidx' = tidx + 1
        /\ UNCHANGED <<stems, articles, freq0>>
        /\ HasStem(articles[idx][tidx]) /\ StemOf(articles[idx][tidx]) \in stems
              <=> ProcessToken
    BY <1>4 DEF SkipToken, SkipUnknownStem, ProcessToken
  <2>2. \A k \in DOMAIN articles : \A i \in DOMAIN articles[k] :
            Reached(k, i)' <=> Reached(k, i) \/ (k = idx /\ i = tidx)
    BY <1>0, <2>1 DEF Reached
  <2> QED BY <2>1, <2>2 DEF Occurs, AtHand
<1>5. CASE SaveArticle
  <2>1. /\ pc = "tokens" /\ pc' = "dedup" /\ UNCHANGED <<stems, articles, freq0, idx, tidx>>
        /\ ~ProcessToken
    BY <1>5 DEF SaveArticle, ProcessToken
  <2> QED BY <2>1 DEF Occurs, Reached, AtHand
<1>6. CASE IsOriginal \/ IsDuplicate
  <2>1. /\ pc = "dedup" /\ pc' \in {"tokens", "cluster"} /\ idx' = idx + 1 /\ tidx' = 1
        /\ UNCHANGED <<stems, articles, freq0>> /\ ~ProcessToken
    BY <1>6 DEF IsOriginal, IsDuplicate, NextArticle, ProcessToken
  <2>2. /\ \A i \in DOMAIN articles[idx] : i < tidx
        /\ idx \in DOMAIN articles
    BY <2>1, TokenAtHand DEF LoopsInv
  <2>3. \A k \in DOMAIN articles : \A i \in DOMAIN articles[k] :
            Reached(k, i)' <=> Reached(k, i)
    BY <1>0, <2>1, <2>2 DEF Reached
  <2> QED BY <2>1, <2>3 DEF Occurs, AtHand
<1>7. CASE LaterStep
  <2>1. ~ProcessToken
    BY <1>7 DEF LaterStep, ProcessToken
  <2> QED BY <1>7, <2>1 DEF LaterStep, Occurs, Reached, AtHand
<1>8. CASE UNCHANGED vars
  <2>1. ~ProcessToken
    <3>1. SUFFICES ASSUME ProcessToken PROVE FALSE
      OBVIOUS
    <3>2. tidx' = tidx + 1
      BY <3>1 DEF ProcessToken
    <3> QED BY <3>2, <1>0, <1>8 DEF vars
  <2> QED BY <1>8, <2>1 DEF vars, Occurs, Reached, AtHand
<1> QED BY <1>1, <1>2, <1>3, <1>4, <1>5, <1>6, <1>7, <1>8 DEF LoopStep

\* The articles a stem was seen in change at its first token in an article.
LEMMA SeenNext ==
    ASSUME TypesInv, LoopsInv, LoopStep \/ LaterStep \/ UNCHANGED vars, ~LoadValid
    PROVE  \A s \in stems :
               SeenIn(s)' = SeenIn(s) \cup
                   IF ProcessToken /\ s = StemOf(articles[idx][tidx]) THEN {idx} ELSE {}
<1> SUFFICES ASSUME NEW s \in stems
             PROVE  SeenIn(s)' = SeenIn(s) \cup
                      IF ProcessToken /\ s = StemOf(articles[idx][tidx]) THEN {idx} ELSE {}
  OBVIOUS
<1>1. UNCHANGED <<stems, articles>> /\ \A k \in DOMAIN articles : \A i \in DOMAIN articles[k] :
          Occurs(s, k, i)' <=> Occurs(s, k, i) \/ AtHand(s, k, i)
  BY OccursNext
<1>2. ProcessToken => idx \in DOMAIN articles /\ tidx \in DOMAIN articles[idx]
  <2> SUFFICES ASSUME ProcessToken PROVE idx \in DOMAIN articles /\ tidx \in DOMAIN articles[idx]
    OBVIOUS
  <2>1. pc = "tokens" /\ tidx <= Len(articles[idx])
    BY DEF ProcessToken
  <2> QED BY <2>1, TokenAtHand DEF TypesInv
<1>3. \A k : k \in SeenIn(s)' <=>
          k \in DOMAIN articles /\ \E i \in DOMAIN articles[k] : Occurs(s, k, i) \/ AtHand(s, k, i)
  BY <1>1 DEF SeenIn
<1>4. \A k : k \in SeenIn(s) <=>
          k \in DOMAIN articles /\ \E i \in DOMAIN articles[k] : Occurs(s, k, i)
  BY DEF SeenIn
<1>5. \A k \in DOMAIN articles : (\E i \in DOMAIN articles[k] : AtHand(s, k, i)) <=>
          ProcessToken /\ s = StemOf(articles[idx][tidx]) /\ k = idx
  BY <1>2 DEF AtHand
<1> HIDE DEF AtHand, Occurs, SeenIn
<1> QED BY <1>2, <1>3, <1>4, <1>5

-----------------------------------------------------------------------------
(***************************************************************************)
(* The counters.  The set of ids process_tokens met is what it takes to    *)
(* count an article once: it holds the ids of the stems seen in the        *)
(* article at hand.  Ids behind the last stem are never counted.           *)
(***************************************************************************)
CountsInv ==
    /\ FreqGrowsByArticles
    /\ pc \in {"tokens", "dedup"} =>
          \A s \in StemsWithRoom : StemId(s) \in met <=> idx \in SeenIn(s)
    /\ \A id \in StemIds : stems_freq[id] >= freq0[id]
    /\ \A id \in StemIds : id >= Cardinality(stems) => stems_freq[id] = freq0[id]

LEMMA SeenFinite ==
    ASSUME TypesInv, NEW s
    PROVE  IsFiniteSet(SeenIn(s)) /\ Cardinality(SeenIn(s)) \in Nat
<1>1. DOMAIN articles = 1 .. Len(articles) /\ Len(articles) \in Nat
  BY LenProperties DEF TypesInv
<1>2. IsFiniteSet(DOMAIN articles) /\ SeenIn(s) \in SUBSET (DOMAIN articles)
  BY <1>1, FS_Interval DEF SeenIn
<1>3. IsFiniteSet(SeenIn(s))
  BY <1>2, FS_Subset
<1> QED BY <1>3, FS_CardinalityType

\* While nothing is reached, no stem was seen and no counter moved.
LEMMA CountsAtFirst ==
    ASSUME TypesInv, LoopsInv, pc \in {"load", "failed"}
    PROVE  CountsInv
<1>1. \A s : SeenIn(s) = {} /\ Cardinality(SeenIn(s)) = 0
  <2>1. \A s : SeenIn(s) = {}
    BY NothingReachedAtFirst DEF SeenIn
  <2> QED BY <2>1, FS_EmptySet
<1>2. stems_freq = freq0 /\ \A id \in StemIds : freq0[id] \in Int
  BY DEF LoopsInv, TypesInv
<1>3. \A s \in StemsWithRoom : StemId(s) \in StemIds
  BY DEF StemsWithRoom, HasRoom
<1> QED BY <1>1, <1>2, <1>3 DEF CountsInv, FreqGrowsByArticles

LEMMA NextCounts ==
    ASSUME TypesInv, LoopsInv, CountsInv, LoopStep \/ LaterStep \/ UNCHANGED vars
    PROVE  CountsInv'
<1> USE DEF vocabulary, parsing, store
<1>0. TypesInv' /\ LoopsInv'
  BY NextTypes
<1>1. CASE pc' \in {"load", "failed"}
  <2>1. TypesInv' /\ LoopsInv' /\ (pc \in {"load", "failed"})' => CountsInv'
    BY CountsAtFirst, PTL
  <2> QED BY <2>1, <1>0, <1>1
<1>2. CASE pc' \notin {"load", "failed"}
  <2>0. ~LoadValid
    BY <1>2 DEF LoadValid
  <2>1. /\ UNCHANGED <<stems, articles, freq0, StemsWithRoom>>
        /\ \A s : StemId(s)' = StemId(s)
        /\ StemsWithRoom \subseteq stems
    <3>1. UNCHANGED <<stems, articles, freq0>>
      BY <2>0, OccursNext
    <3> QED BY <3>1 DEF StemId, StemsWithRoom, HasRoom
  <2>2. \A s \in stems :
            SeenIn(s)' = SeenIn(s) \cup
                   IF ProcessToken /\ s = StemOf(articles[idx][tidx]) THEN {idx} ELSE {}
    BY <2>0, SeenNext
  <2>3. CASE ProcessToken
    <3>0. PICK r, id : r = StemOf(articles[idx][tidx]) /\ id = StemId(r)
      OBVIOUS
    <3>1. /\ r \in StemsWithRoom /\ r \in stems /\ id \in StemIds
          /\ id \in met => UNCHANGED <<stems_freq, freq_stems_no, met>>
          /\ id \notin met => /\ stems_freq' = [stems_freq EXCEPT ![id] = @ + 1]
                              /\ met' = met \cup {id}
      BY <2>3, <3>0, ProcessTokenEffect DEF StemsWithRoom, HasRoom
    <3>2. pc = "tokens" /\ pc' = "tokens" /\ idx' = idx
      BY <2>3 DEF ProcessToken
    <3>3. /\ \A s \in stems : StemId(s) < Cardinality(stems)
          /\ \A s, q \in stems : StemId(s) = StemId(q) => s = q
          /\ Cardinality(stems) \in Nat
      BY StemIdsType DEF TypesInv, VocabularyTypeOK
    <3>4. /\ SeenIn(r)' = SeenIn(r) \cup {idx}
          /\ \A s \in stems \ {r} : SeenIn(s)' = SeenIn(s)
      <4>1. ASSUME NEW s \in stems
            PROVE  SeenIn(s)' = SeenIn(s) \cup IF s = r THEN {idx} ELSE {}
        <5>1. (ProcessToken /\ s = StemOf(articles[idx][tidx])) <=> s = r
          BY <2>3, <3>0
        <5> QED BY <2>2, <5>1
      <4>2. r \in stems
        BY <3>1
      <4>3. SeenIn(r)' = SeenIn(r) \cup {idx}
        BY <4>1, <4>2
      <4>4. ASSUME NEW s \in stems \ {r} PROVE SeenIn(s)' = SeenIn(s)
        BY <4>1
      <4> QED BY <4>3, <4>4
    <3>5. id \in met <=> idx \in SeenIn(r)
      BY <3>0, <3>1, <3>2 DEF CountsInv
    <3>6. /\ \A j \in StemIds : stems_freq[j] \in Int /\ freq0[j] \in Int
          /\ stems_freq \in [StemIds -> Int] /\ StemIds \subseteq Int
      BY VocabularyAssumption DEF TypesInv, VocabularyTypeOK, StemIds
    <3>7. CASE id \in met
      <4>1. \A s \in stems : SeenIn(s)' = SeenIn(s)
        BY <3>4, <3>5, <3>7
      <4> QED BY <4>1, <2>1, <3>1, <3>2, <3>7 DEF CountsInv, FreqGrowsByArticles
    <3>8. CASE id \notin met
      <4>1. /\ stems_freq'[id] = stems_freq[id] + 1
            /\ \A j \in StemIds \ {id} : stems_freq'[j] = stems_freq[j]
            /\ met' = met \cup {id}
        BY <3>1, <3>6, <3>8
      <4>3. id = StemId(r) /\ \A s \in stems \ {r} : StemId(s) # id
        BY <3>0, <3>1, <3>3
      <4>4. ASSUME NEW s \in StemsWithRoom
            PROVE  /\ (stems_freq[StemId(s)] = freq0[StemId(s)] + Cardinality(SeenIn(s)))'
                   /\ (StemId(s) \in met <=> idx \in SeenIn(s))'
        <5>1. /\ stems_freq[StemId(s)] = freq0[StemId(s)] + Cardinality(SeenIn(s))
              /\ StemId(s) \in met <=> idx \in SeenIn(s)
              /\ StemId(s) \in StemIds /\ IsFiniteSet(SeenIn(s)) /\ Cardinality(SeenIn(s)) \in Nat
          BY <3>2, SeenFinite DEF CountsInv, FreqGrowsByArticles, StemsWithRoom, HasRoom
        <5>2. CASE s = r
          <6>1. SeenIn(s)' = SeenIn(s) \cup {idx} /\ idx \notin SeenIn(s)
            BY <3>4, <3>5, <3>8, <5>2
          <6>2. Cardinality(SeenIn(s)') = Cardinality(SeenIn(s)) + 1
            BY <5>1, <6>1, FS_AddElement
          <6>3. StemId(s) = id /\ StemId(s)' = id /\ id \in StemIds /\ idx' = idx /\ freq0' = freq0
            BY <2>1, <3>1, <3>2, <4>3, <5>2
          <6>4. stems_freq'[id] = freq0[id] + Cardinality(SeenIn(s)')
            BY <3>6, <4>1, <5>1, <6>2, <6>3
          <6>5. id \in met' /\ idx \in SeenIn(s)'
            BY <4>1, <6>1
          <6> QED BY <6>3, <6>4, <6>5
        <5>3. CASE s # r
          <6>1. SeenIn(s)' = SeenIn(s)
            BY <2>1, <3>4, <5>3
          <6> QED BY <2>1, <3>2, <4>1, <4>3, <5>1, <5>3, <6>1
        <5> QED BY <5>2, <5>3
      <4>5. \A j \in StemIds : /\ stems_freq'[j] >= freq0[j]
                               /\ j >= Cardinality(stems) => stems_freq'[j] = freq0[j]
        <5>1. id < Cardinality(stems) /\ id \in StemIds
          BY <3>0, <3>1, <3>3
        <5>2. stems_freq'[id] >= freq0[id]
          BY <4>1, <5>1, <3>6 DEF CountsInv
        <5>3. ~(id >= Cardinality(stems))
          BY <5>1, <3>3, <3>6
        <5> QED BY <4>1, <5>1, <5>2, <5>3 DEF CountsInv
      <4> QED BY <2>1, <4>4, <4>5 DEF CountsInv, FreqGrowsByArticles
    <3> QED BY <3>7, <3>8
  <2>4. CASE ~ProcessToken
    <3>1. \A s \in stems : SeenIn(s)' = SeenIn(s)
      BY <2>2, <2>4
    <3>2. UNCHANGED <<stems_freq, freq0>>
      BY <2>0, <2>4, <2>1 DEF LoopStep, LaterStep, vars, LoadInvalid, LoadMalformed, EndOfLoad,
             SkipToken, SkipUnknownStem, SaveArticle, IsOriginal, IsDuplicate, NextArticle
    <3>3. ASSUME pc' \in {"tokens", "dedup"}, NEW s \in StemsWithRoom
          PROVE  StemId(s) \in met' <=> idx' \in SeenIn(s)
      <4>1. CASE pc \in {"tokens", "dedup"} /\ idx' = idx /\ met' = met
        BY <4>1 DEF CountsInv
      <4>2. CASE met' = {} /\ idx' \notin SeenIn(s)
        BY <4>2
      <4>3. CASE LoadInvalid \/ LoadMalformed \/ LaterStep
        BY <4>3, <3>3 DEF LoadInvalid, LoadMalformed, LaterStep
      <4>4. CASE EndOfLoad
        <5>1. met' = {} /\ pc = "load"
          BY <4>4 DEF EndOfLoad, LoopsInv
        <5>2. SeenIn(s) = {}
          BY <5>1, NothingReachedAtFirst DEF SeenIn
        <5> QED BY <4>2, <5>1, <5>2
      <4>5. CASE SkipToken \/ SkipUnknownStem \/ SaveArticle
        BY <4>5, <4>1 DEF SkipToken, SkipUnknownStem, SaveArticle
      <4>6. CASE IsOriginal \/ IsDuplicate
        <5>1. met' = {} /\ idx' = idx + 1
          BY <4>6 DEF IsOriginal, IsDuplicate, NextArticle
        <5>2. ~(idx + 1 < idx) /\ ~(idx + 1 = idx)
          BY DEF TypesInv
        <5>3. idx + 1 \notin SeenIn(s)
          BY <5>2 DEF SeenIn, Occurs, Reached
        <5> QED BY <4>2, <5>1, <5>3
      <4>7. CASE UNCHANGED vars
        BY <4>1, <4>7, <3>3 DEF vars
      <4> QED BY <2>0, <2>4, <4>3, <4>4, <4>5, <4>6, <4>7 DEF LoopStep
    <3> QED BY <2>1, <3>1, <3>2, <3>3 DEF CountsInv, FreqGrowsByArticles
  <2> QED BY <2>3, <2>4
<1> QED BY <1>1, <1>2

-----------------------------------------------------------------------------
(***************************************************************************)
(* The tokens: those of the reached occurrences of a stem.                 *)
(***************************************************************************)
IsTokenOf(tok, s) ==
    \E k \in DOMAIN articles : \E i \in DOMAIN articles[k] :
        Occurs(s, k, i) /\ tok = Lower[articles[k][i]]

TokensInv ==
    \A s \in StemsWithRoom : \A tok : tok \in tokensOf[StemId(s)] <=> IsTokenOf(tok, s)

LEMMA TokensAtFirst ==
    ASSUME TypesInv, LoopsInv, pc \in {"load", "failed"}
    PROVE  TokensInv
<1>1. \A s \in StemsWithRoom : tokensOf[StemId(s)] = {}
  BY DEF LoopsInv, StemsWithRoom, HasRoom
<1> QED BY <1>1, NothingReachedAtFirst DEF TokensInv, IsTokenOf

LEMMA NextTokens ==
    ASSUME TypesInv, LoopsInv, TokensInv, LoopStep \/ LaterStep \/ UNCHANGED vars
    PROVE  TokensInv'
<1> USE DEF vocabulary, parsing, store
<1>1. CASE pc' \in {"load", "failed"}
  <2>1. TypesInv' /\ LoopsInv' /\ (pc \in {"load", "failed"})' => TokensInv'
    BY TokensAtFirst, PTL
  <2> QED BY <2>1, <1>1, NextTypes
<1>2. CASE pc' \notin {"load", "failed"}
  <2>0. ~LoadValid
    BY <1>2 DEF LoadValid
  <2>1. /\ UNCHANGED <<stems, articles>>
        /\ \A s \in stems, k \in DOMAIN articles : \A i \in DOMAIN articles[k] :
              Occurs(s, k, i)' <=> Occurs(s, k, i) \/ AtHand(s, k, i)
    BY <2>0, OccursNext
  <2>2. /\ \A s \in stems : StemId(s)' = StemId(s)
        /\ StemsWithRoom' = StemsWithRoom /\ StemsWithRoom \subseteq stems
    BY <2>1 DEF StemId, StemsWithRoom, HasRoom
  <2>3. CASE ~ProcessToken
    <3>1. UNCHANGED tokensOf
      BY <2>0, <2>3 DEF LoopStep, LaterStep, vars, LoadInvalid, LoadMalformed, EndOfLoad,
             SkipToken, SkipUnknownStem, SaveArticle, IsOriginal, IsDuplicate, NextArticle
    <3>2. ASSUME NEW s \in stems, NEW tok PROVE IsTokenOf(tok, s)' <=> IsTokenOf(tok, s)
      <4>1. \A k \in DOMAIN articles : \A i \in DOMAIN articles[k] :
                Occurs(s, k, i)' <=> Occurs(s, k, i)
        BY <2>1, <2>3 DEF AtHand
      <4> HIDE DEF Occurs
      <4> QED BY <2>1, <4>1 DEF IsTokenOf
    <3> HIDE DEF IsTokenOf
    <3> QED BY <2>1, <2>2, <3>1, <3>2 DEF TokensInv
  <2>4. CASE ProcessToken
    <3>0. PICK token, r, id :
              token = articles[idx][tidx] /\ r = StemOf(token) /\ id = StemId(r)
      OBVIOUS
    <3>1. /\ r \in stems /\ id \in StemIds
          /\ tokensOf' = [tokensOf EXCEPT ![id] = @ \cup {Lower[token]}]
      BY <2>4, <3>0, ProcessTokenEffect
    <3>2. idx \in DOMAIN articles /\ tidx \in DOMAIN articles[idx]
      <4>1. pc = "tokens" /\ tidx <= Len(articles[idx])
        BY <2>4 DEF ProcessToken
      <4> QED BY <4>1, TokenAtHand DEF TypesInv
    <3>3. ASSUME NEW s \in stems, NEW tok
          PROVE  IsTokenOf(tok, s)' <=> IsTokenOf(tok, s) \/ (s = r /\ tok = Lower[token])
      <4>1. \A k \in DOMAIN articles : \A i \in DOMAIN articles[k] :
                Occurs(s, k, i)' <=> Occurs(s, k, i) \/ (k = idx /\ i = tidx /\ s = r)
        BY <2>1, <2>4, <3>0 DEF AtHand
      <4> HIDE DEF Occurs
      <4> QED BY <2>1, <4>1, <3>0, <3>2 DEF IsTokenOf
    <3>4. ASSUME NEW s \in StemsWithRoom, NEW tok
          PROVE  tok \in tokensOf'[StemId(s)] <=>
                     tok \in tokensOf[StemId(s)] \/ (s = r /\ tok = Lower[token])
      <4>1. /\ StemId(s) \in StemIds /\ (StemId(s) = id <=> s = r)
            /\ tokensOf \in [StemIds -> SUBSET Tokens]
        BY <3>0, <3>1, StemIdsType DEF TypesInv, VocabularyTypeOK, StemsWithRoom, HasRoom
      <4> QED BY <3>1, <4>1
    <3> HIDE DEF IsTokenOf
    <3> QED BY <2>1, <2>2, <3>3, <3>4 DEF TokensInv
  <2> QED BY <2>3, <2>4
<1> QED BY <1>1, <1>2

LEMMA TokensInvariant ==
    ASSUME TokensInv
    PROVE  TokensAreByStem
<1> SUFFICES ASSUME NEW s \in StemsWithRoom
             PROVE  tokensOf[StemId(s)] =
                      {Lower[articles[p[1]][p[2]]] : p \in {q \in
                          UNION {{k} \X DOMAIN articles[k] : k \in DOMAIN articles} :
                              Occurs(s, q[1], q[2])}}
  BY DEF TokensAreByStem
<1> DEFINE Pairs == UNION {{k} \X DOMAIN articles[k] : k \in DOMAIN articles}
           Found == {q \in Pairs : Occurs(s, q[1], q[2])}
<1>1. \A k \in DOMAIN articles : \A i \in DOMAIN articles[k] :
          <<k, i>> \in Pairs /\ <<k, i>>[1] = k /\ <<k, i>>[2] = i
  OBVIOUS
<1>2. \A q \in Pairs : q[1] \in DOMAIN articles /\ q[2] \in DOMAIN articles[q[1]]
  OBVIOUS
<1> HIDE DEF Pairs
<1>3. ASSUME NEW tok, IsTokenOf(tok, s) PROVE tok \in {Lower[articles[p[1]][p[2]]] : p \in Found}
  <2>1. PICK k \in DOMAIN articles : \E i \in DOMAIN articles[k] :
            Occurs(s, k, i) /\ tok = Lower[articles[k][i]]
    BY <1>3 DEF IsTokenOf
  <2>2. PICK i \in DOMAIN articles[k] : Occurs(s, k, i) /\ tok = Lower[articles[k][i]]
    BY <2>1
  <2>3. PICK p : p = <<k, i>>
    OBVIOUS
  <2>4. p \in Pairs /\ p[1] = k /\ p[2] = i
    BY <1>1, <2>3
  <2>5. p \in Found /\ tok = Lower[articles[p[1]][p[2]]]
    BY <2>2, <2>4
  <2> QED BY <2>5
<1>4. ASSUME NEW p \in Found PROVE IsTokenOf(Lower[articles[p[1]][p[2]]], s)
  BY <1>2 DEF IsTokenOf
<1>5. \A tok : tok \in tokensOf[StemId(s)] <=> IsTokenOf(tok, s)
  BY DEF TokensInv
<1>6. \A tok : tok \in tokensOf[StemId(s)] <=> tok \in {Lower[articles[p[1]][p[2]]] : p \in Found}
  BY <1>3, <1>4, <1>5
<1> HIDE DEF Found
<1>7. tokensOf[StemId(s)] = {Lower[articles[p[1]][p[2]]] : p \in Found}
  BY <1>6
<1> QED BY <1>7 DEF Found, Pairs

-----------------------------------------------------------------------------
(***************************************************************************)
(* The stem ids of an article: the ids of its known tokens, in its order.  *)
(* The ids are positions among the stems of all the articles, and those no *)
(* longer change in the second loop.                                       *)
(***************************************************************************)
KnownBefore == {i \in 1 .. tidx - 1 : IsKnown(articles[idx][i])}

NamesStem(art, i, id) ==
    i \in DOMAIN art /\ StemOf(art[i]) \in stems /\ StemId(StemOf(art[i])) = id

RecordDecodes(a) ==
    /\ a.stem_ids = StemIdsOf(articles[a.article])
    /\ \A id \in StemIds :
          a.lastToken[id] # 0 => NamesStem(articles[a.article], a.lastToken[id], id)

IdsInv ==
    /\ pc \in {"tokens", "dedup"} =>
          /\ Len(stem_ids) = Cardinality(KnownBefore)
          /\ \A n \in 1 .. Cardinality(KnownBefore) :
                 stem_ids[n] = StemId(StemOf(articles[idx][InOrder(KnownBefore)[n]]))
          /\ \A id \in StemIds : lastToken[id] # 0 => NamesStem(articles[idx], lastToken[id], id)
    /\ \A k \in DOMAIN processed : \A a : a = processed[k] => RecordDecodes(a)

LEMMA KnownBeforeType ==
    ASSUME TypesInv
    PROVE  /\ KnownBefore \in SUBSET Int /\ IsFiniteSet(KnownBefore)
           /\ Cardinality(KnownBefore) \in Nat
           /\ \A i \in KnownBefore : i < tidx
<1>1. tidx \in Nat /\ tidx - 1 \in Int
  BY DEF TypesInv
<1>2. IsFiniteSet(1 .. tidx - 1) /\ KnownBefore \in SUBSET (1 .. tidx - 1)
  BY <1>1, FS_Interval DEF KnownBefore
<1>3. IsFiniteSet(KnownBefore)
  BY <1>2, FS_Subset
<1>4. KnownBefore \in SUBSET Int /\ \A i \in KnownBefore : i < tidx
  BY <1>1 DEF KnownBefore
<1> QED BY <1>3, <1>4, FS_CardinalityType

\* Nothing is known before the first token.
LEMMA IdsOfNothing ==
    ASSUME tidx = 1, stem_ids = <<>>, lastToken = NoLastToken
    PROVE  /\ Len(stem_ids) = Cardinality(KnownBefore)
           /\ \A n \in 1 .. Cardinality(KnownBefore) :
                  stem_ids[n] = StemId(StemOf(articles[idx][InOrder(KnownBefore)[n]]))
           /\ \A id \in StemIds : lastToken[id] # 0 => NamesStem(articles[idx], lastToken[id], id)
<1>1. KnownBefore = {}
  BY DEF KnownBefore
<1>2. Cardinality(KnownBefore) = 0
  BY <1>1, FS_EmptySet
<1> QED BY <1>2 DEF NoLastToken

\* At the end of an article, its stem ids are those of the whole article.
LEMMA IdsAtEnd ==
    ASSUME TypesInv, LoopsInv, IdsInv, pc = "dedup"
    PROVE  stem_ids = StemIdsOf(articles[idx])
<1>1. DOMAIN articles[idx] = 1 .. tidx - 1
  <2>1. tidx = Len(articles[idx]) + 1 /\ Len(articles[idx]) \in Nat
        /\ DOMAIN articles[idx] = 1 .. Len(articles[idx])
    BY TokenAtHand DEF LoopsInv
  <2>2. tidx - 1 = Len(articles[idx])
    BY <2>1
  <2> QED BY <2>1, <2>2
<1>2. {i \in DOMAIN articles[idx] : IsKnown(articles[idx][i])} = KnownBefore
  BY <1>1 DEF KnownBefore
<1>3. DOMAIN InOrder(KnownBefore) = 1 .. Cardinality(KnownBefore)
  BY KnownBeforeType, InOrderLists
<1>4. KnownTokens(articles[idx]) =
          [n \in 1 .. Cardinality(KnownBefore) |-> articles[idx][InOrder(KnownBefore)[n]]]
  BY <1>2, <1>3 DEF KnownTokens
<1>5. StemIdsOf(articles[idx]) =
          [n \in 1 .. Cardinality(KnownBefore) |->
              StemId(StemOf(articles[idx][InOrder(KnownBefore)[n]]))]
  BY <1>4 DEF StemIdsOf
<1>6. stem_ids \in [1 .. Cardinality(KnownBefore) -> StemIds]
  BY LenProperties DEF IdsInv, TypesInv
<1>7. \A n \in 1 .. Cardinality(KnownBefore) :
          stem_ids[n] = StemId(StemOf(articles[idx][InOrder(KnownBefore)[n]]))
  BY DEF IdsInv
<1> QED BY <1>5, <1>6, <1>7

LEMMA InitIds == ASSUME LoopsInv, pc \in {"load", "failed"} PROVE IdsInv
BY DEF LoopsInv, IdsInv

LEMMA NextIds ==
    ASSUME TypesInv, LoopsInv, IdsInv, LoopStep \/ LaterStep \/ UNCHANGED vars
    PROVE  IdsInv'
<1> USE DEF vocabulary, parsing, store
<1> DEFINE Current == /\ Len(stem_ids) = Cardinality(KnownBefore)
                      /\ \A n \in 1 .. Cardinality(KnownBefore) :
                            stem_ids[n] = StemId(StemOf(articles[idx][InOrder(KnownBefore)[n]]))
                      /\ \A id \in StemIds : lastToken[id] # 0 =>
                            NamesStem(articles[idx], lastToken[id], id)
<1>1. CASE pc' \in {"load", "failed"}
  <2>1. LoopsInv' /\ (pc \in {"load", "failed"})' => IdsInv'
    BY InitIds, PTL
  <2> QED BY <2>1, <1>1, NextTypes
<1>2. CASE pc' \notin {"load", "failed"}
  <2>0. ~LoadValid
    BY <1>2 DEF LoadValid
  <2>1. UNCHANGED <<stems, articles>>
    BY <2>0, OccursNext, SMTT(40)
  <2>2. /\ \A a : RecordDecodes(a) => RecordDecodes(a)'
        /\ \A s : StemId(s)' = StemId(s)
        /\ \A token : IsKnown(token)' <=> IsKnown(token)
    BY <2>1 DEF RecordDecodes, NamesStem, StemIdsOf, KnownTokens, IsKnown, StemId
  <2>3. tidx' = 1 /\ stem_ids' = <<>> /\ lastToken' = NoLastToken => Current'
    <3>1. (tidx = 1 /\ stem_ids = <<>> /\ lastToken = NoLastToken)' => Current'
      BY IdsOfNothing, PTL
    <3>2. NoLastToken' = NoLastToken
      BY DEF NoLastToken
    <3> QED BY <3>1, <3>2
  <2>4. UNCHANGED <<idx, tidx, stem_ids, lastToken>> /\ Current => Current'
    BY <2>1, <2>2 DEF KnownBefore, NamesStem, IsKnown, StemId
  <2> HIDE DEF Current
  <2>5. CASE EndOfLoad
    <3>1. processed' = <<>> /\ tidx' = 1 /\ stem_ids' = <<>> /\ lastToken' = NoLastToken
      BY <2>5 DEF EndOfLoad, LoopsInv
    <3> QED BY <3>1, <2>3 DEF IdsInv, Current
  <2>6. CASE SkipToken \/ SkipUnknownStem
    <3>1. /\ pc = "tokens" /\ tidx' = tidx + 1 /\ ~IsKnown(articles[idx][tidx])
          /\ UNCHANGED <<pc, idx, stem_ids, lastToken, processed>>
      BY <2>6 DEF SkipToken, SkipUnknownStem, IsKnown
    <3>2. KnownBefore' = KnownBefore
      <4>1. tidx \in Nat \ {0}
        BY DEF TypesInv
      <4>2. \A i : i \in 1 .. (tidx + 1) - 1 <=> i \in 1 .. tidx - 1 \/ i = tidx
        BY <4>1
      <4> QED BY <2>1, <3>1, <4>2 DEF KnownBefore, IsKnown
    <3>3. Current => Current'
      BY <2>1, <2>2, <3>1, <3>2 DEF Current, NamesStem, StemId
    <3> QED BY <2>2, <3>1, <3>3 DEF IdsInv, Current
  <2>7. CASE ProcessToken
    <3>0. PICK token, id, i :
              token = articles[idx][tidx] /\ id = StemId(StemOf(token)) /\ i = tidx
      OBVIOUS
    <3>1. /\ token \in Tokens /\ HasStem(token) /\ StemOf(token) \in stems /\ id \in StemIds
          /\ stem_ids' = Append(stem_ids, id)
          /\ lastToken' = [lastToken EXCEPT ![id] = tidx]
      BY <2>7, <3>0, ProcessTokenEffect
    <3>2. pc = "tokens" /\ tidx' = tidx + 1 /\ UNCHANGED <<pc, idx, processed>>
          /\ tidx <= Len(articles[idx])
      BY <2>7 DEF ProcessToken
    <3>3. tidx \in DOMAIN articles[idx] /\ tidx \in Nat \ {0}
      BY <3>2, TokenAtHand DEF TypesInv
    <3>4. PICK KB : KB = KnownBefore
      OBVIOUS
    <3>5. /\ KB \in SUBSET Int /\ IsFiniteSet(KB) /\ Cardinality(KB) \in Nat
          /\ \A x \in KB : x < i
          /\ i \in Int /\ i \notin KB
      BY <3>0, <3>3, <3>4, KnownBeforeType
    <3>6. KnownBefore' = KB \cup {i}
      <4>1. \A j : j \in 1 .. (tidx + 1) - 1 <=> j \in 1 .. tidx - 1 \/ j = tidx
        BY <3>3
      <4>2. IsKnown(articles[idx][tidx])
        BY <3>0, <3>1 DEF IsKnown
      <4> QED BY <2>1, <3>0, <3>2, <3>4, <4>1, <4>2 DEF KnownBefore, IsKnown
    <3>7. InOrder(KB \cup {i}) = Append(InOrder(KB), i) /\ Cardinality(KB \cup {i}) = Cardinality(KB) + 1
      BY <3>5, InOrderAppend, FS_AddElement
    <3>8. InOrder(KB) \in Seq(Int) /\ Len(InOrder(KB)) = Cardinality(KB)
      <4>1. InOrder(KB) \in Seq(KB) /\ Len(InOrder(KB)) = Cardinality(KB)
        BY <3>5, InOrderLists
      <4>2. InOrder(KB) \in [1 .. Cardinality(KB) -> Int]
        BY <3>5, <4>1, LenProperties
      <4> QED BY <3>5, <4>1, <4>2, SeqDef
    <3>9. /\ Len(stem_ids) = Cardinality(KB)
          /\ \A n \in 1 .. Cardinality(KB) : stem_ids[n] = StemId(StemOf(articles[idx][InOrder(KB)[n]]))
          /\ stem_ids \in Seq(StemIds)
      BY <3>2, <3>4 DEF IdsInv, TypesInv
    <3>10. /\ Len(stem_ids') = Cardinality(KB) + 1
           /\ \A n \in 1 .. Cardinality(KB) : stem_ids'[n] = stem_ids[n]
           /\ stem_ids'[Cardinality(KB) + 1] = id
      BY <3>1, <3>9, AppendProperties
    <3>11. /\ \A n \in 1 .. Cardinality(KB) : InOrder(KB \cup {i})[n] = InOrder(KB)[n]
           /\ InOrder(KB \cup {i})[Cardinality(KB) + 1] = i
      <4>1. ASSUME NEW f \in Seq(Int)
            PROVE  /\ \A n \in 1 .. Len(f) : Append(f, i)[n] = f[n]
                   /\ Append(f, i)[Len(f) + 1] = i
        BY <3>5, AppendProperties
      <4> QED BY ONLY <4>1, <3>7, <3>8
    <3>12. \A n \in 1 .. Cardinality(KB) + 1 :
               stem_ids'[n] = StemId(StemOf(articles[idx][InOrder(KB \cup {i})[n]]))
      <4> SUFFICES ASSUME NEW n \in 1 .. Cardinality(KB) + 1
                   PROVE  stem_ids'[n] = StemId(StemOf(articles[idx][InOrder(KB \cup {i})[n]]))
        OBVIOUS
      <4>1. n \in 1 .. Cardinality(KB) \/ n = Cardinality(KB) + 1
        BY <3>5
      <4>2. CASE n \in 1 .. Cardinality(KB)
        BY <4>2, <3>9, <3>10, <3>11
      <4>3. CASE n = Cardinality(KB) + 1
        BY <4>3, <3>0, <3>10, <3>11
      <4> QED BY <4>1, <4>2, <4>3
    <3>13. ASSUME NEW j \in StemIds, lastToken'[j] # 0
           PROVE  NamesStem(articles[idx], lastToken'[j], j)
      <4>1. CASE j = id
        <5>1. lastToken'[j] = tidx
          BY <3>1, <4>1 DEF TypesInv
        <5> QED BY <3>0, <3>1, <3>3, <4>1, <5>1 DEF NamesStem
      <4>2. CASE j # id
        <5>1. lastToken'[j] = lastToken[j]
          BY <3>1, <4>2 DEF TypesInv
        <5> QED BY <3>2, <3>13, <5>1 DEF IdsInv
      <4> QED BY <4>1, <4>2
    <3>14. Current'
      BY <2>1, <2>2, <3>2, <3>6, <3>7, <3>10, <3>12, <3>13 DEF Current, NamesStem, StemId
    <3> QED BY <2>2, <3>2, <3>14 DEF IdsInv, Current
  <2>8. CASE SaveArticle \/ UNCHANGED vars
    <3>1. /\ UNCHANGED <<idx, tidx, stem_ids, lastToken, processed>>
          /\ pc' \in {"tokens", "dedup"} => pc \in {"tokens", "dedup"}
      BY <2>8 DEF SaveArticle, vars
    <3> QED BY <2>2, <2>4, <3>1 DEF IdsInv, Current
  <2>9. CASE IsOriginal \/ IsDuplicate
    <3>1. /\ pc = "dedup" /\ tidx' = 1 /\ stem_ids' = <<>> /\ lastToken' = NoLastToken
      BY <2>9 DEF IsOriginal, IsDuplicate, NextArticle
    <3>2. ASSUME NEW k \in DOMAIN processed', NEW a, a = processed'[k] PROVE RecordDecodes(a)
      <4>1. CASE IsDuplicate
        BY <3>2, <4>1 DEF IsDuplicate, IdsInv
      <4>2. CASE IsOriginal
        <5> DEFINE new == [article |-> idx, stem_ids |-> stem_ids, lastToken |-> lastToken]
        <5>1. processed' = Append(processed, new) /\ processed \in Seq(Record) /\ new \in Record
          BY <4>2, <3>1, TokenAtHand DEF IsOriginal, TypesInv, Record
        <5>2. RecordDecodes(new)
          BY <3>1, IdsAtEnd DEF RecordDecodes, IdsInv
        <5> HIDE DEF new
        <5>3. (k \in DOMAIN processed /\ processed'[k] = processed[k]) \/ processed'[k] = new
          BY <3>2, <5>1, AppendProperties, LenProperties
        <5> QED BY <3>2, <5>2, <5>3 DEF IdsInv
      <4> QED BY <2>9, <4>1, <4>2
    <3> QED BY <2>2, <2>3, <3>1, <3>2 DEF IdsInv, Current
  <2>10. CASE LaterStep
    BY <2>2, <2>10 DEF LaterStep, IdsInv
  <2>11. CASE LoadInvalid \/ LoadMalformed
    BY <2>11, <1>2 DEF LoadInvalid, LoadMalformed
  <2> QED BY <2>0, <2>5, <2>6, <2>7, <2>8, <2>9, <2>10, <2>11 DEF LoopStep
<1> QED BY <1>1, <1>2

\* Each id an article stored leads back to the stem of its token.
LEMMA IdsDecode ==
    ASSUME TypesInv, IdsInv
    PROVE  StoredIdsDecode
<1> SUFFICES ASSUME NEW k \in DOMAIN processed, NEW a, a = processed[k]
             PROVE  /\ [i \in DOMAIN a.stem_ids |-> StemAt(a.stem_ids[i])]
                            = KnownStems(articles[a.article])
                    /\ \A id \in StemIds : a.lastToken[id] # 0 =>
                            StemOf(articles[a.article][a.lastToken[id]]) = StemAt(id)
  BY DEF StoredIdsDecode
<1>1. RecordDecodes(a)
  BY DEF IdsInv
<1>2. a \in Record
  BY LenProperties DEF TypesInv
<1>3. \A s \in stems : StemAt(StemId(s)) = s
  BY StemIdsType DEF TypesInv, VocabularyTypeOK
<1> DEFINE art == articles[a.article]
<1>4. art \in Seq(Tokens)
  <2>1. articles \in [DOMAIN articles -> Seq(Tokens)]
    BY LenProperties DEF TypesInv
  <2> QED BY <2>1, <1>2 DEF Record
<1> HIDE DEF art
<1>5. \A i \in DOMAIN KnownTokens(art) : StemOf(KnownTokens(art)[i]) \in stems
  <2> DEFINE S == {i \in DOMAIN art : IsKnown(art[i])}
  <2>1. S \in SUBSET Int /\ IsFiniteSet(S)
    <3>1. DOMAIN art = 1 .. Len(art) /\ Len(art) \in Nat
      BY <1>4, LenProperties
    <3>2. IsFiniteSet(1 .. Len(art)) /\ S \in SUBSET (1 .. Len(art))
      BY <3>1, FS_Interval
    <3> QED BY <3>2, FS_Subset
  <2>2. /\ DOMAIN InOrder(S) = 1 .. Cardinality(S)
        /\ \A n \in 1 .. Cardinality(S) : InOrder(S)[n] \in S
    BY <2>1, InOrderLists
  <2>3. KnownTokens(art) = [n \in 1 .. Cardinality(S) |-> art[InOrder(S)[n]]]
    BY <2>2 DEF KnownTokens
  <2> QED BY <2>2, <2>3 DEF IsKnown
<1>6. a.stem_ids = [i \in DOMAIN KnownTokens(art) |-> StemId(StemOf(KnownTokens(art)[i]))]
  BY <1>1 DEF RecordDecodes, StemIdsOf, art
<1>7. [i \in DOMAIN a.stem_ids |-> StemAt(a.stem_ids[i])] = KnownStems(art)
  BY <1>3, <1>5, <1>6 DEF KnownStems
<1>8. ASSUME NEW id \in StemIds, a.lastToken[id] # 0
      PROVE  StemOf(art[a.lastToken[id]]) = StemAt(id)
  <2>1. NamesStem(art, a.lastToken[id], id)
    BY <1>1, <1>8 DEF RecordDecodes, art
  <2> QED BY <2>1, <1>3 DEF NamesStem
<1> QED BY <1>7, <1>8 DEF art

-----------------------------------------------------------------------------
BatchInv == TypesInv /\ LoopsInv /\ CountsInv /\ TokensInv /\ IdsInv

LEMMA InitBatch == Init => BatchInv
<1> SUFFICES ASSUME Init PROVE BatchInv
  OBVIOUS
<1>1. TypesInv /\ LoopsInv /\ pc = "load"
  BY InitTypes DEF Init
<1> QED BY <1>1, CountsAtFirst, TokensAtFirst, InitIds DEF BatchInv

LEMMA NextBatch ==
    ASSUME BatchInv, LoopStep \/ LaterStep \/ UNCHANGED vars
    PROVE  BatchInv'
BY NextTypes, NextCounts, NextTokens, NextIds DEF BatchInv

\* A batch that an assertion ends moves only pc.
LEMMA AbortIsLaterStep == ASSUME ProcessTokenAborts PROVE LaterStep
BY DEF ProcessTokenAborts, LaterStep

LEMMA BatchSteps == ASSUME [Next]_vars PROVE LoopStep \/ LaterStep \/ UNCHANGED vars
BY AbortIsLaterStep DEF Next, LoopStep, LaterStep, CreateClusters

LEMMA BatchInvHolds == Spec => []BatchInv
<1>1. BatchInv /\ [Next]_vars => BatchInv'
  BY NextBatch, BatchSteps
<1> QED BY <1>1, InitBatch, PTL DEF Spec

LEMMA BatchInvariants ==
    ASSUME BatchInv
    PROVE  FreqGrowsByArticles /\ TokensAreByStem /\ StoredIdsDecode
BY TokensInvariant, IdsDecode DEF BatchInv, CountsInv

PcInv == pc \in {"load", "tokens", "dedup", "cluster", "done", "failed", "aborted"}

LEMMA NextPc == ASSUME PcInv, [Next]_vars PROVE PcInv'
<1>1. pc' \in {"load", "tokens", "dedup", "cluster", "done", "failed", "aborted", pc}
  BY DEF Next, vars, LoadValid, LoadInvalid, LoadMalformed, EndOfLoad, SkipToken,
         SkipUnknownStem, ProcessToken, ProcessTokenAborts, SaveArticle, IsOriginal,
         IsDuplicate, NextArticle, CreateClusters
<1> QED BY <1>1 DEF PcInv

LEMMA BatchTypes == ASSUME BatchInv, PcInv PROVE TypeOK
BY DEF BatchInv, PcInv, TypesInv, TypeOK, Record

\* Types: every index names an article or a token of it, every stem id fits the
\* arrays, and what is stored belongs to an article of the file.
THEOREM Typing == Spec => []TypeOK
<1>1. Init => PcInv
  BY DEF Init, PcInv
<1>2. PcInv /\ [Next]_vars => PcInv'
  BY NextPc
<1>3. BatchInv /\ PcInv => TypeOK
  BY BatchTypes
<1> QED BY <1>1, <1>2, <1>3, BatchInvHolds, PTL DEF Spec

\* At every token, a stem's counter is what it was at first plus the number of
\* articles the stem was met in.
THEOREM FrequenciesCountArticles == Spec => []FreqGrowsByArticles
BY BatchInvHolds, BatchInvariants, PTL

\* get_tokens answers the tokens of the stem it is asked about, and all of them.
THEOREM TokensBelongToStems == Spec => []TokensAreByStem
BY BatchInvHolds, BatchInvariants, PTL

\* The stem ids stored for an article decode to its stems, at clustering as at
\* the moment they were computed.
THEOREM StemIdsDecode == Spec => []StoredIdsDecode
BY BatchInvHolds, BatchInvariants, PTL

-----------------------------------------------------------------------------
(***************************************************************************)
(* Part 2: Clustering.                                                     *)
(***************************************************************************)

\* create_clusters only reads what the loops of the batch left.
LEMMA ClusteringSteps ==
    ASSUME [ClusteringNext]_<<batch, clustering>>
    PROVE  LoopStep \/ LaterStep \/ UNCHANGED vars
<1>1. CASE BatchLoops
  BY <1>1, AbortIsLaterStep DEF BatchLoops, LoopStep
<1>2. CASE RunSVD \/ AssertionInBuild \/ AssertionInThreshold \/ GetDocsKeywords
  BY <1>2 DEF RunSVD, AssertionInBuild, AssertionInThreshold, GetDocsKeywords, LaterStep,
              batchRest
<1> QED BY <1>1, <1>2 DEF ClusteringNext, batch

LEMMA ClusteringKeepsBatchInv == ClusteringSpec => []BatchInv
<1>1. ClusteringInit => BatchInv
  BY InitBatch DEF ClusteringInit
<1>2. BatchInv /\ [ClusteringNext]_<<batch, clustering>> => BatchInv'
  BY ClusteringSteps, NextBatch
<1> QED BY <1>1, <1>2, PTL DEF ClusteringSpec

\* The rows: stem ids in ascending order, none twice, at most one behind the
\* last stem's.
LEMMA TermIdsType ==
    ASSUME TypesInv
    PROVE  /\ stems_no \in Nat
           /\ TermIds \in SUBSET Int /\ IsFiniteSet(TermIds)
           /\ InOrder(TermIds) \in Seq(0 .. stems_no)
           /\ Len(InOrder(TermIds)) = Cardinality(TermIds)
           /\ Cardinality(TermIds) \in Nat
           /\ Cardinality(TermIds) > stems_no => stems_no \in TermIds
<1>1. stems_no \in Nat
  BY StemIdsType DEF TypesInv, VocabularyTypeOK, stems_no
<1>2. TermIds \in SUBSET (0 .. stems_no)
  BY DEF TermIds
<1> QED BY <1>1, <1>2, InOrderOfIds

\* The matrix is built once, and what it is built from stays.
ClusterInv ==
    /\ pc \in {"load", "tokens", "dedup", "cluster", "svd", "done", "failed", "aborted"}
    /\ terms_mat_to_vocab \in Seq(0 .. stems_no)
    /\ Len(term_doc_mat) \in {0, Len(processed)}
    /\ concepts_no \in 0 .. Len(processed)
    /\ Len(docs_keywords) \in {0, Len(processed)}
    /\ pc \notin {"svd", "done", "aborted"} =>
          /\ terms_mat_to_vocab = <<>> /\ term_doc_mat = <<>>
          /\ concepts_no = 0 /\ docs_keywords = <<>>
    /\ pc = "svd" =>
          /\ processed # <<>> /\ stems_no < MaxStemsNo
          /\ terms_mat_to_vocab = InOrder(TermIds)
          /\ concepts_no \in ConceptsNo(Len(terms_mat_to_vocab), Len(processed))

LEMMA InitClustering == ClusteringInit => ClusterInv /\ AbortsOnlyWhenFew
<1> SUFFICES ASSUME ClusteringInit PROVE ClusterInv /\ AbortsOnlyWhenFew
  OBVIOUS
<1>1. /\ processed = <<>> /\ terms_mat_to_vocab = <<>> /\ term_doc_mat = <<>>
      /\ docs_keywords = <<>> /\ concepts_no = 0 /\ pc = "load"
  BY DEF ClusteringInit, Init, InitLSA
<1>2. <<>> \in Seq(0 .. stems_no) /\ Len(<<>>) = 0
  BY EmptySeq
<1> QED BY <1>1, <1>2 DEF ClusterInv, AbortsOnlyWhenFew

LEMMA NextClustering ==
    ASSUME BatchInv, BatchInv', ClusterInv, AbortsOnlyWhenFew,
           [ClusteringNext]_<<batch, clustering>>
    PROVE  ClusterInv' /\ AbortsOnlyWhenFew'
<1> USE DEF vocabulary, parsing, store, lsa, clustering, batchRest
<1>0. TypesInv /\ TypesInv' /\ Len(processed) \in Nat /\ Len(processed') \in Nat
      /\ DOMAIN processed = 1 .. Len(processed)
  <2>1. TypesInv /\ TypesInv'
    BY DEF BatchInv
  <2> QED BY <2>1, LenProperties DEF TypesInv
<1>1. CASE BatchLoops /\ ~ProcessTokenAborts
  <2>1. /\ pc \in {"load", "tokens", "dedup"}
        /\ pc' \in {"load", "tokens", "dedup", "cluster", "failed"}
        /\ UNCHANGED clustering
    BY <1>1 DEF BatchLoops, LoadValid, LoadInvalid, LoadMalformed, EndOfLoad, SkipToken,
           SkipUnknownStem, ProcessToken, SaveArticle, IsOriginal, IsDuplicate, NextArticle
  <2>2. terms_mat_to_vocab' = <<>> /\ term_doc_mat' = <<>> /\ concepts_no' = 0 /\ docs_keywords' = <<>>
    BY <2>1 DEF ClusterInv
  <2>3. <<>> \in Seq(0 .. stems_no') /\ Len(<<>>) = 0
    BY EmptySeq
  <2> QED BY <1>0, <2>1, <2>2, <2>3 DEF ClusterInv, AbortsOnlyWhenFew
<1>7. CASE ProcessTokenAborts /\ UNCHANGED clustering
  <2>1. /\ pc = "tokens" /\ tidx <= Len(articles[idx]) /\ pc' = "aborted"
        /\ IsKnown(articles[idx][tidx]) /\ ~HasRoom(StemId(StemOf(articles[idx][tidx])))
        /\ UNCHANGED <<stems, processed, clustering>>
    BY <1>7 DEF ProcessTokenAborts
  <2>2. PICK s \in stems : ~HasRoom(StemId(s))
    BY <2>1 DEF IsKnown
  <2>3. stems_no \in Nat /\ MaxStemsNo \in Nat /\ stems_no >= MaxStemsNo
    BY <1>0, <2>2, StemIdsType DEF TypesInv, VocabularyTypeOK, stems_no
  <2>4. stems_no' = stems_no
    BY <2>1 DEF stems_no
  <2> QED BY <2>1, <2>3, <2>4 DEF ClusterInv, AbortsOnlyWhenFew
<1>2. CASE RunSVD
  <2>1. /\ pc = "cluster" /\ pc' = "svd" /\ ArticleIds # <<>> /\ ~(stems_no >= MaxStemsNo)
        /\ UNCHANGED <<batchRest, docs_keywords>>
        /\ BuildTermDocMatrix(ArticleIds)
        /\ concepts_no' \in ConceptsNo(Len(terms_mat_to_vocab'), Len(processed))
    BY <1>2 DEF RunSVD, BuildAborts
  <2>2. terms_mat_to_vocab = <<>> /\ docs_keywords = <<>>
    BY <2>1 DEF ClusterInv
  <2>3. terms_mat_to_vocab' = InOrder(TermIds) /\ InOrder(TermIds) \in Seq(0 .. stems_no)
    <3>1. InOrder(TermIds) \in Seq(0 .. stems_no)
      BY <1>0, TermIdsType
    <3>2. terms_mat_to_vocab' = <<>> \o InOrder(TermIds)
      BY <2>1, <2>2 DEF BuildTermDocMatrix
    <3> QED BY <3>1, <3>2, ConcatEmptySeq
  <2>4. Len(term_doc_mat') = Len(processed)
    <3>1. PICK past \in Beyond :
              term_doc_mat' = [c \in DOMAIN ArticleIds |->
                                  Column(terms_mat_to_vocab', ArticleIds[c], past)]
      BY <2>1 DEF BuildTermDocMatrix
    <3>2. DOMAIN ArticleIds = 1 .. Len(processed)
      BY <1>0 DEF ArticleIds
    <3> DEFINE S == {Column(terms_mat_to_vocab', ArticleIds[c], past) : c \in 1 .. Len(processed)}
    <3>3. term_doc_mat' \in [1 .. Len(processed) -> S]
      BY <3>1, <3>2
    <3> QED BY <1>0, <3>3, SeqDef, LenProperties
  <2>5. processed # <<>> /\ UNCHANGED <<stems, stems_freq, processed>>
    <3>1. UNCHANGED <<stems, stems_freq, processed>>
      BY <2>1
    <3>2. ASSUME processed = <<>> PROVE ArticleIds = <<>>
      BY <3>2 DEF ArticleIds
    <3> QED BY <2>1, <3>1, <3>2
  <2>6. concepts_no' \in 0 .. Len(processed)
    <3>1. Len(terms_mat_to_vocab') \in Nat
      BY <2>3, LenProperties
    <3> QED BY <1>0, <2>1, <3>1 DEF ConceptsNo
  <2>7. stems_no' = stems_no /\ TermIds' = TermIds /\ InOrder(TermIds)' = InOrder(TermIds)
    BY <2>5 DEF stems_no, TermIds
  <2>8. stems_no \in Nat /\ stems_no < MaxStemsNo
    BY <2>1, <1>0, TermIdsType, VocabularyAssumption
  <2> QED BY <1>0, <2>1, <2>2, <2>3, <2>4, <2>5, <2>6, <2>7, <2>8
          DEF ClusterInv, AbortsOnlyWhenFew
<1>3. CASE AssertionInBuild
  <2>1. /\ pc = "cluster" /\ pc' = "aborted" /\ (ArticleIds = <<>> \/ stems_no >= MaxStemsNo)
        /\ UNCHANGED <<batchRest, clustering>>
    BY <1>3 DEF AssertionInBuild, BuildAborts
  <2>2. UNCHANGED <<stems, stems_freq, processed, freq0>> /\ stems_no' = stems_no
    BY <2>1 DEF stems_no
  <2>3. ArticleIds = <<>> => Len(processed) < MinConcepts
    <3> SUFFICES ASSUME ArticleIds = <<>> PROVE Len(processed) < MinConcepts
      OBVIOUS
    <3>1. DOMAIN processed = {}
      BY DEF ArticleIds
    <3>2. Len(processed) = 0
      BY <1>0, <3>1
    <3> QED BY <3>2, ClusteringAssumption
  <2>5. AbortsOnlyWhenFew'
    BY <2>1, <2>2, <2>3 DEF AbortsOnlyWhenFew
  <2> QED BY <2>1, <2>2, <2>5 DEF ClusterInv
<1>4. CASE AssertionInThreshold
  <2>1. /\ pc = "svd" /\ pc' = "aborted" /\ concepts_no < MinConcepts
        /\ UNCHANGED <<batchRest, clustering>>
    BY <1>4 DEF AssertionInThreshold
  <2>2. UNCHANGED <<stems, stems_freq, processed, freq0>> /\ stems_no' = stems_no
    BY <2>1 DEF stems_no
  <2>3. concepts_no \in {Len(processed), Len(terms_mat_to_vocab)}
    BY <2>1 DEF ClusterInv, ConceptsNo
  <2>4. AbortsOnlyWhenFew'
    BY <2>1, <2>2, <2>3 DEF AbortsOnlyWhenFew
  <2> QED BY <2>1, <2>2, <2>4 DEF ClusterInv
<1>5. CASE GetDocsKeywords
  <2>1. /\ pc = "svd" /\ pc' \in {"done", "aborted"}
        /\ docs_keywords' \in [DOMAIN processed -> Keywords]
        /\ pc' = "aborted" =>
              \E d \in DOMAIN processed : \E k \in docs_keywords'[d] : ~HasWord(k)
        /\ UNCHANGED <<batchRest, lsa, concepts_no>>
    BY <1>5 DEF GetDocsKeywords
  <2>2. UNCHANGED <<stems, stems_freq, processed, freq0>> /\ stems_no' = stems_no
    BY <2>1 DEF stems_no
  <2>3. Len(docs_keywords') = Len(processed)
    BY <1>0, <2>1, SeqDef, LenProperties
  <2>4. ASSUME pc' = "aborted"
        PROVE  freq0[stems_no] \in TfThreshold + 1 .. MaxFreq - 1
    <3>1. PICK d \in DOMAIN processed : \E k \in docs_keywords'[d] : ~(k < stems_no)
      BY <2>1, <2>4 DEF HasWord
    <3>2. PICK r \in DOMAIN terms_mat_to_vocab : ~(r - 1 < stems_no)
      BY <2>1, <3>1 DEF Keywords
    <3>3. /\ terms_mat_to_vocab = InOrder(TermIds) /\ stems_no < MaxStemsNo
          /\ DOMAIN terms_mat_to_vocab = 1 .. Cardinality(TermIds)
      BY <2>1, <1>0, TermIdsType, LenProperties DEF ClusterInv
    <3>4. stems_no \in Nat /\ Cardinality(TermIds) \in Nat
      BY <1>0, TermIdsType
    <3>5. Cardinality(TermIds) > stems_no
      BY <3>2, <3>3, <3>4
    <3>6. stems_no \in TermIds
      BY <1>0, <3>5, TermIdsType
    <3>7. stems_no \in StemIds
      BY <3>3, <3>4, VocabularyAssumption DEF StemIds
    <3>8. stems_freq[stems_no] = freq0[stems_no] /\ freq0[stems_no] \in Int
      BY <1>0, <3>4, <3>7 DEF BatchInv, CountsInv, TypesInv, stems_no
    <3>9. stems_freq[stems_no] > TfThreshold /\ stems_freq[stems_no] < MaxFreq
      BY <3>6 DEF TermIds
    <3> QED BY <3>8, <3>9, LSAAssumption
  <2>5. AbortsOnlyWhenFew'
    BY <2>2, <2>4 DEF AbortsOnlyWhenFew
  <2>6. ClusterInv'
    BY <2>1, <2>2, <2>3 DEF ClusterInv
  <2> QED BY <2>5, <2>6
<1>6. CASE UNCHANGED <<batch, clustering>>
  <2>1. UNCHANGED <<pc, stems, stems_freq, processed, freq0, clustering>>
    BY <1>6 DEF batch, vars
  <2>2. stems_no' = stems_no /\ TermIds' = TermIds /\ InOrder(TermIds)' = InOrder(TermIds)
    BY <2>1 DEF stems_no, TermIds
  <2> QED BY <2>1, <2>2 DEF ClusterInv, AbortsOnlyWhenFew
<1> QED BY <1>1, <1>2, <1>3, <1>4, <1>5, <1>6, <1>7 DEF ClusteringNext, BatchLoops

LEMMA ClusteringInvHolds == ClusteringSpec => [](BatchInv /\ ClusterInv /\ AbortsOnlyWhenFew)
<1>1. BatchInv /\ BatchInv' /\ (ClusterInv /\ AbortsOnlyWhenFew)
          /\ [ClusteringNext]_<<batch, clustering>> => (ClusterInv /\ AbortsOnlyWhenFew)'
  BY NextClustering
<1> QED BY <1>1, InitClustering, ClusteringKeepsBatchInv, PTL DEF ClusteringSpec

-----------------------------------------------------------------------------
(***************************************************************************)
(* The refinement: pc = "svd" is inside CreateClusters, everything else is *)
(* the same, and so are the operators of the two batches.                  *)
(***************************************************************************)
LEMMA AbstractOperators ==
    /\ Abstract!StemIds = StemIds
    /\ Abstract!NoLastToken = NoLastToken
    /\ \A art : Abstract!IsValid(art) <=> IsValid(art)
    /\ \A art : Abstract!ValidStems(art) = ValidStems(art)
    /\ \A token : Abstract!HasStem(token) <=> HasStem(token)
    /\ \A token : Abstract!StemOf(token) = StemOf(token)
    /\ \A s : Abstract!StemId(s) = StemId(s)
    /\ \A id : Abstract!HasRoom(id) <=> HasRoom(id)
    /\ \A token : Abstract!IsKnown(token) <=> IsKnown(token)
    /\ \A art, i : Abstract!ShingleAt(art, i) = ShingleAt(art, i)
<1>1. Abstract!StemIds = StemIds
  BY DEF Abstract!StemIds, StemIds
<1>2. Abstract!NoLastToken = NoLastToken
  BY <1>1 DEF Abstract!NoLastToken, NoLastToken
<1>3. \A S : Abstract!Cardinality(S) = Cardinality(S)
  BY DEF Abstract!Cardinality, Cardinality
<1>4. ASSUME NEW art PROVE Abstract!IsValid(art) <=> IsValid(art)
  <2>1. Abstract!UnknownNo(art) = UnknownNo(art)
    BY <1>3 DEF Abstract!UnknownNo, UnknownNo, Abstract!IsUnknown, IsUnknown
  <2> QED BY <2>1 DEF Abstract!IsValid, IsValid
<1>5. ASSUME NEW art PROVE Abstract!ValidStems(art) = ValidStems(art)
  BY DEF Abstract!ValidStems, ValidStems, Abstract!TokensIn, TokensIn
<1>6. ASSUME NEW token PROVE (Abstract!HasStem(token) <=> HasStem(token))
                             /\ Abstract!StemOf(token) = StemOf(token)
  BY DEF Abstract!HasStem, HasStem, Abstract!StemOf, StemOf
<1>7. ASSUME NEW s PROVE Abstract!StemId(s) = StemId(s)
  BY <1>3 DEF Abstract!StemId, StemId, Abstract!Position, Position
<1>8. ASSUME NEW id PROVE Abstract!HasRoom(id) <=> HasRoom(id)
  BY <1>1 DEF Abstract!HasRoom, HasRoom
<1>9. ASSUME NEW token PROVE Abstract!IsKnown(token) <=> IsKnown(token)
  BY <1>6 DEF Abstract!IsKnown, IsKnown
<1>10. ASSUME NEW art, NEW i PROVE Abstract!ShingleAt(art, i) = ShingleAt(art, i)
  BY DEF Abstract!ShingleAt, ShingleAt
<1> QED BY <1>1, <1>2, <1>4, <1>5, <1>6, <1>7, <1>8, <1>9, <1>10

LEMMA InitAbstract == ClusteringInit => Abstract!Init
BY AbstractOperators DEF ClusteringInit, Init, Abstract!Init, InitVocabulary, Abstract!InitVocabulary,
   TokensMap!Init, Abstract!TokensMap!Init

\* A step of the loops is the same step of the abstract batch.
LEMMA LoopRefines ==
    ASSUME LoopStep, ClusterInv
    PROVE  Abstract!Next
<1> USE AbstractOperators
    DEF Abstract!vocabulary, vocabulary, Abstract!parsing, parsing, Abstract!store, store
<1>1. CASE LoadValid
  BY <1>1 DEF LoadValid, Abstract!LoadValid, AddStems, Abstract!AddStems, Abstract!Next
<1>2. CASE LoadInvalid
  BY <1>2 DEF LoadInvalid, Abstract!LoadInvalid, Abstract!Next
<1>3. CASE LoadMalformed
  BY <1>3 DEF LoadMalformed, Abstract!LoadMalformed, Abstract!Next
<1>4. CASE EndOfLoad
  BY <1>4 DEF EndOfLoad, Abstract!EndOfLoad, Abstract!Next
<1>5. CASE SkipToken
  BY <1>5 DEF SkipToken, Abstract!SkipToken, Abstract!Next
<1>6. CASE SkipUnknownStem
  BY <1>6 DEF SkipUnknownStem, Abstract!SkipUnknownStem, Abstract!Next
<1>7. CASE ProcessToken
  BY <1>7 DEF ProcessToken, Abstract!ProcessToken, Abstract!Next, CountArticle, Abstract!CountArticle,
         RecordToken, Abstract!RecordToken, IncreaseStemFreq, Abstract!IncreaseStemFreq,
         TokensMap!AddToken, Abstract!TokensMap!AddToken
<1>8. CASE SaveArticle
  BY <1>8 DEF SaveArticle, Abstract!SaveArticle, Abstract!Next
<1>9. CASE IsOriginal
  BY <1>9 DEF IsOriginal, Abstract!IsOriginal, NextArticle, Abstract!NextArticle, Abstract!Next
<1>10. CASE IsDuplicate
  BY <1>10 DEF IsDuplicate, Abstract!IsDuplicate, NextArticle, Abstract!NextArticle, Abstract!Next
<1> QED BY <1>1, <1>2, <1>3, <1>4, <1>5, <1>6, <1>7, <1>8, <1>9, <1>10 DEF LoopStep

\* The steps of create_clusters: the matrix is a stutter, the end is the end.
LEMMA CreateClustersRefines ==
    ASSUME ClusterInv, TypesInv,
           RunSVD \/ AssertionInBuild \/ AssertionInThreshold \/ GetDocsKeywords
    PROVE  Abstract!Next \/ UNCHANGED Abstract!vars
<1> USE DEF Abstract!vocabulary, Abstract!parsing, Abstract!store, vocabulary, parsing, store,
            batchRest
<1>1. CASE RunSVD
  BY <1>1 DEF RunSVD, Abstract!vars
<1>2. CASE AssertionInBuild
  BY <1>2 DEF AssertionInBuild, Abstract!CreateClusters, Abstract!Next
<1>3. CASE AssertionInThreshold
  BY <1>3 DEF AssertionInThreshold, Abstract!CreateClusters, Abstract!Next
<1>4. CASE GetDocsKeywords
  <2>1. /\ pc = "svd" /\ pc' \in {"done", "aborted"}
        /\ UNCHANGED batchRest
    BY <1>4 DEF GetDocsKeywords
  <2>2. processed # <<>>
    BY <2>1 DEF ClusterInv
  <2> QED BY <2>1, <2>2 DEF Abstract!CreateClusters, Abstract!Next
<1> QED BY <1>1, <1>2, <1>3, <1>4

LEMMA NextAbstract ==
    ASSUME BatchInv, ClusterInv, [ClusteringNext]_<<batch, clustering>>
    PROVE  [Abstract!Next]_(Abstract!vars)
<1>1. CASE BatchLoops
  <2>1. CASE LoopStep
    BY <2>1, LoopRefines
  <2>2. CASE ProcessTokenAborts
    BY <2>2, AbstractOperators
       DEF ProcessTokenAborts, Abstract!ProcessTokenAborts, Abstract!Next, vocabulary,
           Abstract!vocabulary, parsing, Abstract!parsing, store, Abstract!store
  <2> QED BY <1>1, <2>1, <2>2 DEF BatchLoops, LoopStep
<1>2. CASE RunSVD \/ AssertionInBuild \/ AssertionInThreshold \/ GetDocsKeywords
  BY <1>2, CreateClustersRefines DEF BatchInv
<1>3. CASE UNCHANGED <<batch, clustering>>
  BY <1>3 DEF batch, vars, vocabulary, parsing, store, Abstract!vars, Abstract!vocabulary,
              Abstract!parsing, Abstract!store
<1> QED BY <1>1, <1>2, <1>3 DEF ClusteringNext

\* The batch with every step of create_clusters implements the batch that
\* creates its clusters at once: nothing else moves while the matrix is there.
THEOREM ClusteringImplementsBatch == ClusteringSpec => ImplementsStartupBatch
<1>1. (BatchInv /\ ClusterInv /\ AbortsOnlyWhenFew) /\ [ClusteringNext]_<<batch, clustering>>
          => [Abstract!Next]_(Abstract!vars)
  BY NextAbstract
<1> QED BY <1>1, InitAbstract, ClusteringInvHolds, PTL
        DEF ClusteringSpec, ImplementsStartupBatch, Abstract!Spec

-----------------------------------------------------------------------------
\* The assertions of create_clusters fail only for want of articles or terms,
\* at a full vocabulary, or because of the counter behind the last stem's.
THEOREM AssertionsHold == ClusteringSpec => []AbortsOnlyWhenFew
BY ClusteringInvHolds, PTL

\* What StartupBatch promises holds at every step of create_clusters too.
THEOREM ClusteringKeepsPromises ==
    ClusteringSpec => [](FreqGrowsByArticles /\ TokensAreByStem /\ StoredIdsDecode)
<1>1. BatchInv => FreqGrowsByArticles /\ TokensAreByStem /\ StoredIdsDecode
  BY BatchInvariants
<1> QED BY <1>1, ClusteringKeepsBatchInv, PTL

\* The columns and the keywords are one per article that was kept, the rows
\* fit the counters, and the types of the batch are kept.
THEOREM ClusteringTyping == ClusteringSpec => []ClusteringTypeOK
<1>1. BatchInv /\ ClusterInv => ClusteringTypeOK
  <2> SUFFICES ASSUME BatchInv, ClusterInv PROVE ClusteringTypeOK
    OBVIOUS
  <2>1. TypesInv
    BY DEF BatchInv
  <2>2. Abstract!VocabularyTypeOK
    BY <2>1, AbstractOperators DEF TypesInv, VocabularyTypeOK, Abstract!VocabularyTypeOK
  <2>3. (IF pc = "svd" THEN "cluster" ELSE pc)
            \in {"load", "tokens", "dedup", "cluster", "done", "failed", "aborted"}
    BY DEF ClusterInv
  <2>4. Abstract!TypeOK
    BY <2>1, <2>2, <2>3, AbstractOperators DEF TypesInv, Record, Abstract!TypeOK
  <2> QED BY <2>4 DEF ClusterInv, ClusteringTypeOK
<1> QED BY <1>1, ClusteringInvHolds, PTL

-----------------------------------------------------------------------------
(***************************************************************************)
(* Part 3: Startup.                                                        *)
(***************************************************************************)

-----------------------------------------------------------------------------
(***************************************************************************)
(* Signatures: the least of a set of values that is never empty.           *)
(***************************************************************************)
LEMMA MinOfInterval ==
    ASSUME NEW a \in Int, NEW b \in Int, NEW S \in SUBSET (a .. b), S # {}
    PROVE  Min(S) \in S /\ \A y \in S : Min(S) <= y
<1>1. IsFiniteSet(S) /\ S \in SUBSET Int
  <2>1. IsFiniteSet(a .. b)
    BY FS_Interval
  <2>2. IsFiniteSet(S)
    BY <2>1, FS_Subset
  <2>3. \A y \in S : y \in Int
    OBVIOUS
  <2> QED BY <2>2, <2>3
<1>2. Cardinality(S) \in Nat /\ Cardinality(S) # 0
  BY <1>1, FS_CardinalityType, FS_EmptySet
<1> DEFINE x == ElementAt(0, S)
           before == {y \in S : y < x}
<1>3. x \in S /\ Cardinality(before) = 0
  BY <1>1, <1>2, PositionOfElementAt DEF Position
<1>4. before = {}
  BY <1>1, <1>3, FS_Subset, FS_EmptySet
<1>5. ASSUME NEW y \in S PROVE x <= y
  <2>1. x \in Int /\ y \in Int /\ ~(y < x)
    BY <1>1, <1>3, <1>4
  <2> HIDE DEF x
  <2> QED BY <2>1
<1> QED BY <1>3, <1>5 DEF Min

\* A shingle's value is below what a position without a shingle keeps.
LEMMA HashValType ==
    ASSUME NEW hidx \in DOMAIN Hashes, NEW elem \in Shingles
    PROVE  HashVal(hidx, elem) \in -(RangeMax - 1) .. RangeMax - 1
<1>1. RangeMax \in Nat \ {0}
  BY MinHashAssumption
<1>2. ASSUME NEW h \in Int PROVE Rem(h) \in -(RangeMax - 1) .. RangeMax - 1
  <2>1. ASSUME NEW n \in Nat PROVE n % RangeMax \in 0 .. RangeMax - 1
    BY <1>1
  <2>2. CASE h >= 0
    <3>1. h % RangeMax \in 0 .. RangeMax - 1
      BY <2>1, <2>2
    <3> QED BY <1>1, <2>2, <3>1 DEF Rem
  <2>3. CASE ~(h >= 0)
    <3>1. -h \in Nat
      BY <2>3
    <3>2. (-h) % RangeMax \in 0 .. RangeMax - 1
      BY <2>1, <3>1
    <3> QED BY <1>1, <2>3, <3>2 DEF Rem
  <2> QED BY <2>2, <2>3
<1>3. Hashes[hidx] \in [Shingles -> Int]
  BY MinHashAssumption, LenProperties
<1> QED BY <1>2, <1>3 DEF HashVal

\* A position of a signature holds the least value of the shingles, if any.
LEMMA SignatureAt ==
    ASSUME NEW S \in SUBSET Shingles, NEW hidx \in DOMAIN Hashes
    PROVE  /\ ComputeSignature(S)[hidx] \in -(RangeMax - 1) .. NoShingle
           /\ S = {} => ComputeSignature(S)[hidx] = NoShingle
           /\ S # {} => \E e \in S :
                  /\ ComputeSignature(S)[hidx] = HashVal(hidx, e)
                  /\ \A g \in S : HashVal(hidx, e) <= HashVal(hidx, g)
<1> DEFINE values == {NoShingle} \cup {HashVal(hidx, elem) : elem \in S}
<1>1. RangeMax \in Nat \ {0} /\ NoShingle = RangeMax + 1
  BY MinHashAssumption DEF NoShingle
<1>2. \A elem \in S : HashVal(hidx, elem) \in -(RangeMax - 1) .. RangeMax - 1
  BY HashValType
<1>3. values \in SUBSET (-(RangeMax - 1) .. NoShingle) /\ values # {}
  BY <1>1, <1>2
<1>4. -(RangeMax - 1) \in Int /\ NoShingle \in Int
  BY <1>1
<1>5. ComputeSignature(S)[hidx] = Min(values)
  BY DEF ComputeSignature
<1>6. NoShingle \in values /\ \A elem \in S : HashVal(hidx, elem) \in values
  OBVIOUS
<1>7. \A v \in values : v = NoShingle \/ \E elem \in S : v = HashVal(hidx, elem)
  OBVIOUS
<1> HIDE DEF values
<1>8. Min(values) \in values /\ \A v \in values : Min(values) <= v
  BY <1>3, <1>4, MinOfInterval
<1>9. ASSUME NEW elem \in S PROVE Min(values) # NoShingle
  <2>1. Min(values) <= HashVal(hidx, elem)
    BY <1>6, <1>8
  <2> QED BY <1>1, <1>2, <2>1
<1>10. S # {} => \E e \in S : /\ Min(values) = HashVal(hidx, e)
                             /\ \A g \in S : HashVal(hidx, e) <= HashVal(hidx, g)
  <2> SUFFICES ASSUME S # {}
               PROVE  \E e \in S : /\ Min(values) = HashVal(hidx, e)
                                   /\ \A g \in S : HashVal(hidx, e) <= HashVal(hidx, g)
    OBVIOUS
  <2>1. PICK e \in S : Min(values) = HashVal(hidx, e)
    BY <1>7, <1>8, <1>9
  <2> QED BY <1>6, <1>8, <2>1
<1>11. S = {} => Min(values) = NoShingle
  BY <1>7, <1>8
<1> QED BY <1>3, <1>5, <1>8, <1>10, <1>11

LEMMA SignatureType ==
    ASSUME NEW S \in SUBSET Shingles
    PROVE  ComputeSignature(S) \in AnySignature
BY SignatureAt DEF ComputeSignature, AnySignature

\* Two signatures agree where the least value over both sets is taken in each.
LEMMA AgreesAt ==
    ASSUME NEW A \in SUBSET Shingles, NEW B \in SUBSET Shingles, NEW hidx \in DOMAIN Hashes
    PROVE  ComputeSignature(A)[hidx] = ComputeSignature(B)[hidx]
               <=> A \cup B = {} \/ HaveCommonLeast(hidx, A, B)
<1> DEFINE a == ComputeSignature(A)[hidx]
           b == ComputeSignature(B)[hidx]
<1>1. /\ A = {} => a = NoShingle
      /\ B = {} => b = NoShingle
      /\ A # {} => \E e \in A : /\ a = HashVal(hidx, e)
                               /\ \A g \in A : HashVal(hidx, e) <= HashVal(hidx, g)
      /\ B # {} => \E f \in B : /\ b = HashVal(hidx, f)
                               /\ \A g \in B : HashVal(hidx, f) <= HashVal(hidx, g)
  BY SignatureAt
<1>2. RangeMax \in Nat \ {0} /\ NoShingle = RangeMax + 1
  BY MinHashAssumption DEF NoShingle
<1>3. \A e \in A \cup B : /\ HashVal(hidx, e) \in Int
                          /\ HashVal(hidx, e) # NoShingle
  <2> TAKE e \in A \cup B
  <2>1. HashVal(hidx, e) \in -(RangeMax - 1) .. RangeMax - 1
    BY HashValType
  <2> QED BY <1>2, <2>1
<1> HIDE DEF a, b
<1>4. ASSUME a = b, A \cup B # {} PROVE HaveCommonLeast(hidx, A, B)
  <2>1. A # {} /\ B # {}
    BY <1>1, <1>3, <1>4
  <2>2. PICK e \in A : a = HashVal(hidx, e) /\ \A g \in A : HashVal(hidx, e) <= HashVal(hidx, g)
    BY <1>1, <2>1
  <2>3. PICK f \in B : b = HashVal(hidx, f) /\ \A g \in B : HashVal(hidx, f) <= HashVal(hidx, g)
    BY <1>1, <2>1
  <2>4. HashVal(hidx, e) = HashVal(hidx, f)
    BY <1>4, <2>2, <2>3
  <2>5. \A g \in A \cup B : HashVal(hidx, e) <= HashVal(hidx, g)
    BY <2>2, <2>3, <2>4
  <2> QED BY <2>4, <2>5 DEF HaveCommonLeast
<1>5. ASSUME A \cup B = {} PROVE a = b
  BY <1>1, <1>5
<1>6. ASSUME HaveCommonLeast(hidx, A, B) PROVE a = b
  <2>1. PICK e \in A, f \in B :
            /\ HashVal(hidx, e) = HashVal(hidx, f)
            /\ \A g \in A \cup B : HashVal(hidx, e) <= HashVal(hidx, g)
    BY <1>6 DEF HaveCommonLeast
  <2>2. PICK d \in A : a = HashVal(hidx, d) /\ HashVal(hidx, d) <= HashVal(hidx, e)
    BY <1>1
  <2>3. PICK h \in B : b = HashVal(hidx, h) /\ HashVal(hidx, h) <= HashVal(hidx, f)
    BY <1>1
  <2>4. HashVal(hidx, e) <= HashVal(hidx, d) /\ HashVal(hidx, e) <= HashVal(hidx, h)
    BY <2>1
  <2>5. /\ HashVal(hidx, d) \in Int /\ HashVal(hidx, e) \in Int
        /\ HashVal(hidx, f) \in Int /\ HashVal(hidx, h) \in Int
    BY <1>3
  <2> QED BY <2>1, <2>2, <2>3, <2>4, <2>5
<1> QED BY <1>4, <1>5, <1>6 DEF a, b

-----------------------------------------------------------------------------
(***************************************************************************)
(* Within a run: the articles are the file's, and the shingles at hand are *)
(* those of the tokens before the one at hand.                             *)
(***************************************************************************)
SourceInv ==
    /\ \A k \in DOMAIN articles :
           \E j \in DOMAIN file : articles[k] = file[j] /\ file[j] # Malformed
    /\ Len(articles) <= Len(file)
    /\ pc = "load" => Len(articles) < idx /\ idx <= Len(file) + 1

ShinglesBefore(article, n) ==
    {ShingleAt(article, i) :
        i \in {j \in 1 .. Len(article) - 2 : j < n /\ ~HasStem(article[j])}}

ShinglesInv ==
    /\ pc = "load" => shingles = {}
    /\ pc \in {"tokens", "dedup"} => shingles = ShinglesBefore(articles[idx], tidx)

LEMMA InitRun == Init => SourceInv /\ ShinglesInv
<1> SUFFICES ASSUME Init PROVE SourceInv /\ ShinglesInv
  OBVIOUS
<1>1. Len(<<>>) = 0 /\ DOMAIN <<>> = {}
  BY EmptySeq
<1>2. Len(file) \in Nat
  BY FileType DEF Init
<1> QED BY <1>1, <1>2 DEF Init, SourceInv, ShinglesInv

LEMMA NextSource ==
    ASSUME TypesInv, LoopsInv, SourceInv, LoopStep \/ LaterStep \/ UNCHANGED vars
    PROVE  SourceInv'
<1> USE DEF vocabulary, parsing, store
<1>0. /\ Len(file) \in Nat /\ DOMAIN file = 1 .. Len(file) /\ idx \in Nat \ {0}
      /\ Len(articles) \in Nat /\ DOMAIN articles = 1 .. Len(articles)
  BY FileType, LenProperties DEF TypesInv
<1>1. CASE LoadValid
  <2>1. /\ pc = "load" /\ idx <= Len(file) /\ file[idx] # Malformed
        /\ articles' = Append(articles, file[idx]) /\ idx' = idx + 1
        /\ UNCHANGED <<file, pc>>
    BY <1>1 DEF LoadValid
  <2>2. file[idx] \in Seq(Tokens)
    BY <1>0, <2>1, FileType DEF TypesInv
  <2>3. /\ Len(articles') = Len(articles) + 1
        /\ DOMAIN articles' = 1 .. Len(articles) + 1
        /\ \A k \in 1 .. Len(articles) : articles'[k] = articles[k]
        /\ articles'[Len(articles) + 1] = file[idx]
    BY <2>1, <2>2, AppendProperties DEF TypesInv
  <2>4. ASSUME NEW k \in DOMAIN articles'
        PROVE  \E j \in DOMAIN file : articles'[k] = file[j] /\ file[j] # Malformed
    <3>1. CASE k \in 1 .. Len(articles)
      BY <1>0, <2>3, <3>1 DEF SourceInv
    <3>2. CASE k = Len(articles) + 1
      BY <1>0, <2>1, <2>3, <3>2
    <3> QED BY <1>0, <2>3, <3>1, <3>2
  <2> QED BY <1>0, <2>1, <2>3, <2>4 DEF SourceInv
<1>2. CASE LoadInvalid
  BY <1>0, <1>2 DEF LoadInvalid, SourceInv
<1>3. CASE LoopStep /\ ~LoadValid /\ ~LoadInvalid
  <2>1. UNCHANGED <<articles, file>> /\ pc' # "load"
    BY <1>3 DEF LoopStep, LoadMalformed, EndOfLoad, SkipToken,
         SkipUnknownStem, ProcessToken, SaveArticle, IsOriginal, IsDuplicate, NextArticle
  <2> QED BY <2>1 DEF SourceInv
<1>4. CASE LaterStep \/ UNCHANGED vars
  BY <1>4 DEF LaterStep, vars, SourceInv
<1> QED BY <1>1, <1>2, <1>3, <1>4

LEMMA NextShingles ==
    ASSUME TypesInv, LoopsInv, ShinglesInv, LoopStep \/ LaterStep \/ UNCHANGED vars
    PROVE  ShinglesInv'
<1> USE DEF vocabulary, parsing, store
<1>0. \A article : ShinglesBefore(article, 1) = {}
  BY DEF ShinglesBefore
<1>1. CASE LoadValid \/ LoadInvalid \/ LoadMalformed
  BY <1>1 DEF LoadValid, LoadInvalid, LoadMalformed, ShinglesInv
<1>2. CASE EndOfLoad
  BY <1>0, <1>2 DEF EndOfLoad, ShinglesInv, LoopsInv
<1>3. CASE SkipToken \/ SkipUnknownStem \/ ProcessToken
  <2> DEFINE article == articles[idx]
             starts(n) == {j \in 1 .. Len(article) - 2 : j < n /\ ~HasStem(article[j])}
  <2>1. /\ pc = "tokens" /\ tidx <= Len(article) /\ UNCHANGED <<pc, idx, articles>>
        /\ tidx' = tidx + 1
        /\ HasStem(article[tidx]) => shingles' = shingles
        /\ ~HasStem(article[tidx]) =>
              shingles' = IF tidx + 2 <= Len(article)
                          THEN shingles \cup {ShingleAt(article, tidx)}
                          ELSE shingles
    BY <1>3 DEF SkipToken, SkipUnknownStem, ProcessToken
  <2>2. tidx \in Nat \ {0} /\ Len(article) \in Nat
    BY <2>1, TokenAtHand DEF TypesInv
  <2>3. shingles = {ShingleAt(article, i) : i \in starts(tidx)}
    BY <2>1 DEF ShinglesInv, ShinglesBefore
  <2>4. starts(tidx + 1) = IF ~HasStem(article[tidx]) /\ tidx + 2 <= Len(article)
                           THEN starts(tidx) \cup {tidx} ELSE starts(tidx)
    BY <2>2
  <2>5. shingles' = {ShingleAt(article, i) : i \in starts(tidx + 1)}
    BY <2>1, <2>3, <2>4
  <2>6. shingles' = ShinglesBefore(articles'[idx'], tidx')
    BY <2>1, <2>5 DEF ShinglesBefore
  <2> QED BY <2>1, <2>6 DEF ShinglesInv
<1>4. CASE SaveArticle
  BY <1>4 DEF SaveArticle, ShinglesInv
<1>5. CASE IsOriginal \/ IsDuplicate
  BY <1>0, <1>5 DEF IsOriginal, IsDuplicate, NextArticle, ShinglesInv
<1>6. CASE LaterStep
  BY <1>6 DEF LaterStep, ShinglesInv
<1>7. CASE UNCHANGED vars
  BY <1>7 DEF vars, ShinglesInv
<1> QED BY <1>1, <1>2, <1>3, <1>4, <1>5, <1>6, <1>7 DEF LoopStep

\* The signature of an article that is through is computed of its shingles.
LEMMA SignatureAtHand ==
    ASSUME TypesInv, LoopsInv, SourceInv, ShinglesInv, pc = "dedup"
    PROVE  /\ shingles = ShinglesOf(articles[idx])
           /\ ComputeSignature(shingles) \in AnySignature
<1>1. idx \in DOMAIN articles /\ Len(articles[idx]) \in Nat /\ tidx = Len(articles[idx]) + 1
  BY TokenAtHand DEF LoopsInv
<1>2. shingles = ShinglesOf(articles[idx])
  BY <1>1 DEF ShinglesInv, ShinglesBefore, ShinglesOf
<1>3. PICK j \in DOMAIN file : articles[idx] = file[j] /\ file[j] # Malformed
  BY <1>1 DEF SourceInv
<1>4. shingles \in SUBSET Shingles
  BY <1>2, <1>3, StartupAssumption DEF TypesInv
<1> QED BY <1>2, <1>4, SignatureType

-----------------------------------------------------------------------------
(***************************************************************************)
(* The runs.  What the server knew when main started, Before, is all it    *)
(* knows until the first answer; a restart has nothing to add, because     *)
(* what is stored has no signature yet.                                    *)
(***************************************************************************)
Before == {k[2] : k \in knownBefore} \cup {Garbage}

MainInv ==
    /\ main \in {"idle", "drop", "save", "insert", "batch"}
    /\ runs \in 0 .. MaxRuns
    /\ main # "idle" => runs > 0
    /\ main \in {"drop", "save", "insert"} => pc = "load" /\ stems = {}
    /\ vocabularies \subseteq {{}}

ServerInv ==
    /\ stored \subseteq DocIds \X {Garbage}
    /\ known \cup knownBefore \subseteq DocIds \X (AnySignature \cup {Garbage})
    /\ answer \in [DocIds -> {None, "OK", "DUP"}]

FirstArticleKnown ==
    \E s \in Before : Similar(s, ComputeSignature(ShinglesOf(articles[1])))

RunInv ==
    /\ main \in {"save", "insert", "batch"} /\ pc \in {"load", "failed"} => stored = {}
    /\ main # "idle" /\ (pc = "load" \/ (pc \in {"tokens", "dedup"} /\ idx = 1)) =>
           \A k \in known : k[2] \in Before
    /\ /\ main = "batch" /\ articles # <<>> /\ processed = <<>>
       /\ pc = "cluster" \/ (pc \in {"tokens", "dedup"} /\ idx > 1)
       => FirstArticleKnown

Inv == BatchInv /\ PcInv /\ SourceInv /\ ShinglesInv /\ MainInv /\ ServerInv /\ RunInv

LEMMA NewBatchIsInit == NewBatch => Init'
BY DEF NewBatch, Init, InitVocabulary, TokensMap!Init, NoLastToken

LEMMA InitInv == Init => BatchInv /\ PcInv /\ SourceInv /\ ShinglesInv
BY InitBatch, InitRun DEF Init, PcInv

LEMMA NewBatchInv == NewBatch => (BatchInv /\ PcInv /\ SourceInv /\ ShinglesInv)'
BY NewBatchIsInit, InitInv, PTL

LEMMA ProcessIsBatchStep == ASSUME ProcessArticlesBatch PROVE [Next]_vars
BY DEF ProcessArticlesBatch, BatchStep, BatchSaveArticle, BatchIsDuplicate, Next

\* Each run's batch is a batch.
LEMMA NextInBatch ==
    ASSUME BatchInv, PcInv, SourceInv, ShinglesInv, [StartupNext]_system
    PROVE  (BatchInv /\ PcInv /\ SourceInv /\ ShinglesInv)'
<1>1. [Next]_vars \/ NewBatch
  <2>1. CASE Start
    BY <2>1 DEF Start
  <2>2. CASE ProcessArticlesBatch
    BY <2>2, ProcessIsBatchStep
  <2>3. CASE DropArticles \/ DropVocabulary \/ InsertVocabulary \/ Return \/ Kill
             \/ RestartServer \/ UNCHANGED system
    BY <2>3 DEF DropArticles, DropVocabulary, InsertVocabulary, Return, Kill, RestartServer,
                system
  <2> QED BY <2>1, <2>2, <2>3 DEF StartupNext
<1>2. CASE [Next]_vars
  <2>1. LoopStep \/ LaterStep \/ UNCHANGED vars
    BY <1>2, BatchSteps
  <2>2. TypesInv /\ LoopsInv
    BY DEF BatchInv
  <2> QED BY <1>2, <2>1, <2>2, NextBatch, NextPc, NextSource, NextShingles
<1>3. CASE NewBatch
  BY <1>3, NewBatchInv
<1> QED BY <1>1, <1>2, <1>3

\* The document at hand is one the server may be asked about.
LEMMA DocIdType ==
    ASSUME Inv, main = "batch", pc \in {"tokens", "dedup"}
    PROVE  DocId \in DocIds
<1>1. TypesInv /\ LoopsInv /\ file \in Files
  BY DEF Inv, BatchInv, TypesInv
<1>2. idx \in Nat \ {0} /\ idx <= Len(articles) /\ Len(articles) \in Nat
  BY <1>1, TokenAtHand
<1>3. Len(articles) <= Len(file) /\ Len(file) <= MaxArticles /\ Len(file) \in Nat
  BY <1>1, FileType, StartupAssumption DEF Inv, SourceInv
<1>4. idx \in 1 .. MaxArticles
  BY <1>2, <1>3, StartupAssumption
<1>5. runs \in 1 .. MaxRuns
  BY StartupAssumption DEF Inv, MainInv
<1> QED BY <1>4, <1>5 DEF DocId, DocIds

LEMMA NextMain ==
    ASSUME Inv, [StartupNext]_system
    PROVE  MainInv'
<1>1. MainInv /\ MaxRuns \in Nat
  BY StartupAssumption DEF Inv
<1>2. CASE Start
  BY <1>1, <1>2 DEF Start, NewBatch, MainInv
<1>3. CASE DropArticles \/ DropVocabulary \/ InsertVocabulary
  BY <1>1, <1>3 DEF DropArticles, DropVocabulary, InsertVocabulary, MainInv, vars, vocabulary
<1>4. CASE ProcessArticlesBatch
  BY <1>1, <1>4 DEF ProcessArticlesBatch, MainInv
<1>5. CASE Return \/ Kill
  BY <1>1, <1>5 DEF Return, Kill, MainInv
<1>6. CASE RestartServer \/ UNCHANGED system
  BY <1>1, <1>6 DEF RestartServer, system, MainInv, vars, vocabulary
<1> QED BY <1>2, <1>3, <1>4, <1>5, <1>6 DEF StartupNext

LEMMA NextServer ==
    ASSUME Inv, [StartupNext]_system
    PROVE  ServerInv'
<1>0. ServerInv
  BY DEF Inv
<1>1. CASE Start
  BY <1>0, <1>1 DEF Start, server, ServerInv
<1>2. CASE DropArticles
  BY <1>0, <1>2 DEF DropArticles, Server!Drop, ServerInv
<1>3. CASE DropVocabulary \/ InsertVocabulary \/ Return \/ Kill
  BY <1>0, <1>3 DEF DropVocabulary, InsertVocabulary, Return, Kill, server, ServerInv
<1>4. CASE ProcessArticlesBatch
  <2>0. main = "batch" /\ UNCHANGED knownBefore
    BY <1>4 DEF ProcessArticlesBatch
  <2>1. CASE BatchStep
    BY <1>0, <2>0, <2>1 DEF BatchStep, server, ServerInv
  <2>2. CASE BatchSaveArticle
    <3>1. pc = "tokens" /\ Server!Save(DocId, Garbage)
      BY <2>2 DEF BatchSaveArticle, SaveArticle
    <3>2. DocId \in DocIds
      BY <2>0, <3>1, DocIdType
    <3> QED BY <1>0, <2>0, <3>1, <3>2 DEF Server!Save, ServerInv
  <2>3. CASE BatchIsDuplicate
    <3>1. pc = "dedup" /\ Server!Answer(DocId, ComputeSignature(shingles))
      BY <2>3 DEF BatchIsDuplicate
    <3>2. DocId \in DocIds
      BY <2>0, <3>1, DocIdType
    <3>3. ComputeSignature(shingles) \in AnySignature
      BY <3>1, SignatureAtHand DEF Inv, BatchInv
    <3> QED BY <1>0, <2>0, <3>1, <3>2, <3>3 DEF Server!Answer, ServerInv
  <2> QED BY <1>4, <2>1, <2>2, <2>3 DEF ProcessArticlesBatch
<1>5. CASE RestartServer
  BY <1>0, <1>5 DEF RestartServer, Server!Restart, ServerInv
<1>6. CASE UNCHANGED system
  BY <1>0, <1>6 DEF system, server, ServerInv
<1> QED BY <1>1, <1>2, <1>3, <1>4, <1>5, <1>6 DEF StartupNext

\* The server answers DUP about the first article because of what it knew.
LEMMA NextRun ==
    ASSUME Inv, [StartupNext]_system
    PROVE  RunInv'
<1>0. RunInv /\ MainInv /\ ServerInv
  BY DEF Inv
<1> USE DEF vars, vocabulary, parsing, store, server
<1>1. CASE Start
  <2>1. /\ main' = "drop" /\ pc' = "load" /\ known' = known
        /\ Before' = {k[2] : k \in known} \cup {Garbage}
    BY <1>1 DEF Start, NewBatch, Before
  <2> QED BY <2>1 DEF RunInv
<1>2. CASE DropArticles \/ DropVocabulary \/ InsertVocabulary
  <2>1. /\ main' \in {"save", "insert", "batch"}
        /\ main = "drop" => stored' = {}
        /\ main # "drop" => main \in {"save", "insert"} /\ stored' = stored
        /\ pc = "load" /\ UNCHANGED <<vars, known, knownBefore>>
    BY <1>0, <1>2 DEF DropArticles, DropVocabulary, InsertVocabulary, Server!Drop, MainInv
  <2>2. Before' = Before /\ pc' = "load"
    BY <2>1 DEF Before
  <2> QED BY <1>0, <2>1, <2>2 DEF RunInv
<1>3. CASE ProcessArticlesBatch
  <2>0. main = "batch" /\ main' = "batch" /\ UNCHANGED knownBefore /\ Before' = Before
    BY <1>3 DEF ProcessArticlesBatch, Before
  <2>1. CASE BatchStep
    <3>1. UNCHANGED <<stored, known, answer>>
      BY <2>1 DEF BatchStep
    <3>2. CASE LoadValid \/ LoadInvalid \/ LoadMalformed
      BY <1>0, <2>0, <3>1, <3>2 DEF LoadValid, LoadInvalid, LoadMalformed, RunInv
    <3>3. CASE EndOfLoad
      BY <1>0, <2>0, <3>1, <3>3 DEF EndOfLoad, RunInv
    <3>4. CASE SkipToken \/ SkipUnknownStem \/ ProcessToken
      <4>1. pc = "tokens" /\ UNCHANGED <<pc, idx, articles, processed>>
        BY <3>4 DEF SkipToken, SkipUnknownStem, ProcessToken
      <4> QED BY <1>0, <2>0, <3>1, <4>1 DEF RunInv, FirstArticleKnown
    <3>5. CASE CreateClusters \/ ProcessTokenAborts
      <4>1. pc' \in {"done", "aborted"}
        BY <3>5 DEF CreateClusters, ProcessTokenAborts
      <4> QED BY <4>1 DEF RunInv
    <3> QED BY <2>1, <3>2, <3>3, <3>4, <3>5 DEF BatchStep
  <2>2. CASE BatchSaveArticle
    <3>1. /\ pc = "tokens" /\ pc' = "dedup" /\ known' = known
          /\ UNCHANGED <<idx, articles, processed>>
      BY <2>2 DEF BatchSaveArticle, SaveArticle, Server!Save
    <3> QED BY <1>0, <2>0, <3>1 DEF RunInv, FirstArticleKnown
  <2>3. CASE BatchIsDuplicate
    <3>1. /\ pc = "dedup" /\ pc' \in {"tokens", "cluster"} /\ idx' = idx + 1
          /\ articles' = articles /\ stored' = stored /\ idx \in Nat \ {0}
          /\ Server!Answer(DocId, ComputeSignature(shingles))
      <4>1. idx \in Nat \ {0}
        BY DEF Inv, BatchInv, TypesInv
      <4> QED BY <2>3, <4>1 DEF BatchIsDuplicate, IsOriginal, IsDuplicate, NextArticle,
                 Server!Answer
    <3>2. CASE answer'[DocId] = "OK"
      <4>1. IsOriginal
        BY <2>3, <3>2 DEF BatchIsDuplicate
      <4>2. processed' # <<>>
        <5>1. ASSUME NEW r PROVE Append(processed, r) # <<>>
          <6>1. /\ processed \in [1 .. Len(processed) -> Record \cup {r}]
                /\ Len(processed) \in Nat
            BY LenProperties DEF Inv, BatchInv, TypesInv
          <6>2. processed \in Seq(Record \cup {r})
            BY <6>1, SeqDef
          <6> QED BY <6>2, AppendProperties
        <5> QED BY <4>1, <5>1 DEF IsOriginal
      <4> QED BY <3>1, <4>2 DEF RunInv
    <3>3. CASE answer'[DocId] # "OK"
      <4>1. IsDuplicate /\ processed' = processed
        BY <2>3, <3>3 DEF BatchIsDuplicate, IsDuplicate
      <4>2. PICK k \in known : Similar(k[2], ComputeSignature(shingles))
        <5>1. answer'[DocId] = IF \E k \in known : k[1] # DocId
                                      /\ Similar(k[2], ComputeSignature(shingles))
                               THEN "DUP" ELSE "OK"
          BY <1>0, <2>0, <3>1, DocIdType DEF Server!Answer, ServerInv
        <5> QED BY <3>3, <5>1
      <4>3. shingles = ShinglesOf(articles[idx])
        BY <3>1, SignatureAtHand DEF Inv, BatchInv
      <4>4. processed = <<>> => FirstArticleKnown'
        <5>1. CASE idx = 1
          BY <1>0, <2>0, <3>1, <4>2, <4>3, <5>1 DEF RunInv, FirstArticleKnown
        <5>2. CASE idx > 1
          <6>1. articles # <<>>
            BY <3>1, TokenAtHand DEF Inv, BatchInv
          <6> QED BY <1>0, <2>0, <3>1, <5>2, <6>1 DEF RunInv, FirstArticleKnown
        <5> QED BY <3>1, <5>1, <5>2
      <4> QED BY <2>0, <3>1, <4>1, <4>4 DEF RunInv
    <3> QED BY <3>2, <3>3
  <2> QED BY <1>3, <2>1, <2>2, <2>3 DEF ProcessArticlesBatch
<1>4. CASE Return \/ Kill
  BY <1>4 DEF Return, Kill, RunInv
<1>5. CASE RestartServer
  <2>1. /\ UNCHANGED <<vars, main, stored, knownBefore>> /\ known' = stored
        /\ Before' = Before
    BY <1>5 DEF RestartServer, Server!Restart, Before
  <2>2. \A k \in stored : k[2] \in Before
    BY <1>0 DEF ServerInv, Before
  <2> QED BY <1>0, <2>1, <2>2 DEF RunInv, FirstArticleKnown
<1>6. CASE UNCHANGED system
  BY <1>0, <1>6 DEF system, RunInv, Before, FirstArticleKnown
<1> QED BY <1>1, <1>2, <1>3, <1>4, <1>5, <1>6 DEF StartupNext

LEMMA InvHolds == StartupSpec => []Inv
<1>1. StartupInit => Inv
  <2> SUFFICES ASSUME StartupInit PROVE Inv
    OBVIOUS
  <2>1. BatchInv /\ PcInv /\ SourceInv /\ ShinglesInv
    BY InitInv DEF StartupInit
  <2> QED BY <2>1, StartupAssumption
          DEF StartupInit, Server!Init, Inv, MainInv, ServerInv, RunInv
<1>2. Inv /\ [StartupNext]_system => Inv'
  BY NextInBatch, NextMain, NextServer, NextRun DEF Inv
<1> QED BY <1>1, <1>2, PTL DEF StartupSpec

-----------------------------------------------------------------------------
\* Types, of the batch of any run and of what outlives it.
THEOREM StartupTyping == StartupSpec => []StartupTypeOK
<1>1. Inv => StartupTypeOK
  BY BatchTypes DEF Inv, MainInv, ServerInv, StartupTypeOK
<1> QED BY <1>1, InvHolds, PTL

\* The vocabulary that a run saves has no stems, wherever a run ends.
THEOREM OnlyEmptyVocabularies == StartupSpec => []SavedVocabularyIsEmpty
<1>1. Inv => SavedVocabularyIsEmpty
  BY DEF Inv, MainInv, SavedVocabularyIsEmpty
<1> QED BY <1>1, InvHolds, PTL

\* A run that met a malformed article has stored none.
THEOREM MalformedStoresNothing == StartupSpec => []FailedStoresNothing
<1>1. Inv => FailedStoresNothing
  BY DEF Inv, RunInv, FailedStoresNothing
<1> QED BY <1>1, InvHolds, PTL

\* Only what the server knew before, or a document without a signature, can
\* leave a batch without articles to cluster.
THEOREM FirstIsNewUnlessKnown == StartupSpec => []NothingIsNewOnlyWhenKnown
<1>1. Inv => NothingIsNewOnlyWhenKnown
  <2> SUFFICES ASSUME Inv, main = "batch", pc = "cluster",
                      articles # <<>>, processed = <<>>
               PROVE  \E k \in knownBefore \cup {<<DocId, Garbage>>} :
                          Similar(k[2], ComputeSignature(ShinglesOf(articles[1])))
    BY DEF NothingIsNewOnlyWhenKnown
  <2>1. PICK s \in Before : Similar(s, ComputeSignature(ShinglesOf(articles[1])))
    BY DEF Inv, RunInv, FirstArticleKnown
  <2>2. CASE s = Garbage
    <3>1. <<DocId, Garbage>>[2] = Garbage
      OBVIOUS
    <3> QED BY <2>1, <2>2, <3>1
  <2>3. CASE s \in {k[2] : k \in knownBefore}
    BY <2>1, <2>3
  <2> QED BY <2>2, <2>3 DEF Before
<1> QED BY <1>1, InvHolds, PTL

\* In every run, whatever the runs before left, a batch keeps its promises.
THEOREM EveryRunIsABatch ==
    StartupSpec => [](FreqGrowsByArticles /\ TokensAreByStem /\ StoredIdsDecode)
<1>1. Inv => FreqGrowsByArticles /\ TokensAreByStem /\ StoredIdsDecode
  BY BatchInvariants DEF Inv
<1> QED BY <1>1, InvHolds, PTL

-----------------------------------------------------------------------------
(***************************************************************************)
(* The signatures of this run that the server knows are those of the       *)
(* articles their ids name; those it loads from the store are garbage, and *)
(* main numbers its runs, so that no signature is taken for another run's. *)
(***************************************************************************)
Computed == {d \in known : d[2] # Garbage}

KnownInv ==
    \A d \in Computed :
        /\ d[1][1] <= runs
        /\ d[1][1] = runs =>
               /\ d[1][2] \in DOMAIN articles
               /\ d[2] = ComputeSignature(ShinglesOf(articles[d[1][2]]))

LEMMA NextKnown ==
    ASSUME Inv, KnownInv, [StartupNext]_system
    PROVE  KnownInv'
<1> USE DEF vars, vocabulary, parsing, store, server
<1>0. /\ ServerInv /\ MainInv /\ TypesInv
      /\ runs \in Nat /\ \A d \in known : d[1][1] \in Nat
  BY StartupAssumption DEF Inv, BatchInv, MainInv, ServerInv, DocIds
<1>1. CASE Start
  <2>1. known' = known /\ runs' = runs + 1
    BY <1>1 DEF Start
  <2>2. \A d \in Computed : d[1][1] <= runs' /\ d[1][1] # runs'
    BY <1>0, <2>1 DEF KnownInv, Computed
  <2> QED BY <2>1, <2>2 DEF KnownInv, Computed
<1>2. CASE DropArticles \/ DropVocabulary \/ InsertVocabulary \/ Return \/ Kill
           \/ UNCHANGED system
  <2>1. UNCHANGED <<known, runs, articles>>
    BY <1>2 DEF DropArticles, DropVocabulary, InsertVocabulary, Return, Kill, system,
                Server!Drop
  <2> QED BY <2>1 DEF KnownInv, Computed
<1>3. CASE ProcessArticlesBatch
  <2>0. main = "batch" /\ runs' = runs
    BY <1>3 DEF ProcessArticlesBatch
  <2>1. CASE LoadValid /\ UNCHANGED server
    <3>1. articles' = Append(articles, file[idx]) /\ file[idx] \in Seq(Tokens)
      BY <1>0, <2>1, FileType DEF LoadValid, TypesInv
    <3>2. /\ DOMAIN articles' = 1 .. Len(articles) + 1
          /\ DOMAIN articles = 1 .. Len(articles)
          /\ \A k \in 1 .. Len(articles) : articles'[k] = articles[k]
          /\ Len(articles) \in Nat
      BY <1>0, <3>1, AppendProperties, LenProperties DEF TypesInv
    <3>3. \A k \in DOMAIN articles : k \in DOMAIN articles' /\ articles'[k] = articles[k]
      BY <3>2
    <3>4. known' = known
      BY <2>1
    <3> QED BY <2>0, <3>3, <3>4 DEF KnownInv, Computed
  <2>2. CASE BatchIsDuplicate
    <3>1. /\ pc = "dedup" /\ articles' = articles
          /\ known' = known \cup {<<DocId, ComputeSignature(shingles)>>}
      BY <2>2 DEF BatchIsDuplicate, IsOriginal, IsDuplicate, NextArticle, Server!Answer
    <3>2. idx \in DOMAIN articles /\ shingles = ShinglesOf(articles[idx])
      BY <3>1, TokenAtHand, SignatureAtHand DEF Inv, BatchInv
    <3>3. DocId[1] = runs /\ DocId[2] = idx
      BY DEF DocId
    <3>4. ASSUME NEW d \in Computed'
          PROVE  /\ d[1][1] <= runs
                 /\ d[1][1] = runs =>
                        /\ d[1][2] \in DOMAIN articles
                        /\ d[2] = ComputeSignature(ShinglesOf(articles[d[1][2]]))
      <4>1. CASE d \in known
        BY <3>4, <4>1 DEF KnownInv, Computed
      <4>2. CASE d = <<DocId, ComputeSignature(shingles)>>
        BY <1>0, <3>2, <3>3, <4>2
      <4> QED BY <3>1, <3>4, <4>1, <4>2 DEF Computed
    <3> QED BY <2>0, <3>1, <3>4 DEF KnownInv
  <2>3. CASE BatchSaveArticle \/ (BatchStep /\ ~LoadValid)
    <3>1. UNCHANGED <<known, articles>>
      BY <2>3 DEF BatchSaveArticle, BatchStep, LoadInvalid, LoadMalformed, EndOfLoad,
           SkipToken, SkipUnknownStem, ProcessToken, ProcessTokenAborts, SaveArticle,
           CreateClusters, Server!Save
    <3> QED BY <2>0, <3>1 DEF KnownInv, Computed
  <2> QED BY <1>3, <2>1, <2>2, <2>3 DEF ProcessArticlesBatch, BatchStep
<1>4. CASE RestartServer
  <2>1. known' = stored
    BY <1>4 DEF RestartServer, Server!Restart
  <2>2. \A d \in known' : d[2] = Garbage
    BY <1>0, <2>1 DEF ServerInv
  <2> QED BY <2>2 DEF KnownInv, Computed
<1> QED BY <1>1, <1>2, <1>3, <1>4 DEF StartupNext

\* An article that was read has shingles that are hashed.
LEMMA ShinglesOfArticle ==
    ASSUME Inv, NEW k \in DOMAIN articles
    PROVE  ShinglesOf(articles[k]) \in SUBSET Shingles
<1>1. TypesInv /\ SourceInv
  BY DEF Inv, BatchInv
<1>2. PICK j \in DOMAIN file : articles[k] = file[j] /\ file[j] # Malformed
  BY <1>1 DEF SourceInv
<1> QED BY <1>1, <1>2, StartupAssumption DEF TypesInv

\* Two signatures of a run agree at the positions whose least value, over the
\* shingles of both articles, each of the two has, and at no other, whatever the
\* hash functions are.
THEOREM AgreementOfSignatures == StartupSpec => []AgreementIsCommonLeast
<1>1. StartupInit => KnownInv
  BY DEF StartupInit, Server!Init, KnownInv, Computed
<1>2. Inv /\ KnownInv /\ [StartupNext]_system => KnownInv'
  BY NextKnown
<1>3. Inv /\ KnownInv => AgreementIsCommonLeast
  <2> SUFFICES ASSUME Inv, KnownInv, NEW j \in KnownOfRun, NEW k \in KnownOfRun,
                      NEW hidx \in DOMAIN Hashes
               PROVE  LET A == ShinglesOf(articles[j[1][2]])
                          B == ShinglesOf(articles[k[1][2]])
                      IN  j[2][hidx] = k[2][hidx]
                              <=> A \cup B = {} \/ HaveCommonLeast(hidx, A, B)
    BY Zenon DEF AgreementIsCommonLeast
  <2> DEFINE A == ShinglesOf(articles[j[1][2]])
             B == ShinglesOf(articles[k[1][2]])
  <2>0. SUFFICES j[2][hidx] = k[2][hidx] <=> A \cup B = {} \/ HaveCommonLeast(hidx, A, B)
    OBVIOUS
  <2>1. /\ j[1][2] \in DOMAIN articles /\ j[2] = ComputeSignature(A)
        /\ k[1][2] \in DOMAIN articles /\ k[2] = ComputeSignature(B)
    BY DEF KnownInv, Computed, KnownOfRun
  <2>2. A \in SUBSET Shingles /\ B \in SUBSET Shingles
    BY <2>1, ShinglesOfArticle
  <2> HIDE DEF A, B
  <2> QED BY <2>1, <2>2, AgreesAt
<1> QED BY <1>1, <1>2, <1>3, InvHolds, PTL DEF StartupSpec
=============================================================================
