---------------------------- MODULE Topics_proofs ----------------------------
(***************************************************************************)
(* For any articles.xml, any words and any limits on a term's frequency:   *)
(* what the functions Python calls return, and when they abort.            *)
(***************************************************************************)
EXTENDS Topics, ArticleParser_proofs

FileLen == IF file = Missing THEN 0 ELSE Len(file)

Entry == [title : Titles, tokens : Seq(Tokens)]

Title(k) == file[articles[k]].title

Text(k) == file[articles[k]].tokens

\* The articles processed so far whose tokens have stem s.
MetIn(s) == {k \in DOMAIN processed : s \in StemsIn(Text(k))}

-----------------------------------------------------------------------------
\* The articles loaded are entries of the file under titles of their own.
TypesInv ==
    /\ pc \in {"load", "process", "svd", "returned", "threw", "aborted"}
    /\ file \in Files
    /\ idx \in Nat \ {0}
    /\ titles \subseteq Titles
    /\ articles \in Seq(1 .. FileLen)
    /\ \A k \in DOMAIN articles : file[articles[k]] \in Entry
    /\ \A j, k \in DOMAIN articles : Title(j) = Title(k) => j = k
    /\ VocabularyTypeOK
    /\ freq0 \in [StemIds -> Int]

\* While articles are loaded, their titles are taken and nothing is counted;
\* then each in its turn leaves its stem ids, in the final vocabulary.
LoopsInv ==
    /\ pc = "load" =>
           /\ \A k \in DOMAIN articles : Title(k) \in titles
           /\ processed = <<>>
           /\ stems_freq = freq0
           /\ \A id \in StemIds : tokensOf[id] = {}
    /\ processed \in Seq(Seq(0 .. stems_no - 1))
    /\ Len(processed) <= Len(articles)
    /\ pc = "process" => Len(processed) = idx - 1
    /\ \A k \in DOMAIN processed : processed[k] = StemIdsOf(Text(k))

\* The stems the arrays have room for.
StemsWithRoom == {s \in stems : HasRoom(StemId(s))}

\* A stem's counter counts the articles processed that have it, from what the
\* memory held; the counters of no stem hold that still.
CountInv ==
    /\ \A s \in StemsWithRoom :
           stems_freq[StemId(s)] = freq0[StemId(s)] + Cardinality(MetIn(s))
    /\ \A id \in StemIds : id >= stems_no => stems_freq[id] = freq0[id]

\* The tokens of a stem id are tokens of its stem, and a stem met has one.
TokensInv ==
    /\ \A id \in StemIds : \A t \in tokensOf[id] :
           \E s \in stems : StemId(s) = id /\ Stem[t] = s
    /\ \A s \in StemsWithRoom : MetIn(s) # {} => tokensOf[StemId(s)] # {}

\* The matrix is built once, of all articles and the final vocabulary.
MatrixInv ==
    \/ /\ terms_mat_to_vocab = <<>> /\ term_doc_mat = <<>> /\ topics = <<>>
       /\ pc # "svd"
    \/ /\ pc \in {"svd", "returned", "aborted"}
       /\ pc = "svd" => call = "compute_topics"
       /\ Len(processed) = Len(articles)
       /\ stems_no < MaxStemsNo
       /\ terms_mat_to_vocab = InOrder(TermIds)
       /\ \E past \in Beyond :
              term_doc_mat = [c \in DOMAIN processed |->
                                 Column(InOrder(TermIds), processed[c], past)]

\* A topic is made of tokens of rows.
TopicsInv ==
    /\ topics # <<>> => pc = "returned"
    /\ topics \in Seq(SUBSET Tokens)
    /\ \A c \in DOMAIN topics : \A t \in topics[c] :
           \E id \in TermIds : id \in StemIds /\ t \in tokensOf[id]

Inv == TypesInv /\ LoopsInv /\ CountInv /\ TokensInv /\ MatrixInv /\ TopicsInv

-----------------------------------------------------------------------------
\* Whatever has been loaded is a file of entries, malformed or not.
LEMMA FileType ==
    ASSUME TypesInv
    PROVE  /\ FileLen \in Nat
           /\ file # Missing => /\ file \in [1 .. FileLen -> Entry \cup {Malformed}]
                                /\ FileLen = Len(file)
           /\ articles \in [1 .. Len(articles) -> 1 .. FileLen]
           /\ DOMAIN articles = 1 .. Len(articles) /\ Len(articles) \in Nat
           /\ \A k \in DOMAIN articles : Text(k) \in Seq(Tokens) /\ Title(k) \in Titles
<1>1. file # Missing => file \in Seq(Entry \cup {Malformed})
  BY TopicsAssumption DEF TypesInv, Entry
<1>2. FileLen \in Nat /\ (file # Missing => /\ file \in [1 .. FileLen -> Entry \cup {Malformed}]
                                            /\ FileLen = Len(file))
  BY <1>1, LenProperties DEF FileLen
<1>3. /\ articles \in [1 .. Len(articles) -> 1 .. FileLen]
      /\ DOMAIN articles = 1 .. Len(articles) /\ Len(articles) \in Nat
  BY LenProperties DEF TypesInv
<1>4. \A k \in DOMAIN articles : Text(k) \in Seq(Tokens) /\ Title(k) \in Titles
  BY DEF TypesInv, Text, Title, Entry
<1> QED BY <1>2, <1>3, <1>4

\* The stems of a text, and the stem ids it is turned into.
LEMMA TextIds ==
    ASSUME NEW art \in Seq(Tokens), stems \subseteq Stems,
           NEW ids, ids = {StemIdsOf(art)[n] : n \in DOMAIN StemIdsOf(art)}
    PROVE  /\ StemIdsOf(art) \in Seq(0 .. stems_no - 1)
           /\ ids \subseteq Nat /\ IsFiniteSet(ids)
           /\ \A id \in ids : \E s \in stems : StemId(s) = id
           /\ \A s \in stems : StemId(s) \in ids <=> s \in StemsIn(art)
<1>1. /\ StemIdsOf(art) \in Seq(0 .. stems_no - 1)
      /\ ids \subseteq Nat
      /\ \A id \in ids : \E s \in stems : StemId(s) = id
      /\ \A s \in stems : StemId(s) \in ids <=>
             \E i \in DOMAIN art : HasStem(art[i]) /\ StemOf(art[i]) = s
  BY StemIdsAre DEF stems_no
<1>2. ASSUME NEW s
      PROVE  s \in StemsIn(art) <=> \E i \in DOMAIN art : HasStem(art[i]) /\ StemOf(art[i]) = s
  <2>1. s \in StemsIn(art) <=> \E t \in TokensIn(art) : HasStem(t) /\ StemOf(t) = s
    BY DEF StemsIn
  <2> QED BY <2>1 DEF TokensIn
<1>3. IsFiniteSet(ids)
  <2>1. /\ stems_no \in Nat
        /\ \A s \in stems : StemId(s) \in Nat /\ StemId(s) < stems_no
    BY StemIdsType DEF stems_no
  <2>2. ids \in SUBSET (0 .. stems_no - 1)
    BY <1>1, <2>1
  <2>3. IsFiniteSet(0 .. stems_no - 1)
    BY <2>1, FS_Interval
  <2> QED BY <2>2, <2>3, FS_Subset
<1> QED BY <1>1, <1>2, <1>3

\* What process_tokens does to the counters and the tokens of a stem.
LEMMA ProcessEffect ==
    ASSUME NEW art \in Seq(Tokens), VocabularyTypeOK, ProcessTokens(art)
    PROVE  /\ VocabularyTypeOK' /\ stems' = stems
           /\ \A s \in StemsWithRoom : stems_freq'[StemId(s)] =
                  stems_freq[StemId(s)] + IF s \in StemsIn(art) THEN 1 ELSE 0
           /\ \A id \in StemIds : id >= stems_no => stems_freq'[id] = stems_freq[id]
           /\ \A id \in StemIds : tokensOf[id] \subseteq tokensOf'[id]
           /\ \A id \in StemIds : \A t \in tokensOf'[id] \ tokensOf[id] :
                  \E s \in stems : StemId(s) = id /\ Stem[t] = s
           /\ \A s \in StemsWithRoom :
                  s \in StemsIn(art) => tokensOf'[StemId(s)] # {}
<1> DEFINE ids == {StemIdsOf(art)[n] : n \in DOMAIN StemIdsOf(art)}
           New(id) == {Lower[t] : t \in {u \in TokensIn(KnownTokens(art)) :
                                            StemId(StemOf(u)) = id}}
<1>1. /\ stems \subseteq Stems /\ stems_freq \in [StemIds -> Int]
      /\ freq_stems_no \in Nat /\ tokensOf \in [StemIds -> SUBSET Tokens]
  BY DEF VocabularyTypeOK
<1>2. /\ ids \subseteq Nat /\ IsFiniteSet(ids)
      /\ \A id \in ids : \E s \in stems : StemId(s) = id
      /\ \A s \in stems : StemId(s) \in ids <=> s \in StemsIn(art)
  BY <1>1, TextIds
<1>3. /\ stems' = stems
      /\ stems_freq' = [id \in StemIds |-> stems_freq[id] + IF id \in ids THEN 1 ELSE 0]
      /\ freq_stems_no' =
             freq_stems_no + Cardinality({id \in ids : stems_freq[id] + 1 > 3})
      /\ tokensOf' = [id \in StemIds |-> tokensOf[id] \cup New(id)]
  BY DEF ProcessTokens
<1>4. /\ stems_no \in Nat
      /\ \A s \in stems : StemId(s) \in Nat /\ StemId(s) < stems_no
      /\ StemsWithRoom \subseteq stems
      /\ \A s \in StemsWithRoom : StemId(s) \in StemIds
  BY <1>1, StemIdsType DEF stems_no, StemsWithRoom, HasRoom
<1>5. TokensIn(KnownTokens(art)) = {art[i] : i \in {j \in DOMAIN art : IsKnown(art[j])}}
  BY KnownTokensAre
<1>6. \A u \in TokensIn(KnownTokens(art)) :
          u \in Tokens /\ HasStem(u) /\ StemOf(u) \in stems
  <2>1. \A i \in DOMAIN art : art[i] \in Tokens
    BY LenProperties
  <2> QED BY <1>5, <2>1 DEF IsKnown
<1>7. ASSUME NEW id \in StemIds, NEW t \in New(id)
      PROVE  t \in Tokens /\ \E s \in stems : StemId(s) = id /\ Stem[t] = s
  <2>1. PICK u \in TokensIn(KnownTokens(art)) : StemId(StemOf(u)) = id /\ t = Lower[u]
    BY <1>7
  <2>2. StemOf(u) \in stems /\ u \in Tokens
    BY <1>6
  <2>3. t \in Tokens /\ Stem[t] = StemOf(u)
    BY <2>1, <2>2, ParserAssumption DEF StemOf
  <2> QED BY <2>1, <2>2, <2>3
<1>8. ASSUME NEW s \in stems, s \in StemsIn(art) PROVE New(StemId(s)) # {}
  <2>1. PICK u \in TokensIn(art) : HasStem(u) /\ StemOf(u) = s
    BY <1>8 DEF StemsIn
  <2>2. PICK i \in DOMAIN art : art[i] = u
    BY DEF TokensIn
  <2>3. u \in TokensIn(KnownTokens(art))
    BY <1>5, <2>1, <2>2 DEF IsKnown
  <2>4. Lower[u] \in New(StemId(s))
    BY <2>1, <2>3
  <2> QED BY <2>4
<1>9. Cardinality({id \in ids : stems_freq[id] + 1 > 3}) \in Nat
  BY <1>2, FS_Subset, FS_CardinalityType
<1> HIDE DEF ids, New
<1>10. stems_freq' \in [StemIds -> Int]
  BY <1>1, <1>3
<1>11. tokensOf' \in [StemIds -> SUBSET Tokens]
  BY <1>1, <1>3, <1>7
<1>12. VocabularyTypeOK'
  BY <1>1, <1>3, <1>9, <1>10, <1>11 DEF VocabularyTypeOK
<1>13. \A s \in StemsWithRoom : stems_freq'[StemId(s)] =
           stems_freq[StemId(s)] + IF s \in StemsIn(art) THEN 1 ELSE 0
  BY <1>2, <1>3, <1>4
<1>14. ASSUME NEW id \in StemIds, id >= stems_no PROVE stems_freq'[id] = stems_freq[id]
  <2>1. id \notin ids
    <3>1. id \in Int
      BY VocabularyAssumption DEF StemIds
    <3> QED BY <1>2, <1>4, <1>14, <3>1
  <2>2. stems_freq[id] \in Int
    BY <1>1
  <2> QED BY <1>3, <2>1, <2>2
<1>15. \A id \in StemIds : tokensOf'[id] = tokensOf[id] \cup New(id)
  BY <1>3
<1>16. \A s \in StemsWithRoom : s \in StemsIn(art) => tokensOf'[StemId(s)] # {}
  BY <1>4, <1>8, <1>15
<1> QED BY <1>3, <1>7, <1>12, <1>13, <1>14, <1>15, <1>16

\* Before anything is processed nothing is met, and any values will do.
LEMMA NothingMet ==
    ASSUME TypesInv, LoopsInv, pc = "load"
    PROVE  CountInv /\ TokensInv
<1>1. /\ processed = <<>> /\ stems_freq = freq0
      /\ \A id \in StemIds : tokensOf[id] = {}
  BY DEF LoopsInv
<1>2. \A s : MetIn(s) = {}
  BY <1>1 DEF MetIn
<1>3. \A s \in StemsWithRoom : StemId(s) \in StemIds
  BY DEF StemsWithRoom, HasRoom
<1>4. ASSUME NEW s \in StemsWithRoom
      PROVE  stems_freq[StemId(s)] = freq0[StemId(s)] + Cardinality(MetIn(s))
  <2>1. stems_freq[StemId(s)] = freq0[StemId(s)] /\ freq0[StemId(s)] \in Int
    BY <1>1, <1>3 DEF TypesInv
  <2>2. Cardinality(MetIn(s)) = 0
    BY <1>2, FS_EmptySet
  <2> QED BY <2>1, <2>2
<1>5. \A id \in StemIds : id >= stems_no => stems_freq[id] = freq0[id]
  BY <1>1
<1> QED BY <1>1, <1>2, <1>4, <1>5 DEF CountInv, TokensInv

\* One call starts with an empty vocabulary.
LEMMA InitTypes == Init => TypesInv /\ LoopsInv
<1> SUFFICES ASSUME Init PROVE TypesInv /\ LoopsInv
  OBVIOUS
<1>1. /\ stems = {} /\ stems_freq \in [StemIds -> InitialFreqs] /\ freq_stems_no = 0
      /\ freq0 = stems_freq
      /\ tokensOf = [id \in StemIds |-> {}]
      /\ file \in Files /\ pc = "load" /\ idx = 1 /\ titles = {} /\ articles = <<>>
      /\ processed = <<>>
  BY DEF Init, InitVocabulary, TokensMap!Init
<1>2. \A S : <<>> \in Seq(S)
  BY EmptySeq
<1>3. Len(<<>>) = 0 /\ DOMAIN <<>> = {}
  BY EmptySeq
<1>4. VocabularyTypeOK
  BY <1>1, VocabularyAssumption DEF VocabularyTypeOK
<1>7. freq0 \in [StemIds -> Int]
  BY <1>1, VocabularyAssumption
<1>5. TypesInv
  BY <1>1, <1>2, <1>3, <1>4, <1>7 DEF TypesInv
<1>6. LoopsInv
  BY <1>1, <1>2, <1>3 DEF LoopsInv
<1> QED BY <1>5, <1>6

\* The entry at hand while articles are loaded.
LEMMA EntryAtHand ==
    ASSUME TypesInv, Reading, file[idx] # Malformed
    PROVE  /\ idx \in 1 .. FileLen /\ file[idx] \in Entry
           /\ file[idx].title \in Titles /\ file[idx].tokens \in Seq(Tokens)
           /\ ValidStems(file[idx].tokens) \subseteq Stems
<1>1. file # Missing /\ idx <= Len(file) /\ idx \in Nat \ {0}
  BY DEF Reading, TypesInv
<1>2. idx \in 1 .. FileLen /\ file[idx] \in Entry
  BY <1>1, FileType
<1>3. file[idx].title \in Titles /\ file[idx].tokens \in Seq(Tokens)
  BY <1>2 DEF Entry
<1>4. TokensIn(file[idx].tokens) \subseteq Tokens
  BY <1>3, LenProperties DEF TokensIn
<1>5. ValidStems(file[idx].tokens) \subseteq Stems
  BY <1>4, ParserAssumption DEF ValidStems
<1> QED BY <1>2, <1>3, <1>5

\* An article is loaded behind the others, which stay.
LEMMA LoadKeepsTypes ==
    ASSUME TypesInv, LoopsInv, LoadArticle
    PROVE  TypesInv' /\ LoopsInv'
<1>1. /\ Reading /\ file[idx] # Malformed /\ file[idx].title \notin titles /\ pc = "load"
      /\ titles' = titles \cup {file[idx].title} /\ idx' = idx + 1
      /\ UNCHANGED <<stems_freq, freq_stems_no, tokensOf, file, pc, processed, freq0>>
      /\ \/ stems' = stems \cup ValidStems(file[idx].tokens) /\ articles' = Append(articles, idx)
         \/ stems' = stems /\ articles' = articles
  BY DEF LoadArticle, KnownTitle, AddStems, Reading
<1>2. /\ idx \in 1 .. FileLen /\ file[idx] \in Entry /\ file[idx].title \in Titles
      /\ ValidStems(file[idx].tokens) \subseteq Stems
  BY <1>1, EntryAtHand
<1>3. /\ articles \in Seq(1 .. FileLen) /\ DOMAIN articles = 1 .. Len(articles)
      /\ Len(articles) \in Nat
      /\ \A k \in DOMAIN articles : file[articles[k]] \in Entry
      /\ \A k \in DOMAIN articles : Title(k) \in titles
      /\ \A j, k \in DOMAIN articles : Title(j) = Title(k) => j = k
  BY <1>1, FileType DEF TypesInv, LoopsInv
<1>4. /\ articles' \in Seq(1 .. FileLen)
      /\ Len(articles') \in Nat /\ Len(articles) <= Len(articles')
      /\ \A k \in DOMAIN articles : articles'[k] = articles[k]
      /\ \/ DOMAIN articles' = DOMAIN articles
         \/ /\ DOMAIN articles' = DOMAIN articles \cup {Len(articles) + 1}
            /\ articles'[Len(articles) + 1] = idx
  <2>1. CASE articles' = articles
    BY <1>3, <2>1
  <2>2. CASE articles' = Append(articles, idx)
    <3>1. /\ articles' \in Seq(1 .. FileLen) /\ Len(articles') = Len(articles) + 1
          /\ \A k \in 1 .. Len(articles) : articles'[k] = articles[k]
          /\ articles'[Len(articles) + 1] = idx
      BY <1>2, <1>3, <2>2, AppendProperties
    <3>2. DOMAIN articles' = 1 .. Len(articles) + 1
      BY <3>1, LenProperties
    <3>3. DOMAIN articles' = DOMAIN articles \cup {Len(articles) + 1}
      BY <1>3, <3>2
    <3>4. Len(articles') \in Nat /\ Len(articles) <= Len(articles')
      BY <1>3, <3>1
    <3> QED BY <1>3, <3>1, <3>3, <3>4
  <2> QED BY <1>1, <2>1, <2>2
<1>5. \A k \in DOMAIN articles' :
          k \in DOMAIN articles \/ (articles'[k] = idx /\ k = Len(articles) + 1)
  BY <1>4
<1>6. FileLen' = FileLen
  BY <1>1 DEF FileLen
<1>7. \A k \in DOMAIN articles' : file'[articles'[k]] \in Entry
  BY <1>1, <1>2, <1>3, <1>4, <1>5
<1>8. \A k \in DOMAIN articles' : Title(k)' \in titles'
  BY <1>1, <1>3, <1>4, <1>5 DEF Title
<1>9. ASSUME NEW j \in DOMAIN articles', NEW k \in DOMAIN articles', Title(j)' = Title(k)'
      PROVE  j = k
  <2>1. \A i \in DOMAIN articles : Title(i)' = Title(i) /\ Title(i) # file[idx].title
    BY <1>1, <1>3, <1>4 DEF Title
  <2>2. \A i \in DOMAIN articles' \ DOMAIN articles :
            Title(i)' = file[idx].title /\ i = Len(articles) + 1
    BY <1>1, <1>5 DEF Title
  <2> QED BY <1>3, <1>9, <2>1, <2>2
<1>10. VocabularyTypeOK'
  <2>1. stems' \subseteq Stems
    BY <1>1, <1>2 DEF TypesInv, VocabularyTypeOK
  <2> QED BY <1>1, <2>1 DEF TypesInv, VocabularyTypeOK
<1>11. TypesInv'
  <2>1. /\ pc' \in {"load", "process", "svd", "returned", "threw", "aborted"}
        /\ file' \in Files /\ idx' \in Nat \ {0} /\ titles' \subseteq Titles
        /\ freq0' \in [StemIds -> Int]
    BY <1>1, <1>2 DEF TypesInv
  <2> QED BY <1>4, <1>6, <1>7, <1>9, <1>10, <2>1 DEF TypesInv
<1>12. LoopsInv'
  <2>1. processed' = <<>> /\ Len(processed') = 0 /\ DOMAIN processed' = {}
    BY <1>1, EmptySeq DEF LoopsInv
  <2>2. processed' \in Seq(Seq(0 .. stems_no' - 1))
    BY <2>1, EmptySeq
  <2>3. /\ stems_freq' = freq0' /\ \A id \in StemIds : tokensOf'[id] = {}
        /\ pc' = "load"
    BY <1>1 DEF LoopsInv
  <2>4. Len(processed') <= Len(articles')
    BY <1>3, <1>4, <2>1
  <2> QED BY <1>8, <2>1, <2>2, <2>3, <2>4 DEF LoopsInv
<1> QED BY <1>11, <1>12

\* An article processed leaves its stem ids behind those of the others.
LEMMA ProcessKeepsTypes ==
    ASSUME TypesInv, LoopsInv, ProcessArticle
    PROVE  TypesInv' /\ LoopsInv'
<1>1. /\ pc = "process" /\ idx <= Len(articles) /\ idx' = idx + 1
      /\ ProcessTokens(Text(idx))
      /\ processed' = Append(processed, StemIdsOf(Text(idx)))
      /\ UNCHANGED <<file, pc, titles, articles, freq0>>
  BY DEF ProcessArticle, Text
<1>2. idx \in DOMAIN articles /\ Len(articles) \in Nat
  BY <1>1, FileType DEF TypesInv
<1>3. VocabularyTypeOK' /\ stems' = stems /\ Text(idx) \in Seq(Tokens)
  BY <1>1, <1>2, FileType, ProcessEffect DEF TypesInv
<1>4. StemIdsOf(Text(idx)) \in Seq(0 .. stems_no - 1)
  BY <1>3, TextIds DEF TypesInv, VocabularyTypeOK
<1>5. /\ processed \in Seq(Seq(0 .. stems_no - 1)) /\ Len(processed) = idx - 1
      /\ \A k \in DOMAIN processed : processed[k] = StemIdsOf(Text(k))
  BY <1>1 DEF LoopsInv
<1>6. /\ processed' \in Seq(Seq(0 .. stems_no - 1)) /\ Len(processed') = idx
      /\ DOMAIN processed' = 1 .. Len(processed')
      /\ \A k \in 1 .. idx - 1 : processed'[k] = processed[k]
      /\ processed'[idx] = StemIdsOf(Text(idx))
  <2>1. idx \in Nat \ {0}
    BY DEF TypesInv
  <2> QED BY <1>1, <1>4, <1>5, <2>1, AppendProperties, LenProperties
<1>7. \A k : Text(k)' = Text(k) /\ Title(k)' = Title(k)
  BY <1>1 DEF Text, Title
<1>8. \A art : StemIdsOf(art)' = StemIdsOf(art)
  BY <1>3 DEF StemIdsOf, KnownTokens, IsKnown, StemId
<1>9. FileLen' = FileLen /\ stems_no' = stems_no
  BY <1>1, <1>3 DEF FileLen, stems_no
<1>10. TypesInv'
  <2>1. /\ pc' \in {"load", "process", "svd", "returned", "threw", "aborted"}
        /\ file' \in Files /\ idx' \in Nat \ {0} /\ titles' \subseteq Titles
        /\ freq0' \in [StemIds -> Int]
    BY <1>1 DEF TypesInv
  <2> QED BY <1>1, <1>3, <1>7, <1>9, <2>1 DEF TypesInv
<1>11. \A k \in DOMAIN processed' : processed'[k] = StemIdsOf(Text(k))'
  <2>1. ASSUME NEW k \in DOMAIN processed' PROVE processed'[k] = StemIdsOf(Text(k))
    <3>1. k \in 1 .. idx - 1 \/ k = idx
      BY <1>6 DEF TypesInv
    <3>2. DOMAIN processed = 1 .. idx - 1
      BY <1>5, LenProperties
    <3>3. CASE k \in 1 .. idx - 1
      <4>1. processed'[k] = processed[k] /\ processed[k] = StemIdsOf(Text(k))
        BY <1>5, <1>6, <3>2, <3>3, Zenon
      <4> QED BY <4>1
    <3>4. CASE k = idx
      BY <1>6, <3>4, Zenon
    <3> QED BY <3>1, <3>3, <3>4
  <2>2. \A k : StemIdsOf(Text(k))' = StemIdsOf(Text(k))
    BY <1>1, <1>3, Zenon DEF StemIdsOf, KnownTokens, IsKnown, StemId, Text
  <2> QED BY <2>1, <2>2
<1>12. LoopsInv'
  <2>1. pc' # "load" /\ Len(processed') = idx' - 1 /\ Len(processed') <= Len(articles')
    BY <1>1, <1>2, <1>6 DEF TypesInv
  <2>2. processed' \in Seq(Seq(0 .. stems_no' - 1))
    BY <1>6, <1>9
  <2> QED BY <1>11, <2>1, <2>2 DEF LoopsInv
<1> QED BY <1>10, <1>12

\* No other step changes what has been loaded, processed or counted.
LEMMA OtherSteps ==
    ASSUME [Next]_vars
    PROVE  \/ LoadArticle \/ ProcessArticle
           \/ /\ UNCHANGED <<vocabulary, file, titles, articles, processed, freq0>>
              /\ \/ pc' = "load" /\ pc = "load" /\ idx' \in {idx, idx + 1}
                 \/ pc' = "process" /\ pc = "load" /\ idx' = 1
                 \/ pc' = "process" /\ pc = "process" /\ idx' = idx
                 \/ pc' \in {"svd", "returned", "threw", "aborted"} /\ idx' = idx
                 \/ pc' = pc /\ idx' = idx
<1>1. CASE Throw
  BY <1>1 DEF Throw
<1>2. CASE SkipTitle
  BY <1>2 DEF SkipTitle, Reading
<1>3. CASE EndOfLoad
  BY <1>3 DEF EndOfLoad
<1>4. CASE BuildMatrix
  BY <1>4 DEF BuildMatrix
<1>5. CASE GetTopConcepts
  BY <1>5 DEF GetTopConcepts
<1>6. CASE UNCHANGED vars
  BY <1>6 DEF vars
<1>7. CASE ProcessArticleAborts
  BY <1>7 DEF ProcessArticleAborts
<1> QED BY <1>1, <1>2, <1>3, <1>4, <1>5, <1>6, <1>7 DEF Next

LEMMA NextTypes ==
    ASSUME TypesInv, LoopsInv, [Next]_vars
    PROVE  TypesInv' /\ LoopsInv'
<1>1. CASE LoadArticle
  BY <1>1, LoadKeepsTypes
<1>2. CASE ProcessArticle
  BY <1>2, ProcessKeepsTypes
<1>3. CASE /\ UNCHANGED <<vocabulary, file, titles, articles, processed, freq0>>
           /\ \/ pc' = "load" /\ pc = "load" /\ idx' \in {idx, idx + 1}
              \/ pc' = "process" /\ pc = "load" /\ idx' = 1
              \/ pc' = "process" /\ pc = "process" /\ idx' = idx
              \/ pc' \in {"svd", "returned", "threw", "aborted"} /\ idx' = idx
              \/ pc' = pc /\ idx' = idx
  <2>1. /\ UNCHANGED <<stems, stems_freq, freq_stems_no, tokensOf, file, titles, articles>>
        /\ processed' = processed /\ freq0' = freq0
    BY <1>3 DEF vocabulary
  <2>2. /\ pc' \in {"load", "process", "svd", "returned", "threw", "aborted"}
        /\ idx' \in Nat \ {0}
    BY <1>3 DEF TypesInv
  <2>3. FileLen' = FileLen /\ stems_no' = stems_no /\ VocabularyTypeOK'
    BY <2>1 DEF FileLen, stems_no, TypesInv, VocabularyTypeOK
  <2>4. \A k : Title(k)' = Title(k) /\ StemIdsOf(Text(k))' = StemIdsOf(Text(k))
    BY <2>1 DEF StemIdsOf, KnownTokens, IsKnown, StemId, Text, Title
  <2>5. TypesInv'
    BY <2>1, <2>2, <2>3, <2>4 DEF TypesInv
  <2>6. pc' = "load" => pc = "load"
    BY <1>3
  <2>7. pc' = "process" => Len(processed') = idx' - 1
    <3>1. processed = <<>> => Len(processed) = 0
      BY EmptySeq
    <3> QED BY <1>3, <2>1, <3>1 DEF LoopsInv
  <2>8. LoopsInv'
    BY <2>1, <2>3, <2>4, <2>6, <2>7 DEF LoopsInv
  <2> QED BY <2>5, <2>8
<1> QED BY <1>1, <1>2, <1>3, OtherSteps

-----------------------------------------------------------------------------
\* The articles a stem was met in grow by the one at hand.
LEMMA MetInFinite ==
    ASSUME TypesInv, LoopsInv, NEW s
    PROVE  IsFiniteSet(MetIn(s)) /\ Cardinality(MetIn(s)) \in Nat
<1>1. DOMAIN processed = 1 .. Len(processed) /\ Len(processed) \in Nat
  BY LenProperties DEF LoopsInv
<1>2. IsFiniteSet(1 .. Len(processed)) /\ MetIn(s) \in SUBSET (1 .. Len(processed))
  BY <1>1, FS_Interval DEF MetIn
<1>3. IsFiniteSet(MetIn(s))
  BY <1>2, FS_Subset
<1> QED BY <1>3, FS_CardinalityType

LEMMA MetInNext ==
    ASSUME TypesInv, LoopsInv, ProcessArticle, NEW s
    PROVE  /\ s \in StemsIn(Text(idx)) => MetIn(s)' = MetIn(s) \cup {idx}
           /\ s \notin StemsIn(Text(idx)) => MetIn(s)' = MetIn(s)
           /\ idx \notin MetIn(s)
<1>1. /\ pc = "process" /\ articles' = articles /\ file' = file
      /\ processed' = Append(processed, StemIdsOf(Text(idx)))
  BY DEF ProcessArticle, Text
<1>2. processed \in Seq(Seq(0 .. stems_no - 1)) /\ Len(processed) = idx - 1 /\ idx \in Nat \ {0}
  BY <1>1 DEF LoopsInv, TypesInv
<1>3. DOMAIN processed = 1 .. idx - 1
  BY <1>2, LenProperties
<1>4. processed' \in Seq(Seq(0 .. stems_no - 1)) /\ Len(processed') = idx
  <2>1. LoopsInv'
    BY ProcessKeepsTypes
  <2>2. stems' = stems
    BY DEF ProcessArticle, ProcessTokens
  <2>3. processed' \in Seq(Seq(0 .. stems_no - 1))
    BY <2>1, <2>2 DEF LoopsInv, stems_no
  <2>4. Len(processed') = idx' - 1 /\ idx' = idx + 1
    BY <2>1 DEF LoopsInv, ProcessArticle
  <2> QED BY <1>2, <2>3, <2>4
<1>5. DOMAIN processed' = 1 .. idx
  BY <1>4, LenProperties
<1>6. DOMAIN processed' = DOMAIN processed \cup {idx} /\ idx \notin DOMAIN processed
  BY <1>2, <1>3, <1>5
<1>7. \A k : Text(k)' = Text(k)
  BY <1>1 DEF Text
<1>8. MetIn(s)' = {k \in DOMAIN processed' : s \in StemsIn(Text(k))}
  BY <1>1 DEF MetIn, Text, StemsIn, TokensIn, HasStem, StemOf
<1> QED BY <1>6, <1>8 DEF MetIn

LEMMA NextCounts ==
    ASSUME TypesInv, LoopsInv, CountInv, TokensInv, [Next]_vars
    PROVE  CountInv' /\ TokensInv'
<1>0. TypesInv' /\ LoopsInv'
  BY NextTypes
<1>1. CASE LoadArticle
  <2>1. pc' = "load"
    BY <1>1 DEF LoadArticle, Reading
  <2>2. TypesInv /\ LoopsInv /\ pc = "load" => CountInv /\ TokensInv
    BY NothingMet
  <2>3. (TypesInv /\ LoopsInv /\ pc = "load" => CountInv /\ TokensInv)'
    BY NothingMet, PTL
  <2> QED BY <1>0, <2>1, <2>3
<1>2. CASE ProcessArticle
  <2>1. idx \in DOMAIN articles /\ ProcessTokens(Text(idx))
    BY <1>2, FileType DEF ProcessArticle, TypesInv, Text
  <2>2. Text(idx) \in Seq(Tokens) /\ VocabularyTypeOK
    BY <2>1, FileType DEF TypesInv
  <2>3. /\ stems' = stems
        /\ \A s \in StemsWithRoom : stems_freq'[StemId(s)] =
               stems_freq[StemId(s)] + IF s \in StemsIn(Text(idx)) THEN 1 ELSE 0
        /\ \A id \in StemIds : id >= stems_no => stems_freq'[id] = stems_freq[id]
        /\ \A id \in StemIds : tokensOf[id] \subseteq tokensOf'[id]
        /\ \A id \in StemIds : \A t \in tokensOf'[id] \ tokensOf[id] :
               \E s \in stems : StemId(s) = id /\ Stem[t] = s
        /\ \A s \in StemsWithRoom :
               s \in StemsIn(Text(idx)) => tokensOf'[StemId(s)] # {}
    BY <2>1, <2>2, ProcessEffect
  <2>4. (\A s \in stems : StemId(s)' = StemId(s)) /\ freq0' = freq0
    BY <1>2, <2>3 DEF StemId, ProcessArticle
  <2>5. stems_no' = stems_no
    BY <2>3 DEF stems_no
  <2>6. /\ \A s \in StemsWithRoom : StemId(s) \in StemIds
        /\ StemsWithRoom' = StemsWithRoom
    BY <2>3, <2>4 DEF StemsWithRoom, HasRoom
  <2>7. ASSUME NEW s \in StemsWithRoom
        PROVE  stems_freq'[StemId(s)] = freq0[StemId(s)] + Cardinality(MetIn(s)')
    <3>1. PICK b \in Int : /\ b = freq0[StemId(s)]
                           /\ stems_freq[StemId(s)] = b + Cardinality(MetIn(s))
      BY <2>6 DEF CountInv, TypesInv
    <3>2. Cardinality(MetIn(s)) \in Nat /\ IsFiniteSet(MetIn(s))
      BY MetInFinite
    <3>3. CASE s \in StemsIn(Text(idx))
      <4>1. MetIn(s)' = MetIn(s) \cup {idx} /\ idx \notin MetIn(s)
        BY <1>2, <3>3, MetInNext
      <4>2. Cardinality(MetIn(s)') = Cardinality(MetIn(s)) + 1
        BY <3>2, <4>1, FS_AddElement
      <4>3. stems_freq'[StemId(s)] = stems_freq[StemId(s)] + 1
        BY <2>3, <3>3
      <4> QED BY <3>1, <3>2, <4>2, <4>3
    <3>4. CASE s \notin StemsIn(Text(idx))
      <4>1. MetIn(s)' = MetIn(s)
        BY <1>2, <3>4, MetInNext
      <4>2. stems_freq'[StemId(s)] = stems_freq[StemId(s)] + 0
        BY <2>3, <3>4
      <4> QED BY <3>1, <3>2, <4>1, <4>2
    <3> QED BY <3>3, <3>4
  <2>8. CountInv'
    <3>1. \A id \in StemIds : id >= stems_no' => stems_freq'[id] = freq0'[id]
      BY <2>3, <2>4, <2>5 DEF CountInv
    <3>2. \A s \in StemsWithRoom :
              stems_freq'[StemId(s)'] = freq0'[StemId(s)'] + Cardinality(MetIn(s)')
      BY <2>4, <2>7 DEF StemsWithRoom
    <3> QED BY <2>6, <3>1, <3>2 DEF CountInv
  <2>9. ASSUME NEW id \in StemIds, NEW t \in tokensOf'[id]
        PROVE  \E s \in stems : StemId(s) = id /\ Stem[t] = s
    <3>1. CASE t \in tokensOf[id]
      BY <3>1 DEF TokensInv
    <3>2. CASE t \notin tokensOf[id]
      BY <2>3, <3>2
    <3> QED BY <3>1, <3>2
  <2>10. ASSUME NEW s \in StemsWithRoom, MetIn(s)' # {} PROVE tokensOf'[StemId(s)] # {}
    <3>1. CASE s \in StemsIn(Text(idx))
      BY <2>3, <3>1
    <3>2. CASE s \notin StemsIn(Text(idx))
      <4>1. MetIn(s) # {}
        BY <1>2, <2>10, <3>2, MetInNext
      <4>2. tokensOf[StemId(s)] # {}
        BY <4>1 DEF TokensInv
      <4> QED BY <2>3, <2>6, <4>2
    <3> QED BY <3>1, <3>2
  <2>11. TokensInv'
    <3>1. \A s \in StemsWithRoom : MetIn(s)' # {} => tokensOf'[StemId(s)'] # {}
      BY <2>4, <2>10 DEF StemsWithRoom
    <3>2. \A id \in StemIds : \A t \in tokensOf'[id] :
              \E s \in stems' : StemId(s)' = id /\ Stem[t] = s
      BY <2>3, <2>4, <2>9
    <3> QED BY <2>6, <3>1, <3>2 DEF TokensInv
  <2> QED BY <2>8, <2>11
<1>3. CASE UNCHANGED <<vocabulary, file, titles, articles, processed, freq0>>
  <2>1. UNCHANGED <<stems, stems_freq, tokensOf, file, articles, processed, freq0>>
    BY <1>3 DEF vocabulary
  <2>2. stems_no' = stems_no
    BY <2>1 DEF stems_no
  <2>3. \A s : StemId(s)' = StemId(s) /\ MetIn(s)' = MetIn(s)
    BY <2>1 DEF StemId, MetIn, StemsIn, Text, TokensIn, HasStem, StemOf
  <2>6. StemsWithRoom' = StemsWithRoom
    BY <2>1, <2>3 DEF StemsWithRoom, HasRoom
  <2>4. CountInv'
    BY <2>1, <2>2, <2>3, <2>6 DEF CountInv
  <2>5. TokensInv'
    BY <2>1, <2>3, <2>6 DEF TokensInv
  <2> QED BY <2>4, <2>5
<1> QED BY <1>1, <1>2, <1>3, OtherSteps

-----------------------------------------------------------------------------
\* Rows are stem ids, or the position behind the last of them.
LEMMA TermIdsType ==
    ASSUME TypesInv
    PROVE  /\ stems_no \in Nat /\ MaxStemsNo \in Nat
           /\ InOrder(TermIds) \in Seq(0 .. stems_no)
           /\ DOMAIN InOrder(TermIds) = 1 .. Len(InOrder(TermIds))
           /\ \A r \in DOMAIN InOrder(TermIds) : InOrder(TermIds)[r] \in TermIds
<1>1. stems_no \in Nat /\ MaxStemsNo \in Nat
  BY StemIdsType DEF TypesInv, VocabularyTypeOK, stems_no
<1>2. TermIds \in SUBSET (0 .. stems_no)
  BY DEF TermIds
<1> QED BY <1>1, <1>2, InOrderOfIds

\* The concepts of get_top_concepts are made of the tokens of the rows.
LEMMA TopTermsType ==
    ASSUME TypesInv, terms_mat_to_vocab = InOrder(TermIds),
           \A r \in DOMAIN terms_mat_to_vocab : HasTokens(terms_mat_to_vocab[r]),
           NEW topic \in TopTerms(Terms), NEW t \in topic
    PROVE  t \in Tokens /\ \E id \in TermIds : id \in StemIds /\ t \in tokensOf[id]
<1>1. PICK r \in DOMAIN terms_mat_to_vocab : t = Term(terms_mat_to_vocab[r])
  BY DEF TopTerms
<1>2. terms_mat_to_vocab[r] \in TermIds
  BY TermIdsType
<1>3. terms_mat_to_vocab[r] \in StemIds /\ tokensOf[terms_mat_to_vocab[r]] # {}
  BY DEF HasTokens
<1>4. t \in tokensOf[terms_mat_to_vocab[r]]
  BY <1>1, <1>3 DEF Term
<1>5. t \in Tokens
  BY <1>3, <1>4 DEF TypesInv, VocabularyTypeOK
<1> QED BY <1>2, <1>3, <1>4, <1>5

LEMMA InitMatrix == Init => MatrixInv /\ TopicsInv
<1> SUFFICES ASSUME Init PROVE MatrixInv /\ TopicsInv
  OBVIOUS
<1>1. /\ terms_mat_to_vocab = <<>> /\ term_doc_mat = <<>> /\ topics = <<>> /\ pc = "load"
  BY DEF Init, InitLSA
<1>2. <<>> \in Seq(SUBSET Tokens) /\ DOMAIN <<>> = {}
  BY EmptySeq
<1> QED BY <1>1, <1>2 DEF MatrixInv, TopicsInv

\* The matrix is built when all articles are processed.
LEMMA BuildKeepsMatrix ==
    ASSUME TypesInv, LoopsInv, MatrixInv, TopicsInv, BuildMatrix
    PROVE  MatrixInv' /\ TopicsInv'
<1>1. /\ pc = "process" /\ idx > Len(articles) /\ topics = <<>>
      /\ terms_mat_to_vocab = <<>> /\ term_doc_mat = <<>>
      /\ UNCHANGED <<stems, stems_freq, tokensOf, processed, articles, topics>>
  BY DEF BuildMatrix, MatrixInv, vocabulary
<1>2. Len(processed) = Len(articles)
  <2>1. Len(articles) \in Nat /\ Len(processed) \in Nat
    BY FileType, LenProperties DEF LoopsInv
  <2> QED BY <1>1, <2>1 DEF TypesInv, LoopsInv
<1>3. CASE BuildAborts(processed)
  <2>1. pc' = "aborted" /\ terms_mat_to_vocab' = <<>> /\ term_doc_mat' = <<>>
    BY <1>1, <1>3 DEF BuildMatrix, lsa
  <2>2. MatrixInv'
    BY <1>1, <2>1 DEF MatrixInv
  <2> QED BY <1>1, <2>2, EmptySeq DEF TopicsInv
<1>4. CASE ~BuildAborts(processed)
  <2>1. /\ BuildTermDocMatrix(processed) /\ pc' \in {"svd", "returned"}
        /\ pc' = "svd" => call' = "compute_topics"
    BY <1>4 DEF BuildMatrix
  <2>2. terms_mat_to_vocab \o InOrder(TermIds) = InOrder(TermIds)
    BY <1>1, TermIdsType, ConcatEmptySeq
  <2>3. PICK past \in Beyond :
            /\ terms_mat_to_vocab' = InOrder(TermIds)
            /\ term_doc_mat' = [c \in DOMAIN processed |->
                                   Column(InOrder(TermIds), processed[c], past)]
    BY <2>1, <2>2 DEF BuildTermDocMatrix
  <2>4. TermIds' = TermIds /\ InOrder(TermIds)' = InOrder(TermIds) /\ stems_no' = stems_no
    BY <1>1 DEF TermIds, stems_no, InOrder, ElementAt, Position
  <2>5. stems_no < MaxStemsNo
    BY <1>4, TermIdsType, VocabularyAssumption DEF BuildAborts
  <2>7. term_doc_mat' = [c \in DOMAIN processed' |->
                            Column(InOrder(TermIds), processed[c], past)']
    BY <1>1, <2>3, <2>4 DEF Column, Occurrences
  <2>8. MatrixInv'
    BY <1>1, <1>2, <2>1, <2>3, <2>4, <2>5, <2>7 DEF MatrixInv
  <2>9. TopicsInv'
    BY <1>1, EmptySeq DEF TopicsInv
  <2> QED BY <2>8, <2>9
<1> QED BY <1>3, <1>4

LEMMA ConceptsKeepMatrix ==
    ASSUME TypesInv, LoopsInv, MatrixInv, TopicsInv, GetTopConcepts
    PROVE  TopicsInv'
<1>1. /\ pc = "svd" /\ terms_mat_to_vocab = InOrder(TermIds)
      /\ UNCHANGED <<stems, stems_freq, tokensOf>>
  BY DEF GetTopConcepts, MatrixInv, vocabulary
<1>2. TermIds' = TermIds
  BY <1>1 DEF TermIds, stems_no
<1>3. topics = <<>>
  BY <1>1 DEF TopicsInv
<1>4. PICK nc \in ConceptsNo(Len(terms_mat_to_vocab), Len(processed)) :
        LET no == IF Concepts < nc THEN Concepts ELSE nc
        IN  IF no > 0 /\ \E r \in DOMAIN terms_mat_to_vocab : ~HasTokens(terms_mat_to_vocab[r])
            THEN pc' = "aborted" /\ UNCHANGED topics
            ELSE pc' = "returned" /\ topics' \in [1 .. no -> TopTerms(Terms)]
  BY DEF GetTopConcepts
<1> DEFINE no == IF Concepts < nc THEN Concepts ELSE nc
<1>5. no \in Nat
  <2>1. Len(terms_mat_to_vocab) \in Nat /\ Len(processed) \in Nat
    BY <1>1, TermIdsType, LenProperties DEF LoopsInv
  <2>2. nc \in Nat
    BY <2>1 DEF ConceptsNo
  <2> QED BY <2>2, TopicsAssumption
<1>6. \/ topics' = <<>>
      \/ /\ pc' = "returned" /\ topics' \in [1 .. no -> TopTerms(Terms)]
         /\ no > 0 => \A r \in DOMAIN terms_mat_to_vocab : HasTokens(terms_mat_to_vocab[r])
  BY <1>3, <1>4
<1> HIDE DEF no
<1>7. CASE topics' = <<>>
  BY <1>7, EmptySeq DEF TopicsInv
<1>8. CASE /\ pc' = "returned" /\ topics' \in [1 .. no -> TopTerms(Terms)]
           /\ no > 0 => \A r \in DOMAIN terms_mat_to_vocab : HasTokens(terms_mat_to_vocab[r])
  <2>1. ASSUME NEW c \in 1 .. no, NEW t \in topics'[c]
        PROVE  t \in Tokens /\ \E id \in TermIds : id \in StemIds /\ t \in tokensOf[id]
    <3>1. no > 0 /\ topics'[c] \in TopTerms(Terms)
      BY <1>5, <1>8
    <3> QED BY <1>1, <1>8, <2>1, <3>1, TopTermsType
  <2>2. topics' \in [1 .. no -> SUBSET Tokens]
    BY <1>8, <2>1
  <2>3. topics' \in Seq(SUBSET Tokens)
    BY <1>5, <2>2, SeqDef
  <2>4. DOMAIN topics' = 1 .. no
    BY <1>8
  <2> QED BY <1>1, <1>2, <1>8, <2>1, <2>3, <2>4 DEF TopicsInv
<1> QED BY <1>6, <1>7, <1>8

\* Once built it stays.
LEMMA MatrixStays ==
    ASSUME MatrixInv,
           UNCHANGED <<stems, stems_freq, terms_mat_to_vocab, term_doc_mat, processed, articles>>,
           \/ pc' = pc /\ topics' = topics /\ call' = call
           \/ pc = "svd" /\ pc' \in {"returned", "aborted"}
    PROVE  MatrixInv'
<1>1. TermIds' = TermIds /\ InOrder(TermIds)' = InOrder(TermIds) /\ stems_no' = stems_no
  BY DEF TermIds, stems_no, InOrder, ElementAt, Position
<1>2. CASE /\ terms_mat_to_vocab = <<>> /\ term_doc_mat = <<>> /\ topics = <<>>
           /\ pc # "svd"
  BY <1>2 DEF MatrixInv
<1>3. CASE ~(/\ terms_mat_to_vocab = <<>> /\ term_doc_mat = <<>> /\ topics = <<>>
             /\ pc # "svd")
  <2>1. PICK past \in Beyond :
            term_doc_mat = [c \in DOMAIN processed |->
                               Column(InOrder(TermIds), processed[c], past)]
    BY <1>3 DEF MatrixInv
  <2>2. /\ pc \in {"svd", "returned", "aborted"}
        /\ pc = "svd" => call = "compute_topics"
        /\ Len(processed) = Len(articles)
        /\ stems_no < MaxStemsNo
        /\ terms_mat_to_vocab = InOrder(TermIds)
    BY <1>3 DEF MatrixInv
  <2>3. term_doc_mat' = [c \in DOMAIN processed' |->
                            Column(InOrder(TermIds), processed[c], past)']
    BY <1>1, <2>1 DEF Column, Occurrences
  <2> QED BY <1>1, <2>2, <2>3 DEF MatrixInv
<1> QED BY <1>2, <1>3

LEMMA NextMatrix ==
    ASSUME TypesInv, LoopsInv, MatrixInv, TopicsInv, [Next]_vars
    PROVE  MatrixInv' /\ TopicsInv'
<1>1. CASE BuildMatrix
  BY <1>1, BuildKeepsMatrix
<1>2. CASE GetTopConcepts
  <2>1. TopicsInv'
    BY <1>2, ConceptsKeepMatrix
  <2>2. /\ pc = "svd" /\ pc' \in {"returned", "aborted"}
        /\ UNCHANGED <<stems, stems_freq, terms_mat_to_vocab, term_doc_mat, processed, articles>>
    BY <1>2 DEF GetTopConcepts, vocabulary, lsa
  <2>3. MatrixInv'
    BY <2>2, MatrixStays
  <2> QED BY <2>1, <2>3
<1>3. CASE \/ Throw \/ SkipTitle \/ LoadArticle \/ EndOfLoad
           \/ ProcessArticle \/ ProcessArticleAborts
  <2>1. /\ pc \in {"load", "process"}
        /\ pc' \in {"load", "process", "threw", "returned", "aborted"}
        /\ UNCHANGED <<terms_mat_to_vocab, term_doc_mat, topics>>
    BY <1>3 DEF Throw, SkipTitle, LoadArticle, EndOfLoad, ProcessArticle,
                ProcessArticleAborts, Reading, lsa
  <2>2. terms_mat_to_vocab = <<>> /\ term_doc_mat = <<>> /\ topics = <<>>
    BY <2>1 DEF MatrixInv
  <2>3. MatrixInv'
    BY <2>1, <2>2 DEF MatrixInv
  <2> QED BY <2>1, <2>2, <2>3, EmptySeq DEF TopicsInv
<1>4. CASE UNCHANGED vars
  <2>1. /\ UNCHANGED <<stems, stems_freq, tokensOf, terms_mat_to_vocab, term_doc_mat>>
        /\ UNCHANGED <<processed, articles, topics, pc, call>>
    BY <1>4 DEF vars, vocabulary, lsa
  <2>2. MatrixInv'
    BY <2>1, MatrixStays
  <2> QED BY <2>1, <2>2 DEF TopicsInv, TermIds, stems_no
<1> QED BY <1>1, <1>2, <1>3, <1>4 DEF Next

-----------------------------------------------------------------------------
\* Every reachable state satisfies the parts of the invariant.
LEMMA InvHolds == Spec => []Inv
<1>1. Init => Inv
  <2> SUFFICES ASSUME Init PROVE Inv
    OBVIOUS
  <2>1. TypesInv /\ LoopsInv /\ pc = "load"
    BY InitTypes DEF Init
  <2> QED BY <2>1, NothingMet, InitMatrix DEF Inv
<1>2. Inv /\ [Next]_vars => Inv'
  BY NextTypes, NextCounts, NextMatrix DEF Inv
<1> QED BY <1>1, <1>2, PTL DEF Spec

\* A row is the id of a stem, or the position behind the last stem's, whose
\* counter holds what the memory held.
LEMMA RowsAre ==
    ASSUME TypesInv, CountInv, stems_no < MaxStemsNo, NEW id \in TermIds
    PROVE  /\ id \in StemIds /\ id \in 0 .. stems_no /\ stems_freq[id] \in RowCounts
           /\ id < stems_no =>
                  /\ StemAt(id) \in StemsWithRoom /\ StemId(StemAt(id)) = id
                  /\ stems_freq[id] = freq0[id] + Cardinality(MetIn(StemAt(id)))
           /\ id = stems_no => freq0[id] \in RowCounts
<1>1. /\ id \in 0 .. stems_no /\ stems_freq[id] > TfThreshold
      /\ stems_freq[id] < MaxFreq
      /\ stems_no \in Nat /\ MaxStemsNo \in Nat /\ TfThreshold \in Nat /\ MaxFreq \in Nat
  BY TermIdsType, LSAAssumption DEF TermIds
<1>2. id \in StemIds
  BY <1>1 DEF StemIds
<1>3. stems_freq[id] \in RowCounts
  <2>1. stems_freq[id] \in Int
    BY <1>2 DEF TypesInv, VocabularyTypeOK
  <2> QED BY <1>1, <2>1 DEF RowCounts
<1>4. ASSUME id < stems_no
      PROVE  /\ StemAt(id) \in StemsWithRoom /\ StemId(StemAt(id)) = id
             /\ stems_freq[id] = freq0[id] + Cardinality(MetIn(StemAt(id)))
  <2>1. id \in 0 .. Cardinality(stems) - 1
    BY <1>1, <1>4 DEF stems_no
  <2>2. StemAt(id) \in stems /\ StemId(StemAt(id)) = id
    BY <2>1, StemOfId DEF TypesInv, VocabularyTypeOK
  <2>3. StemAt(id) \in StemsWithRoom
    BY <1>2, <2>2 DEF StemsWithRoom, HasRoom
  <2> QED BY <2>2, <2>3 DEF CountInv
<1>5. id = stems_no => freq0[id] \in RowCounts
  BY <1>1, <1>2, <1>3 DEF CountInv
<1> QED BY <1>1, <1>2, <1>3, <1>4, <1>5

\* When all articles are processed, a stem was met under as many titles as
\* articles, because no two articles share a title.
LEMMA TitlesAreArticles ==
    ASSUME TypesInv, LoopsInv, Len(processed) = Len(articles), NEW s
    PROVE  Cardinality(TitlesWith(s)) = Cardinality(MetIn(s)) /\ IsFiniteSet(TitlesWith(s))
<1>1. DOMAIN processed = DOMAIN articles
  BY LenProperties DEF LoopsInv, TypesInv
<1>2. TitlesWith(s) = {Title(k) : k \in MetIn(s)}
  BY <1>1 DEF TitlesWith, MetIn, Title, Text
<1>3. \A j, k \in MetIn(s) : Title(j) = Title(k) => j = k
  BY <1>1 DEF TypesInv, MetIn
<1> DEFINE f == [k \in MetIn(s) |-> Title(k)]
<1>4. f \in Bijection(MetIn(s), TitlesWith(s))
  BY <1>2, <1>3 DEF Bijection, Injection, Surjection, IsInjective
<1>5. IsFiniteSet(MetIn(s))
  BY MetInFinite
<1> HIDE DEF f
<1> QED BY <1>4, <1>5, FS_Bijection DEF ExistsBijection

(***************************************************************************)
(* Types of the vocabulary, of the articles loaded, of rows, columns and   *)
(* topics, whatever the memory of the counters held.                       *)
(***************************************************************************)
THEOREM Typing == Spec => []TypeOK
<1>1. ASSUME Inv PROVE TypeOK
  <2>1. articles \in Seq(1 .. IF file = Missing THEN 0 ELSE Len(file))
    BY <1>1 DEF Inv, TypesInv, FileLen
  <2>2. terms_mat_to_vocab \in Seq(0 .. stems_no)
    BY <1>1, TermIdsType, EmptySeq DEF Inv, MatrixInv
  <2>3. Len(term_doc_mat) \in {0, Len(processed)}
    <3>1. CASE term_doc_mat = <<>>
      BY <3>1, EmptySeq
    <3>2. CASE term_doc_mat # <<>>
      <4>1. PICK past \in Beyond :
                term_doc_mat = [c \in DOMAIN processed |->
                                   Column(InOrder(TermIds), processed[c], past)]
        BY <1>1, <3>2 DEF Inv, MatrixInv
      <4>2. DOMAIN processed = 1 .. Len(processed) /\ Len(processed) \in Nat
        BY <1>1, LenProperties DEF Inv, LoopsInv
      <4> DEFINE S == {Column(InOrder(TermIds), processed[c], past) : c \in 1 .. Len(processed)}
      <4>3. term_doc_mat \in [1 .. Len(processed) -> S]
        BY <4>1, <4>2
      <4> HIDE DEF S
      <4> QED BY <4>2, <4>3, SeqDef, LenProperties
    <3> QED BY <3>1, <3>2
  <2>4. topics \in Seq(SUBSET Tokens) /\ processed \in Seq(Seq(0 .. stems_no - 1))
    BY <1>1 DEF Inv, TopicsInv, LoopsInv
  <2>5. /\ VocabularyTypeOK /\ titles \subseteq Titles
        /\ freq0 \in [StemIds -> Int]
        /\ pc \in {"load", "process", "svd", "returned", "threw", "aborted"}
    BY <1>1 DEF Inv, TypesInv
  <2> QED BY <2>1, <2>2, <2>3, <2>4, <2>5 DEF TypeOK
<1> QED BY <1>1, InvHolds, PTL

(***************************************************************************)
(* lsa.cpp: rows are positions in the set of stems, as are the ids counted *)
(* by; each cell counts the tokens of the article whose stem its row       *)
(* decodes to.  One row may lie past the last stem: the last, when the     *)
(* memory of its counter held what made it a row.                          *)
(***************************************************************************)
THEOREM CellsAreCounts == Spec => []CellsCountTokens
<1>1. ASSUME Inv PROVE CellsCountTokens
  <2> SUFFICES ASSUME NEW c \in DOMAIN term_doc_mat, NEW r \in DOMAIN term_doc_mat[c]
               PROVE  \/ /\ terms_mat_to_vocab[r] < stems_no
                         /\ term_doc_mat[c][r] =
                             Cardinality({i \in DOMAIN Text(c) :
                                 HasStem(Text(c)[i]) /\
                                 StemOf(Text(c)[i]) = StemAt(terms_mat_to_vocab[r])})
                      \/ /\ terms_mat_to_vocab[r] = stems_no
                         /\ freq0[stems_no] \in RowCounts
                         /\ r = Len(terms_mat_to_vocab)
    BY DEF CellsCountTokens, Text
  <2>1. term_doc_mat # <<>>
    BY EmptySeq
  <2>2. PICK past \in Beyond :
            term_doc_mat = [k \in DOMAIN processed |->
                               Column(InOrder(TermIds), processed[k], past)]
    BY <1>1, <2>1 DEF Inv, MatrixInv
  <2>3. /\ stems_no < MaxStemsNo /\ terms_mat_to_vocab = InOrder(TermIds)
        /\ Len(processed) = Len(articles)
    BY <1>1, <2>1 DEF Inv, MatrixInv
  <2>4. c \in DOMAIN processed /\ term_doc_mat[c] = Column(InOrder(TermIds), processed[c], past)
    BY <2>2
  <2>5. r \in DOMAIN InOrder(TermIds)
    BY <2>4 DEF Column
  <2> DEFINE id == terms_mat_to_vocab[r]
             s == StemAt(id)
  <2>6. id \in TermIds
    BY <1>1, <2>3, <2>5, TermIdsType DEF Inv
  <2>7. id \in 0 .. stems_no /\ stems_no \in Nat
    BY <1>1, <2>6, TermIdsType DEF Inv, TermIds
  <2>8. CASE id < stems_no
    <3>1. s \in stems /\ StemId(s) = id
      BY <1>1, <2>3, <2>6, <2>8, RowsAre DEF Inv, StemsWithRoom
    <3>2. term_doc_mat[c][r] = Occurrences(id, processed[c])
      BY <2>3, <2>4, <2>5, <2>8 DEF Column
    <3>3. processed[c] = StemIdsOf(Text(c)) /\ Text(c) \in Seq(Tokens) /\ stems \subseteq Stems
      <4>1. c \in DOMAIN articles
        BY <1>1, <2>3, <2>4, LenProperties DEF Inv, LoopsInv, TypesInv
      <4> QED BY <1>1, <2>4, <4>1, FileType DEF Inv, LoopsInv, TypesInv, VocabularyTypeOK
    <3> HIDE DEF id, s
    <3>4. Occurrences(id, StemIdsOf(Text(c))) =
             Cardinality({i \in DOMAIN Text(c) : HasStem(Text(c)[i]) /\ StemOf(Text(c)[i]) = s})
      BY <3>1, <3>3, StemIdsCountTokens DEF Occurrences
    <3> QED BY <2>8, <3>2, <3>3, <3>4 DEF id, s
  <2>9. CASE id = stems_no
    <3>1. freq0[stems_no] \in RowCounts
      BY <1>1, <2>3, <2>6, <2>9, RowsAre DEF Inv
    <3>2. r = Len(terms_mat_to_vocab)
      <4>1. /\ TermIds \in SUBSET Int /\ IsFiniteSet(TermIds)
            /\ Cardinality(TermIds) \in Nat
            /\ DOMAIN InOrder(TermIds) = 1 .. Cardinality(TermIds)
            /\ Len(InOrder(TermIds)) = Cardinality(TermIds)
        <5>1. TermIds \in SUBSET (0 .. stems_no)
          BY DEF TermIds
        <5> QED BY <2>7, <5>1, InOrderOfIds
      <4>2. Position(InOrder(TermIds)[r], TermIds) = r - 1
        BY <2>5, <4>1, InOrderLists
      <4>3. Position(stems_no, TermIds) = r - 1
        BY <2>3, <2>9, <4>2
      <4>4. {x \in TermIds : x < stems_no} = TermIds \ {stems_no}
        BY <2>7 DEF TermIds
      <4>5. Cardinality(TermIds \ {stems_no}) = Cardinality(TermIds) - 1
        BY <2>6, <2>9, <4>1, FS_RemoveElement
      <4>6. r - 1 = Cardinality(TermIds) - 1
        BY <4>3, <4>4, <4>5 DEF Position
      <4>7. r \in Nat
        BY <2>5, <4>1
      <4> QED BY <2>3, <4>1, <4>6, <4>7
    <3> QED BY <2>9, <3>1, <3>2
  <2> QED BY <2>7, <2>8, <2>9
<1> QED BY <1>1, InvHolds, PTL

\* get_top_concepts fails on a row whose counter no article raised.
LEMMA RowsWithoutTokens ==
    ASSUME Inv, GetTopConcepts, pc' = "aborted"
    PROVE  \E id \in 0 .. stems_no : IsRowFromStart(id)
<1>1. /\ pc = "svd" /\ stems_no < MaxStemsNo /\ terms_mat_to_vocab = InOrder(TermIds)
      /\ Len(processed) = Len(articles)
  BY DEF GetTopConcepts, Inv, MatrixInv
<1>2. PICK r \in DOMAIN terms_mat_to_vocab : ~HasTokens(terms_mat_to_vocab[r])
  BY DEF GetTopConcepts
<1> DEFINE id == terms_mat_to_vocab[r]
<1>3. id \in TermIds
  BY <1>1, TermIdsType DEF Inv
<1> HIDE DEF id
<1>4. /\ id \in StemIds /\ id \in 0 .. stems_no /\ stems_freq[id] \in RowCounts
      /\ id < stems_no =>
             /\ StemAt(id) \in StemsWithRoom /\ StemId(StemAt(id)) = id
             /\ stems_freq[id] = freq0[id] + Cardinality(MetIn(StemAt(id)))
      /\ id = stems_no => freq0[id] \in RowCounts
  BY <1>1, <1>3, RowsAre DEF Inv
<1>5. tokensOf[id] = {}
  BY <1>2, <1>4 DEF HasTokens, id
<1>6. ASSUME id < stems_no
      PROVE  freq0[id] \in RowCounts /\ TitlesWith(StemAt(id)) = {}
  <2>1. MetIn(StemAt(id)) = {}
    BY <1>4, <1>5, <1>6 DEF Inv, TokensInv
  <2>2. Cardinality(MetIn(StemAt(id))) = 0
    BY <2>1, FS_EmptySet
  <2>3. freq0[id] \in Int
    BY <1>4 DEF Inv, TypesInv
  <2>4. freq0[id] \in RowCounts
    BY <1>4, <1>6, <2>2, <2>3
  <2>5. Cardinality(TitlesWith(StemAt(id))) = 0 /\ IsFiniteSet(TitlesWith(StemAt(id)))
    BY <1>1, <2>2, TitlesAreArticles DEF Inv
  <2> QED BY <2>4, <2>5, FS_EmptySet
<1>7. IsRowFromStart(id)
  <2>1. stems_no \in Nat
    BY TermIdsType DEF Inv
  <2>2. id < stems_no \/ id = stems_no
    BY <1>4, <2>1
  <2>3. id = stems_no => ~(id < stems_no)
    BY <2>1
  <2> QED BY <1>4, <1>6, <2>2, <2>3 DEF IsRowFromStart
<1> QED BY <1>4, <1>7

(***************************************************************************)
(* The assertions of increase_stem_freq, build_term_doc_matrix and         *)
(* get_top_concepts, whatever the memory of the counters held: a call      *)
(* fails one only without a valid article, with a vocabulary that leaves   *)
(* no counter behind the last stem's, or on a row that no article made.    *)
(***************************************************************************)
THEOREM CallsEnd == Spec => []EndsWithArticles
<1>1. Init => EndsWithArticles
  BY DEF Init, EndsWithArticles
<1>2. Inv /\ EndsWithArticles /\ [Next]_vars => EndsWithArticles'
  <2> SUFFICES ASSUME Inv, EndsWithArticles, [Next]_vars PROVE EndsWithArticles'
    OBVIOUS
  <2>1. CASE BuildMatrix
    <3> SUFFICES ASSUME pc' = "aborted" PROVE articles = <<>> \/ stems_no >= MaxStemsNo
      BY <2>1 DEF BuildMatrix, vocabulary, EndsWithArticles, stems_no
    <3>1. processed = <<>> \/ stems_no >= MaxStemsNo
      BY <2>1 DEF BuildMatrix, BuildAborts
    <3>2. CASE processed = <<>>
      <4>1. Len(processed) = idx - 1 /\ idx > Len(articles) /\ Len(processed) = 0
        BY <2>1, <3>2, EmptySeq DEF BuildMatrix, Inv, LoopsInv
      <4>2. Len(articles) = 0
        BY <4>1, FileType DEF Inv, TypesInv
      <4> QED BY <4>2, EmptySeq DEF Inv, TypesInv
    <3> QED BY <3>1, <3>2
  <2>2. CASE GetTopConcepts
    <3> SUFFICES ASSUME pc' = "aborted" PROVE EndsWithArticles'
      BY DEF EndsWithArticles
    <3>1. \E id \in 0 .. stems_no : IsRowFromStart(id)
      BY <2>2, RowsWithoutTokens
    <3>2. call = "compute_topics"
      BY <2>2 DEF GetTopConcepts, Inv, MatrixInv
    <3>3. UNCHANGED <<stems, freq0, call, articles, file>>
      BY <2>2 DEF GetTopConcepts, vocabulary
    <3>4. stems_no' = stems_no /\ \A id : IsRowFromStart(id)' = IsRowFromStart(id)
      BY <3>3 DEF stems_no, IsRowFromStart, TitlesWith, StemAt, ElementAt, Position,
                  StemsIn, TokensIn, HasStem, StemOf
    <3>5. \E id \in 0 .. stems_no' : IsRowFromStart(id)'
      BY <3>1, <3>4
    <3> QED BY <3>2, <3>3, <3>5 DEF EndsWithArticles
  <2>3. CASE Throw \/ SkipTitle \/ LoadArticle \/ EndOfLoad \/ ProcessArticle
    <3>1. pc' # "aborted"
      BY <2>3 DEF Throw, SkipTitle, LoadArticle, EndOfLoad, ProcessArticle, Reading
    <3> QED BY <3>1 DEF EndsWithArticles
  <2>4. CASE ProcessArticleAborts
    <3> DEFINE art == file[articles[idx]].tokens
    <3>1. PICK i \in DOMAIN StemIdsOf(art) : ~HasRoom(StemIdsOf(art)[i])
      BY <2>4 DEF ProcessArticleAborts, HaveRoom
    <3>2. idx \in DOMAIN articles
      BY <2>4, FileType DEF ProcessArticleAborts, Inv, TypesInv
    <3>3. art \in Seq(Tokens) /\ stems \subseteq Stems
      BY <3>2, FileType DEF Inv, TypesInv, VocabularyTypeOK, Text
    <3> DEFINE ids == {StemIdsOf(art)[n] : n \in DOMAIN StemIdsOf(art)}
    <3>4. \E s \in stems : StemId(s) = StemIdsOf(art)[i]
      <4>1. StemIdsOf(art)[i] \in ids
        OBVIOUS
      <4> HIDE DEF art
      <4> QED BY <3>3, <4>1, TextIds
    <3>5. PICK s \in stems : ~HasRoom(StemId(s))
      BY <3>1, <3>4
    <3>6. stems_no >= MaxStemsNo
      BY <3>3, <3>5, StemIdsType DEF stems_no
    <3>7. stems' = stems
      BY <2>4 DEF ProcessArticleAborts, vocabulary
    <3> QED BY <3>6, <3>7 DEF EndsWithArticles, stems_no
  <2>5. CASE UNCHANGED vars
    <3>1. UNCHANGED <<stems, freq0, call, articles, file, pc>>
      BY <2>5 DEF vars, vocabulary
    <3>2. stems_no' = stems_no /\ \A id : IsRowFromStart(id)' = IsRowFromStart(id)
      BY <3>1 DEF stems_no, IsRowFromStart, TitlesWith, StemAt, ElementAt, Position,
                  StemsIn, TokensIn, HasStem, StemOf
    <3> QED BY <3>1, <3>2 DEF EndsWithArticles
  <2> QED BY <2>1, <2>2, <2>3, <2>4, <2>5 DEF Next
<1> QED BY <1>1, <1>2, InvHolds, PTL DEF Spec

(***************************************************************************)
(* Each term of a concept is a token of a stem whose counter, from what    *)
(* the memory held, came within the limits by one for each title the stem  *)
(* was met under: lsa.cpp:15 is true of counters that begin at zero.       *)
(***************************************************************************)
THEOREM TermsAreMetOften == Spec => []TermsAreWithinLimits
<1>1. ASSUME Inv PROVE TermsAreWithinLimits
  <2> SUFFICES ASSUME NEW c \in DOMAIN topics, NEW t \in topics[c]
               PROVE  freq0[StemId(Stem[t])] + Cardinality(TitlesWith(Stem[t])) \in RowCounts
    BY DEF TermsAreWithinLimits
  <2>1. PICK id \in TermIds : id \in StemIds /\ t \in tokensOf[id]
    BY <1>1 DEF Inv, TopicsInv
  <2>2. PICK s \in stems : StemId(s) = id /\ Stem[t] = s
    BY <1>1, <2>1 DEF Inv, TokensInv
  <2>3. topics # <<>>
    BY EmptySeq
  <2>4. stems_no < MaxStemsNo /\ Len(processed) = Len(articles)
    BY <1>1, <2>3 DEF Inv, MatrixInv
  <2>5. stems_freq[id] \in RowCounts
    BY <1>1, <2>4, RowsAre DEF Inv
  <2>6. stems_freq[id] = freq0[id] + Cardinality(MetIn(s))
    BY <1>1, <2>1, <2>2 DEF Inv, CountInv, StemsWithRoom, HasRoom
  <2>7. Cardinality(TitlesWith(s)) = Cardinality(MetIn(s))
    BY <1>1, <2>4, TitlesAreArticles DEF Inv
  <2> QED BY <2>2, <2>5, <2>6, <2>7
<1> QED BY <1>1, InvHolds, PTL
=============================================================================
