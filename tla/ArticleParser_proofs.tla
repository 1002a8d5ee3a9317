------------------------- MODULE ArticleParser_proofs -------------------------
(***************************************************************************)
(* What the proofs about the batch, the pipeline and the Python bindings   *)
(* share: positions in a set of numbers, stem ids, and the stem ids of an  *)
(* article.                                                                *)
(***************************************************************************)
EXTENDS ArticleParser, FiniteSetTheorems, SequenceTheorems, TLAPS

-----------------------------------------------------------------------------
(***************************************************************************)
(* Positions: position and element determine each other, every position    *)
(* below the cardinality is taken, and an element added behind all others  *)
(* moves nothing.                                                          *)
(***************************************************************************)
\* A position is a number of elements, and that of an element is not the last.
LEMMA PositionType ==
    ASSUME NEW S \in SUBSET Int, IsFiniteSet(S), NEW x
    PROVE  /\ Position(x, S) \in 0 .. Cardinality(S)
           /\ x \in S => Position(x, S) \in 0 .. Cardinality(S) - 1
<1> DEFINE before == {y \in S : y < x}
<1>1. /\ IsFiniteSet(before) /\ Cardinality(before) <= Cardinality(S)
      /\ Cardinality(S) = Cardinality(before) => before = S
  BY FS_Subset
<1>2. Cardinality(before) \in Nat /\ Cardinality(S) \in Nat
  BY <1>1, FS_CardinalityType
<1>3. x \in S => before # S
  OBVIOUS
<1> QED BY <1>1, <1>2, <1>3 DEF Position

\* Positions grow with the elements.
LEMMA PositionGrows ==
    ASSUME NEW S \in SUBSET Int, IsFiniteSet(S), NEW x \in S, NEW y \in Int, x < y
    PROVE  Position(x, S) < Position(y, S)
<1> DEFINE beforeX == {z \in S : z < x}
           beforeY == {z \in S : z < y}
<1>1. beforeX \subseteq beforeY /\ x \in beforeY \ beforeX
  <2>1. \A z \in S : z \in Int /\ (z < x => z < y) /\ ~(x < x)
    OBVIOUS
  <2> QED BY <2>1
<1>2. IsFiniteSet(beforeY)
  BY FS_Subset
<1>3. /\ IsFiniteSet(beforeX) /\ Cardinality(beforeX) <= Cardinality(beforeY)
      /\ Cardinality(beforeX) # Cardinality(beforeY)
  BY <1>1, <1>2, FS_Subset
<1>4. Cardinality(beforeX) \in Nat /\ Cardinality(beforeY) \in Nat
  BY <1>2, <1>3, FS_CardinalityType
<1> QED BY <1>3, <1>4 DEF Position

\* Different elements have different positions.
LEMMA PositionInjective ==
    ASSUME NEW S \in SUBSET Int, IsFiniteSet(S), NEW x \in S, NEW y \in S,
           Position(x, S) = Position(y, S)
    PROVE  x = y
<1>1. x < y \/ y < x \/ x = y
  BY S \subseteq Int
<1>2. Position(x, S) \in Int /\ Position(y, S) \in Int
  BY PositionType
<1>3. ~(x < y) /\ ~(y < x)
  BY <1>2, PositionGrows
<1> QED BY <1>1, <1>3

\* ElementAt answers the element whose position it is asked for.
LEMMA ElementAtPosition ==
    ASSUME NEW S \in SUBSET Int, IsFiniteSet(S), NEW x \in S
    PROVE  ElementAt(Position(x, S), S) = x
<1>1. \E y \in S : Position(y, S) = Position(x, S)
  OBVIOUS
<1>2. /\ ElementAt(Position(x, S), S) \in S
      /\ Position(ElementAt(Position(x, S), S), S) = Position(x, S)
  BY <1>1 DEF ElementAt
<1> QED BY <1>2, PositionInjective

\* Every position below the cardinality is taken.
LEMMA PositionOfElementAt ==
    ASSUME NEW S \in SUBSET Int, IsFiniteSet(S), NEW n \in 0 .. Cardinality(S) - 1
    PROVE  ElementAt(n, S) \in S /\ Position(ElementAt(n, S), S) = n
<1> DEFINE T == 0 .. Cardinality(S) - 1
           f == [x \in S |-> Position(x, S)]
<1>1. Cardinality(S) \in Nat
  BY FS_CardinalityType
<1>2. f \in Injection(S, T)
  BY PositionType, PositionInjective DEF Injection, IsInjective
<1>3. IsFiniteSet(T) /\ Cardinality(T) = Cardinality(S)
  BY <1>1, FS_Interval
<1>4. f \in Surjection(S, T)
  BY <1>2, <1>3, FS_Injection
<1>5. \E x \in S : Position(x, S) = n
  BY <1>4 DEF Surjection
<1> QED BY <1>5 DEF ElementAt

\* InOrder lists the elements, each at its position.
LEMMA InOrderLists ==
    ASSUME NEW S \in SUBSET Int, IsFiniteSet(S)
    PROVE  /\ Cardinality(S) \in Nat
           /\ InOrder(S) \in Seq(S)
           /\ Len(InOrder(S)) = Cardinality(S)
           /\ DOMAIN InOrder(S) = 1 .. Cardinality(S)
           /\ \A n \in 1 .. Cardinality(S) :
                  InOrder(S)[n] \in S /\ Position(InOrder(S)[n], S) = n - 1
           /\ \A x \in S : Position(x, S) + 1 \in 1 .. Cardinality(S)
                           /\ InOrder(S)[Position(x, S) + 1] = x
<1>1. Cardinality(S) \in Nat
  BY FS_CardinalityType
<1>2. \A n \in 1 .. Cardinality(S) :
          InOrder(S)[n] \in S /\ Position(InOrder(S)[n], S) = n - 1
  BY <1>1, PositionOfElementAt DEF InOrder
<1>3. InOrder(S) \in [1 .. Cardinality(S) -> S]
  BY <1>2 DEF InOrder
<1>4. InOrder(S) \in Seq(S)
  BY <1>1, <1>3, SeqDef
<1>5. DOMAIN InOrder(S) = 1 .. Cardinality(S) /\ Len(InOrder(S)) = Cardinality(S)
  BY <1>1, <1>3, <1>4, LenProperties
<1>6. ASSUME NEW x \in S
      PROVE  /\ Position(x, S) + 1 \in 1 .. Cardinality(S)
             /\ InOrder(S)[Position(x, S) + 1] = x
  <2>1. Position(x, S) \in 0 .. Cardinality(S) - 1
    BY PositionType
  <2>2. Position(x, S) + 1 \in 1 .. Cardinality(S)
    BY <1>1, <2>1
  <2>3. ASSUME NEW p \in 0 .. Cardinality(S) - 1
        PROVE  InOrder(S)[p + 1] = ElementAt(p, S)
    <3>1. p + 1 \in 1 .. Cardinality(S) /\ (p + 1) - 1 = p
      BY <1>1
    <3> DEFINE n == p + 1
    <3>2. n \in 1 .. Cardinality(S) /\ n - 1 = p
      BY <3>1
    <3> HIDE DEF n
    <3>3. InOrder(S)[n] = ElementAt(n - 1, S)
      BY <3>2, Zenon DEF InOrder
    <3> QED BY <3>2, <3>3 DEF n
  <2>4. InOrder(S)[Position(x, S) + 1] = ElementAt(Position(x, S), S)
    BY <2>1, <2>3
  <2> QED BY <2>2, <2>4, ElementAtPosition
<1> QED BY <1>1, <1>2, <1>4, <1>5, <1>6

\* An element behind all others is listed last, and moves none of them.
LEMMA InOrderAppend ==
    ASSUME NEW S \in SUBSET Int, IsFiniteSet(S), NEW m \in Int, \A x \in S : x < m
    PROVE  InOrder(S \cup {m}) = Append(InOrder(S), m)
<1> DEFINE T == S \cup {m}
<1>1. m \notin S
  OBVIOUS
<1>2. IsFiniteSet(T) /\ Cardinality(T) = Cardinality(S) + 1 /\ T \subseteq Int
  BY <1>1, FS_AddElement
<1>3. Cardinality(S) \in Nat
  BY FS_CardinalityType
<1>4. \A x \in S : Position(x, T) = Position(x, S)
  <2> TAKE x \in S
  <2>1. {y \in T : y < x} = {y \in S : y < x}
    BY S \subseteq Int
  <2> QED BY <2>1 DEF Position
<1>5. Position(m, T) = Cardinality(S)
  <2>1. ~(m < m)
    OBVIOUS
  <2>2. {y \in T : y < m} = S
    BY <2>1, Zenon
  <2> QED BY <2>2 DEF Position
<1> HIDE DEF T
<1>6. /\ InOrder(T) \in Seq(T) /\ Len(InOrder(T)) = Cardinality(S) + 1
      /\ \A x \in T : InOrder(T)[Position(x, T) + 1] = x
  BY <1>2, InOrderLists
<1>7. /\ InOrder(S) \in Seq(S) /\ Len(InOrder(S)) = Cardinality(S)
      /\ \A n \in 1 .. Cardinality(S) :
             InOrder(S)[n] \in S /\ Position(InOrder(S)[n], S) = n - 1
  BY InOrderLists
<1>8. S \subseteq T /\ m \in T
  BY DEF T
<1>9. InOrder(S) \in Seq(T)
  BY <1>7, <1>8, SeqMonotonic
<1>10. /\ Append(InOrder(S), m) \in Seq(T)
       /\ Len(Append(InOrder(S), m)) = Cardinality(S) + 1
       /\ \A n \in 1 .. Cardinality(S) : Append(InOrder(S), m)[n] = InOrder(S)[n]
       /\ Append(InOrder(S), m)[Cardinality(S) + 1] = m
  BY <1>7, <1>8, <1>9, AppendProperties
<1>11. ASSUME NEW n \in 1 .. Cardinality(S) + 1
       PROVE  InOrder(T)[n] = Append(InOrder(S), m)[n]
  <2>1. CASE n = Cardinality(S) + 1
    BY <2>1, <1>5, <1>6, <1>8, <1>10
  <2>2. CASE n # Cardinality(S) + 1
    <3>1. n \in 1 .. Cardinality(S)
      BY <2>2, <1>3
    <3> DEFINE x == InOrder(S)[n]
    <3>2. x \in S /\ Position(x, T) = n - 1
      BY <3>1, <1>4, <1>7
    <3>3. InOrder(T)[Position(x, T) + 1] = x
      BY <3>2, <1>6, <1>8
    <3>4. n - 1 + 1 = n
      OBVIOUS
    <3> QED BY <3>1, <3>2, <3>3, <3>4, <1>10
  <2> QED BY <2>1, <2>2
<1>12. InOrder(T) = Append(InOrder(S), m)
  BY <1>3, <1>6, <1>10, <1>11, SeqEqual
<1> QED BY <1>12 DEF T

\* Numbers up to n in their order: if there are more than n, n is one of them.
LEMMA InOrderOfIds ==
    ASSUME NEW n \in Nat, NEW T \in SUBSET (0 .. n)
    PROVE  /\ IsFiniteSet(T) /\ T \in SUBSET Int
           /\ InOrder(T) \in Seq(0 .. n)
           /\ DOMAIN InOrder(T) = 1 .. Cardinality(T)
           /\ Len(InOrder(T)) = Cardinality(T) /\ Cardinality(T) \in Nat
           /\ \A k \in DOMAIN InOrder(T) : InOrder(T)[k] \in T
           /\ Cardinality(T) > n => n \in T
<1>1. IsFiniteSet(0 .. n) /\ Cardinality(0 .. n) = n + 1
  BY FS_Interval
<1>2. /\ IsFiniteSet(T) /\ Cardinality(T) <= n + 1
      /\ n + 1 = Cardinality(T) => T = 0 .. n
  BY <1>1, FS_Subset
<1>3. T \in SUBSET Int
  OBVIOUS
<1>4. /\ InOrder(T) \in Seq(T) /\ Len(InOrder(T)) = Cardinality(T)
      /\ Cardinality(T) \in Nat /\ DOMAIN InOrder(T) = 1 .. Cardinality(T)
      /\ \A k \in 1 .. Cardinality(T) : InOrder(T)[k] \in T
  BY <1>2, <1>3, InOrderLists
<1>5. InOrder(T) \in Seq(0 .. n)
  BY <1>4, SeqMonotonic
<1>6. Cardinality(T) > n => n \in T
  <2> SUFFICES ASSUME Cardinality(T) > n PROVE n \in T
    OBVIOUS
  <2>1. Cardinality(T) = n + 1
    BY <1>2, <1>4
  <2> QED BY <1>2, <2>1
<1> QED BY <1>2, <1>3, <1>4, <1>5, <1>6

-----------------------------------------------------------------------------
\* Each stem of the vocabulary has an id of its own that leads back to the stem,
\* and the arrays have room for it when it is below their size.
LEMMA StemIdsType ==
    ASSUME stems \subseteq Stems
    PROVE  /\ IsFiniteSet(stems) /\ stems \in SUBSET Int
           /\ Cardinality(stems) \in Nat /\ MaxStemsNo \in Nat
           /\ \A s \in stems : /\ StemId(s) \in Nat
                               /\ StemId(s) < Cardinality(stems)
                               /\ HasRoom(StemId(s)) <=> StemId(s) < MaxStemsNo
                               /\ StemAt(StemId(s)) = s
           /\ \A s, r \in stems : StemId(s) = StemId(r) => s = r
<1>1. stems \in SUBSET Stems /\ stems \in SUBSET Int /\ MaxStemsNo \in Nat
  BY VocabularyAssumption
<1>2. IsFiniteSet(stems)
  BY <1>1, VocabularyAssumption, FS_Subset
<1>3. Cardinality(stems) \in Nat
  BY <1>2, FS_CardinalityType
<1>4. \A s \in stems : StemId(s) \in 0 .. Cardinality(stems) - 1
  BY <1>1, <1>2, PositionType DEF StemId
<1>5. \A s \in stems : StemId(s) \in Nat /\ StemId(s) < Cardinality(stems)
  BY <1>3, <1>4
<1>6. \A s \in stems : HasRoom(StemId(s)) <=> StemId(s) < MaxStemsNo
  BY <1>1, <1>5 DEF HasRoom, StemIds
<1>7. \A s \in stems : StemAt(StemId(s)) = s
  BY <1>1, <1>2, ElementAtPosition DEF StemId, StemAt
<1>8. \A s, r \in stems : StemId(s) = StemId(r) => s = r
  BY <1>1, <1>2, PositionInjective DEF StemId
<1> QED BY <1>1, <1>2, <1>3, <1>5, <1>6, <1>7, <1>8

\* Every position of the set of stems is the id of the stem it decodes to, and
\* the position behind them is that of none.
LEMMA StemOfId ==
    ASSUME stems \subseteq Stems
    PROVE  /\ \A id \in 0 .. Cardinality(stems) - 1 :
                  StemAt(id) \in stems /\ StemId(StemAt(id)) = id
           /\ \A s \in stems : StemId(s) # Cardinality(stems)
<1>1. IsFiniteSet(stems) /\ stems \in SUBSET Int /\ Cardinality(stems) \in Nat
  BY StemIdsType
<1>2. \A id \in 0 .. Cardinality(stems) - 1 :
          StemAt(id) \in stems /\ StemId(StemAt(id)) = id
  BY <1>1, PositionOfElementAt DEF StemAt, StemId
<1>3. \A s \in stems : StemId(s) \in 0 .. Cardinality(stems) - 1
  BY <1>1, PositionType DEF StemId
<1> QED BY <1>1, <1>2, <1>3

\* The known tokens of an article are those of its tokens whose stem the
\* vocabulary has.
LEMMA KnownTokensAre ==
    ASSUME NEW art \in Seq(Tokens), NEW S, S = {i \in DOMAIN art : IsKnown(art[i])}
    PROVE  /\ S \in SUBSET Int /\ IsFiniteSet(S) /\ Cardinality(S) \in Nat
           /\ KnownTokens(art) = [n \in 1 .. Cardinality(S) |-> art[InOrder(S)[n]]]
           /\ KnownTokens(art) \in Seq(Tokens)
           /\ TokensIn(KnownTokens(art)) = {art[i] : i \in S}
<1>1. art \in [1 .. Len(art) -> Tokens] /\ Len(art) \in Nat
  BY LenProperties
<1>2. S \in SUBSET Int /\ IsFiniteSet(S)
  <2>1. IsFiniteSet(1 .. Len(art)) /\ S \in SUBSET (1 .. Len(art))
    BY <1>1, FS_Interval
  <2> QED BY <2>1, FS_Subset
<1>3. /\ Cardinality(S) \in Nat
      /\ DOMAIN InOrder(S) = 1 .. Cardinality(S)
      /\ \A n \in 1 .. Cardinality(S) : InOrder(S)[n] \in S
      /\ \A i \in S : \E n \in 1 .. Cardinality(S) : InOrder(S)[n] = i
  BY <1>2, InOrderLists
<1>4. KnownTokens(art) = [n \in 1 .. Cardinality(S) |-> art[InOrder(S)[n]]]
  BY <1>3 DEF KnownTokens
<1>5. KnownTokens(art) \in Seq(Tokens)
  <2>1. KnownTokens(art) \in [1 .. Cardinality(S) -> Tokens]
    BY <1>1, <1>3, <1>4
  <2> QED BY <1>3, <2>1, SeqDef
<1>6. TokensIn(KnownTokens(art)) = {art[i] : i \in S}
  <2>1. ASSUME NEW f, f = [n \in 1 .. Cardinality(S) |-> art[InOrder(S)[n]]]
        PROVE  {f[n] : n \in DOMAIN f} = {art[i] : i \in S}
    <3>1. DOMAIN f = 1 .. Cardinality(S) /\ \A n \in DOMAIN f : f[n] = art[InOrder(S)[n]]
      BY <2>1
    <3>2. ASSUME NEW x \in {f[n] : n \in DOMAIN f} PROVE x \in {art[i] : i \in S}
      <4>1. PICK n \in DOMAIN f : x = f[n]
        OBVIOUS
      <4> QED BY <1>3, <3>1, <4>1
    <3>3. ASSUME NEW i \in S PROVE \E n \in DOMAIN f : art[i] = f[n]
      <4>1. PICK n \in 1 .. Cardinality(S) : InOrder(S)[n] = i
        BY <1>3
      <4> QED BY <3>1, <4>1
    <3>4. ASSUME NEW x \in {art[i] : i \in S} PROVE x \in {f[n] : n \in DOMAIN f}
      BY <3>3
    <3> QED BY <3>2, <3>4
  <2> QED BY <1>4, <2>1 DEF TokensIn
<1> QED BY <1>2, <1>3, <1>4, <1>5, <1>6

\* The stem ids of an article are those of its stems that the vocabulary has.
LEMMA StemIdsAre ==
    ASSUME NEW art \in Seq(Tokens), stems \subseteq Stems,
           NEW ids, ids = {StemIdsOf(art)[n] : n \in DOMAIN StemIdsOf(art)}
    PROVE  /\ StemIdsOf(art) \in Seq(0 .. Cardinality(stems) - 1)
           /\ ids \subseteq Nat
           /\ \A id \in ids : \E s \in stems : StemId(s) = id
           /\ \A s \in stems : StemId(s) \in ids <=>
                  \E i \in DOMAIN art : HasStem(art[i]) /\ StemOf(art[i]) = s
<1> DEFINE S == {i \in DOMAIN art : IsKnown(art[i])}
           K == KnownTokens(art)
<1>1. K \in Seq(Tokens) /\ TokensIn(K) = {art[i] : i \in S}
  BY KnownTokensAre
<1>2. StemIdsOf(art) = [n \in DOMAIN K |-> StemId(StemOf(K[n]))]
  BY DEF StemIdsOf
<1>3. ids = {StemId(StemOf(art[i])) : i \in S}
  <2>1. ids = {StemId(StemOf(t)) : t \in TokensIn(K)}
    <3> HIDE DEF K
    <3> QED BY <1>2 DEF TokensIn
  <2> HIDE DEF S
  <2> QED BY <1>1, <2>1
<1>4. \A i \in S : HasStem(art[i]) /\ StemOf(art[i]) \in stems
  BY DEF IsKnown
<1>5. /\ Cardinality(stems) \in Nat
      /\ \A s \in stems : StemId(s) \in Nat /\ StemId(s) < Cardinality(stems)
      /\ \A s, r \in stems : StemId(s) = StemId(r) => s = r
  BY StemIdsType
<1>6. ASSUME NEW s \in stems
      PROVE  StemId(s) \in ids <=> \E i \in DOMAIN art : HasStem(art[i]) /\ StemOf(art[i]) = s
  <2>1. ASSUME StemId(s) \in ids
        PROVE  \E i \in DOMAIN art : HasStem(art[i]) /\ StemOf(art[i]) = s
    <3>1. PICK i \in S : StemId(s) = StemId(StemOf(art[i]))
      BY <1>3, <2>1
    <3> QED BY <1>4, <1>5, <3>1
  <2>2. ASSUME NEW i \in DOMAIN art, HasStem(art[i]), StemOf(art[i]) = s
        PROVE  StemId(s) \in ids
    <3>1. i \in S
      BY <2>2 DEF IsKnown
    <3> QED BY <1>3, <2>2, <3>1
  <2> QED BY <2>1, <2>2
<1>7. StemIdsOf(art) \in Seq(0 .. Cardinality(stems) - 1)
  <2>1. \A n \in DOMAIN K : K[n] \in TokensIn(K)
    BY DEF TokensIn
  <2>2. ASSUME NEW n \in DOMAIN K PROVE StemOf(K[n]) \in stems
    <3>1. K[n] \in {art[i] : i \in S}
      BY <1>1, <2>1
    <3>2. PICK i \in S : K[n] = art[i]
      BY <3>1
    <3> QED BY <1>4, <3>2
  <2>3. \A s \in stems : StemId(s) \in 0 .. Cardinality(stems) - 1
    <3>1. IsFiniteSet(stems) /\ stems \in SUBSET Int
      BY StemIdsType
    <3> QED BY <3>1, PositionType DEF StemId
  <2>4. DOMAIN K = 1 .. Len(K) /\ Len(K) \in Nat
    BY <1>1, LenProperties
  <2> HIDE DEF K
  <2>5. StemIdsOf(art) \in [1 .. Len(K) -> 0 .. Cardinality(stems) - 1]
    BY <1>2, <2>2, <2>3, <2>4
  <2> DEFINE T == 0 .. Cardinality(stems) - 1
  <2> HIDE DEF T
  <2>6. StemIdsOf(art) \in [1 .. Len(K) -> T]
    BY <2>5 DEF T
  <2>7. StemIdsOf(art) \in Seq(T)
    BY <2>4, <2>6, SeqDef
  <2> QED BY <2>7 DEF T
<1>8. ids \subseteq Nat
  BY <1>3, <1>4, <1>5
<1>9. \A id \in ids : \E s \in stems : StemId(s) = id
  BY <1>3, <1>4
<1> QED BY <1>6, <1>7, <1>8, <1>9

\* A stem id is there as often as its stem among the tokens.
LEMMA StemIdsCountTokens ==
    ASSUME NEW art \in Seq(Tokens), stems \subseteq Stems, NEW s \in stems
    PROVE  Cardinality({n \in DOMAIN StemIdsOf(art) : StemIdsOf(art)[n] = StemId(s)})
               = Cardinality({i \in DOMAIN art : HasStem(art[i]) /\ StemOf(art[i]) = s})
<1> DEFINE S == {i \in DOMAIN art : IsKnown(art[i])}
           at == InOrder(S)
           A == {n \in 1 .. Cardinality(S) : StemOf(art[at[n]]) = s}
           B == {i \in DOMAIN art : HasStem(art[i]) /\ StemOf(art[i]) = s}
           f == [n \in A |-> at[n]]
<1>1. /\ S \in SUBSET Int /\ IsFiniteSet(S) /\ Cardinality(S) \in Nat
      /\ KnownTokens(art) = [n \in 1 .. Cardinality(S) |-> art[at[n]]]
  BY KnownTokensAre
<1>2. /\ \A n \in 1 .. Cardinality(S) : at[n] \in S /\ Position(at[n], S) = n - 1
      /\ \A i \in S : \E n \in 1 .. Cardinality(S) : at[n] = i
  BY <1>1, InOrderLists
<1>3. \A i \in S : StemOf(art[i]) \in stems
  BY DEF IsKnown
<1>4. B = {i \in S : StemOf(art[i]) = s}
  BY DEF IsKnown
<1>5. \A r \in stems : StemId(r) = StemId(s) => r = s
  BY StemIdsType
<1>6. {n \in DOMAIN StemIdsOf(art) : StemIdsOf(art)[n] = StemId(s)} = A
  <2>1. StemIdsOf(art) = [n \in 1 .. Cardinality(S) |-> StemId(StemOf(art[at[n]]))]
    BY <1>1 DEF StemIdsOf
  <2>2. \A n \in 1 .. Cardinality(S) : StemOf(art[at[n]]) \in stems
    BY <1>2, <1>3
  <2> HIDE DEF S, at
  <2> QED BY <1>5, <2>1, <2>2
<1>7. f \in Bijection(A, B)
  <2>1. \A n \in A : f[n] \in B
    BY <1>2, <1>4
  <2>2. \A n, m \in A : f[n] = f[m] => n = m
    <3> SUFFICES ASSUME NEW n \in A, NEW m \in A, at[n] = at[m] PROVE n = m
      OBVIOUS
    <3>1. n - 1 = m - 1 /\ n \in Int /\ m \in Int
      BY <1>1, <1>2
    <3> QED BY <3>1
  <2>3. \A i \in B : \E n \in A : f[n] = i
    BY <1>2, <1>4
  <2> HIDE DEF f, A, B
  <2>4. f \in [A -> B]
    BY <2>1 DEF f
  <2> QED BY <2>2, <2>3, <2>4 DEF Bijection, Injection, Surjection, IsInjective
<1>8. IsFiniteSet(A)
  <2>1. IsFiniteSet(1 .. Cardinality(S)) /\ A \in SUBSET (1 .. Cardinality(S))
    BY <1>1, FS_Interval
  <2> HIDE DEF A
  <2> QED BY <2>1, FS_Subset
<1>9. Cardinality(A) = Cardinality(B)
  <2> HIDE DEF f, A, B
  <2> QED BY <1>7, <1>8, FS_Bijection DEF ExistsBijection
<1> QED BY <1>6, <1>9
=============================================================================
