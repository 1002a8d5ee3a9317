------------------------- MODULE ArticleHandler_proofs -------------------------
(***************************************************************************)
(* For any number of threads, any articles and whatever the counters hold  *)
(* at first: the threads of a pipeline never move a stem id, each gets the *)
(* server's answer to its own article, processed_articles_ counts the      *)
(* originals, and freq_stems_no_ tells whether there is a frequent stem.   *)
(***************************************************************************)
EXTENDS ArticleHandler, ArticleParser_proofs

Places == {"idle", "parse", "process", "test", "load", "store", "token",
           "save", "send", "receive", "decide"}

InToken == {"test", "load", "store", "token"}

TypesInv ==
    /\ at \in [Threads -> Places]
    /\ article \in [Threads -> DOMAIN Scraped \cup {None}]
    /\ tidx \in [Threads -> Nat \ {0}]
    /\ loaded \in [Threads -> Nat]
    /\ stub \in {"ready", "sent", "replied"}
    /\ stub # "ready" => request \in DOMAIN Scraped
    /\ begun \subseteq DOMAIN Scraped
    /\ saved \cup invalid_urls \cup asked \cup ended \subseteq begun
    /\ answer \in [DOMAIN Scraped -> {"OK", "DUP", None}]
    /\ verdict \in [DOMAIN Scraped -> {"OK", "DUP", None}]
    /\ stems_freq \in [StemIds -> Int] /\ freq0 \in [StemIds -> Int]
    /\ freq_stems_no \in Nat
    /\ tokensOf \in [StemIds -> SUBSET Tokens]
    /\ stems = Loaded

\* An article belongs to one thread, from Begin to End; inside a token the
\* thread has a token at hand.
ArticlesInv ==
    \A t \in Threads :
        /\ at[t] = "idle" <=> article[t] = None
        /\ article[t] # None =>
               /\ article[t] \in begun \ ended
               /\ \A u \in Threads \ {t} : article[u] # article[t]
        /\ at[t] \notin {"idle", "parse"} => Tokenized(t) # Malformed
        /\ at[t] \in InToken => tidx[t] <= Len(KnownIds(t))

\* The ids an article met have counters, and that of the token at hand was
\* increased.
RoomInv ==
    /\ \A id \in StemIds : stems_freq[id] >= freq0[id]
    /\ \A t \in Threads :
          /\ at[t] \notin InToken \cup {"process"} => tidx[t] = 1
          /\ at[t] \in InToken \cup {"process"} =>
                 \A j \in 1 .. tidx[t] - 1 : KnownIds(t)[j] \in StemIds
          /\ at[t] \in InToken =>
                 IdAt(t) \in StemIds /\ stems_freq[IdAt(t)] > freq0[IdAt(t)]

-----------------------------------------------------------------------------
LEMMA ScrapedType ==
    /\ Scraped \in [1 .. Len(Scraped) -> Seq(Tokens) \cup {Malformed}]
    /\ DOMAIN Scraped = 1 .. Len(Scraped)
    /\ Len(Scraped) \in Nat
BY HandlerAssumption, LenProperties

\* The parser's vocabulary has the positions of this one.
LEMMA ParserPositions ==
    /\ \A x, S : Parser!Position(x, S) = Position(x, S)
    /\ \A S : Parser!InOrder(S) = InOrder(S)
<1>1. \A S : Parser!Cardinality(S) = Cardinality(S)
  BY DEF Parser!Cardinality, Cardinality
<1>2. \A x, S : Parser!Position(x, S) = Position(x, S)
  BY <1>1 DEF Parser!Position, Position
<1>3. \A n, S : Parser!ElementAt(n, S) = ElementAt(n, S)
  BY <1>2 DEF Parser!ElementAt, ElementAt
<1> QED BY <1>1, <1>2, <1>3 DEF Parser!InOrder, InOrder

\* An article has one stem id for each of its known tokens.
LEMMA KnownIdsType ==
    ASSUME NEW art \in Seq(Tokens)
    PROVE  /\ Parser!KnownTokens(art) \in Seq(Tokens)
           /\ Len(Parser!KnownTokens(art)) \in Nat
           /\ Len(Parser!StemIdsOf(art)) = Len(Parser!KnownTokens(art))
<1> DEFINE S == {i \in DOMAIN art : Parser!IsKnown(art[i])}
           K == Parser!KnownTokens(art)
<1>1. S \in SUBSET Int /\ IsFiniteSet(S) /\ \A i \in S : art[i] \in Tokens
  <2>1. art \in [1 .. Len(art) -> Tokens] /\ Len(art) \in Nat
    BY LenProperties
  <2>2. IsFiniteSet(1 .. Len(art)) /\ S \in SUBSET (1 .. Len(art))
    BY <2>1, FS_Interval
  <2> QED BY <2>1, <2>2, FS_Subset
<1>2. /\ DOMAIN InOrder(S) = 1 .. Cardinality(S) /\ Cardinality(S) \in Nat
      /\ \A n \in 1 .. Cardinality(S) : InOrder(S)[n] \in S
  BY <1>1, InOrderLists
<1>3. K = [n \in 1 .. Cardinality(S) |-> art[InOrder(S)[n]]]
  BY <1>2, ParserPositions DEF Parser!KnownTokens
<1>4. K \in [1 .. Cardinality(S) -> Tokens]
  BY <1>1, <1>2, <1>3
<1>5. K \in Seq(Tokens) /\ Len(K) = Cardinality(S) /\ DOMAIN K = 1 .. Len(K)
  BY <1>2, <1>4, SeqDef, LenProperties
<1> DEFINE ids == [i \in 1 .. Len(K) |-> Parser!StemId(Parser!StemOf(K[i]))]
           range == {Parser!StemId(Parser!StemOf(K[i])) : i \in 1 .. Len(K)}
<1>6. Parser!StemIdsOf(art) = ids
  BY <1>5 DEF Parser!StemIdsOf
<1>7. ids \in [1 .. Len(K) -> range]
  OBVIOUS
<1> HIDE DEF S, K, ids, range
<1>8. Len(ids) = Len(K)
  BY <1>2, <1>5, <1>7, SeqDef, LenProperties
<1> QED BY <1>2, <1>5, <1>6, <1>8 DEF K

-----------------------------------------------------------------------------
(***************************************************************************)
(* Types, and whose an article is.                                         *)
(***************************************************************************)
LEMMA InitTypes == Init => TypesInv /\ ArticlesInv /\ RoomInv
<1> SUFFICES ASSUME Init PROVE TypesInv /\ ArticlesInv /\ RoomInv
  OBVIOUS
<1>1. /\ stems_freq \in [StemIds -> Int]
      /\ tokensOf \in [StemIds -> SUBSET Tokens]
  BY VocabularyAssumption DEF Init, TokensMap!Init
<1>3. TypesInv
  BY <1>1 DEF Init, TypesInv, Places
<1>2. ArticlesInv
  BY DEF Init, ArticlesInv, InToken
<1>4. RoomInv
  BY <1>1 DEF Init, RoomInv, InToken
<1> QED BY <1>2, <1>3, <1>4

\* A token at hand is a token.
LEMMA TokenAtHand ==
    ASSUME TypesInv, ArticlesInv, NEW t \in Threads,
           at[t] \in InToken \/ AtToken(t)
    PROVE  /\ tidx[t] \in Nat \ {0}
           /\ Lower[Parser!KnownTokens(Tokenized(t))[tidx[t]]] \in Tokens
<1>1. article[t] \in DOMAIN Scraped /\ Tokenized(t) # Malformed
  BY DEF TypesInv, ArticlesInv, InToken, AtToken
<1>2. Tokenized(t) \in Seq(Tokens)
  BY <1>1, ScrapedType DEF Tokenized
<1>3. tidx[t] \in Nat \ {0} /\ tidx[t] <= Len(KnownIds(t))
  BY DEF TypesInv, ArticlesInv, AtToken
<1>4. /\ Parser!KnownTokens(Tokenized(t)) \in Seq(Tokens)
      /\ Len(Parser!KnownTokens(Tokenized(t))) \in Nat
      /\ Len(KnownIds(t)) = Len(Parser!KnownTokens(Tokenized(t)))
  BY <1>2, KnownIdsType DEF KnownIds
<1>5. tidx[t] \in 1 .. Len(Parser!KnownTokens(Tokenized(t)))
  BY <1>3, <1>4
<1>6. Parser!KnownTokens(Tokenized(t))[tidx[t]] \in Tokens
  BY <1>4, <1>5, ElementOfSeq
<1> QED BY <1>3, <1>6, ParserAssumption

\* A pipeline without words adds no stem.
LEMMA NoStems == \A art : stems \cup Parser!ValidStems(art) = stems
BY DEF Parser!ValidStems, PipelineWords

LEMMA NextTypes ==
    ASSUME TypesInv, ArticlesInv, [Next]_vars
    PROVE  TypesInv'
<1> USE DEF TypesInv, Places, Go, End, vocabulary, parsing, shared, socket, stored, history
<1>1. CASE Answer
  BY <1>1 DEF Answer
<1>2. ASSUME NEW t \in Threads, Begin(t) PROVE TypesInv'
  BY <1>2 DEF Begin
<1>3. ASSUME NEW t \in Threads, Reject(t) PROVE TypesInv'
  BY <1>3 DEF Reject, ArticlesInv
<1>4. ASSUME NEW t \in Threads, SaveInvalidUrl(t) PROVE TypesInv'
  BY <1>4 DEF SaveInvalidUrl, ArticlesInv
<1>5. ASSUME NEW t \in Threads, AddArticleStems(t) PROVE TypesInv'
  BY <1>5, NoStems DEF AddArticleStems, AddStems
<1>6. ASSUME NEW t \in Threads, FetchAdd(t) PROVE TypesInv'
  <2>1. stems_freq' \in [StemIds -> Int]
    <3>1. ASSUME NEW f \in [StemIds -> Int], NEW id \in StemIds
          PROVE  [f EXCEPT ![id] = @ + 1] \in [StemIds -> Int]
      OBVIOUS
    <3>2. IdAt(t) \in StemIds /\ stems_freq \in [StemIds -> Int]
      BY <1>6 DEF FetchAdd, HasRoom
    <3>3. stems_freq' = [stems_freq EXCEPT ![IdAt(t)] = @ + 1]
      BY <1>6 DEF FetchAdd
    <3> QED BY ONLY <3>1, <3>2, <3>3
  <2> QED BY <1>6, <2>1 DEF FetchAdd
<1>7. ASSUME NEW t \in Threads, Test(t) PROVE TypesInv'
  BY <1>7 DEF Test
<1>8. ASSUME NEW t \in Threads, Load(t) PROVE TypesInv'
  BY <1>8 DEF Load
<1>9. ASSUME NEW t \in Threads, Store(t) PROVE TypesInv'
  BY <1>9 DEF Store
<1>10. ASSUME NEW t \in Threads, AddToken(t) PROVE TypesInv'
  <2>1. Lower[Parser!KnownTokens(Tokenized(t))[tidx[t]]] \in Tokens
    BY <1>10, TokenAtHand DEF AddToken, InToken
  <2>2. tokensOf' \in [StemIds -> SUBSET Tokens]
    BY <1>10, <2>1 DEF AddToken, TokensMap!AddToken
  <2>3. tidx' \in [Threads -> Nat \ {0}]
    BY <1>10 DEF AddToken
  <2> QED BY <1>10, <2>2, <2>3 DEF AddToken
<1>11. ASSUME NEW t \in Threads, EndOfTokens(t) PROVE TypesInv'
  BY <1>11 DEF EndOfTokens
<1>12. ASSUME NEW t \in Threads, SaveArticle(t) PROVE TypesInv'
  BY <1>12 DEF SaveArticle, ArticlesInv
<1>13. ASSUME NEW t \in Threads, Send(t) PROVE TypesInv'
  BY <1>13 DEF Send, ArticlesInv
<1>14. ASSUME NEW t \in Threads, SendRefused(t) PROVE TypesInv'
  BY <1>14 DEF SendRefused, ArticlesInv
<1>15. ASSUME NEW t \in Threads,
              FetchAddAborts(t) \/ SocketAborts(t) \/ AddToClustersAborts(t)
       PROVE  TypesInv'
  BY <1>15 DEF FetchAddAborts, SocketAborts, AddToClustersAborts
<1>16. ASSUME NEW t \in Threads, Receive(t) PROVE TypesInv'
  <2>1. article[t] \in begun /\ answer[request] \in {"OK", "DUP", None}
    BY <1>16 DEF Receive, ArticlesInv
  <2> QED BY <1>16, <2>1 DEF Receive
<1>17. ASSUME NEW t \in Threads, IsDuplicate(t) PROVE TypesInv'
  BY <1>17 DEF IsDuplicate, ArticlesInv
<1>18. ASSUME NEW t \in Threads, AddToClusters(t) PROVE TypesInv'
  BY <1>18 DEF AddToClusters, ArticlesInv
<1>19. CASE UNCHANGED vars
  BY <1>19 DEF vars
<1>20. ASSUME NEW t \in Threads, SaveArticleFails(t) PROVE TypesInv'
  BY <1>20 DEF SaveArticleFails, ArticlesInv
<1> QED BY <1>1, <1>2, <1>3, <1>4, <1>5, <1>6, <1>7, <1>8, <1>9, <1>10, <1>11, <1>12,
           <1>13, <1>14, <1>15, <1>16, <1>17, <1>18, <1>19, <1>20 DEF Next

\* The steps by which a call returns, but for that which counts an original.
Ending(t) ==
    Reject(t) \/ SaveInvalidUrl(t) \/ SaveArticleFails(t) \/ SendRefused(t) \/ IsDuplicate(t)

\* An article keeps its stem ids: the stems stay what they are.
LEMMA KnownIdsSame ==
    ASSUME NEW t \in Threads, stems' = stems, article'[t] = article[t]
    PROVE  KnownIds(t)' = KnownIds(t) /\ Tokenized(t)' = Tokenized(t)
BY DEF KnownIds, Tokenized, Parser!StemIdsOf, Parser!KnownTokens, Parser!IsKnown, Parser!StemId

LEMMA NextArticles ==
    ASSUME TypesInv, ArticlesInv, [Next]_vars
    PROVE  ArticlesInv'
<1> USE DEF ArticlesInv, TypesInv, Places, InToken, Go, End, vocabulary, parsing, shared,
            socket, stored, history
<1>0. \A t \in Threads : article'[t] = article[t] =>
          KnownIds(t)' = KnownIds(t) /\ Tokenized(t)' = Tokenized(t)
  BY NextTypes, KnownIdsSame
<1> HIDE DEF ArticlesInv, TypesInv
<1>1. CASE Answer
  BY <1>1, <1>0 DEF Answer, ArticlesInv
<1>2. ASSUME NEW t \in Threads, Begin(t) PROVE ArticlesInv'
  BY <1>2, <1>0, HandlerAssumption DEF Begin, ArticlesInv, TypesInv
<1>3. ASSUME NEW t \in Threads, Ending(t) \/ AddToClusters(t) PROVE ArticlesInv'
  <2>1. End(t) /\ UNCHANGED <<tidx, begun>>
    BY <1>3 DEF Ending, Reject, SaveInvalidUrl, SaveArticleFails, SendRefused, IsDuplicate,
                AddToClusters
  <2>2. article[t] # None
    BY <1>3 DEF Ending, Reject, SaveInvalidUrl, SaveArticleFails, SendRefused, IsDuplicate,
                AddToClusters, ArticlesInv
  <2> QED BY <2>1, <2>2, <1>0 DEF ArticlesInv, TypesInv
<1>4. ASSUME NEW t \in Threads, AddArticleStems(t) \/ FetchAdd(t) \/ Test(t) \/ Load(t)
                                 \/ Store(t) \/ EndOfTokens(t)
      PROVE  ArticlesInv'
  BY <1>4, <1>0 DEF AddArticleStems, FetchAdd, Test, Load, Store, EndOfTokens, AtToken,
                    ArticlesInv, TypesInv
<1>5. ASSUME NEW t \in Threads, AddToken(t) \/ SaveArticle(t) \/ Send(t) \/ Receive(t)
      PROVE  ArticlesInv'
  BY <1>5, <1>0 DEF AddToken, SaveArticle, Send, Receive, AtToken, ArticlesInv, TypesInv
<1>6. ASSUME NEW t \in Threads,
             FetchAddAborts(t) \/ SocketAborts(t) \/ AddToClustersAborts(t)
      PROVE  ArticlesInv'
  BY <1>6, <1>0 DEF FetchAddAborts, SocketAborts, AddToClustersAborts, ArticlesInv
<1>7. CASE UNCHANGED vars
  BY <1>7, <1>0 DEF vars, ArticlesInv
<1> QED BY <1>1, <1>2, <1>3, <1>4, <1>5, <1>6, <1>7 DEF Next, Ending

\* A thread that is not moved on keeps its token.
LEMMA SameToken ==
    ASSUME NEW t \in Threads, stems' = stems, article'[t] = article[t], tidx'[t] = tidx[t]
    PROVE  IdAt(t)' = IdAt(t)
BY KnownIdsSame DEF IdAt

LEMMA NextRoom ==
    ASSUME TypesInv, ArticlesInv, RoomInv, [Next]_vars
    PROVE  RoomInv'
<1> USE DEF Go, End, vocabulary, parsing, shared, socket, stored, history
<1> DEFINE OfThread(u) ==
        /\ at[u] \notin InToken \cup {"process"} => tidx[u] = 1
        /\ at[u] \in InToken \cup {"process"} =>
               \A j \in 1 .. tidx[u] - 1 : KnownIds(u)[j] \in StemIds
        /\ at[u] \in InToken =>
               IdAt(u) \in StemIds /\ stems_freq[IdAt(u)] > freq0[IdAt(u)]
<1>0. /\ stems' = stems
      /\ \A u \in Threads : article'[u] = article[u] => KnownIds(u)' = KnownIds(u)
      /\ \A u \in Threads : article'[u] = article[u] /\ tidx'[u] = tidx[u] =>
             IdAt(u)' = IdAt(u)
  BY NextTypes, KnownIdsSame, SameToken DEF TypesInv
<1>1. \A u \in Threads : OfThread(u)
  BY DEF RoomInv
\* A thread that stays where it is, while counters may grow.
<1>2. ASSUME NEW u \in Threads, UNCHANGED <<at[u], tidx[u], article[u], freq0>>,
             \A id \in StemIds : stems_freq'[id] >= stems_freq[id]
      PROVE  OfThread(u)'
  <2>1. KnownIds(u)' = KnownIds(u) /\ IdAt(u)' = IdAt(u)
    BY <1>0, <1>2
  <2>2. \A id \in StemIds : stems_freq[id] > freq0[id] => stems_freq'[id] > freq0'[id]
    BY <1>2, NextTypes DEF TypesInv
  <2> QED BY <1>1, <1>2, <2>1, <2>2
<1>3. ASSUME UNCHANGED <<stems_freq, freq0>>, \A u \in Threads : OfThread(u)'
      PROVE  RoomInv'
  BY <1>3 DEF RoomInv
\* A thread that moves alone.
<1>4. ASSUME NEW t \in Threads, UNCHANGED <<stems_freq, freq0>>, OfThread(t)',
             \A u \in Threads \ {t} : UNCHANGED <<at[u], tidx[u], article[u]>>
      PROVE  RoomInv'
  <2>1. \A id \in StemIds : stems_freq'[id] >= stems_freq[id]
    BY <1>4 DEF TypesInv
  <2>2. \A u \in Threads : OfThread(u)'
    BY <1>2, <1>4, <2>1
  <2> HIDE DEF OfThread
  <2> QED BY <1>3, <1>4, <2>2
<1>5. ASSUME NEW t \in Threads,
             \/ Begin(t) \/ Ending(t) \/ SaveArticle(t) \/ Send(t) \/ Receive(t)
             \/ AddToClusters(t)
      PROVE  RoomInv'
  <2>1. /\ at[t] \notin InToken \cup {"process"} /\ at'[t] \notin InToken \cup {"process"}
        /\ tidx' = tidx /\ UNCHANGED <<stems_freq, freq0>>
        /\ \A u \in Threads \ {t} : UNCHANGED <<at[u], tidx[u], article[u]>>
    BY <1>5 DEF Ending, Begin, Reject, SaveInvalidUrl, SaveArticleFails, SaveArticle, Send,
                SendRefused, Receive, IsDuplicate, AddToClusters, InToken, TypesInv
  <2>2. OfThread(t)'
    BY <1>1, <2>1
  <2> HIDE DEF OfThread
  <2> QED BY <1>4, <2>1, <2>2
<1>6. ASSUME NEW t \in Threads, AddArticleStems(t) PROVE RoomInv'
  <2>1. /\ at[t] = "parse" /\ at'[t] = "process" /\ tidx' = tidx
        /\ UNCHANGED <<stems_freq, freq0>>
        /\ \A u \in Threads \ {t} : UNCHANGED <<at[u], tidx[u], article[u]>>
    BY <1>6 DEF AddArticleStems, TypesInv
  <2>2. tidx[t] = 1
    BY <1>1, <2>1 DEF InToken
  <2>3. OfThread(t)'
    BY <2>1, <2>2 DEF InToken
  <2> HIDE DEF OfThread
  <2> QED BY <1>4, <2>1, <2>3
<1>7. ASSUME NEW t \in Threads, FetchAdd(t) PROVE RoomInv'
  <2>1. /\ at[t] = "process" /\ at' = [at EXCEPT ![t] = "test"] /\ IdAt(t) \in StemIds
        /\ stems_freq' = [stems_freq EXCEPT ![IdAt(t)] = @ + 1]
        /\ UNCHANGED <<tidx, article, freq0>>
    BY <1>7 DEF FetchAdd, AtToken, HasRoom
  <2>2. /\ \A id \in StemIds : stems_freq[id] \in Int /\ freq0[id] \in Int
        /\ stems_freq'[IdAt(t)] = stems_freq[IdAt(t)] + 1
        /\ \A id \in StemIds \ {IdAt(t)} : stems_freq'[id] = stems_freq[id]
    BY <2>1 DEF TypesInv
  <2>3. \A id \in StemIds : stems_freq'[id] >= stems_freq[id] /\ stems_freq'[id] >= freq0'[id]
    <3> SUFFICES ASSUME NEW id \in StemIds
                 PROVE  stems_freq'[id] >= stems_freq[id] /\ stems_freq'[id] >= freq0'[id]
      OBVIOUS
    <3>1. stems_freq[id] >= freq0[id] /\ freq0' = freq0
      BY <2>1 DEF RoomInv
    <3> QED BY <2>2, <3>1
  <2>4. at'[t] = "test" /\ IdAt(t)' = IdAt(t) /\ KnownIds(t)' = KnownIds(t)
    BY <1>0, <2>1 DEF TypesInv
  <2>5. stems_freq'[IdAt(t)] > freq0'[IdAt(t)]
    <3>1. stems_freq[IdAt(t)] >= freq0[IdAt(t)] /\ freq0' = freq0
      BY <2>1 DEF RoomInv
    <3> QED BY <2>1, <2>2, <3>1
  <2>6. OfThread(t)'
    BY <1>1, <2>1, <2>4, <2>5 DEF InToken
  <2>7. \A u \in Threads \ {t} : OfThread(u)'
    <3> SUFFICES ASSUME NEW u \in Threads \ {t} PROVE OfThread(u)'
      OBVIOUS
    <3>1. UNCHANGED <<at[u], tidx[u], article[u], freq0>>
      BY <2>1 DEF TypesInv
    <3> HIDE DEF OfThread
    <3> QED BY <1>2, <2>3, <3>1
  <2> QED BY <2>3, <2>6, <2>7 DEF RoomInv
<1>8. ASSUME NEW t \in Threads, Test(t) \/ Load(t) \/ Store(t) PROVE RoomInv'
  <2>1. /\ at[t] \in InToken /\ at'[t] \in InToken /\ UNCHANGED <<tidx, article>>
        /\ UNCHANGED <<stems_freq, freq0>>
        /\ \A u \in Threads \ {t} : UNCHANGED <<at[u], tidx[u], article[u]>>
    BY <1>8 DEF Test, Load, Store, InToken, TypesInv
  <2>2. IdAt(t)' = IdAt(t) /\ KnownIds(t)' = KnownIds(t)
    BY <1>0, <2>1
  <2>3. OfThread(t)'
    BY <1>1, <2>1, <2>2
  <2> HIDE DEF OfThread
  <2> QED BY <1>4, <2>1, <2>3
<1>9. ASSUME NEW t \in Threads, AddToken(t) PROVE RoomInv'
  <2>1. /\ at[t] = "token" \/ (AtToken(t) /\ IsRepeated(t))
        /\ at'[t] = "process" /\ tidx'[t] = tidx[t] + 1 /\ article' = article
        /\ UNCHANGED <<stems_freq, freq0>>
        /\ \A u \in Threads \ {t} : UNCHANGED <<at[u], tidx[u], article[u]>>
    BY <1>9 DEF AddToken, TypesInv
  <2>2. /\ \A j \in 1 .. tidx[t] - 1 : KnownIds(t)[j] \in StemIds
        /\ KnownIds(t)[tidx[t]] \in StemIds
    BY <1>1, <2>1 DEF AtToken, IsRepeated, IdAt, InToken
  <2>3. \A j \in 1 .. tidx'[t] - 1 : KnownIds(t)[j] \in StemIds
    <3>1. tidx[t] \in Nat \ {0}
      BY DEF TypesInv
    <3>2. \A j \in 1 .. tidx'[t] - 1 : j \in 1 .. tidx[t] - 1 \/ j = tidx[t]
      BY <2>1, <3>1
    <3> QED BY <2>2, <3>2
  <2>4. OfThread(t)'
    BY <1>0, <2>1, <2>3 DEF InToken
  <2> HIDE DEF OfThread
  <2> QED BY <1>4, <2>1, <2>4
<1>10. ASSUME NEW t \in Threads, EndOfTokens(t) PROVE RoomInv'
  <2>1. /\ at'[t] = "save" /\ tidx'[t] = 1 /\ UNCHANGED <<stems_freq, freq0>>
        /\ \A u \in Threads \ {t} : UNCHANGED <<at[u], tidx[u], article[u]>>
    BY <1>10 DEF EndOfTokens, TypesInv
  <2>2. OfThread(t)'
    BY <2>1 DEF InToken
  <2> HIDE DEF OfThread
  <2> QED BY <1>4, <2>1, <2>2
<1>11. ASSUME \/ Answer \/ UNCHANGED vars
              \/ \E t \in Threads :
                     FetchAddAborts(t) \/ SocketAborts(t) \/ AddToClustersAborts(t)
       PROVE  RoomInv'
  <2>1. UNCHANGED <<at, tidx, article, stems_freq, freq0>>
    BY <1>11 DEF Answer, vars, FetchAddAborts, SocketAborts, AddToClustersAborts
  <2>2. \A id \in StemIds : stems_freq'[id] >= stems_freq[id]
    BY <2>1 DEF TypesInv
  <2>3. \A u \in Threads : OfThread(u)'
    BY <1>2, <2>1, <2>2
  <2> HIDE DEF OfThread
  <2> QED BY <1>3, <2>1, <2>3
<1> QED BY <1>5, <1>6, <1>7, <1>8, <1>9, <1>10, <1>11 DEF Next, Ending

-----------------------------------------------------------------------------
(***************************************************************************)
(* The socket lets one request through at a time: from send to receive it  *)
(* is the sender's, although any thread may use it.  An article has a      *)
(* verdict only once its own thread received, and only that thread ends it.*)
(***************************************************************************)
SocketInv ==
    /\ stub # "ready" => \E t \in Threads : at[t] = "receive"
    /\ \A t \in Threads :
          /\ at[t] = "receive" => stub # "ready" /\ request = article[t]
          /\ at[t] \in {"send", "receive", "decide"} => article[t] \in saved
          /\ at[t] \in {"receive", "decide"} => article[t] \in asked
          /\ at[t] \notin {"idle", "decide"} => verdict[article[t]] = None
    /\ \A a \in DOMAIN Scraped : a \in ended /\ verdict[a] = "OK" => a \in saved

LEMMA InitSocket == Init => SocketInv /\ AnswerIsOwn
BY HandlerAssumption DEF Init, SocketInv, AnswerIsOwn

LEMMA NextSocket ==
    ASSUME TypesInv, ArticlesInv, SocketInv, AnswerIsOwn, [Next]_vars
    PROVE  SocketInv' /\ AnswerIsOwn'
<1> USE DEF Go, End, vocabulary, parsing, shared, socket, stored, history
<1>1. CASE Answer
  <2>1. PICK t \in Threads : at[t] = "receive" /\ request = article[t]
    BY <1>1 DEF Answer, SocketInv
  <2>2. request \in DOMAIN Scraped /\ verdict[request] = None
    BY <1>1, <2>1 DEF Answer, SocketInv, TypesInv
  <2> QED BY <1>1, <2>2 DEF Answer, SocketInv, AnswerIsOwn, TypesInv
<1>2. ASSUME NEW t \in Threads, Begin(t) PROVE SocketInv' /\ AnswerIsOwn'
  <2>1. \A a \in DOMAIN Scraped \ begun : verdict[a] = None
    BY DEF AnswerIsOwn, TypesInv
  <2> QED BY <1>2, <2>1, HandlerAssumption DEF Begin, SocketInv, AnswerIsOwn, TypesInv
<1>3. ASSUME NEW t \in Threads,
             Reject(t) \/ SaveInvalidUrl(t) \/ SaveArticleFails(t) \/ SendRefused(t)
      PROVE  SocketInv' /\ AnswerIsOwn'
  <2>1. verdict[article[t]] # "OK" /\ at[t] # "receive"
    BY <1>3, HandlerAssumption
       DEF Reject, SaveInvalidUrl, SaveArticleFails, SendRefused, SocketInv
  <2>2. /\ End(t) /\ UNCHANGED <<stub, request, asked, answer, verdict>>
        /\ saved \subseteq saved'
    BY <1>3 DEF Reject, SaveInvalidUrl, SaveArticleFails, SendRefused
  <2> QED BY <2>1, <2>2 DEF SocketInv, AnswerIsOwn, TypesInv
<1>4. ASSUME NEW t \in Threads, IsDuplicate(t) \/ AddToClusters(t)
      PROVE  SocketInv' /\ AnswerIsOwn'
  <2>1. article[t] \in saved /\ at[t] = "decide"
    BY <1>4 DEF IsDuplicate, AddToClusters, SocketInv
  <2>2. End(t) /\ UNCHANGED <<stub, request, saved, asked, answer, verdict>>
    BY <1>4 DEF IsDuplicate, AddToClusters
  <2> QED BY <2>1, <2>2 DEF SocketInv, AnswerIsOwn, TypesInv
<1>5. ASSUME NEW t \in Threads, NEW place \in Places \ {"idle", "receive", "decide", "send"},
             at[t] \notin {"idle", "receive", "decide"}, Go(t, place),
             UNCHANGED <<article, stub, request, saved, asked, ended, answer, verdict>>
      PROVE  SocketInv' /\ AnswerIsOwn'
  BY <1>5 DEF SocketInv, AnswerIsOwn, TypesInv
<1>6. ASSUME NEW t \in Threads, AddArticleStems(t) \/ FetchAdd(t) \/ Test(t) \/ Load(t)
                                 \/ Store(t) \/ AddToken(t) \/ EndOfTokens(t)
      PROVE  SocketInv' /\ AnswerIsOwn'
  <2>1. /\ \E place \in Places \ {"idle", "receive", "decide", "send"} : Go(t, place)
        /\ at[t] \notin {"idle", "receive", "decide"}
        /\ UNCHANGED <<article, stub, request, saved, asked, ended, answer, verdict>>
    BY <1>6 DEF AddArticleStems, FetchAdd, Test, Load, Store, AddToken, EndOfTokens,
                AtToken, Places
  <2> QED BY <1>5, <2>1
<1>7. ASSUME NEW t \in Threads, SaveArticle(t) PROVE SocketInv' /\ AnswerIsOwn'
  BY <1>7 DEF SaveArticle, SocketInv, AnswerIsOwn, TypesInv
<1>8. ASSUME NEW t \in Threads, Send(t) PROVE SocketInv' /\ AnswerIsOwn'
  BY <1>8 DEF Send, SocketInv, AnswerIsOwn, TypesInv
<1>9. ASSUME NEW t \in Threads, Receive(t) PROVE SocketInv' /\ AnswerIsOwn'
  <2>1. article[t] = request /\ article[t] \in DOMAIN Scraped /\ article[t] \notin ended
        /\ article[t] \in asked
    BY <1>9 DEF Receive, SocketInv, TypesInv, ArticlesInv
  <2>2. \A u \in Threads \ {t} : at[u] # "receive" /\ article[u] # article[t]
    BY <1>9, <2>1, HandlerAssumption DEF Receive, SocketInv, ArticlesInv
  <2> QED BY <1>9, <2>1, <2>2 DEF Receive, SocketInv, AnswerIsOwn, TypesInv
<1>10. ASSUME NEW t \in Threads,
              FetchAddAborts(t) \/ SocketAborts(t) \/ AddToClustersAborts(t)
       PROVE  SocketInv' /\ AnswerIsOwn'
  BY <1>10 DEF FetchAddAborts, SocketAborts, AddToClustersAborts, SocketInv, AnswerIsOwn
<1>11. CASE UNCHANGED vars
  BY <1>11 DEF vars, SocketInv, AnswerIsOwn
<1> QED BY <1>1, <1>2, <1>3, <1>4, <1>6, <1>7, <1>8, <1>9, <1>10, <1>11 DEF Next

-----------------------------------------------------------------------------
(***************************************************************************)
(* processed_articles_: one more for each original that ends.              *)
(***************************************************************************)
Originals == {a \in ended : verdict[a] = "OK"}

LEMMA OriginalsFinite ==
    ASSUME TypesInv
    PROVE  IsFiniteSet(Originals) /\ IsFiniteSet(asked)
<1>1. IsFiniteSet(DOMAIN Scraped)
  BY ScrapedType, FS_Interval
<1>2. Originals \in SUBSET (DOMAIN Scraped) /\ asked \in SUBSET (DOMAIN Scraped)
  BY DEF TypesInv, Originals
<1> QED BY <1>1, <1>2, FS_Subset

LEMMA InitCounts == Init => processed_articles = Cardinality(Originals)
<1> SUFFICES ASSUME Init PROVE processed_articles = Cardinality(Originals)
  OBVIOUS
<1>1. Originals = {}
  BY DEF Init, Originals
<1> QED BY <1>1, FS_EmptySet DEF Init

LEMMA NextCounts ==
    ASSUME TypesInv, ArticlesInv, SocketInv, processed_articles = Cardinality(Originals),
           [Next]_vars
    PROVE  processed_articles' = Cardinality(Originals')
<1> USE DEF Go, End, vocabulary, parsing, shared, socket, stored, history
<1>1. ASSUME NEW t \in Threads, AddToClusters(t)
      PROVE  processed_articles' = Cardinality(Originals')
  <2>1. article[t] \notin ended /\ verdict[article[t]] = "OK"
    BY <1>1 DEF AddToClusters, ArticlesInv
  <2>2. Originals' = Originals \cup {article[t]} /\ article[t] \notin Originals
    BY <1>1, <2>1 DEF AddToClusters, Originals
  <2>3. Cardinality(Originals') = Cardinality(Originals) + 1
    BY <2>2, OriginalsFinite, FS_AddElement
  <2> QED BY <1>1, <2>3 DEF AddToClusters
<1>2. ASSUME NEW t \in Threads, Receive(t) PROVE Originals' = Originals
  <2>1. article[t] \notin ended
    BY <1>2 DEF Receive, ArticlesInv
  <2> QED BY <1>2, <2>1 DEF Receive, Originals, TypesInv
<1>3. ASSUME NEW t \in Threads, Ending(t)
      PROVE  Originals' = Originals /\ processed_articles' = processed_articles
  <2>1. verdict[article[t]] # "OK"
    BY <1>3, HandlerAssumption
       DEF Ending, Reject, SaveInvalidUrl, SaveArticleFails, SendRefused, IsDuplicate, SocketInv
  <2> QED BY <1>3, <2>1
          DEF Ending, Reject, SaveInvalidUrl, SaveArticleFails, SendRefused, IsDuplicate, Originals
<1>4. ASSUME NEW t \in Threads, Begin(t) \/ AddArticleStems(t) \/ FetchAdd(t) \/ Test(t)
                                 \/ Load(t) \/ Store(t) \/ AddToken(t) \/ EndOfTokens(t)
                                 \/ SaveArticle(t) \/ Send(t) \/ FetchAddAborts(t)
                                 \/ SocketAborts(t) \/ AddToClustersAborts(t)
      PROVE  Originals' = Originals /\ processed_articles' = processed_articles
  BY <1>4 DEF Begin, AddArticleStems, FetchAdd, Test, Load, Store, AddToken, EndOfTokens,
              SaveArticle, Send, FetchAddAborts, SocketAborts, AddToClustersAborts, Originals
<1>5. ASSUME Answer \/ UNCHANGED vars
      PROVE  Originals' = Originals /\ processed_articles' = processed_articles
  BY <1>5 DEF Answer, vars, Originals
<1>6. ASSUME NEW t \in Threads, Receive(t) PROVE processed_articles' = processed_articles
  BY <1>6 DEF Receive
<1> QED BY <1>1, <1>2, <1>3, <1>4, <1>5, <1>6 DEF Next, Ending

LEMMA CountsInvariants ==
    ASSUME TypesInv, AnswerIsOwn, SocketInv, processed_articles = Cardinality(Originals)
    PROVE  TypeOK /\ CountsOriginals
<1>1. Originals \in SUBSET asked
  BY HandlerAssumption DEF Originals, TypesInv, AnswerIsOwn
<1>2. /\ Cardinality(Originals) \in Nat /\ Cardinality(asked) \in Nat
      /\ Cardinality(Originals) <= Cardinality(asked)
  BY <1>1, OriginalsFinite, FS_Subset, FS_CardinalityType
<1>3. Originals \subseteq saved
  BY DEF Originals, SocketInv, TypesInv
<1>4. CountsOriginals
  BY <1>3 DEF CountsOriginals, Originals
<1>5. VocabularyTypeOK
  BY HandlerAssumption DEF VocabularyTypeOK, TypesInv
<1> QED BY <1>2, <1>4, <1>5 DEF TypeOK, TypesInv, Places

-----------------------------------------------------------------------------
HandlerInv ==
    /\ TypesInv /\ ArticlesInv /\ RoomInv /\ SocketInv /\ AnswerIsOwn
    /\ processed_articles = Cardinality(Originals)

LEMMA HandlerInvHolds == Spec => []HandlerInv
<1>1. Init => HandlerInv
  BY InitTypes, InitSocket, InitCounts DEF HandlerInv
<1>2. HandlerInv /\ [Next]_vars => HandlerInv'
  BY NextTypes, NextArticles, NextRoom, NextSocket, NextCounts DEF HandlerInv
<1> QED BY <1>1, <1>2, PTL DEF Spec

\* Types, and that no more articles are counted than were asked about.
THEOREM Typing == Spec => []TypeOK
<1>1. HandlerInv => TypeOK
  BY CountsInvariants DEF HandlerInv
<1> QED BY <1>1, HandlerInvHolds, PTL

\* A pipeline never moves a stem id: what one thread took for an id in
\* process_tokens stays the id whatever add_stems another thread runs.
THEOREM StemIdsAreStable == Spec => []StemsNeverMove
<1>1. HandlerInv => StemsNeverMove
  BY DEF HandlerInv, TypesInv, StemsNeverMove
<1> QED BY <1>1, HandlerInvHolds, PTL

\* is_duplicate returns to each thread the answer to its own article, over
\* the one socket that all threads use.
THEOREM AnswersAreOwn == Spec => []AnswerIsOwn
<1>1. HandlerInv => AnswerIsOwn
  BY DEF HandlerInv
<1> QED BY <1>1, HandlerInvHolds, PTL

\* processed_articles_ is the number of the originals whose call returned,
\* and all of them are stored.
THEOREM OriginalsAreCounted == Spec => []CountsOriginals
<1>1. HandlerInv => CountsOriginals
  BY CountsInvariants DEF HandlerInv
<1> QED BY <1>1, HandlerInvHolds, PTL

-----------------------------------------------------------------------------
(***************************************************************************)
(* freq_stems_no_: increments may be lost, but the last counter raised     *)
(* beyond three always has a thread on its way to step it, or it was       *)
(* stepped already; and Store never stores a zero.                         *)
(***************************************************************************)
SomeBeyond == \E id \in StemIds : stems_freq[id] > 3 /\ stems_freq[id] > freq0[id]

FrequentInv ==
    /\ freq_stems_no > 0 => SomeBeyond
    /\ (\E t \in Threads : at[t] \in {"load", "store"}) => SomeBeyond
    /\ SomeBeyond =>
          \/ freq_stems_no > 0
          \/ \E t \in Threads : \/ at[t] \in {"load", "store"}
                                \/ at[t] = "test" /\ IsFrequent(IdAt(t))

LEMMA InitFrequent == Init => FrequentInv
<1> SUFFICES ASSUME Init PROVE FrequentInv
  OBVIOUS
<1>1. stems_freq = freq0 /\ \A id \in StemIds : freq0[id] \in Int
  BY InitTypes DEF Init, TypesInv
<1>2. ~ SomeBeyond
  BY <1>1 DEF SomeBeyond
<1>3. freq_stems_no = 0 /\ \A t \in Threads : at[t] = "idle"
  BY DEF Init
<1> QED BY <1>2, <1>3 DEF FrequentInv

LEMMA NextFrequent ==
    ASSUME TypesInv, ArticlesInv, RoomInv, FrequentInv, [Next]_vars
    PROVE  FrequentInv'
<1> USE DEF Go, End, vocabulary, parsing, shared, socket, stored, history
<1>0. stems' = stems /\ \A t \in Threads :
          article'[t] = article[t] /\ tidx'[t] = tidx[t] => IdAt(t)' = IdAt(t)
  BY NextTypes, SameToken DEF TypesInv
\* Steps that leave the counters alone and move a thread elsewhere.
<1>1. ASSUME NEW t \in Threads, NEW place, place \notin {"test", "load", "store"},
             at[t] \notin {"test", "load", "store"}, Go(t, place),
             UNCHANGED <<stems_freq, freq_stems_no, freq0>>,
             \A u \in Threads \ {t} : article'[u] = article[u] /\ tidx'[u] = tidx[u]
      PROVE  FrequentInv'
  BY <1>1, <1>0 DEF FrequentInv, SomeBeyond, IsFrequent, TypesInv
<1>2. ASSUME NEW t \in Threads,
             \/ Begin(t) \/ Ending(t) \/ AddArticleStems(t) \/ AddToken(t)
             \/ EndOfTokens(t) \/ SaveArticle(t) \/ Send(t) \/ Receive(t)
             \/ AddToClusters(t)
      PROVE  FrequentInv'
  <2>1. /\ at[t] \notin {"test", "load", "store"}
        /\ UNCHANGED <<stems_freq, freq_stems_no, freq0>>
        /\ \A u \in Threads \ {t} : article'[u] = article[u] /\ tidx'[u] = tidx[u]
    BY <1>2 DEF Ending, Begin, Reject, SaveInvalidUrl, SaveArticleFails, AddArticleStems,
                AddToken, EndOfTokens, SaveArticle, Send, SendRefused, Receive, IsDuplicate,
                AddToClusters, AtToken, TypesInv
  <2>2. PICK place : place \notin {"test", "load", "store"} /\ Go(t, place)
    BY <1>2 DEF Ending, Begin, Reject, SaveInvalidUrl, SaveArticleFails, AddArticleStems,
                AddToken, EndOfTokens, SaveArticle, Send, SendRefused, Receive, IsDuplicate,
                AddToClusters
  <2> QED BY <2>1, <2>2, <1>1
<1>3. ASSUME NEW t \in Threads, FetchAdd(t) PROVE FrequentInv'
  <2>1. IdAt(t) \in StemIds /\ IdAt(t)' = IdAt(t)
    BY <1>3, <1>0 DEF FetchAdd, HasRoom
  <2>2. /\ stems_freq'[IdAt(t)] = stems_freq[IdAt(t)] + 1 /\ freq0' = freq0
        /\ \A id \in StemIds \ {IdAt(t)} : stems_freq'[id] = stems_freq[id]
        /\ \A id \in StemIds : stems_freq[id] \in Int /\ freq0[id] \in Int
        /\ stems_freq[IdAt(t)] >= freq0[IdAt(t)]
    BY <1>3, <2>1 DEF FetchAdd, TypesInv, RoomInv
  <2>3. SomeBeyond => SomeBeyond'
    BY <2>1, <2>2 DEF SomeBeyond
  <2>4. SomeBeyond' => SomeBeyond \/ stems_freq'[IdAt(t)] > 3
    BY <2>1, <2>2 DEF SomeBeyond
  <2>5. at[t] = "process" /\ at' = [at EXCEPT ![t] = "test"] /\ freq_stems_no' = freq_stems_no
    BY <1>3 DEF FetchAdd, AtToken
  <2>6. \A u \in Threads : at[u] = "test" /\ IsFrequent(IdAt(u)) => IsFrequent(IdAt(u))'
    <3> SUFFICES ASSUME NEW u \in Threads, at[u] = "test", stems_freq[IdAt(u)] > 3
                 PROVE  stems_freq'[IdAt(u)'] > 3
      BY DEF IsFrequent
    <3>1. IdAt(u) \in StemIds /\ IdAt(u)' = IdAt(u)
      BY <1>3, <1>0 DEF FetchAdd, InToken, RoomInv
    <3> QED BY <3>1, <2>1, <2>2
  <2>7. stems_freq'[IdAt(t)] > 3 => IsFrequent(IdAt(t))'
    BY <2>1 DEF IsFrequent
  <2>8. at' \in [Threads -> Places] /\ at'[t] = "test" /\ \A u \in Threads \ {t} : at'[u] = at[u]
    BY <2>5 DEF TypesInv, Places
  <2>9. (\E u \in Threads : at'[u] \in {"load", "store"}) <=>
            \E u \in Threads : at[u] \in {"load", "store"}
    BY <2>5, <2>8
  <2>10. (\E u \in Threads : at[u] = "test" /\ IsFrequent(IdAt(u))) =>
            \E u \in Threads : at'[u] = "test" /\ IsFrequent(IdAt(u))'
    BY <2>6, <2>8
  <2>11. ASSUME SomeBeyond'
         PROVE  \/ freq_stems_no' > 0
                \/ \E u \in Threads : \/ at'[u] \in {"load", "store"}
                                      \/ at'[u] = "test" /\ IsFrequent(IdAt(u))'
    <3>1. CASE SomeBeyond
      BY <3>1, <2>5, <2>9, <2>10 DEF FrequentInv
    <3>2. CASE stems_freq'[IdAt(t)] > 3
      BY <3>2, <2>7, <2>8
    <3> QED BY <3>1, <3>2, <2>4, <2>11
  <2> QED BY <2>3, <2>5, <2>9, <2>11 DEF FrequentInv
<1>4. ASSUME NEW t \in Threads, Test(t) PROVE FrequentInv'
  <2>1. /\ \A u \in Threads : IdAt(u)' = IdAt(u)
        /\ \A u \in Threads : IsFrequent(IdAt(u))' <=> IsFrequent(IdAt(u))
        /\ SomeBeyond' <=> SomeBeyond
    BY <1>4, <1>0 DEF Test, SomeBeyond, IsFrequent
  <2>2. IsFrequent(IdAt(t)) => SomeBeyond
    BY <1>4 DEF Test, InToken, IsFrequent, SomeBeyond, RoomInv
  <2> HIDE DEF SomeBeyond, IsFrequent
  <2> QED BY <1>4, <2>1, <2>2 DEF Test, FrequentInv, TypesInv
<1>5. ASSUME NEW t \in Threads, Load(t) PROVE FrequentInv'
  <2>1. /\ at[t] = "load" /\ at'[t] = "store"
        /\ \A u \in Threads \ {t} : at'[u] = at[u]
        /\ UNCHANGED <<freq_stems_no, stems_freq, freq0>>
    BY <1>5 DEF Load, TypesInv
  <2>2. SomeBeyond' <=> SomeBeyond
    BY <2>1 DEF SomeBeyond
  <2> HIDE DEF SomeBeyond
  <2> QED BY <2>1, <2>2 DEF FrequentInv
<1>6. ASSUME NEW t \in Threads, Store(t) PROVE FrequentInv'
  BY <1>6 DEF Store, FrequentInv, SomeBeyond, TypesInv
<1>7. ASSUME NEW t \in Threads,
             FetchAddAborts(t) \/ SocketAborts(t) \/ AddToClustersAborts(t)
      PROVE  FrequentInv'
  BY <1>7, <1>0 DEF FetchAddAborts, SocketAborts, AddToClustersAborts, FrequentInv, SomeBeyond,
                    IsFrequent
<1>8. CASE Answer
  BY <1>8, <1>0 DEF Answer, FrequentInv, SomeBeyond, IsFrequent
<1>9. CASE UNCHANGED vars
  BY <1>9, <1>0 DEF vars, FrequentInv, SomeBeyond, IsFrequent
<1> QED BY <1>2, <1>3, <1>4, <1>5, <1>6, <1>7, <1>8, <1>9 DEF Next, Ending

\* When no thread is inside increase_stem_freq, freq_stems_no_ is zero exactly
\* if no counter was raised to more than three, whatever increments the race
\* lost and whatever the uninitialised counters held.
THEOREM FrequentIsTold == Spec => []TellsWhetherFrequent
<1>1. Init => FrequentInv
  BY InitFrequent
<1>2. HandlerInv /\ FrequentInv /\ [Next]_vars => FrequentInv'
  BY NextFrequent DEF HandlerInv
<1>3. FrequentInv => TellsWhetherFrequent
  BY DEF FrequentInv, TellsWhetherFrequent, SomeBeyond
<1> QED BY <1>1, <1>2, <1>3, HandlerInvHolds, PTL DEF Spec
=============================================================================
