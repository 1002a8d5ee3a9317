---------------------------- MODULE Ingest_proofs ----------------------------
(***************************************************************************)
(* For any number of urls, pipelines and starts of the broker, and pipes   *)
(* of any size: a url is in one place at a time, and no url is taken twice.*)
(***************************************************************************)
EXTENDS Ingest, TLAPS, FiniteSetTheorems, SequenceTheorems

\* No element of a queue is there twice.
Distinct(queue) == \A i, j \in DOMAIN queue : queue[i] = queue[j] => i = j

LEMMA MembersType ==
    ASSUME NEW S, NEW q \in Seq(S)
    PROVE  Members(q) \subseteq S
BY LenProperties DEF Members

LEMMA MembersAppend ==
    ASSUME NEW S, NEW q \in Seq(S), NEW e \in S
    PROVE  /\ Append(q, e) \in Seq(S)
           /\ Len(Append(q, e)) = Len(q) + 1
           /\ Members(Append(q, e)) = Members(q) \cup {e}
           /\ Distinct(q) /\ e \notin Members(q) => Distinct(Append(q, e))
<1> DEFINE a == Append(q, e)
<1>1. /\ a \in Seq(S) /\ Len(a) = Len(q) + 1 /\ DOMAIN a = 1 .. Len(q) + 1
      /\ \A i \in 1 .. Len(q) : a[i] = q[i]
      /\ a[Len(q) + 1] = e
      /\ DOMAIN q = 1 .. Len(q) /\ Len(q) \in Nat
  BY AppendProperties, LenProperties
<1> HIDE DEF a
<1>2. Members(a) \subseteq Members(q) \cup {e}
  <2> SUFFICES ASSUME NEW i \in DOMAIN a PROVE a[i] \in Members(q) \cup {e}
    BY DEF Members
  <2> QED BY <1>1 DEF Members
<1>3. Members(q) \cup {e} \subseteq Members(a)
  <2>1. e \in Members(a)
    BY <1>1 DEF Members
  <2>2. ASSUME NEW i \in DOMAIN q PROVE q[i] \in Members(a)
    BY <1>1 DEF Members
  <2> QED BY <2>1, <2>2 DEF Members
<1>4. Distinct(q) /\ e \notin Members(q) => Distinct(a)
  <2> SUFFICES ASSUME Distinct(q), e \notin Members(q),
                      NEW i \in DOMAIN a, NEW j \in DOMAIN a, a[i] = a[j]
               PROVE  i = j
    BY DEF Distinct
  <2>1. \A k \in 1 .. Len(q) : a[k] # e
    BY <1>1 DEF Members
  <2> QED BY <1>1, <2>1 DEF Distinct
<1> QED BY <1>1, <1>2, <1>3, <1>4 DEF a

LEMMA MembersHeadTail ==
    ASSUME NEW S, NEW q \in Seq(S), q # <<>>
    PROVE  /\ Head(q) \in S /\ Tail(q) \in Seq(S)
           /\ Len(Tail(q)) = Len(q) - 1 /\ Len(q) \in Nat
           /\ Members(q) = {Head(q)} \cup Members(Tail(q))
           /\ Distinct(q) => Distinct(Tail(q)) /\ Head(q) \notin Members(Tail(q))
<1> DEFINE t == Tail(q)
<1>1. /\ t \in Seq(S) /\ Len(t) = Len(q) - 1 /\ Len(q) \in Nat /\ Len(q) > 0
      /\ DOMAIN t = 1 .. Len(q) - 1 /\ DOMAIN q = 1 .. Len(q)
      /\ \A i \in 1 .. Len(q) - 1 : t[i] = q[i + 1]
      /\ Head(q) = q[1] /\ q[1] \in S
  BY HeadTailProperties, LenProperties, EmptySeq
<1> HIDE DEF t
<1>2. Members(q) \subseteq {Head(q)} \cup Members(t)
  <2> SUFFICES ASSUME NEW i \in 1 .. Len(q) PROVE q[i] \in {q[1]} \cup Members(t)
    BY <1>1 DEF Members
  <2>1. CASE i # 1
    <3>1. i - 1 \in 1 .. Len(q) - 1 /\ t[i - 1] = q[i]
      BY <1>1, <2>1
    <3> QED BY <3>1, <1>1 DEF Members
  <2> QED BY <2>1
<1>3. {Head(q)} \cup Members(t) \subseteq Members(q)
  BY <1>1 DEF Members
<1>4. Distinct(q) => Distinct(t) /\ Head(q) \notin Members(t)
  <2> SUFFICES ASSUME Distinct(q) PROVE Distinct(t) /\ Head(q) \notin Members(t)
    OBVIOUS
  <2>1. ASSUME NEW i \in DOMAIN t, NEW j \in DOMAIN t, t[i] = t[j] PROVE i = j
    <3>1. i + 1 \in DOMAIN q /\ j + 1 \in DOMAIN q /\ q[i + 1] = q[j + 1]
      BY <1>1, <2>1
    <3>2. i + 1 = j + 1
      BY <3>1 DEF Distinct
    <3> QED BY <3>2, <1>1
  <2>2. ASSUME NEW i \in DOMAIN t PROVE t[i] # Head(q)
    <3>1. i + 1 \in DOMAIN q /\ 1 \in DOMAIN q /\ i + 1 # 1 /\ t[i] = q[i + 1]
      BY <1>1
    <3>2. q[i + 1] # q[1]
      BY <3>1 DEF Distinct
    <3> QED BY <3>1, <3>2, <1>1
  <2> QED BY <2>1, <2>2 DEF Distinct, Members
<1> QED BY <1>1, <1>2, <1>3, <1>4 DEF t

\* What is left of a queue is a queue without repetitions, too.
LEMMA MembersPrefix ==
    ASSUME NEW S, NEW q \in Seq(S), NEW n \in Nat, n <= Len(q)
    PROVE  /\ SubSeq(q, 1, n) \in Seq(S)
           /\ Len(SubSeq(q, 1, n)) = n
           /\ Members(SubSeq(q, 1, n)) \subseteq Members(q)
           /\ Distinct(q) => Distinct(SubSeq(q, 1, n))
<1> DEFINE s == SubSeq(q, 1, n)
<1>1. q \in [1 .. Len(q) -> S] /\ DOMAIN q = 1 .. Len(q) /\ Len(q) \in Nat
  BY LenProperties
<1>2. s \in Seq(S) /\ Len(s) = n /\ \A i \in 1 .. n : s[i] = q[i]
  <2>1. 1 \in Int /\ n \in Int /\ \A i \in 1 .. n : q[i] \in S
    BY <1>1
  <2>2. /\ SubSeq(q, 1, n) \in Seq(S)
        /\ Len(SubSeq(q, 1, n)) = IF 1 <= n THEN n - 1 + 1 ELSE 0
        /\ \A i \in 1 .. n - 1 + 1 : SubSeq(q, 1, n)[i] = q[1 + i - 1]
    BY <2>1, SubSeqProperties
  <2>3. \A i \in 1 .. n : i \in 1 .. n - 1 + 1 /\ 1 + i - 1 = i
    OBVIOUS
  <2> QED BY <2>2, <2>3
<1>3. DOMAIN s = 1 .. n
  BY <1>2, LenProperties
<1> HIDE DEF s
<1>5. Members(s) \subseteq Members(q)
  BY <1>1, <1>2, <1>3 DEF Members
<1>6. Distinct(q) => Distinct(s)
  BY <1>1, <1>2, <1>3 DEF Distinct
<1> QED BY <1>2, <1>5, <1>6 DEF s

\* How often an element is in a queue that has nothing twice.
LEMMA CopiesInQueue ==
    ASSUME NEW q, NEW u, Distinct(q)
    PROVE  Cardinality({i \in DOMAIN q : q[i] = u}) = IF u \in Members(q) THEN 1 ELSE 0
<1>1. CASE u \in Members(q)
  <2>1. PICK i \in DOMAIN q : q[i] = u
    BY <1>1 DEF Members
  <2>2. {j \in DOMAIN q : q[j] = u} = {i}
    BY <2>1 DEF Distinct
  <2> QED BY <1>1, <2>2, FS_Singleton
<1>2. CASE u \notin Members(q)
  <2>1. {j \in DOMAIN q : q[j] = u} = {}
    BY <1>2 DEF Members
  <2> QED BY <1>2, <2>1, FS_EmptySet
<1> QED BY <1>1, <1>2

-----------------------------------------------------------------------------
QueuesInv ==
    /\ TypeOK
    /\ sent \subseteq Urls
    /\ outbox \in Seq(Urls) /\ frontend \in Seq(Urls)
    /\ backend \in [Pipelines -> Seq(Urls)]
    /\ taken \in [Pipelines -> Seq(Urls)]

LEMMA InitQueues == Init => QueuesInv
<1> SUFFICES ASSUME Init PROVE QueuesInv
  OBVIOUS
<1>1. <<>> \in Seq(Urls) /\ Len(<<>>) = 0
  BY EmptySeq
<1> QED BY <1>1, IngestAssumption DEF Init, QueuesInv, TypeOK

LEMMA NextQueues ==
    ASSUME QueuesInv, [Next]_vars
    PROVE  QueuesInv'
<1> USE IngestAssumption DEF QueuesInv, TypeOK, pipes, history
<1>1. ASSUME NEW u \in Urls, Send(u) PROVE QueuesInv'
  BY <1>1, MembersAppend DEF Send
<1>2. CASE StartBroker
  BY <1>2 DEF StartBroker
<1>3. CASE CrashBroker
  <2>1. PICK left \in [Pipelines -> 0 .. HighWater] :
            /\ \A p \in Pipelines : left[p] <= Len(backend[p])
            /\ backend' = [p \in Pipelines |-> SubSeq(backend[p], 1, left[p])]
    BY <1>3 DEF CrashBroker
  <2>2. ASSUME NEW p \in Pipelines
        PROVE  backend'[p] \in Seq(Urls) /\ Len(backend'[p]) <= HighWater
    <3>1. left[p] \in Nat /\ left[p] <= Len(backend[p]) /\ left[p] <= HighWater
      BY <2>1
    <3>2. SubSeq(backend[p], 1, left[p]) \in Seq(Urls)
          /\ Len(SubSeq(backend[p], 1, left[p])) = left[p]
      BY <3>1, MembersPrefix
    <3> QED BY <3>1, <3>2, <2>1
  <2>3. backend' \in [Pipelines -> Seq(Urls)]
    BY <2>1, <2>2
  <2>4. frontend' \in Seq(Urls) /\ Len(frontend') <= HighWater
    BY <1>3, EmptySeq DEF CrashBroker
  <2> QED BY <1>3, <2>2, <2>3, <2>4 DEF CrashBroker
<1>4. CASE Deliver
  <2>1. /\ Head(outbox) \in Urls /\ Tail(outbox) \in Seq(Urls)
        /\ Append(frontend, Head(outbox)) \in Seq(Urls)
        /\ Len(Append(frontend, Head(outbox))) = Len(frontend) + 1
    BY <1>4, MembersHeadTail, MembersAppend DEF Deliver
  <2>2. Len(frontend) \in Nat
    BY LenProperties
  <2> QED BY <1>4, <2>1, <2>2 DEF Deliver
<1>5. ASSUME NEW p \in Pipelines, Forward(p) PROVE QueuesInv'
  <2>1. /\ Head(frontend) \in Urls /\ Tail(frontend) \in Seq(Urls)
        /\ Len(Tail(frontend)) = Len(frontend) - 1 /\ Len(frontend) \in Nat
    BY <1>5, MembersHeadTail DEF Forward
  <2>2. /\ Append(backend[p], Head(frontend)) \in Seq(Urls)
        /\ Len(Append(backend[p], Head(frontend))) = Len(backend[p]) + 1
        /\ Len(backend[p]) \in Nat
    BY <2>1, MembersAppend, LenProperties
  <2> QED BY <1>5, <2>1, <2>2 DEF Forward
<1>6. ASSUME NEW p \in Pipelines, StartPipeline(p) PROVE QueuesInv'
  BY <1>6 DEF StartPipeline
<1>7. ASSUME NEW p \in Pipelines, WorkerReturns(p) PROVE QueuesInv'
  BY <1>7 DEF WorkerReturns
<1>8. ASSUME NEW p \in Pipelines, Receive(p) PROVE QueuesInv'
  <2>1. /\ Head(backend[p]) \in Urls /\ Tail(backend[p]) \in Seq(Urls)
        /\ Len(Tail(backend[p])) = Len(backend[p]) - 1 /\ Len(backend[p]) \in Nat
    BY <1>8, MembersHeadTail DEF Receive
  <2>2. Append(taken[p], Head(backend[p])) \in Seq(Urls)
    BY <2>1, MembersAppend
  <2> QED BY <1>8, <2>1, <2>2 DEF Receive
<1>9. ASSUME NEW p \in Pipelines, Spawn(p) \/ ScraperEnds(p) \/ Return(p) PROVE QueuesInv'
  BY <1>9, ZenonT(60) DEF Spawn, ScraperEnds, Return
<1>10. ASSUME NEW p \in Pipelines, SpawnFails(p) PROVE QueuesInv'
  <2>1. <<>> \in Seq(Urls) /\ Len(<<>>) = 0
    BY EmptySeq
  <2> QED BY <1>10, <2>1 DEF SpawnFails
<1>11. CASE UNCHANGED vars
  BY <1>11 DEF vars
<1> QED BY <1>1, <1>2, <1>3, <1>4, <1>5, <1>6, <1>7, <1>8, <1>9, <1>10, <1>11 DEF Next

-----------------------------------------------------------------------------
(***************************************************************************)
(* Where a url is: it waits in the sender or in the broker, or one         *)
(* pipeline holds it, on the way or taken; or it was lost.  Alone,         *)
(* TakenAtMostOnce would not be inductive: a queue must have no url twice, *)
(* and no url that was taken, or the next Receive would take it again.     *)
(***************************************************************************)
Holding(p) == Members(backend[p]) \cup TakenBy(p)

NothingTwice ==
    /\ Distinct(outbox) /\ Distinct(frontend)
    /\ \A p \in Pipelines : Distinct(backend[p]) /\ Distinct(taken[p])

PlacesInv ==
    /\ NothingTwice
    /\ Members(outbox) \cap Members(frontend) = {}
    /\ \A p \in Pipelines :
          /\ Members(backend[p]) \cap TakenBy(p) = {}
          /\ Holding(p) \cap Waiting = {}
          /\ Holding(p) \subseteq sent
          /\ \A q \in Pipelines \ {p} : Holding(p) \cap Holding(q) = {}
    /\ Waiting \subseteq sent
    /\ \A u \in sent : u \in Waiting \/ u \in lost \/ \E p \in Pipelines : u \in Holding(p)

LEMMA InitPlaces == Init => PlacesInv
<1>1. Members(<<>>) = {} /\ Distinct(<<>>)
  BY DEF Members, Distinct
<1> QED BY <1>1 DEF Init, PlacesInv, NothingTwice, Holding, TakenBy, Waiting

\* A step of none of the queues.
LEMMA SamePlaces ==
    ASSUME PlacesInv, UNCHANGED <<outbox, frontend, backend, taken, sent, lost>>
    PROVE  PlacesInv'
BY DEF PlacesInv, NothingTwice, Holding, TakenBy, Waiting

LEMMA NextPlaces ==
    ASSUME QueuesInv, PlacesInv, [Next]_vars
    PROVE  PlacesInv'
<1> USE DEF pipes, history
<1>1. ASSUME NEW u \in Urls, Send(u) PROVE PlacesInv'
  <2>1. Members(outbox') = Members(outbox) \cup {u} /\ (u \notin Members(outbox) => Distinct(outbox'))
    BY <1>1, MembersAppend DEF Send, QueuesInv, PlacesInv, NothingTwice
  <2>2. u \notin Waiting /\ \A p \in Pipelines : u \notin Holding(p)
    BY <1>1 DEF Send, PlacesInv
  <2>3. UNCHANGED <<frontend, backend, taken, lost>> /\ sent' = sent \cup {u}
    BY <1>1 DEF Send
  <2>4. (\A p \in Pipelines : Holding(p)' = Holding(p)) /\ Waiting' = Waiting \cup {u}
    BY <2>1, <2>3 DEF Holding, TakenBy, Waiting
  <2>5. NothingTwice'
    BY <2>1, <2>2, <2>3 DEF PlacesInv, NothingTwice, Waiting
  <2>6. Members(outbox') \cap Members(frontend') = {}
    BY <2>1, <2>2, <2>3 DEF PlacesInv, Waiting
  <2>7. \A p \in Pipelines : Members(backend'[p]) \cap TakenBy(p)' = {}
    BY <2>3 DEF PlacesInv, TakenBy
  <2> QED BY <2>2, <2>3, <2>4, <2>5, <2>6, <2>7 DEF PlacesInv
<1>2. CASE CrashBroker
  <2>1. PICK left \in [Pipelines -> 0 .. HighWater] :
            /\ \A p \in Pipelines : left[p] <= Len(backend[p])
            /\ backend' = [p \in Pipelines |-> SubSeq(backend[p], 1, left[p])]
    BY <1>2 DEF CrashBroker
  <2>2. \A p \in Pipelines :
            /\ Members(backend'[p]) \subseteq Members(backend[p])
            /\ Distinct(backend[p]) => Distinct(backend'[p])
    <3> SUFFICES ASSUME NEW p \in Pipelines
                 PROVE  /\ Members(backend'[p]) \subseteq Members(backend[p])
                        /\ Distinct(backend[p]) => Distinct(backend'[p])
      OBVIOUS
    <3>1. left[p] \in Nat /\ left[p] <= Len(backend[p]) /\ backend[p] \in Seq(Urls)
      BY <2>1, IngestAssumption DEF QueuesInv
    <3>2. backend'[p] = SubSeq(backend[p], 1, left[p])
      BY <2>1
    <3> QED BY <3>1, <3>2, MembersPrefix
  <2>3. /\ frontend' = <<>> /\ UNCHANGED <<outbox, sent, taken>>
        /\ lost' = lost \cup Members(frontend) \cup
               UNION {Members(backend[p]) \ Members(backend'[p]) : p \in Pipelines}
    BY <1>2 DEF CrashBroker
  <2>4. Members(frontend') = {} /\ Distinct(frontend')
    BY <2>3 DEF Members, Distinct
  <2>5. \A p \in Pipelines : Holding(p)' \subseteq Holding(p)
                             /\ Holding(p) \subseteq Holding(p)' \cup lost'
    BY <2>2, <2>3 DEF Holding, TakenBy
  <2>6. Waiting' = Members(outbox) /\ Waiting \subseteq Waiting' \cup lost'
    BY <2>3, <2>4 DEF Waiting
  <2>7. NothingTwice'
    BY <2>2, <2>3, <2>4 DEF PlacesInv, NothingTwice
  <2>8. Waiting' \subseteq Waiting /\ lost \subseteq lost'
    BY <2>3, <2>6 DEF Waiting
  <2>9. \A p \in Pipelines : Members(backend'[p]) \cap TakenBy(p)' = {}
    BY <2>2, <2>3 DEF PlacesInv, TakenBy
  <2> QED BY <2>3, <2>4, <2>5, <2>6, <2>7, <2>8, <2>9 DEF PlacesInv
<1>3. CASE Deliver
  <2> DEFINE u == Head(outbox)
  <2>1. /\ Members(outbox) = {u} \cup Members(outbox') /\ u \notin Members(outbox')
        /\ Distinct(outbox') /\ u \in Urls
    BY <1>3, MembersHeadTail DEF Deliver, QueuesInv, PlacesInv, NothingTwice
  <2>2. u \notin Members(frontend)
    BY <2>1 DEF PlacesInv
  <2>3. Members(frontend') = Members(frontend) \cup {u} /\ Distinct(frontend')
    BY <1>3, <2>1, <2>2, MembersAppend DEF Deliver, QueuesInv, PlacesInv, NothingTwice
  <2>4. UNCHANGED <<backend, taken, sent, lost>>
    BY <1>3 DEF Deliver
  <2> HIDE DEF u
  <2>5. (\A p \in Pipelines : Holding(p)' = Holding(p)) /\ Waiting' = Waiting
    BY <2>1, <2>3, <2>4 DEF Holding, TakenBy, Waiting
  <2>6. NothingTwice'
    BY <2>1, <2>3, <2>4 DEF PlacesInv, NothingTwice
  <2>7. Members(outbox') \cap Members(frontend') = {}
    BY <2>1, <2>3 DEF PlacesInv
  <2>8. \A p \in Pipelines : Members(backend'[p]) \cap TakenBy(p)' = {}
    BY <2>4 DEF PlacesInv, TakenBy
  <2> QED BY <2>4, <2>5, <2>6, <2>7, <2>8 DEF PlacesInv
<1>4. ASSUME NEW p \in Pipelines, Forward(p) PROVE PlacesInv'
  <2> DEFINE u == Head(frontend)
  <2>1. /\ Members(frontend) = {u} \cup Members(frontend') /\ u \notin Members(frontend')
        /\ Distinct(frontend') /\ u \in Urls
    BY <1>4, MembersHeadTail DEF Forward, QueuesInv, PlacesInv, NothingTwice
  <2>2. u \in Waiting /\ u \notin Members(outbox) /\ \A q \in Pipelines : u \notin Holding(q)
    BY <2>1 DEF PlacesInv, Waiting
  <2>3. Members(backend'[p]) = Members(backend[p]) \cup {u} /\ Distinct(backend'[p])
    <3>1. backend'[p] = Append(backend[p], u) /\ backend[p] \in Seq(Urls)
      BY <1>4 DEF Forward, QueuesInv
    <3>2. u \notin Members(backend[p]) /\ Distinct(backend[p])
      BY <2>2 DEF Holding, PlacesInv, NothingTwice
    <3> QED BY <2>1, <3>1, <3>2, MembersAppend
  <2>4. UNCHANGED <<outbox, taken, sent, lost>> /\ \A q \in Pipelines \ {p} : backend'[q] = backend[q]
    BY <1>4 DEF Forward, QueuesInv
  <2> HIDE DEF u
  <2>5. /\ Holding(p)' = Holding(p) \cup {u}
        /\ \A q \in Pipelines \ {p} : Holding(q)' = Holding(q)
        /\ Waiting' = Waiting \ {u}
    BY <2>1, <2>2, <2>3, <2>4 DEF Holding, TakenBy, Waiting
  <2>6. NothingTwice'
    BY <2>1, <2>3, <2>4 DEF PlacesInv, NothingTwice
  <2>7. Members(outbox') \cap Members(frontend') = {}
    BY <2>1, <2>4 DEF PlacesInv
  <2>8. \A q \in Pipelines : Members(backend'[q]) \cap TakenBy(q)' = {}
    BY <2>2, <2>3, <2>4 DEF PlacesInv, TakenBy, Holding
  <2> QED BY <2>2, <2>4, <2>5, <2>6, <2>7, <2>8 DEF PlacesInv
<1>5. ASSUME NEW p \in Pipelines, Receive(p) PROVE PlacesInv'
  <2> DEFINE u == Head(backend[p])
  <2>1. /\ Members(backend[p]) = {u} \cup Members(backend'[p]) /\ u \notin Members(backend'[p])
        /\ Distinct(backend'[p]) /\ u \in Urls
    <3>1. backend'[p] = Tail(backend[p]) /\ backend[p] \in Seq(Urls) /\ backend[p] # <<>>
      BY <1>5 DEF Receive, QueuesInv
    <3> QED BY <3>1, MembersHeadTail DEF PlacesInv, NothingTwice
  <2>2. TakenBy(p)' = TakenBy(p) \cup {u} /\ Distinct(taken'[p])
    <3>1. taken'[p] = Append(taken[p], u) /\ taken[p] \in Seq(Urls)
      BY <1>5 DEF Receive, QueuesInv
    <3>2. u \notin Members(taken[p]) /\ Distinct(taken[p])
      BY <2>1 DEF PlacesInv, NothingTwice, TakenBy
    <3> QED BY <2>1, <3>1, <3>2, MembersAppend DEF TakenBy
  <2>3. /\ UNCHANGED <<outbox, frontend, sent, lost>>
        /\ \A q \in Pipelines \ {p} : backend'[q] = backend[q] /\ taken'[q] = taken[q]
    BY <1>5 DEF Receive, QueuesInv
  <2> HIDE DEF u
  <2>4. (\A q \in Pipelines : Holding(q)' = Holding(q)) /\ Waiting' = Waiting
    BY <2>1, <2>2, <2>3 DEF Holding, TakenBy, Waiting
  <2>5. NothingTwice'
    BY <2>1, <2>2, <2>3 DEF PlacesInv, NothingTwice
  <2>6. \A q \in Pipelines : Members(backend'[q]) \cap TakenBy(q)' = {}
    BY <2>1, <2>2, <2>3 DEF PlacesInv, TakenBy
  <2> QED BY <2>3, <2>4, <2>5, <2>6 DEF PlacesInv
<1>6. ASSUME NEW p \in Pipelines, SpawnFails(p) PROVE PlacesInv'
  <2>1. /\ UNCHANGED <<outbox, frontend, sent, taken>> /\ backend'[p] = <<>>
        /\ \A q \in Pipelines \ {p} : backend'[q] = backend[q]
        /\ lost' = lost \cup Members(backend[p]) \cup {url[p]}
    BY <1>6 DEF SpawnFails, QueuesInv
  <2>2. Members(backend'[p]) = {} /\ Distinct(backend'[p])
    BY <2>1 DEF Members, Distinct
  <2>3. /\ Holding(p)' \subseteq Holding(p) /\ Holding(p) \subseteq Holding(p)' \cup lost'
        /\ \A q \in Pipelines \ {p} : Holding(q)' = Holding(q)
        /\ Waiting' = Waiting /\ lost \subseteq lost'
    BY <2>1, <2>2 DEF Holding, TakenBy, Waiting
  <2>4. NothingTwice'
    BY <2>1, <2>2 DEF PlacesInv, NothingTwice
  <2>5. \A q \in Pipelines : Members(backend'[q]) \cap TakenBy(q)' = {}
    BY <2>1, <2>2 DEF PlacesInv, TakenBy
  <2> QED BY <2>1, <2>3, <2>4, <2>5 DEF PlacesInv
<1>7. ASSUME NEW p \in Pipelines,
             StartPipeline(p) \/ WorkerReturns(p) \/ Spawn(p) \/ ScraperEnds(p) \/ Return(p)
      PROVE  PlacesInv'
  BY <1>7, SamePlaces DEF StartPipeline, WorkerReturns, Spawn, ScraperEnds, Return
<1>8. CASE StartBroker \/ UNCHANGED vars
  BY <1>8, SamePlaces DEF StartBroker, vars
<1> QED BY <1>1, <1>2, <1>3, <1>4, <1>5, <1>6, <1>7, <1>8 DEF Next

-----------------------------------------------------------------------------
LEMMA PlacesCount == PlacesInv => TakenAtMostOnce
<1> SUFFICES ASSUME PlacesInv, NEW u \in sent
             PROVE  LET holders == {p \in Pipelines : u \in Holding(p)}
                        copies == Cardinality({i \in DOMAIN outbox : outbox[i] = u})
                                  + Cardinality({i \in DOMAIN frontend : frontend[i] = u})
                                  + Cardinality(holders)
                    IN  /\ copies <= 1
                        /\ copies = 0 => u \in lost
                        /\ \A p \in Pipelines :
                              Cardinality({i \in DOMAIN taken[p] : taken[p][i] = u}) <= 1
  BY DEF TakenAtMostOnce, Holding
<1> DEFINE holders == {p \in Pipelines : u \in Holding(p)}
           InQueue(q) == Cardinality({i \in DOMAIN q : q[i] = u})
<1>1. /\ InQueue(outbox) = IF u \in Members(outbox) THEN 1 ELSE 0
      /\ InQueue(frontend) = IF u \in Members(frontend) THEN 1 ELSE 0
  BY CopiesInQueue DEF PlacesInv, NothingTwice
<1>2. ASSUME NEW p \in Pipelines PROVE InQueue(taken[p]) <= 1
  <2>1. InQueue(taken[p]) = IF u \in Members(taken[p]) THEN 1 ELSE 0
    BY CopiesInQueue DEF PlacesInv, NothingTwice
  <2> QED BY <2>1
<1>3. CASE \E p \in Pipelines : u \in Holding(p)
  <2>1. PICK p \in Pipelines : u \in Holding(p)
    BY <1>3
  <2>2. holders = {p}
    BY <2>1 DEF PlacesInv
  <2>3. u \notin Members(outbox) /\ u \notin Members(frontend)
    BY <2>1 DEF PlacesInv, Waiting
  <2>4. Cardinality(holders) = 1
    BY <2>2, FS_Singleton
  <2> QED BY <1>1, <1>2, <2>3, <2>4
<1>4. CASE ~ \E p \in Pipelines : u \in Holding(p)
  <2>1. Cardinality(holders) = 0
    BY <1>4, FS_EmptySet
  <2>2. ~ (u \in Members(outbox) /\ u \in Members(frontend))
    BY DEF PlacesInv
  <2>3. u \notin Members(outbox) /\ u \notin Members(frontend) => u \in lost
    BY <1>4 DEF PlacesInv, Waiting
  <2> QED BY <1>1, <1>2, <2>1, <2>2, <2>3
<1> QED BY <1>3, <1>4

LEMMA IngestInvHolds == Spec => [](QueuesInv /\ PlacesInv)
<1>1. Init => QueuesInv /\ PlacesInv
  BY InitQueues, InitPlaces
<1>2. (QueuesInv /\ PlacesInv) /\ [Next]_vars => (QueuesInv /\ PlacesInv)'
  BY NextQueues, NextPlaces
<1> QED BY <1>1, <1>2, PTL DEF Spec

\* Types, and that no pipe ever holds more than its high-water mark.
THEOREM Typing == Spec => []TypeOK
<1>1. QueuesInv => TypeOK
  BY DEF QueuesInv
<1> QED BY <1>1, IngestInvHolds, PTL

\* Every url sent waits in one place, or was taken by one pipeline once, or
\* died with a process, through any crashes of the broker and full pipes.
THEOREM UrlsAreTakenOnce == Spec => []TakenAtMostOnce
BY IngestInvHolds, PlacesCount, PTL
=============================================================================
