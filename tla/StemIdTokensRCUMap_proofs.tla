---------------------- MODULE StemIdTokensRCUMap_proofs ----------------------
(***************************************************************************)
(* For any writers, readers, stem ids, tokens and allocations: the map     *)
(* keeps every token it was given, answers with every token it was given   *)
(* before the question, and implements TokensMap, as long as the program   *)
(* has a defined behaviour.                                                *)
(***************************************************************************)
EXTENDS StemIdTokensRCUMap, TLAPS

\* A call's copies are empty before it reads the slot, a call that inserts has a
\* token, and a new set is in hand from its creation to its publication.
CallsInv ==
    \A t \in Threads :
        /\ pc[t] \in {"idle", "loadPtr"} => oldPtr[t] = Null
        /\ pc[t] \in {"check", "cas"} \cup Storing => callTok[t] \in Tokens
        /\ newSet[t] # Null <=> pc[t] \in {"cas"} \cup Storing
        /\ pc[t] = "idle" => before[t] = {}

\* During an exchange a slot has what is left of the replaced set, is empty, then
\* has the pointer word of the new set.
SlotsInv ==
    \A id \in StemIds, t \in Threads : mover[id] = t =>
        /\ own[id] # Null => pc[t] = "moveOut" /\ own[id] = oldOwn[t]
        /\ ptr[id] # Null =>
               \/ pc[t] = "moveOut" /\ ptr[id] = oldPtr[t]
               \/ pc[t] = "storeOwn" /\ ptr[id] = newSet[t]
        /\ pc[t] = "storeOwn" => ptr[id] = newSet[t]

\* What a thread read has all it asked for, and is part of what is published.
ReadInv ==
    \A t \in Threads :
        /\ before[t] \subseteq added[callId[t]]
        /\ oldPtr[t] # Null => before[t] \subseteq contents[oldPtr[t]]
        /\ TokensAt(oldPtr[t]) \subseteq Published(callId[t])

\* A copy whose two words belong together was made from what it replaces.
CopyInv ==
    \A t \in Threads :
        /\ pc[t] \in {"cas"} \cup Storing => callTok[t] \in contents[newSet[t]]
        /\ pc[t] = "moveOut" \/ (pc[t] = "cas" /\ oldPtr[t] = oldOwn[t]) =>
               contents[newSet[t]] = TokensAt(oldPtr[t]) \cup {callTok[t]}

IInv == TypeOK /\ CallsInv /\ SlotsInv /\ NoLostToken /\ ReadInv /\ CopyInv

-----------------------------------------------------------------------------
LEMMA NullIsNoThread == Null \notin Threads /\ Null \notin Sets /\ Null \notin Tokens
BY NullAssumption DEF Threads

\* What a slot publishes changes only with its words, its exchange or its set.
LEMMA PublishedUnchanged ==
    ASSUME TypeOK, UNCHANGED <<slots, contents>>,
           \A u \in Threads : pc[u] \in Storing =>
               pc'[u] = pc[u] /\ oldPtr'[u] = oldPtr[u] /\ newSet'[u] = newSet[u]
    PROVE  /\ \A id \in StemIds : Published(id)' = Published(id)
           /\ \A w : TokensAt(w)' = TokensAt(w)
<1>1. \A w : TokensAt(w)' = TokensAt(w)
  BY DEF TokensAt
<1> SUFFICES ASSUME NEW id \in StemIds PROVE Published(id)' = Published(id)
  BY <1>1
<1>2. mover[id] # Null => mover[id] \in Threads /\ pc[mover[id]] \in Storing
  BY DEF TypeOK
<1> QED  BY <1>2 DEF Published, TokensAt, slots

\* A new allocation is no set that a slot publishes or a thread has in hand.
LEMMA FreshIsUnused ==
    ASSUME IInv, NEW s \in Sets, Fresh(s)
    PROVE  /\ \A id \in StemIds : own[id] # s
           /\ \A id \in StemIds : mover[id] # Null => newSet[mover[id]] # s
           /\ \A u \in Threads : oldPtr[u] # s /\ oldOwn[u] # s /\ newSet[u] # s
<1>1. /\ \A id \in StemIds : own[id] # s
      /\ \A u \in Threads : oldPtr[u] # s /\ oldOwn[u] # s /\ newSet[u] # s
  BY DEF Fresh, Live, Holds
<1>2. \A id \in StemIds : mover[id] # Null => mover[id] \in Threads
  BY DEF IInv, TypeOK
<1> QED  BY <1>1, <1>2

LEMMA InitInv == Init => IInv
<1> SUFFICES ASSUME Init PROVE IInv
  OBVIOUS
<1> USE NullIsNoThread DEF Init, Storing
<1>1. TypeOK
  BY DEF TypeOK, Word, PcTypes
<1>2. CallsInv /\ SlotsInv
  BY DEF CallsInv, SlotsInv
<1>3. NoLostToken
  BY DEF NoLostToken, Published, TokensAt
<1>4. ReadInv /\ CopyInv
  BY DEF ReadInv, CopyInv, TokensAt
<1> QED  BY <1>1, <1>2, <1>3, <1>4 DEF IInv

-----------------------------------------------------------------------------
\* One lemma per action.
LEMMA BeginInv ==
    ASSUME IInv, NEW t \in Threads, NEW id \in StemIds,
           NEW token \in Tokens \cup {Null}, Begin(t, id, token)
    PROVE  IInv'
<1> USE NullIsNoThread DEF IInv, Storing, Begin, Step
<1>p. /\ \A i \in StemIds : Published(i)' = Published(i)
      /\ \A w : TokensAt(w)' = TokensAt(w)
  BY PublishedUnchanged DEF TypeOK
<1>1. TypeOK'
  BY DEF TypeOK, Word, PcTypes, slots
<1>2. CallsInv' /\ SlotsInv'
  BY DEF TypeOK, CallsInv, SlotsInv, slots
<1>3. NoLostToken'
  BY <1>p DEF NoLostToken
<1>4. ReadInv'
  BY <1>p DEF TypeOK, CallsInv, ReadInv, NoLostToken, TokensAt
<1>5. CopyInv'
  BY <1>p DEF TypeOK, CallsInv, CopyInv
<1> QED  BY <1>1, <1>2, <1>3, <1>4, <1>5

LEMMA LoadPtrInv ==
    ASSUME IInv, NEW t \in Threads, LoadPtr(t)
    PROVE  IInv'
<1> USE NullIsNoThread DEF IInv, Storing, LoadPtr, Step
<1>p. /\ \A i \in StemIds : Published(i)' = Published(i)
      /\ \A w : TokensAt(w)' = TokensAt(w)
  BY PublishedUnchanged DEF TypeOK
<1>r. \A i \in StemIds : ptr[i] # Null => contents[ptr[i]] = Published(i)
  BY DEF TypeOK, SlotsInv, Published, TokensAt
<1>1. TypeOK'
  BY DEF TypeOK, Word, PcTypes, slots, history
<1>2. CallsInv' /\ SlotsInv'
  BY DEF TypeOK, CallsInv, SlotsInv, slots, history
<1>3. NoLostToken'
  BY <1>p DEF NoLostToken, history
<1>4. ReadInv'
  BY <1>p, <1>r DEF TypeOK, ReadInv, NoLostToken, TokensAt, history
<1>5. CopyInv'
  BY <1>p DEF TypeOK, CopyInv
<1> QED  BY <1>1, <1>2, <1>3, <1>4, <1>5

LEMMA LoadOwnInv ==
    ASSUME IInv, NEW t \in Threads, LoadOwn(t)
    PROVE  IInv'
<1> USE NullIsNoThread DEF IInv, Storing, LoadOwn, Step
<1>p. /\ \A i \in StemIds : Published(i)' = Published(i)
      /\ \A w : TokensAt(w)' = TokensAt(w)
  BY PublishedUnchanged DEF TypeOK
<1>1. TypeOK'
  BY DEF TypeOK, Word, PcTypes, slots, history
<1>2. CallsInv' /\ SlotsInv'
  BY DEF TypeOK, CallsInv, SlotsInv, slots, history
<1>3. NoLostToken'
  BY <1>p DEF NoLostToken, history
<1>4. ReadInv'
  BY <1>p DEF TypeOK, ReadInv, history
<1>5. CopyInv'
  BY <1>p DEF TypeOK, CopyInv
<1> QED  BY <1>1, <1>2, <1>3, <1>4, <1>5

\* A step into undefined behaviour changes nothing but `undefined`.
LEMMA FaultInv ==
    ASSUME IInv, NEW t \in Threads, NEW from, Fault(t, from)
    PROVE  IInv'
<1> USE DEF IInv, Storing, Fault
<1>p. /\ \A i \in StemIds : Published(i)' = Published(i)
      /\ \A w : TokensAt(w)' = TokensAt(w)
  BY PublishedUnchanged DEF TypeOK, locals
<1>1. TypeOK'
  BY DEF TypeOK, slots, locals, history
<1>2. CallsInv' /\ SlotsInv'
  BY DEF CallsInv, SlotsInv, slots, locals, history
<1>3. NoLostToken'
  BY <1>p DEF NoLostToken, history
<1>4. ReadInv'
  BY <1>p DEF TypeOK, ReadInv, locals, history
<1>5. CopyInv'
  BY <1>p DEF CopyInv, locals
<1> QED  BY <1>1, <1>2, <1>3, <1>4, <1>5

LEMMA AcquireInv ==
    ASSUME IInv, NEW t \in Threads, Acquire(t)
    PROVE  IInv'
<1> USE NullIsNoThread DEF IInv, Storing, Acquire, Step
<1>a. CASE Fault(t, "acquire")
  BY <1>a, FaultInv
<1>b. CASE ~Fault(t, "acquire")
  <2>p. /\ \A i \in StemIds : Published(i)' = Published(i)
        /\ \A w : TokensAt(w)' = TokensAt(w)
    BY <1>b, PublishedUnchanged DEF TypeOK, locals
  <2>1. TypeOK'
    BY <1>b DEF TypeOK, PcTypes, slots, locals, history
  <2>2. CallsInv' /\ SlotsInv'
    BY <1>b DEF TypeOK, CallsInv, SlotsInv, slots, locals, history
  <2>3. NoLostToken' /\ ReadInv' /\ CopyInv'
    BY <1>b, <2>p DEF TypeOK, NoLostToken, ReadInv, CopyInv, locals, history
  <2> QED  BY <2>1, <2>2, <2>3
<1> QED  BY <1>a, <1>b

LEMMA AlreadyAddedInv ==
    ASSUME IInv, NEW t \in Threads, AlreadyAdded(t)
    PROVE  IInv'
<1> USE NullIsNoThread DEF IInv, Storing, AlreadyAdded, ReturnAdd, Return, Release, Step
<1>p. \A i \in StemIds : Published(i)' = Published(i)
  BY DEF Published, TokensAt, slots, TypeOK, CallsInv
<1>q. \A w : TokensAt(w)' = TokensAt(w)
  BY DEF TokensAt
<1>r. callTok[t] \in Published(callId[t])
  BY DEF ReadInv, TokensAt
<1>1. TypeOK'
  BY DEF TypeOK, Word, PcTypes, slots, CallsInv
<1>2. CallsInv' /\ SlotsInv'
  BY DEF TypeOK, CallsInv, SlotsInv, slots
<1>3. NoLostToken'
  BY <1>p, <1>r DEF TypeOK, NoLostToken
<1>4. ReadInv'
  BY <1>p, <1>q DEF TypeOK, ReadInv, TokensAt
<1>5. CopyInv'
  BY <1>q DEF TypeOK, CopyInv
<1> QED  BY <1>1, <1>2, <1>3, <1>4, <1>5

LEMMA CopyAndInsertInv ==
    ASSUME IInv, NEW t \in Threads, CopyAndInsert(t)
    PROVE  IInv' /\ \A i \in StemIds : Published(i)' = Published(i)
<1> USE NullIsNoThread DEF IInv, Storing, CopyAndInsert, Step
<1> PICK s \in Sets : /\ Fresh(s)
                      /\ contents' = [contents EXCEPT ![s] = UpdatedCopy(t)]
                      /\ newSet' = [newSet EXCEPT ![t] = s]
  OBVIOUS
<1>u. UpdatedCopy(t) = TokensAt(oldPtr[t]) \cup {callTok[t]}
  BY DEF UpdatedCopy, TokensAt
<1>v. UpdatedCopy(t) \in SUBSET Tokens
  BY <1>u DEF TokensAt, TypeOK, CallsInv, Word
<1>c. \A x \in Sets : x # s => contents'[x] = contents[x]
  BY DEF TypeOK
<1>d. contents'[s] = UpdatedCopy(t)
  BY DEF TypeOK
<1>f. /\ \A i \in StemIds : own[i] # s
      /\ \A i \in StemIds : mover[i] # Null => newSet[mover[i]] # s
      /\ \A u \in Threads : oldPtr[u] # s /\ oldOwn[u] # s /\ newSet[u] # s
  BY FreshIsUnused
<1>p. \A i \in StemIds : Published(i)' = Published(i)
  <2> TAKE i \in StemIds
  <2>1. mover[i] # Null => mover[i] # t
    BY DEF TypeOK
  <2>2. mover[i] # Null => /\ newSet'[mover[i]] = newSet[mover[i]]
                           /\ newSet[mover[i]] \in Sets
    BY <2>1 DEF TypeOK, CallsInv, Word
  <2>4. mover[i] # Null => /\ pc'[mover[i]] = pc[mover[i]]
                           /\ mover[i] \in Threads
    BY <2>1 DEF TypeOK
  <2>5. ASSUME NEW w \in Word, w # s PROVE TokensAt(w)' = TokensAt(w)
    BY <1>c, <2>5 DEF TokensAt, Word
  <2>6. /\ own[i] \in Word /\ own[i] # s
        /\ mover[i] # Null => /\ oldPtr[mover[i]] \in Word /\ oldPtr[mover[i]] # s
                             /\ newSet[mover[i]] \in Word /\ newSet[mover[i]] # s
    BY <1>f, <2>4 DEF TypeOK
  <2> HIDE DEF IInv, CopyAndInsert
  <2>7. UNCHANGED <<own, mover, oldPtr>>
    BY DEF CopyAndInsert, slots
  <2> QED  BY <2>2, <2>4, <2>5, <2>6, <2>7 DEF Published
<1>q. \A u \in Threads : /\ TokensAt(oldPtr[u])' = TokensAt(oldPtr[u])
                         /\ oldPtr[u] # Null => contents'[oldPtr[u]] = contents[oldPtr[u]]
  BY <1>c, <1>f DEF TokensAt, TypeOK, Word
<1>1. TypeOK'
  BY <1>v DEF TypeOK, Word, PcTypes, slots, history
<1>2. CallsInv' /\ SlotsInv'
  BY DEF TypeOK, CallsInv, SlotsInv, slots, history
<1>3. NoLostToken'
  BY <1>p DEF NoLostToken, history
<1>4. ReadInv'
  BY <1>p, <1>q DEF TypeOK, ReadInv, history
<1>5. CopyInv'
  <2> SUFFICES ASSUME NEW u \in Threads
               PROVE  CopyInv!(u)'
    BY DEF CopyInv
  <2>1. CASE u = t
    BY <1>d, <1>u, <1>q, <2>1 DEF TypeOK, CopyInv
  <2>2. CASE u # t
    <3>1. pc'[u] = pc[u] /\ newSet'[u] = newSet[u]
      BY <2>2 DEF TypeOK
    <3>2. newSet[u] # Null => contents'[newSet[u]] = contents[newSet[u]]
      BY <1>c, <1>f DEF TypeOK, Word
    <3> QED  BY <1>q, <3>1, <3>2 DEF CopyInv, CallsInv
  <2> QED  BY <2>1, <2>2
<1> QED  BY <1>p, <1>1, <1>2, <1>3, <1>4, <1>5

\* Taking the slot's mutex changes nothing of what it publishes.
LEMMA CasSucceedsInv ==
    ASSUME IInv, NEW t \in Threads, CasSucceeds(t)
    PROVE  IInv' /\ \A i \in StemIds : Published(i)' = Published(i)
<1> USE NullIsNoThread DEF IInv, Storing, CasSucceeds, Step
<1>q. \A w : TokensAt(w)' = TokensAt(w)
  BY DEF TokensAt
<1>m. /\ mover[callId[t]] = Null /\ mover' = [mover EXCEPT ![callId[t]] = t]
      /\ ptr[callId[t]] = oldPtr[t] /\ own[callId[t]] = oldOwn[t]
      /\ oldPtr[t] = oldOwn[t]
  BY DEF Unmoved, TypeOK
<1>w. /\ \A i \in StemIds : i # callId[t] => ptr'[i] = ptr[i] /\ own'[i] = own[i]
      /\ ptr'[callId[t]] \in {Null, oldPtr[t]} /\ own'[callId[t]] \in {Null, oldOwn[t]}
      /\ ptr' \in [StemIds -> Word] /\ own' \in [StemIds -> Word]
  BY <1>m DEF EmptyOneWord, TypeOK, Word
<1>p. \A i \in StemIds : Published(i)' = Published(i)
  <2> TAKE i \in StemIds
  <2>1. CASE i = callId[t]
    BY <1>m, <2>1 DEF Published, TokensAt, TypeOK, locals
  <2>2. CASE i # callId[t]
    <3>1. mover'[i] = mover[i] /\ own'[i] = own[i] /\ mover[i] # t
      BY <1>m, <1>w, <2>2 DEF TypeOK
    <3>2. mover[i] # Null => pc'[mover[i]] = pc[mover[i]]
      BY <3>1 DEF TypeOK
    <3> QED  BY <3>1, <3>2 DEF Published, TokensAt, locals
  <2> QED  BY <2>1, <2>2
<1>1. TypeOK'
  <2>1. pc' \in [Threads -> PcTypes] /\ mover' \in [StemIds -> Threads \cup {Null}]
    BY <1>m DEF TypeOK, PcTypes
  <2>2. \A i \in StemIds : mover'[i] = Null => ptr'[i] = own'[i]
    BY <1>m, <1>w DEF TypeOK
  <2>3. \A u \in Threads, i \in StemIds :
           mover'[i] = u <=> pc'[u] \in Storing /\ callId[u] = i
    BY <1>m DEF TypeOK
  <2> QED  BY <1>w, <2>1, <2>2, <2>3 DEF TypeOK, locals, history
<1>2. CallsInv'
  BY DEF TypeOK, CallsInv, locals, history
<1>s. SlotsInv'
  <2> SUFFICES ASSUME NEW i \in StemIds, NEW u \in Threads, mover'[i] = u
               PROVE  SlotsInv!(i, u)'
    BY DEF SlotsInv
  <2>1. CASE i = callId[t]
    BY <1>m, <1>w, <2>1 DEF TypeOK, locals
  <2>2. CASE i # callId[t]
    <3>1. mover[i] = u /\ u # t
      BY <1>m, <2>2 DEF TypeOK
    <3> QED  BY <1>w, <2>2, <3>1 DEF SlotsInv, TypeOK, locals
  <2> QED  BY <2>1, <2>2
<1>3. NoLostToken'
  BY <1>p DEF NoLostToken, history
<1>4. ReadInv'
  BY <1>p, <1>q DEF TypeOK, ReadInv, locals, history
<1>5. CopyInv'
  BY <1>m, <1>q DEF TypeOK, CopyInv, locals
<1> QED  BY <1>p, <1>1, <1>2, <1>s, <1>3, <1>4, <1>5

\* Once the replaced set is moved out, the slot publishes it and the call's token.
LEMMA ExchangePublishes ==
    ASSUME IInv, NEW t \in Threads, MoveOut(t)
    PROVE  \A i \in StemIds :
             Published(i)' = IF i = callId[t]
                             THEN Published(i) \cup {callTok[t]}
                             ELSE Published(i)
<1> USE NullIsNoThread DEF IInv, Storing, MoveOut, Step
<1> TAKE i \in StemIds
<1>m. mover[callId[t]] = t /\ newSet[t] # Null
  BY DEF TypeOK, CallsInv
<1>1. CASE i = callId[t]
  <2>1. Published(i)' = contents[newSet[t]]
    BY <1>m, <1>1 DEF Published, TokensAt, TypeOK, locals
  <2>2. Published(i) = TokensAt(oldPtr[t])
    BY <1>m, <1>1 DEF Published, TypeOK
  <2>3. pc[t] = "moveOut" /\ CopyInv
    OBVIOUS
  <2>4. contents[newSet[t]] = TokensAt(oldPtr[t]) \cup {callTok[t]}
    BY ONLY <2>3, t \in Threads DEF CopyInv
  <2> QED  BY <1>1, <2>1, <2>2, <2>4
<1>2. CASE i # callId[t]
  <2>1. mover'[i] = mover[i] /\ own'[i] = own[i] /\ mover[i] # t
    BY <1>2 DEF TypeOK
  <2>2. mover[i] # Null => pc'[mover[i]] = pc[mover[i]]
    BY <2>1 DEF TypeOK
  <2> QED  BY <1>2, <2>1, <2>2 DEF Published, TokensAt, locals
<1> QED  BY <1>1, <1>2

LEMMA MoveOutInv ==
    ASSUME IInv, NEW t \in Threads, MoveOut(t)
    PROVE  IInv'
<1> USE NullIsNoThread DEF IInv, Storing, MoveOut, Step
<1>p. \A i \in StemIds : Published(i) \subseteq Published(i)'
  BY ExchangePublishes
<1>q. \A w : TokensAt(w)' = TokensAt(w)
  BY DEF TokensAt
<1>1. TypeOK'
  BY DEF TypeOK, Word, PcTypes, locals, history
<1>2. CallsInv'
  BY DEF TypeOK, CallsInv, locals, history
<1>s. SlotsInv'
  BY DEF TypeOK, SlotsInv, locals
<1>3. NoLostToken'
  BY <1>p DEF NoLostToken, history
<1>4. ReadInv'
  BY <1>p, <1>q DEF TypeOK, ReadInv, locals, history
<1>5. CopyInv'
  BY <1>q DEF TypeOK, CopyInv, locals
<1> QED  BY <1>1, <1>2, <1>s, <1>3, <1>4, <1>5

LEMMA CasFailsInv ==
    ASSUME IInv, NEW t \in Threads, CasFails(t)
    PROVE  IInv'
<1> USE NullIsNoThread DEF IInv, Storing, CasFails, Release, Step
<1>p. \A i \in StemIds : Published(i)' = Published(i)
  BY DEF Published, TokensAt, slots, TypeOK
<1>q. \A w : TokensAt(w)' = TokensAt(w)
  BY DEF TokensAt
<1>1. TypeOK'
  BY DEF TypeOK, Word, PcTypes, slots, history
<1>2. CallsInv' /\ SlotsInv'
  BY DEF TypeOK, CallsInv, SlotsInv, slots, history
<1>3. NoLostToken'
  BY <1>p DEF NoLostToken, history
<1>4. ReadInv'
  BY <1>p, <1>q DEF TypeOK, ReadInv, TokensAt, history
<1>5. CopyInv'
  BY <1>q DEF TypeOK, CopyInv
<1> QED  BY <1>1, <1>2, <1>3, <1>4, <1>5

LEMMA StorePtrInv ==
    ASSUME IInv, NEW t \in Threads, StorePtr(t)
    PROVE  IInv' /\ \A i \in StemIds : Published(i)' = Published(i)
<1> USE NullIsNoThread DEF IInv, Storing, StorePtr, Step
<1>p. \A i \in StemIds : Published(i)' = Published(i)
  BY DEF Published, TokensAt, TypeOK, locals
<1>q. \A w : TokensAt(w)' = TokensAt(w)
  BY DEF TokensAt
<1>1. TypeOK'
  BY DEF TypeOK, Word, PcTypes, locals, history
<1>2. CallsInv' /\ SlotsInv'
  BY DEF TypeOK, CallsInv, SlotsInv, locals, history
<1>3. NoLostToken'
  BY <1>p DEF NoLostToken, history
<1>4. ReadInv' /\ CopyInv'
  BY <1>p, <1>q DEF TypeOK, ReadInv, CopyInv, locals, history
<1> QED  BY <1>p, <1>1, <1>2, <1>3, <1>4

LEMMA StoreOwnInv ==
    ASSUME IInv, NEW t \in Threads, StoreOwn(t)
    PROVE  IInv' /\ \A i \in StemIds : Published(i)' = Published(i)
<1> USE NullIsNoThread DEF IInv, Storing, StoreOwn, ReturnAdd, Return, Release, Step
<1>m. mover[callId[t]] = t /\ newSet[t] \in Sets
  BY DEF TypeOK, CallsInv, Word
<1>p. \A i \in StemIds : Published(i)' = Published(i)
  <2> TAKE i \in StemIds
  <2>1. CASE i = callId[t]
    BY <1>m, <2>1 DEF Published, TokensAt, TypeOK
  <2>2. CASE i # callId[t]
    <3>1. mover'[i] = mover[i] /\ own'[i] = own[i] /\ mover[i] # t
      BY <2>2 DEF TypeOK
    <3>2. mover[i] # Null => /\ newSet'[mover[i]] = newSet[mover[i]]
                             /\ oldPtr'[mover[i]] = oldPtr[mover[i]]
                             /\ pc'[mover[i]] = pc[mover[i]]
      BY <3>1 DEF TypeOK
    <3> QED  BY <3>1, <3>2 DEF Published, TokensAt
  <2> QED  BY <2>1, <2>2
<1>q. \A w : TokensAt(w)' = TokensAt(w)
  BY DEF TokensAt
<1>r. callTok[t] \in Published(callId[t])
  BY <1>m DEF Published, TokensAt, CopyInv, TypeOK
<1>1. TypeOK'
  BY <1>m DEF TypeOK, Word, PcTypes, CallsInv, SlotsInv
<1>2. CallsInv' /\ SlotsInv'
  BY DEF TypeOK, CallsInv, SlotsInv
<1>3. NoLostToken'
  BY <1>p, <1>r DEF TypeOK, NoLostToken
<1>4. ReadInv'
  BY <1>p, <1>q DEF TypeOK, ReadInv, TokensAt
<1>5. CopyInv'
  BY <1>q DEF TypeOK, CopyInv
<1> QED  BY <1>p, <1>1, <1>2, <1>3, <1>4, <1>5

LEMMA UseResultInv ==
    ASSUME IInv, NEW t \in Threads, UseResult(t)
    PROVE  IInv'
<1> USE NullIsNoThread DEF IInv, Storing, UseResult, Return, Release, Step
<1>a. CASE Fault(t, "result")
  BY <1>a, FaultInv
<1>b. CASE ~Fault(t, "result")
  <2>p. \A i \in StemIds : Published(i)' = Published(i)
    BY <1>b DEF Published, TokensAt, slots, TypeOK
  <2>q. \A w : TokensAt(w)' = TokensAt(w)
    BY <1>b DEF TokensAt
  <2>1. TypeOK'
    <3>1. pc[t] = "result" /\ pc' = [pc EXCEPT ![t] = "idle"]
      BY <1>b
    <3>2. UNCHANGED <<ptr, own, mover, contents, callId, undefined, added>>
      BY <1>b DEF slots
    <3>3. Release(t) /\ callTok' = [callTok EXCEPT ![t] = Null]
                     /\ before' = [before EXCEPT ![t] = {}]
      BY <1>b
    <3> HIDE DEF UseResult
    <3> QED  BY <3>1, <3>2, <3>3 DEF TypeOK, Word, PcTypes
  <2>2. CallsInv' /\ SlotsInv'
    BY <1>b DEF TypeOK, CallsInv, SlotsInv, slots
  <2>3. NoLostToken'
    BY <1>b, <2>p DEF NoLostToken
  <2>4. ReadInv' /\ CopyInv'
    BY <1>b, <2>p, <2>q DEF TypeOK, ReadInv, CopyInv, TokensAt
  <2> QED  BY <2>1, <2>2, <2>3, <2>4
<1> QED  BY <1>a, <1>b

LEMMA StutterInv == ASSUME IInv, UNCHANGED vars PROVE IInv'
<1> USE DEF IInv, Storing, vars, slots, locals, history
<1>p. /\ \A i \in StemIds : Published(i)' = Published(i)
      /\ \A w : TokensAt(w)' = TokensAt(w)
  BY PublishedUnchanged DEF TypeOK
<1>1. TypeOK' /\ CallsInv' /\ SlotsInv'
  BY DEF TypeOK, CallsInv, SlotsInv
<1>2. NoLostToken'
  BY <1>p DEF NoLostToken
<1>3. ReadInv'
  BY <1>p DEF TypeOK, ReadInv
<1>4. CopyInv'
  BY <1>p DEF CopyInv
<1> QED  BY <1>1, <1>2, <1>3, <1>4

LEMMA WritersAndReaders == Writers \subseteq Threads /\ Readers \subseteq Threads
BY DEF Threads

LEMMA NextInv == IInv /\ [Next]_vars => IInv'
<1> SUFFICES ASSUME IInv, [Next]_vars PROVE IInv'
  OBVIOUS
<1>1. ASSUME NEW t \in Writers, CallAddToken(t) PROVE IInv'
  BY <1>1, BeginInv, WritersAndReaders DEF CallAddToken
<1>2. ASSUME NEW t \in Readers, CallGetTokens(t) PROVE IInv'
  BY <1>2, BeginInv, WritersAndReaders DEF CallGetTokens
<1>3. ASSUME NEW t \in Threads, Run(t) PROVE IInv'
  <2>1. CASE LoadPtr(t)       BY <2>1, LoadPtrInv
  <2>2. CASE LoadOwn(t)       BY <2>2, LoadOwnInv
  <2>3. CASE Acquire(t)       BY <2>3, AcquireInv
  <2>4. CASE AlreadyAdded(t)  BY <2>4, AlreadyAddedInv
  <2>5. CASE CopyAndInsert(t) BY <2>5, CopyAndInsertInv
  <2>6. CASE CheckDangling(t) BY <2>6, FaultInv DEF CheckDangling
  <2>7. CASE CasSucceeds(t)   BY <2>7, CasSucceedsInv
  <2>12. CASE MoveOut(t)      BY <2>12, MoveOutInv
  <2>8. CASE CasFails(t)      BY <2>8, CasFailsInv
  <2>9. CASE StorePtr(t)      BY <2>9, StorePtrInv
  <2>10. CASE StoreOwn(t)     BY <2>10, StoreOwnInv
  <2>11. CASE UseResult(t)    BY <2>11, UseResultInv
  <2> QED  BY <1>3, <2>1, <2>2, <2>3, <2>4, <2>5, <2>6, <2>7, <2>8, <2>9,
              <2>10, <2>11, <2>12 DEF Run
<1>4. CASE Halted \/ UNCHANGED vars
  BY <1>4, StutterInv DEF Halted
<1> QED  BY <1>1, <1>2, <1>3, <1>4 DEF Next

LEMMA Invariance == Spec => []IInv
BY InitInv, NextInv, PTL DEF Spec

(***************************************************************************)
(* The typing of the map, and that the two words of a slot belong together *)
(* outside the store of the one thread the slot's mutex admits.            *)
(***************************************************************************)
THEOREM Typing == Spec => []TypeOK
<1>1. IInv => TypeOK
  BY DEF IInv
<1> QED  BY <1>1, Invariance, PTL

(***************************************************************************)
(* No interleaving of add_token calls loses a token: once a call returned, *)
(* its token stays in the published set.                                   *)
(***************************************************************************)
THEOREM TokensAreKept == Spec => []NoLostToken
<1>1. IInv => NoLostToken
  BY DEF IInv
<1> QED  BY <1>1, Invariance, PTL

(***************************************************************************)
(* A set get_tokens returns has every token added before the call.         *)
(***************************************************************************)
THEOREM GetsAreNotStale == Spec => []GetSeesCompletedAdds
<1>1. IInv => GetSeesCompletedAdds
  BY DEF IInv, ReadInv, GetSeesCompletedAdds
<1> QED  BY <1>1, Invariance, PTL

-----------------------------------------------------------------------------
\* Only CopyAndInsert writes a set, and the set it writes is a new one.
LEMMA StepKeepsSnapshots ==
    ASSUME IInv, [Next]_vars
    PROVE  \A s \in Sets : Live(s) => contents'[s] = contents[s]
<1>1. ASSUME NEW t \in Threads, CopyAndInsert(t)
      PROVE  \A s \in Sets : Live(s) => contents'[s] = contents[s]
  BY <1>1 DEF CopyAndInsert, Fresh, IInv, TypeOK
<1>2. ASSUME NEW t \in Threads, Run(t), ~CopyAndInsert(t) PROVE UNCHANGED contents
  BY <1>2 DEF Run, LoadPtr, LoadOwn, Acquire, AlreadyAdded, CheckDangling,
              CasSucceeds, MoveOut, CasFails, StorePtr, StoreOwn, UseResult, Fault
<1>3. ASSUME NEW t \in Threads, CallAddToken(t) \/ CallGetTokens(t)
      PROVE  UNCHANGED contents
  BY <1>3 DEF CallAddToken, CallGetTokens, Begin
<1>4. CASE Halted \/ UNCHANGED vars
  BY <1>4 DEF Halted, vars
<1> QED  BY <1>1, <1>2, <1>3, <1>4, WritersAndReaders DEF Next

(***************************************************************************)
(* Read-copy-update: no step changes a set that a slot or a thread owns.   *)
(***************************************************************************)
THEOREM SnapshotsAreImmutable == Spec => ImmutableSnapshots
<1>1. IInv /\ [Next]_vars
        => [\A s \in Sets : Live(s) => contents'[s] = contents[s]]_vars
  BY StepKeepsSnapshots
<1> QED  BY <1>1, Invariance, PTL DEF Spec, ImmutableSnapshots

-----------------------------------------------------------------------------
\* Every step adds one token to one published set, or changes none.
LEMMA StepAddsOneToken ==
    ASSUME IInv, [Next]_vars
    PROVE  \/ \A i \in StemIds : Published(i)' = Published(i)
           \/ \E id \in StemIds, token \in Tokens : \A i \in StemIds :
                Published(i)' = IF i = id THEN Published(i) \cup {token}
                                ELSE Published(i)
<1>1. ASSUME NEW t \in Threads, MoveOut(t)
      PROVE  \E id \in StemIds, token \in Tokens : \A i \in StemIds :
                Published(i)' = IF i = id THEN Published(i) \cup {token}
                                ELSE Published(i)
  <2>1. callId[t] \in StemIds /\ callTok[t] \in Tokens
    BY <1>1 DEF IInv, TypeOK, CallsInv, Storing, MoveOut, Step
  <2> QED  BY <1>1, <2>1, ExchangePublishes
<1>2. ASSUME NEW t \in Threads, StoreOwn(t)
      PROVE  \A i \in StemIds : Published(i)' = Published(i)
  BY <1>2, StoreOwnInv
<1>3. ASSUME NEW t \in Threads, CopyAndInsert(t)
      PROVE  \A i \in StemIds : Published(i)' = Published(i)
  BY <1>3, CopyAndInsertInv
<1>4. ASSUME NEW t \in Threads, StorePtr(t)
      PROVE  \A i \in StemIds : Published(i)' = Published(i)
  BY <1>4, StorePtrInv
<1>8. ASSUME NEW t \in Threads, CasSucceeds(t)
      PROVE  \A i \in StemIds : Published(i)' = Published(i)
  BY <1>8, CasSucceedsInv
<1>5. ASSUME NEW t \in Threads, Run(t), ~CasSucceeds(t), ~StoreOwn(t),
             ~CopyAndInsert(t), ~StorePtr(t), ~MoveOut(t)
      PROVE  \A i \in StemIds : Published(i)' = Published(i)
  <2>1. UNCHANGED <<slots, contents>>
    BY <1>5 DEF Run, LoadPtr, LoadOwn, Acquire, AlreadyAdded, CheckDangling,
                CasFails, UseResult, Fault
  <2>2. \A u \in Threads : pc[u] \in Storing =>
            pc'[u] = pc[u] /\ oldPtr'[u] = oldPtr[u] /\ newSet'[u] = newSet[u]
    BY <1>5 DEF Run, LoadPtr, LoadOwn, Acquire, AlreadyAdded, CheckDangling,
                CasFails, UseResult, Fault, Step, ReturnAdd, Return, Release,
                Storing, locals, IInv, TypeOK
  <2> QED  BY <2>1, <2>2, PublishedUnchanged DEF IInv
<1>6. ASSUME NEW t \in Threads, CallAddToken(t) \/ CallGetTokens(t)
      PROVE  \A i \in StemIds : Published(i)' = Published(i)
  <2>1. UNCHANGED <<slots, contents, oldPtr, newSet>>
    BY <1>6 DEF CallAddToken, CallGetTokens, Begin
  <2>2. \A u \in Threads : pc[u] \in Storing => pc'[u] = pc[u]
    BY <1>6 DEF CallAddToken, CallGetTokens, Begin, Step, Storing, IInv, TypeOK
  <2> QED  BY <2>1, <2>2, PublishedUnchanged DEF IInv
<1>7. CASE Halted \/ UNCHANGED vars
  BY <1>7, PublishedUnchanged DEF IInv, Halted, vars, locals
<1> QED  BY <1>1, <1>2, <1>3, <1>4, <1>5, <1>6, <1>7, <1>8, WritersAndReaders DEF Next

(***************************************************************************)
(* The lock-free map is the map its callers use: each add_token takes      *)
(* effect at its successful exchange, and nothing else changes the map.    *)
(***************************************************************************)
THEOREM Refinement == Spec => ImplementsTokensMap
<1>1. Init => Abstract!Init
  BY NullIsNoThread DEF Init, Abstract!Init, Published, TokensAt
<1>2. IInv /\ [Next]_vars => [Abstract!Next]_([id \in StemIds |-> Published(id)])
  <2> SUFFICES ASSUME IInv, [Next]_vars PROVE [Abstract!Next]_([id \in StemIds |-> Published(id)])
    OBVIOUS
  <2>1. CASE \A i \in StemIds : Published(i)' = Published(i)
    BY <2>1
  <2>2. ASSUME NEW id \in StemIds, NEW token \in Tokens,
               \A i \in StemIds :
                  Published(i)' = IF i = id THEN Published(i) \cup {token}
                                  ELSE Published(i)
        PROVE  Abstract!AddToken(id, token)
    BY <2>2 DEF Abstract!AddToken
  <2> QED  BY <2>1, <2>2, StepAddsOneToken DEF Abstract!Next
<1> QED  BY <1>1, <1>2, Invariance, PTL DEF Spec, ImplementsTokensMap, Abstract!Spec
==============================================================================
