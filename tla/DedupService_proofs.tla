-------------------------- MODULE DedupService_proofs --------------------------
(***************************************************************************)
(* For any clients, articles, signatures, hash and number of crashes: the  *)
(* dedup server implements DedupOracle, lets through no two similar        *)
(* articles between two of its starts, and every client gets the answer to *)
(* its own request.                                                        *)
(***************************************************************************)
EXTENDS DedupService, FiniteSetTheorems, TLAPS

\* An article belongs to one client from its save to its verdict, and its
\* request, its answer and its reply are about it.
RequestsInv ==
    /\ \A c \in Clients :
        /\ clientPc[c] = "idle" <=> current[c] = None
        /\ clientPc[c] = "saved" => answer[current[c]] = None
        /\ current[c] # None => signatureOf[current[c]] # None
        /\ \A d \in Clients \ {c} : current[c] # None => current[c] # current[d]
    /\ \A m \in outbox \cup inbox :
        /\ clientPc[m[1]] = "waiting"
        /\ current[m[1]] = m[2]
        /\ answer[m[2]] = None
    /\ outbox \cap inbox = {}
    /\ serving # None =>
        /\ clientPc[serving[1]] = "waiting"
        /\ current[serving[1]] = serving[2]
        /\ answer[serving[2]] = serving[3]
        /\ \A m \in replies : m[1] # serving[1]
    /\ \A m \in replies :
        /\ clientPc[m[1]] = "waiting"
        /\ answer[current[m[1]]] = m[2]
    /\ \A id \in Ids : answer[id] # None => signatureOf[id] # None

\* The buckets hold what the server knows, and it knows what it answered.
IndexInv ==
    /\ server = "down" => buckets = {} /\ inbox = {}
    /\ server # "down" => buckets = ComputeLshGroups(known)
    /\ \A id \in Ids :
        /\ answeredIn[id] <= starts
        /\ answer[id] # None /\ answeredIn[id] = starts /\ server # "down"
               => <<id, signatureOf[id]>> \in known

IInv ==
    /\ TypeOK
    /\ RequestsInv
    /\ VerdictIsAnswer
    /\ IndexInv
    /\ AcceptedAreDissimilar

-----------------------------------------------------------------------------
(***************************************************************************)
(* The index: compute_lsh_groups and process_signature.                    *)
(***************************************************************************)
\* Inserting a document gives the groups of the documents and it.
LEMMA GroupsGrow ==
    ASSUME NEW docs, NEW id, NEW signature
    PROVE  ComputeLshGroups(docs \cup {<<id, signature>>})
               = ComputeLshGroups(docs) \cup Entries(id, signature)
<1>1. ASSUME NEW e
      PROVE  e \in ComputeLshGroups(docs \cup {<<id, signature>>})
                 <=> e \in ComputeLshGroups(docs) \/ e \in Entries(id, signature)
  <2> DEFINE grown == docs \cup {<<id, signature>>}
  <2>1. e \in ComputeLshGroups(grown) <=> \E d \in grown : e \in Entries(d[1], d[2])
    BY DEF ComputeLshGroups
  <2>2. e \in ComputeLshGroups(docs) <=> \E d \in docs : e \in Entries(d[1], d[2])
    BY DEF ComputeLshGroups
  <2>3. \A d : d \in grown <=> d \in docs \/ d = <<id, signature>>
    OBVIOUS
  <2>4. Entries(<<id, signature>>[1], <<id, signature>>[2]) = Entries(id, signature)
    OBVIOUS
  <2> HIDE DEF grown
  <2>5. e \in ComputeLshGroups(grown) <=>
            (\E d \in docs : e \in Entries(d[1], d[2])) \/ e \in Entries(id, signature)
    BY <2>1, <2>3, <2>4, Zenon
  <2> QED BY <2>2, <2>5 DEF grown
<1> QED BY <1>1

\* process_signature returns the document and the similar documents it knows.
LEMMA DuplicatesAreSimilar ==
    ASSUME NEW docs \in SUBSET (Ids \X Signatures), NEW id \in Ids, NEW signature,
           buckets = ComputeLshGroups(docs)
    PROVE  Duplicates(id, signature) =
               {id} \cup {d \in Ids : \E k \in docs :
                              k[1] = d /\ Similar(k[2], signature)}
<1>1. ASSUME NEW d \in Ids
      PROVE  (\E band \in Bands : <<band, Key(signature, band), d>> \in buckets)
                 <=> (\E k \in docs : k[1] = d /\ Similar(k[2], signature))
  <2>1. ASSUME NEW band \in Bands
        PROVE  <<band, Key(signature, band), d>> \in buckets
                   <=> \E k \in docs : k[1] = d /\ Key(k[2], band) = Key(signature, band)
    BY <1>1 DEF ComputeLshGroups, Entries
  <2> QED BY <2>1 DEF Similar
<1> QED BY <1>1 DEF Duplicates

\* More than one duplicate is a duplicate other than the document.
LEMMA AnotherDuplicate ==
    ASSUME NEW id \in Ids, NEW signature
    PROVE  Cardinality(Duplicates(id, signature)) > 1
               <=> \E d \in Duplicates(id, signature) : d # id
<1> DEFINE D == Duplicates(id, signature)
<1>1. id \in D /\ D \subseteq Ids
  BY DEF Duplicates
<1>2. IsFiniteSet(D) /\ Cardinality(D) \in Nat
  BY <1>1, ServiceAssumption, FS_Subset, FS_CardinalityType
<1>3. Cardinality(D) # 0
  BY <1>1, <1>2, FS_EmptySet
<1>4. Cardinality(D) = 1 <=> \E x : D = {x}
  BY <1>2, FS_Singleton
<1>5. (\E x : D = {x}) <=> ~ \E d \in D : d # id
  BY <1>1
<1> HIDE DEF D
<1>6. Cardinality(D) > 1 <=> \E d \in D : d # id
  BY <1>2, <1>3, <1>4, <1>5
<1> QED BY <1>6 DEF D

\* The reply of the server is DUP when another article it knows is similar.
LEMMA ReplyText ==
    ASSUME NEW docs \in SUBSET (Ids \X Signatures), NEW id \in Ids, NEW signature,
           buckets = ComputeLshGroups(docs)
    PROVE  Cardinality(Duplicates(id, signature)) > 1
               <=> \E k \in docs : k[1] # id /\ Similar(k[2], signature)
<1>1. \A k \in docs : k[1] \in Ids
  OBVIOUS
<1> QED BY <1>1, AnotherDuplicate, DuplicatesAreSimilar
-----------------------------------------------------------------------------
(***************************************************************************)
(* The invariant: one lemma per action.                                    *)
(***************************************************************************)
\* The buckets of typed documents are typed.
LEMMA GroupsType ==
    ASSUME NEW docs \in SUBSET (Ids \X Signatures)
    PROVE  ComputeLshGroups(docs)
               \subseteq Bands \X {Key(s, b) : s \in Signatures, b \in Bands} \X Ids
BY DEF ComputeLshGroups, Entries

LEMMA InitInv == Init => IInv
<1> SUFFICES ASSUME Init PROVE IInv
  OBVIOUS
<1>1. TypeOK
  BY ServiceAssumption DEF Init, TypeOK, Text
<1>2. RequestsInv /\ VerdictIsAnswer
  BY DEF Init, RequestsInv, VerdictIsAnswer
<1>3. IndexInv /\ AcceptedAreDissimilar
  BY ServiceAssumption DEF Init, IndexInv, AcceptedAreDissimilar
<1> QED BY <1>1, <1>2, <1>3 DEF IInv

LEMMA SaveInv ==
    ASSUME IInv, NEW c \in Clients, Save(c)
    PROVE  IInv'
<1> USE ServiceAssumption DEF IInv
<1> PICK id \in Ids, signature \in Signatures, garbage \in Garbage :
        /\ signatureOf[id] = None
        /\ current' = [current EXCEPT ![c] = id]
        /\ stored' = stored \cup {<<id, garbage>>}
        /\ signatureOf' = [signatureOf EXCEPT ![id] = signature]
  BY DEF Save
<1>1. TypeOK'
  BY DEF TypeOK, Save, network, history
<1>2. RequestsInv'
  BY DEF RequestsInv, TypeOK, Save, network, history
<1>3. VerdictIsAnswer' /\ IndexInv'
  <2>1. \A i \in Ids : answer[i] # None => signatureOf'[i] = signatureOf[i]
    BY DEF RequestsInv, TypeOK
  <2>2. /\ UNCHANGED <<buckets, server, starts, verdict, inbox, known, answer,
                       answeredIn>>
    BY DEF Save, network, history
  <2>3. server # "down" => buckets' = ComputeLshGroups(known)'
    BY <2>2 DEF IndexInv, ComputeLshGroups
  <2>4. VerdictIsAnswer'
    BY <2>2 DEF VerdictIsAnswer
  <2>5. \A i \in Ids :
            /\ answeredIn'[i] <= starts'
            /\ answer'[i] # None /\ answeredIn'[i] = starts' /\ server' # "down"
                   => <<i, signatureOf'[i]>> \in known'
    <3> TAKE i \in Ids
    <3>1. /\ answeredIn[i] <= starts
          /\ answer[i] # None /\ answeredIn[i] = starts /\ server # "down"
                 => <<i, signatureOf[i]>> \in known
      BY DEF IndexInv
    <3>2. answer[i] # None => signatureOf'[i] = signatureOf[i]
      BY <2>1
    <3> QED BY <2>2, <3>1, <3>2
  <2>6. IndexInv'
    BY <2>2, <2>3, <2>5 DEF IndexInv, ComputeLshGroups
  <2> QED BY <2>4, <2>6
<1>4. AcceptedAreDissimilar'
  BY DEF AcceptedAreDissimilar, RequestsInv, TypeOK, Save, network, history
<1> QED BY <1>1, <1>2, <1>3, <1>4

LEMMA SendInv ==
    ASSUME IInv, NEW c \in Clients, Send(c)
    PROVE  IInv'
<1> USE ServiceAssumption DEF IInv, Send, history
<1>1. TypeOK'
  BY DEF TypeOK, RequestsInv
<1>2. RequestsInv'
  BY DEF RequestsInv, TypeOK
<1>3. VerdictIsAnswer' /\ IndexInv' /\ AcceptedAreDissimilar'
  BY DEF VerdictIsAnswer, IndexInv, ComputeLshGroups, AcceptedAreDissimilar
<1> QED BY <1>1, <1>2, <1>3

LEMMA ReceiveInv ==
    ASSUME IInv, NEW c \in Clients, Receive(c)
    PROVE  IInv'
<1> USE ServiceAssumption DEF IInv, Receive, history
<1>1. TypeOK'
  <2>1. verdict' \in [Ids -> Text \cup {None}]
    <3> HIDE DEF Receive
    <3>1. PICK text \in Text : verdict' = [verdict EXCEPT ![current[c]] = text]
      BY DEF Receive, Text
    <3>2. verdict \in [Ids -> Text \cup {None}]
      BY DEF TypeOK
    <3> QED BY <3>1, <3>2
  <2>2. current' \in [Clients -> Ids \cup {None}]
    BY DEF TypeOK
  <2>3. replies' \subseteq replies
    OBVIOUS
  <2> QED BY <2>1, <2>2, <2>3 DEF TypeOK
<1>2. RequestsInv'
  BY DEF RequestsInv, TypeOK
<1>3. VerdictIsAnswer'
  BY DEF VerdictIsAnswer, RequestsInv, TypeOK
<1>4. IndexInv' /\ AcceptedAreDissimilar'
  BY DEF IndexInv, ComputeLshGroups, AcceptedAreDissimilar
<1> QED BY <1>1, <1>2, <1>3, <1>4

LEMMA BeginBatchInv ==
    ASSUME IInv, NEW c \in Clients, BeginBatch(c)
    PROVE  IInv'
<1> USE ServiceAssumption DEF IInv, BeginBatch, client, network, history
<1>1. TypeOK'
  BY DEF TypeOK
<1>2. RequestsInv'
  BY DEF RequestsInv
<1>3. VerdictIsAnswer' /\ IndexInv' /\ AcceptedAreDissimilar'
  BY DEF VerdictIsAnswer, IndexInv, ComputeLshGroups, AcceptedAreDissimilar
<1> QED BY <1>1, <1>2, <1>3

LEMMA StartInv ==
    ASSUME IInv, Start
    PROVE  IInv'
<1> USE ServiceAssumption DEF IInv, Start, client, network
<1>1. TypeOK'
  BY GroupsType DEF TypeOK
<1>2. RequestsInv'
  BY DEF RequestsInv
<1>3. VerdictIsAnswer' /\ AcceptedAreDissimilar'
  BY DEF VerdictIsAnswer, AcceptedAreDissimilar
<1>4. IndexInv'
  BY DEF IndexInv, ComputeLshGroups, TypeOK
<1> QED BY <1>1, <1>2, <1>3, <1>4

LEMMA DeliverInv ==
    ASSUME IInv, NEW c \in Clients, Deliver(c)
    PROVE  IInv'
<1> USE ServiceAssumption DEF IInv, Deliver, client, history
<1>1. TypeOK'
  BY DEF TypeOK
<1>2. RequestsInv'
  BY DEF RequestsInv
<1>3. VerdictIsAnswer' /\ IndexInv' /\ AcceptedAreDissimilar'
  BY DEF VerdictIsAnswer, IndexInv, ComputeLshGroups, AcceptedAreDissimilar
<1> QED BY <1>1, <1>2, <1>3

\* An article let through shares no band with those let through before.
LEMMA ServeInv ==
    ASSUME IInv, NEW c \in Clients, Serve(c)
    PROVE  IInv'
<1> USE ServiceAssumption DEF IInv
<1> PICK id \in Ids :
        LET signature == signatureOf[id]
            text == IF Cardinality(Duplicates(id, signature)) > 1 THEN "DUP" ELSE "OK"
        IN  /\ <<c, id>> \in inbox
            /\ inbox' = inbox \ {<<c, id>>}
            /\ serving' = <<c, id, text>>
            /\ Insert(id, signature)
            /\ known' = known \cup {<<id, signature>>}
            /\ answer' = [answer EXCEPT ![id] = text]
            /\ answeredIn' = [answeredIn EXCEPT ![id] = starts]
  BY DEF Serve
<1> DEFINE signature == signatureOf[id]
           text == IF Cardinality(Duplicates(id, signature)) > 1 THEN "DUP" ELSE "OK"
<1>1. /\ server = "receiving" /\ server' = "replying"
      /\ UNCHANGED <<starts, stored, batches, client, outbox, replies, lost>>
  BY DEF Serve
<1>2. clientPc[c] = "waiting" /\ current[c] = id /\ answer[id] = None
  BY DEF RequestsInv, TypeOK
<1>3. signature \in Signatures /\ text \in Text
  BY <1>2 DEF RequestsInv, TypeOK, Text
<1>4. buckets = ComputeLshGroups(known) /\ known \subseteq Ids \X Signatures
  BY <1>1 DEF IndexInv, TypeOK
<1>5. text = "DUP" <=> \E k \in known : k[1] # id /\ Similar(k[2], signature)
  BY <1>3, <1>4, ReplyText
<1>6. buckets' = ComputeLshGroups(known')
  BY <1>4, GroupsGrow DEF Insert, ComputeLshGroups
<1> HIDE DEF text, signature
<1>7. TypeOK'
  <2>1. known' \subseteq Ids \X Signatures
    BY <1>3, <1>4 DEF signature
  <2>2. buckets' \subseteq Bands \X {Key(s, b) : s \in Signatures, b \in Bands} \X Ids
    BY <1>6, <2>1, GroupsType
  <2>3. serving' \in (Clients \X Ids \X Text) \cup {None} /\ serving' # None
    BY <1>3 DEF signature, text, Text
  <2>4. answer' \in [Ids -> Text \cup {None}] /\ answeredIn' \in [Ids -> 0 .. MaxStarts]
    BY <1>3 DEF TypeOK, signature, text
  <2> QED BY <1>1, <2>1, <2>2, <2>3, <2>4 DEF TypeOK, client
<1>8. RequestsInv'
  BY <1>1, <1>2, <1>3 DEF RequestsInv, TypeOK, client, Text, signature, text
<1>9. VerdictIsAnswer'
  BY <1>1, <1>2 DEF VerdictIsAnswer, TypeOK, client
<1>10. IndexInv'
  BY <1>1, <1>2, <1>3, <1>6 DEF IndexInv, TypeOK, client, signature
<1>11. AcceptedAreDissimilar'
  <2> SUFFICES ASSUME NEW i \in Ids, NEW j \in Ids, i # j,
                      answer'[i] = "OK", answer'[j] = "OK",
                      answeredIn'[i] = answeredIn'[j],
                      Similar(signatureOf[i], signatureOf[j])
               PROVE  FALSE
    BY <1>1 DEF AcceptedAreDissimilar, client
  <2>1. CASE i # id /\ j # id
    BY <2>1 DEF AcceptedAreDissimilar, TypeOK
  <2>2. ASSUME NEW k \in Ids, k # id, answer'[k] = "OK", answeredIn'[k] = starts,
               Similar(signatureOf[k], signature), text = "OK"
        PROVE  FALSE
    <3>1. <<k, signatureOf[k]>> \in known
      BY <1>1, <2>2 DEF IndexInv, TypeOK
    <3> QED BY <1>5, <2>2, <3>1
  <2>3. answer'[id] = text /\ answeredIn'[id] = starts
    BY DEF TypeOK, text, signature
  <2>4. Similar(signatureOf[j], signatureOf[i])
    BY DEF Similar
  <2>5. CASE i = id
    BY <2>2, <2>3, <2>4, <2>5 DEF signature
  <2>6. CASE j = id
    BY <2>2, <2>3, <2>6 DEF signature
  <2> QED BY <2>1, <2>5, <2>6
<1> QED BY <1>7, <1>8, <1>9, <1>10, <1>11

LEMMA ReplyInv ==
    ASSUME IInv, Reply
    PROVE  IInv'
<1> USE ServiceAssumption DEF IInv, Reply, client, history
<1>1. TypeOK'
  BY DEF TypeOK
<1>2. RequestsInv'
  BY DEF RequestsInv, TypeOK
<1>3. VerdictIsAnswer' /\ AcceptedAreDissimilar'
  BY DEF VerdictIsAnswer, AcceptedAreDissimilar
<1>4. IndexInv'
  BY DEF IndexInv, ComputeLshGroups
<1> QED BY <1>1, <1>2, <1>3, <1>4

LEMMA CrashInv ==
    ASSUME IInv, Crash
    PROVE  IInv'
<1> USE ServiceAssumption DEF IInv, Crash, client, history
<1>1. TypeOK'
  BY DEF TypeOK
<1>2. RequestsInv'
  BY DEF RequestsInv
<1>3. VerdictIsAnswer' /\ IndexInv' /\ AcceptedAreDissimilar'
  BY DEF VerdictIsAnswer, IndexInv, AcceptedAreDissimilar
<1> QED BY <1>1, <1>2, <1>3

LEMMA StutterInv ==
    ASSUME IInv, UNCHANGED vars
    PROVE  IInv'
<1> USE DEF IInv, vars, client, network, history
<1>1. TypeOK'
  BY DEF TypeOK
<1>2. RequestsInv'
  BY DEF RequestsInv
<1>3. VerdictIsAnswer' /\ IndexInv' /\ AcceptedAreDissimilar'
  BY DEF VerdictIsAnswer, IndexInv, ComputeLshGroups, AcceptedAreDissimilar
<1> QED BY <1>1, <1>2, <1>3

LEMMA NextInv == IInv /\ [Next]_vars => IInv'
<1> SUFFICES ASSUME IInv, [Next]_vars PROVE IInv'
  OBVIOUS
<1>1. ASSUME NEW c \in Clients, Save(c) \/ Send(c) \/ Receive(c) \/ BeginBatch(c)
      PROVE  IInv'
  BY <1>1, SaveInv, SendInv, ReceiveInv, BeginBatchInv
<1>2. ASSUME NEW c \in Clients, Deliver(c) \/ Serve(c)
      PROVE  IInv'
  BY <1>2, DeliverInv, ServeInv
<1>3. CASE Start \/ Reply \/ Crash
  BY <1>3, StartInv, ReplyInv, CrashInv
<1>4. CASE UNCHANGED vars
  BY <1>4, StutterInv
<1> QED BY <1>1, <1>2, <1>3, <1>4 DEF Next

LEMMA Invariance == Spec => []IInv
BY InitInv, NextInv, PTL DEF Spec
(***************************************************************************)
(* The server keeps the request it works on exactly while it replies, and  *)
(* everything the socket, the index and the clients hold is typed.         *)
(***************************************************************************)
THEOREM Typing == Spec => []TypeOK
<1>1. IInv => TypeOK
  BY DEF IInv
<1> QED BY Invariance, <1>1, PTL

(***************************************************************************)
(* process_signature: between two starts of the server, no two articles    *)
(* with a common band are both let through, whatever the hash, the         *)
(* collisions of the cut keys and the unset signatures it loaded.          *)
(***************************************************************************)
THEOREM NoTwoSimilarAreAccepted == Spec => []AcceptedAreDissimilar
<1>1. IInv => AcceptedAreDissimilar
  BY DEF IInv
<1> QED BY Invariance, <1>1, PTL

(***************************************************************************)
(* is_duplicate returns the answer to its own request, for any number of   *)
(* clients and of crashes of the server.                                   *)
(***************************************************************************)
THEOREM VerdictsAreAnswers == Spec => []VerdictIsAnswer
<1>1. IInv => VerdictIsAnswer
  BY DEF IInv
<1> QED BY Invariance, <1>1, PTL

-----------------------------------------------------------------------------
(***************************************************************************)
(* Where the request or the reply of a client is.  WaitingIsServedOrLost   *)
(* is not inductive by itself: a client a crash forgot would have to stay  *)
(* where it is, waiting, and it does, since nothing is left to receive.    *)
(***************************************************************************)
InOutbox(c) == \E m \in outbox : m[1] = c
InInbox(c)  == \E m \in inbox : m[1] = c
InServer(c) == serving # None /\ serving[1] = c
InReplies(c) == \E m \in replies : m[1] = c

Nowhere(c) == ~InOutbox(c) /\ ~InInbox(c) /\ ~InServer(c) /\ ~InReplies(c)

AtOnePlace(c) ==
    \/ InOutbox(c) /\ ~InInbox(c) /\ ~InServer(c) /\ ~InReplies(c)
    \/ ~InOutbox(c) /\ InInbox(c) /\ ~InServer(c) /\ ~InReplies(c)
    \/ ~InOutbox(c) /\ ~InInbox(c) /\ InServer(c) /\ ~InReplies(c)
    \/ ~InOutbox(c) /\ ~InInbox(c) /\ ~InServer(c) /\ InReplies(c)

PlacesInv ==
    \A c \in Clients :
        /\ c \in lost => clientPc[c] = "waiting"
        /\ IF clientPc[c] = "waiting" /\ c \notin lost THEN AtOnePlace(c)
           ELSE Nowhere(c)

\* Places(c) names the places; there is one exactly when AtOnePlace(c).
LEMMA PlacesCount ==
    ASSUME NEW c \in Clients
    PROVE  /\ AtOnePlace(c) => Cardinality(Places(c)) = 1
           /\ Nowhere(c) => Places(c) = {}
<1>1. /\ "outbox" \in Places(c) <=> InOutbox(c)
      /\ "inbox" \in Places(c) <=> InInbox(c)
      /\ "server" \in Places(c) <=> InServer(c)
      /\ "reply" \in Places(c) <=> InReplies(c)
  BY DEF Places, InOutbox, InInbox, InServer, InReplies
<1>2. Places(c) \subseteq {"outbox", "inbox", "server", "reply"}
  BY DEF Places
<1>3. ASSUME AtOnePlace(c) PROVE Cardinality(Places(c)) = 1
  <2>1. \E x : Places(c) = {x}
    BY <1>1, <1>2, <1>3 DEF AtOnePlace
  <2> QED BY <2>1, FS_Singleton
<1>4. ASSUME Nowhere(c) PROVE Places(c) = {}
  BY <1>1, <1>2, <1>4 DEF Nowhere
<1> QED BY <1>3, <1>4

LEMMA InitPlaces == Init => PlacesInv
BY DEF Init, PlacesInv, Nowhere, InOutbox, InInbox, InServer, InReplies

\* A client has one request and one reply at most, so that a message that
\* moves leaves nothing behind it.
LEMMA OneMessage ==
    ASSUME IInv
    PROVE  /\ \A m, n \in outbox \cup inbox : m[1] = n[1] => m = n
           /\ \A m, n \in replies : m[1] = n[1] => m = n
<1>1. \A m \in outbox \cup inbox : m = <<m[1], current[m[1]]>>
  BY DEF IInv, TypeOK, RequestsInv
<1>2. \A m \in replies : m = <<m[1], answer[current[m[1]]]>>
  BY DEF IInv, TypeOK, RequestsInv
<1> QED BY <1>1, <1>2

LEMMA NextPlaces ==
    ASSUME IInv, PlacesInv, [Next]_vars
    PROVE  PlacesInv'
<1> USE DEF InOutbox, InInbox, InServer, InReplies
<1> DEFINE P(c) == /\ c \in lost => clientPc[c] = "waiting"
                   /\ IF clientPc[c] = "waiting" /\ c \notin lost THEN AtOnePlace(c)
                      ELSE Nowhere(c)
<1> SUFFICES ASSUME NEW e \in Clients PROVE P(e)'
  BY DEF PlacesInv
<1>0. P(e) /\ TypeOK
  BY DEF PlacesInv, IInv
<1>1. ASSUME NEW c \in Clients, Save(c) PROVE P(e)'
  BY <1>0, <1>1 DEF TypeOK, Save, network, history, AtOnePlace, Nowhere
<1>2. ASSUME NEW c \in Clients, Send(c) PROVE P(e)'
  <2>1. InOutbox(c)' /\ (e # c => (InOutbox(e)' <=> InOutbox(e)))
    <3> DEFINE request == <<c, current[c]>>
    <3>1. outbox' = outbox \cup {request} /\ request[1] = c
      BY <1>2 DEF Send
    <3> HIDE DEF request
    <3> QED BY <3>1
  <2>2. /\ UNCHANGED <<inbox, serving, replies, lost>>
        /\ clientPc[c] = "saved"
        /\ clientPc' = [clientPc EXCEPT ![c] = "waiting"]
    BY <1>2 DEF Send
  <2> QED BY <1>0, <2>1, <2>2 DEF TypeOK, AtOnePlace, Nowhere
<1>3. ASSUME NEW c \in Clients, Receive(c) PROVE P(e)'
  <2>1. PICK text \in {"OK", "DUP"} :
            <<c, text>> \in replies /\ replies' = replies \ {<<c, text>>}
    BY <1>3 DEF Receive
  <2>2. InReplies(c) /\ ~InReplies(c)'
    BY <2>1, OneMessage
  <2>3. e # c => (InReplies(e)' <=> InReplies(e))
    BY <2>1
  <2>4. /\ UNCHANGED <<outbox, inbox, serving, lost>>
        /\ clientPc' = [clientPc EXCEPT ![c] = "idle"]
    BY <1>3 DEF Receive
  <2> QED BY <1>0, <2>2, <2>3, <2>4 DEF TypeOK, AtOnePlace, Nowhere
<1>4. ASSUME NEW c \in Clients, BeginBatch(c) PROVE P(e)'
  BY <1>0, <1>4 DEF TypeOK, BeginBatch, client, network, history, AtOnePlace, Nowhere
<1>5. ASSUME NEW c \in Clients, Deliver(c) PROVE P(e)'
  <2>1. PICK id \in Ids : /\ <<c, id>> \in outbox
                          /\ outbox' = outbox \ {<<c, id>>}
                          /\ inbox' = inbox \cup {<<c, id>>}
    BY <1>5 DEF Deliver
  <2>2. InOutbox(c) /\ ~InOutbox(c)' /\ InInbox(c)'
    BY <2>1, OneMessage
  <2>3. e # c => (InOutbox(e)' <=> InOutbox(e)) /\ (InInbox(e)' <=> InInbox(e))
    BY <2>1
  <2>4. UNCHANGED <<clientPc, replies, serving, lost>>
    BY <1>5 DEF Deliver, client
  <2> QED BY <1>0, <2>2, <2>3, <2>4 DEF AtOnePlace, Nowhere
<1>6. ASSUME NEW c \in Clients, Serve(c) PROVE P(e)'
  BY <1>0, <1>6, OneMessage, ServiceAssumption
     DEF TypeOK, Serve, client, AtOnePlace, Nowhere
<1>7. CASE Start
  BY <1>0, <1>7 DEF TypeOK, Start, client, network, AtOnePlace, Nowhere
<1>8. CASE Reply
  <2>1. serving # None /\ serving' = None
    BY <1>0, <1>8 DEF TypeOK, Reply
  <2>2. InReplies(e)' <=> InReplies(e) \/ InServer(e)
    <3> DEFINE reply == <<serving[1], serving[3]>>
    <3>1. replies' = replies \cup {reply} /\ reply[1] = serving[1]
      BY <1>8 DEF Reply
    <3> HIDE DEF reply
    <3> QED BY <2>1, <3>1
  <2>3. UNCHANGED <<clientPc, outbox, inbox, lost>>
    BY <1>8 DEF Reply, client
  <2> QED BY <1>0, <2>1, <2>2, <2>3 DEF AtOnePlace, Nowhere
<1>9. CASE Crash
  <2>1. /\ UNCHANGED <<clientPc, outbox>>
        /\ inbox' = {} /\ serving' = None /\ replies' \subseteq replies
    BY <1>9 DEF Crash, client
  <2>2. e \in lost' <=>
            \/ e \in lost \/ InInbox(e) \/ InServer(e)
            \/ \E m \in replies \ replies' : m[1] = e
    <3>1. InInbox(e) <=> \E id \in Ids : <<e, id>> \in inbox
      <4>1. ASSUME NEW m \in inbox, m[1] = e PROVE \E id \in Ids : <<e, id>> \in inbox
        <5>1. m[2] \in Ids /\ m = <<e, m[2]>>
          BY <1>0, <4>1 DEF TypeOK
        <5> QED BY <5>1
      <4>2. ASSUME NEW id, <<e, id>> \in inbox PROVE \E m \in inbox : m[1] = e
        BY <4>2, <<e, id>>[1] = e
      <4> QED BY <4>1, <4>2
    <3>2. (\E m \in replies \ replies' : m[1] = e)
              <=> \E text \in {"OK", "DUP"} : <<e, text>> \in replies \ replies'
      <4>1. ASSUME NEW m \in replies \ replies', m[1] = e
            PROVE  \E text \in {"OK", "DUP"} : <<e, text>> \in replies \ replies'
        <5>1. m[2] \in {"OK", "DUP"} /\ m = <<e, m[2]>>
          BY <1>0, <4>1 DEF TypeOK, Text
        <5> QED BY <4>1, <5>1
      <4>2. ASSUME NEW text, <<e, text>> \in replies \ replies'
            PROVE  \E m \in replies \ replies' : m[1] = e
        BY <4>2, <<e, text>>[1] = e
      <4> QED BY <4>1, <4>2
    <3> QED BY <1>9, <3>1, <3>2 DEF Crash
  <2>3. (\E m \in replies \ replies' : m[1] = e) => InReplies(e) /\ ~InReplies(e)'
    BY <2>1, OneMessage
  <2>4. ~(\E m \in replies \ replies' : m[1] = e) => (InReplies(e)' <=> InReplies(e))
    BY <2>1
  <2> HIDE DEF InOutbox, InInbox, InServer, InReplies
  <2>5. /\ InOutbox(e)' <=> InOutbox(e)
        /\ ~InInbox(e)' /\ ~InServer(e)'
    BY <2>1 DEF InOutbox, InInbox, InServer
  <2> QED BY <1>0, <2>1, <2>2, <2>3, <2>4, <2>5 DEF AtOnePlace, Nowhere
<1>10. CASE UNCHANGED vars
  BY <1>0, <1>10 DEF vars, client, network, history, AtOnePlace, Nowhere
<1> QED BY <1>1, <1>2, <1>3, <1>4, <1>5, <1>6, <1>7, <1>8, <1>9, <1>10 DEF Next

(***************************************************************************)
(* zmq_helper.h has neither a timeout nor a retry: for any clients and any *)
(* crashes, the request or the reply of a client that waits is in exactly  *)
(* one socket or in the server, unless a crash of the server lost it.      *)
(***************************************************************************)
THEOREM RequestsAreNotForgotten == Spec => []WaitingIsServedOrLost
<1>1. IInv /\ PlacesInv /\ [Next]_vars => PlacesInv'
  BY NextPlaces
<1>2. PlacesInv => WaitingIsServedOrLost
  BY PlacesCount DEF PlacesInv, WaitingIsServedOrLost
<1> QED BY InitPlaces, Invariance, <1>1, <1>2, PTL DEF Spec

-----------------------------------------------------------------------------
(***************************************************************************)
(* The refinement: a start of the server is the oracle's restart, the      *)
(* insertion in the index its answer.                                      *)
(***************************************************************************)
LEMMA InitRefines == Init => Oracle!Init
BY DEF Init, Oracle!Init

LEMMA SaveRefines ==
    ASSUME NEW c \in Clients, Save(c)
    PROVE  Oracle!Next
<1> PICK id \in Ids, garbage \in Garbage : stored' = stored \cup {<<id, garbage>>}
  BY DEF Save
<1>1. garbage \in Signatures
  BY ServiceAssumption
<1>2. Oracle!Save(id, garbage)
  BY DEF Save, history, Oracle!Save
<1> QED BY <1>1, <1>2 DEF Oracle!Next

LEMMA ServeRefines ==
    ASSUME IInv, NEW c \in Clients, Serve(c)
    PROVE  Oracle!Next
<1> USE DEF IInv
<1> PICK id \in Ids :
        LET signature == signatureOf[id]
            text == IF Cardinality(Duplicates(id, signature)) > 1 THEN "DUP" ELSE "OK"
        IN  /\ <<c, id>> \in inbox
            /\ known' = known \cup {<<id, signature>>}
            /\ answer' = [answer EXCEPT ![id] = text]
  BY DEF Serve
<1> DEFINE signature == signatureOf[id]
<1>1. server = "receiving" /\ stored' = stored
  BY DEF Serve
<1>2. answer[id] = None /\ signature \in Signatures
  BY DEF RequestsInv, TypeOK
<1>3. buckets = ComputeLshGroups(known) /\ known \subseteq Ids \X Signatures
  BY <1>1 DEF IndexInv, TypeOK
<1>4. Cardinality(Duplicates(id, signature)) > 1
          <=> \E k \in known : k[1] # id /\ Similar(k[2], signature)
  BY <1>3, ReplyText
<1>5. Oracle!Answer(id, signature)
  BY <1>1, <1>2, <1>4 DEF Oracle!Answer
<1> QED BY <1>2, <1>5 DEF Oracle!Next

LEMMA NextRefines ==
    ASSUME IInv, [Next]_vars
    PROVE  [Oracle!Next]_<<stored, known, answer>>
<1>1. ASSUME NEW c \in Clients, Save(c)
      PROVE  Oracle!Next
  BY <1>1, SaveRefines
<1>2. ASSUME NEW c \in Clients, BeginBatch(c)
      PROVE  Oracle!Next
  BY <1>2 DEF BeginBatch, history, Oracle!Next, Oracle!Drop
<1>3. ASSUME NEW c \in Clients, Serve(c)
      PROVE  Oracle!Next
  BY <1>3, ServeRefines
<1>4. CASE Start
  BY <1>4 DEF Start, Oracle!Next, Oracle!Restart
<1>5. ASSUME NEW c \in Clients, Send(c) \/ Receive(c) \/ Deliver(c)
      PROVE  UNCHANGED <<stored, known, answer>>
  BY <1>5 DEF Send, Receive, Deliver, history
<1>6. CASE Reply \/ Crash
  BY <1>6 DEF Reply, Crash, history
<1>7. CASE UNCHANGED vars
  BY <1>7 DEF vars, history
<1> QED BY <1>1, <1>2, <1>3, <1>4, <1>5, <1>6, <1>7 DEF Next

(***************************************************************************)
(* The sockets, the crashes and the index of buckets implement the oracle: *)
(* an article is answered once, DUP exactly when the server knows a        *)
(* similar one.                                                            *)
(***************************************************************************)
THEOREM Refinement == Spec => ImplementsDedupOracle
<1>1. IInv /\ [Next]_vars => [Oracle!Next]_<<stored, known, answer>>
  BY NextRefines
<1> QED BY InitRefines, Invariance, <1>1, PTL
        DEF Spec, ImplementsDedupOracle, Oracle!Spec
================================================================================
