----------------------------- MODULE DedupService -----------------------------
(***************************************************************************)
(* Deduplication across processes: the clients (startup.cpp, the handler   *)
(* of pipeline.cpp), each with a REQ socket of its own; the server         *)
(* (article_dedup.cpp), one thread around a ROUTER socket and the LSH      *)
(* index; and the collection "articles" the clients write and the server   *)
(* reads when it starts.                                                   *)
(*                                                                         *)
(* A request waits in its client's socket until a server is there, then in *)
(* the server's; a crash of the server loses what its socket holds, both   *)
(* requests and replies.  There are no timeouts and no retries.            *)
(***************************************************************************)
EXTENDS LSHDeduplication, FiniteSets

CONSTANTS
    Clients,
    Garbage,         \* what the memory of an unset signature may hold
    MaxStarts,       \* bound: starts of the server
    MaxBatches,      \* bound: starts of a batch that empties the collection
    None

ASSUME ServiceAssumption ==
    /\ IsFiniteSet(Ids)
    /\ Garbage \subseteq Signatures
    /\ MaxStarts \in Nat /\ MaxBatches \in Nat
    /\ None \notin Ids \cup Signatures \cup Clients \cup {"OK", "DUP"}
    /\ None \notin Clients \X Ids \X {"OK", "DUP"}

VARIABLES
    server,          \* "down", "receiving" or "replying"
    serving,         \* the request in hand: <<client, id, reply>>, or None
    starts,          \* how often the server started
    stored,          \* collection "articles": <<id, signature>> pairs
    batches,         \* how often a batch emptied it
    clientPc,        \* clientPc[c]: "idle", "saved" or "waiting"
    current,         \* current[c]: id of the article c works on
    signatureOf,     \* signatureOf[id]: what compute_signature gives for it
    outbox,          \* requests <<client, id>> in the sockets of the clients
    inbox,           \* requests in the socket of the server
    replies,         \* replies <<client, text>> on their way
    verdict,         \* verdict[id]: the text is_duplicate received
    known,           \* history: what was indexed since the last start
    answer,          \* history: answer[id], the reply the server computed
    answeredIn,      \* history: answeredIn[id], the start it was computed in
    lost             \* history: clients whose request or reply a crash lost

network == <<outbox, inbox, replies>>
client  == <<clientPc, current, signatureOf, verdict>>
history == <<known, answer, answeredIn>>
vars    == <<buckets, server, serving, starts, stored, batches, client, network,
             history, lost>>

-----------------------------------------------------------------------------
Init ==
    /\ buckets = {}
    /\ server = "down"
    /\ serving = None
    /\ starts = 0
    /\ stored = {}
    /\ batches = 0
    /\ clientPc = [c \in Clients |-> "idle"]
    /\ current = [c \in Clients |-> None]
    /\ signatureOf = [id \in Ids |-> None]
    /\ outbox = {} /\ inbox = {} /\ replies = {}
    /\ verdict = [id \in Ids |-> None]
    /\ known = {}
    /\ answer = [id \in Ids |-> None]
    /\ answeredIn = [id \in Ids |-> 0]
    /\ lost = {}

\* save_article, then compute_signature: the document that is stored has the
\* signature array of a ProcessedArticle nobody has written yet.
Save(c) ==
    /\ clientPc[c] = "idle"
    /\ \E id \in Ids, signature \in Signatures, garbage \in Garbage :
        /\ signatureOf[id] = None
        /\ current' = [current EXCEPT ![c] = id]
        /\ stored' = stored \cup {<<id, garbage>>}
        /\ signatureOf' = [signatureOf EXCEPT ![id] = signature]
    /\ clientPc' = [clientPc EXCEPT ![c] = "saved"]
    /\ UNCHANGED <<buckets, server, serving, starts, batches, verdict, network,
                   history, lost>>

\* The s_send of is_duplicate.
Send(c) ==
    /\ clientPc[c] = "saved"
    /\ clientPc' = [clientPc EXCEPT ![c] = "waiting"]
    /\ outbox' = outbox \cup {<<c, current[c]>>}
    /\ UNCHANGED <<buckets, server, serving, starts, stored, batches, current,
                   signatureOf, verdict, inbox, replies, history, lost>>

\* The s_recv of is_duplicate, and the end of the article's handler.
Receive(c) ==
    /\ clientPc[c] = "waiting"
    /\ \E text \in {"OK", "DUP"} :
        /\ <<c, text>> \in replies
        /\ replies' = replies \ {<<c, text>>}
        /\ verdict' = [verdict EXCEPT ![current[c]] = text]
    /\ clientPc' = [clientPc EXCEPT ![c] = "idle"]
    /\ current' = [current EXCEPT ![c] = None]
    /\ UNCHANGED <<buckets, server, serving, starts, stored, batches,
                   signatureOf, outbox, inbox, history, lost>>

\* A batch starts: main of startup.cpp drops the collection.
BeginBatch(c) ==
    /\ clientPc[c] = "idle"
    /\ batches < MaxBatches
    /\ batches' = batches + 1
    /\ stored' = {}
    /\ UNCHANGED <<buckets, server, serving, starts, client, network, history, lost>>

-----------------------------------------------------------------------------
\* The constructor of ArticleDedup loads the stored signatures.
Start ==
    /\ server = "down" /\ starts < MaxStarts
    /\ server' = "receiving"
    /\ starts' = starts + 1
    /\ buckets' = ComputeLshGroups(stored)
    /\ known' = stored
    /\ UNCHANGED <<serving, stored, batches, client, network, answer, answeredIn,
                   lost>>

Deliver(c) ==
    /\ server # "down"
    /\ \E id \in Ids :
        /\ <<c, id>> \in outbox
        /\ outbox' = outbox \ {<<c, id>>}
        /\ inbox' = inbox \cup {<<c, id>>}
    /\ UNCHANGED <<buckets, server, serving, starts, stored, batches, client,
                   replies, history, lost>>

\* The server receives a request, looks the signature up and inserts it.
Serve(c) ==
    /\ server = "receiving"
    /\ \E id \in Ids :
        LET signature == signatureOf[id]
            text == IF Cardinality(Duplicates(id, signature)) > 1 THEN "DUP" ELSE "OK"
        IN  /\ <<c, id>> \in inbox
            /\ inbox' = inbox \ {<<c, id>>}
            /\ serving' = <<c, id, text>>
            /\ Insert(id, signature)
            /\ known' = known \cup {<<id, signature>>}
            /\ answer' = [answer EXCEPT ![id] = text]
            /\ answeredIn' = [answeredIn EXCEPT ![id] = starts]
    /\ server' = "replying"
    /\ UNCHANGED <<starts, stored, batches, client, outbox, replies, lost>>

\* Mutant: the server replies to whichever client waits.
ReplyToAnyone ==
    /\ server = "replying"
    /\ server' = "receiving"
    /\ \E c \in Clients : /\ clientPc[c] = "waiting"
                          /\ replies' = replies \cup {<<c, serving[3]>>}
    /\ serving' = None
    /\ UNCHANGED <<buckets, starts, stored, batches, client, outbox, inbox,
                   history, lost>>

\* Mutant: only duplicates are replied to.
ReplyToDuplicates ==
    /\ server = "replying"
    /\ server' = "receiving"
    /\ replies' = IF serving[3] = "DUP" THEN replies \cup {<<serving[1], "DUP">>}
                  ELSE replies
    /\ serving' = None
    /\ UNCHANGED <<buckets, starts, stored, batches, client, outbox, inbox,
                   history, lost>>

\* The reply goes to the identity the request came from.
Reply ==
    /\ server = "replying"
    /\ server' = "receiving"
    /\ replies' = replies \cup {<<serving[1], serving[3]>>}
    /\ serving' = None
    /\ UNCHANGED <<buckets, starts, stored, batches, client, outbox, inbox,
                   history, lost>>

\* Mutant: the request in hand outlives the process.
CrashKeepsRequest ==
    /\ server # "down" /\ starts < MaxStarts
    /\ server' = "down"
    /\ buckets' = {}
    /\ inbox' = {}
    /\ replies' \in SUBSET replies
    /\ UNCHANGED <<serving, starts, stored, batches, client, outbox, history, lost>>

\* The process ends: by an exception, which main catches outside its loop, or
\* killed.  Replies its socket has not sent yet are lost with it.
Crash ==
    /\ server # "down" /\ starts < MaxStarts
    /\ server' = "down"
    /\ buckets' = {}
    /\ inbox' = {}
    /\ serving' = None
    /\ replies' \in SUBSET replies
    /\ lost' = lost \cup {c \in Clients :
                   \/ \E id \in Ids : <<c, id>> \in inbox
                   \/ serving # None /\ serving[1] = c
                   \/ \E text \in {"OK", "DUP"} : <<c, text>> \in replies \ replies'}
    /\ UNCHANGED <<starts, stored, batches, client, outbox, history>>

Next ==
    \/ \E c \in Clients : Save(c) \/ Send(c) \/ Receive(c) \/ BeginBatch(c)
    \/ \E c \in Clients : Deliver(c) \/ Serve(c)
    \/ Start \/ Reply \/ Crash

\* The server is started, again after a crash; ROUTER serves its peers in turn; a client inside
\* is_duplicate and the transport go on.  No client is bound to go on saving.
Fairness ==
    /\ WF_vars(Start) /\ WF_vars(Reply)
    /\ \A c \in Clients : /\ WF_vars(Send(c)) /\ WF_vars(Receive(c))
                          /\ WF_vars(Deliver(c)) /\ SF_vars(Serve(c))

Spec == Init /\ [][Next]_vars
FairSpec == Spec /\ Fairness

-----------------------------------------------------------------------------
Text == {"OK", "DUP"}

TypeOK ==
    /\ buckets \subseteq Bands \X {Key(s, b) : s \in Signatures, b \in Bands} \X Ids
    /\ server \in {"down", "receiving", "replying"}
    /\ serving \in (Clients \X Ids \X Text) \cup {None}
    /\ serving # None <=> server = "replying"
    /\ starts \in 0 .. MaxStarts
    /\ stored \subseteq Ids \X Signatures
    /\ batches \in 0 .. MaxBatches
    /\ clientPc \in [Clients -> {"idle", "saved", "waiting"}]
    /\ current \in [Clients -> Ids \cup {None}]
    /\ signatureOf \in [Ids -> Signatures \cup {None}]
    /\ outbox \subseteq Clients \X Ids
    /\ inbox \subseteq Clients \X Ids
    /\ replies \subseteq Clients \X Text
    /\ verdict \in [Ids -> Text \cup {None}]
    /\ known \subseteq Ids \X Signatures
    /\ answer \in [Ids -> Text \cup {None}]
    /\ answeredIn \in [Ids -> 0 .. MaxStarts]
    /\ lost \subseteq Clients

(***************************************************************************)
(* Between two starts of the server, no two articles that share a band are *)
(* both let through.                                                       *)
(***************************************************************************)
AcceptedAreDissimilar ==
    \A i, j \in Ids :
        /\ i # j
        /\ answer[i] = "OK" /\ answer[j] = "OK"
        /\ answeredIn[i] = answeredIn[j]
        => ~Similar(signatureOf[i], signatureOf[j])

(***************************************************************************)
(* is_duplicate returns the answer to its own request, never that of       *)
(* another client or of an earlier article, through crashes and restarts.  *)
(***************************************************************************)
VerdictIsAnswer ==
    \A id \in Ids : verdict[id] # None => verdict[id] = answer[id]

(***************************************************************************)
(* There is neither a timeout nor a retry, so a request must not vanish: a *)
(* client that waits has its request or its reply in exactly one place,    *)
(* unless a crash of the server lost it.                                   *)
(***************************************************************************)
Places(c) ==
    {"outbox" : m \in {m \in outbox : m[1] = c}}
    \cup {"inbox" : m \in {m \in inbox : m[1] = c}}
    \cup {"server" : m \in {m \in {serving} \ {None} : m[1] = c}}
    \cup {"reply" : m \in {m \in replies : m[1] = c}}

WaitingIsServedOrLost ==
    \A c \in Clients :
        IF clientPc[c] = "waiting" /\ c \notin lost THEN Cardinality(Places(c)) = 1
        ELSE Places(c) = {}

(***************************************************************************)
(* The LSH index, the messages and the restarts implement DedupOracle.     *)
(***************************************************************************)
Oracle == INSTANCE DedupOracle

ImplementsDedupOracle == Oracle!Spec

(***************************************************************************)
(* is_duplicate returns, unless a crash of the server lost its request or  *)
(* its reply.                                                              *)
(***************************************************************************)
IsDuplicateReturns ==
    \A c \in Clients : clientPc[c] # "idle" ~> clientPc[c] = "idle" \/ c \in lost

(***************************************************************************)
(* test_lsh_deduplication.cpp:70, "duplicated signatures should hash to    *)
(* existing signatures": of two articles with one signature, the second is *)
(* a duplicate.                                                            *)
(***************************************************************************)
IdenticalAreDuplicates ==
    \A i, j \in Ids :
        i # j /\ answer[i] = "OK" /\ answer[j] = "OK"
            => signatureOf[i] # signatureOf[j]
=============================================================================
