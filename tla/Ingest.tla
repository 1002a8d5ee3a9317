-------------------------------- MODULE Ingest --------------------------------
(***************************************************************************)
(* The way of a url into the program: a sender's PUSH socket, the proxy of *)
(* engine/src/zmq_broker.cpp, the PULL socket and the loop of              *)
(* engine/src/clustering/main.cpp, and Pipeline::enqueue_article, which    *)
(* starts a scraper.  ZeroMQ keeps each pipe in order, holds at most       *)
(* HighWater messages in it, and loses what a dead process held.           *)
(*                                                                         *)
(* enqueue_article is where the way ends: the read that would hand the     *)
(* scraper's output to process_article is commented out.  ArticleHandler   *)
(* has what process_article would do.                                      *)
(***************************************************************************)
EXTENDS Integers, Sequences, FiniteSets

CONSTANTS
    Urls,
    Pipelines,       \* the processes of main.cpp
    ThreadsNo,       \* the 3 of main.cpp
    HighWater,       \* high-water mark of a pipe
    MaxStarts,       \* bound: starts of the broker
    None

ASSUME IngestAssumption ==
    /\ IsFiniteSet(Urls)
    /\ ThreadsNo \in Nat
    /\ HighWater \in Nat \ {0}
    /\ MaxStarts \in Nat
    /\ None \notin Urls

VARIABLES
    outbox,          \* the urls in the sender's socket
    broker,          \* "down" or "up"
    starts,          \* how often the broker started
    frontend,        \* frontend: urls in the broker
    backend,         \* backend[p]: urls on the way to p
    pipeline,        \* pipeline[p]: "down", "receiving", "enqueueing" or "quit"
    url,             \* url[p]: the url p is at
    scraper,         \* scraper[p]: "none", "running" or "ended"
    workers,         \* workers[p]: threads inside asio_service_.run()
    sent,            \* history: urls given to the sender's socket
    taken,           \* history: taken[p], the urls p received, in order
    scraped,         \* history: urls whose scraper came to its end
    lost             \* history: urls a dead process held

pipes   == <<outbox, frontend, backend>>
history == <<sent, taken, scraped, lost>>
vars    == <<pipes, broker, starts, pipeline, url, scraper, workers, history>>

Members(queue) == {queue[i] : i \in DOMAIN queue}

-----------------------------------------------------------------------------
Init ==
    /\ outbox = <<>> /\ frontend = <<>>
    /\ backend = [p \in Pipelines |-> <<>>]
    /\ broker = "down" /\ starts = 0
    /\ pipeline = [p \in Pipelines |-> "down"]
    /\ url = [p \in Pipelines |-> None]
    /\ scraper = [p \in Pipelines |-> "none"]
    /\ workers = [p \in Pipelines |-> 0]
    /\ sent = {} /\ scraped = {} /\ lost = {}
    /\ taken = [p \in Pipelines |-> <<>>]

\* Each url is sent once here; the program does not tell two copies apart.
Send(u) ==
    /\ u \notin sent
    /\ outbox' = Append(outbox, u)
    /\ sent' = sent \cup {u}
    /\ UNCHANGED <<broker, starts, frontend, backend, pipeline, url, scraper, workers,
                   taken, scraped, lost>>

StartBroker ==
    /\ broker = "down" /\ starts < MaxStarts
    /\ broker' = "up"
    /\ starts' = starts + 1
    /\ UNCHANGED <<pipes, pipeline, url, scraper, workers, history>>

\* What the broker had not passed on dies with it: its own queue, and the end
\* of each pipe to a pipeline.
CrashBroker ==
    /\ broker = "up" /\ starts < MaxStarts
    /\ broker' = "down"
    /\ frontend' = <<>>
    /\ \E left \in [Pipelines -> 0 .. HighWater] :
        /\ \A p \in Pipelines : left[p] <= Len(backend[p])
        /\ backend' = [p \in Pipelines |-> SubSeq(backend[p], 1, left[p])]
    /\ lost' = lost \cup Members(frontend) \cup
           UNION {Members(backend[p]) \ Members(backend'[p]) : p \in Pipelines}
    /\ UNCHANGED <<outbox, starts, pipeline, url, scraper, workers, sent, taken, scraped>>

\* Mutant: the frontend takes whatever comes.
DeliverUnbounded ==
    /\ broker = "up" /\ outbox # <<>>
    /\ frontend' = Append(frontend, Head(outbox))
    /\ outbox' = Tail(outbox)
    /\ UNCHANGED <<backend, broker, starts, pipeline, url, scraper, workers, history>>

\* Transport: the sender's pipe to the frontend.
Deliver ==
    /\ broker = "up" /\ outbox # <<>> /\ Len(frontend) < HighWater
    /\ frontend' = Append(frontend, Head(outbox))
    /\ outbox' = Tail(outbox)
    /\ UNCHANGED <<backend, broker, starts, pipeline, url, scraper, workers, history>>

\* Mutant: every pipeline gets the url, as from a PUB socket.
ForwardToAll(p) ==
    /\ broker = "up" /\ frontend # <<>>
    /\ pipeline[p] \in {"receiving", "enqueueing"}
    /\ \A q \in Pipelines : Len(backend[q]) < HighWater
    /\ backend' = [q \in Pipelines |-> Append(backend[q], Head(frontend))]
    /\ frontend' = Tail(frontend)
    /\ UNCHANGED <<outbox, broker, starts, pipeline, url, scraper, workers, history>>

\* The proxy: PUSH gives each url to one connected pipeline that has room.
Forward(p) ==
    /\ broker = "up" /\ frontend # <<>>
    /\ pipeline[p] \in {"receiving", "enqueueing"}
    /\ Len(backend[p]) < HighWater
    /\ backend' = [backend EXCEPT ![p] = Append(@, Head(frontend))]
    /\ frontend' = Tail(frontend)
    /\ UNCHANGED <<outbox, broker, starts, pipeline, url, scraper, workers, history>>

-----------------------------------------------------------------------------
\* main builds a Pipeline, starts its threads and connects.
StartPipeline(p) ==
    /\ pipeline[p] = "down"
    /\ pipeline' = [pipeline EXCEPT ![p] = "receiving"]
    /\ workers' = [workers EXCEPT ![p] = ThreadsNo]
    /\ UNCHANGED <<pipes, broker, starts, url, scraper, history>>

\* run() returns when there is no work, and nothing ever posts any.
WorkerReturns(p) ==
    /\ workers[p] > 0
    /\ workers' = [workers EXCEPT ![p] = @ - 1]
    /\ UNCHANGED <<pipes, broker, starts, pipeline, url, scraper, history>>

Receive(p) ==
    /\ pipeline[p] = "receiving" /\ backend[p] # <<>>
    /\ url' = [url EXCEPT ![p] = Head(backend[p])]
    /\ backend' = [backend EXCEPT ![p] = Tail(@)]
    /\ taken' = [taken EXCEPT ![p] = Append(@, Head(backend[p]))]
    /\ pipeline' = [pipeline EXCEPT ![p] = "enqueueing"]
    /\ UNCHANGED <<outbox, frontend, broker, starts, scraper, workers, sent, scraped, lost>>

Spawn(p) ==
    /\ pipeline[p] = "enqueueing" /\ scraper[p] = "none"
    /\ scraper' = [scraper EXCEPT ![p] = "running"]
    /\ UNCHANGED <<pipes, broker, starts, pipeline, url, workers, history>>

\* The child cannot be started: the exception ends main's loop.
SpawnFails(p) ==
    /\ pipeline[p] = "enqueueing" /\ scraper[p] = "none"
    /\ pipeline' = [pipeline EXCEPT ![p] = "quit"]
    /\ lost' = lost \cup Members(backend[p]) \cup {url[p]}
    /\ backend' = [backend EXCEPT ![p] = <<>>]
    /\ url' = [url EXCEPT ![p] = None]
    /\ UNCHANGED <<outbox, frontend, broker, starts, scraper, workers, sent, taken, scraped>>

\* process_urls.py comes to its end.
ScraperEnds(p) ==
    /\ scraper[p] = "running"
    /\ scraper' = [scraper EXCEPT ![p] = "ended"]
    /\ scraped' = scraped \cup {url[p]}
    /\ UNCHANGED <<pipes, broker, starts, pipeline, url, workers, sent, taken, lost>>

\* Mutant: enqueue_article leaves the url in hand, and with it main's loop.
ReturnToNothing(p) ==
    /\ pipeline[p] = "enqueueing" /\ scraper[p] # "none"
    /\ scraper' = [scraper EXCEPT ![p] = "none"]
    /\ UNCHANGED <<pipes, broker, starts, pipeline, url, workers, history>>

\* enqueue_article returns: the destructor of bp::child terminates a scraper
\* that still runs.
Return(p) ==
    /\ pipeline[p] = "enqueueing" /\ scraper[p] # "none"
    /\ scraper' = [scraper EXCEPT ![p] = "none"]
    /\ url' = [url EXCEPT ![p] = None]
    /\ pipeline' = [pipeline EXCEPT ![p] = "receiving"]
    /\ UNCHANGED <<pipes, broker, starts, workers, history>>

Next ==
    \/ \E u \in Urls : Send(u)
    \/ StartBroker \/ CrashBroker \/ Deliver
    \/ \E p \in Pipelines :
        \/ Forward(p) \/ StartPipeline(p) \/ WorkerReturns(p) \/ Receive(p)
        \/ Spawn(p) \/ SpawnFails(p) \/ ScraperEnds(p) \/ Return(p)

\* The broker is started again, the proxy and the loop of main go on.  The
\* proxy offers PUSH whatever it has whenever some pipeline has room.  A scraper
\* that is left alone comes to its end.
Fairness ==
    /\ WF_vars(StartBroker) /\ WF_vars(Deliver)
    /\ WF_vars(\E p \in Pipelines : Forward(p))
    /\ \A p \in Pipelines :
        /\ WF_vars(Receive(p)) /\ WF_vars(Return(p)) /\ WF_vars(ScraperEnds(p))
        /\ WF_vars(Spawn(p) \/ SpawnFails(p))

Spec == Init /\ [][Next]_vars
FairSpec == Spec /\ Fairness
-----------------------------------------------------------------------------
TypeOK ==
    /\ broker \in {"down", "up"}
    /\ starts \in 0 .. MaxStarts
    /\ pipeline \in [Pipelines -> {"down", "receiving", "enqueueing", "quit"}]
    /\ url \in [Pipelines -> Urls \cup {None}]
    /\ \A p \in Pipelines : url[p] = None <=> pipeline[p] # "enqueueing"
    /\ scraper \in [Pipelines -> {"none", "running", "ended"}]
    /\ workers \in [Pipelines -> 0 .. ThreadsNo]
    /\ Len(frontend) <= HighWater
    /\ \A p \in Pipelines : Len(backend[p]) <= HighWater

TakenBy(p) == Members(taken[p])

Waiting == Members(outbox) \cup Members(frontend)

(***************************************************************************)
(* The url of an article is scraped by one pipeline: through crashes and   *)
(* full pipes every url sent waits in one place, or was taken by one       *)
(* pipeline once, or died with a process that held it.                     *)
(***************************************************************************)
TakenAtMostOnce ==
    \A u \in sent :
        LET holders == {p \in Pipelines : u \in Members(backend[p]) \cup TakenBy(p)}
            copies == Cardinality({i \in DOMAIN outbox : outbox[i] = u})
                      + Cardinality({i \in DOMAIN frontend : frontend[i] = u})
                      + Cardinality(holders)
        IN  /\ copies <= 1
            /\ copies = 0 => u \in lost
            /\ \A p \in Pipelines : Cardinality({i \in DOMAIN taken[p] : taken[p][i] = u}) <= 1

(***************************************************************************)
(* A url in the sender's socket is taken in the end, unless it died with   *)
(* its holder or no pipeline is there to take it.                          *)
(***************************************************************************)
SentIsTaken ==
    \A u \in Urls : u \in sent ~>
        \/ \E p \in Pipelines : u \in TakenBy(p)
        \/ u \in lost
        \/ \A p \in Pipelines : pipeline[p] \in {"down", "quit"}

(***************************************************************************)
(* pipeline.h:31 of enqueue_article, "enqueues article url to be           *)
(* processed": at the least, the scraper of a url that was taken comes to  *)
(* its end, unless it could not be started.                                *)
(***************************************************************************)
TakenIsScraped ==
    \A u \in Urls :
        (\E p \in Pipelines : u \in TakenBy(p)) ~> u \in scraped \cup lost
=============================================================================
