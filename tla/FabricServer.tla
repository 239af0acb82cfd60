---------------------------- MODULE FabricServer ----------------------------
(***************************************************************************)
(* FabricServer of src/src/transport.cpp: an accept thread, a bounded queue *)
(* of connections under queue_mutex_, worker threads that wait for it on    *)
(* queue_ready_, a registry of live sockets under sockets_mutex_, and the   *)
(* thread that calls stop().                                                *)
(*                                                                          *)
(* A step is what a thread does between two points at which another may     *)
(* act: a critical section, a blocking call, a test of stopping_.  Clients  *)
(* connect, send a request, wait for its answer, and may go at any time.    *)
(* Frames and requests have no content here.                                *)
(***************************************************************************)
EXTENDS Integers, Sequences, FiniteSets

CONSTANTS
    Conns,            \* connections, each made by a client of its own
    Workers,          \* worker threads
    MaxQueued,        \* max_queued_connections
    MaxRequests,      \* max_requests_per_connection
    MaxSends,         \* bound on the requests of a client
    CloseWakes,       \* whether closing a socket ends an accept blocked on it
    None              \* no connection

ASSUME ServerAssumption ==
    /\ None \notin Conns
    /\ MaxQueued \in Nat \ {0}
    /\ {MaxRequests, MaxSends} \subseteq Nat
    /\ CloseWakes \in BOOLEAN

VARIABLES
    client,    \* "new", "ready" to send, "waiting" for an answer, "gone"; requests sent
    sock,      \* the server's end: "none", "backlog", "open", "shut" down, "closed"
    live,      \* live_sockets_
    queue,     \* queue_
    closed,    \* queue_closed_
    listening, \* listener_ holds a socket
    stopping,  \* stopping_
    acc,       \* the accept thread: where it is, its connection
    worker,    \* the worker threads: where each is, its connection, requests served
    stop,      \* the thread in stop(): where it is, the handles it copied
    deadline   \* whether io_deadline_ms is set: a receive or send then times out

vars == <<client, sock, live, queue, closed, listening, stopping, acc, worker, stop, deadline>>

queueing == <<queue, closed>>

\* start()
Init ==
    /\ client = [c \in Conns |-> [at |-> "new", sent |-> 0]]
    /\ sock = [c \in Conns |-> "none"]
    /\ live = {}
    /\ queue = <<>> /\ closed = FALSE
    /\ listening = TRUE /\ stopping = FALSE
    /\ acc = [at |-> "check", conn |-> None]
    /\ worker = [w \in Workers |-> [at |-> "poll", conn |-> None, served |-> 0]]
    /\ stop = [at |-> "running", handles |-> {}]
    /\ deadline \in BOOLEAN

----------------------------------------------------------------------------
(* Clients *)

clientOnly == <<live, queueing, listening, stopping, acc, worker, stop, deadline>>

\* A connection is made as long as the kernel has the listening socket: until it is closed
\* and no accept is blocked on it.
Connect(c) ==
    /\ client[c].at = "new"
    /\ listening \/ acc.at = "blocked"
    /\ client' = [client EXCEPT ![c].at = "ready"]
    /\ sock' = [sock EXCEPT ![c] = "backlog"]
    /\ UNCHANGED clientOnly

Send(c) ==
    /\ client[c].at = "ready" /\ client[c].sent < MaxSends
    /\ client' = [client EXCEPT ![c] = [at |-> "waiting", sent |-> @.sent + 1]]
    /\ UNCHANGED <<sock, clientOnly>>

HangUp(c) ==
    /\ client[c].at \in {"ready", "waiting"}
    /\ client' = [client EXCEPT ![c] = [at |-> "gone", sent |-> 0]]
    /\ UNCHANGED <<sock, clientOnly>>

\* The server destroys connections; their clients, if any are left, see the end of them.
Destroy(cs) ==
    /\ sock' = [c \in Conns |-> IF c \in cs THEN "closed" ELSE sock[c]]
    /\ client' = [c \in Conns |-> IF c \in cs THEN [at |-> "gone", sent |-> 0] ELSE client[c]]

----------------------------------------------------------------------------
(* The accept thread *)

acceptOnly == <<closed, listening, stopping, stop, deadline>>

AcceptLoop ==
    /\ acc.at = "check"
    /\ acc' = [acc EXCEPT !.at = IF stopping THEN "returned" ELSE "accept"]
    /\ UNCHANGED <<client, sock, live, queue, worker, acceptOnly>>

\* accept_one: without a handle it fails at once, and stopping_ has been set by then.
AcceptCall ==
    /\ acc.at = "accept"
    /\ acc' = [acc EXCEPT !.at = IF listening THEN "blocked" ELSE "returned"]
    /\ UNCHANGED <<client, sock, live, queue, worker, acceptOnly>>

Accept(c) ==
    /\ acc.at = "blocked" /\ sock[c] = "backlog"
    /\ sock' = [sock EXCEPT ![c] = "open"]
    /\ acc' = [at |-> "accepted", conn |-> c]
    /\ UNCHANGED <<client, live, queue, worker, acceptOnly>>

\* accept returns an error, for whatever reason while the socket is there: tried again unless
\* the server is stopping.
AcceptFails ==
    /\ acc.at = "blocked"
    /\ listening \/ CloseWakes
    /\ acc' = [acc EXCEPT !.at = IF stopping THEN "returned" ELSE "check"]
    /\ UNCHANGED <<client, sock, live, queue, worker, acceptOnly>>

\* Mutant: the connection is queued without having been registered.
Register_Skipped ==
    /\ acc.at = "accepted"
    /\ IF stopping
       THEN /\ acc' = [at |-> "returned", conn |-> None]
            /\ Destroy({acc.conn})
       ELSE /\ acc' = [acc EXCEPT !.at = "enqueue"]
            /\ UNCHANGED <<client, sock>>
    /\ UNCHANGED <<live, queue, worker, acceptOnly>>

\* The connection accepted while the server stops is destroyed; another one is registered.
Register ==
    /\ acc.at = "accepted"
    /\ IF stopping
       THEN /\ acc' = [at |-> "returned", conn |-> None]
            /\ Destroy({acc.conn})
            /\ live' = live
       ELSE /\ acc' = [acc EXCEPT !.at = "enqueue"]
            /\ live' = live \cup {acc.conn}
            /\ UNCHANGED <<client, sock>>
    /\ UNCHANGED <<queue, worker, acceptOnly>>

\* Mutant: the limit admits one connection more.
HasRoom_OneMore == ~closed /\ Len(queue) <= MaxQueued

HasRoom == ~closed /\ Len(queue) < MaxQueued

Enqueue ==
    /\ acc.at = "enqueue"
    /\ IF HasRoom
       THEN /\ queue' = Append(queue, acc.conn)
            /\ acc' = [at |-> "notify", conn |-> None]
       ELSE /\ acc' = [acc EXCEPT !.at = "unregister"]
            /\ queue' = queue
    /\ UNCHANGED <<client, sock, live, worker, acceptOnly>>

Asleep == {w \in Workers : worker[w].at = "asleep"}

\* Mutant: the notification is forgotten.
NotifyOne_Forgotten ==
    /\ acc.at = "notify"
    /\ acc' = [acc EXCEPT !.at = "check"]
    /\ UNCHANGED <<client, sock, live, queue, worker, acceptOnly>>

\* queue_ready_.notify_one()
NotifyOne ==
    /\ acc.at = "notify"
    /\ acc' = [acc EXCEPT !.at = "check"]
    /\ IF Asleep = {}
       THEN worker' = worker
       ELSE \E w \in Asleep : worker' = [worker EXCEPT ![w].at = "poll"]
    /\ UNCHANGED <<client, sock, live, queue, acceptOnly>>

\* No room: the connection is unregistered, then destroyed.
Unregister ==
    /\ acc.at = "unregister"
    /\ live' = live \ {acc.conn}
    /\ acc' = [acc EXCEPT !.at = "drop"]
    /\ UNCHANGED <<client, sock, queue, worker, acceptOnly>>

Drop ==
    /\ acc.at = "drop"
    /\ Destroy({acc.conn})
    /\ acc' = [at |-> "check", conn |-> None]
    /\ UNCHANGED <<live, queue, worker, acceptOnly>>

AcceptStep ==
    \/ AcceptLoop \/ AcceptCall \/ AcceptFails \/ \E c \in Conns : Accept(c)
    \/ Register \/ Enqueue \/ NotifyOne \/ Unregister \/ Drop

----------------------------------------------------------------------------
(* Worker threads *)

workerOnly == <<closed, listening, stopping, acc, stop, deadline>>

Move(w, at) == worker' = [worker EXCEPT ![w].at = at]

\* worker_loop, with queue_mutex_: take a connection, return, or wait.
Poll(w) ==
    /\ worker[w].at = "poll"
    /\ IF queue # <<>>
       THEN /\ queue' = Tail(queue)
            /\ worker' = [worker EXCEPT ![w] = [at |-> "serve", conn |-> Head(queue), served |-> 0]]
       ELSE /\ Move(w, IF closed THEN "returned" ELSE "asleep")
            /\ queue' = queue
    /\ UNCHANGED <<client, sock, live, workerOnly>>

\* A condition variable may wake for no reason.
WakeUp(w) ==
    /\ worker[w].at = "asleep"
    /\ Move(w, "poll")
    /\ UNCHANGED <<client, sock, live, queue, workerOnly>>

\* The loop of serve
ServeLoop(w) ==
    /\ worker[w].at = "serve"
    /\ Move(w, IF stopping THEN "unregister" ELSE "receive")
    /\ UNCHANGED <<client, sock, live, queue, workerOnly>>

\* receive_frame: a request, which counts against the limit of the connection ...
Receive(w) ==
    LET c == worker[w].conn
    IN  /\ worker[w].at = "receive"
        /\ sock[c] = "open" /\ client[c].at = "waiting"
        /\ IF worker[w].served >= MaxRequests
           THEN Move(w, "unregister")
           ELSE worker' = [worker EXCEPT ![w] = [at |-> "handle", conn |-> c, served |-> @.served + 1]]
        /\ UNCHANGED <<client, sock, live, queue, workerOnly>>

\* ... or the peer has gone, the socket was shut down, or the deadline elapses.
ReceiveFails(w) ==
    LET c == worker[w].conn
    IN  /\ worker[w].at = "receive"
        /\ sock[c] = "shut" \/ client[c].at = "gone" \/ deadline
        /\ Move(w, "unregister")
        /\ UNCHANGED <<client, sock, live, queue, workerOnly>>

\* The handler runs, without a lock; its response is sent or suppressed.
Handle(w) ==
    /\ worker[w].at = "handle"
    /\ Move(w, "send") \/ Move(w, "unregister")
    /\ UNCHANGED <<client, sock, live, queue, workerOnly>>

\* send_frame
Answer(w) ==
    LET c == worker[w].conn
    IN  /\ worker[w].at = "send"
        /\ \/ /\ sock[c] = "open" /\ client[c].at = "waiting"
              /\ client' = [client EXCEPT ![c].at = "ready"]
              /\ Move(w, "serve")
           \/ /\ sock[c] = "shut" \/ client[c].at = "gone" \/ deadline
              /\ client' = client
              /\ Move(w, "unregister")
        /\ UNCHANGED <<sock, live, queue, workerOnly>>

\* The end of serve: unregister, then close.
Leave(w) ==
    /\ worker[w].at = "unregister"
    /\ live' = live \ {worker[w].conn}
    /\ Move(w, "close")
    /\ UNCHANGED <<client, sock, queue, workerOnly>>

Close(w) ==
    /\ worker[w].at = "close"
    /\ Destroy({worker[w].conn})
    /\ worker' = [worker EXCEPT ![w] = [at |-> "poll", conn |-> None, served |-> 0]]
    /\ UNCHANGED <<live, queue, workerOnly>>

WorkerStep(w) ==
    \/ Poll(w) \/ ServeLoop(w) \/ Receive(w) \/ ReceiveFails(w)
    \/ Handle(w) \/ Answer(w) \/ Leave(w) \/ Close(w)

----------------------------------------------------------------------------
(* stop() *)

stopOnly == <<client, acc, deadline>>

\* stopping_ is set.  Another caller of stop() returns here, whatever state the server is in.
Stop ==
    /\ stop.at = "running"
    /\ stopping' = TRUE
    /\ stop' = [stop EXCEPT !.at = "close"]
    /\ UNCHANGED <<sock, live, queueing, listening, worker, stopOnly>>

CloseListener ==
    /\ stop.at = "close"
    /\ listening' = FALSE
    /\ stop' = [stop EXCEPT !.at = "join acceptor"]
    /\ UNCHANGED <<sock, live, queueing, stopping, worker, stopOnly>>

JoinAcceptor ==
    /\ stop.at = "join acceptor"
    /\ acc.at = "returned"
    /\ stop' = [stop EXCEPT !.at = "clear"]
    /\ UNCHANGED <<sock, live, queueing, listening, stopping, worker, stopOnly>>

Queued == {queue[i] : i \in DOMAIN queue}

\* The connections in the queue are destroyed; they stay registered.
ClearQueue ==
    /\ stop.at = "clear"
    /\ closed' = TRUE
    /\ queue' = <<>>
    /\ Destroy(Queued)
    /\ stop' = [stop EXCEPT !.at = "notify"]
    /\ UNCHANGED <<live, listening, stopping, worker, acc, deadline>>

\* Mutant: one waiting worker is woken instead of all.
NotifyAll_One ==
    /\ stop.at = "notify"
    /\ IF Asleep = {}
       THEN worker' = worker
       ELSE \E w \in Asleep : worker' = [worker EXCEPT ![w].at = "poll"]
    /\ stop' = [stop EXCEPT !.at = "copy"]
    /\ UNCHANGED <<sock, live, queueing, listening, stopping, stopOnly>>

\* queue_ready_.notify_all()
NotifyAll ==
    /\ stop.at = "notify"
    /\ worker' = [w \in Workers |->
                    IF w \in Asleep THEN [worker[w] EXCEPT !.at = "poll"] ELSE worker[w]]
    /\ stop' = [stop EXCEPT !.at = "copy"]
    /\ UNCHANGED <<sock, live, queueing, listening, stopping, stopOnly>>

\* Mutant: only the connections waiting for a request are noted.
CopyHandles_Waiting ==
    /\ stop.at = "copy"
    /\ stop' = [at |-> "shutdown",
                 handles |-> {worker[w].conn : w \in {v \in Workers : worker[v].at = "receive"}}]
    /\ UNCHANGED <<sock, live, queueing, listening, stopping, worker, stopOnly>>

\* shutdown_all_sockets: the handles are copied under sockets_mutex_ ...
CopyHandles ==
    /\ stop.at = "copy"
    /\ stop' = [at |-> "shutdown", handles |-> live]
    /\ UNCHANGED <<sock, live, queueing, listening, stopping, worker, stopOnly>>

\* ... and shut down without it, when some may have been closed.
ShutdownHandles ==
    /\ stop.at = "shutdown"
    /\ sock' = [c \in Conns |-> IF c \in stop.handles /\ sock[c] = "open" THEN "shut" ELSE sock[c]]
    /\ stop' = [at |-> "join workers", handles |-> {}]
    /\ UNCHANGED <<live, queueing, listening, stopping, worker, stopOnly>>

JoinWorkers ==
    /\ stop.at = "join workers"
    /\ \A w \in Workers : worker[w].at = "returned"
    /\ live' = {}
    /\ stop' = [stop EXCEPT !.at = "stopped"]
    /\ UNCHANGED <<sock, queueing, listening, stopping, worker, stopOnly>>

StopStep ==
    \/ CloseListener \/ JoinAcceptor \/ ClearQueue \/ NotifyAll
    \/ CopyHandles \/ ShutdownHandles \/ JoinWorkers

----------------------------------------------------------------------------

ClientStep == \E c \in Conns : Connect(c) \/ Send(c) \/ HangUp(c)

Next ==
    \/ ClientStep
    \/ AcceptStep
    \/ \E w \in Workers : WorkerStep(w) \/ WakeUp(w)
    \/ Stop \/ StopStep

\* Every thread of the server that can go on does; clients, and the call of stop(), are free.
Fairness ==
    /\ WF_vars(AcceptStep)
    /\ \A w \in Workers : WF_vars(WorkerStep(w))
    /\ WF_vars(StopStep)

Spec == Init /\ [][Next]_vars /\ Fairness

----------------------------------------------------------------------------
(* Properties *)

ClientState == [at: {"new", "ready", "waiting", "gone"}, sent: 0..MaxSends]

SocketState == {"none", "backlog", "open", "shut", "closed"}

AcceptState ==
    [at: {"check", "accept", "blocked", "accepted", "enqueue", "notify", "unregister", "drop",
          "returned"},
     conn: Conns \cup {None}]

WorkerState ==
    [at: {"poll", "asleep", "serve", "receive", "handle", "send", "unregister", "close", "returned"},
     conn: Conns \cup {None}, served: 0..MaxRequests]

StopState ==
    [at: {"running", "close", "join acceptor", "clear", "notify", "copy", "shutdown",
          "join workers", "stopped"},
     handles: SUBSET Conns]

\* Every thread is at one of its places, and the queue never holds more than max_queued_connections.
TypeOK ==
    /\ client \in [Conns -> ClientState] /\ sock \in [Conns -> SocketState]
    /\ live \subseteq Conns
    /\ queue \in Seq(Conns) /\ Len(queue) <= MaxQueued
    /\ {closed, listening, stopping, deadline} \subseteq BOOLEAN
    /\ acc \in AcceptState /\ worker \in [Workers -> WorkerState] /\ stop \in StopState

Holders(c) ==
    Cardinality({w \in Workers : worker[w].conn = c})
        + Cardinality({i \in DOMAIN queue : queue[i] = c})
        + (IF acc.conn = c THEN 1 ELSE 0)

\* A socket that is open belongs to exactly one of the accept thread, a place in the queue and
\* a worker, and a closed one to nobody: none leaks, none is served twice or after its end.
\* What a worker may block on is registered, so that stop() can reach it.
OneOwner ==
    /\ \A c \in Conns : Holders(c) = IF sock[c] \in {"open", "shut"} THEN 1 ELSE 0
    /\ \A w \in Workers :
        worker[w].at \in {"receive", "handle", "send"} => worker[w].conn \in live

\* stop() wakes every reader: once it waits for the workers, no worker will block in a receive
\* on a connection that is still open, although workers take connections and start to receive
\* while stop() runs; and when it is through, no socket is open.
ReadersWoken ==
    /\ stop.at = "join workers" =>
        \A w \in Workers : worker[w].at \in {"receive", "send"} => sock[worker[w].conn] = "shut"
    /\ stop.at = "stopped" => \A c \in Conns : sock[c] \in {"none", "backlog", "closed"}

\* A queued connection is taken by a worker, or destroyed by stop(): no wakeup is lost.  It
\* takes the deadline for that, or a client may keep a worker for ever.
QueueServed ==
    deadline => \A c \in Conns : (c \in Queued) ~> (c \notin Queued)

\* The only thing stop() may wait for without end is a blocked accept that nobody connects to.
StopCompletes ==
    (stop.at # "running") ~> (stop.at = "stopped" \/ [](acc.at = "blocked"))
=============================================================================
