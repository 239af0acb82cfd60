------------------------- MODULE FabricServerProofs -------------------------
(***************************************************************************)
(* Proofs about FabricServer, for any connections, any worker threads, any  *)
(* limits, and whether or not closing a socket wakes an accept.             *)
(*                                                                          *)
(* OneOwner counts holders, which no step can be followed through; the      *)
(* invariant Ownership says the same without counting: no two places hold   *)
(* one connection, and the sockets that are open are those held somewhere.  *)
(* Registered and Stages are what stop() relies on in its several steps.    *)
(***************************************************************************)
EXTENDS FabricServer, SequenceTheorems, FiniteSetTheorems, TLAPS

----------------------------------------------------------------------------
(* The inductive invariants *)

Reading == {"receive", "handle", "send"}

\* The places at which a worker has a connection.
Busy == Reading \cup {"serve", "unregister", "close"}

\* Who has a connection and who has none follows from where they are.
Placed ==
    /\ acc.conn # None <=> acc.at \in {"accepted", "enqueue", "unregister", "drop"}
    /\ \A w \in Workers : worker[w].conn # None <=> worker[w].at \in Busy
    /\ \A c \in Conns : client[c].at = "new" => sock[c] = "none"

\* No two places hold the same connection.
Exclusive ==
    /\ \A v, w \in Workers : worker[v].conn = worker[w].conn /\ worker[v].conn # None => v = w
    /\ \A i, j \in DOMAIN queue : queue[i] = queue[j] => i = j
    /\ \A w \in Workers : worker[w].conn \notin Queued
    /\ acc.conn \notin Queued
    /\ \A w \in Workers : worker[w].conn # None => worker[w].conn # acc.conn

Held(c) == c \in Queued \/ acc.conn = c \/ \E w \in Workers : worker[w].conn = c

Owned == \A c \in Conns : sock[c] \in {"open", "shut"} <=> Held(c)

Ownership == Placed /\ Exclusive /\ Owned

\* What is queued or served is registered.
Registered ==
    /\ Queued \subseteq live
    /\ acc.at = "enqueue" => acc.conn \in live
    /\ \A w \in Workers : worker[w].at \in Reading \cup {"serve"} => worker[w].conn \in live

Cleared == {"notify", "copy", "shutdown", "join workers", "stopped"}

\* What stop() has established when it comes to each of its steps.
Stages ==
    /\ stop.at # "running" => stopping
    /\ stop.at \in Cleared \cup {"clear"} => acc.at = "returned"
    /\ stop.at \in Cleared => queue = <<>>
    /\ stop.at = "shutdown" =>
        \A w \in Workers : worker[w].at \in Reading => worker[w].conn \in stop.handles
    /\ stop.at = "join workers" =>
        \A w \in Workers : worker[w].at \in Reading => sock[worker[w].conn] = "shut"
    /\ stop.at = "stopped" => \A w \in Workers : worker[w].at = "returned"

----------------------------------------------------------------------------
(* Types *)

\* A step that destroys connections.
LEMMA DestroyTypes ==
    ASSUME TypeOK, NEW cs, Destroy(cs)
    PROVE  client' \in [Conns -> ClientState] /\ sock' \in [Conns -> SocketState]
BY ServerAssumption DEF Destroy, TypeOK, ClientState, SocketState

\* A worker that goes on to another place.
LEMMA MoveType ==
    ASSUME TypeOK, NEW w \in Workers, NEW at, Move(w, at),
           at \in {"poll", "asleep", "serve", "receive", "handle", "send", "unregister", "close",
                   "returned"}
    PROVE  worker' \in [Workers -> WorkerState]
BY DEF Move, TypeOK, WorkerState

\* A step of the accept thread keeps the types, the limit of the queue included.
LEMMA AcceptTypes ==
    ASSUME TypeOK, Placed, AcceptStep
    PROVE  TypeOK'
<1> USE ServerAssumption
<1> USE DEF AcceptLoop, AcceptCall, AcceptFails, Register, Enqueue, NotifyOne, Unregister, Drop
<1>1. UNCHANGED acceptOnly
  BY DEF AcceptStep, Accept
<1>2. acc' \in AcceptState
  BY DEF AcceptStep, Accept, TypeOK, AcceptState
<1>3. client' \in [Conns -> ClientState] /\ sock' \in [Conns -> SocketState]
  <2>1. CASE Destroy({acc.conn})
    BY <2>1, DestroyTypes
  <2>2. CASE \E c \in Conns : Accept(c)
    BY <2>2 DEF Accept, TypeOK, SocketState
  <2>3. CASE UNCHANGED <<client, sock>>
    BY <2>3 DEF TypeOK
  <2>4. QED
    BY <2>1, <2>2, <2>3 DEF AcceptStep
<1>4. acc.at \in {"accepted", "enqueue"} => acc.conn \in Conns
  BY DEF Placed, TypeOK, AcceptState
<1>5. live' \subseteq Conns
  BY <1>4 DEF AcceptStep, Accept, TypeOK
<1>6. queue' \in Seq(Conns) /\ Len(queue') <= MaxQueued
  <2>1. CASE queue' = queue
    BY <2>1 DEF TypeOK
  <2>2. CASE acc.at = "enqueue" /\ HasRoom /\ queue' = Append(queue, acc.conn)
    BY <1>4, <2>2, AppendProperties, LenProperties DEF TypeOK, HasRoom
  <2>3. QED
    BY <2>1, <2>2 DEF AcceptStep, Accept
<1>7. worker' \in [Workers -> WorkerState]
  <2>1. CASE worker' = worker
    BY <2>1 DEF TypeOK
  <2>2. ASSUME NEW w \in Asleep, worker' = [worker EXCEPT ![w].at = "poll"]
        PROVE  worker' \in [Workers -> WorkerState]
    <3>1. w \in Workers /\ Move(w, "poll")
      BY <2>2 DEF Asleep, Move
    <3>2. QED
      BY <3>1, MoveType
  <2>3. QED
    BY <2>1, <2>2 DEF AcceptStep, Accept
<1>8. QED
  BY <1>1, <1>2, <1>3, <1>5, <1>6, <1>7 DEF TypeOK, acceptOnly

\* A step of a worker keeps the types.
LEMMA WorkerTypes ==
    ASSUME TypeOK, Placed, NEW w \in Workers, WorkerStep(w) \/ WakeUp(w)
    PROVE  TypeOK'
<1> USE ServerAssumption
<1> USE DEF WakeUp, Poll, ServeLoop, Receive, ReceiveFails, Handle, Answer, Leave, Close
<1>1. UNCHANGED workerOnly
  BY DEF WorkerStep
<1>2. worker' \in [Workers -> WorkerState]
  <2>1. ASSUME NEW r \in WorkerState, worker' = [worker EXCEPT ![w] = r]
        PROVE  worker' \in [Workers -> WorkerState]
    BY <2>1 DEF TypeOK
  <2>3. CASE Poll(w)
    <3>1. CASE queue # <<>>
      <4>1. [at |-> "serve", conn |-> Head(queue), served |-> 0] \in WorkerState
        BY <3>1, HeadTailProperties DEF TypeOK, WorkerState
      <4>2. QED
        BY <2>1, <2>3, <3>1, <4>1
    <3>2. CASE queue = <<>>
      BY <2>3, <3>2, MoveType
    <3>3. QED
      BY <3>1, <3>2
  <2>4. CASE Receive(w)
    <3>1. worker[w] \in WorkerState /\ MaxRequests \in Nat
      BY DEF TypeOK
    <3>2. CASE worker[w].served >= MaxRequests
      BY <2>4, <3>2, MoveType
    <3>3. CASE ~(worker[w].served >= MaxRequests)
      <4> DEFINE r == [at |-> "handle", conn |-> worker[w].conn, served |-> worker[w].served + 1]
      <4>1. worker[w].conn \in Conns \cup {None} /\ worker[w].served + 1 \in 0..MaxRequests
        BY <3>1, <3>3 DEF WorkerState
      <4>2. r \in WorkerState
        BY <4>1 DEF WorkerState
      <4>3. worker' = [worker EXCEPT ![w] = r]
        BY <2>4, <3>3
      <4>4. QED
        BY <2>1, <4>2, <4>3
    <3>4. QED
      BY <3>2, <3>3
  <2>5. CASE Close(w)
    BY <2>5 DEF TypeOK, WorkerState
  <2>6. CASE WakeUp(w) \/ ServeLoop(w) \/ ReceiveFails(w) \/ Handle(w) \/ Answer(w) \/ Leave(w)
    BY <2>6, MoveType
  <2>7. QED
    BY <2>3, <2>4, <2>5, <2>6 DEF WorkerStep
<1>3. client' \in [Conns -> ClientState] /\ sock' \in [Conns -> SocketState]
  <2>1. CASE Close(w)
    BY <2>1, DestroyTypes
  <2>2. CASE Answer(w)
    <3>1. ASSUME NEW c, client' = [client EXCEPT ![c].at = "ready"]
          PROVE  client' \in [Conns -> ClientState]
      <4>1. CASE c \in Conns
        BY <3>1, <4>1 DEF TypeOK, ClientState
      <4>2. CASE c \notin Conns
        BY <3>1, <4>2 DEF TypeOK
      <4>3. QED
        BY <4>1, <4>2
    <3>2. QED
      BY <2>2, <3>1 DEF TypeOK
  <2>3. CASE ~Close(w) /\ ~Answer(w)
    BY <2>3 DEF WorkerStep, TypeOK
  <2>4. QED
    BY <2>1, <2>2, <2>3
<1>4. live' \subseteq Conns
  BY DEF WorkerStep, TypeOK
<1>5. queue' \in Seq(Conns) /\ Len(queue') <= MaxQueued
  <2>1. CASE queue' = queue
    BY <2>1 DEF TypeOK
  <2>2. CASE queue # <<>> /\ queue' = Tail(queue)
    BY <2>2, HeadTailProperties, LenProperties DEF TypeOK
  <2>3. QED
    BY <2>1, <2>2 DEF WorkerStep
<1>6. QED
  BY <1>1, <1>2, <1>3, <1>4, <1>5 DEF TypeOK, workerOnly

\* Every other step keeps the types.
LEMMA TypesKept ==
    ASSUME TypeOK, Placed, [Next]_vars
    PROVE  TypeOK'
<1> USE ServerAssumption
<1>1. CASE ClientStep
  <2>1. PICK c \in Conns : Connect(c) \/ Send(c) \/ HangUp(c)
    BY <1>1 DEF ClientStep
  <2>2. UNCHANGED clientOnly
    BY <2>1 DEF Connect, Send, HangUp
  <2>3. client' \in [Conns -> ClientState] /\ sock' \in [Conns -> SocketState]
    <3>1. MaxSends \in Nat /\ client[c] \in ClientState
      BY DEF TypeOK
    <3>2. CASE Connect(c)
      BY <3>2 DEF Connect, TypeOK, ClientState, SocketState
    <3>3. CASE Send(c)
      <4> DEFINE r == [at |-> "waiting", sent |-> client[c].sent + 1]
      <4>1. r \in ClientState
        BY <3>1, <3>3 DEF Send, ClientState
      <4>2. client' = [client EXCEPT ![c] = r] /\ sock' = sock
        BY <3>3 DEF Send
      <4>3. QED
        BY <4>1, <4>2 DEF TypeOK
    <3>4. CASE HangUp(c)
      BY <3>1, <3>4 DEF HangUp, TypeOK, ClientState
    <3>5. QED
      BY <2>1, <3>2, <3>3, <3>4
  <2>4. QED
    BY <2>2, <2>3 DEF clientOnly, queueing, TypeOK
<1>2. CASE Stop \/ StopStep
  <2> USE DEF Stop, CloseListener, JoinAcceptor, ClearQueue, NotifyAll, CopyHandles, ShutdownHandles,
        JoinWorkers, queueing, stopOnly
  <2>1. UNCHANGED <<acc, deadline>>
    BY <1>2 DEF StopStep
  <2>2. stop' \in StopState
    <3>1. live \in SUBSET Conns /\ stop \in StopState
      BY DEF TypeOK
    <3>2. \/ stop' = [at |-> "shutdown", handles |-> live]
          \/ stop' = [at |-> "join workers", handles |-> {}]
          \/ \E at \in {"close", "join acceptor", "clear", "notify", "copy", "stopped"} :
                stop' = [stop EXCEPT !.at = at]
      BY <1>2 DEF StopStep
    <3>3. ASSUME NEW at \in {"close", "join acceptor", "clear", "notify", "copy", "stopped"}
          PROVE  [stop EXCEPT !.at = at] \in StopState
      BY <3>1 DEF StopState
    <3>4. /\ [at |-> "shutdown", handles |-> live] \in StopState
          /\ [at |-> "join workers", handles |-> {}] \in StopState
      BY <3>1 DEF StopState
    <3>5. QED
      BY <3>2, <3>3, <3>4
  <2>3. client' \in [Conns -> ClientState] /\ sock' \in [Conns -> SocketState]
    <3>1. CASE ClearQueue
      BY <3>1, DestroyTypes
    <3>2. CASE ~ClearQueue
      BY <1>2, <3>2 DEF StopStep, TypeOK, SocketState
    <3>3. QED
      BY <3>1, <3>2
  <2>4. worker' \in [Workers -> WorkerState]
    <3>1. CASE NotifyAll
      <4>1. ASSUME NEW w \in Workers PROVE [worker[w] EXCEPT !.at = "poll"] \in WorkerState
        BY DEF TypeOK, WorkerState
      <4>2. QED
        BY <3>1, <4>1 DEF TypeOK
    <3>2. CASE worker' = worker
      BY <3>2 DEF TypeOK
    <3>3. QED
      BY <1>2, <3>1, <3>2 DEF StopStep
  <2>5. queue' = queue \/ queue' = <<>>
    BY <1>2 DEF StopStep
  <2>6. queue' \in Seq(Conns) /\ Len(queue') <= MaxQueued
    <3>1. MaxQueued \in Nat /\ Len(<<>>) = 0 /\ <<>> \in Seq(Conns)
      OBVIOUS
    <3>2. CASE queue' = <<>>
      BY <3>1, <3>2
    <3>3. CASE queue' = queue
      BY <3>3 DEF TypeOK
    <3>4. QED
      BY <2>5, <3>2, <3>3
  <2>7. live' \subseteq Conns /\ {closed', listening', stopping'} \subseteq BOOLEAN
    BY <1>2 DEF StopStep, TypeOK
  <2>8. QED
    BY <2>1, <2>2, <2>3, <2>4, <2>6, <2>7 DEF TypeOK
<1>3. CASE UNCHANGED vars
  BY <1>3 DEF TypeOK, vars, queueing
<1>4. QED
  BY <1>1, <1>2, <1>3, AcceptTypes, WorkerTypes DEF Next

----------------------------------------------------------------------------
(* Ownership *)

In(q) == {q[i] : i \in DOMAIN q}

Distinct(q) == \A i, j \in DOMAIN q : q[i] = q[j] => i = j

\* A connection put into the queue.
LEMMA QueuePush ==
    ASSUME NEW q \in Seq(Conns), NEW x \in Conns, x \notin In(q), Distinct(q)
    PROVE  In(Append(q, x)) = In(q) \cup {x} /\ Distinct(Append(q, x))
<1> DEFINE t == Append(q, x)
<1>1. /\ DOMAIN t = 1..(Len(q) + 1) /\ DOMAIN q = 1..Len(q) /\ Len(q) \in Nat
      /\ \A i \in 1..Len(q) : t[i] = q[i]
      /\ t[Len(q) + 1] = x
  BY AppendProperties, LenProperties
<1> HIDE DEF t
<1>2. ASSUME NEW i \in DOMAIN t PROVE t[i] \in In(q) \cup {x}
  <2>1. CASE i \in 1..Len(q)
    BY <1>1, <2>1 DEF In
  <2>2. CASE i = Len(q) + 1
    BY <1>1, <2>2
  <2>3. QED
    BY <1>1, <2>1, <2>2
<1>3. In(q) \subseteq In(t) /\ x \in In(t)
  BY <1>1 DEF In
<1>4. In(t) = In(q) \cup {x}
  BY <1>2, <1>3 DEF In
<1>5. \A i \in 1..Len(q) : t[i] \in In(q)
  BY <1>1 DEF In
<1>6. Distinct(t)
  BY <1>1, <1>5 DEF Distinct
<1>7. QED
  BY <1>4, <1>6 DEF t

\* The connection at the head of the queue taken out of it.
LEMMA QueuePop ==
    ASSUME NEW q \in Seq(Conns), q # <<>>, Distinct(q)
    PROVE  /\ Head(q) \in In(q) /\ In(q) \subseteq Conns
           /\ In(Tail(q)) = In(q) \ {Head(q)} /\ Distinct(Tail(q))
<1> DEFINE t == Tail(q)
<1>1. /\ Len(q) \in Nat /\ Len(q) # 0 /\ DOMAIN q = 1..Len(q)
      /\ \A i \in 1..Len(q) : q[i] \in Conns
  BY LenProperties, EmptySeq, ElementOfSeq
<1>2. /\ Len(t) = Len(q) - 1 /\ t \in Seq(Conns) /\ Head(q) = q[1]
      /\ \A i \in 1..Len(t) : t[i] = q[i + 1]
  BY HeadTailProperties
<1>3. DOMAIN t = 1..Len(t)
  BY <1>2, LenProperties
<1> HIDE DEF t
<1>4. \A i \in DOMAIN t : i + 1 \in DOMAIN q /\ i + 1 # 1 /\ t[i] = q[i + 1]
  BY <1>1, <1>2, <1>3
<1>5. In(t) \subseteq In(q) \ {q[1]}
  BY <1>1, <1>4 DEF In, Distinct
<1>6. ASSUME NEW i \in DOMAIN q, q[i] # q[1] PROVE q[i] \in In(t)
  <2>1. i - 1 \in DOMAIN t /\ t[i - 1] = q[i]
    BY <1>1, <1>2, <1>3, <1>6
  <2>2. QED
    BY <2>1 DEF In
<1>7. In(q) \ {q[1]} \subseteq In(t)
  BY <1>6 DEF In
<1>8. Distinct(t)
  BY <1>1, <1>3, <1>4 DEF Distinct
<1>9. In(q) \subseteq Conns /\ q[1] \in In(q)
  BY <1>1 DEF In
<1>10. QED
  BY <1>2, <1>5, <1>7, <1>8, <1>9 DEF t

\* A step after which everyone holds what they held.
LEMMA NobodyMoves ==
    ASSUME Ownership, Placed', UNCHANGED queue, acc'.conn = acc.conn,
           \A w \in Workers : worker'[w].conn = worker[w].conn,
           \A c \in Conns : sock'[c] \in {"open", "shut"} <=> sock[c] \in {"open", "shut"}
    PROVE  Ownership'
<1>1. Queued' = Queued
  BY DEF Queued
<1>2. Exclusive'
  BY <1>1 DEF Ownership, Exclusive
<1>3. \A c \in Conns : Held(c)' <=> Held(c)
  BY <1>1 DEF Held
<1>4. Owned'
  BY <1>3 DEF Ownership, Owned
<1>5. QED
  BY <1>2, <1>4 DEF Ownership

\* A worker that goes on to another place keeps what it has.
LEMMA MoveFacts ==
    ASSUME TypeOK, NEW w \in Workers, NEW at, Move(w, at)
    PROVE  /\ worker'[w].at = at /\ worker'[w].conn = worker[w].conn
           /\ \A v \in Workers \ {w} : worker'[v] = worker[v]
BY DEF Move, TypeOK, WorkerState

\* What becomes of destroyed connections, and of the others.
LEMMA DestroyFacts ==
    ASSUME TypeOK, Placed, NEW cs, Destroy(cs)
    PROVE  /\ \A c \in Conns : sock'[c] = IF c \in cs THEN "closed" ELSE sock[c]
           /\ \A c \in Conns : client'[c].at = "new" => sock'[c] = "none"
<1>1. \A c \in Conns : sock'[c] = IF c \in cs THEN "closed" ELSE sock[c]
  BY DEF Destroy
<1>2. \A c \in Conns : client'[c] = IF c \in cs THEN [at |-> "gone", sent |-> 0] ELSE client[c]
  BY DEF Destroy
<1>3. QED
  BY <1>1, <1>2 DEF Placed

\* The steps of clients: nobody of the server holds a connection that is new.
LEMMA ClientOwnership ==
    ASSUME TypeOK, Ownership, ClientStep
    PROVE  Ownership'
<1>1. PICK c \in Conns : Connect(c) \/ Send(c) \/ HangUp(c)
  BY DEF ClientStep
<1>2. UNCHANGED <<acc, worker, queue>>
  BY <1>1 DEF Connect, Send, HangUp, clientOnly, queueing
<1>3. CASE Connect(c)
  <2>1. /\ client[c].at = "new" /\ client'[c].at = "ready" /\ sock'[c] = "backlog"
        /\ \A d \in Conns \ {c} : client'[d] = client[d] /\ sock'[d] = sock[d]
    BY <1>3 DEF Connect, TypeOK, ClientState
  <2>2. sock[c] = "none"
    BY <2>1 DEF Ownership, Placed
  <2>3. Placed'
    BY <1>2, <2>1 DEF Ownership, Placed
  <2>4. \A d \in Conns : sock'[d] \in {"open", "shut"} <=> sock[d] \in {"open", "shut"}
    BY <2>1, <2>2
  <2>5. QED
    BY <1>2, <2>3, <2>4, NobodyMoves
<1>4. CASE Send(c) \/ HangUp(c)
  <2>1. /\ sock' = sock /\ client'[c].at # "new"
        /\ \A d \in Conns \ {c} : client'[d] = client[d]
    BY <1>4 DEF Send, HangUp, TypeOK, ClientState
  <2>2. Placed'
    BY <1>2, <2>1 DEF Ownership, Placed
  <2>3. QED
    BY <1>2, <2>1, <2>2, NobodyMoves
<1>5. QED
  BY <1>1, <1>3, <1>4

\* The accept thread gives up the connection it has, which is destroyed.
LEMMA AcceptorDestroys ==
    ASSUME TypeOK, Ownership, Destroy({acc.conn}), UNCHANGED <<worker, queue>>,
           NEW at \in {"check", "returned"}, acc' = [at |-> at, conn |-> None]
    PROVE  Ownership'
<1>1. /\ \A c \in Conns : sock'[c] = IF c \in {acc.conn} THEN "closed" ELSE sock[c]
      /\ \A c \in Conns : client'[c].at = "new" => sock'[c] = "none"
  BY DestroyFacts DEF Ownership
<1>2. Queued' = Queued /\ acc'.conn = None /\ acc'.at = at
  BY DEF Queued
<1>3. Placed'
  BY <1>1, <1>2 DEF Ownership, Placed
<1>4. None \notin Queued
  <2>1. Queued \subseteq Conns
    BY LenProperties, ElementOfSeq DEF Queued, TypeOK
  <2>2. QED
    BY <2>1, ServerAssumption
<1>5. Exclusive'
  BY <1>2, <1>4 DEF Ownership, Exclusive
<1>6. ASSUME NEW c \in Conns PROVE sock'[c] \in {"open", "shut"} <=> Held(c)'
  <2>1. CASE c = acc.conn
    BY <1>1, <1>2, <2>1, ServerAssumption DEF Ownership, Exclusive, Held
  <2>2. CASE c # acc.conn
    BY <1>1, <1>2, <2>2, ServerAssumption DEF Ownership, Owned, Held
  <2>3. QED
    BY <2>1, <2>2
<1>7. Owned'
  BY <1>6 DEF Owned
<1>8. QED
  BY <1>3, <1>5, <1>7 DEF Ownership

\* The steps of the accept thread.
LEMMA AcceptOwnership ==
    ASSUME TypeOK, Ownership, AcceptStep
    PROVE  Ownership'
<1>1. /\ acc.conn \in Conns \cup {None} /\ None \notin Conns
      /\ queue \in Seq(Conns) /\ DOMAIN acc = {"at", "conn"}
  BY ServerAssumption DEF TypeOK, AcceptState
<1>2. ASSUME NEW at, acc' = [acc EXCEPT !.at = at], UNCHANGED <<client, sock, queue, worker>>,
             at \in {"accepted", "enqueue", "unregister", "drop"} <=>
                acc.at \in {"accepted", "enqueue", "unregister", "drop"}
      PROVE  Ownership'
  <2>1. acc'.at = at /\ acc'.conn = acc.conn
    BY <1>2 DEF TypeOK, AcceptState
  <2>2. Placed'
    BY <1>2, <2>1 DEF Ownership, Placed
  <2>3. QED
    BY <1>2, <2>1, <2>2, NobodyMoves
<1>3. CASE AcceptLoop \/ AcceptCall \/ AcceptFails \/ Unregister
  BY <1>2, <1>3 DEF AcceptLoop, AcceptCall, AcceptFails, Unregister
<1>4. ASSUME NEW c \in Conns, Accept(c) PROVE Ownership'
  <2>1. /\ acc.at = "blocked" /\ sock[c] = "backlog" /\ sock'[c] = "open"
        /\ \A d \in Conns \ {c} : sock'[d] = sock[d]
        /\ acc'.at = "accepted" /\ acc'.conn = c
        /\ UNCHANGED <<client, worker, queue>>
    BY <1>4 DEF Accept, TypeOK
  <2>2. Queued' = Queued /\ acc.conn = None /\ ~Held(c)
    BY <2>1 DEF Queued, Ownership, Placed, Owned
  <2>3. Placed'
    BY <1>1, <2>1 DEF Ownership, Placed
  <2>4. Exclusive'
    BY <2>1, <2>2 DEF Ownership, Exclusive, Held
  <2>5. ASSUME NEW d \in Conns PROVE sock'[d] \in {"open", "shut"} <=> Held(d)'
    <3>1. Held(d)' <=> Held(d) \/ d = c
      BY <1>1, <2>1, <2>2 DEF Held
    <3>2. QED
      BY <2>1, <3>1 DEF Ownership, Owned
  <2>6. QED
    BY <2>3, <2>4, <2>5 DEF Ownership, Owned
<1>5. CASE Register
  <2>1. CASE stopping
    BY <1>5, <2>1, AcceptorDestroys DEF Register
  <2>2. CASE ~stopping
    BY <1>2, <1>5, <2>2 DEF Register
  <2>3. QED
    BY <2>1, <2>2
<1>6. CASE Drop
  BY <1>6, AcceptorDestroys DEF Drop
<1>7. CASE Enqueue
  <2>1. CASE ~HasRoom
    BY <1>2, <1>7, <2>1 DEF Enqueue
  <2>2. CASE HasRoom
    <3>1. /\ acc.at = "enqueue" /\ queue' = Append(queue, acc.conn)
          /\ acc'.at = "notify" /\ acc'.conn = None /\ UNCHANGED <<client, sock, worker>>
      BY <1>7, <2>2 DEF Enqueue
    <3>2. acc.conn \in Conns /\ acc.conn \notin In(queue) /\ Distinct(queue) /\ Queued = In(queue)
      BY <1>1, <3>1 DEF Ownership, Placed, Exclusive, In, Distinct, Queued
    <3>3. Queued' = Queued \cup {acc.conn} /\ Distinct(queue')
      BY <1>1, <3>1, <3>2, QueuePush DEF In, Queued
    <3>4. Queued \subseteq Conns
      BY LenProperties, ElementOfSeq DEF Queued, TypeOK
    <3>5. Placed'
      BY <3>1 DEF Ownership, Placed
    <3>6. Exclusive'
      BY <1>1, <3>1, <3>2, <3>3, <3>4 DEF Ownership, Exclusive, Distinct
    <3>7. ASSUME NEW d \in Conns PROVE Held(d)' <=> Held(d)
      BY <1>1, <3>1, <3>3 DEF Held
    <3>8. QED
      BY <3>1, <3>5, <3>6, <3>7 DEF Ownership, Owned
  <2>3. QED
    BY <2>1, <2>2
<1>8. CASE NotifyOne
  <2>1. /\ acc.at = "notify" /\ acc'.at = "check" /\ acc'.conn = acc.conn
        /\ UNCHANGED <<client, sock, queue>>
    BY <1>8 DEF NotifyOne, TypeOK, AcceptState
  <2>2. \A w \in Workers : /\ worker'[w].conn = worker[w].conn
                           /\ worker'[w].at \in Busy <=> worker[w].at \in Busy
    <3>1. CASE worker' = worker
      BY <3>1
    <3>2. ASSUME NEW w \in Asleep, worker' = [worker EXCEPT ![w].at = "poll"]
          PROVE  \A v \in Workers : /\ worker'[v].conn = worker[v].conn
                                    /\ worker'[v].at \in Busy <=> worker[v].at \in Busy
      <4>1. w \in Workers /\ worker[w].at = "asleep" /\ Move(w, "poll")
        BY <3>2 DEF Asleep, Move
      <4>2. /\ worker'[w].at = "poll" /\ worker'[w].conn = worker[w].conn
            /\ \A v \in Workers \ {w} : worker'[v] = worker[v]
        BY <4>1, MoveFacts
      <4>3. QED
        BY <4>1, <4>2 DEF Busy, Reading
    <3>3. QED
      BY <1>8, <3>1, <3>2 DEF NotifyOne
  <2>3. Placed'
    BY <2>1, <2>2 DEF Ownership, Placed
  <2>4. QED
    BY <2>1, <2>2, <2>3, NobodyMoves
<1>9. QED
  BY <1>3, <1>4, <1>5, <1>6, <1>7, <1>8 DEF AcceptStep

\* The steps of a worker.
LEMMA WorkerOwnership ==
    ASSUME TypeOK, Ownership, NEW w \in Workers, WorkerStep(w) \/ WakeUp(w)
    PROVE  Ownership'
<1>1. /\ worker[w].conn \in Conns \cup {None} /\ None \notin Conns /\ queue \in Seq(Conns)
      /\ acc' = acc
  BY ServerAssumption DEF TypeOK, WorkerState, WorkerStep, WakeUp, Poll, ServeLoop, Receive,
        ReceiveFails, Handle, Answer, Leave, Close, workerOnly
<1>2. ASSUME worker'[w].conn = worker[w].conn,
             worker'[w].at \in Busy <=> worker[w].at \in Busy,
             \A v \in Workers \ {w} : worker'[v] = worker[v],
             UNCHANGED <<sock, queue>>,
             \A c \in Conns : client'[c].at = "new" => client[c].at = "new"
      PROVE  Ownership'
  <2>1. Placed'
    BY <1>1, <1>2 DEF Ownership, Placed
  <2>2. QED
    BY <1>1, <1>2, <2>1, NobodyMoves
<1>3. ASSUME NEW at, Move(w, at), at \in Busy <=> worker[w].at \in Busy, UNCHANGED <<sock, queue>>,
             \A c \in Conns : client'[c].at = "new" => client[c].at = "new"
      PROVE  Ownership'
  BY <1>2, <1>3, MoveFacts
<1>4. /\ "asleep" \notin Busy /\ "poll" \notin Busy /\ "returned" \notin Busy
      /\ {"serve", "receive", "handle", "send", "unregister", "close"} \subseteq Busy
  BY DEF Busy, Reading
<1>5. CASE WakeUp(w) \/ ServeLoop(w) \/ ReceiveFails(w) \/ Handle(w) \/ Leave(w)
  BY <1>3, <1>4, <1>5 DEF WakeUp, ServeLoop, ReceiveFails, Handle, Leave
<1>6. CASE Receive(w)
  <2>1. /\ worker'[w].conn = worker[w].conn /\ worker[w].at = "receive"
        /\ worker'[w].at \in {"unregister", "handle"}
        /\ \A v \in Workers \ {w} : worker'[v] = worker[v]
        /\ UNCHANGED <<client, sock, queue>>
    BY <1>6, MoveFacts DEF Receive, TypeOK
  <2>2. QED
    BY <1>2, <1>4, <2>1
<1>7. CASE Answer(w)
  <2>1. /\ UNCHANGED <<sock, queue>> /\ worker[w].at = "send"
        /\ Move(w, "serve") \/ Move(w, "unregister")
    BY <1>7 DEF Answer
  <2>2. \A c \in Conns : client'[c].at = "new" => client[c].at = "new"
    BY <1>7 DEF Answer, TypeOK, ClientState
  <2>3. QED
    BY <1>3, <1>4, <2>1, <2>2
<1>8. CASE Poll(w)
  <2>1. CASE queue = <<>>
    BY <1>3, <1>4, <1>8, <2>1 DEF Poll
  <2>2. CASE queue # <<>>
    <3> DEFINE c == Head(queue)
    <3>1. /\ worker[w].at = "poll" /\ queue' = Tail(queue)
          /\ worker'[w] = [at |-> "serve", conn |-> c, served |-> 0]
          /\ \A v \in Workers \ {w} : worker'[v] = worker[v]
          /\ UNCHANGED <<client, sock>>
      BY <1>8, <2>2 DEF Poll, TypeOK
    <3>2. Distinct(queue) /\ Queued = In(queue) /\ Queued' = In(queue')
      BY DEF Ownership, Exclusive, In, Distinct, Queued
    <3>3. c \in Queued /\ Queued \subseteq Conns /\ Queued' = Queued \ {c} /\ Distinct(queue')
      BY <1>1, <2>2, <3>1, <3>2, QueuePop
    <3> HIDE DEF c
    <3>4. worker[w].conn = None /\ worker'[w].conn = c /\ worker'[w].at = "serve"
      BY <1>4, <3>1 DEF Ownership, Placed
    <3>5. Placed'
      BY <1>1, <1>4, <3>1, <3>3, <3>4 DEF Ownership, Placed
    <3>6. Exclusive'
      BY <1>1, <3>1, <3>3, <3>4 DEF Ownership, Exclusive, Distinct
    <3>7. ASSUME NEW d \in Conns PROVE Held(d)' <=> Held(d)
      BY <1>1, <3>1, <3>3, <3>4 DEF Held
    <3>8. QED
      BY <3>1, <3>5, <3>6, <3>7 DEF Ownership, Owned
  <2>3. QED
    BY <2>1, <2>2
<1>9. CASE Close(w)
  <2> DEFINE c == worker[w].conn
  <2>1. /\ worker[w].at = "close" /\ Destroy({c}) /\ UNCHANGED queue
        /\ worker'[w].at = "poll" /\ worker'[w].conn = None
        /\ \A v \in Workers \ {w} : worker'[v] = worker[v]
    BY <1>9 DEF Close, TypeOK
  <2>2. /\ \A d \in Conns : sock'[d] = IF d \in {c} THEN "closed" ELSE sock[d]
        /\ \A d \in Conns : client'[d].at = "new" => sock'[d] = "none"
    BY <2>1, DestroyFacts DEF Ownership
  <2>3. c \in Conns /\ Queued' = Queued /\ Queued \subseteq Conns
    BY <1>1, <1>4, <2>1, LenProperties, ElementOfSeq DEF Ownership, Placed, Queued
  <2> HIDE DEF c
  <2>4. Placed'
    BY <1>1, <1>4, <2>1, <2>2 DEF Ownership, Placed
  <2>5. Exclusive'
    BY <1>1, <2>1, <2>3 DEF Ownership, Exclusive
  <2>6. ASSUME NEW d \in Conns PROVE Held(d)' <=> Held(d) /\ d # c
    <3>1. CASE d = c
      BY <1>1, <2>1, <2>3, <3>1 DEF Ownership, Exclusive, Held, c
    <3>2. CASE d # c
      BY <1>1, <2>1, <2>3, <3>2 DEF Held, c
    <3>3. QED
      BY <3>1, <3>2
  <2>7. Owned'
    BY <2>2, <2>6 DEF Ownership, Owned
  <2>8. QED
    BY <2>4, <2>5, <2>7 DEF Ownership
<1>10. QED
  BY <1>5, <1>6, <1>7, <1>8, <1>9 DEF WorkerStep

\* The steps of stop().
LEMMA StopOwnership ==
    ASSUME TypeOK, Ownership, Stop \/ StopStep
    PROVE  Ownership'
<1> USE DEF queueing, stopOnly
<1>1. CASE Stop \/ CloseListener \/ JoinAcceptor \/ CopyHandles \/ JoinWorkers
  <2>1. UNCHANGED <<client, sock, queue, worker, acc>>
    BY <1>1 DEF Stop, CloseListener, JoinAcceptor, CopyHandles, JoinWorkers
  <2>2. Placed'
    BY <2>1 DEF Ownership, Placed
  <2>3. QED
    BY <2>1, <2>2, NobodyMoves
<1>2. CASE ClearQueue
  <2>1. Destroy(Queued) /\ queue' = <<>> /\ UNCHANGED <<worker, acc>>
    BY <1>2 DEF ClearQueue
  <2>2. /\ \A d \in Conns : sock'[d] = IF d \in Queued THEN "closed" ELSE sock[d]
        /\ \A d \in Conns : client'[d].at = "new" => sock'[d] = "none"
    BY <2>1, DestroyFacts DEF Ownership
  <2>3. Queued' = {}
    BY <2>1 DEF Queued
  <2>4. Placed'
    BY <2>1, <2>2 DEF Ownership, Placed
  <2>5. Exclusive'
    BY <2>1, <2>3 DEF Ownership, Exclusive
  <2>6. ASSUME NEW d \in Conns PROVE Held(d)' <=> Held(d) /\ d \notin Queued
    BY <2>1, <2>3 DEF Ownership, Exclusive, Held
  <2>7. Owned'
    BY <2>2, <2>6 DEF Ownership, Owned
  <2>8. QED
    BY <2>4, <2>5, <2>7 DEF Ownership
<1>3. CASE NotifyAll
  <2>1. UNCHANGED <<client, sock, queue, acc>>
    BY <1>3 DEF NotifyAll
  <2>2. \A w \in Workers : /\ worker'[w].conn = worker[w].conn
                           /\ worker'[w].at \in Busy <=> worker[w].at \in Busy
    BY <1>3 DEF NotifyAll, Asleep, Busy, Reading, TypeOK, WorkerState
  <2>3. Placed'
    BY <2>1, <2>2 DEF Ownership, Placed
  <2>4. QED
    BY <2>1, <2>2, <2>3, NobodyMoves
<1>4. CASE ShutdownHandles
  <2>1. UNCHANGED <<client, queue, worker, acc>>
    BY <1>4 DEF ShutdownHandles
  <2>2. \A c \in Conns : sock'[c] = IF c \in stop.handles /\ sock[c] = "open" THEN "shut" ELSE sock[c]
    BY <1>4 DEF ShutdownHandles
  <2>3. Placed'
    BY <2>1, <2>2 DEF Ownership, Placed
  <2>4. QED
    BY <2>1, <2>2, <2>3, NobodyMoves
<1>5. QED
  BY <1>1, <1>2, <1>3, <1>4 DEF StopStep

----------------------------------------------------------------------------
(* What stop() relies on *)

\* Every step keeps what is queued or served registered.
LEMMA RegisteredKept ==
    ASSUME TypeOK, Ownership, Registered, Stages, [Next]_vars
    PROVE  Registered'
<1> DEFINE Served == Reading \cup {"serve"}
<1>1. /\ acc.conn \in Conns \cup {None} /\ None \notin Conns /\ queue \in Seq(Conns)
      /\ Queued = In(queue) /\ Queued' = In(queue')
  BY ServerAssumption DEF TypeOK, AcceptState, Queued, In
<1>2. ASSUME UNCHANGED <<live, queue>>, acc'.at # "enqueue" \/ acc' = acc,
             \A w \in Workers : worker'[w].at \in Served =>
                worker[w].at \in Served /\ worker'[w].conn = worker[w].conn
      PROVE  Registered'
  BY <1>1, <1>2 DEF Registered
<1>3. CASE ClientStep
  <2>1. UNCHANGED <<live, queue, acc, worker>>
    BY <1>3 DEF ClientStep, Connect, Send, HangUp, clientOnly, queueing
  <2>2. QED
    BY <1>2, <2>1
<1>4. CASE AcceptLoop \/ AcceptCall \/ AcceptFails \/ Drop \/ \E c \in Conns : Accept(c)
  <2>1. UNCHANGED <<live, queue, worker>> /\ acc'.at # "enqueue"
    BY <1>4 DEF AcceptLoop, AcceptCall, AcceptFails, Drop, Accept, TypeOK, AcceptState
  <2>2. QED
    BY <1>2, <2>1
<1>5. CASE Register
  <2>1. CASE stopping
    BY <1>2, <1>5, <2>1 DEF Register
  <2>2. CASE ~stopping
    <3>1. live' = live \cup {acc.conn} /\ acc'.conn = acc.conn /\ UNCHANGED <<queue, worker>>
      BY <1>5, <2>2 DEF Register, TypeOK, AcceptState
    <3>2. QED
      BY <1>1, <3>1 DEF Registered
  <2>3. QED
    BY <2>1, <2>2
<1>6. CASE Enqueue
  <2>1. CASE ~HasRoom
    BY <1>2, <1>6, <2>1 DEF Enqueue, TypeOK, AcceptState
  <2>2. CASE HasRoom
    <3>1. /\ acc.at = "enqueue" /\ queue' = Append(queue, acc.conn) /\ acc'.at = "notify"
          /\ UNCHANGED <<live, worker>>
      BY <1>6, <2>2 DEF Enqueue
    <3>2. acc.conn \in Conns /\ acc.conn \notin In(queue) /\ Distinct(queue)
      BY <1>1, <3>1 DEF Ownership, Placed, Exclusive, Distinct
    <3>3. Queued' = Queued \cup {acc.conn}
      BY <1>1, <3>1, <3>2, QueuePush
    <3>4. QED
      BY <3>1, <3>3 DEF Registered
  <2>3. QED
    BY <2>1, <2>2
<1>7. CASE NotifyOne
  <2>1. /\ acc'.at = "check" /\ UNCHANGED <<live, queue>>
    BY <1>7 DEF NotifyOne, TypeOK, AcceptState
  <2>2. ASSUME NEW w \in Asleep, worker' = [worker EXCEPT ![w].at = "poll"]
        PROVE  \A v \in Workers : worker'[v].at \in Served => worker'[v] = worker[v]
    <3>1. w \in Workers /\ Move(w, "poll")
      BY <2>2 DEF Asleep, Move
    <3>2. worker'[w].at = "poll" /\ \A v \in Workers \ {w} : worker'[v] = worker[v]
      BY <3>1, MoveFacts
    <3>3. QED
      BY <3>2 DEF Reading
  <2>3. \A v \in Workers : worker'[v].at \in Served => worker'[v] = worker[v]
    BY <1>7, <2>2 DEF NotifyOne
  <2>4. QED
    BY <1>2, <2>1, <2>3
<1>8. CASE Unregister
  <2>1. /\ acc.at = "unregister" /\ acc'.at = "drop" /\ live' = live \ {acc.conn}
        /\ UNCHANGED <<queue, worker>>
    BY <1>8 DEF Unregister, TypeOK, AcceptState
  <2>2. \A w \in Workers : worker[w].at \in Served => worker[w].conn # acc.conn
    BY DEF Ownership, Placed, Exclusive, Busy
  <2>3. QED
    BY <1>1, <2>1, <2>2 DEF Registered, Ownership, Exclusive
<1>9. ASSUME NEW w \in Workers, WorkerStep(w) \/ WakeUp(w) PROVE Registered'
  <2>1. acc' = acc
    BY <1>9 DEF WorkerStep, WakeUp, Poll, ServeLoop, Receive, ReceiveFails, Handle, Answer, Leave,
        Close, workerOnly
  <2>2. ASSUME UNCHANGED <<live, queue>>, \A v \in Workers \ {w} : worker'[v] = worker[v],
               worker'[w].at \in Served =>
                    worker[w].at \in Served /\ worker'[w].conn = worker[w].conn
        PROVE  Registered'
    BY <1>2, <2>1, <2>2
  <2>3. ASSUME NEW at, Move(w, at), at \in Served => worker[w].at \in Served, UNCHANGED <<live, queue>>
        PROVE  Registered'
    BY <2>2, <2>3, MoveFacts
  <2>4. CASE WakeUp(w) \/ ServeLoop(w) \/ ReceiveFails(w) \/ Handle(w) \/ Answer(w)
    BY <2>3, <2>4 DEF WakeUp, ServeLoop, ReceiveFails, Handle, Answer, Reading
  <2>5. CASE Receive(w)
    <3>1. /\ worker'[w].conn = worker[w].conn /\ worker[w].at = "receive"
          /\ \A v \in Workers \ {w} : worker'[v] = worker[v]
          /\ UNCHANGED <<live, queue>>
      BY <2>5, MoveFacts DEF Receive, TypeOK
    <3>2. QED
      BY <2>2, <3>1 DEF Reading
  <2>6. CASE Poll(w)
    <3>1. CASE queue = <<>>
      BY <2>3, <2>6, <3>1 DEF Poll, Reading
    <3>2. CASE queue # <<>>
      <4>1. /\ queue' = Tail(queue) /\ worker'[w].conn = Head(queue) /\ UNCHANGED live
            /\ \A v \in Workers \ {w} : worker'[v] = worker[v]
        BY <2>6, <3>2 DEF Poll, TypeOK
      <4>2. Distinct(queue)
        BY DEF Ownership, Exclusive, Distinct
      <4>3. Head(queue) \in Queued /\ Queued' \subseteq Queued
        BY <1>1, <3>2, <4>1, <4>2, QueuePop
      <4>4. QED
        BY <2>1, <4>1, <4>3 DEF Registered
    <3>3. QED
      BY <3>1, <3>2
  <2>7. CASE Leave(w)
    <3>1. /\ worker[w].at = "unregister" /\ worker'[w].at = "close" /\ UNCHANGED queue
          /\ live' = live \ {worker[w].conn} /\ \A v \in Workers \ {w} : worker'[v] = worker[v]
      BY <2>7, MoveFacts DEF Leave
    <3>2. worker[w].conn # None
      BY <3>1 DEF Ownership, Placed, Busy
    <3>3. \A v \in Workers \ {w} : worker[v].conn # worker[w].conn
      BY <3>2 DEF Ownership, Exclusive
    <3>4. acc.conn # worker[w].conn /\ worker[w].conn \notin Queued
      BY <3>2 DEF Ownership, Exclusive
    <3>5. QED
      BY <1>1, <2>1, <3>1, <3>3, <3>4 DEF Registered, Reading
  <2>8. CASE Close(w)
    <3>1. worker'[w].at = "poll" /\ \A v \in Workers \ {w} : worker'[v] = worker[v]
      BY <2>8 DEF Close, TypeOK
    <3>2. UNCHANGED <<live, queue>>
      BY <2>8 DEF Close
    <3>3. QED
      BY <2>2, <3>1, <3>2 DEF Reading
  <2>9. QED
    BY <1>9, <2>4, <2>5, <2>6, <2>7, <2>8 DEF WorkerStep
<1>10. CASE Stop \/ CloseListener \/ JoinAcceptor \/ CopyHandles \/ ShutdownHandles
  <2>1. UNCHANGED <<live, queue, acc, worker>>
    BY <1>10 DEF Stop, CloseListener, JoinAcceptor, CopyHandles, ShutdownHandles, queueing, stopOnly
  <2>2. QED
    BY <1>2, <2>1
<1>11. CASE ClearQueue
  <2>1. UNCHANGED <<live, acc, worker>> /\ Queued' = {}
    BY <1>11 DEF ClearQueue, Queued
  <2>2. QED
    BY <2>1 DEF Registered
<1>12. CASE NotifyAll
  <2>1. UNCHANGED <<live, queue, acc>>
    BY <1>12 DEF NotifyAll, queueing, stopOnly
  <2>2. \A v \in Workers : worker'[v].at \in Served => worker'[v] = worker[v]
    BY <1>12 DEF NotifyAll, Reading, TypeOK, WorkerState
  <2>3. QED
    BY <1>2, <2>1, <2>2
<1>13. CASE JoinWorkers
  <2>1. /\ stop.at = "join workers" /\ UNCHANGED <<queue, acc, worker>>
        /\ \A w \in Workers : worker[w].at = "returned"
    BY <1>13 DEF JoinWorkers, queueing, stopOnly
  <2>2. acc.at = "returned" /\ queue = <<>>
    BY <2>1 DEF Stages, Cleared
  <2>3. queue' = <<>>
    BY <2>1, <2>2
  <2>4. Queued' = {}
    BY <2>3 DEF Queued
  <2>5. QED
    BY <2>1, <2>2, <2>4 DEF Registered, Reading
<1>14. CASE UNCHANGED vars
  BY <1>2, <1>14 DEF vars, queueing
<1>15. QED
  BY <1>3, <1>4, <1>5, <1>6, <1>7, <1>8, <1>9, <1>10, <1>11, <1>12, <1>13, <1>14
    DEF Next, AcceptStep, StopStep

\* A worker that steps while the server stops does not begin to read, has not returned, and
\* closes no socket but its own.
LEMMA StoppingWorker ==
    ASSUME TypeOK, stopping, NEW w \in Workers, WorkerStep(w) \/ WakeUp(w)
    PROVE  /\ worker[w].at # "returned" /\ \A v \in Workers \ {w} : worker'[v] = worker[v]
           /\ worker'[w].at \in Reading =>
                worker[w].at \in Reading /\ worker'[w].conn = worker[w].conn
           /\ sock' = sock \/ (worker[w].at = "close" /\ Destroy({worker[w].conn}))
           /\ queue = <<>> => queue' = <<>>
           /\ UNCHANGED <<stop, stopping, acc>>
<1>1. UNCHANGED <<stop, stopping, acc>> /\ worker[w].at # "returned"
  BY DEF WorkerStep, WakeUp, Poll, ServeLoop, Receive, ReceiveFails, Handle, Answer, Leave, Close,
        workerOnly
<1>2. sock' = sock \/ (worker[w].at = "close" /\ Destroy({worker[w].conn}))
  BY DEF WorkerStep, WakeUp, Poll, ServeLoop, Receive, ReceiveFails, Handle, Answer, Leave, Close
<1>3. queue = <<>> => queue' = <<>>
  BY DEF WorkerStep, WakeUp, Poll, ServeLoop, Receive, ReceiveFails, Handle, Answer, Leave, Close
<1>4. ASSUME NEW at, Move(w, at), at \in Reading => worker[w].at \in Reading
      PROVE  /\ \A v \in Workers \ {w} : worker'[v] = worker[v]
             /\ worker'[w].at \in Reading =>
                  worker[w].at \in Reading /\ worker'[w].conn = worker[w].conn
  BY <1>4, MoveFacts
<1>5. /\ \A v \in Workers \ {w} : worker'[v] = worker[v]
      /\ worker'[w].at \in Reading =>
            worker[w].at \in Reading /\ worker'[w].conn = worker[w].conn
  <2>1. CASE WakeUp(w) \/ ServeLoop(w) \/ ReceiveFails(w) \/ Handle(w) \/ Answer(w) \/ Leave(w)
    BY <1>4, <2>1 DEF WakeUp, ServeLoop, ReceiveFails, Handle, Answer, Leave, Reading
  <2>2. CASE Receive(w)
    BY <2>2, MoveFacts DEF Receive, TypeOK, Reading
  <2>3. CASE Close(w)
    BY <2>3 DEF Close, TypeOK, Reading
  <2>4. CASE Poll(w)
    <3>1. CASE queue = <<>>
      BY <1>4, <2>4, <3>1 DEF Poll, Reading
    <3>2. CASE queue # <<>>
      BY <2>4, <3>2 DEF Poll, TypeOK, Reading
    <3>3. QED
      BY <3>1, <3>2
  <2>5. QED
    BY <2>1, <2>2, <2>3, <2>4 DEF WorkerStep
<1>6. QED
  BY <1>1, <1>2, <1>3, <1>5

\* Every step keeps what stop() has established.
LEMMA StagesKept ==
    ASSUME TypeOK, Ownership, Registered, Stages, [Next]_vars
    PROVE  Stages'
<1>1. Cleared = {"notify", "copy", "shutdown", "join workers", "stopped"}
  BY DEF Cleared
<1>2. \A w \in Workers : worker[w].at \in Reading =>
        worker[w].conn \in Conns /\ sock[worker[w].conn] \in {"open", "shut"}
  <2>1. ASSUME NEW w \in Workers, worker[w].at \in Reading
        PROVE  worker[w].conn \in Conns /\ sock[worker[w].conn] \in {"open", "shut"}
    <3>1. worker[w].conn \in Conns
      BY <2>1 DEF TypeOK, WorkerState, Ownership, Placed, Busy
    <3>2. QED
      BY <2>1, <3>1 DEF Ownership, Owned, Held
  <2>2. QED
    BY <2>1
<1>3. CASE ClientStep
  <2>1. UNCHANGED <<stop, stopping, acc, queue, worker>>
    BY <1>3 DEF ClientStep, Connect, Send, HangUp, clientOnly, queueing
  <2>2. \A c \in Conns : sock[c] = "shut" => sock'[c] = "shut"
    <3>1. PICK c \in Conns : Connect(c) \/ Send(c) \/ HangUp(c)
      BY <1>3 DEF ClientStep
    <3>2. CASE Connect(c)
      <4>1. sock[c] = "none"
        BY <3>2 DEF Connect, Ownership, Placed
      <4>2. QED
        BY <3>2, <4>1 DEF Connect, TypeOK
    <3>3. CASE Send(c) \/ HangUp(c)
      BY <3>3 DEF Send, HangUp
    <3>4. QED
      BY <3>1, <3>2, <3>3
  <2>3. QED
    BY <1>2, <2>1, <2>2 DEF Stages
<1>4. CASE AcceptStep
  <2>1. acc.at # "returned" /\ UNCHANGED <<stop, stopping>>
    BY <1>4 DEF AcceptStep, AcceptLoop, AcceptCall, AcceptFails, Accept, Register, Enqueue, NotifyOne,
        Unregister, Drop, acceptOnly
  <2>2. stop.at \notin Cleared \cup {"clear"}
    BY <2>1 DEF Stages
  <2>3. QED
    BY <1>1, <2>1, <2>2 DEF Stages
<1>5. ASSUME NEW w \in Workers, WorkerStep(w) \/ WakeUp(w) PROVE Stages'
  <2>1. CASE ~stopping
    <3>1. stop.at = "running" /\ UNCHANGED <<stop, stopping>>
      BY <1>5, <2>1 DEF Stages, WorkerStep, WakeUp, Poll, ServeLoop, Receive, ReceiveFails, Handle,
        Answer, Leave, Close, workerOnly
    <3>2. QED
      BY <1>1, <3>1 DEF Stages
  <2>2. CASE stopping
    <3>1. /\ worker[w].at # "returned" /\ \A v \in Workers \ {w} : worker'[v] = worker[v]
          /\ worker'[w].at \in Reading =>
                worker[w].at \in Reading /\ worker'[w].conn = worker[w].conn
          /\ sock' = sock \/ (worker[w].at = "close" /\ Destroy({worker[w].conn}))
          /\ queue = <<>> => queue' = <<>>
          /\ UNCHANGED <<stop, stopping, acc>>
      BY <1>5, <2>2, StoppingWorker
    <3>2. \A v \in Workers : worker'[v].at \in Reading =>
            worker[v].at \in Reading /\ worker'[v].conn = worker[v].conn
      BY <3>1
    <3>3. \A v \in Workers : worker'[v].at \in Reading =>
            sock'[worker[v].conn] = sock[worker[v].conn]
      <4>1. CASE sock' = sock
        BY <4>1
      <4>2. CASE worker[w].at = "close" /\ Destroy({worker[w].conn})
        <5>1. \A c \in Conns : sock'[c] = IF c \in {worker[w].conn} THEN "closed" ELSE sock[c]
          BY <4>2, DestroyFacts DEF Ownership
        <5>2. worker[w].conn # None /\ worker'[w].at \notin Reading
          BY <3>1, <4>2 DEF Ownership, Placed, Busy, Reading
        <5>3. \A v \in Workers \ {w} : worker[v].conn # worker[w].conn
          BY <5>2 DEF Ownership, Exclusive
        <5>4. QED
          BY <1>2, <3>2, <5>1, <5>2, <5>3
      <4>3. QED
        BY <3>1, <4>1, <4>2
    <3>4. /\ stop'.at # "running" => stopping'
          /\ stop'.at \in Cleared \cup {"clear"} => acc'.at = "returned"
          /\ stop'.at \in Cleared => queue' = <<>>
      BY <3>1 DEF Stages
    <3>5. stop.at # "stopped"
      BY <3>1 DEF Stages
    <3>6. QED
      BY <3>1, <3>2, <3>3, <3>4, <3>5 DEF Stages
  <2>3. QED
    BY <2>1, <2>2
<1>6. CASE Stop
  BY <1>1, <1>6 DEF Stop, Stages, TypeOK, StopState
<1>7. CASE CloseListener
  BY <1>1, <1>7 DEF CloseListener, Stages, TypeOK, StopState
<1>8. CASE JoinAcceptor
  BY <1>1, <1>8 DEF JoinAcceptor, Stages, TypeOK, StopState, stopOnly
<1>9. CASE ClearQueue
  BY <1>1, <1>9 DEF ClearQueue, Stages, TypeOK, StopState
<1>10. CASE NotifyAll
  BY <1>1, <1>10 DEF NotifyAll, Stages, TypeOK, StopState, queueing, stopOnly
<1>11. CASE CopyHandles
  <2>1. /\ stop.at = "copy" /\ stop'.at = "shutdown" /\ stop'.handles = live
        /\ UNCHANGED <<queue, stopping, worker, acc>>
    BY <1>11 DEF CopyHandles, queueing, stopOnly
  <2>2. \A w \in Workers : worker[w].at \in Reading => worker[w].conn \in live
    BY DEF Registered
  <2>3. QED
    BY <1>1, <2>1, <2>2 DEF Stages
<1>12. CASE ShutdownHandles
  <2>1. /\ stop.at = "shutdown" /\ stop'.at = "join workers"
        /\ \A c \in Conns : sock'[c] = IF c \in stop.handles /\ sock[c] = "open" THEN "shut" ELSE sock[c]
        /\ UNCHANGED <<queue, stopping, worker, acc>>
    BY <1>12 DEF ShutdownHandles, queueing, stopOnly
  <2>2. \A w \in Workers : worker[w].at \in Reading => sock'[worker[w].conn] = "shut"
    BY <1>2, <2>1 DEF Stages
  <2>3. QED
    BY <1>1, <2>1, <2>2 DEF Stages
<1>13. CASE JoinWorkers
  BY <1>1, <1>13 DEF JoinWorkers, Stages, TypeOK, StopState, queueing, stopOnly
<1>14. CASE UNCHANGED vars
  BY <1>14 DEF vars, queueing, Stages
<1>15. QED
  BY <1>3, <1>4, <1>5, <1>6, <1>7, <1>8, <1>9, <1>10, <1>11, <1>12, <1>13, <1>14 DEF Next, StopStep

----------------------------------------------------------------------------
(* The theorems *)

Sound == TypeOK /\ Ownership /\ Registered /\ Stages

\* The invariants hold from the start and are kept together.
LEMMA SoundHolds == Spec => []Sound
<1>1. Init => Sound
  <2> SUFFICES ASSUME Init PROVE Sound
    OBVIOUS
  <2>1. TypeOK
    <3>1. <<>> \in Seq(Conns) /\ Len(<<>>) = 0 /\ {MaxQueued, MaxSends, MaxRequests} \subseteq Nat
      BY ServerAssumption
    <3>2. client \in [Conns -> ClientState] /\ sock \in [Conns -> SocketState]
      BY <3>1 DEF Init, ClientState, SocketState
    <3>3. worker \in [Workers -> WorkerState] /\ acc \in AcceptState /\ stop \in StopState
      BY <3>1 DEF Init, WorkerState, AcceptState, StopState
    <3>4. {closed, listening, stopping, deadline} \subseteq BOOLEAN
      BY DEF Init
    <3>5. QED
      BY <3>1, <3>2, <3>3, <3>4 DEF Init, TypeOK
  <2>2. Queued = {} /\ acc.conn = None /\ acc.at = "check" /\ stop.at = "running"
    BY DEF Init, Queued
  <2>3. \A w \in Workers : worker[w].conn = None /\ worker[w].at = "poll"
    BY DEF Init
  <2>4. \A c \in Conns : sock[c] = "none" /\ ~Held(c)
    BY <2>2, <2>3, ServerAssumption DEF Init, Held
  <2>5. Ownership
    BY <2>2, <2>3, <2>4 DEF Init, Ownership, Placed, Exclusive, Owned, Busy, Reading
  <2>6. Registered /\ Stages
    BY <2>2, <2>3 DEF Registered, Stages, Reading, Cleared
  <2>7. QED
    BY <2>1, <2>5, <2>6 DEF Sound
<1>2. Sound /\ [Next]_vars => Sound'
  <2> SUFFICES ASSUME Sound, [Next]_vars PROVE Sound'
    OBVIOUS
  <2>1. TypeOK'
    BY TypesKept DEF Sound, Ownership
  <2>2. Ownership'
    <3>1. CASE UNCHANGED vars
      <4>1. Placed'
        BY <3>1 DEF vars, Sound, Ownership, Placed
      <4>2. QED
        BY <3>1, <4>1, NobodyMoves DEF vars, queueing, Sound
    <3>2. QED
      BY <3>1, ClientOwnership, AcceptOwnership, WorkerOwnership, StopOwnership DEF Next, Sound
  <2>3. Registered' /\ Stages'
    BY RegisteredKept, StagesKept DEF Sound
  <2>4. QED
    BY <2>1, <2>2, <2>3 DEF Sound
<1>3. QED
  BY <1>1, <1>2, PTL DEF Spec

\* Types, and the limit of the queue.
THEOREM ServerTypeCorrect == Spec => []TypeOK
BY SoundHolds, PTL DEF Sound

\* A set with at most one element, counted.
LEMMA AtMostOne ==
    ASSUME NEW S, \A x, y \in S : x = y
    PROVE  Cardinality(S) = IF S = {} THEN 0 ELSE 1
<1>1. CASE S = {}
  BY <1>1, FS_EmptySet
<1>2. CASE S # {}
  <2>1. PICK x : x \in S
    BY <1>2
  <2>2. S = {x}
    BY <2>1
  <2>3. QED
    BY <1>2, <2>2, FS_Singleton
<1>3. QED
  BY <1>1, <1>2

\* Every open socket has one owner and no closed one has any; what a worker may block on is
\* registered.
THEOREM SocketsHaveOneOwner == Spec => []OneOwner
<1>1. Sound => OneOwner
  <2> SUFFICES ASSUME Sound PROVE OneOwner
    OBVIOUS
  <2>1. ASSUME NEW c \in Conns
        PROVE  Holders(c) = IF sock[c] \in {"open", "shut"} THEN 1 ELSE 0
    <3> DEFINE W == {w \in Workers : worker[w].conn = c}
               Q == {i \in DOMAIN queue : queue[i] = c}
               a == IF acc.conn = c THEN 1 ELSE 0
    <3>1. c # None
      BY ServerAssumption
    <3>2. \A v, w \in W : v = w
      BY <3>1 DEF Sound, Ownership, Exclusive
    <3>3. \A i, j \in Q : i = j
      BY DEF Sound, Ownership, Exclusive
    <3>4. Cardinality(W) = IF W = {} THEN 0 ELSE 1
      <4> HIDE DEF W
      <4> QED BY <3>2, AtMostOne
    <3>5. Cardinality(Q) = IF Q = {} THEN 0 ELSE 1
      <4> HIDE DEF Q
      <4> QED BY <3>3, AtMostOne
    <3>6. /\ Q # {} <=> c \in Queued
          /\ W # {} <=> \E w \in Workers : worker[w].conn = c
      BY DEF Queued
    <3>7. /\ W # {} => Q = {} /\ acc.conn # c
          /\ Q # {} => acc.conn # c
      BY <3>1, <3>6 DEF Sound, Ownership, Exclusive
    <3>8. sock[c] \in {"open", "shut"} <=> Q # {} \/ acc.conn = c \/ W # {}
      BY <3>6 DEF Sound, Ownership, Owned, Held
    <3>9. Holders(c) = Cardinality(W) + Cardinality(Q) + a
      BY DEF Holders
    <3> HIDE DEF W, Q
    <3>10. QED
      BY <3>4, <3>5, <3>7, <3>8, <3>9
  <2>2. QED
    BY <2>1 DEF Sound, Registered, Reading, OneOwner
<1>2. QED
  BY <1>1, SoundHolds, PTL

\* stop() reaches every worker that reads, and leaves no socket open.
THEOREM StopReachesReaders == Spec => []ReadersWoken
<1>1. Sound => ReadersWoken
  <2> SUFFICES ASSUME Sound PROVE ReadersWoken
    OBVIOUS
  <2>1. ASSUME stop.at = "stopped", NEW c \in Conns PROVE sock[c] \in {"none", "backlog", "closed"}
    <3>1. acc.at = "returned" /\ queue = <<>> /\ \A w \in Workers : worker[w].at = "returned"
      BY <2>1 DEF Sound, Stages, Cleared
    <3>2. acc.conn = None /\ \A w \in Workers : worker[w].conn = None
      BY <3>1 DEF Sound, Ownership, Placed, Busy, Reading
    <3>3. Queued = {}
      BY <3>1 DEF Queued
    <3>4. ~Held(c)
      BY <3>2, <3>3, ServerAssumption DEF Held
    <3>5. QED
      BY <3>4 DEF Sound, Ownership, Owned, TypeOK, SocketState
  <2>2. QED
    BY <2>1 DEF Sound, Stages, Reading, ReadersWoken
<1>2. QED
  BY <1>1, SoundHolds, PTL
=============================================================================
