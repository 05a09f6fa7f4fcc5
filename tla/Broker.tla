------------------------------- MODULE Broker -------------------------------
(***************************************************************************)
(* The ROUTER/ROUTER load balancer of src/pyqgisserver/zeromq/broker.py:   *)
(* run_broker.  One process, one loop: poll both sockets, take at most one *)
(* message from the backend (the workers), at most one from the frontend   *)
(* (the HTTP process), then hand waiting requests to available workers.    *)
(*                                                                         *)
(* A request stands for its frames (client_id, msgid, data).  The sockets  *)
(* are the ZeroMQ library as run_broker uses it: FIFO per peer, no order   *)
(* between peers, and, with ROUTER_MANDATORY, an error when the addressed  *)
(* identity has no connection.                                             *)
(*                                                                         *)
(* Definitions named Mut_... are faulty variants of the one that follows   *)
(* them, kept to show that the properties reject them.                     *)
(***************************************************************************)
EXTENDS Naturals, Sequences

CONSTANTS
    Requests,    \* the requests the HTTP process may submit
    WorkerIds,   \* socket identities of the workers
    READY,       \* WORKER_READY, the heartbeat of a worker
    maxqueue,    \* zmq:maxqueue
    timeout      \* zmq:timeout, in clock ticks

ASSUME BrokerAssumption ==
    /\ READY \notin Requests
    /\ maxqueue \in Nat
    /\ timeout \in Nat

VARIABLES
    \* run_broker's own state
    bpc,         \* where the loop is: "poll", "backend", "frontend", "dispatch"
    sockets,     \* what poll() returned
    workers,     \* set of available workers
    waiting,     \* the deque; its head is the end that pop() takes from
    tm,          \* first field of the deque's entries: time of arrival
    bnow,        \* "now" of the current dispatch loop
    \* the sockets
    frontIn,     \* requests on the frontend socket
    toBroker,    \* per worker: messages on the backend socket
    toWorker,    \* per worker: requests sent and not yet received
    peers,       \* identities the backend can route to
    clientUp,    \* the client identity is connected to the frontend
    now,         \* time()
    \* history
    stage        \* the last thing that happened to a request

brokerVars == <<bpc, sockets, workers, waiting, tm, bnow>>
wireVars == <<frontIn, toBroker, toWorker>>

Stages == {"new", "sent", "waiting", "rejected", "expired", "dispatched",
           "serving", "answered", "delivered", "undeliverable", "lost"}

Holds(s, r) == \E i \in DOMAIN s : s[i] = r

BrokerInit ==
    /\ bpc = "poll"
    /\ sockets = {}
    /\ workers = {}
    /\ waiting = <<>>
    /\ tm = [r \in Requests |-> 0]
    /\ bnow = 0
    /\ frontIn = <<>>
    /\ toBroker = [w \in WorkerIds |-> <<>>]
    /\ toWorker = [w \in WorkerIds |-> <<>>]
    /\ peers = {}
    /\ clientUp = TRUE
    /\ now = 0
    /\ stage = [r \in Requests |-> "new"]

-----------------------------------------------------------------------------
Mut_PollOneSocket ==
    /\ bpc = "poll"
    /\ sockets' = IF \E w \in WorkerIds : toBroker[w] # <<>> THEN {"backend"} ELSE {"frontend"}
    /\ frontIn # <<>> \/ "backend" \in sockets'
    /\ bpc' = IF "backend" \in sockets' THEN "backend" ELSE "frontend"
    /\ UNCHANGED <<workers, waiting, tm, bnow, wireVars, peers, clientUp, now, stage>>

(* poller.poll() blocks until a socket has a message, and returns every    *)
(* socket that has one.                                                    *)
Poll ==
    /\ bpc = "poll"
    /\ sockets' = {s \in {"backend", "frontend"} :
                     IF s = "backend" THEN \E w \in WorkerIds : toBroker[w] # <<>>
                                      ELSE frontIn # <<>>}
    /\ sockets' # {}
    /\ bpc' = IF "backend" \in sockets' THEN "backend" ELSE "frontend"
    /\ UNCHANGED <<workers, waiting, tm, bnow, wireVars, peers, clientUp, now, stage>>

(* The branch "if backend in sockets": a heartbeat marks the worker as     *)
(* available, anything else is a reply forwarded to the client.  Sending   *)
(* to a client that is gone raises, which is logged.                       *)
RecvBackend(w) ==
    /\ bpc = "backend"
    /\ toBroker[w] # <<>>
    /\ toBroker' = [toBroker EXCEPT ![w] = Tail(@)]
    /\ \/ /\ Head(toBroker[w]) = READY
          /\ workers' = workers \cup {w}
          /\ UNCHANGED stage
       \/ /\ Head(toBroker[w]) # READY
          /\ stage' = [stage EXCEPT ![Head(toBroker[w])] =
                         IF clientUp THEN "delivered" ELSE "undeliverable"]
          /\ UNCHANGED workers
    /\ bpc' = IF "frontend" \in sockets THEN "frontend" ELSE "dispatch"
    /\ bnow' = now
    /\ UNCHANGED <<sockets, waiting, tm, frontIn, toWorker, peers, clientUp, now>>

Mut_FullEarly == Len(waiting) + 1 >= maxqueue

(* The branch "if frontend in sockets": a request is refused, with the     *)
(* frames ERR 509, when the deque is full.  (Sending them to a client that *)
(* is gone raises, which is logged.)                                       *)
Full == Len(waiting) >= maxqueue

RejectRequest ==
    /\ bpc = "frontend"
    /\ frontIn # <<>>
    /\ Full
    /\ frontIn' = Tail(frontIn)
    /\ stage' = [stage EXCEPT ![Head(frontIn)] = "rejected"]
    /\ bpc' = "dispatch"
    /\ bnow' = now
    /\ UNCHANGED <<sockets, workers, waiting, tm, toBroker, toWorker, peers, clientUp, now>>

(* The same branch, the deque having room.                                 *)
AcceptRequest ==
    /\ bpc = "frontend"
    /\ frontIn # <<>>
    /\ ~ Full
    /\ frontIn' = Tail(frontIn)
    /\ waiting' = Append(waiting, Head(frontIn))
    /\ tm' = [tm EXCEPT ![Head(frontIn)] = now]
    /\ stage' = [stage EXCEPT ![Head(frontIn)] = "waiting"]
    /\ bpc' = "dispatch"
    /\ bnow' = now
    /\ UNCHANGED <<sockets, workers, toBroker, toWorker, peers, clientUp, now>>

-----------------------------------------------------------------------------
(* The loop "while workers and waiting".  A popped request is one of:      *)
(* dropped because it waited too long, sent to a worker, or, when every    *)
(* available worker turned out to be gone, pushed back where it was.  "now" *)
(* does not move during the loop, so testing the age again before each     *)
(* worker gives the code's result.                                         *)
Expired(r) == bnow > tm[r] + timeout

Dispatching == bpc = "dispatch" /\ workers # {} /\ waiting # <<>>

DropExpired ==
    /\ Dispatching
    /\ Expired(Head(waiting))
    /\ waiting' = Tail(waiting)
    /\ tm' = [tm EXCEPT ![Head(waiting)] = 0]
    /\ stage' = [stage EXCEPT ![Head(waiting)] = "expired"]
    /\ UNCHANGED <<bpc, sockets, workers, bnow, wireVars, peers, clientUp, now>>

(* workers.pop() returned w and its identity is connected.                 *)
SendToWorker(w) ==
    /\ Dispatching
    /\ ~ Expired(Head(waiting))
    /\ w \in workers
    /\ w \in peers
    /\ workers' = workers \ {w}
    /\ waiting' = Tail(waiting)
    /\ toWorker' = [toWorker EXCEPT ![w] = Append(@, Head(waiting))]
    /\ tm' = [tm EXCEPT ![Head(waiting)] = 0]
    /\ stage' = [stage EXCEPT ![Head(waiting)] = "dispatched"]
    /\ UNCHANGED <<bpc, sockets, bnow, frontIn, toBroker, peers, clientUp, now>>

Mut_UnreachableDropsRequest(w) ==
    /\ Dispatching
    /\ ~ Expired(Head(waiting))
    /\ w \in workers
    /\ w \notin peers
    /\ workers' = workers \ {w}
    /\ waiting' = Tail(waiting)
    /\ UNCHANGED <<bpc, sockets, tm, bnow, wireVars, peers, clientUp, now, stage>>

Mut_UnreachableRequeuesLast(w) ==
    /\ Dispatching
    /\ ~ Expired(Head(waiting))
    /\ w \in workers
    /\ w \notin peers
    /\ workers' = workers \ {w}
    /\ waiting' = Append(Tail(waiting), Head(waiting))
    /\ UNCHANGED <<bpc, sockets, tm, bnow, wireVars, peers, clientUp, now, stage>>

Mut_UnreachableKept(w) ==
    /\ Dispatching
    /\ ~ Expired(Head(waiting))
    /\ w \in workers
    /\ w \notin peers
    /\ workers' = workers
    /\ waiting' = waiting
    /\ UNCHANGED <<bpc, sockets, tm, bnow, wireVars, peers, clientUp, now, stage>>

(* workers.pop() returned w and sending to it raised ZMQError: the worker  *)
(* is forgotten, the request goes to the next one or back on the deque.    *)
WorkerUnreachable(w) ==
    /\ Dispatching
    /\ ~ Expired(Head(waiting))
    /\ w \in workers
    /\ w \notin peers
    /\ workers' = workers \ {w}
    /\ UNCHANGED <<bpc, sockets, waiting, tm, bnow, wireVars, peers, clientUp, now, stage>>

EndOfLoop ==
    /\ bpc = "dispatch"
    /\ workers = {} \/ waiting = <<>>
    /\ bpc' = "poll"
    /\ sockets' = {}
    /\ bnow' = 0
    /\ UNCHANGED <<workers, waiting, tm, wireVars, peers, clientUp, now, stage>>

BrokerNext ==
    \/ Poll
    \/ \E w \in WorkerIds : RecvBackend(w)
    \/ RejectRequest
    \/ AcceptRequest
    \/ DropExpired
    \/ \E w \in WorkerIds : SendToWorker(w)
    \/ \E w \in WorkerIds : WorkerUnreachable(w)
    \/ EndOfLoop
=============================================================================
