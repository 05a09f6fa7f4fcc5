---------------------------- MODULE RequestPath -----------------------------
(***************************************************************************)
(* The path of a request: the HTTP process submits it, the broker (module  *)
(* Broker) queues it and hands it to a worker, the worker answers.  This   *)
(* module adds run_worker of src/pyqgisserver/zeromq/worker.py, one        *)
(* process per worker, and what may happen to it: the supervisor or the    *)
(* OOM check kills it, a handler raises, the management API or the restart *)
(* monitor broadcasts RESTART, and the pool starts a replacement.          *)
(*                                                                         *)
(* A reply stands for the whole reply stream of a handler: the chunks are  *)
(* written by one handle_message, and the channel to the broker is FIFO.   *)
(* An exception raised after the header was written leaves the worker in   *)
(* its loop, so it is HandleMessage here.                                  *)
(*                                                                         *)
(* Definitions named Mut_... are faulty variants of the one that follows   *)
(* them, kept to show that the properties reject them.                     *)
(***************************************************************************)
EXTENDS Broker, FiniteSets

CONSTANTS
    None,            \* no request in hand
    PoolSize,        \* number of worker processes the pool keeps
    Hwm,             \* messages a worker may send ahead of the broker
    MaxTime,         \* bound of the clock
    Disruptions,     \* which of "kill", "error", "restart", "close" happen
    MaxDisruptions   \* and how many

ASSUME PathAssumption ==
    /\ None \notin Requests
    /\ PoolSize \in Nat
    /\ Hwm \in Nat \ {0}
    /\ MaxTime \in Nat
    /\ MaxDisruptions \in Nat

VARIABLES
    wpc,          \* per worker: where its loop is
    wreq,         \* per worker: the request its handler is working on
    restart,      \* the workers with a RESTART pending on their SUB socket
    disruptions   \* how many disruptions happened

workerVars == <<wpc, wreq, restart>>
vars == <<brokerVars, wireVars, peers, clientUp, now, stage, workerVars,
          disruptions>>

(* An identity is "unused" until a process takes it and is never taken     *)
(* again.                                                                  *)
WorkerPCs == {"unused", "start", "ready", "recv", "busy", "check", "exited", "killed"}

Live(w) == wpc[w] \in {"ready", "recv", "busy", "check"}

Gone(w) == wpc[w] \in {"exited", "killed"}

Init ==
    /\ BrokerInit
    /\ wpc = [w \in WorkerIds |-> "unused"]
    /\ wreq = [w \in WorkerIds |-> None]
    /\ restart = {}
    /\ disruptions = 0

Disrupt(kind) ==
    /\ kind \in Disruptions
    /\ disruptions < MaxDisruptions
    /\ disruptions' = disruptions + 1

(* The requests S, held by a process that is gone, will not be answered.   *)
LoseAll(S) ==
    stage' = [r \in Requests |-> IF r \in S THEN "lost" ELSE stage[r]]

-----------------------------------------------------------------------------
(* AsyncClient.fetch: send_multipart on the DEALER of the HTTP process.    *)
SendRequest(r) ==
    /\ clientUp
    /\ stage[r] = "new"
    /\ frontIn' = Append(frontIn, r)
    /\ stage' = [stage EXCEPT ![r] = "sent"]
    /\ UNCHANGED <<brokerVars, toBroker, toWorker, peers, clientUp, now, workerVars, disruptions>>

(* AsyncClient.terminate: the HTTP process closes its socket.              *)
ClientClose ==
    /\ Disrupt("close")
    /\ clientUp
    /\ clientUp' = FALSE
    /\ UNCHANGED <<brokerVars, wireVars, peers, now, stage, workerVars>>

-----------------------------------------------------------------------------
(* dealer_socket: a new worker connects under its own identity.            *)
Connect(w) ==
    /\ wpc[w] = "start"
    /\ wpc' = [wpc EXCEPT ![w] = "ready"]
    /\ peers' = peers \cup {w}
    /\ UNCHANGED <<brokerVars, wireVars, clientUp, now, stage, wreq, restart, disruptions>>

(* sock.send(WORKER_READY), at the top of every turn of the loop; it       *)
(* blocks at the high water mark.                                          *)
SendReady(w) ==
    /\ wpc[w] = "ready"
    /\ Len(toBroker[w]) < Hwm
    /\ toBroker' = [toBroker EXCEPT ![w] = Append(@, READY)]
    /\ wpc' = [wpc EXCEPT ![w] = "recv"]
    /\ UNCHANGED <<brokerVars, frontIn, toWorker, peers, clientUp, now, stage, wreq, restart, disruptions>>

(* get() returned a request.                                               *)
Receive(w) ==
    /\ wpc[w] = "recv"
    /\ toWorker[w] # <<>>
    /\ wreq' = [wreq EXCEPT ![w] = Head(toWorker[w])]
    /\ toWorker' = [toWorker EXCEPT ![w] = Tail(@)]
    /\ stage' = [stage EXCEPT ![Head(toWorker[w])] = "serving"]
    /\ wpc' = [wpc EXCEPT ![w] = "busy"]
    /\ UNCHANGED <<brokerVars, frontIn, toBroker, peers, clientUp, now, restart, disruptions>>

(* get() raised zmq.Again: nothing came for RCVTIMEO.  A request that is   *)
(* still on its way when this happens is one the broker sends later.       *)
RecvTimeout(w) ==
    /\ wpc[w] = "recv"
    /\ toWorker[w] = <<>>
    /\ wpc' = [wpc EXCEPT ![w] = "check"]
    /\ UNCHANGED <<brokerVars, wireVars, peers, clientUp, now, stage, wreq, restart, disruptions>>

Mut_AnswerAfterReset(w, next) ==
    /\ wpc[w] = "busy"
    /\ Len(toBroker[w]) < Hwm
    /\ wreq' = [wreq EXCEPT ![w] = None]
    /\ toBroker' = [toBroker EXCEPT ![w] = Append(@, wreq'[w])]
    /\ stage' = [stage EXCEPT ![wreq[w]] = "answered"]
    /\ wpc' = [wpc EXCEPT ![w] = next]
    /\ UNCHANGED <<brokerVars, frontIn, toWorker, peers, clientUp, now>>

(* The reply of the request in hand is sent; next is the worker's next pc. *)
Answer(w, next) ==
    /\ wpc[w] = "busy"
    /\ Len(toBroker[w]) < Hwm
    /\ toBroker' = [toBroker EXCEPT ![w] = Append(@, wreq[w])]
    /\ stage' = [stage EXCEPT ![wreq[w]] = "answered"]
    /\ wreq' = [wreq EXCEPT ![w] = None]
    /\ wpc' = [wpc EXCEPT ![w] = next]
    /\ UNCHANGED <<brokerVars, frontIn, toWorker, peers, clientUp, now>>

(* handler.handle_message() returned, having sent its reply.               *)
HandleMessage(w) == Answer(w, "check") /\ UNCHANGED <<restart, disruptions>>

(* handle_message() raised before the header was written: the worker       *)
(* answers with a status 500 and leaves its loop.                          *)
HandleError(w) ==
    /\ Answer(w, "exited")
    /\ restart' = restart \ {w}
    /\ Disrupt("error")

(* An exception before there is a handler (the request cannot be read), or *)
(* a ZMQError: it is logged, nothing is sent and the loop goes on.         *)
Abandon(w) ==
    /\ Disrupt("error")
    /\ wpc[w] = "busy"
    /\ LoseAll({wreq[w]})
    /\ wreq' = [wreq EXCEPT ![w] = None]
    /\ wpc' = [wpc EXCEPT ![w] = "check"]
    /\ UNCHANGED <<brokerVars, wireVars, peers, clientUp, now, restart>>

Mut_ReadyOnlyOnce(w) ==
    /\ wpc[w] = "check"
    /\ wpc' = [wpc EXCEPT ![w] = IF w \in restart THEN "exited" ELSE "recv"]
    /\ restart' = restart \ {w}
    /\ UNCHANGED <<brokerVars, wireVars, peers, clientUp, now, stage, wreq, disruptions>>

(* sub.recv(NOBLOCK) and postprocess: on RESTART the worker leaves its     *)
(* loop, otherwise it goes round.                                          *)
CheckBroadcast(w) ==
    /\ wpc[w] = "check"
    /\ wpc' = [wpc EXCEPT ![w] = IF w \in restart THEN "exited" ELSE "ready"]
    /\ restart' = restart \ {w}
    /\ UNCHANGED <<brokerVars, wireVars, peers, clientUp, now, stage, wreq, disruptions>>

-----------------------------------------------------------------------------
(* WorkerPoolServer.restart: RESTART is published; a worker that is still  *)
(* connecting misses it.                                                   *)
Restart ==
    /\ Disrupt("restart")
    /\ \E S \in SUBSET {w \in WorkerIds : Live(w)} :
         /\ S # {}
         /\ restart' = restart \cup S
    /\ UNCHANGED <<brokerVars, wireVars, peers, clientUp, now, stage, wpc, wreq>>

(* os.kill(pid, SIGKILL), by the supervisor or the OOM check.              *)
Kill(w) ==
    /\ Disrupt("kill")
    /\ Live(w)
    /\ wpc' = [wpc EXCEPT ![w] = "killed"]
    /\ wreq' = [wreq EXCEPT ![w] = None]
    /\ LoseAll({wreq[w]})
    /\ restart' = restart \ {w}
    /\ UNCHANGED <<brokerVars, wireVars, peers, clientUp, now>>

(* The backend socket notices that the connection of w is closed: it can   *)
(* no longer be addressed, and what it had not received is gone.           *)
PeerGone(w) ==
    /\ Gone(w)
    /\ w \in peers
    /\ peers' = peers \ {w}
    /\ LoseAll({r \in Requests : Holds(toWorker[w], r)})
    /\ toWorker' = [toWorker EXCEPT ![w] = <<>>]
    /\ UNCHANGED <<brokerVars, frontIn, toBroker, clientUp, now, workerVars, disruptions>>

(* Pool.maintain_pool starts a process, which chooses a new identity, in   *)
(* the place of each one that is gone.                                     *)
Spawn(w) ==
    /\ wpc[w] = "unused"
    /\ Cardinality({v \in WorkerIds : Live(v) \/ wpc[v] = "start"}) < PoolSize
    /\ wpc' = [wpc EXCEPT ![w] = "start"]
    /\ UNCHANGED <<brokerVars, wireVars, peers, clientUp, now, stage, wreq, restart, disruptions>>

Tick ==
    /\ now < MaxTime
    /\ now' = now + 1
    /\ UNCHANGED <<brokerVars, wireVars, peers, clientUp, stage, workerVars, disruptions>>

-----------------------------------------------------------------------------
BrokerStep == BrokerNext /\ UNCHANGED <<workerVars, disruptions>>

WorkerStep(w) ==
    \/ Connect(w)
    \/ SendReady(w)
    \/ Receive(w)
    \/ RecvTimeout(w)
    \/ HandleMessage(w)
    \/ HandleError(w)
    \/ Abandon(w)
    \/ CheckBroadcast(w)

Next ==
    \/ BrokerStep
    \/ \E w \in WorkerIds :
         WorkerStep(w) \/ Kill(w) \/ PeerGone(w) \/ Spawn(w)
    \/ \E r \in Requests : SendRequest(r)
    \/ Restart
    \/ ClientClose
    \/ Tick

(* The broker and the workers keep running, a handler ends (or is killed), *)
(* the pool is maintained, and the ROUTER socket takes from its peers in   *)
(* turn: a worker with a message is read eventually whatever the others    *)
(* send.                                                                   *)
Fairness ==
    /\ WF_vars(BrokerStep)
    /\ \A w \in WorkerIds :
         /\ SF_vars(RecvBackend(w) /\ UNCHANGED <<workerVars, disruptions>>)
         /\ WF_vars(WorkerStep(w))
         /\ WF_vars(PeerGone(w))
         /\ WF_vars(Spawn(w))

SafetySpec == Init /\ [][Next]_vars

Spec == SafetySpec /\ Fairness

-----------------------------------------------------------------------------
(* Type correctness of the broker, the sockets and the workers.            *)
TypeOK ==
    /\ bpc \in {"poll", "backend", "frontend", "dispatch"}
    /\ sockets \in SUBSET {"backend", "frontend"}
    /\ workers \in SUBSET WorkerIds
    /\ waiting \in Seq(Requests)
    /\ tm \in [Requests -> Nat]
    /\ bnow \in Nat
    /\ frontIn \in Seq(Requests)
    /\ toBroker \in [WorkerIds -> Seq(Requests \cup {READY})]
    /\ toWorker \in [WorkerIds -> Seq(Requests)]
    /\ peers \in SUBSET WorkerIds
    /\ clientUp \in BOOLEAN
    /\ now \in Nat
    /\ stage \in [Requests -> Stages]
    /\ wpc \in [WorkerIds -> WorkerPCs]
    /\ wreq \in [WorkerIds -> Requests \cup {None}]
    /\ restart \in SUBSET WorkerIds
    /\ disruptions \in Nat

(* The deque never holds more than zmq:maxqueue requests, the one pushed   *)
(* back after a failed send included.                                      *)
QueueBound == Len(waiting) <= maxqueue

(* Nothing occurs twice in s, heartbeats aside.                            *)
Once(s) == \A i, j \in DOMAIN s : s[i] = s[j] /\ s[i] # READY => i = j

(* No place holds a request twice.                                         *)
NoRepeats ==
    /\ Once(frontIn) /\ Once(waiting)
    /\ \A w \in WorkerIds : Once(toWorker[w]) /\ Once(toBroker[w])

(* No two workers hold the same request, or a reply to it.                 *)
OneHolder ==
    \A v, w \in WorkerIds, r \in Requests :
       \/ Holds(toWorker[v], r) /\ Holds(toWorker[w], r)
       \/ Holds(toBroker[v], r) /\ Holds(toBroker[w], r)
       \/ wreq[v] = r /\ wreq[w] = r
       => v = w

(* A request is where its history says.                                    *)
StagePlace ==
    \A r \in Requests :
       /\ stage[r] = "sent" <=> Holds(frontIn, r)
       /\ stage[r] = "waiting" <=> Holds(waiting, r)
       /\ stage[r] = "dispatched" <=> \E w \in WorkerIds : Holds(toWorker[w], r)
       /\ stage[r] = "serving" <=> \E w \in WorkerIds : wreq[w] = r
       /\ stage[r] = "answered" <=> \E w \in WorkerIds : Holds(toBroker[w], r)

(* A worker has a request in hand exactly while its handler runs.          *)
InHand == \A w \in WorkerIds : wpc[w] = "busy" <=> wreq[w] # None

(* A request is always in exactly the one place its history says: on one   *)
(* socket, on the deque or in the hands of one worker.  The broker's       *)
(* pop / send / push back neither loses nor duplicates it, whichever       *)
(* workers turn out to be gone, and no reply is sent twice.                *)
Placement == NoRepeats /\ OneHolder /\ StagePlace /\ InHand

(* The deque is ordered by age, so the dispatch loop, which looks at one   *)
(* end only, drops every request that waited too long before it hands out  *)
(* one that did not: an expired request never hides behind a fresh one.    *)
OldestFirst ==
    \A i, j \in DOMAIN waiting :
       i <= j => tm[waiting[i]] <= tm[waiting[j]] /\ tm[waiting[j]] <= now

(* A running worker is connected to the broker.                            *)
Connected == \A w \in WorkerIds : Live(w) => w \in peers

(* A worker blocked in recv with nothing on its way is known to the        *)
(* broker, or about to be: its heartbeat is in the set or on the wire, and *)
(* its connection is up.  No idle worker is forgotten, whatever the        *)
(* broker did with its earlier heartbeats.                                 *)
IdleVisible ==
    \A w \in WorkerIds :
       wpc[w] = "recv" /\ toWorker[w] = <<>> =>
         /\ w \in peers
         /\ w \in workers \/ Holds(toBroker[w], READY)

(* doc/configuration.rst on SERVER_RESTARTMON: "workers processes are      *)
(* restarted without dropping requests".                                   *)
RestartKeepsRequests == \A r \in Requests : stage[r] # "lost"

(* What the broker promises: see RequestQueue.                             *)
StatusOf(s) ==
    CASE s = "new" -> "new"
      [] s = "sent" -> "submitted"
      [] s = "waiting" -> "queued"
      [] s = "rejected" -> "refused"
      [] s = "expired" -> "dropped"
      [] s \in {"dispatched", "serving", "answered"} -> "given"
      [] s \in {"delivered", "undeliverable"} -> "done"
      [] s = "lost" -> "lost"

status == [r \in Requests |-> StatusOf(stage[r])]

Abstract == INSTANCE RequestQueue WITH Capacity <- maxqueue, queue <- waiting

(* The broker, its sockets and the workers implement the bounded queue:    *)
(* refused only when full, out once and in order, ended once.              *)
ImplementsQueue == Abstract!Spec

Settled == {"rejected", "expired", "delivered", "undeliverable", "lost"}

(* A submitted request is always settled in the end: refused, dropped,     *)
(* answered, or lost with its worker.  It does not stay on the deque or on *)
(* a socket while the workers idle.                                        *)
EveryRequestSettles ==
    \A r \in Requests : stage[r] = "sent" ~> stage[r] \in Settled

(* When nothing fails and nothing times out, a request is refused or       *)
(* answered, however often the workers' heartbeats arrive.                 *)
EveryRequestAnswered ==
    [](disruptions = 0 /\ now = 0) =>
       \A r \in Requests : stage[r] = "sent" ~> stage[r] \in {"rejected", "delivered"}
=============================================================================
