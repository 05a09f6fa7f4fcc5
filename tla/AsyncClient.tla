---------------------------- MODULE AsyncClient -----------------------------
(***************************************************************************)
(* The HTTP process: AsyncClient and AsyncResponseHandler of               *)
(* src/pyqgisserver/zeromq/client.py, under AsyncClientHandler's           *)
(* handle_request of src/pyqgisserver/handlers/asynchandler.py.            *)
(*                                                                         *)
(* One asyncio loop runs a task per HTTP request and the tasks of _poll.   *)
(* An action is what runs between two awaits.  (send_multipart with        *)
(* DONTWAIT has a result at once, so fetch does not yield before it has    *)
(* registered its handler.)  Timers are not timed: one may fire whenever   *)
(* its wait_for is pending.                                                *)
(*                                                                         *)
(* The broker and a worker are the environment: they answer a request      *)
(* once, with one reply, a stream or ERR 509, or not at all.               *)
(*                                                                         *)
(* Definitions named Mut_... are faulty variants of the one that follows   *)
(* them, kept to show that the properties reject them.                     *)
(***************************************************************************)
EXTENDS Naturals, Sequences

CONSTANTS
    Requests,    \* the HTTP requests, and their correlation ids
    MaxParts     \* parts of data of the longest stream

ASSUME ClientAssumption == MaxParts \in Nat \ {0}

VARIABLES
    handlers,    \* keys of AsyncClient._handlers
    polling,     \* AsyncClient._polling
    scheduled,   \* number of _poll tasks created and not started
    receiving,   \* number of _poll tasks waiting for a message
    inbox,       \* messages on the client's socket
    \* AsyncResponseHandler
    future,      \* "none", "pending", "result", "exception" or "cancelled"
    status,      \* -1 as "none", 206 as "partial", any other as "whole"
    hasMore,     \* _has_more
    chunks,      \* _chunks
    \* handle_request
    task,        \* what the task awaits
    body,        \* the parts written to the HTTP client
    outcome,     \* how the request ended
    \* the environment
    backend,     \* "none", "pending", "streaming" or "finished"
    parts        \* number of parts the backend sent

pollVars == <<handlers, polling, scheduled, receiving>>
responseVars == <<future, status, hasMore, chunks>>
taskVars == <<task, body, outcome>>
backendVars == <<backend, parts>>
vars == <<pollVars, inbox, responseVars, taskVars, backendVars>>

Message == [req : Requests, kind : {"whole", "partial", "chunk", "last", "ERR"}, part : Nat]

Outcomes == {"none", "ok", "internal error", "gateway error", "timeout", "closed"}

Init ==
    /\ handlers = {}
    /\ polling = FALSE
    /\ scheduled = 0
    /\ receiving = 0
    /\ inbox = <<>>
    /\ future = [r \in Requests |-> "none"]
    /\ status = [r \in Requests |-> "none"]
    /\ hasMore = [r \in Requests |-> FALSE]
    /\ chunks = [r \in Requests |-> <<>>]
    /\ task = [r \in Requests |-> "new"]
    /\ body = [r \in Requests |-> <<>>]
    /\ outcome = [r \in Requests |-> "none"]
    /\ backend = [r \in Requests |-> "none"]
    /\ parts = [r \in Requests |-> 0]

-----------------------------------------------------------------------------
(* fetch up to its await: the request is sent, its handler registered, and *)
(* a poller created when none has set _polling.                            *)
Fetch(r) ==
    /\ task[r] = "new"
    /\ task' = [task EXCEPT ![r] = "fetching"]
    /\ handlers' = handlers \cup {r}
    /\ future' = [future EXCEPT ![r] = "pending"]
    /\ scheduled' = IF polling THEN scheduled ELSE scheduled + 1
    /\ backend' = [backend EXCEPT ![r] = "pending"]
    /\ UNCHANGED <<polling, receiving, inbox, status, hasMore, chunks, body, outcome, parts>>

(* fetch when the socket refuses the message: RequestGatewayError, 502.    *)
FetchRefused(r) ==
    /\ task[r] = "new"
    /\ task' = [task EXCEPT ![r] = "done"]
    /\ outcome' = [outcome EXCEPT ![r] = "gateway error"]
    /\ UNCHANGED <<pollVars, inbox, responseVars, body, backendVars>>

-----------------------------------------------------------------------------
(* The test "while self._handlers" of _poll by one of n waiting pollers:   *)
(* it goes on, flag saying what it did to _polling, or it leaves and       *)
(* resets the flag, which all pollers share.                               *)
PollLoop(n, flag) ==
    IF handlers' # {}
    THEN polling' = flag /\ receiving' = n
    ELSE polling' = FALSE /\ receiving' = n - 1

StartPoller ==
    /\ scheduled > 0
    /\ scheduled' = scheduled - 1
    /\ UNCHANGED handlers
    /\ PollLoop(receiving + 1, TRUE)
    /\ UNCHANGED <<inbox, responseVars, taskVars, backendVars>>

(* _set_exception and _set_result.  On a future that is no longer pending  *)
(* they raise InvalidStateError, after their assignments.                  *)
SetException(r) ==
    /\ hasMore' = [hasMore EXCEPT ![r] = FALSE]
    /\ future' = [future EXCEPT ![r] = IF @ = "pending" THEN "exception" ELSE @]
    /\ UNCHANGED <<status, chunks>>

Mut_SetResultNoTest(m) ==
    LET r == m.req IN
    /\ status' = [status EXCEPT ![r] = m.kind]
    /\ hasMore' = [hasMore EXCEPT ![r] = @ \/ m.kind = "partial"]
    /\ future' = [future EXCEPT ![r] = IF @ = "pending" THEN "result" ELSE @]
    /\ UNCHANGED chunks

SetResult(m) ==
    LET r == m.req IN
    \/ /\ status[r] = "none"
       /\ status' = [status EXCEPT ![r] = m.kind]
       /\ hasMore' = [hasMore EXCEPT ![r] = @ \/ m.kind = "partial"]
       /\ future' = [future EXCEPT ![r] = IF @ = "pending" THEN "result" ELSE @]
       /\ UNCHANGED chunks
    \/ /\ status[r] # "none"
       /\ hasMore[r]
       /\ hasMore' = [hasMore EXCEPT ![r] = m.kind # "last"]
       /\ chunks' = [chunks EXCEPT ![r] = Append(@, m)]
       /\ UNCHANGED <<status, future>>
    \/ /\ status[r] # "none"
       /\ ~ hasMore[r]
       /\ UNCHANGED responseVars

Raises(m) ==
    /\ m.kind = "ERR" \/ status[m.req] = "none"
    /\ future[m.req] # "pending"

Done(r) == ~ hasMore'[r] /\ future'[r] \in {"result", "exception", "cancelled"}

Mut_ReceiveOnce ==
    LET m == Head(inbox)
        r == m.req IN
    /\ receiving > 0
    /\ inbox # <<>>
    /\ inbox' = Tail(inbox)
    /\ IF r \in handlers
       THEN /\ IF m.kind = "ERR" THEN SetException(r) ELSE SetResult(m)
            /\ handlers' = IF Done(r) /\ ~ Raises(m) THEN handlers \ {r} ELSE handlers
       ELSE UNCHANGED <<responseVars, handlers>>
    /\ polling' = FALSE
    /\ receiving' = receiving - 1
    /\ UNCHANGED <<scheduled, taskVars, backendVars>>

(* One turn of the loop of _poll.  An exception is logged; a message       *)
(* without handler is too.                                                 *)
Receive ==
    LET m == Head(inbox)
        r == m.req IN
    /\ receiving > 0
    /\ inbox # <<>>
    /\ inbox' = Tail(inbox)
    /\ IF r \in handlers
       THEN /\ IF m.kind = "ERR" THEN SetException(r) ELSE SetResult(m)
            /\ handlers' = IF Done(r) /\ ~ Raises(m) THEN handlers \ {r} ELSE handlers
       ELSE UNCHANGED <<responseVars, handlers>>
    /\ PollLoop(receiving, polling)
    /\ UNCHANGED <<scheduled, taskVars, backendVars>>

-----------------------------------------------------------------------------
(* The task of r goes on to await what, or ends.                           *)
Await(r, what) ==
    /\ task' = [task EXCEPT ![r] = what]
    /\ UNCHANGED outcome

End(r, how) ==
    /\ task' = [task EXCEPT ![r] = "done"]
    /\ outcome' = [outcome EXCEPT ![r] = how]

(* An exception in fetch or fetch_more unregisters the handler.            *)
Forget(r) ==
    /\ handlers' = handlers \ {r}
    /\ UNCHANGED <<polling, scheduled, receiving>>

(* _get returned: a whole reply is written and the request is over; the    *)
(* first part of a stream is written and flushed.                          *)
FetchResult(r) ==
    /\ task[r] = "fetching"
    /\ future[r] = "result"
    /\ body' = [body EXCEPT ![r] = <<1>>]
    /\ IF status[r] = "partial" THEN Await(r, "flush") ELSE End(r, "ok")
    /\ UNCHANGED <<pollVars, inbox, responseVars, backendVars>>

(* _get raised RequestProxyError, which handle_request does not catch:     *)
(* tornado answers 500.                                                    *)
FetchError(r) ==
    /\ task[r] = "fetching"
    /\ future[r] = "exception"
    /\ Forget(r)
    /\ End(r, "internal error")
    /\ UNCHANGED <<inbox, responseVars, body, backendVars>>

(* The timer of wait_for fires: the future is cancelled, and the task      *)
(* resumes later.  When the future has its result already, the result is   *)
(* returned or lost, depending on the version of asyncio.                  *)
FetchTimer(r) ==
    /\ task[r] = "fetching"
    /\ future' = [future EXCEPT ![r] = IF @ = "pending" THEN "cancelled" ELSE @]
    /\ Await(r, "timeout")
    /\ UNCHANGED <<pollVars, inbox, status, hasMore, chunks, body, backendVars>>

Mut_FetchTimeoutKeepsHandler(r) ==
    /\ task[r] = "timeout"
    /\ hasMore' = [hasMore EXCEPT ![r] = FALSE]
    /\ End(r, "timeout")
    /\ UNCHANGED <<pollVars, inbox, future, status, chunks, body, backendVars>>

(* The task resumes with TimeoutError: RequestTimeoutError, 504.           *)
FetchTimeout(r) ==
    /\ task[r] = "timeout"
    /\ hasMore' = [hasMore EXCEPT ![r] = FALSE]
    /\ Forget(r)
    /\ End(r, "timeout")
    /\ UNCHANGED <<inbox, future, status, chunks, body, backendVars>>

(* flush: the part is on its way to the HTTP client.                       *)
Flushed(r) ==
    /\ task[r] = "flush"
    /\ Await(r, "chunk")
    /\ UNCHANGED <<pollVars, inbox, responseVars, body, backendVars>>

(* flush raises StreamClosedError: the HTTP client is gone.  The generator *)
(* fetch_more is closed by GeneratorExit, which is no Exception: the       *)
(* handler stays registered.                                               *)
Disconnected(r) ==
    /\ task[r] = "flush"
    /\ End(r, "closed")
    /\ UNCHANGED <<pollVars, inbox, responseVars, body, backendVars>>

Mut_NextChunkWritesLast(r) ==
    /\ task[r] = "chunk"
    /\ chunks[r] # <<>>
    /\ chunks' = [chunks EXCEPT ![r] = Tail(@)]
    /\ body' = [body EXCEPT ![r] = Append(@, Head(chunks[r]).part)]
    /\ IF Head(chunks[r]).kind = "last" THEN End(r, "ok") ELSE Await(r, "flush")
    /\ UNCHANGED <<pollVars, inbox, future, status, hasMore, backendVars>>

(* _next_chunk returned: the last message of a stream ends it, and carries *)
(* no data.                                                                *)
NextChunk(r) ==
    /\ task[r] = "chunk"
    /\ chunks[r] # <<>>
    /\ chunks' = [chunks EXCEPT ![r] = Tail(@)]
    /\ \/ /\ Head(chunks[r]).kind = "last"
          /\ End(r, "ok")
          /\ UNCHANGED body
       \/ /\ Head(chunks[r]).kind # "last"
          /\ body' = [body EXCEPT ![r] = Append(@, Head(chunks[r]).part)]
          /\ Await(r, "flush")
    /\ UNCHANGED <<pollVars, inbox, future, status, hasMore, backendVars>>

Mut_ChunkTimeoutAtEnd(r) ==
    /\ task[r] = "chunk"
    /\ ~ hasMore[r]
    /\ Forget(r)
    /\ End(r, "timeout")
    /\ UNCHANGED <<inbox, responseVars, body, backendVars>>

(* No chunk in time: the response is truncated.                            *)
ChunkTimeout(r) ==
    /\ task[r] = "chunk"
    /\ hasMore' = [hasMore EXCEPT ![r] = FALSE]
    /\ Forget(r)
    /\ End(r, "timeout")
    /\ UNCHANGED <<inbox, future, status, chunks, body, backendVars>>

-----------------------------------------------------------------------------
(* The environment.  A worker's stream: RequestHandler.send writes the     *)
(* header with the first part, then the other parts, then an empty last    *)
(* message; the broker forwards them in order, or answers ERR 509.         *)
BackendSend(r, kind, from, to) ==
    /\ backend[r] = from
    /\ backend' = [backend EXCEPT ![r] = to]
    /\ parts' = [parts EXCEPT ![r] = IF kind \in {"ERR", "last"} THEN @ ELSE @ + 1]
    /\ inbox' = Append(inbox, [req |-> r, kind |-> kind, part |-> parts'[r]])
    /\ UNCHANGED <<pollVars, responseVars, taskVars>>

BackendRefuses(r) == BackendSend(r, "ERR", "pending", "finished")
BackendReplies(r) == BackendSend(r, "whole", "pending", "finished")
BackendStreams(r) == BackendSend(r, "partial", "pending", "streaming")
BackendContinues(r) == parts[r] < MaxParts /\ BackendSend(r, "chunk", "streaming", "streaming")
BackendEnds(r) == BackendSend(r, "last", "streaming", "finished")

-----------------------------------------------------------------------------
TaskStep(r) ==
    \/ FetchResult(r) \/ FetchError(r) \/ FetchTimer(r) \/ FetchTimeout(r)
    \/ Flushed(r) \/ Disconnected(r) \/ NextChunk(r) \/ ChunkTimeout(r)

BackendStep(r) ==
    \/ BackendRefuses(r) \/ BackendReplies(r)
    \/ BackendStreams(r) \/ BackendContinues(r) \/ BackendEnds(r)

Next ==
    \/ StartPoller
    \/ Receive
    \/ \E r \in Requests : Fetch(r) \/ FetchRefused(r) \/ TaskStep(r) \/ BackendStep(r)

(* The loop runs every ready task, and timers fire; nothing is asked of    *)
(* the backend, which may never answer.                                    *)
Fairness ==
    /\ WF_vars(StartPoller)
    /\ WF_vars(Receive)
    /\ \A r \in Requests : WF_vars(TaskStep(r))

SafetySpec == Init /\ [][Next]_vars

Spec == SafetySpec /\ Fairness

-----------------------------------------------------------------------------
(* Type correctness; the status of a response is that of a first message,  *)
(* never of a continuation.                                                *)
TypeOK ==
    /\ handlers \in SUBSET Requests
    /\ polling \in BOOLEAN
    /\ scheduled \in Nat
    /\ receiving \in Nat
    /\ inbox \in Seq(Message)
    /\ future \in [Requests -> {"none", "pending", "result", "exception", "cancelled"}]
    /\ status \in [Requests -> {"none", "partial", "whole"}]
    /\ hasMore \in [Requests -> BOOLEAN]
    /\ chunks \in [Requests -> Seq(Message)]
    /\ task \in [Requests -> {"new", "fetching", "timeout", "flush", "chunk", "done"}]
    /\ body \in [Requests -> Seq(Nat)]
    /\ outcome \in [Requests -> Outcomes]
    /\ backend \in [Requests -> {"none", "pending", "streaming", "finished"}]
    /\ parts \in [Requests -> Nat]

(* While a handler is registered some poller waits for messages, or is     *)
(* about to: although pollers share one flag and any of them clears it     *)
(* when it leaves, no reply is left unread on the socket.                  *)
Attended == handlers # {} => scheduled + receiving > 0

(* The flag is never set without a poller behind it.                       *)
FlagMeansPoller == polling => receiving > 0

(* The HTTP client gets the parts of its response in order and without     *)
(* gaps, and a response that ends normally has all of them, whatever       *)
(* timers, late messages and other requests do.                            *)
BodyIntact ==
    \A r \in Requests :
       /\ body[r] = [i \in 1..Len(body[r]) |-> i]
       /\ Len(body[r]) <= parts[r]
       /\ outcome[r] = "ok" => Len(body[r]) = parts[r] /\ backend[r] = "finished"

(* A handler outlives its request only when the HTTP client went away in   *)
(* the middle of a stream whose end has not been read.                     *)
HandlersReleased ==
    \A r \in Requests :
       task[r] = "done" /\ r \in handlers => outcome[r] = "closed" /\ hasMore[r]

(* handle_request always ends: with its reply, an error or a timeout, even *)
(* when the backend never answers.                                         *)
EveryFetchEnds == \A r \in Requests : task[r] = "fetching" ~> task[r] = "done"
=============================================================================
