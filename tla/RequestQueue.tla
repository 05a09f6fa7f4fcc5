---------------------------- MODULE RequestQueue ----------------------------
(***************************************************************************)
(* What the broker and the worker pool promise to the HTTP process,        *)
(* without sockets, heartbeats or workers: a bounded queue.  A request is  *)
(* refused only when the queue is full, leaves the queue once, in the      *)
(* order of arrival, either dropped or given to one worker, and then ends  *)
(* once: answered, or lost with the worker.                                *)
(***************************************************************************)
EXTENDS Naturals, Sequences

CONSTANTS Requests, Capacity

VARIABLES queue, status

Init ==
    /\ queue = <<>>
    /\ status = [r \in Requests |-> "new"]

(* Requests S go from one status to another.                               *)
Moves(S, from, to) ==
    /\ \A r \in S : status[r] = from
    /\ status' = [r \in Requests |-> IF r \in S THEN to ELSE status[r]]

Submit(r) == Moves({r}, "new", "submitted") /\ UNCHANGED queue

Accept(r) ==
    /\ Len(queue) < Capacity
    /\ Moves({r}, "submitted", "queued")
    /\ queue' = Append(queue, r)

Refuse(r) ==
    /\ Len(queue) >= Capacity
    /\ Moves({r}, "submitted", "refused")
    /\ UNCHANGED queue

Leave(to) ==
    /\ queue # <<>>
    /\ Moves({Head(queue)}, "queued", to)
    /\ queue' = Tail(queue)

Finish(r) == Moves({r}, "given", "done") /\ UNCHANGED queue

Lose(S) == Moves(S, "given", "lost") /\ UNCHANGED queue

Next ==
    \/ \E r \in Requests : Submit(r) \/ Accept(r) \/ Refuse(r) \/ Finish(r)
    \/ Leave("given")
    \/ Leave("dropped")
    \/ \E S \in SUBSET Requests : Lose(S)

vars == <<queue, status>>

Spec == Init /\ [][Next]_vars
=============================================================================
