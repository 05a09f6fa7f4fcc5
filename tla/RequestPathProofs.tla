------------------------- MODULE RequestPathProofs --------------------------
(***************************************************************************)
(* Proofs about RequestPath, for any number of requests, workers and       *)
(* disruptions.                                                            *)
(***************************************************************************)
EXTENDS RequestPath, TLAPS

USE DEF Holds, Once

(* What a sequence holds after Append and Tail.                            *)
LEMMA HoldsAppend ==
    ASSUME NEW S, NEW s \in Seq(S), NEW e \in S
    PROVE  \A r : Holds(Append(s, e), r) <=> Holds(s, r) \/ r = e
<1>1. /\ Append(s, e) \in Seq(S)
      /\ Len(Append(s, e)) = Len(s) + 1
      /\ \A i \in 1..Len(s) : Append(s, e)[i] = s[i]
      /\ Append(s, e)[Len(s) + 1] = e
  OBVIOUS
<1>2. DOMAIN s = 1..Len(s) /\ DOMAIN Append(s, e) = 1..(Len(s) + 1) /\ Len(s) \in Nat
  BY <1>1
<1> QED
  BY <1>1, <1>2

(* What a sequence holds, its head aside, its tail holds.                  *)
LEMMA HoldsTail ==
    ASSUME NEW S, NEW s \in Seq(S), s # <<>>
    PROVE  /\ Holds(s, Head(s))
           /\ \A r : Holds(s, r) => r = Head(s) \/ Holds(Tail(s), r)
           /\ \A r : Holds(Tail(s), r) => Holds(s, r)
           /\ Once(s) /\ Head(s) # READY => ~ Holds(Tail(s), Head(s))
<1>1. /\ Len(s) \in Nat /\ Len(s) > 0
      /\ DOMAIN s = 1..Len(s)
      /\ Head(s) = s[1]
  OBVIOUS
<1>2. /\ Tail(s) \in Seq(S)
      /\ Len(Tail(s)) = Len(s) - 1
      /\ \A i \in 1..(Len(s) - 1) : Tail(s)[i] = s[i + 1]
  OBVIOUS
<1>3. DOMAIN Tail(s) = 1..(Len(s) - 1)
  BY <1>2
<1>4. ASSUME NEW r, Holds(s, r), r # Head(s)
      PROVE  Holds(Tail(s), r)
  <2>1. PICK i \in 1..Len(s) : s[i] = r
    BY <1>4, <1>1
  <2>2. i - 1 \in 1..(Len(s) - 1) /\ Tail(s)[i - 1] = r
    BY <2>1, <1>1, <1>2, <1>4
  <2> QED
    BY <2>2, <1>3
<1>5. ASSUME NEW r, Holds(Tail(s), r)
      PROVE  \E i \in 1..Len(s) : i > 1 /\ s[i] = r
  <2>1. PICK i \in 1..(Len(s) - 1) : Tail(s)[i] = r
    BY <1>5, <1>3
  <2>2. i + 1 \in 1..Len(s) /\ i + 1 > 1 /\ s[i + 1] = r
    BY <2>1, <1>1, <1>2
  <2> QED
    BY <2>2
<1> QED
  BY <1>1, <1>4, <1>5

(* Appending what is not there keeps a sequence free of repeats.           *)
LEMMA OnceAppend ==
    ASSUME NEW S, NEW s \in Seq(S), NEW e \in S, Once(s), e = READY \/ ~ Holds(s, e)
    PROVE  Once(Append(s, e))
<1>1. /\ DOMAIN s = 1..Len(s) /\ Len(s) \in Nat
      /\ DOMAIN Append(s, e) = 1..(Len(s) + 1)
      /\ \A i \in 1..Len(s) : Append(s, e)[i] = s[i]
      /\ Append(s, e)[Len(s) + 1] = e
  <2>1. Append(s, e) \in Seq(S) /\ Len(Append(s, e)) = Len(s) + 1
    OBVIOUS
  <2> QED
    BY <2>1
<1> QED
  BY <1>1

(* The tail of a sequence without repeats has none either.                 *)
LEMMA OnceTail ==
    ASSUME NEW S, NEW s \in Seq(S), s # <<>>, Once(s)
    PROVE  Once(Tail(s))
<1>1. /\ Len(s) \in Nat /\ Len(s) > 0
      /\ DOMAIN s = 1..Len(s)
      /\ Tail(s) \in Seq(S)
      /\ Len(Tail(s)) = Len(s) - 1
      /\ \A i \in 1..(Len(s) - 1) : Tail(s)[i] = s[i + 1]
  OBVIOUS
<1>2. DOMAIN Tail(s) = 1..(Len(s) - 1)
  BY <1>1
<1> QED
  BY <1>1, <1>2

(* The empty sequence holds nothing.                                       *)
LEMMA EmptyHolds == Once(<<>>) /\ \A r : ~ Holds(<<>>, r)
  OBVIOUS

HIDE DEF Holds, Once

-----------------------------------------------------------------------------
(* Type correctness.  A reply is the request a worker has in hand, so the  *)
(* invariant also says when a worker has one.                              *)
TypeInv == TypeOK /\ InHand

(* The initial states are well typed.                                      *)
LEMMA TypeInit == Init => TypeInv
  BY BrokerAssumption, PathAssumption
  DEF Init, BrokerInit, TypeInv, TypeOK, InHand, Stages, WorkerPCs

(* Every step of the broker, the sockets and the workers is well typed.    *)
LEMMA TypeStep == TypeInv /\ [Next]_vars => TypeInv'
<1> SUFFICES ASSUME TypeInv, [Next]_vars
             PROVE  TypeInv'
  OBVIOUS
<1> USE BrokerAssumption, PathAssumption DEF TypeInv, TypeOK, InHand, WorkerPCs, Stages,
      brokerVars, wireVars, workerVars
<1>1. CASE Poll /\ UNCHANGED <<workerVars, disruptions>>
  BY <1>1 DEF Poll
<1>2. ASSUME NEW w \in WorkerIds, RecvBackend(w), UNCHANGED <<workerVars, disruptions>>
      PROVE  TypeInv'
  <2>1. /\ toBroker[w] \in Seq(Requests \cup {READY})
        /\ Head(toBroker[w]) \in Requests \cup {READY}
        /\ toBroker' \in [WorkerIds -> Seq(Requests \cup {READY})]
    BY <1>2 DEF RecvBackend
  <2>2. CASE Head(toBroker[w]) = READY
    BY <1>2, <2>1, <2>2 DEF RecvBackend
  <2>3. CASE Head(toBroker[w]) # READY
    <3>1. stage' \in [Requests -> Stages]
      BY <1>2, <2>1, <2>3 DEF RecvBackend
    <3> QED
      BY <1>2, <2>1, <2>3, <3>1 DEF RecvBackend
  <2> QED
    BY <2>2, <2>3
<1>3. CASE RejectRequest /\ UNCHANGED <<workerVars, disruptions>>
  BY <1>3 DEF RejectRequest
<1>4. CASE AcceptRequest /\ UNCHANGED <<workerVars, disruptions>>
  BY <1>4 DEF AcceptRequest
<1>5. CASE DropExpired /\ UNCHANGED <<workerVars, disruptions>>
  BY <1>5 DEF DropExpired, Dispatching
<1>6. ASSUME NEW w \in WorkerIds, SendToWorker(w), UNCHANGED <<workerVars, disruptions>>
      PROVE  TypeInv'
  BY <1>6 DEF SendToWorker, Dispatching
<1>7. ASSUME NEW w \in WorkerIds, WorkerUnreachable(w), UNCHANGED <<workerVars, disruptions>>
      PROVE  TypeInv'
  BY <1>7 DEF WorkerUnreachable
<1>8. CASE EndOfLoop /\ UNCHANGED <<workerVars, disruptions>>
  BY <1>8 DEF EndOfLoop
<1>9. ASSUME NEW r \in Requests, SendRequest(r)
      PROVE  TypeInv'
  BY <1>9 DEF SendRequest
<1>10. ASSUME NEW w \in WorkerIds, Connect(w)
       PROVE  TypeInv'
  BY <1>10 DEF Connect
<1>11. ASSUME NEW w \in WorkerIds, SendReady(w)
       PROVE  TypeInv'
  BY <1>11 DEF SendReady
<1>12. ASSUME NEW w \in WorkerIds, Receive(w)
       PROVE  TypeInv'
  BY <1>12 DEF Receive
<1>13. ASSUME NEW w \in WorkerIds, RecvTimeout(w)
       PROVE  TypeInv'
  BY <1>13 DEF RecvTimeout
<1>14. ASSUME NEW w \in WorkerIds, HandleMessage(w)
       PROVE  TypeInv'
  BY <1>14 DEF HandleMessage, Answer
<1>15. ASSUME NEW w \in WorkerIds, HandleError(w)
       PROVE  TypeInv'
  BY <1>15 DEF HandleError, Answer, Disrupt
<1>16. ASSUME NEW w \in WorkerIds, Abandon(w)
       PROVE  TypeInv'
  BY <1>16 DEF Abandon, Disrupt, LoseAll
<1>17. ASSUME NEW w \in WorkerIds, CheckBroadcast(w)
       PROVE  TypeInv'
  BY <1>17 DEF CheckBroadcast
<1>18. ASSUME NEW w \in WorkerIds, Kill(w)
       PROVE  TypeInv'
  BY <1>18 DEF Kill, Disrupt, LoseAll
<1>19. ASSUME NEW w \in WorkerIds, PeerGone(w)
       PROVE  TypeInv'
  BY <1>19 DEF PeerGone, LoseAll
<1>20. ASSUME NEW w \in WorkerIds, Spawn(w)
       PROVE  TypeInv'
  BY <1>20 DEF Spawn
<1>21. CASE Restart
  BY <1>21 DEF Restart, Disrupt
<1>22. CASE ClientClose
  <2>1. clientUp' \in BOOLEAN
    BY <1>22 DEF ClientClose
  <2>2. disruptions' \in Nat
    BY <1>22 DEF ClientClose, Disrupt
  <2> QED
    BY <1>22, <2>1, <2>2, Zenon DEF ClientClose
<1>23. CASE Tick
  BY <1>23 DEF Tick
<1>24. CASE UNCHANGED vars
  BY <1>24 DEF vars
<1> QED
  BY <1>1, <1>2, <1>3, <1>4, <1>5, <1>6, <1>7, <1>8, <1>9, <1>10, <1>11, <1>12,
     <1>13, <1>14, <1>15, <1>16, <1>17, <1>18, <1>19, <1>20, <1>21, <1>22, <1>23, <1>24
  DEF Next, BrokerStep, BrokerNext, WorkerStep

(* Every variable keeps its type, whatever the number of requests and      *)
(* workers.                                                                *)
THEOREM TypeCorrect == SafetySpec => []TypeOK
<1>1. TypeInv => TypeOK
  BY DEF TypeInv
<1> QED
  BY TypeInit, TypeStep, <1>1, PTL DEF SafetySpec

-----------------------------------------------------------------------------
(* Placement: a request is in one place, the one its stage names.  Each    *)
(* step that moves a request takes it from the head of one place to the    *)
(* end of another; the lemmas above say what the two places hold then.     *)
PlaceInv == TypeInv /\ Placement

(* No request has a place at first.                                        *)
LEMMA PlacementInit == Init => Placement
  BY EmptyHolds, BrokerAssumption, PathAssumption
  DEF Init, BrokerInit, Placement, NoRepeats, OneHolder, StagePlace, InHand

(* Every step moves a request from one place to one place.                 *)
LEMMA PlacementStep == PlaceInv /\ [Next]_vars => Placement'
<1> SUFFICES ASSUME PlaceInv, [Next]_vars
             PROVE  Placement'
  OBVIOUS
<1>ty. TypeInv /\ TypeInv'
  BY TypeStep DEF PlaceInv
<1>pl. NoRepeats /\ OneHolder /\ StagePlace
  BY DEF PlaceInv, Placement
<1>goal. SUFFICES NoRepeats' /\ OneHolder' /\ StagePlace'
  BY <1>ty DEF TypeInv, Placement
<1> USE BrokerAssumption, PathAssumption DEF brokerVars, wireVars, workerVars
<1>1. ASSUME UNCHANGED <<frontIn, waiting, toBroker, toWorker, wreq, stage>>
      PROVE  NoRepeats' /\ OneHolder' /\ StagePlace'
  BY <1>pl, <1>1 DEF NoRepeats, OneHolder, StagePlace
<1>2. ASSUME NEW w \in WorkerIds, RecvBackend(w), UNCHANGED <<workerVars, disruptions>>
      PROVE  NoRepeats' /\ OneHolder' /\ StagePlace'
  <2> DEFINE m == Head(toBroker[w])
  <2>1. /\ toBroker[w] \in Seq(Requests \cup {READY}) /\ toBroker[w] # <<>>
        /\ toBroker'[w] = Tail(toBroker[w])
        /\ \A v \in WorkerIds : v # w => toBroker'[v] = toBroker[v]
        /\ UNCHANGED <<frontIn, waiting, toWorker, wreq>>
        /\ m \in Requests \cup {READY}
    BY <1>2, <1>ty DEF RecvBackend, TypeInv, TypeOK
  <2>2. \A v \in WorkerIds : Once(toBroker'[v])
    BY <2>1, <1>pl, OnceTail DEF NoRepeats
  <2>3. \A v \in WorkerIds, r \in Requests :
          Holds(toBroker'[v], r) <=> Holds(toBroker[v], r) /\ ~ (v = w /\ r = m)
    BY <2>1, <1>pl, HoldsTail DEF NoRepeats
  <2>4. Holds(toBroker[w], m)
    BY <2>1, HoldsTail
  <2>5. \A r \in Requests : stage'[r] = IF r = m
          THEN (IF clientUp THEN "delivered" ELSE "undeliverable") ELSE stage[r]
    BY <1>2, <1>ty, <2>1 DEF RecvBackend, TypeInv, TypeOK
  <2> HIDE DEF m
  <2> QED
    BY <2>1, <2>2, <2>3, <2>4, <2>5, <1>pl DEF NoRepeats, OneHolder, StagePlace
<1>3. ASSUME RejectRequest, UNCHANGED <<workerVars, disruptions>>
      PROVE  NoRepeats' /\ OneHolder' /\ StagePlace'
  <2> DEFINE m == Head(frontIn)
  <2>1. /\ frontIn \in Seq(Requests) /\ frontIn # <<>> /\ m \in Requests
        /\ frontIn' = Tail(frontIn)
        /\ UNCHANGED <<waiting, toBroker, toWorker, wreq>>
        /\ \A r \in Requests : stage'[r] = IF r = m THEN "rejected" ELSE stage[r]
    BY <1>3, <1>ty DEF RejectRequest, TypeInv, TypeOK
  <2>2. Once(frontIn') /\ Holds(frontIn, m)
    BY <2>1, <1>pl, OnceTail, HoldsTail DEF NoRepeats
  <2>3. \A r \in Requests : Holds(frontIn', r) <=> Holds(frontIn, r) /\ r # m
    BY <2>1, <1>pl, HoldsTail DEF NoRepeats
  <2> HIDE DEF m
  <2> QED
    BY <2>1, <2>2, <2>3, <1>pl DEF NoRepeats, OneHolder, StagePlace
<1>4. ASSUME AcceptRequest, UNCHANGED <<workerVars, disruptions>>
      PROVE  NoRepeats' /\ OneHolder' /\ StagePlace'
  <2> DEFINE m == Head(frontIn)
  <2>1. /\ frontIn \in Seq(Requests) /\ frontIn # <<>> /\ m \in Requests
        /\ waiting \in Seq(Requests)
        /\ frontIn' = Tail(frontIn)
        /\ waiting' = Append(waiting, m)
        /\ UNCHANGED <<toBroker, toWorker, wreq>>
        /\ \A r \in Requests : stage'[r] = IF r = m THEN "waiting" ELSE stage[r]
    BY <1>4, <1>ty DEF AcceptRequest, TypeInv, TypeOK
  <2>2. Once(frontIn') /\ Holds(frontIn, m)
    BY <2>1, <1>pl, OnceTail, HoldsTail DEF NoRepeats
  <2>3. \A r \in Requests : Holds(frontIn', r) <=> Holds(frontIn, r) /\ r # m
    BY <2>1, <1>pl, HoldsTail DEF NoRepeats
  <2>4. Once(waiting')
    BY <2>1, <2>2, <1>pl, OnceAppend DEF NoRepeats, StagePlace
  <2>5. \A r \in Requests : Holds(waiting', r) <=> Holds(waiting, r) \/ r = m
    BY <2>1, HoldsAppend
  <2> HIDE DEF m
  <2> QED
    BY <2>1, <2>2, <2>3, <2>4, <2>5, <1>pl DEF NoRepeats, OneHolder, StagePlace
<1>5. ASSUME DropExpired, UNCHANGED <<workerVars, disruptions>>
      PROVE  NoRepeats' /\ OneHolder' /\ StagePlace'
  <2> DEFINE m == Head(waiting)
  <2>1. /\ waiting \in Seq(Requests) /\ waiting # <<>> /\ m \in Requests
        /\ waiting' = Tail(waiting)
        /\ UNCHANGED <<frontIn, toBroker, toWorker, wreq>>
        /\ \A r \in Requests : stage'[r] = IF r = m THEN "expired" ELSE stage[r]
    BY <1>5, <1>ty DEF DropExpired, Dispatching, TypeInv, TypeOK
  <2>2. Once(waiting') /\ Holds(waiting, m)
    BY <2>1, <1>pl, OnceTail, HoldsTail DEF NoRepeats
  <2>3. \A r \in Requests : Holds(waiting', r) <=> Holds(waiting, r) /\ r # m
    BY <2>1, <1>pl, HoldsTail DEF NoRepeats
  <2> HIDE DEF m
  <2> QED
    BY <2>1, <2>2, <2>3, <1>pl DEF NoRepeats, OneHolder, StagePlace
<1>6. ASSUME NEW w \in WorkerIds, SendToWorker(w), UNCHANGED <<workerVars, disruptions>>
      PROVE  NoRepeats' /\ OneHolder' /\ StagePlace'
  <2> DEFINE m == Head(waiting)
  <2>1. /\ waiting \in Seq(Requests) /\ waiting # <<>> /\ m \in Requests
        /\ toWorker[w] \in Seq(Requests)
        /\ waiting' = Tail(waiting)
        /\ toWorker'[w] = Append(toWorker[w], m)
        /\ \A v \in WorkerIds : v # w => toWorker'[v] = toWorker[v]
        /\ UNCHANGED <<frontIn, toBroker, wreq>>
        /\ \A r \in Requests : stage'[r] = IF r = m THEN "dispatched" ELSE stage[r]
    BY <1>6, <1>ty DEF SendToWorker, Dispatching, TypeInv, TypeOK
  <2>2. Once(waiting') /\ Holds(waiting, m)
    BY <2>1, <1>pl, OnceTail, HoldsTail DEF NoRepeats
  <2>3. \A r \in Requests : Holds(waiting', r) <=> Holds(waiting, r) /\ r # m
    BY <2>1, <1>pl, HoldsTail DEF NoRepeats
  <2>4. \A v \in WorkerIds : ~ Holds(toWorker[v], m)
    BY <2>1, <2>2, <1>pl DEF StagePlace
  <2>5. Once(toWorker'[w]) /\ \A r : Holds(toWorker'[w], r) <=> Holds(toWorker[w], r) \/ r = m
    BY <2>1, <2>4, <1>pl, OnceAppend, HoldsAppend DEF NoRepeats
  <2>6. \A v \in WorkerIds :
          /\ Once(toWorker'[v])
          /\ \A r \in Requests :
               Holds(toWorker'[v], r) <=> Holds(toWorker[v], r) \/ (v = w /\ r = m)
    BY <2>1, <2>5, <1>pl DEF NoRepeats
  <2> HIDE DEF m
  <2> QED
    BY <2>1, <2>2, <2>3, <2>4, <2>6, <1>pl DEF NoRepeats, OneHolder, StagePlace
<1>7. ASSUME NEW q \in Requests, SendRequest(q)
      PROVE  NoRepeats' /\ OneHolder' /\ StagePlace'
  <2>1. /\ frontIn \in Seq(Requests)
        /\ frontIn' = Append(frontIn, q)
        /\ stage[q] = "new"
        /\ UNCHANGED <<waiting, toBroker, toWorker, wreq>>
        /\ \A r \in Requests : stage'[r] = IF r = q THEN "sent" ELSE stage[r]
    BY <1>7, <1>ty DEF SendRequest, TypeInv, TypeOK
  <2>2. Once(frontIn')
    BY <2>1, <1>pl, OnceAppend DEF NoRepeats, StagePlace
  <2>3. \A r \in Requests : Holds(frontIn', r) <=> Holds(frontIn, r) \/ r = q
    BY <2>1, HoldsAppend
  <2> QED
    BY <2>1, <2>2, <2>3, <1>pl DEF NoRepeats, OneHolder, StagePlace
<1>8. ASSUME NEW w \in WorkerIds, SendReady(w)
      PROVE  NoRepeats' /\ OneHolder' /\ StagePlace'
  <2>1. /\ toBroker[w] \in Seq(Requests \cup {READY})
        /\ toBroker'[w] = Append(toBroker[w], READY)
        /\ \A v \in WorkerIds : v # w => toBroker'[v] = toBroker[v]
        /\ UNCHANGED <<frontIn, waiting, toWorker, wreq, stage>>
    BY <1>8, <1>ty DEF SendReady, TypeInv, TypeOK
  <2>2. Once(toBroker'[w]) /\ \A r : Holds(toBroker'[w], r) <=> Holds(toBroker[w], r) \/ r = READY
    BY <2>1, <1>pl, OnceAppend, HoldsAppend DEF NoRepeats
  <2>3. \A v \in WorkerIds :
          /\ Once(toBroker'[v])
          /\ \A r \in Requests : Holds(toBroker'[v], r) <=> Holds(toBroker[v], r)
    BY <2>1, <2>2, <1>pl DEF NoRepeats
  <2> QED
    BY <2>1, <2>3, <1>pl DEF NoRepeats, OneHolder, StagePlace
<1>9. ASSUME NEW w \in WorkerIds, Receive(w)
      PROVE  NoRepeats' /\ OneHolder' /\ StagePlace'
  <2> DEFINE m == Head(toWorker[w])
  <2>1. /\ toWorker[w] \in Seq(Requests) /\ toWorker[w] # <<>> /\ m \in Requests
        /\ toWorker'[w] = Tail(toWorker[w])
        /\ \A v \in WorkerIds : v # w => toWorker'[v] = toWorker[v]
        /\ UNCHANGED <<frontIn, waiting, toBroker>>
        /\ \A v \in WorkerIds : wreq'[v] = IF v = w THEN m ELSE wreq[v]
        /\ \A r \in Requests : stage'[r] = IF r = m THEN "serving" ELSE stage[r]
        /\ wreq[w] = None
    BY <1>9, <1>ty DEF Receive, TypeInv, TypeOK, InHand
  <2>2. \A v \in WorkerIds : Once(toWorker'[v])
    BY <2>1, <1>pl, OnceTail DEF NoRepeats
  <2>3. \A v \in WorkerIds, r \in Requests :
          Holds(toWorker'[v], r) <=> Holds(toWorker[v], r) /\ ~ (v = w /\ r = m)
    BY <2>1, <1>pl, HoldsTail DEF NoRepeats
  <2>4. Holds(toWorker[w], m)
    BY <2>1, HoldsTail
  <2> HIDE DEF m
  <2> QED
    BY <2>1, <2>2, <2>3, <2>4, <1>pl DEF NoRepeats, OneHolder, StagePlace
<1>10. ASSUME NEW w \in WorkerIds, NEW next, Answer(w, next)
       PROVE  NoRepeats' /\ OneHolder' /\ StagePlace'
  <2> DEFINE m == wreq[w]
  <2>1. /\ toBroker[w] \in Seq(Requests \cup {READY}) /\ m \in Requests
        /\ toBroker'[w] = Append(toBroker[w], m)
        /\ \A v \in WorkerIds : v # w => toBroker'[v] = toBroker[v]
        /\ UNCHANGED <<frontIn, waiting, toWorker>>
        /\ \A v \in WorkerIds : wreq'[v] = IF v = w THEN None ELSE wreq[v]
        /\ \A r \in Requests : stage'[r] = IF r = m THEN "answered" ELSE stage[r]
    BY <1>10, <1>ty DEF Answer, TypeInv, TypeOK, InHand
  <2>2. stage[m] = "serving"
    BY <2>1, <1>pl DEF StagePlace
  <2>3. \A v \in WorkerIds : ~ Holds(toBroker[v], m)
    BY <2>1, <2>2, <1>pl DEF StagePlace
  <2>8. Once(toBroker'[w]) /\ \A r : Holds(toBroker'[w], r) <=> Holds(toBroker[w], r) \/ r = m
    BY <2>1, <2>3, <1>pl, OnceAppend, HoldsAppend DEF NoRepeats
  <2>4. \A v \in WorkerIds :
          /\ Once(toBroker'[v])
          /\ \A r \in Requests :
               Holds(toBroker'[v], r) <=> Holds(toBroker[v], r) \/ (v = w /\ r = m)
    BY <2>1, <2>8, <1>pl DEF NoRepeats
  <2>5. \A v \in WorkerIds : wreq[v] = m => v = w
    BY <2>1, <1>pl DEF OneHolder
  <2>6. m # None
    BY <2>1
  <2>7. w \in WorkerIds /\ wreq[w] = m
    OBVIOUS
  <2> HIDE DEF m
  <2> QED
    BY <2>1, <2>2, <2>3, <2>4, <2>5, <2>6, <2>7, <1>pl DEF NoRepeats, OneHolder, StagePlace
<1>11. ASSUME NEW w \in WorkerIds,
              UNCHANGED <<frontIn, waiting, toBroker, toWorker>>,
              wreq' = [wreq EXCEPT ![w] = None],
              LoseAll({wreq[w]})
       PROVE  NoRepeats' /\ OneHolder' /\ StagePlace'
  <2>1. /\ \A v \in WorkerIds : wreq'[v] = IF v = w THEN None ELSE wreq[v]
        /\ \A r \in Requests : stage'[r] = IF r = wreq[w] THEN "lost" ELSE stage[r]
    BY <1>11, <1>ty DEF LoseAll, TypeInv, TypeOK
  <2> QED
    BY <1>11, <2>1, <1>pl DEF NoRepeats, OneHolder, StagePlace
<1>12. ASSUME NEW w \in WorkerIds, PeerGone(w)
       PROVE  NoRepeats' /\ OneHolder' /\ StagePlace'
  <2>1. /\ \A v \in WorkerIds : toWorker'[v] = IF v = w THEN <<>> ELSE toWorker[v]
        /\ \A r \in Requests : stage'[r] = IF Holds(toWorker[w], r) THEN "lost" ELSE stage[r]
        /\ UNCHANGED <<frontIn, waiting, toBroker, wreq>>
    BY <1>12, <1>ty DEF PeerGone, LoseAll, TypeInv, TypeOK
  <2>2. \A v \in WorkerIds, r \in Requests :
          Holds(toWorker'[v], r) <=> Holds(toWorker[v], r) /\ v # w
    BY <2>1, EmptyHolds
  <2>3. \A v \in WorkerIds : Once(toWorker'[v])
    BY <2>1, <1>pl, EmptyHolds DEF NoRepeats
  <2> QED
    BY <2>1, <2>2, <2>3, <1>pl DEF NoRepeats, OneHolder, StagePlace
<1>13. CASE \/ Poll /\ UNCHANGED <<workerVars, disruptions>>
            \/ EndOfLoop /\ UNCHANGED <<workerVars, disruptions>>
            \/ \E w \in WorkerIds : WorkerUnreachable(w) /\ UNCHANGED <<workerVars, disruptions>>
            \/ \E w \in WorkerIds : Connect(w) \/ RecvTimeout(w) \/ CheckBroadcast(w) \/ Spawn(w)
            \/ Restart \/ ClientClose \/ Tick \/ UNCHANGED vars
  BY <1>1, <1>13, Zenon DEF Poll, EndOfLoop, WorkerUnreachable, Connect, RecvTimeout, CheckBroadcast,
     Spawn, Restart, ClientClose, Tick, vars
<1>14. ASSUME NEW w \in WorkerIds, Kill(w) \/ Abandon(w)
       PROVE  NoRepeats' /\ OneHolder' /\ StagePlace'
  BY <1>11, <1>14 DEF Kill, Abandon
<1> QED
  BY <1>2, <1>3, <1>4, <1>5, <1>6, <1>7, <1>8, <1>9, <1>10, <1>12, <1>13, <1>14
  DEF Next, BrokerStep, BrokerNext, WorkerStep, HandleMessage, HandleError

(* No interleaving of the broker's loop with connecting, heartbeating,     *)
(* serving, failing and killed workers loses a request on the way,         *)
(* duplicates it or answers it twice.                                      *)
THEOREM PlacementCorrect == SafetySpec => []Placement
<1>1. Init => PlaceInv
  BY TypeInit, PlacementInit DEF PlaceInv
<1>2. PlaceInv /\ [Next]_vars => PlaceInv'
  BY TypeStep, PlacementStep DEF PlaceInv
<1>3. PlaceInv => Placement
  BY DEF PlaceInv
<1> QED
  BY <1>1, <1>2, <1>3, PTL DEF SafetySpec

-----------------------------------------------------------------------------
(* The steps that touch the deque or its times.                            *)
LEMMA DequeSteps ==
    ASSUME TypeInv, [Next]_vars
    PROVE  \/ AcceptRequest \/ DropExpired
           \/ \E w \in WorkerIds : SendToWorker(w)
           \/ UNCHANGED <<waiting, tm>> /\ now' >= now
<1> DEFINE Same == UNCHANGED <<waiting, tm, now>>
<1>1. BrokerStep => \/ AcceptRequest \/ DropExpired
                    \/ \E w \in WorkerIds : SendToWorker(w)
                    \/ Same
  BY Zenon DEF BrokerStep, BrokerNext, Poll, RecvBackend, RejectRequest, WorkerUnreachable, EndOfLoop
<1>2. ASSUME NEW w \in WorkerIds, WorkerStep(w) \/ Kill(w) \/ PeerGone(w) \/ Spawn(w)
      PROVE  Same
  BY <1>2, Zenon DEF WorkerStep, brokerVars, Connect, SendReady, Receive, RecvTimeout, HandleMessage,
     HandleError, Answer, Abandon, CheckBroadcast, Kill, PeerGone, Spawn
<1>3. ASSUME (\E r \in Requests : SendRequest(r)) \/ Restart \/ ClientClose \/ UNCHANGED vars
      PROVE  Same
  BY <1>3, Zenon DEF brokerVars, vars, SendRequest, Restart, ClientClose
<1>4. CASE Tick
  BY <1>4 DEF Tick, brokerVars, TypeInv, TypeOK
<1>5. Same => UNCHANGED <<waiting, tm>> /\ now' >= now
  BY DEF TypeInv, TypeOK
<1> HIDE DEF Same
<1> QED
  BY <1>1, <1>2, <1>3, <1>4, <1>5 DEF Next

(* Only an accepted or a pushed back request lengthens the deque.          *)
LEMMA QueueBoundStep == TypeInv /\ QueueBound /\ [Next]_vars => QueueBound'
<1> SUFFICES ASSUME TypeInv, QueueBound, [Next]_vars
             PROVE  QueueBound'
  OBVIOUS
<1> USE BrokerAssumption DEF TypeInv, TypeOK, QueueBound
<1>1. CASE AcceptRequest
  BY <1>1 DEF AcceptRequest, Full
<1>2. CASE DropExpired
  BY <1>2 DEF DropExpired, Dispatching
<1>3. ASSUME NEW w \in WorkerIds, SendToWorker(w)
      PROVE  QueueBound'
  BY <1>3 DEF SendToWorker, Dispatching
<1> QED
  BY <1>1, <1>2, <1>3, DequeSteps

(* The deque never exceeds zmq:maxqueue.                                   *)
THEOREM QueueBounded == SafetySpec => []QueueBound
<1>1. Init => TypeInv /\ QueueBound
  BY TypeInit, BrokerAssumption DEF Init, BrokerInit, QueueBound
<1>2. TypeInv /\ QueueBound /\ [Next]_vars => (TypeInv /\ QueueBound)'
  BY TypeStep, QueueBoundStep
<1> QED
  BY <1>1, <1>2, PTL DEF SafetySpec

-----------------------------------------------------------------------------
(* The entries of a nonempty sequence without its head.                    *)
LEMMA TailEntries ==
    ASSUME NEW S, NEW s \in Seq(S), s # <<>>
    PROVE  /\ DOMAIN s = 1..Len(s) /\ Len(s) \in Nat /\ Len(s) > 0
           /\ DOMAIN Tail(s) = 1..(Len(s) - 1)
           /\ \A i \in DOMAIN Tail(s) : i + 1 \in DOMAIN s /\ Tail(s)[i] = s[i + 1]
<1>1. Tail(s) \in Seq(S) /\ Len(Tail(s)) = Len(s) - 1 /\ Len(s) \in Nat /\ Len(s) > 0
  OBVIOUS
<1>2. DOMAIN s = 1..Len(s) /\ DOMAIN Tail(s) = 1..(Len(s) - 1)
  BY <1>1
<1> QED
  BY <1>1, <1>2

(* New requests go to the young end, the pushed back one to the old end.   *)
LEMMA OldestFirstStep == PlaceInv /\ OldestFirst /\ [Next]_vars => OldestFirst'
<1> SUFFICES ASSUME PlaceInv, OldestFirst, [Next]_vars
             PROVE  OldestFirst'
  OBVIOUS
<1>ty. /\ waiting \in Seq(Requests) /\ tm \in [Requests -> Nat] /\ now \in Nat
       /\ frontIn \in Seq(Requests) /\ TypeInv
  BY DEF PlaceInv, TypeInv, TypeOK
<1>dom. /\ DOMAIN waiting = 1..Len(waiting) /\ Len(waiting) \in Nat
        /\ \A i \in DOMAIN waiting : waiting[i] \in Requests
  BY <1>ty
<1>1. CASE AcceptRequest
  <2> DEFINE m == Head(frontIn)
  <2>1. /\ m \in Requests /\ waiting' = Append(waiting, m) /\ now' = now
        /\ tm' = [tm EXCEPT ![m] = now]
        /\ frontIn # <<>>
    BY <1>1, <1>ty DEF AcceptRequest
  <2>2. ~ Holds(waiting, m)
    BY <2>1, <1>ty, HoldsTail DEF PlaceInv, Placement, StagePlace
  <2>3. \A i \in DOMAIN waiting : waiting[i] # m
    BY <2>2 DEF Holds
  <2>4. /\ DOMAIN waiting' = 1..(Len(waiting) + 1)
        /\ \A i \in DOMAIN waiting : waiting'[i] = waiting[i]
        /\ waiting'[Len(waiting) + 1] = m
    <3>1. waiting' \in Seq(Requests) /\ Len(waiting') = Len(waiting) + 1
      BY <2>1, <1>ty
    <3> QED
      BY <3>1, <2>1, <1>ty
  <2>5. /\ tm'[m] = now
        /\ \A i \in DOMAIN waiting : tm'[waiting[i]] = tm[waiting[i]]
        /\ \A i \in DOMAIN waiting : tm[waiting[i]] \in Nat /\ tm[waiting[i]] <= now
    BY <2>1, <2>3, <1>ty, <1>dom DEF OldestFirst
  <2>6. ASSUME NEW i \in DOMAIN waiting', NEW j \in DOMAIN waiting', i <= j
        PROVE  tm'[waiting'[i]] <= tm'[waiting'[j]] /\ tm'[waiting'[j]] <= now'
    <3>1. CASE j \in DOMAIN waiting
      <4>1. i \in DOMAIN waiting
        BY <3>1, <2>4, <2>6, <1>dom
      <4> QED
        BY <4>1, <3>1, <2>1, <2>4, <2>5, <2>6 DEF OldestFirst
    <3>2. CASE j \notin DOMAIN waiting
      <4>1. waiting'[j] = m
        BY <3>2, <2>4, <1>dom
      <4>2. CASE i \in DOMAIN waiting
        BY <4>1, <4>2, <2>1, <2>4, <2>5, <1>ty
      <4>3. CASE i \notin DOMAIN waiting
        <5>1. waiting'[i] = m
          BY <4>3, <2>4, <1>dom
        <5> QED
          BY <4>1, <5>1, <2>1, <2>5, <1>ty
      <4> QED
        BY <4>2, <4>3
    <3> QED
      BY <3>1, <3>2
  <2> QED
    BY <2>6 DEF OldestFirst
<1>2. ASSUME waiting # <<>>, waiting' = Tail(waiting), tm' = [tm EXCEPT ![Head(waiting)] = 0], now' = now
      PROVE  OldestFirst'
  <2>1. ~ Holds(Tail(waiting), Head(waiting))
    <3>1. Once(waiting) /\ Head(waiting) # READY
      BY <1>2, <1>ty, BrokerAssumption DEF PlaceInv, Placement, NoRepeats
    <3> QED
      BY <3>1, <1>2, <1>ty, HoldsTail
  <2>2. \A i \in DOMAIN waiting' : tm'[waiting'[i]] = tm[waiting'[i]]
    BY <2>1, <1>2, <1>ty, TailEntries DEF Holds
  <2>3. \A i \in DOMAIN waiting' : i \in Nat /\ i + 1 \in DOMAIN waiting /\ waiting'[i] = waiting[i + 1]
    BY <1>2, <1>ty, TailEntries
  <2> QED
    BY <2>2, <2>3, <1>2, <1>ty, <1>dom DEF OldestFirst
<1>3. CASE DropExpired
  BY <1>2, <1>3 DEF DropExpired, Dispatching
<1>4. ASSUME NEW w \in WorkerIds, SendToWorker(w)
      PROVE  OldestFirst'
  BY <1>2, <1>4 DEF SendToWorker, Dispatching
<1>5. CASE UNCHANGED <<waiting, tm>> /\ now' >= now
  <2>1. now' \in Nat
    BY <1>ty, TypeStep DEF TypeInv, TypeOK
  <2> QED
    BY <2>1, <1>5, <1>ty, <1>dom DEF OldestFirst
<1> QED
  BY <1>1, <1>3, <1>4, <1>5, <1>ty, DequeSteps

(* The deque stays ordered by age, whatever is pushed back.                *)
THEOREM OldestFirstCorrect == SafetySpec => []OldestFirst
<1>1. Init => PlaceInv /\ OldestFirst
  BY TypeInit, PlacementInit DEF PlaceInv, Init, BrokerInit, OldestFirst
<1>2. PlaceInv /\ OldestFirst /\ [Next]_vars => (PlaceInv /\ OldestFirst)'
  BY TypeStep, PlacementStep, OldestFirstStep DEF PlaceInv
<1> QED
  BY <1>1, <1>2, PTL DEF SafetySpec

-----------------------------------------------------------------------------
(* Idle workers.  A heartbeat is consumed only by becoming a member of the *)
(* broker's set, and the set loses a connected worker only by sending it a *)
(* request; a running worker is connected.                                 *)
IdleInv == Connected /\ IdleVisible

(* Every step keeps the heartbeat of an idle worker in the set or on a wire*)
LEMMA IdleStep == TypeInv /\ IdleInv /\ [Next]_vars => IdleInv'
<1> SUFFICES ASSUME TypeInv, IdleInv, [Next]_vars
             PROVE  IdleInv'
  OBVIOUS
<1>ty. /\ toBroker \in [WorkerIds -> Seq(Requests \cup {READY})]
       /\ toWorker \in [WorkerIds -> Seq(Requests)]
       /\ wpc \in [WorkerIds -> WorkerPCs]
  BY DEF TypeInv, TypeOK
<1> USE <1>ty DEF IdleInv, Connected, IdleVisible, Live, brokerVars, wireVars, workerVars
<1>1. CASE \/ Poll /\ UNCHANGED <<workerVars, disruptions>>
           \/ RejectRequest /\ UNCHANGED <<workerVars, disruptions>>
           \/ AcceptRequest /\ UNCHANGED <<workerVars, disruptions>>
           \/ DropExpired /\ UNCHANGED <<workerVars, disruptions>>
           \/ EndOfLoop /\ UNCHANGED <<workerVars, disruptions>>
           \/ \E r \in Requests : SendRequest(r)
           \/ Restart \/ ClientClose \/ Tick \/ UNCHANGED vars
  <2>1. UNCHANGED <<wpc, workers, toBroker, toWorker, peers>>
    BY <1>1, Zenon DEF Poll, RejectRequest, AcceptRequest, DropExpired, EndOfLoop, SendRequest,
       Restart, ClientClose, Tick, vars
  <2> QED
    BY <2>1
<1>2. ASSUME NEW w \in WorkerIds, RecvBackend(w), UNCHANGED <<workerVars, disruptions>>
      PROVE  IdleInv'
  <2>1. UNCHANGED <<wpc, toWorker, peers>> /\ workers \subseteq workers'
    BY <1>2 DEF RecvBackend
  <2>2. Holds(toBroker[w], READY) => w \in workers' \/ Holds(toBroker'[w], READY)
    BY <1>2, HoldsTail DEF RecvBackend
  <2>3. \A v \in WorkerIds : v # w => toBroker'[v] = toBroker[v]
    BY <1>2 DEF RecvBackend
  <2> QED
    BY <2>1, <2>2, <2>3
<1>3. ASSUME NEW w \in WorkerIds, SendToWorker(w), UNCHANGED <<workerVars, disruptions>>
      PROVE  IdleInv'
  <2>1. toWorker'[w] # <<>>
    <3>1. Head(waiting) \in Requests /\ toWorker[w] \in Seq(Requests)
      BY <1>3 DEF SendToWorker, Dispatching, TypeInv, TypeOK
    <3>2. toWorker'[w] = Append(toWorker[w], Head(waiting))
      BY <1>3 DEF SendToWorker
    <3>3. Holds(toWorker'[w], Head(waiting))
      BY <3>1, <3>2, HoldsAppend
    <3> QED
      BY <3>3, EmptyHolds
  <2>2. \A v \in WorkerIds : v # w => toWorker'[v] = toWorker[v] /\ (v \in workers => v \in workers')
    BY <1>3 DEF SendToWorker
  <2>3. UNCHANGED <<wpc, toBroker, peers>>
    BY <1>3 DEF SendToWorker
  <2> QED
    BY <2>1, <2>2, <2>3
<1>4. ASSUME NEW w \in WorkerIds, WorkerUnreachable(w), UNCHANGED <<workerVars, disruptions>>
      PROVE  IdleInv'
  BY <1>4 DEF WorkerUnreachable
<1>5. ASSUME NEW w \in WorkerIds, SendReady(w)
      PROVE  IdleInv'
  <2>1. Holds(toBroker'[w], READY)
    <3>1. /\ toBroker[w] \in Seq(Requests \cup {READY})
          /\ toBroker'[w] = Append(toBroker[w], READY)
      BY <1>5 DEF SendReady
    <3>2. READY \in Requests \cup {READY}
      OBVIOUS
    <3> QED
      BY <3>1, <3>2, HoldsAppend
  <2> QED
    BY <1>5, <2>1 DEF SendReady
<1>6. ASSUME NEW w \in WorkerIds, NEW next \in {"check", "exited"}, Answer(w, next)
      PROVE  IdleInv'
  BY <1>6 DEF Answer
<1>7. ASSUME NEW w \in WorkerIds, Connect(w)
      PROVE  IdleInv'
  BY <1>7 DEF Connect
<1>8. ASSUME NEW w \in WorkerIds, Receive(w)
      PROVE  IdleInv'
  BY <1>8 DEF Receive
<1>9. ASSUME NEW w \in WorkerIds, RecvTimeout(w) \/ CheckBroadcast(w) \/ Abandon(w)
      PROVE  IdleInv'
  BY <1>9 DEF RecvTimeout, CheckBroadcast, Abandon
<1>10. ASSUME NEW w \in WorkerIds, Kill(w) \/ Spawn(w)
       PROVE  IdleInv'
  BY <1>10 DEF Kill, Spawn
<1>11. ASSUME NEW w \in WorkerIds, PeerGone(w)
       PROVE  IdleInv'
  BY <1>11 DEF PeerGone, Gone
<1> HIDE DEF IdleInv
<1> QED
  BY <1>1, <1>2, <1>3, <1>4, <1>5, <1>6, <1>7, <1>8, <1>9, <1>10, <1>11
  DEF Next, BrokerStep, BrokerNext, WorkerStep, HandleMessage, HandleError

(* No idle worker is ever forgotten by the broker.                         *)
THEOREM IdleVisibleCorrect == SafetySpec => []IdleVisible
<1>1. Init => TypeInv /\ IdleInv
  <2> SUFFICES ASSUME Init PROVE TypeInv /\ IdleInv
    OBVIOUS
  <2>1. TypeInv
    BY TypeInit
  <2>2. \A w \in WorkerIds : wpc[w] = "unused"
    BY DEF Init
  <2> QED
    BY <2>1, <2>2 DEF IdleInv, Connected, IdleVisible, Live
<1>2. TypeInv /\ IdleInv /\ [Next]_vars => (TypeInv /\ IdleInv)'
  BY TypeStep, IdleStep
<1>3. IdleInv => IdleVisible
  BY DEF IdleInv
<1> QED
  BY <1>1, <1>2, <1>3, PTL DEF SafetySpec

-----------------------------------------------------------------------------
(* Refinement.  Placement says which stage the request at the head of a    *)
(* place has; each step that moves one is then a step of the bounded       *)
(* queue, and every other step leaves the queue and the statuses alone.    *)
LEMMA StatusMoves ==
    ASSUME TypeInv, TypeInv', NEW S \in SUBSET Requests, NEW from, NEW to,
           \A r \in S : status[r] = from /\ status'[r] = to,
           \A r \in Requests \ S : stage'[r] = stage[r]
    PROVE  Abstract!Moves(S, from, to)
<1>1. \A r \in Requests \ S : status'[r] = status[r]
  BY DEF status
<1>2. status' = [r \in Requests |-> status'[r]]
  BY DEF status
<1>3. status' = [r \in Requests |-> IF r \in S THEN to ELSE status[r]]
  BY <1>1, <1>2
<1> QED
  BY <1>3 DEF Abstract!Moves

(* The initial states map to initial states of the queue.                  *)
LEMMA RefinementInit == Init => Abstract!Init
  BY DEF Init, BrokerInit, Abstract!Init, status, StatusOf

(* Every step maps to a step of the queue, or to none.                     *)
LEMMA RefinementStep == PlaceInv /\ [Next]_vars => [Abstract!Next]_(Abstract!vars)
<1> SUFFICES ASSUME PlaceInv, [Next]_vars
             PROVE  [Abstract!Next]_(Abstract!vars)
  OBVIOUS
<1>ty. TypeInv /\ TypeInv'
  BY TypeStep DEF PlaceInv
<1>pl. StagePlace
  BY DEF PlaceInv, Placement
<1>seq. /\ frontIn \in Seq(Requests) /\ waiting \in Seq(Requests)
        /\ toBroker \in [WorkerIds -> Seq(Requests \cup {READY})]
        /\ toWorker \in [WorkerIds -> Seq(Requests)]
        /\ stage \in [Requests -> Stages] /\ wreq \in [WorkerIds -> Requests \cup {None}]
        /\ stage' \in [Requests -> Stages]
  BY <1>ty DEF TypeInv, TypeOK
<1> USE DEF Abstract!vars
<1>1. ASSUME UNCHANGED <<stage, waiting>>
      PROVE  UNCHANGED <<waiting, status>>
  BY <1>1 DEF status
<1>2. ASSUME NEW w \in WorkerIds, RecvBackend(w)
      PROVE  [Abstract!Next]_(Abstract!vars)
  <2> DEFINE m == Head(toBroker[w])
  <2>1. CASE m = READY
    BY <1>1, <1>2, <2>1 DEF RecvBackend
  <2>2. CASE m # READY
    <3>1. m \in Requests /\ UNCHANGED waiting /\ stage[m] = "answered"
      BY <1>2, <2>2, <1>seq, <1>pl, HoldsTail DEF RecvBackend, StagePlace
    <3>2. /\ stage'[m] \in {"delivered", "undeliverable"}
          /\ \A r \in Requests \ {m} : stage'[r] = stage[r]
      BY <1>2, <2>2, <3>1, <1>seq DEF RecvBackend
    <3>3. status[m] = "given" /\ status'[m] = "done"
      BY <3>1, <3>2 DEF status, StatusOf
    <3>4. Abstract!Finish(m)
      BY <3>1, <3>2, <3>3, <1>ty, StatusMoves DEF Abstract!Finish
    <3> QED
      BY <3>1, <3>4 DEF Abstract!Next
  <2> QED
    BY <2>1, <2>2
<1>3. ASSUME RejectRequest
      PROVE  [Abstract!Next]_(Abstract!vars)
  <2> DEFINE m == Head(frontIn)
  <2>1. m \in Requests /\ UNCHANGED waiting /\ stage[m] = "sent" /\ Len(waiting) >= maxqueue
    BY <1>3, <1>seq, <1>pl, HoldsTail DEF RejectRequest, Full, StagePlace
  <2>2. stage'[m] = "rejected" /\ \A r \in Requests \ {m} : stage'[r] = stage[r]
    BY <1>3, <2>1, <1>seq DEF RejectRequest
  <2>3. status[m] = "submitted" /\ status'[m] = "refused"
    BY <2>1, <2>2 DEF status, StatusOf
  <2>4. Abstract!Refuse(m)
    BY <2>1, <2>2, <2>3, <1>ty, StatusMoves DEF Abstract!Refuse
  <2> QED
    BY <2>1, <2>4 DEF Abstract!Next
<1>4. ASSUME AcceptRequest
      PROVE  [Abstract!Next]_(Abstract!vars)
  <2> DEFINE m == Head(frontIn)
  <2>1. m \in Requests /\ waiting' = Append(waiting, m) /\ stage[m] = "sent" /\ Len(waiting) < maxqueue
    BY <1>4, <1>seq, <1>pl, HoldsTail, BrokerAssumption DEF AcceptRequest, Full, StagePlace
  <2>2. stage'[m] = "waiting" /\ \A r \in Requests \ {m} : stage'[r] = stage[r]
    BY <1>4, <2>1, <1>seq DEF AcceptRequest
  <2>3. status[m] = "submitted" /\ status'[m] = "queued"
    BY <2>1, <2>2 DEF status, StatusOf
  <2>4. Abstract!Accept(m)
    BY <2>1, <2>2, <2>3, <1>ty, StatusMoves DEF Abstract!Accept
  <2> QED
    BY <2>1, <2>4 DEF Abstract!Next
<1>5. ASSUME waiting # <<>>, waiting' = Tail(waiting), NEW q, q \in {"expired", "dispatched"},
             stage' = [stage EXCEPT ![Head(waiting)] = q]
      PROVE  [Abstract!Next]_(Abstract!vars)
  <2> DEFINE m == Head(waiting)
             to == IF q = "expired" THEN "dropped" ELSE "given"
  <2>1. m \in Requests /\ stage[m] = "waiting"
    BY <1>5, <1>seq, <1>pl, HoldsTail DEF StagePlace
  <2>2. stage'[m] = q /\ \A r \in Requests \ {m} : stage'[r] = stage[r]
    BY <1>5, <2>1, <1>seq
  <2>3. status[m] = "queued" /\ status'[m] = to
    BY <1>5, <2>1, <2>2 DEF status, StatusOf
  <2>4. Abstract!Moves({m}, "queued", to)
    BY <2>1, <2>2, <2>3, <1>ty, StatusMoves
  <2>5. Abstract!Leave(to)
    BY <2>4, <1>5 DEF Abstract!Leave
  <2> QED
    BY <2>5, <1>5 DEF Abstract!Next
<1>6. ASSUME NEW m \in Requests, SendRequest(m)
      PROVE  [Abstract!Next]_(Abstract!vars)
  <2>1. stage[m] = "new" /\ stage'[m] = "sent" /\ \A r \in Requests \ {m} : stage'[r] = stage[r]
    BY <1>6, <1>seq DEF SendRequest
  <2>2. status[m] = "new" /\ status'[m] = "submitted"
    BY <2>1 DEF status, StatusOf
  <2>3. Abstract!Submit(m)
    BY <1>6, <2>1, <2>2, <1>ty, StatusMoves DEF Abstract!Submit, SendRequest, brokerVars
  <2> QED
    BY <2>3 DEF Abstract!Next
<1>7. ASSUME NEW m \in Requests, NEW q \in {"serving", "answered"},
             stage[m] \in {"dispatched", "serving"}, stage' = [stage EXCEPT ![m] = q],
             UNCHANGED waiting
      PROVE  [Abstract!Next]_(Abstract!vars)
  <2>1. \A r \in Requests : status'[r] = status[r]
    <3>1. \A r \in Requests : StatusOf(stage'[r]) = StatusOf(stage[r])
      BY <1>7, <1>seq DEF StatusOf
    <3> QED
      BY <3>1 DEF status
  <2>2. UNCHANGED status
    BY <2>1 DEF status
  <2> QED
    BY <1>7, <2>2
<1>8. ASSUME NEW S \in SUBSET Requests, \A r \in S : stage[r] \in {"dispatched", "serving"},
             LoseAll(S), UNCHANGED waiting
      PROVE  [Abstract!Next]_(Abstract!vars)
  <2>1. /\ \A r \in S : stage'[r] = "lost"
        /\ \A r \in Requests \ S : stage'[r] = stage[r]
    BY <1>8 DEF LoseAll
  <2>2. \A r \in S : status[r] = "given" /\ status'[r] = "lost"
    BY <1>8, <2>1 DEF status, StatusOf
  <2>3. Abstract!Lose(S)
    BY <1>8, <2>1, <2>2, <1>ty, StatusMoves DEF Abstract!Lose
  <2> QED
    BY <2>3 DEF Abstract!Next
<1>9. ASSUME NEW w \in WorkerIds, Receive(w)
      PROVE  [Abstract!Next]_(Abstract!vars)
  <2>1. Head(toWorker[w]) \in Requests /\ stage[Head(toWorker[w])] = "dispatched"
    BY <1>9, <1>seq, <1>pl, HoldsTail DEF Receive, StagePlace
  <2> QED
    BY <1>7, <1>9, <2>1 DEF Receive, brokerVars
<1>10. ASSUME NEW w \in WorkerIds, NEW next, Answer(w, next)
       PROVE  [Abstract!Next]_(Abstract!vars)
  <2>1. wreq[w] \in Requests /\ stage[wreq[w]] = "serving"
    BY <1>10, <1>seq, <1>pl, <1>ty DEF Answer, StagePlace, TypeInv, InHand
  <2> QED
    BY <1>7, <1>10, <2>1 DEF Answer, brokerVars
<1>11. ASSUME NEW w \in WorkerIds, Kill(w) \/ Abandon(w)
       PROVE  [Abstract!Next]_(Abstract!vars)
  <2> DEFINE S == {wreq[w]} \cap Requests
  <2>1. \A r \in S : stage[r] = "serving"
    BY <1>pl DEF StagePlace
  <2>2. LoseAll({wreq[w]}) => LoseAll(S)
    BY DEF LoseAll
  <2> QED
    BY <1>8, <1>11, <2>1, <2>2 DEF Kill, Abandon, brokerVars
<1>12. ASSUME NEW w \in WorkerIds, PeerGone(w)
       PROVE  [Abstract!Next]_(Abstract!vars)
  <2> DEFINE S == {r \in Requests : Holds(toWorker[w], r)}
  <2>1. \A r \in S : stage[r] = "dispatched"
    BY <1>pl DEF StagePlace
  <2> QED
    BY <1>8, <1>12, <2>1 DEF PeerGone, brokerVars
<1>13. ASSUME NEW w \in WorkerIds, SendToWorker(w)
       PROVE  [Abstract!Next]_(Abstract!vars)
  BY <1>5, <1>13 DEF SendToWorker, Dispatching
<1>14. CASE DropExpired
  BY <1>5, <1>14 DEF DropExpired, Dispatching
<1>15. CASE \/ Poll \/ EndOfLoop \/ \E w \in WorkerIds : WorkerUnreachable(w)
            \/ \E w \in WorkerIds : \/ Connect(w) \/ SendReady(w) \/ RecvTimeout(w)
                                     \/ CheckBroadcast(w) \/ Spawn(w)
            \/ Restart \/ ClientClose \/ Tick \/ UNCHANGED vars
  <2>1. UNCHANGED <<stage, waiting>>
    BY <1>15, Zenon DEF brokerVars, vars, Poll, EndOfLoop, WorkerUnreachable, Connect, SendReady,
       RecvTimeout, CheckBroadcast, Spawn, Restart, ClientClose, Tick
  <2> QED
    BY <1>1, <2>1
<1> QED
  BY <1>2, <1>3, <1>4, <1>6, <1>9, <1>10, <1>11, <1>12, <1>13, <1>14, <1>15
  DEF Next, BrokerStep, BrokerNext, WorkerStep, HandleMessage, HandleError

(* The broker and the workers implement the bounded queue.                 *)
THEOREM QueueImplemented == SafetySpec => ImplementsQueue
<1>1. Init => PlaceInv /\ Abstract!Init
  BY TypeInit, PlacementInit, RefinementInit DEF PlaceInv
<1>2. PlaceInv /\ [Next]_vars => PlaceInv' /\ [Abstract!Next]_(Abstract!vars)
  BY TypeStep, PlacementStep, RefinementStep DEF PlaceInv
<1> QED
  BY <1>1, <1>2, PTL DEF SafetySpec, ImplementsQueue, Abstract!Spec
=============================================================================
