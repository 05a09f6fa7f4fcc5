------------------------- MODULE AsyncClientProofs --------------------------
(***************************************************************************)
(* Proofs about AsyncClient, for any number of requests.                   *)
(***************************************************************************)
EXTENDS AsyncClient, TLAPS

(* Attended is not inductive: fetch relies on the flag, so the invariant   *)
(* also says what the flag is worth.                                       *)
PollerInv ==
    /\ scheduled \in Nat
    /\ receiving \in Nat
    /\ Attended
    /\ FlagMeansPoller

(* Every step keeps it.                                                    *)
LEMMA PollerStep == PollerInv /\ [Next]_vars => PollerInv'
<1> SUFFICES ASSUME PollerInv, [Next]_vars
             PROVE  PollerInv'
  OBVIOUS
<1> USE DEF PollerInv, Attended, FlagMeansPoller
<1>1. ASSUME NEW r \in Requests, Fetch(r)
      PROVE  PollerInv'
  BY <1>1 DEF Fetch
<1>2. CASE StartPoller
  BY <1>2 DEF StartPoller, PollLoop
<1>3. CASE Receive
  <2>1. receiving > 0 /\ UNCHANGED scheduled /\ PollLoop(receiving, polling)
    BY <1>3 DEF Receive
  <2> QED
    BY <2>1 DEF PollLoop
<1>4. ASSUME UNCHANGED <<polling, scheduled, receiving>>, handlers' \subseteq handlers
      PROVE  PollerInv'
  BY <1>4
<1>5. ASSUME NEW r \in Requests, FetchError(r) \/ FetchTimeout(r) \/ ChunkTimeout(r)
      PROVE  PollerInv'
  <2>1. Forget(r)
    BY <1>5 DEF FetchError, FetchTimeout, ChunkTimeout
  <2> QED
    BY <2>1, <1>4 DEF Forget
<1>6. ASSUME NEW r \in Requests,
             \/ FetchRefused(r) \/ FetchResult(r) \/ FetchTimer(r)
             \/ Flushed(r) \/ Disconnected(r) \/ NextChunk(r)
             \/ BackendStep(r)
      PROVE  UNCHANGED pollVars
  BY <1>6, Zenon DEF FetchRefused, FetchResult, FetchTimer, Flushed, Disconnected, NextChunk,
     BackendStep, BackendRefuses, BackendReplies, BackendStreams, BackendContinues, BackendEnds,
     BackendSend
<1>7. ASSUME UNCHANGED pollVars
      PROVE  PollerInv'
  BY <1>4, <1>7 DEF pollVars
<1>8. CASE UNCHANGED vars
  BY <1>7, <1>8 DEF vars
<1> HIDE DEF PollerInv
<1> QED
  BY <1>1, <1>2, <1>3, <1>5, <1>6, <1>7, <1>8 DEF Next, TaskStep

(* No interleaving of fetches, timeouts, replies and pollers that share    *)
(* one flag leaves a registered handler without a poller.                  *)
THEOREM AlwaysAttended == SafetySpec => []Attended
<1>1. Init => PollerInv
  BY DEF Init, PollerInv, Attended, FlagMeansPoller
<1>2. PollerInv => Attended
  BY DEF PollerInv
<1> QED
  BY <1>1, <1>2, PollerStep, PTL DEF SafetySpec
-----------------------------------------------------------------------------
(* What is on the socket.  A message carries the number of its part; ERR   *)
(* carries none, and the last message of a stream repeats the number of    *)
(* parts.                                                                  *)
HasData(m) == m.kind \in {"whole", "partial", "chunk"}

Sendable(m, n, state) ==
    /\ state \in {"streaming", "finished"}
    /\ m.part <= n
    /\ m.kind = "ERR" => n = 0
    /\ m.kind = "whole" => m.part = 1 /\ n = 1 /\ state = "finished"
    /\ m.kind = "partial" => m.part = 1
    /\ m.kind = "chunk" => m.part >= 2
    /\ m.kind = "last" => m.part = n /\ n >= 1 /\ state = "finished"

InOrder(m1, m2) ==
    /\ m1.kind \in {"partial", "chunk"}
    /\ m2.kind \in {"chunk", "last"}
    /\ m1.part <= m2.part
    /\ m2.kind = "chunk" => m1.part < m2.part

WireInv ==
    /\ \A i \in DOMAIN inbox :
          Sendable(inbox[i], parts[inbox[i].req], backend[inbox[i].req])
    /\ \A i, j \in DOMAIN inbox :
          i < j /\ inbox[i].req = inbox[j].req => InOrder(inbox[i], inbox[j])

(* The number of parts that a handler has taken from the socket, as long   *)
(* as it takes more.                                                       *)
Written(r) == IF body[r] = <<>> THEN 1 ELSE Len(body[r])

Got(r) == IF status[r] = "none" THEN 0 ELSE Written(r) + Len(chunks[r])

Accepting(r) == r \in handlers /\ (status[r] = "none" \/ hasMore[r])

Carries(box, r, k) ==
    \E i \in DOMAIN box : box[i].req = r /\ HasData(box[i]) /\ box[i].part = k

(* What a handler that takes messages waits for is on the socket or not    *)
(* sent yet.                                                               *)
NothingLost(r) ==
    Accepting(r) =>
       /\ \A i \in DOMAIN inbox :
             inbox[i].req = r =>
                /\ HasData(inbox[i]) => inbox[i].part > Got(r)
                /\ status[r] # "none" => inbox[i].kind \in {"chunk", "last"}
       /\ Got(r) <= parts[r]
       /\ \A k \in Nat : Got(r) < k /\ k <= parts[r] => Carries(inbox, r, k)

(* The chunks taken and not written follow what is written.                *)
ChunksInv(r) ==
    \A i \in DOMAIN chunks[r] :
       /\ status[r] = "partial"
       /\ chunks[r][i].kind \in {"chunk", "last"}
       /\ chunks[r][i].kind = "chunk" =>
             chunks[r][i].part = Written(r) + i /\ Written(r) + i <= parts[r]
       /\ chunks[r][i].kind = "last" =>
             /\ i = Len(chunks[r])
             /\ Written(r) + i - 1 = parts[r]
             /\ backend[r] = "finished"
             /\ ~ hasMore[r]

BodyInv(r) ==
    /\ \A i \in DOMAIN body[r] : body[r][i] = i
    /\ Len(body[r]) <= parts[r]
    /\ outcome[r] = "ok" => Len(body[r]) = parts[r] /\ backend[r] = "finished"
    /\ task[r] \in {"new", "fetching", "timeout"} => body[r] = <<>>
    /\ task[r] \in {"flush", "chunk"} => body[r] # <<>>

(* What the state of the response says of the request.                     *)
ResponseInv(r) ==
    /\ status[r] = "whole" => parts[r] = 1 /\ backend[r] = "finished"
    /\ status[r] = "partial" => parts[r] >= 1 /\ backend[r] \in {"streaming", "finished"}
    /\ backend[r] \in {"none", "pending"} => parts[r] = 0
    /\ backend[r] = "streaming" => parts[r] >= 1
    /\ backend[r] = "none" => task[r] \in {"new", "done"}
    /\ task[r] = "new" => backend[r] = "none" /\ outcome[r] = "none"
    /\ hasMore[r] => status[r] = "partial"
    /\ future[r] = "pending" => status[r] = "none"
    /\ future[r] = "result" => status[r] # "none"
    /\ task[r] \in {"flush", "chunk"} => future[r] = "result" /\ status[r] = "partial"

(* Who is registered.                                                      *)
HandlersInv(r) ==
    r \in handlers =>
       /\ task[r] # "new"
       /\ future[r] # "none"
       /\ future[r] = "result" => hasMore[r]
       /\ task[r] = "done" => outcome[r] = "closed" /\ future[r] = "result"

RequestInv(r) ==
    NothingLost(r) /\ ChunksInv(r) /\ BodyInv(r) /\ ResponseInv(r) /\ HandlersInv(r)

ClientInv == TypeOK /\ WireInv /\ \A r \in Requests : RequestInv(r)

-----------------------------------------------------------------------------
(* Sequences.                                                              *)
LEMMA TailFacts ==
    ASSUME NEW S, NEW q \in Seq(S), q # <<>>
    PROVE  /\ 1 \in DOMAIN q /\ Head(q) = q[1] /\ Head(q) \in S
           /\ Tail(q) \in Seq(S) /\ Len(q) \in Nat \ {0} /\ Len(Tail(q)) = Len(q) - 1
           /\ DOMAIN Tail(q) = 1 .. (Len(q) - 1)
           /\ \A i \in DOMAIN Tail(q) : i \in Nat /\ i + 1 \in DOMAIN q /\ Tail(q)[i] = q[i + 1]
           /\ \A j \in DOMAIN q : j # 1 => j - 1 \in DOMAIN Tail(q) /\ Tail(q)[j - 1] = q[j]
  OBVIOUS

(* What Append does to the places of a sequence.                           *)
LEMMA AppendFacts ==
    ASSUME NEW S, NEW q \in Seq(S), NEW m \in S
    PROVE  /\ Append(q, m) \in Seq(S) /\ Len(q) \in Nat /\ Len(Append(q, m)) = Len(q) + 1
           /\ \A i \in DOMAIN q : i \in DOMAIN Append(q, m) /\ Append(q, m)[i] = q[i] /\ i <= Len(q)
           /\ Len(q) + 1 \in DOMAIN Append(q, m) /\ Append(q, m)[Len(q) + 1] = m
           /\ \A i \in DOMAIN Append(q, m) : i \in DOMAIN q \/ i = Len(q) + 1
  OBVIOUS

(* The counts of parts written and received are numbers.                   *)
LEMMA GotType ==
    ASSUME TypeOK, NEW r \in Requests
    PROVE  /\ body[r] \in Seq(Nat) /\ Len(body[r]) \in Nat
           /\ chunks[r] \in Seq(Message) /\ Len(chunks[r]) \in Nat
           /\ Written(r) \in Nat /\ Written(r) >= 1
           /\ Got(r) \in Nat /\ (status[r] = "none" => Got(r) = 0)
<1>1. body[r] \in Seq(Nat) /\ chunks[r] \in Seq(Message)
  BY DEF TypeOK
<1>2. Len(body[r]) \in Nat /\ Len(chunks[r]) \in Nat /\ (body[r] # <<>> => Len(body[r]) >= 1)
  BY <1>1
<1>3. Written(r) \in Nat /\ Written(r) >= 1
  BY <1>2 DEF Written
<1> QED
  BY <1>1, <1>2, <1>3 DEF Got

-----------------------------------------------------------------------------
(* What the message at the head of the socket can be, for a handler that   *)
(* is registered.                                                          *)
LEMMA HeadFacts ==
    ASSUME ClientInv, inbox # <<>>, NEW m, m = Head(inbox), m.req \in handlers
    PROVE  /\ status[m.req] = "none" => m.kind \in {"whole", "partial", "ERR"}
           /\ status[m.req] # "none" => m.kind # "ERR"
           /\ status[m.req] # "none" /\ hasMore[m.req] =>
                 /\ m.kind \in {"chunk", "last"}
                 /\ m.kind = "chunk" => m.part = Got(m.req) + 1 /\ Got(m.req) + 1 <= parts[m.req]
                 /\ m.kind = "last" => Got(m.req) = parts[m.req] /\ backend[m.req] = "finished"
<1> DEFINE r == m.req
<1>1. /\ inbox \in Seq(Message) /\ r \in Requests /\ m \in Message
      /\ 1 \in DOMAIN inbox /\ m = inbox[1]
      /\ \A i \in DOMAIN inbox : i \in Nat /\ inbox[i] \in Message /\ (i # 1 => 1 < i)
      /\ parts[r] \in Nat /\ parts \in [Requests -> Nat]
  <2>1. inbox \in Seq(Message) /\ parts \in [Requests -> Nat] /\ handlers \subseteq Requests
    BY DEF ClientInv, TypeOK
  <2> QED
    BY <2>1, TailFacts
<1>2. Sendable(m, parts[r], backend[r])
  BY <1>1 DEF ClientInv, WireInv
<1>3. \A i \in DOMAIN inbox : i # 1 /\ inbox[i].req = r => InOrder(m, inbox[i])
  BY <1>1 DEF ClientInv, WireInv
<1>4. RequestInv(r)
  BY <1>1 DEF ClientInv
<1>5. m.part \in Nat /\ m.kind \in {"whole", "partial", "chunk", "last", "ERR"}
  BY <1>1 DEF Message
<1>6. Got(r) \in Nat /\ (status[r] = "none" => Got(r) = 0)
  BY <1>1, GotType DEF ClientInv
<1>7. status[r] # "none" => parts[r] >= 1
  <2>1. status[r] \in {"none", "partial", "whole"}
    BY <1>1 DEF ClientInv, TypeOK
  <2> QED
    BY <2>1, <1>4 DEF RequestInv, ResponseInv
<1>8. status[r] # "none" => m.kind # "ERR"
  BY <1>2, <1>7, <1>1 DEF Sendable
<1>9. ASSUME Accepting(r), NEW k \in Nat, Got(r) < k, k <= parts[r]
      PROVE  \/ HasData(m) /\ m.part = k
             \/ m.kind \in {"partial", "chunk"} /\ m.part <= k
  <2>1. Carries(inbox, r, k)
    BY <1>4, <1>9 DEF RequestInv, NothingLost
  <2>2. PICK i \in DOMAIN inbox : inbox[i].req = r /\ HasData(inbox[i]) /\ inbox[i].part = k
    BY <2>1 DEF Carries
  <2>3. CASE i = 1
    BY <2>2, <2>3, <1>1
  <2>4. CASE i # 1
    BY <2>2, <2>4, <1>3 DEF InOrder
  <2> QED
    BY <2>3, <2>4
<1>10. ASSUME status[r] = "none"
       PROVE  m.kind \in {"whole", "partial", "ERR"}
  <2>1. Accepting(r) /\ Got(r) = 0
    BY <1>10, <1>6 DEF Accepting
  <2>2. m.kind # "chunk"
    <3> SUFFICES ASSUME m.kind = "chunk" PROVE FALSE
      OBVIOUS
    <3>1. m.part >= 2 /\ m.part <= parts[r]
      BY <1>2 DEF Sendable
    <3>2. m.part <= 1
      BY <3>1, <2>1, <1>9, <1>1, <1>5
    <3> QED
      BY <3>1, <3>2, <1>5
  <2>3. m.kind # "last"
    <3> SUFFICES ASSUME m.kind = "last" PROVE FALSE
      OBVIOUS
    <3>1. parts[r] >= 1
      BY <1>2 DEF Sendable
    <3> QED
      BY <3>1, <2>1, <1>9, <1>1 DEF HasData
  <2> QED
    BY <2>2, <2>3, <1>5
<1>11. ASSUME status[r] # "none", hasMore[r]
       PROVE  /\ m.kind \in {"chunk", "last"}
              /\ m.kind = "chunk" => m.part = Got(r) + 1 /\ Got(r) + 1 <= parts[r]
              /\ m.kind = "last" => Got(r) = parts[r] /\ backend[r] = "finished"
  <2>1. Accepting(r)
    BY <1>11 DEF Accepting
  <2>2. /\ m.kind \in {"chunk", "last"}
        /\ HasData(m) => m.part > Got(r)
        /\ Got(r) <= parts[r]
    BY <2>1, <1>1, <1>4, <1>11 DEF RequestInv, NothingLost
  <2>3. ASSUME m.kind = "chunk"
        PROVE  m.part = Got(r) + 1 /\ Got(r) + 1 <= parts[r]
    <3>1. m.part > Got(r) /\ m.part <= parts[r]
      BY <2>2, <2>3, <1>2 DEF HasData, Sendable
    <3>2. m.part <= Got(r) + 1
      BY <3>1, <2>1, <1>9, <1>1, <1>5, <1>6
    <3> QED
      BY <3>1, <3>2, <1>1, <1>5, <1>6
  <2>4. ASSUME m.kind = "last"
        PROVE  Got(r) = parts[r] /\ backend[r] = "finished"
    <3>1. backend[r] = "finished"
      BY <2>4, <1>2 DEF Sendable
    <3>2. ~ (Got(r) + 1 <= parts[r])
      BY <2>4, <2>1, <1>9, <1>6, <1>1 DEF HasData
    <3> QED
      BY <3>1, <3>2, <2>2, <1>1, <1>6
  <2> QED
    BY <2>2, <2>3, <2>4
<1> QED
  BY <1>8, <1>10, <1>11

-----------------------------------------------------------------------------
(* Leaving or entering the poll loop keeps the types of its variables.     *)
LEMMA PollType ==
    ASSUME NEW n \in Nat \ {0}, NEW flag \in BOOLEAN, PollLoop(n, flag)
    PROVE  polling' \in BOOLEAN /\ receiving' \in Nat
<1>1. CASE handlers' # {}
  BY <1>1, Zenon DEF PollLoop
<1>2. CASE handlers' = {}
  <2>1. polling' = FALSE /\ receiving' = n - 1
    BY <1>2, Zenon DEF PollLoop
  <2>2. n - 1 \in Nat
    OBVIOUS
  <2> QED
    BY <2>1, <2>2
<1> QED
  BY <1>1, <1>2

(* Type correctness of every step.  Only a reply can disturb it: the       *)
(* status is the kind of the first message.                                *)
LEMMA TypeStep == ClientInv /\ [Next]_vars => TypeOK'
<1> SUFFICES ASSUME ClientInv, [Next]_vars
             PROVE  TypeOK'
  OBVIOUS
<1>0. TypeOK
  BY DEF ClientInv
<1>1. ASSUME NEW r \in Requests, Fetch(r)
      PROVE  TypeOK'
  BY <1>0, <1>1 DEF Fetch, TypeOK
<1>2. ASSUME NEW r \in Requests, FetchRefused(r)
      PROVE  TypeOK'
  BY <1>0, <1>2 DEF FetchRefused, TypeOK, pollVars, responseVars, backendVars, Outcomes
<1>3. CASE StartPoller
  <2>1. receiving + 1 \in Nat \ {0} /\ TRUE \in BOOLEAN /\ scheduled' \in Nat
    BY <1>0, <1>3 DEF StartPoller, TypeOK
  <2>2. polling' \in BOOLEAN /\ receiving' \in Nat
    BY <2>1, <1>3, PollType DEF StartPoller
  <2> QED
    BY <1>0, <1>3, <2>1, <2>2 DEF StartPoller, TypeOK, responseVars, taskVars, backendVars
<1>4. CASE Receive
  <2> DEFINE m == Head(inbox)
             r == m.req
  <2>1. /\ inbox # <<>> /\ receiving > 0 /\ inbox' = Tail(inbox)
        /\ r \in handlers =>
              /\ IF m.kind = "ERR" THEN SetException(r) ELSE SetResult(m)
              /\ handlers' = IF Done(r) /\ ~ Raises(m) THEN handlers \ {r} ELSE handlers
        /\ r \notin handlers => UNCHANGED <<responseVars, handlers>>
        /\ PollLoop(receiving, polling)
        /\ UNCHANGED <<scheduled, taskVars, backendVars>>
    BY <1>4 DEF Receive
  <2>2. m \in Message /\ r \in Requests /\ inbox' \in Seq(Message)
    <3>1. inbox \in Seq(Message)
      BY <1>0 DEF TypeOK
    <3>2. m \in Message /\ inbox' \in Seq(Message)
      BY <3>1, <2>1, TailFacts
    <3> QED
      BY <3>2 DEF Message
  <2>3. handlers' \in SUBSET Requests
    BY <2>1, <1>0 DEF TypeOK
  <2>4. /\ future' \in [Requests -> {"none", "pending", "result", "exception", "cancelled"}]
        /\ status' \in [Requests -> {"none", "partial", "whole"}]
        /\ hasMore' \in [Requests -> BOOLEAN]
        /\ chunks' \in [Requests -> Seq(Message)]
    <3>0. /\ future \in [Requests -> {"none", "pending", "result", "exception", "cancelled"}]
          /\ status \in [Requests -> {"none", "partial", "whole"}]
          /\ hasMore \in [Requests -> BOOLEAN]
          /\ chunks \in [Requests -> Seq(Message)]
      BY <1>0 DEF TypeOK
    <3>1. CASE r \notin handlers
      BY <3>0, <3>1, <2>1 DEF responseVars
    <3>2. CASE r \in handlers /\ m.kind = "ERR"
      BY <3>0, <3>2, <2>1 DEF SetException
    <3>3. CASE r \in handlers /\ m.kind # "ERR"
      <4>1. SetResult(m)
        BY <3>3, <2>1
      <4>2. status[r] = "none" => m.kind \in {"whole", "partial"}
        BY <3>3, <2>1, HeadFacts
      <4>3. status[r] = "none" =>
              /\ status' = [status EXCEPT ![r] = m.kind]
              /\ hasMore' = [hasMore EXCEPT ![r] = @ \/ m.kind = "partial"]
              /\ future' = [future EXCEPT ![r] = IF @ = "pending" THEN "result" ELSE @]
              /\ UNCHANGED chunks
        BY <4>1 DEF SetResult
      <4>4. status[r] # "none" /\ hasMore[r] =>
              /\ hasMore' = [hasMore EXCEPT ![r] = m.kind # "last"]
              /\ chunks' = [chunks EXCEPT ![r] = Append(@, m)]
              /\ UNCHANGED <<status, future>>
        BY <4>1 DEF SetResult
      <4>5. status[r] # "none" /\ ~ hasMore[r] => UNCHANGED responseVars
        BY <4>1 DEF SetResult
      <4>6. CASE status[r] = "none"
        <5>1. (hasMore[r] \/ m.kind = "partial") \in BOOLEAN
          OBVIOUS
        <5> QED
          BY <3>0, <4>2, <4>3, <4>6, <2>2, <5>1
      <4>7. CASE status[r] # "none" /\ hasMore[r]
        <5>1. Append(chunks[r], m) \in Seq(Message)
          BY <3>0, <2>2, AppendFacts
        <5> QED
          BY <3>0, <4>4, <4>7, <2>2, <5>1
      <4>8. CASE status[r] # "none" /\ ~ hasMore[r]
        BY <3>0, <4>5, <4>8 DEF responseVars
      <4> QED
        BY <4>6, <4>7, <4>8
    <3> QED
      BY <3>1, <3>2, <3>3
  <2>5. polling' \in BOOLEAN /\ receiving' \in Nat /\ scheduled' \in Nat
    <3>1. polling \in BOOLEAN /\ receiving \in Nat \ {0} /\ scheduled \in Nat
      BY <2>1, <1>0 DEF TypeOK
    <3> QED
      BY <3>1, <2>1, PollType
  <2> QED
    BY <2>1, <2>2, <2>3, <2>4, <2>5, <1>0 DEF TypeOK, taskVars, backendVars
<1>5. ASSUME NEW r \in Requests, FetchResult(r)
      PROVE  TypeOK'
  <2>1. <<1>> \in Seq(Nat)
    OBVIOUS
  <2>2. body' \in [Requests -> Seq(Nat)]
    BY <2>1, <1>0, <1>5 DEF FetchResult, TypeOK
  <2> QED
    BY <1>0, <1>5, <2>2 DEF FetchResult, Await, End, TypeOK, pollVars, responseVars, backendVars,
       Outcomes
<1>6. ASSUME NEW r \in Requests, FetchError(r)
      PROVE  TypeOK'
  BY <1>0, <1>6 DEF FetchError, Forget, End, TypeOK, responseVars, backendVars, Outcomes
<1>7. ASSUME NEW r \in Requests, FetchTimer(r)
      PROVE  TypeOK'
  BY <1>0, <1>7 DEF FetchTimer, Await, TypeOK, pollVars, backendVars
<1>8. ASSUME NEW r \in Requests, FetchTimeout(r)
      PROVE  TypeOK'
  BY <1>0, <1>8 DEF FetchTimeout, Forget, End, TypeOK, backendVars, Outcomes
<1>9. ASSUME NEW r \in Requests, Flushed(r)
      PROVE  TypeOK'
  BY <1>0, <1>9 DEF Flushed, Await, TypeOK, pollVars, responseVars, backendVars
<1>10. ASSUME NEW r \in Requests, Disconnected(r)
       PROVE  TypeOK'
  BY <1>0, <1>10 DEF Disconnected, End, TypeOK, pollVars, responseVars, backendVars, Outcomes
<1>11. ASSUME NEW r \in Requests, NextChunk(r)
       PROVE  TypeOK'
  <2>1. chunks[r] \in Seq(Message) /\ chunks[r] # <<>> /\ body[r] \in Seq(Nat)
    BY <1>0, <1>11 DEF NextChunk, TypeOK
  <2>2. Tail(chunks[r]) \in Seq(Message) /\ Head(chunks[r]) \in Message
    BY <2>1, TailFacts
  <2>3. Append(body[r], Head(chunks[r]).part) \in Seq(Nat)
    BY <2>1, <2>2, AppendFacts DEF Message
  <2>4. chunks' \in [Requests -> Seq(Message)] /\ body' \in [Requests -> Seq(Nat)]
    BY <2>2, <2>3, <1>0, <1>11 DEF NextChunk, TypeOK
  <2> QED
    BY <2>4, <1>0, <1>11 DEF NextChunk, Await, End, TypeOK, pollVars, backendVars, Outcomes
<1>12. ASSUME NEW r \in Requests, ChunkTimeout(r)
       PROVE  TypeOK'
  BY <1>0, <1>12 DEF ChunkTimeout, Forget, End, TypeOK, backendVars, Outcomes
<1>13. ASSUME NEW r \in Requests, NEW kind \in {"whole", "partial", "chunk", "last", "ERR"},
              NEW from, NEW to \in {"streaming", "finished"}, BackendSend(r, kind, from, to)
       PROVE  TypeOK'
  <2>1. backend' \in [Requests -> {"none", "pending", "streaming", "finished"}]
    BY <1>0, <1>13 DEF BackendSend, TypeOK
  <2>2. parts' \in [Requests -> Nat]
    BY <1>0, <1>13 DEF BackendSend, TypeOK
  <2>3. [req |-> r, kind |-> kind, part |-> parts'[r]] \in Message
    BY <2>2 DEF Message
  <2>4. inbox' \in Seq(Message)
    BY <2>3, <1>0, <1>13, AppendFacts DEF BackendSend, TypeOK
  <2> QED
    BY <2>1, <2>2, <2>4, <1>0, <1>13 DEF BackendSend, TypeOK, pollVars, responseVars, taskVars
<1>14. ASSUME NEW r \in Requests, BackendStep(r)
       PROVE  TypeOK'
  BY <1>13, <1>14 DEF BackendStep, BackendRefuses, BackendReplies, BackendStreams,
     BackendContinues, BackendEnds
<1>15. CASE UNCHANGED vars
  BY <1>0, <1>15 DEF TypeOK, vars, pollVars, responseVars, taskVars, backendVars
<1> QED
  BY <1>1, <1>2, <1>3, <1>4, <1>5, <1>6, <1>7, <1>8, <1>9, <1>10, <1>11, <1>12, <1>14, <1>15
     DEF Next, TaskStep

-----------------------------------------------------------------------------
(* Every step keeps the messages on the socket in order.                   *)
LEMMA WireStep == ClientInv /\ [Next]_vars => WireInv'
<1> SUFFICES ASSUME ClientInv, [Next]_vars
             PROVE  WireInv'
  OBVIOUS
<1>0. /\ TypeOK /\ WireInv /\ \A r \in Requests : RequestInv(r)
      /\ inbox \in Seq(Message) /\ parts \in [Requests -> Nat]
      /\ backend \in [Requests -> {"none", "pending", "streaming", "finished"}]
      /\ \A i \in DOMAIN inbox : i \in Nat /\ inbox[i] \in Message /\ inbox[i].req \in Requests
                                 /\ inbox[i].part \in Nat
  <2>1. /\ TypeOK /\ WireInv /\ \A r \in Requests : RequestInv(r)
        /\ inbox \in Seq(Message) /\ parts \in [Requests -> Nat]
        /\ backend \in [Requests -> {"none", "pending", "streaming", "finished"}]
    BY DEF ClientInv, TypeOK
  <2>2. \A i \in DOMAIN inbox : i \in Nat /\ inbox[i] \in Message
    BY <2>1
  <2> QED
    BY <2>1, <2>2 DEF Message
<1>1. ASSUME UNCHANGED <<inbox, backend, parts>>
      PROVE  WireInv'
  BY <1>0, <1>1 DEF WireInv
<1>2. ASSUME NEW r \in Requests, Fetch(r)
      PROVE  WireInv'
  <2>1. backend[r] = "none"
    BY <1>0, <1>2 DEF Fetch, RequestInv, ResponseInv
  <2>2. \A i \in DOMAIN inbox : inbox[i].req # r
    BY <1>0, <2>1 DEF WireInv, Sendable
  <2>3. UNCHANGED <<inbox, parts>> /\ \A q \in Requests : q # r => backend'[q] = backend[q]
    BY <1>0, <1>2 DEF Fetch
  <2> QED
    BY <1>0, <2>2, <2>3 DEF WireInv
<1>3. CASE Receive
  <2>1. inbox # <<>> /\ inbox' = Tail(inbox) /\ UNCHANGED <<backend, parts>>
    BY <1>3 DEF Receive, backendVars
  <2>2. \A i \in DOMAIN inbox' : i \in Nat /\ i + 1 \in DOMAIN inbox /\ inbox'[i] = inbox[i + 1]
    BY <2>1, <1>0, TailFacts
  <2>3. \A i \in DOMAIN inbox' : Sendable(inbox'[i], parts'[inbox'[i].req], backend'[inbox'[i].req])
    BY <2>1, <2>2, <1>0 DEF WireInv
  <2>4. ASSUME NEW i \in DOMAIN inbox', NEW j \in DOMAIN inbox', i < j, inbox'[i].req = inbox'[j].req
        PROVE  InOrder(inbox'[i], inbox'[j])
    <3>1. i + 1 < j + 1
      BY <2>2, <2>4
    <3> QED
      BY <3>1, <2>2, <2>4, <1>0 DEF WireInv
  <2> QED
    BY <2>3, <2>4 DEF WireInv
<1>4. ASSUME NEW r \in Requests, NEW kind \in {"whole", "partial", "chunk", "last", "ERR"},
             NEW from, NEW to,
             BackendSend(r, kind, from, to),
             \/ from = "pending" /\ kind \in {"whole", "ERR"} /\ to = "finished"
             \/ from = "pending" /\ kind = "partial" /\ to = "streaming"
             \/ from = "streaming" /\ kind = "chunk" /\ to = "streaming"
             \/ from = "streaming" /\ kind = "last" /\ to = "finished"
      PROVE  WireInv'
  <2> DEFINE m == [req |-> r, kind |-> kind, part |-> parts'[r]]
  <2>1. /\ backend[r] = from /\ backend' = [backend EXCEPT ![r] = to]
        /\ parts' = [parts EXCEPT ![r] = IF kind \in {"ERR", "last"} THEN @ ELSE @ + 1]
        /\ inbox' = Append(inbox, m)
    BY <1>4 DEF BackendSend
  <2>2. /\ backend'[r] = to
        /\ parts'[r] = IF kind \in {"ERR", "last"} THEN parts[r] ELSE parts[r] + 1
        /\ parts'[r] \in Nat /\ parts[r] \in Nat
        /\ \A q \in Requests : q # r => backend'[q] = backend[q] /\ parts'[q] = parts[q]
    BY <2>1, <1>0
  <2>3. /\ from = "pending" => parts[r] = 0
        /\ from = "streaming" => parts[r] >= 1
    BY <2>1, <1>0 DEF RequestInv, ResponseInv
  <2>4. m \in Message /\ m.req = r /\ m.kind = kind /\ m.part = parts'[r]
    BY <2>2 DEF Message
  <2> HIDE DEF m
  <2>5. Sendable(m, parts'[r], backend'[r])
    BY <2>2, <2>3, <2>4, <1>4 DEF Sendable
  <2>6. ASSUME NEW i \in DOMAIN inbox, inbox[i].req = r
        PROVE  /\ from = "streaming"
               /\ inbox[i].kind \in {"partial", "chunk"}
               /\ inbox[i].part <= parts[r]
               /\ Sendable(inbox[i], parts'[r], backend'[r])
    <3>1. Sendable(inbox[i], parts[r], backend[r]) /\ inbox[i].part \in Nat
      BY <2>6, <1>0 DEF WireInv
    <3>2. inbox[i].kind \in {"whole", "partial", "chunk", "last", "ERR"}
      BY <1>0 DEF Message
    <3>3. from = "streaming"
      BY <3>1, <2>1, <1>4 DEF Sendable
    <3>4. inbox[i].kind \in {"partial", "chunk"} /\ inbox[i].part <= parts[r]
      BY <3>1, <3>2, <3>3, <2>1, <2>2, <2>3 DEF Sendable
    <3> QED
      BY <3>1, <3>3, <3>4, <2>2, <1>4 DEF Sendable
  <2>7. /\ \A i \in DOMAIN inbox' : i \in DOMAIN inbox \/ i = Len(inbox) + 1
        /\ \A i \in DOMAIN inbox : inbox'[i] = inbox[i] /\ i <= Len(inbox)
        /\ inbox'[Len(inbox) + 1] = m
        /\ Len(inbox) \in Nat
    BY <2>1, <2>4, <1>0, AppendFacts
  <2>8. \A i \in DOMAIN inbox' : Sendable(inbox'[i], parts'[inbox'[i].req], backend'[inbox'[i].req])
    <3>1. ASSUME NEW i \in DOMAIN inbox
          PROVE  Sendable(inbox[i], parts'[inbox[i].req], backend'[inbox[i].req])
      BY <2>2, <2>6, <1>0 DEF WireInv
    <3> QED
      BY <3>1, <2>4, <2>5, <2>7
  <2>9. ASSUME NEW i \in DOMAIN inbox', NEW j \in DOMAIN inbox', i < j, inbox'[i].req = inbox'[j].req
        PROVE  InOrder(inbox'[i], inbox'[j])
    <3>1. i \in DOMAIN inbox
      BY <2>7, <2>9, <1>0
    <3>2. CASE j \in DOMAIN inbox
      BY <3>1, <3>2, <2>7, <2>9, <1>0 DEF WireInv
    <3>3. CASE j = Len(inbox) + 1
      <4>1. inbox[i].req = r /\ inbox'[i] = inbox[i] /\ inbox'[j] = m
        BY <3>1, <3>3, <2>4, <2>7, <2>9
      <4>2. from = "streaming" /\ inbox[i].kind \in {"partial", "chunk"} /\ inbox[i].part <= parts[r]
        BY <4>1, <3>1, <2>6
      <4>3. kind \in {"chunk", "last"} /\ inbox[i].part \in Nat
        BY <4>2, <1>4, <3>1, <1>0
      <4> QED
        BY <4>1, <4>2, <4>3, <2>2, <2>4 DEF InOrder
    <3> QED
      BY <3>2, <3>3, <2>7
  <2> QED
    BY <2>8, <2>9 DEF WireInv
<1>5. ASSUME NEW r \in Requests, BackendStep(r)
      PROVE  WireInv'
  BY <1>4, <1>5 DEF BackendStep, BackendRefuses, BackendReplies, BackendStreams,
     BackendContinues, BackendEnds
<1>6. ASSUME NEW r \in Requests, FetchRefused(r) \/ TaskStep(r)
      PROVE  UNCHANGED <<inbox, backend, parts>>
  BY <1>6 DEF FetchRefused, TaskStep, FetchResult, FetchError, FetchTimer, FetchTimeout, Flushed,
     Disconnected, NextChunk, ChunkTimeout, backendVars
<1>7. CASE StartPoller
  BY <1>1, <1>7 DEF StartPoller, backendVars
<1>8. CASE UNCHANGED vars
  BY <1>1, <1>8 DEF vars, backendVars
<1> QED
  BY <1>1, <1>2, <1>3, <1>5, <1>6, <1>7, <1>8 DEF Next

-----------------------------------------------------------------------------
(* A request that a step does not concern.                                 *)
Same(q) ==
    /\ q \in handlers' => q \in handlers
    /\ future'[q] = future[q] /\ status'[q] = status[q]
    /\ hasMore'[q] = hasMore[q] /\ chunks'[q] = chunks[q]
    /\ task'[q] = task[q] /\ body'[q] = body[q] /\ outcome'[q] = outcome[q]
    /\ backend'[q] = backend[q] /\ parts'[q] = parts[q]

SameMail(q) ==
    /\ \A i \in DOMAIN inbox' : inbox'[i].req = q => \E j \in DOMAIN inbox : inbox[j] = inbox'[i]
    /\ \A j \in DOMAIN inbox : inbox[j].req = q => \E i \in DOMAIN inbox' : inbox'[i] = inbox[j]

(* A step that leaves the mail of a request alone loses none of it.        *)
LEMMA NothingLostKept ==
    ASSUME NEW q \in Requests, NothingLost(q), SameMail(q), parts'[q] = parts[q],
           Accepting(q)' => Accepting(q) /\ Got(q)' = Got(q) /\ status'[q] = status[q]
    PROVE  NothingLost(q)'
<1> SUFFICES ASSUME Accepting(q)'
             PROVE  /\ \A i \in DOMAIN inbox' :
                         inbox'[i].req = q =>
                            /\ HasData(inbox'[i]) => inbox'[i].part > Got(q)'
                            /\ status'[q] # "none" => inbox'[i].kind \in {"chunk", "last"}
                    /\ Got(q)' <= parts'[q]
                    /\ \A k \in Nat : Got(q)' < k /\ k <= parts'[q] => Carries(inbox', q, k)
  BY DEF NothingLost
<1>1. /\ \A i \in DOMAIN inbox :
           inbox[i].req = q =>
              /\ HasData(inbox[i]) => inbox[i].part > Got(q)
              /\ status[q] # "none" => inbox[i].kind \in {"chunk", "last"}
      /\ Got(q) <= parts[q]
      /\ \A k \in Nat : Got(q) < k /\ k <= parts[q] => Carries(inbox, q, k)
  BY DEF NothingLost
<1>2. \A k : Carries(inbox, q, k) => Carries(inbox', q, k)
  BY DEF Carries, SameMail
<1>3. \A i \in DOMAIN inbox' : inbox'[i].req = q => \E j \in DOMAIN inbox : inbox[j] = inbox'[i]
  BY DEF SameMail
<1> QED
  BY <1>1, <1>2, <1>3

(* The invariant of a request that a step leaves alone.                    *)
LEMMA SameKept ==
    ASSUME NEW q \in Requests, RequestInv(q), Same(q), SameMail(q)
    PROVE  RequestInv(q)'
<1>1. Written(q)' = Written(q) /\ Got(q)' = Got(q) /\ (Accepting(q)' => Accepting(q))
  BY DEF Same, Written, Got, Accepting
<1>2. NothingLost(q)'
  BY <1>1, NothingLostKept DEF RequestInv, Same
<1>3. ChunksInv(q)'
  BY <1>1 DEF RequestInv, Same, ChunksInv
<1>4. BodyInv(q)'
  BY DEF RequestInv, Same, BodyInv
<1>5. ResponseInv(q)'
  BY DEF RequestInv, Same, ResponseInv
<1>6. HandlersInv(q)'
  BY DEF RequestInv, Same, HandlersInv
<1> QED
  BY <1>2, <1>3, <1>4, <1>5, <1>6 DEF RequestInv

-----------------------------------------------------------------------------
(* The steps of a request's own task.                                      *)
LEMMA FetchStep ==
    ASSUME ClientInv, NEW r \in Requests, Fetch(r) \/ FetchRefused(r)
    PROVE  \A q \in Requests : RequestInv(q)'
<1>0. TypeOK /\ \A q \in Requests : RequestInv(q)
  BY DEF ClientInv
<1>1. \A q \in Requests : SameMail(q)
  BY DEF Fetch, FetchRefused, SameMail
<1>2. \A q \in Requests : q # r => Same(q)
  <2>1. CASE Fetch(r)
    BY <1>0, <2>1 DEF Fetch, Same, TypeOK
  <2>2. CASE FetchRefused(r)
    BY <1>0, <2>2 DEF FetchRefused, Same, TypeOK, pollVars, responseVars, backendVars
  <2> QED
    BY <2>1, <2>2
<1>3. /\ task[r] = "new" /\ backend[r] = "none" /\ parts[r] = 0 /\ body[r] = <<>>
      /\ r \notin handlers /\ status[r] = "none" /\ ~ hasMore[r] /\ outcome[r] = "none"
  <2>1. task[r] = "new" /\ RequestInv(r)
    BY <1>0 DEF Fetch, FetchRefused
  <2>2. status[r] \in {"none", "partial", "whole"}
    BY <1>0 DEF TypeOK
  <2> QED
    BY <2>1, <2>2 DEF RequestInv, ResponseInv, HandlersInv, BodyInv
<1>4. /\ status'[r] = status[r] /\ hasMore'[r] = hasMore[r] /\ chunks'[r] = chunks[r]
      /\ body'[r] = body[r] /\ parts'[r] = parts[r] /\ inbox' = inbox
  BY <1>0 DEF Fetch, FetchRefused, TypeOK, responseVars, backendVars
<1>5. \/ /\ task'[r] = "fetching" /\ future'[r] = "pending" /\ backend'[r] = "pending"
         /\ outcome'[r] = outcome[r]
      \/ /\ task'[r] = "done" /\ future'[r] = future[r] /\ backend'[r] = backend[r]
         /\ outcome'[r] = "gateway error" /\ handlers' = handlers
  BY <1>0 DEF Fetch, FetchRefused, TypeOK, pollVars, responseVars, backendVars
<1>6. NothingLost(r)'
  <2>1. \A i \in DOMAIN inbox : inbox[i].req # r
    BY <1>3 DEF ClientInv, WireInv, Sendable
  <2>2. Got(r)' = 0 /\ 0 \in Nat
    BY <1>3, <1>4 DEF Got
  <2> QED
    BY <2>1, <2>2, <1>3, <1>4 DEF NothingLost
<1>7. ChunksInv(r)'
  <2>1. \A i \in DOMAIN chunks[r] : FALSE
    BY <1>0, <1>3 DEF RequestInv, ChunksInv
  <2> QED
    BY <2>1, <1>4 DEF ChunksInv
<1>8. BodyInv(r)'
  <2>1. BodyInv(r)
    BY <1>0 DEF RequestInv
  <2> QED
    BY <2>1, <1>3, <1>4, <1>5 DEF BodyInv
<1>9. ResponseInv(r)'
  <2>1. ResponseInv(r)
    BY <1>0 DEF RequestInv
  <2> QED
    BY <2>1, <1>3, <1>4, <1>5 DEF ResponseInv
<1>10. HandlersInv(r)'
  BY <1>3, <1>5 DEF HandlersInv
<1>11. RequestInv(r)'
  BY <1>6, <1>7, <1>8, <1>9, <1>10 DEF RequestInv
<1> QED
  BY <1>0, <1>1, <1>2, <1>11, SameKept

(* A step of one task keeps the invariant of every request.                *)
LEMMA TaskStepKeeps ==
    ASSUME ClientInv, NEW r \in Requests, TaskStep(r)
    PROVE  \A q \in Requests : RequestInv(q)'
<1>0. TypeOK /\ \A q \in Requests : RequestInv(q)
  BY DEF ClientInv
<1>1. \A q \in Requests : SameMail(q)
  <2>1. inbox' = inbox
    BY DEF TaskStep, FetchResult, FetchError, FetchTimer, FetchTimeout, Flushed, Disconnected,
       NextChunk, ChunkTimeout
  <2> QED
    BY <2>1 DEF SameMail
<1>2. ASSUME NEW q \in Requests, q # r
      PROVE  Same(q)
  <2> USE DEF TypeOK, Same, pollVars, responseVars, backendVars, Await, End, Forget
  <2>1. CASE FetchResult(r)
    BY <1>0, <1>2, <2>1 DEF FetchResult
  <2>2. CASE FetchError(r)
    BY <1>0, <1>2, <2>2 DEF FetchError
  <2>3. CASE FetchTimer(r)
    BY <1>0, <1>2, <2>3 DEF FetchTimer
  <2>4. CASE FetchTimeout(r)
    BY <1>0, <1>2, <2>4 DEF FetchTimeout
  <2>5. CASE Flushed(r)
    BY <1>0, <1>2, <2>5 DEF Flushed
  <2>6. CASE Disconnected(r)
    BY <1>0, <1>2, <2>6 DEF Disconnected
  <2>7. CASE NextChunk(r)
    BY <1>0, <1>2, <2>7 DEF NextChunk
  <2>8. CASE ChunkTimeout(r)
    BY <1>0, <1>2, <2>8 DEF ChunkTimeout
  <2> QED
    BY <2>1, <2>2, <2>3, <2>4, <2>5, <2>6, <2>7, <2>8 DEF TaskStep
<1>3. /\ NothingLost(r) /\ ChunksInv(r) /\ BodyInv(r) /\ ResponseInv(r) /\ HandlersInv(r)
      /\ backend'[r] = backend[r] /\ parts'[r] = parts[r] /\ status'[r] = status[r]
      /\ parts[r] \in Nat
      /\ status[r] \in {"none", "partial", "whole"}
  BY <1>0 DEF RequestInv, TaskStep, FetchResult, FetchError, FetchTimer, FetchTimeout, Flushed,
     Disconnected, NextChunk, ChunkTimeout, backendVars, responseVars, TypeOK
\* the steps that leave the body and the chunks alone
<1>4. ASSUME body'[r] = body[r], chunks'[r] = chunks[r],
             hasMore'[r] => hasMore[r], r \in handlers' => r \in handlers
      PROVE  NothingLost(r)' /\ ChunksInv(r)'
  <2>1. Written(r)' = Written(r) /\ Got(r)' = Got(r)
    BY <1>3, <1>4 DEF Written, Got
  <2>2. Accepting(r)' => Accepting(r)
    BY <1>3, <1>4 DEF Accepting
  <2>3. NothingLost(r)'
    BY <2>1, <2>2, <1>1, <1>3, NothingLostKept
  <2>4. ChunksInv(r)'
    BY <2>1, <1>3, <1>4 DEF ChunksInv
  <2> QED
    BY <2>3, <2>4
<1>5. ASSUME FetchError(r) \/ FetchTimeout(r) \/ ChunkTimeout(r)
      PROVE  RequestInv(r)'
  <2>1. /\ r \notin handlers' /\ task'[r] = "done" /\ outcome'[r] \in {"internal error", "timeout"}
        /\ body'[r] = body[r] /\ chunks'[r] = chunks[r] /\ future'[r] = future[r]
        /\ hasMore'[r] => hasMore[r]
        /\ task[r] # "new"
    BY <1>0, <1>5 DEF FetchError, FetchTimeout, ChunkTimeout, Forget, End, TypeOK, responseVars
  <2>2. NothingLost(r)' /\ ChunksInv(r)'
    BY <2>1, <1>4
  <2>3. BodyInv(r)' /\ ResponseInv(r)' /\ HandlersInv(r)'
    BY <2>1, <1>3 DEF BodyInv, ResponseInv, HandlersInv
  <2> QED
    BY <2>2, <2>3 DEF RequestInv
<1>6. ASSUME FetchTimer(r)
      PROVE  RequestInv(r)'
  <2>1. /\ handlers' = handlers /\ task[r] = "fetching" /\ task'[r] = "timeout"
        /\ outcome'[r] = outcome[r]
        /\ body'[r] = body[r] /\ chunks'[r] = chunks[r] /\ hasMore'[r] = hasMore[r]
        /\ future'[r] = IF future[r] = "pending" THEN "cancelled" ELSE future[r]
    BY <1>0, <1>6 DEF FetchTimer, Await, TypeOK, pollVars
  <2>2. NothingLost(r)' /\ ChunksInv(r)'
    BY <2>1, <1>4
  <2>3. BodyInv(r)' /\ ResponseInv(r)' /\ HandlersInv(r)'
    BY <2>1, <1>3 DEF BodyInv, ResponseInv, HandlersInv
  <2> QED
    BY <2>2, <2>3 DEF RequestInv
<1>7. ASSUME Flushed(r) \/ Disconnected(r)
      PROVE  RequestInv(r)'
  <2>1. /\ handlers' = handlers /\ task[r] = "flush"
        /\ \/ task'[r] = "chunk" /\ outcome'[r] = outcome[r]
           \/ task'[r] = "done" /\ outcome'[r] = "closed"
        /\ body'[r] = body[r] /\ chunks'[r] = chunks[r] /\ hasMore'[r] = hasMore[r]
        /\ future'[r] = future[r]
    BY <1>0, <1>7 DEF Flushed, Disconnected, Await, End, TypeOK, pollVars, responseVars
  <2>2. NothingLost(r)' /\ ChunksInv(r)'
    BY <2>1, <1>4
  <2>3. BodyInv(r)' /\ ResponseInv(r)' /\ HandlersInv(r)'
    BY <2>1, <1>3 DEF BodyInv, ResponseInv, HandlersInv
  <2> QED
    BY <2>2, <2>3 DEF RequestInv
<1>8. ASSUME FetchResult(r)
      PROVE  RequestInv(r)'
  <2>1. /\ handlers' = handlers /\ task[r] = "fetching" /\ future[r] = "result"
        /\ \/ status[r] = "partial" /\ task'[r] = "flush" /\ outcome'[r] = outcome[r]
           \/ status[r] # "partial" /\ task'[r] = "done" /\ outcome'[r] = "ok"
        /\ body'[r] = <<1>> /\ chunks'[r] = chunks[r] /\ hasMore'[r] = hasMore[r]
        /\ future'[r] = future[r]
    BY <1>0, <1>8 DEF FetchResult, Await, End, TypeOK, pollVars, responseVars
  <2>2. body[r] = <<>> /\ (status[r] = "partial" \/ (status[r] = "whole" /\ parts[r] = 1 /\ backend[r] = "finished"))
    BY <2>1, <1>3 DEF BodyInv, ResponseInv
  <2>3. Written(r)' = Written(r) /\ Len(body'[r]) = 1 /\ body'[r] # <<>>
        /\ (\A i \in DOMAIN body'[r] : body'[r][i] = i)
    <3>1. Len(<<1>>) = 1 /\ <<1>> # <<>> /\ \A i \in DOMAIN <<1>> : <<1>>[i] = i
      OBVIOUS
    <3> QED
      BY <3>1, <2>1, <2>2 DEF Written
  <2>4. NothingLost(r)'
    <3>1. Got(r)' = Got(r) /\ (Accepting(r)' => Accepting(r))
      BY <2>1, <2>3, <1>3 DEF Got, Accepting
    <3> QED
      BY <3>1, <1>1, <1>3, NothingLostKept
  <2>5. ChunksInv(r)'
    BY <2>1, <2>3, <1>3 DEF ChunksInv
  <2>6. ResponseInv(r)'
    BY <2>1, <2>2, <1>3 DEF ResponseInv
  <2>7. BodyInv(r)'
    <3>1. 1 <= parts[r] /\ (outcome'[r] = "ok" => parts[r] = 1 /\ backend[r] = "finished")
      <4>1. status[r] = "partial" => parts[r] >= 1 /\ outcome[r] # "ok"
        BY <2>2, <1>3 DEF ResponseInv, BodyInv
      <4> QED
        BY <4>1, <2>1, <2>2, <1>3
    <3> QED
      BY <3>1, <2>1, <2>3, <1>3 DEF BodyInv
  <2>8. HandlersInv(r)'
    BY <2>1, <2>2, <1>3 DEF HandlersInv, ResponseInv
  <2> QED
    BY <2>4, <2>5, <2>6, <2>7, <2>8 DEF RequestInv
<1>9. ASSUME NextChunk(r)
      PROVE  RequestInv(r)'
  <2> DEFINE c == Head(chunks[r])
  <2>1. /\ handlers' = handlers /\ task[r] = "chunk" /\ chunks[r] # <<>>
        /\ \/ /\ c.kind = "last" /\ task'[r] = "done" /\ outcome'[r] = "ok"
              /\ body'[r] = body[r]
           \/ /\ c.kind # "last" /\ task'[r] = "flush" /\ outcome'[r] = outcome[r]
              /\ body'[r] = Append(body[r], c.part)
        /\ chunks'[r] = Tail(chunks[r]) /\ hasMore'[r] = hasMore[r] /\ future'[r] = future[r]
    BY <1>0, <1>9 DEF NextChunk, Await, End, TypeOK, pollVars
  <2>2. /\ chunks[r] \in Seq(Message) /\ body[r] \in Seq(Nat) /\ Len(body[r]) \in Nat
        /\ Written(r) = Len(body[r]) /\ Len(body[r]) >= 1 /\ Got(r) \in Nat
        /\ status[r] = "partial" /\ future[r] = "result" /\ body[r] # <<>>
    BY <2>1, <1>0, <1>3, GotType DEF BodyInv, ResponseInv, Written
  <2>3. /\ 1 \in DOMAIN chunks[r] /\ c = chunks[r][1] /\ c \in Message
        /\ Len(chunks[r]) \in Nat \ {0} /\ Len(Tail(chunks[r])) = Len(chunks[r]) - 1
        /\ \A i \in DOMAIN Tail(chunks[r]) :
              i \in Nat /\ i + 1 \in DOMAIN chunks[r] /\ Tail(chunks[r])[i] = chunks[r][i + 1]
    BY <2>1, <2>2, TailFacts
  <2> HIDE DEF c
  <2>4. /\ c.kind \in {"chunk", "last"}
        /\ c.kind = "chunk" => c.part = Len(body[r]) + 1 /\ Len(body[r]) + 1 <= parts[r]
        /\ c.kind = "last" => /\ Len(chunks[r]) = 1 /\ Len(body[r]) = parts[r]
                              /\ backend[r] = "finished" /\ ~ hasMore[r]
    <3>1. /\ c.kind \in {"chunk", "last"}
          /\ c.kind = "chunk" => c.part = Written(r) + 1 /\ Written(r) + 1 <= parts[r]
          /\ c.kind = "last" => /\ 1 = Len(chunks[r]) /\ Written(r) + 1 - 1 = parts[r]
                                /\ backend[r] = "finished" /\ ~ hasMore[r]
      BY <2>3, <1>3 DEF ChunksInv
    <3> QED
      BY <3>1, <2>2
  <2>5. CASE c.kind = "last"
    <3>1. /\ task'[r] = "done" /\ outcome'[r] = "ok" /\ body'[r] = body[r]
          /\ Len(body[r]) = parts[r] /\ backend[r] = "finished" /\ ~ hasMore[r]
      BY <2>1, <2>4, <2>5
    <3>2. NothingLost(r)'
      <4>1. ~ Accepting(r)'
        BY <3>1, <2>1, <2>2, <1>3 DEF Accepting
      <4> QED
        BY <4>1 DEF NothingLost
    <3>3. ChunksInv(r)'
      <4>1. \A i \in DOMAIN Tail(chunks[r]) : FALSE
        <5>1. Len(chunks[r]) = 1 /\ DOMAIN Tail(chunks[r]) = 1 .. (Len(chunks[r]) - 1)
          BY <2>1, <2>2, <2>4, <2>5, TailFacts
        <5> QED
          BY <5>1
      <4> QED
        BY <4>1, <2>1 DEF ChunksInv
    <3>4. BodyInv(r)' /\ ResponseInv(r)' /\ HandlersInv(r)'
      BY <3>1, <2>1, <2>2, <1>3 DEF BodyInv, ResponseInv, HandlersInv
    <3> QED
      BY <3>2, <3>3, <3>4 DEF RequestInv
  <2>6. CASE c.kind = "chunk"
    <3>1. /\ task'[r] = "flush" /\ outcome'[r] = outcome[r] /\ body'[r] = Append(body[r], c.part)
          /\ c.part = Len(body[r]) + 1 /\ Len(body[r]) + 1 <= parts[r] /\ c.part \in Nat
      BY <2>1, <2>2, <2>4, <2>6
    <3>2. /\ Len(body'[r]) = Len(body[r]) + 1 /\ body'[r] # <<>>
          /\ \A i \in DOMAIN body'[r] : i \in DOMAIN body[r] \/ i = Len(body[r]) + 1
          /\ \A i \in DOMAIN body[r] : body'[r][i] = body[r][i]
          /\ body'[r][Len(body[r]) + 1] = c.part
      BY <3>1, <2>2, AppendFacts
    <3>3. Written(r)' = Written(r) + 1
      BY <3>2, <2>2 DEF Written
    <3>4. NothingLost(r)'
      <4>1. Got(r)' = Got(r)
        <5>1. Got(r)' = Written(r)' + Len(Tail(chunks[r])) /\ Got(r) = Written(r) + Len(chunks[r])
          BY <2>1, <2>2, <1>3 DEF Got
        <5>2. Written(r) \in Nat /\ Len(chunks[r]) \in Nat /\ Len(Tail(chunks[r])) = Len(chunks[r]) - 1
          BY <2>2, <2>3
        <5> QED
          BY <5>1, <5>2, <3>3
      <4>2. Accepting(r)' => Accepting(r)
        BY <2>1, <1>3 DEF Accepting
      <4> QED
        BY <4>1, <4>2, <1>1, <1>3, NothingLostKept
    <3>5. ChunksInv(r)'
      <4> SUFFICES ASSUME NEW i \in DOMAIN Tail(chunks[r])
                   PROVE  LET d == Tail(chunks[r])[i]
                              w == Written(r) + 1
                          IN  /\ d.kind \in {"chunk", "last"}
                              /\ d.kind = "chunk" => d.part = w + i /\ w + i <= parts[r]
                              /\ d.kind = "last" => /\ i = Len(Tail(chunks[r]))
                                                    /\ w + i - 1 = parts[r]
                                                    /\ backend[r] = "finished"
                                                    /\ ~ hasMore[r]
        BY <3>3, <2>1, <2>2, <1>3 DEF ChunksInv
      <4> DEFINE d == Tail(chunks[r])[i]
      <4>1. i \in Nat /\ i + 1 \in DOMAIN chunks[r] /\ d = chunks[r][i + 1]
        BY <2>3
      <4> HIDE DEF d
      <4>2. /\ d.kind \in {"chunk", "last"}
            /\ d.kind = "chunk" => d.part = Written(r) + (i + 1) /\ Written(r) + (i + 1) <= parts[r]
            /\ d.kind = "last" => /\ i + 1 = Len(chunks[r])
                                  /\ Written(r) + (i + 1) - 1 = parts[r]
                                  /\ backend[r] = "finished"
                                  /\ ~ hasMore[r]
        BY <4>1, <1>3 DEF ChunksInv
      <4>3. Written(r) \in Nat
        BY <2>2
      <4>4. /\ d.kind \in {"chunk", "last"}
            /\ d.kind = "chunk" => d.part = (Written(r) + 1) + i /\ (Written(r) + 1) + i <= parts[r]
            /\ d.kind = "last" => /\ i = Len(Tail(chunks[r]))
                                  /\ (Written(r) + 1) + i - 1 = parts[r]
                                  /\ backend[r] = "finished"
                                  /\ ~ hasMore[r]
        <5>1. Len(chunks[r]) \in Nat /\ Len(Tail(chunks[r])) = Len(chunks[r]) - 1 /\ parts[r] \in Nat
          BY <2>3, <1>3
        <5> DEFINE n == Len(chunks[r])
                   t == Len(Tail(chunks[r]))
                   w == Written(r)
        <5>2. n \in Nat /\ t = n - 1 /\ w \in Nat /\ i \in Nat
          BY <5>1, <4>1, <4>3
        <5> HIDE DEF n, t, w
        <5>3. i + 1 = n => i = t
          BY <5>2
        <5>4. w + (i + 1) = (w + 1) + i /\ w + (i + 1) - 1 = (w + 1) + i - 1
          BY <5>2
        <5> QED
          BY <5>3, <5>4, <4>2 DEF n, t, w
      <4> QED
        BY <4>4 DEF d
    <3>6. BodyInv(r)'
      BY <3>1, <3>2, <2>1, <2>2, <2>4, <1>3 DEF BodyInv
    <3>7. ResponseInv(r)' /\ HandlersInv(r)'
      BY <3>1, <2>1, <2>2, <1>3 DEF ResponseInv, HandlersInv
    <3> QED
      BY <3>4, <3>5, <3>6, <3>7 DEF RequestInv
  <2> QED
    BY <2>4, <2>5, <2>6
<1>10. RequestInv(r)'
  BY <1>5, <1>6, <1>7, <1>8, <1>9 DEF TaskStep
<1> QED
  BY <1>0, <1>1, <1>2, <1>10, SameKept

-----------------------------------------------------------------------------
(* The environment sends the next part, or the end.                        *)
LEMMA BackendStepKeeps ==
    ASSUME ClientInv, NEW r \in Requests, BackendStep(r)
    PROVE  \A q \in Requests : RequestInv(q)'
<1>0. /\ TypeOK /\ \A q \in Requests : RequestInv(q)
      /\ inbox \in Seq(Message) /\ parts \in [Requests -> Nat]
      /\ backend \in [Requests -> {"none", "pending", "streaming", "finished"}]
  BY DEF ClientInv, TypeOK
<1>1. PICK kind, from, to :
        /\ \/ from = "pending" /\ kind \in {"whole", "ERR"} /\ to = "finished"
           \/ from = "pending" /\ kind = "partial" /\ to = "streaming"
           \/ from = "streaming" /\ kind = "chunk" /\ to = "streaming"
           \/ from = "streaming" /\ kind = "last" /\ to = "finished"
        /\ BackendSend(r, kind, from, to)
  BY DEF BackendStep, BackendRefuses, BackendReplies, BackendStreams, BackendContinues, BackendEnds
<1> DEFINE m == [req |-> r, kind |-> kind, part |-> parts'[r]]
<1>2. /\ backend[r] = from /\ backend' = [backend EXCEPT ![r] = to]
      /\ parts' = [parts EXCEPT ![r] = IF kind \in {"ERR", "last"} THEN @ ELSE @ + 1]
      /\ inbox' = Append(inbox, m)
      /\ UNCHANGED <<handlers, future, status, hasMore, chunks, task, body, outcome>>
  BY <1>1 DEF BackendSend, pollVars, responseVars, taskVars
<1>3. /\ backend'[r] = to
      /\ parts'[r] = IF kind \in {"ERR", "last"} THEN parts[r] ELSE parts[r] + 1
      /\ parts'[r] \in Nat /\ parts[r] \in Nat
      /\ \A q \in Requests : q # r => backend'[q] = backend[q] /\ parts'[q] = parts[q]
  BY <1>2, <1>0
<1>4. m \in Message /\ m.req = r /\ m.kind = kind /\ m.part = parts'[r]
  <2>1. kind \in {"whole", "partial", "chunk", "last", "ERR"}
    BY <1>1
  <2> QED
    BY <2>1, <1>3 DEF Message
<1> HIDE DEF m
<1>5. /\ \A i \in DOMAIN inbox' : i \in DOMAIN inbox \/ i = Len(inbox) + 1
      /\ \A i \in DOMAIN inbox : i \in DOMAIN inbox' /\ inbox'[i] = inbox[i]
      /\ Len(inbox) + 1 \in DOMAIN inbox' /\ inbox'[Len(inbox) + 1] = m
  BY <1>2, <1>4, <1>0, AppendFacts
<1>6. ASSUME NEW q \in Requests, q # r
      PROVE  RequestInv(q)'
  <2>1. Same(q)
    BY <1>2, <1>3, <1>6 DEF Same
  <2>2. SameMail(q)
    BY <1>4, <1>5, <1>6 DEF SameMail
  <2> QED
    BY <2>1, <2>2, <1>0, SameKept
<1>7. /\ NothingLost(r) /\ ChunksInv(r) /\ BodyInv(r) /\ ResponseInv(r) /\ HandlersInv(r)
      /\ status[r] \in {"none", "partial", "whole"}
      /\ Got(r) \in Nat /\ Written(r) \in Nat /\ Len(body[r]) \in Nat
  BY <1>0, GotType DEF RequestInv, TypeOK
<1>8. /\ from = "pending" => parts[r] = 0 /\ status[r] = "none"
      /\ from = "streaming" => parts[r] >= 1 /\ status[r] # "whole"
      /\ from \in {"pending", "streaming"} /\ outcome[r] # "ok"
  BY <1>1, <1>2, <1>7 DEF ResponseInv, BodyInv
<1>9. Got(r)' = Got(r) /\ Written(r)' = Written(r) /\ Accepting(r)' = Accepting(r)
  BY <1>2 DEF Got, Written, Accepting
<1>10. NothingLost(r)'
  <2> SUFFICES ASSUME Accepting(r)'
               PROVE  /\ \A i \in DOMAIN inbox' :
                           inbox'[i].req = r =>
                              /\ HasData(inbox'[i]) => inbox'[i].part > Got(r)
                              /\ status[r] # "none" => inbox'[i].kind \in {"chunk", "last"}
                      /\ Got(r) <= parts'[r]
                      /\ \A k \in Nat : Got(r) < k /\ k <= parts'[r] => Carries(inbox', r, k)
    BY <1>2, <1>9 DEF NothingLost
  <2>1. /\ \A i \in DOMAIN inbox :
             inbox[i].req = r =>
                /\ HasData(inbox[i]) => inbox[i].part > Got(r)
                /\ status[r] # "none" => inbox[i].kind \in {"chunk", "last"}
        /\ Got(r) <= parts[r]
        /\ \A k \in Nat : Got(r) < k /\ k <= parts[r] => Carries(inbox, r, k)
    BY <1>7, <1>9 DEF NothingLost
  <2>2. HasData(m) => m.part = parts[r] + 1
    BY <1>1, <1>3, <1>4 DEF HasData
  <2>3. HasData(m) => m.part > Got(r)
    BY <2>1, <2>2, <1>3, <1>7
  <2>4. status[r] # "none" => m.kind \in {"chunk", "last"}
    BY <1>1, <1>4, <1>8
  <2>5. ASSUME NEW k \in Nat, Got(r) < k, k <= parts'[r]
        PROVE  Carries(inbox', r, k)
    <3>1. CASE k <= parts[r]
      BY <3>1, <2>1, <2>5, <1>5 DEF Carries
    <3>2. CASE ~ (k <= parts[r])
      <4>1. kind \notin {"ERR", "last"} /\ k = parts'[r]
        BY <3>2, <2>5, <1>3
      <4>2. HasData(m)
        BY <4>1, <1>1, <1>4 DEF HasData
      <4> QED
        BY <4>1, <4>2, <1>4, <1>5 DEF Carries
    <3> QED
      BY <3>1, <3>2
  <2>6. Got(r) <= parts'[r]
    BY <2>1, <1>3, <1>7
  <2> QED
    BY <2>1, <2>3, <2>4, <2>5, <2>6, <1>4, <1>5
<1>11. ChunksInv(r)'
  <2> SUFFICES ASSUME NEW i \in DOMAIN chunks[r]
               PROVE  /\ status[r] = "partial"
                      /\ chunks[r][i].kind \in {"chunk", "last"}
                      /\ chunks[r][i].kind = "chunk" =>
                            chunks[r][i].part = Written(r) + i /\ Written(r) + i <= parts'[r]
                      /\ chunks[r][i].kind # "last"
    BY <1>2, <1>9 DEF ChunksInv
  <2>1. /\ status[r] = "partial"
        /\ chunks[r][i].kind \in {"chunk", "last"}
        /\ chunks[r][i].kind = "chunk" =>
              chunks[r][i].part = Written(r) + i /\ Written(r) + i <= parts[r]
        /\ chunks[r][i].kind = "last" => backend[r] = "finished"
    BY <1>7 DEF ChunksInv
  <2>2. i \in Nat
    BY <1>0, GotType
  <2> QED
    BY <2>1, <2>2, <1>2, <1>3, <1>7, <1>8
<1>12. BodyInv(r)'
  BY <1>2, <1>3, <1>7, <1>8 DEF BodyInv
<1>13. ResponseInv(r)'
  BY <1>1, <1>2, <1>3, <1>7, <1>8 DEF ResponseInv
<1>14. HandlersInv(r)'
  BY <1>2, <1>7 DEF HandlersInv
<1>15. RequestInv(r)'
  BY <1>10, <1>11, <1>12, <1>13, <1>14 DEF RequestInv
<1> QED
  BY <1>6, <1>15

-----------------------------------------------------------------------------
(* A message is taken from the socket: it is nobody's, or an error, or the *)
(* first one of a response, or the next one, or comes too late.            *)
LEMMA ReceiveKeeps ==
    ASSUME ClientInv, Receive
    PROVE  \A q \in Requests : RequestInv(q)'
<1>a. PICK m : m = Head(inbox)
  OBVIOUS
<1>b. PICK r : r = m.req
  OBVIOUS
<1>1. /\ inbox # <<>> /\ inbox' = Tail(inbox)
      /\ r \in handlers =>
            /\ IF m.kind = "ERR" THEN SetException(r) ELSE SetResult(m)
            /\ handlers' = IF Done(r) /\ ~ Raises(m) THEN handlers \ {r} ELSE handlers
      /\ r \notin handlers => UNCHANGED <<future, status, hasMore, chunks, handlers>>
      /\ UNCHANGED <<task, body, outcome, backend, parts>>
  BY <1>a, <1>b DEF Receive, responseVars, taskVars, backendVars
<1>2. /\ TypeOK /\ \A q \in Requests : RequestInv(q)
      /\ inbox \in Seq(Message) /\ parts \in [Requests -> Nat] /\ handlers \subseteq Requests
      /\ future \in [Requests -> {"none", "pending", "result", "exception", "cancelled"}]
      /\ status \in [Requests -> {"none", "partial", "whole"}]
      /\ hasMore \in [Requests -> BOOLEAN]
      /\ chunks \in [Requests -> Seq(Message)]
  BY DEF ClientInv, TypeOK
<1>3. /\ 1 \in DOMAIN inbox /\ m = inbox[1] /\ m \in Message
      /\ \A i \in DOMAIN inbox' : i \in Nat /\ i + 1 \in DOMAIN inbox /\ inbox'[i] = inbox[i + 1]
      /\ \A j \in DOMAIN inbox : j # 1 => j - 1 \in DOMAIN inbox' /\ inbox'[j - 1] = inbox[j]
  BY <1>1, <1>2, <1>a, TailFacts
<1>4. r \in Requests /\ m.kind \in {"whole", "partial", "chunk", "last", "ERR"} /\ m.part \in Nat
  BY <1>3, <1>b DEF Message
<1>5. Sendable(m, parts[r], backend[r])
  BY <1>3, <1>b DEF ClientInv, WireInv
\* what follows m on the socket
<1>6. \A i \in DOMAIN inbox' : inbox'[i].req = r => InOrder(m, inbox'[i])
  <2> SUFFICES ASSUME NEW i \in DOMAIN inbox', inbox'[i].req = r
               PROVE  InOrder(m, inbox'[i])
    OBVIOUS
  <2>1. 1 < i + 1
    <3>1. inbox' \in Seq(Message)
      BY <1>1, <1>2, TailFacts
    <3> QED
      BY <3>1
  <2> QED
    BY <2>1, <1>3, <1>b DEF ClientInv, WireInv
<1>7. /\ r \in handlers /\ status[r] = "none" => m.kind \in {"whole", "partial", "ERR"}
      /\ r \in handlers /\ status[r] # "none" => m.kind # "ERR"
      /\ r \in handlers /\ status[r] # "none" /\ hasMore[r] =>
            /\ m.kind \in {"chunk", "last"}
            /\ m.kind = "chunk" => m.part = Got(r) + 1 /\ Got(r) + 1 <= parts[r]
            /\ m.kind = "last" => Got(r) = parts[r] /\ backend[r] = "finished"
  BY <1>1, <1>a, <1>b, HeadFacts
<1>8. /\ NothingLost(r) /\ ChunksInv(r) /\ BodyInv(r) /\ ResponseInv(r) /\ HandlersInv(r)
      /\ Got(r) \in Nat /\ Written(r) \in Nat /\ Len(body[r]) \in Nat /\ parts[r] \in Nat
      /\ chunks[r] \in Seq(Message) /\ Len(chunks[r]) \in Nat
      /\ status[r] \in {"none", "partial", "whole"} /\ hasMore[r] \in BOOLEAN
      /\ future[r] \in {"none", "pending", "result", "exception", "cancelled"}
      /\ task[r] \in {"new", "fetching", "timeout", "flush", "chunk", "done"}
  <2>1. task \in [Requests -> {"new", "fetching", "timeout", "flush", "chunk", "done"}]
    BY <1>2 DEF TypeOK
  <2> QED
    BY <2>1, <1>2, <1>4, GotType DEF RequestInv
<1>9. CASE r \notin handlers
  <2>1. \A q \in Requests : q # r => Same(q)
    BY <1>1, <1>9 DEF Same
  <2>2. \A q \in Requests : q # r => SameMail(q)
    BY <1>b, <1>3 DEF SameMail
  <2>3. ~ Accepting(r)' /\ Written(r)' = Written(r)
    BY <1>1, <1>9 DEF Accepting, Written
  <2>4. NothingLost(r)'
    BY <2>3 DEF NothingLost
  <2>5. ChunksInv(r)' /\ BodyInv(r)' /\ ResponseInv(r)' /\ HandlersInv(r)'
    BY <1>1, <1>8, <1>9, <2>3 DEF ChunksInv, BodyInv, ResponseInv, HandlersInv
  <2> QED
    BY <2>1, <2>2, <2>4, <2>5, <1>2, SameKept DEF RequestInv
<1>10. ASSUME r \in handlers
       PROVE  \A q \in Requests : q # r => Same(q)
  <2>1. CASE m.kind = "ERR"
    BY <2>1, <1>1, <1>2, <1>4, <1>10 DEF SetException, Same
  <2>2. CASE m.kind # "ERR"
    <3>1. SetResult(m)
      BY <2>2, <1>1, <1>10
    <3>2. \A q \in Requests : q # r =>
             /\ future'[q] = future[q] /\ status'[q] = status[q]
             /\ hasMore'[q] = hasMore[q] /\ chunks'[q] = chunks[q]
      BY <1>b, <3>1, <1>2, <1>4 DEF SetResult, responseVars
    <3> QED
      BY <3>2, <1>1, <1>10 DEF Same
  <2> QED
    BY <2>1, <2>2
<1>11. ASSUME NEW q \in Requests, q # r, r \in handlers
       PROVE  RequestInv(q)'
  <2>1. SameMail(q)
    BY <1>b, <1>3, <1>11 DEF SameMail
  <2> QED
    BY <2>1, <1>2, <1>10, <1>11, SameKept
<1>12. Written(r)' = Written(r)
  BY <1>1 DEF Written
<1>13. r \in handlers' => (r \in handlers /\ ~ (Done(r) /\ ~ Raises(m)))
  BY <1>1, <1>4
\* the error of the broker
<1>14. CASE r \in handlers /\ m.kind = "ERR"
  <2>1. /\ hasMore' = [hasMore EXCEPT ![r] = FALSE]
        /\ future' = [future EXCEPT ![r] = IF @ = "pending" THEN "exception" ELSE @]
        /\ UNCHANGED <<status, chunks>>
    BY <1>1, <1>14 DEF SetException
  <2>2. /\ ~ hasMore'[r] /\ status[r] = "none" /\ status'[r] = "none" /\ parts[r] = 0
        /\ future'[r] = IF future[r] = "pending" THEN "exception" ELSE future[r]
        /\ chunks'[r] = chunks[r] /\ future[r] # "result"
    BY <2>1, <1>2, <1>4, <1>5, <1>7, <1>8, <1>14 DEF Sendable, ResponseInv
  <2>3. future[r] = "pending" => r \notin handlers'
    BY <1>b, <2>2, <1>13, <1>14 DEF Done, Raises
  <2>4. NothingLost(r)'
    <3>1. Got(r)' = 0
      BY <2>2 DEF Got
    <3>2. \A i \in DOMAIN inbox' : inbox'[i].req # r
      BY <1>6, <1>14 DEF InOrder
    <3> QED
      BY <3>1, <3>2, <2>2, <1>1 DEF NothingLost
  <2>5. ChunksInv(r)'
    BY <2>2, <1>8 DEF ChunksInv
  <2>6. BodyInv(r)'
    BY <1>1, <1>8 DEF BodyInv
  <2>7. ResponseInv(r)'
    BY <2>2, <1>1, <1>8 DEF ResponseInv
  <2>8. HandlersInv(r)'
    BY <2>2, <2>3, <1>1, <1>8, <1>13 DEF HandlersInv
  <2> QED
    BY <2>4, <2>5, <2>6, <2>7, <2>8, <1>11, <1>14 DEF RequestInv
\* the first message
<1>15. CASE r \in handlers /\ m.kind # "ERR" /\ status[r] = "none"
  <2>1. /\ status' = [status EXCEPT ![r] = m.kind]
        /\ hasMore' = [hasMore EXCEPT ![r] = @ \/ m.kind = "partial"]
        /\ future' = [future EXCEPT ![r] = IF @ = "pending" THEN "result" ELSE @]
        /\ UNCHANGED chunks
    BY <1>b, <1>1, <1>15 DEF SetResult
  <2>2. /\ m.kind \in {"whole", "partial"} /\ status'[r] = m.kind
        /\ hasMore'[r] = (hasMore[r] \/ m.kind = "partial") /\ ~ hasMore[r]
        /\ future'[r] = IF future[r] = "pending" THEN "result" ELSE future[r]
        /\ chunks'[r] = chunks[r] /\ future[r] # "result" /\ future[r] # "none"
    BY <2>1, <1>2, <1>4, <1>7, <1>8, <1>15 DEF ResponseInv, HandlersInv
  <2>3. hasMore'[r] <=> m.kind = "partial"
    BY <2>2
  <2>4. m.kind = "whole" /\ future[r] = "pending" => r \notin handlers'
    BY <1>b, <2>2, <2>3, <1>13, <1>15 DEF Done, Raises
  <2>5. body[r] = <<>> /\ \A i \in DOMAIN chunks[r] : FALSE
    <3>1. task[r] \notin {"flush", "chunk", "done"}
      BY <1>8, <1>15, <2>2 DEF ResponseInv, HandlersInv
    <3> QED
      BY <3>1, <1>8, <1>15 DEF BodyInv, ChunksInv
  <2>6. Len(chunks[r]) = 0
    <3>1. DOMAIN chunks[r] = 1..Len(chunks[r])
      BY <1>8
    <3> QED
      <4> DEFINE n == Len(chunks[r])
      <4>1. n \in Nat /\ \A i \in 1..n : FALSE
        BY <3>1, <2>5, <1>8
      <4> HIDE DEF n
      <4>2. n >= 1 => 1 \in 1..n
        BY <4>1
      <4>3. n = 0
        BY <4>1, <4>2
      <4> QED
        BY <4>3 DEF n
  <2>7. m.part = 1 /\ parts[r] >= 1 /\ backend[r] \in {"streaming", "finished"}
        /\ (m.kind = "whole" => parts[r] = 1 /\ backend[r] = "finished")
    BY <2>2, <1>5, <1>8 DEF Sendable
  <2>8. NothingLost(r)'
    <3> SUFFICES ASSUME Accepting(r)'
                 PROVE  NothingLost(r)'
      BY DEF NothingLost
    <3>1. m.kind = "partial"
      BY <2>2, <2>3 DEF Accepting
    <3>2. Got(r)' = 1
      <4>1. Got(r)' = Written(r)' + Len(chunks[r]) /\ Written(r)' = 1
        BY <2>2, <2>5, <1>12, <3>1 DEF Got, Written
      <4> QED
        BY <4>1, <2>6
    <3>3. \A i \in DOMAIN inbox' : inbox'[i].req = r =>
             /\ HasData(inbox'[i]) => inbox'[i].part > 1
             /\ inbox'[i].kind \in {"chunk", "last"}
      BY <1>6, <2>7 DEF InOrder, HasData
    <3>4. ASSUME NEW k \in Nat, 1 < k, k <= parts[r]
          PROVE  Carries(inbox', r, k)
      <4>1. Carries(inbox, r, k)
        <5>1. Accepting(r) /\ Got(r) = 0
          BY <1>15 DEF Accepting, Got
        <5> QED
          BY <5>1, <3>4, <1>8 DEF NothingLost
      <4>2. PICK j \in DOMAIN inbox : inbox[j].req = r /\ HasData(inbox[j]) /\ inbox[j].part = k
        BY <4>1 DEF Carries
      <4>3. j # 1
        BY <4>2, <3>4, <2>7, <1>3
      <4> QED
        BY <4>2, <4>3, <1>3 DEF Carries
    <3> QED
      BY <3>2, <3>3, <3>4, <2>7, <1>1 DEF NothingLost
  <2>9. ChunksInv(r)'
    BY <2>2, <2>5 DEF ChunksInv
  <2>10. BodyInv(r)'
    BY <1>1, <1>8 DEF BodyInv
  <2>11. ResponseInv(r)'
    BY <2>2, <2>3, <2>7, <1>1, <1>8, <1>15 DEF ResponseInv
  <2>12. HandlersInv(r)'
    BY <2>2, <2>3, <2>4, <1>1, <1>8, <1>13 DEF HandlersInv
  <2> QED
    BY <2>8, <2>9, <2>10, <2>11, <2>12, <1>11, <1>15 DEF RequestInv
\* the next message
<1>16. CASE r \in handlers /\ m.kind # "ERR" /\ status[r] # "none" /\ hasMore[r]
  <2>1. /\ hasMore' = [hasMore EXCEPT ![r] = m.kind # "last"]
        /\ chunks' = [chunks EXCEPT ![r] = Append(@, m)]
        /\ UNCHANGED <<status, future>>
    BY <1>b, <1>1, <1>16 DEF SetResult
  <2>2. /\ hasMore'[r] = (m.kind # "last") /\ chunks'[r] = Append(chunks[r], m)
        /\ status'[r] = status[r] /\ future'[r] = future[r] /\ status[r] = "partial"
        /\ future[r] \in {"result", "exception", "cancelled"}
    BY <2>1, <1>2, <1>4, <1>8, <1>16 DEF ResponseInv, HandlersInv
  <2>3. hasMore'[r] <=> m.kind # "last"
    BY <2>2
  <2>4. m.kind = "last" => r \notin handlers'
    BY <1>b, <2>2, <2>3, <1>13, <1>16 DEF Done, Raises
  <2>5. /\ Len(chunks'[r]) = Len(chunks[r]) + 1
        /\ \A i \in DOMAIN chunks'[r] : i \in DOMAIN chunks[r] \/ i = Len(chunks[r]) + 1
        /\ \A i \in DOMAIN chunks[r] : chunks'[r][i] = chunks[r][i]
        /\ chunks'[r][Len(chunks[r]) + 1] = m
    BY <2>2, <1>3, <1>8, AppendFacts
  <2>6. /\ m.kind \in {"chunk", "last"} /\ Got(r) = Written(r) + Len(chunks[r])
        /\ m.kind = "chunk" => m.part = Got(r) + 1 /\ Got(r) + 1 <= parts[r]
        /\ m.kind = "last" => Got(r) = parts[r] /\ backend[r] = "finished"
    BY <1>7, <1>16 DEF Got
  <2>7. NothingLost(r)'
    <3> SUFFICES ASSUME Accepting(r)'
                 PROVE  NothingLost(r)'
      BY DEF NothingLost
    <3>1. m.kind = "chunk"
      BY <2>4, <2>6 DEF Accepting
    <3>2. Got(r)' = m.part
      <4>1. Got(r)' = Written(r)' + Len(chunks'[r])
        BY <2>2 DEF Got
      <4> QED
        BY <4>1, <3>1, <2>5, <2>6, <1>8, <1>12
    <3>3. \A i \in DOMAIN inbox' : inbox'[i].req = r =>
             /\ HasData(inbox'[i]) => inbox'[i].part > m.part
             /\ inbox'[i].kind \in {"chunk", "last"}
      <4> SUFFICES ASSUME NEW i \in DOMAIN inbox', inbox'[i].req = r
                   PROVE  /\ HasData(inbox'[i]) => inbox'[i].part > m.part
                          /\ inbox'[i].kind \in {"chunk", "last"}
        OBVIOUS
      <4>1. inbox'[i].part \in Nat
        <5>1. i + 1 \in DOMAIN inbox /\ inbox'[i] = inbox[i + 1]
          BY <1>3
        <5>2. \A j \in DOMAIN inbox : inbox[j] \in Message
          BY <1>2
        <5> QED
          BY <5>1, <5>2 DEF Message
      <4> QED
        BY <4>1, <1>4, <1>6 DEF InOrder, HasData
    <3>4. ASSUME NEW k \in Nat, m.part < k, k <= parts[r]
          PROVE  Carries(inbox', r, k)
      <4>1. Carries(inbox, r, k)
        <5>1. Accepting(r) /\ Got(r) < k
          BY <3>1, <3>4, <2>6, <1>4, <1>8, <1>16 DEF Accepting
        <5> QED
          BY <5>1, <3>4, <1>8 DEF NothingLost
      <4>2. PICK j \in DOMAIN inbox : inbox[j].req = r /\ HasData(inbox[j]) /\ inbox[j].part = k
        BY <4>1 DEF Carries
      <4>3. j # 1
        BY <4>2, <3>4, <1>3, <1>4
      <4> QED
        BY <4>2, <4>3, <1>3 DEF Carries
    <3>5. m.part <= parts[r]
      BY <3>1, <2>6
    <3> QED
      BY <3>2, <3>3, <3>4, <3>5, <1>1 DEF NothingLost
  <2>8. ChunksInv(r)'
    <3> SUFFICES ASSUME NEW i \in DOMAIN chunks'[r]
                 PROVE  LET d == chunks'[r][i]
                        IN  /\ d.kind \in {"chunk", "last"}
                            /\ d.kind = "chunk" => d.part = Written(r) + i /\ Written(r) + i <= parts[r]
                            /\ d.kind = "last" => /\ i = Len(chunks'[r])
                                                  /\ Written(r) + i - 1 = parts[r]
                                                  /\ backend[r] = "finished"
                                                  /\ ~ hasMore'[r]
      BY <2>2, <1>1, <1>12 DEF ChunksInv
    <3>1. CASE i \in DOMAIN chunks[r]
      <4>1. /\ chunks[r][i].kind \in {"chunk", "last"}
            /\ chunks[r][i].kind = "chunk" =>
                  chunks[r][i].part = Written(r) + i /\ Written(r) + i <= parts[r]
            /\ chunks[r][i].kind # "last"
        BY <3>1, <1>8, <1>16 DEF ChunksInv
      <4> QED
        BY <4>1, <3>1, <2>5
    <3>2. CASE i = Len(chunks[r]) + 1
      <4> DEFINE w == Written(r)
                 n == Len(chunks[r])
                 g == Got(r)
      <4>1. w \in Nat /\ n \in Nat /\ g = w + n /\ i = n + 1 /\ Len(chunks'[r]) = i
        BY <3>2, <2>5, <2>6, <1>8
      <4> HIDE DEF w, n, g
      <4>2. g + 1 = w + i /\ w + i - 1 = g
        BY <4>1
      <4>3. chunks'[r][i] = m
        BY <3>2, <2>5
      <4> QED
        BY <4>1, <4>2, <4>3, <2>3, <2>6 DEF w, g
    <3> QED
      BY <3>1, <3>2, <2>5
  <2>9. BodyInv(r)'
    BY <1>1, <1>8 DEF BodyInv
  <2>10. ResponseInv(r)'
    BY <2>2, <1>1, <1>8 DEF ResponseInv
  <2>11. HandlersInv(r)'
    BY <2>2, <2>3, <2>4, <1>1, <1>8, <1>13 DEF HandlersInv
  <2> QED
    BY <2>7, <2>8, <2>9, <2>10, <2>11, <1>11, <1>16 DEF RequestInv
\* a late message
<1>17. CASE r \in handlers /\ m.kind # "ERR" /\ status[r] # "none" /\ ~ hasMore[r]
  <2>1. UNCHANGED <<future, status, hasMore, chunks>>
    BY <1>b, <1>1, <1>17 DEF SetResult, responseVars
  <2>2. NothingLost(r)'
    <3>1. ~ Accepting(r)'
      BY <2>1, <1>17 DEF Accepting
    <3> QED
      BY <3>1 DEF NothingLost
  <2>3. ChunksInv(r)'
    BY <2>1, <1>1, <1>8, <1>12 DEF ChunksInv
  <2>4. BodyInv(r)' /\ ResponseInv(r)' /\ HandlersInv(r)'
    BY <2>1, <1>1, <1>8, <1>13 DEF BodyInv, ResponseInv, HandlersInv
  <2> QED
    BY <2>2, <2>3, <2>4, <1>11, <1>17 DEF RequestInv
<1> QED
  BY <1>9, <1>14, <1>15, <1>16, <1>17

-----------------------------------------------------------------------------
(* Every step keeps the invariant.                                         *)
LEMMA ClientStep == ClientInv /\ [Next]_vars => ClientInv'
<1> SUFFICES ASSUME ClientInv, [Next]_vars
             PROVE  \A q \in Requests : RequestInv(q)'
  BY TypeStep, WireStep DEF ClientInv
<1>1. ASSUME UNCHANGED <<handlers, inbox, future, status, hasMore, chunks, task, body, outcome,
                         backend, parts>>
      PROVE  \A q \in Requests : RequestInv(q)'
  <2>1. \A q \in Requests : RequestInv(q) /\ Same(q) /\ SameMail(q)
    BY <1>1 DEF ClientInv, Same, SameMail
  <2> QED
    BY <2>1, SameKept
<1>2. CASE StartPoller
  BY <1>1, <1>2 DEF StartPoller, responseVars, taskVars, backendVars
<1>3. CASE UNCHANGED vars
  BY <1>1, <1>3 DEF vars, pollVars, responseVars, taskVars, backendVars
<1>4. CASE Receive
  BY <1>4, ReceiveKeeps
<1>5. ASSUME NEW r \in Requests, Fetch(r) \/ FetchRefused(r) \/ TaskStep(r) \/ BackendStep(r)
      PROVE  \A q \in Requests : RequestInv(q)'
  BY <1>5, FetchStep, TaskStepKeeps, BackendStepKeeps
<1> QED
  BY <1>2, <1>3, <1>4, <1>5 DEF Next

(* The invariant holds always.                                             *)
LEMMA ClientInvariant == SafetySpec => []ClientInv
<1>1. Init => ClientInv
  <2> SUFFICES ASSUME Init
               PROVE  ClientInv
    OBVIOUS
  <2>1. <<>> \in Seq(Message) /\ <<>> \in Seq(Nat) /\ (\A i \in DOMAIN <<>> : FALSE)
    OBVIOUS
  <2>2. TypeOK
    BY <2>1 DEF Init, TypeOK, Outcomes
  <2>3. WireInv
    BY <2>1 DEF Init, WireInv
  <2>4. ASSUME NEW r \in Requests
        PROVE  RequestInv(r)
    BY <2>1 DEF Init, RequestInv, NothingLost, Accepting, ChunksInv, BodyInv, ResponseInv,
       HandlersInv
  <2> QED
    BY <2>2, <2>3, <2>4 DEF ClientInv
<1> QED
  BY <1>1, ClientStep, PTL DEF SafetySpec

(* Type correctness: in particular a continuation is never taken for the   *)
(* first message of a response.                                            *)
THEOREM TypeCorrect == SafetySpec => []TypeOK
<1>1. ClientInv => TypeOK
  BY DEF ClientInv
<1> QED
  BY <1>1, ClientInvariant, PTL

(* The HTTP client gets the parts of its response in order, without gaps,  *)
(* and all of them when the response ends normally, however requests,      *)
(* replies, timers and disconnections interleave.                          *)
THEOREM BodyIntactCorrect == SafetySpec => []BodyIntact
<1>1. ClientInv => BodyIntact
  <2> SUFFICES ASSUME ClientInv, NEW r \in Requests
               PROVE  /\ body[r] = [i \in 1..Len(body[r]) |-> i]
                      /\ Len(body[r]) <= parts[r]
                      /\ outcome[r] = "ok" => Len(body[r]) = parts[r] /\ backend[r] = "finished"
    BY DEF BodyIntact
  <2>1. BodyInv(r) /\ body[r] \in Seq(Nat)
    BY DEF ClientInv, RequestInv, TypeOK
  <2>2. body[r] = [i \in 1..Len(body[r]) |-> i]
    BY <2>1 DEF BodyInv
  <2> QED
    BY <2>1, <2>2 DEF BodyInv
<1> QED
  BY <1>1, ClientInvariant, PTL

(* A handler outlives its request only when the HTTP client went away in   *)
(* the middle of a stream, whatever order the reply, the timer and the     *)
(* task's own steps come in.                                               *)
THEOREM HandlersReleasedCorrect == SafetySpec => []HandlersReleased
<1>1. ClientInv => HandlersReleased
  BY DEF ClientInv, RequestInv, HandlersInv, HandlersReleased
<1> QED
  BY <1>1, ClientInvariant, PTL
=============================================================================
