------------------------ MODULE RequestHandlingProofs -----------------------
(***************************************************************************)
(* Proofs about RequestHandling and the ResponseStream below it, for any   *)
(* number of parts and messages and any statuses that QGIS may set.        *)
(*                                                                         *)
(* The argument: send keeps what was sent one readable stream, of which    *)
(* status_code tells whether the client waits for more (HandlerOK); who    *)
(* answers tells what is in the buffer and whether anything was sent       *)
(* (HandlingInv); and what was sent, followed by the buffer, is what is    *)
(* kept (DataInv).                                                         *)
(***************************************************************************)
EXTENDS RequestHandling, WellFoundedInduction, TLAPS

Msg == [head : BOOLEAN, status : Nat, data : Seq(Nat), more : BOOLEAN]

(* RequestHandler between two calls of send: what it sent is one stream,   *)
(* and its status_code says whether the client waits for more.             *)
HandlerOK(h) ==
    /\ h \in [status_code : Nat, header_written : BOOLEAN, sent : Seq(Msg)]
    /\ h.header_written <=> h.sent # <<>>
    /\ h.status_code = 206 => h.header_written
    /\ \A i \in DOMAIN h.sent : h.sent[i].head <=> i = 1
    /\ \A i \in 1..(Len(h.sent) - 1) : h.sent[i].more
    /\ h.sent # <<>> => (h.sent[Len(h.sent)].more <=> h.status_code = 206)

-----------------------------------------------------------------------------
(* A message added where one may be sent.                                  *)
LEMMA AppendOK ==
  ASSUME NEW h, HandlerOK(h), NEW m \in Msg,
         m.head <=> h.sent = <<>>,
         h.sent # <<>> => h.status_code = 206,
         NEW g, g \in [status_code : Nat, header_written : BOOLEAN, sent : Seq(Msg)],
         g.header_written, g.sent = Append(h.sent, m),
         m.more <=> g.status_code = 206
  PROVE  HandlerOK(g)
<1> DEFINE s == h.sent
           t == Append(s, m)
<1>1. s \in Seq(Msg) /\ Len(s) \in Nat /\ (s = <<>> <=> Len(s) = 0)
  <2>1. s \in Seq(Msg)
    BY DEF HandlerOK
  <2> QED
    BY <2>1
<1>2. /\ t \in Seq(Msg) /\ Len(t) = Len(s) + 1 /\ t # <<>> /\ t[Len(s) + 1] = m
      /\ DOMAIN t = 1..(Len(s) + 1)
      /\ \A i \in 1..Len(s) : t[i] = s[i]
  <2>1. /\ t \in Seq(Msg) /\ Len(t) = Len(s) + 1 /\ t[Len(s) + 1] = m
        /\ \A i \in 1..Len(s) : t[i] = s[i]
    BY <1>1
  <2>2. DOMAIN t = 1..(Len(s) + 1) /\ t # <<>>
    BY <2>1, <1>1
  <2> QED
    BY <2>1, <2>2
<1>3. /\ \A i \in 1..Len(s) : s[i].head <=> i = 1
      /\ \A i \in 1..(Len(s) - 1) : s[i].more
      /\ s # <<>> => s[Len(s)].more
  BY <1>1 DEF HandlerOK
<1> HIDE DEF s, t
<1>4. \A i \in DOMAIN t : t[i].head <=> i = 1
  <2> SUFFICES ASSUME NEW i \in 1..(Len(s) + 1)
               PROVE  t[i].head <=> i = 1
    BY <1>2
  <2>1. CASE i = Len(s) + 1
    <3>1. m.head <=> s = <<>>
      BY DEF s
    <3>2. s = <<>> <=> i = 1
      BY <2>1, <1>1
    <3> QED
      BY <2>1, <3>1, <3>2, <1>2
  <2>2. CASE i # Len(s) + 1
    <3>1. i \in 1..Len(s)
      BY <2>2, <1>1
    <3> QED
      BY <3>1, <1>2, <1>3
  <2> QED
    BY <2>1, <2>2
<1>5. \A i \in 1..(Len(t) - 1) : t[i].more
  <2> SUFFICES ASSUME NEW i \in 1..Len(s)
               PROVE  s[i].more
    BY <1>1, <1>2
  <2>1. CASE i = Len(s)
    BY <2>1, <1>1, <1>3
  <2>2. CASE i # Len(s)
    BY <2>2, <1>1, <1>3
  <2> QED
    BY <2>1, <2>2
<1>6. g.sent = t
  BY DEF s, t
<1>7. t[Len(t)].more <=> g.status_code = 206
  BY <1>1, <1>2
<1> QED
  BY <1>2, <1>4, <1>5, <1>6, <1>7 DEF HandlerOK

(* The two ways of sending: with more to follow, and a last message.       *)
SendMore(h, data) == Send(h, data, TRUE)

SendLast(h, data) == Send(h, data, FALSE)

(* send with more to follow: the header is written, and the stream goes on *)
(* as announced.                                                           *)
LEMMA SendMoreOK ==
  ASSUME NEW h, HandlerOK(h), NEW data \in Seq(Nat)
  PROVE  /\ HandlerOK(SendMore(h, data)) /\ SendMore(h, data).header_written
         /\ h.header_written /\ h.status_code # 206 => SendMore(h, data) = h
<1> DEFINE g == SendMore(h, data)
<1>0. h.status_code \in Nat /\ h.header_written \in BOOLEAN /\ h.sent \in Seq(Msg)
  BY DEF HandlerOK
<1>1. CASE ~ h.header_written
  <2> DEFINE code == IF h.status_code = 200 THEN 206 ELSE h.status_code
             m == [head |-> TRUE, status |-> code, data |-> data, more |-> code = 206]
  <2>1. code \in Nat
    BY <1>0
  <2>2. g = [status_code |-> code, header_written |-> TRUE, sent |-> Append(h.sent, m)]
    BY <1>1 DEF Send, SendMore
  <2> HIDE DEF code, g
  <2>3. m \in Msg /\ m.head /\ (m.more <=> code = 206)
    BY <2>1 DEF Msg
  <2> HIDE DEF m
  <2>4. Append(h.sent, m) \in Seq(Msg)
    BY <1>0, <2>3
  <2>5. /\ g \in [status_code : Nat, header_written : BOOLEAN, sent : Seq(Msg)]
        /\ g.header_written /\ g.sent = Append(h.sent, m) /\ g.status_code = code
    BY <2>1, <2>2, <2>4
  <2>6. h.sent = <<>>
    BY <1>1 DEF HandlerOK
  <2>7. HandlerOK(g)
    BY <2>3, <2>5, <2>6, AppendOK
  <2> QED
    BY <2>5, <2>7, <1>1 DEF g
<1>2. CASE h.header_written /\ h.status_code = 206
  <2> DEFINE m == [head |-> FALSE, status |-> 206, data |-> data, more |-> TRUE]
  <2>2. g = [status_code |-> 206, header_written |-> TRUE, sent |-> Append(h.sent, m)]
    BY <1>2 DEF Send, SendMore
  <2> HIDE DEF g
  <2>3. m \in Msg /\ ~ m.head /\ m.more
    BY DEF Msg
  <2> HIDE DEF m
  <2>4. Append(h.sent, m) \in Seq(Msg)
    BY <1>0, <2>3
  <2>5. /\ g \in [status_code : Nat, header_written : BOOLEAN, sent : Seq(Msg)]
        /\ g.header_written /\ g.sent = Append(h.sent, m) /\ g.status_code = 206
    BY <2>2, <2>4
  <2>6. h.sent # <<>>
    BY <1>2 DEF HandlerOK
  <2>7. (m.head <=> h.sent = <<>>) /\ (m.more <=> g.status_code = 206)
    BY <2>3, <2>5, <2>6
  <2>8. HandlerOK(g)
    BY <1>2, <2>3, <2>5, <2>7, AppendOK
  <2> QED
    BY <2>5, <2>8, <1>2 DEF g
<1>3. CASE h.header_written /\ h.status_code # 206
  <2>1. g = h
    BY <1>3 DEF Send, SendMore
  <2> HIDE DEF g
  <2>2. HandlerOK(g) /\ g.header_written
    BY <2>1, <1>3
  <2> QED
    BY <2>1, <2>2 DEF g
<1> QED
  BY <1>0, <1>1, <1>2, <1>3

(* send of the last message: the stream has ended.                         *)
LEMMA SendLastOK ==
  ASSUME NEW h, HandlerOK(h), NEW data \in Seq(Nat)
  PROVE  /\ HandlerOK(SendLast(h, data)) /\ SendLast(h, data).header_written
         /\ SendLast(h, data).status_code # 206
         /\ h.header_written /\ h.status_code # 206 => SendLast(h, data) = h
         /\ ~ h.header_written =>
              /\ Len(SendLast(h, data).sent) = 1
              /\ SendLast(h, data).sent[1].data = data
              /\ SendLast(h, data).sent[1].status = h.status_code
<1> DEFINE g == SendLast(h, data)
<1>0. /\ h.status_code \in Nat /\ h.header_written \in BOOLEAN /\ h.sent \in Seq(Msg)
      /\ h.status_code = 206 => h.header_written
  BY DEF HandlerOK
<1>1. CASE ~ h.header_written
  <2> DEFINE code == h.status_code
             m == [head |-> TRUE, status |-> code, data |-> data, more |-> code = 206]
  <2>1. code \in Nat /\ code # 206
    BY <1>0, <1>1
  <2>2. g = [status_code |-> code, header_written |-> TRUE, sent |-> Append(h.sent, m)]
    BY <1>1 DEF Send, SendLast
  <2> HIDE DEF code, g
  <2>3. m \in Msg /\ m.head /\ (m.more <=> code = 206) /\ m.data = data /\ m.status = code
    BY <2>1 DEF Msg
  <2> HIDE DEF m
  <2>4. Append(h.sent, m) \in Seq(Msg)
    BY <1>0, <2>3
  <2>5. /\ g \in [status_code : Nat, header_written : BOOLEAN, sent : Seq(Msg)]
        /\ g.header_written /\ g.sent = Append(h.sent, m) /\ g.status_code = code
    BY <2>1, <2>2, <2>4
  <2>6. h.sent = <<>>
    BY <1>1 DEF HandlerOK
  <2>7. HandlerOK(g)
    BY <2>3, <2>5, <2>6, AppendOK
  <2>8. Len(g.sent) = 1 /\ g.sent[1] = m
    BY <2>5, <2>6
  <2> QED
    BY <2>1, <2>3, <2>5, <2>7, <2>8, <1>1 DEF g, code
<1>2. CASE h.header_written /\ h.status_code = 206
  <2> DEFINE m == [head |-> FALSE, status |-> 206, data |-> data, more |-> FALSE]
  <2>2. g = [status_code |-> 200, header_written |-> TRUE, sent |-> Append(h.sent, m)]
    BY <1>2 DEF Send, SendLast
  <2> HIDE DEF g
  <2>3. m \in Msg /\ ~ m.head /\ ~ m.more
    BY DEF Msg
  <2> HIDE DEF m
  <2>4. Append(h.sent, m) \in Seq(Msg)
    BY <1>0, <2>3
  <2>5. /\ g \in [status_code : Nat, header_written : BOOLEAN, sent : Seq(Msg)]
        /\ g.header_written /\ g.sent = Append(h.sent, m) /\ g.status_code = 200
    BY <2>2, <2>4
  <2>6. h.sent # <<>>
    BY <1>2 DEF HandlerOK
  <2>7. (m.head <=> h.sent = <<>>) /\ (m.more <=> g.status_code = 206)
    BY <2>3, <2>5, <2>6
  <2>8. HandlerOK(g)
    <3>1. m \in Msg /\ (h.sent # <<>> => h.status_code = 206)
      BY <1>2, <2>3
    <3> QED
      BY <2>5, <2>7, <3>1, AppendOK, Zenon
  <2> QED
    BY <2>5, <2>8, <1>2 DEF g
<1>3. CASE h.header_written /\ h.status_code # 206
  <2>1. g = h
    BY <1>3 DEF Send, SendLast
  <2> HIDE DEF g
  <2>2. HandlerOK(g) /\ g.header_written /\ g.status_code # 206
    BY <2>1, <1>3
  <2> QED
    BY <2>1, <2>2, <1>3 DEF g
<1> QED
  BY <1>0, <1>1, <1>2, <1>3

(* setStatusCode before the header.                                        *)
LEMMA StatusOK ==
  ASSUME NEW h, HandlerOK(h), ~ h.header_written, NEW code \in Nat \ {206}
  PROVE  /\ HandlerOK([h EXCEPT !.status_code = code])
         /\ [h EXCEPT !.status_code = code].status_code = code
         /\ ~ [h EXCEPT !.status_code = code].header_written
<1> DEFINE g == [h EXCEPT !.status_code = code]
<1>1. /\ g \in [status_code : Nat, header_written : BOOLEAN, sent : Seq(Msg)]
      /\ g.status_code = code /\ g.header_written = h.header_written /\ g.sent = h.sent
  BY DEF HandlerOK
<1>2. h.sent = <<>>
  BY DEF HandlerOK
<1> HIDE DEF g
<1>3. HandlerOK(g)
  BY <1>1, <1>2 DEF HandlerOK
<1> QED
  BY <1>1, <1>3 DEF g

(* flush and finish.                                                       *)
LEMMA FlushOK ==
  ASSUME HandlerOK(handler), buffer \in Seq(0..MaxParts), NEW done \in BOOLEAN, FlushBuffer(done)
  PROVE  /\ HandlerOK(handler') /\ handler'.header_written
         /\ done => handler'.status_code # 206
         /\ handler.header_written /\ handler.status_code # 206 => handler' = handler
         /\ done /\ ~ handler.header_written =>
              /\ Len(handler'.sent) = 1
              /\ handler'.sent[1].data = buffer
              /\ handler'.sent[1].status = handler.status_code
<1>1. buffer \in Seq(Nat) /\ <<>> \in Seq(Nat)
  BY StreamAssumption
<1>2. CASE ~ done
  <2>1. handler' = SendMore(handler, buffer)
    BY <1>2 DEF FlushBuffer, SendMore, Send
  <2> QED
    BY <2>1, <1>1, <1>2, SendMoreOK
<1>3. CASE done /\ ~ handler.header_written
  <2>1. handler' = SendLast(handler, buffer)
    BY <1>3 DEF FlushBuffer, SendLast, Send
  <2> QED
    BY <2>1, <1>1, <1>3, SendLastOK
<1>4. CASE done /\ handler.header_written
  <2>1. PICK empty : empty = <<>>
    OBVIOUS
  <2>2. PICK first : first = SendMore(handler, buffer)
    OBVIOUS
  <2>3. (~ done \/ handler.header_written) = TRUE
    BY <1>4
  <2>4. ((~ done \/ handler.header_written) /\ done) = TRUE
    BY <1>4
  <2>5. handler' = SendLast(first, empty)
    BY <2>1, <2>2, <2>3, <2>4, Zenon DEF FlushBuffer, SendMore, SendLast
  <2>6. /\ HandlerOK(first) /\ first.header_written
        /\ handler.status_code # 206 => first = handler
    BY <2>2, <1>1, <1>4, SendMoreOK
  <2>7. empty \in Seq(Nat)
    BY <2>1, <1>1
  <2> HIDE <2>1
  <2> QED
    BY <2>5, <2>6, <2>7, <1>4, SendLastOK
<1> QED
  BY <1>2, <1>3, <1>4

(* sendError before the header.                                            *)
LEMMA ErrorOK ==
  ASSUME NEW h, HandlerOK(h), ~ h.header_written, NEW code \in Nat \ {206}
  PROVE  LET g == SendLast([h EXCEPT !.status_code = code], <<0>>) IN
         /\ HandlerOK(g) /\ g.header_written /\ g.status_code # 206
         /\ Len(g.sent) = 1 /\ g.sent[1].data = <<0>> /\ g.sent[1].status = code
<1> DEFINE f == [h EXCEPT !.status_code = code]
<1>1. HandlerOK(f) /\ f.status_code = code /\ ~ f.header_written
  BY StatusOK
<1> HIDE DEF f
<1>2. PICK text : text = <<0>>
  OBVIOUS
<1>3. text \in Seq(Nat)
  BY <1>2
<1>4. /\ HandlerOK(SendLast(f, text)) /\ SendLast(f, text).header_written
      /\ SendLast(f, text).status_code # 206
      /\ Len(SendLast(f, text).sent) = 1 /\ SendLast(f, text).sent[1].data = text
      /\ SendLast(f, text).sent[1].status = code
  <2> HIDE <1>2
  <2> QED
    BY <1>1, <1>3, SendLastOK
<1> QED
  BY <1>2, <1>4 DEF f

-----------------------------------------------------------------------------
(* The inductive invariant.  Who answers decides what is in the buffer and *)
(* whether something was sent: nothing before the answer is being finished *)
(* or QGIS has the request, and what an API wrote is what is kept.         *)
BufferType ==
    /\ buffer \in Seq(0..MaxParts)
    /\ kept \in Seq(1..MaxParts)
    /\ written \in 0..MaxParts
    /\ finish \in BOOLEAN
    /\ failed \in BOOLEAN
    /\ pc \in {"handling", "returned", "raised"}
    /\ route \in {"start", "qgis", "api", "finishing", "closing"}
    /\ finished \in BOOLEAN
    /\ finished => route \in {"api", "finishing", "closing"}
    /\ route = "qgis" => Len(buffer) <= Len(kept)

Unanswered == ~ handler.header_written /\ ~ finish /\ ~ failed

Ended == handler.header_written /\ handler.status_code # 206

EndInv ==
    /\ finish /\ ~ failed => Ended
    /\ pc = "returned" => finish

(* What the answer of an API will be, and what it is.                      *)
ToAnswer ==
    \/ buffer = <<0>> /\ handler.status_code \notin {200, 206}
    \/ buffer = kept /\ handler.status_code = 200

Answered ==
    /\ Len(handler.sent) = 1
    /\ \/ handler.sent[1].data = <<0>> /\ handler.sent[1].status \notin {200, 206}
       \/ handler.sent[1].data = kept /\ handler.sent[1].status = 200

RouteInv ==
    /\ route = "start" /\ pc = "handling" =>
          Unanswered /\ buffer = <<>> /\ kept = <<>> /\ handler.status_code = 200
    /\ route = "api" /\ ~ finished => Unanswered /\ buffer = kept /\ handler.status_code = 200
    /\ route = "finishing" => Unanswered
    /\ route = "finishing" /\ finished => ToAnswer
    /\ route \in {"api", "closing"} /\ finished /\ ~ failed => finish /\ Answered

HandlingInv == HandlerOK(handler) /\ BufferType /\ EndInv /\ RouteInv

(* The initial states satisfy the invariant.                               *)
LEMMA HandlingInit == InitHandling => HandlingInv
<1> SUFFICES ASSUME InitHandling PROVE HandlingInv
  OBVIOUS
<1>1. /\ <<>> \in Seq(Msg) /\ <<>> \in Seq(0..MaxParts) /\ <<>> \in Seq(1..MaxParts)
      /\ (\A i \in DOMAIN <<>> : FALSE) /\ Len(<<>>) = 0
  OBVIOUS
<1>2. /\ handler \in [status_code : Nat, header_written : BOOLEAN, sent : Seq(Msg)]
      /\ handler.status_code = 200 /\ ~ handler.header_written /\ handler.sent = <<>>
  BY <1>1 DEF InitHandling, Init
<1>3. HandlerOK(handler)
  BY <1>1, <1>2 DEF HandlerOK
<1>4. BufferType
  <2>1. 0 \in 0..MaxParts /\ FALSE \in BOOLEAN
    BY StreamAssumption
  <2> QED
    BY <1>1, <2>1 DEF InitHandling, Init, BufferType
<1>5. EndInv /\ RouteInv
  BY <1>2 DEF InitHandling, Init, EndInv, RouteInv, Unanswered
<1> QED
  BY <1>3, <1>4, <1>5 DEF HandlingInv

-----------------------------------------------------------------------------
(* An error is one message that ends the answer, or nothing once the       *)
(* header has been written.                                                *)
LEMMA ErrorReplyOK ==
  ASSUME HandlerOK(handler), NEW code \in Nat \ {206}, ErrorReply(code)
  PROVE  /\ HandlerOK(handler')
         /\ handler.header_written => handler' = handler /\ finish' = finish
         /\ ~ handler.header_written =>
              /\ finish' = TRUE
              /\ handler'.header_written /\ handler'.status_code # 206
              /\ Len(handler'.sent) = 1 /\ handler'.sent[1].data = <<0>>
              /\ handler'.sent[1].status = code
<1>1. CASE handler.header_written
  BY <1>1 DEF ErrorReply
<1>2. CASE ~ handler.header_written
  <2>1. finish' = TRUE /\ handler' = SendLast([handler EXCEPT !.status_code = code], <<0>>)
    BY <1>2 DEF ErrorReply, SendLast
  <2>2. /\ HandlerOK(handler') /\ handler'.header_written /\ handler'.status_code # 206
        /\ Len(handler'.sent) = 1 /\ handler'.sent[1].data = <<0>>
        /\ handler'.sent[1].status = code
    BY <2>1, <1>2, ErrorOK
  <2> QED
    BY <2>1, <2>2, <1>2
<1> QED
  BY <1>1, <1>2

(* finish, and finish whose flush fails: unless nothing could be sent, the *)
(* stream has ended, and nothing is added to one that had.                 *)
LEMMA FinishCalledOK ==
  ASSUME HandlerOK(handler), buffer \in Seq(0..MaxParts), failed \in BOOLEAN, FinishCalled
  PROVE  /\ HandlerOK(handler')
         /\ finish' = TRUE
         /\ failed' \in BOOLEAN
         /\ buffer' = <<>> \/ buffer' = buffer
         /\ UNCHANGED <<written, kept, pc>>
         /\ ~ failed' =>
              /\ ~ failed
              /\ Ended'
              /\ Ended => handler' = handler
              /\ ~ handler.header_written =>
                   /\ Len(handler'.sent) = 1
                   /\ \/ handler'.sent[1].data = <<0>> /\ handler'.sent[1].status = 500
                      \/ handler'.sent[1].data = buffer
                         /\ handler'.sent[1].status = handler.status_code
<1>1. CASE Finish
  <2>1. FlushBuffer(TRUE) /\ finish' = TRUE /\ buffer' = <<>> /\ UNCHANGED <<written, kept, pc, failed>>
    BY <1>1 DEF Finish, FlushBuffer
  <2>2. /\ HandlerOK(handler') /\ handler'.header_written
        /\ handler'.status_code # 206
        /\ handler.header_written /\ handler.status_code # 206 => handler' = handler
        /\ ~ handler.header_written =>
              /\ Len(handler'.sent) = 1
              /\ handler'.sent[1].data = buffer
              /\ handler'.sent[1].status = handler.status_code
    BY <2>1, FlushOK
  <2> QED
    BY <2>1, <2>2 DEF Ended
<1>2. CASE ~ handler.header_written /\ ErrorReply(500)
           /\ UNCHANGED <<failed, buffer, written, kept, pc>>
  <2>1. PICK code \in Nat \ {206} : code = 500
    OBVIOUS
  <2>2. /\ HandlerOK(handler')
        /\ finish' = TRUE
        /\ handler'.header_written /\ handler'.status_code # 206
        /\ Len(handler'.sent) = 1 /\ handler'.sent[1].data = <<0>>
        /\ handler'.sent[1].status = code
    <3>1. ErrorReply(code) /\ ~ handler.header_written
      BY <1>2, <2>1
    <3> HIDE <2>1
    <3> QED
      BY <3>1, ErrorReplyOK
  <2> QED
    BY <1>2, <2>1, <2>2 DEF Ended
<1>3. CASE /\ finish' = (finish \/ TRUE) /\ failed' = TRUE
           /\ UNCHANGED <<handler, buffer, written, kept, pc>>
  BY <1>3
<1> QED
  BY <1>1, <1>2, <1>3 DEF FinishCalled, FlushFails

-----------------------------------------------------------------------------
(* The types that an answer leaves in place.                               *)
LEMMA SameTypes ==
  ASSUME BufferType, buffer' = <<>> \/ buffer' = buffer, UNCHANGED <<written, kept>>,
         finish' \in BOOLEAN, failed' \in BOOLEAN, pc' \in {"handling", "returned", "raised"},
         route' \in {"start", "qgis", "api", "finishing", "closing"},
         finished' \in BOOLEAN, finished' => route' \in {"api", "finishing", "closing"},
         route' = "qgis" => route = "qgis"
  PROVE  BufferType'
<1>1. <<>> \in Seq(0..MaxParts) /\ Len(<<>>) = 0 /\ Len(kept) \in Nat
  BY DEF BufferType
<1>2. buffer' \in Seq(0..MaxParts)
  BY <1>1 DEF BufferType
<1>3. route' = "qgis" => Len(buffer') <= Len(kept')
  BY <1>1 DEF BufferType
<1> QED
  BY <1>2, <1>3 DEF BufferType

(* A prefix of a sequence is one.                                          *)
LEMMA PrefixOK ==
  ASSUME NEW S, NEW s \in Seq(S), NEW n \in 0..Len(s)
  PROVE  SubSeq(s, 1, n) \in Seq(S)
  OBVIOUS

(* The calls that QGIS makes keep the stream and what is known of its end. *)
LEMMA QgisStep ==
  ASSUME HandlingInv, Qgis
  PROVE  HandlingInv'
<1> USE DEF HandlingInv
<1>0. /\ route = "qgis" /\ route' = "qgis" /\ finished' = finished
      /\ HandlerOK(handler) /\ BufferType /\ EndInv
  BY DEF Qgis
<1>1. RouteInv'
  BY <1>0 DEF RouteInv
<1>2. ASSUME NEW code \in Statuses, SetStatusCode(code)
      PROVE  HandlingInv'
  <2>1. code \in Nat \ {206}
    BY StreamAssumption
  <2>2. /\ ~ handler.header_written /\ handler' = [handler EXCEPT !.status_code = code]
        /\ UNCHANGED <<buffer, finish, written, kept, failed, pc>>
    BY <1>2 DEF SetStatusCode
  <2>3. HandlerOK(handler')
    BY <2>1, <2>2, <1>0, StatusOK
  <2>4. BufferType' /\ EndInv'
    BY <1>0, <2>2 DEF BufferType, EndInv, Ended
  <2> QED
    BY <1>1, <2>3, <2>4
<1>3. ASSUME NEW code \in Statuses, SendError(code)
      PROVE  HandlingInv'
  <2>1. code \in Nat \ {206}
    BY StreamAssumption
  <2>2. ErrorReply(code) /\ UNCHANGED <<buffer, written, kept, failed, pc>>
    BY <1>3 DEF SendError
  <2>3. /\ HandlerOK(handler')
        /\ handler.header_written => handler' = handler /\ finish' = finish
        /\ ~ handler.header_written =>
              finish' = TRUE /\ handler'.header_written /\ handler'.status_code # 206
    BY <2>1, <2>2, <1>0, ErrorReplyOK
  <2>4. finish' \in BOOLEAN
    BY <2>3, <1>0 DEF BufferType
  <2>5. BufferType' /\ EndInv'
    BY <1>0, <2>2, <2>3, <2>4 DEF BufferType, EndInv, Ended
  <2> QED
    BY <1>1, <2>3, <2>5
<1>4. ASSUME NEW done \in BOOLEAN, FlushFails(done)
      PROVE  HandlingInv'
  <2>1. UNCHANGED <<buffer, written, kept, pc>>
    BY <1>4 DEF FlushFails
  <2>2. CASE ~ handler.header_written /\ ErrorReply(500) /\ UNCHANGED failed
    <3>1. PICK code \in Nat \ {206} : code = 500
      OBVIOUS
    <3>2. ErrorReply(code)
      BY <2>2, <3>1
    <3>3. /\ HandlerOK(handler')
          /\ finish' = TRUE /\ handler'.header_written /\ handler'.status_code # 206
      <4>1. HandlerOK(handler) /\ ~ handler.header_written
        BY <1>0, <2>2
      <4> HIDE <3>1
      <4> QED
        BY <3>2, <4>1, ErrorReplyOK
    <3>4. BufferType' /\ EndInv'
      BY <1>0, <2>1, <2>2, <3>3 DEF BufferType, EndInv, Ended
    <3> QED
      BY <1>1, <3>3, <3>4
  <2>3. CASE finish' = (finish \/ done) /\ failed' = TRUE /\ UNCHANGED handler
    <3>1. finish' \in BOOLEAN /\ failed' \in BOOLEAN /\ (finish => finish')
      BY <2>3
    <3>2. BufferType'
      BY <1>0, <2>1, <3>1 DEF BufferType
    <3>3. EndInv'
      BY <1>0, <2>1, <2>3, <3>1 DEF EndInv
    <3> QED
      BY <1>0, <1>1, <2>3, <3>2, <3>3
  <2> QED
    BY <1>4, <2>2, <2>3 DEF FlushFails
<1>5. CASE Write
  <2>1. /\ handler' = handler /\ UNCHANGED <<finish, failed, pc>> /\ written < MaxParts
        /\ written' = written + 1
        /\ buffer' = Append(buffer, written') /\ kept' = Append(kept, written')
    BY <1>5 DEF Write
  <2>2. /\ buffer \in Seq(0..MaxParts) /\ kept \in Seq(1..MaxParts) /\ written \in 0..MaxParts
        /\ Len(buffer) <= Len(kept)
    BY <1>0 DEF BufferType
  <2>3. written' \in 1..MaxParts /\ written' \in 0..MaxParts
    BY <2>1, <2>2, StreamAssumption
  <2>4. /\ buffer' \in Seq(0..MaxParts) /\ kept' \in Seq(1..MaxParts)
        /\ Len(buffer') = Len(buffer) + 1 /\ Len(kept') = Len(kept) + 1
    BY <2>1, <2>2, <2>3
  <2>5. Len(buffer') <= Len(kept')
    BY <2>2, <2>4
  <2>6. BufferType' /\ EndInv'
    BY <1>0, <2>1, <2>3, <2>4, <2>5 DEF BufferType, EndInv, Ended
  <2> QED
    BY <1>0, <1>1, <2>1, <2>6
<1>6. CASE Clear
  <2>1. /\ handler' = handler /\ UNCHANGED <<finish, written, failed, pc>>
        /\ buffer' = <<>> /\ kept' = SubSeq(kept, 1, Len(kept) - Len(buffer))
    BY <1>6 DEF Clear
  <2>2. /\ buffer \in Seq(0..MaxParts) /\ kept \in Seq(1..MaxParts)
        /\ Len(buffer) <= Len(kept)
    BY <1>0 DEF BufferType
  <2>3. kept' \in Seq(1..MaxParts)
    <3>1. PICK n : n = Len(kept) - Len(buffer)
      OBVIOUS
    <3>2. n \in 0..Len(kept)
      BY <2>2, <3>1
    <3> QED
      BY <2>1, <2>2, <3>1, <3>2, PrefixOK
  <2>4. buffer' \in Seq(0..MaxParts) /\ Len(buffer') <= Len(kept')
    BY <2>1, <2>3
  <2>5. BufferType' /\ EndInv'
    BY <1>0, <2>1, <2>3, <2>4 DEF BufferType, EndInv, Ended
  <2> QED
    BY <1>0, <1>1, <2>1, <2>5
<1>7. CASE Flush
  <2>1. FlushBuffer(finish) /\ buffer' = <<>> /\ UNCHANGED <<finish, written, kept, failed, pc>>
    BY <1>7 DEF Flush, FlushBuffer
  <2>2. buffer \in Seq(0..MaxParts) /\ finish \in BOOLEAN
    BY <1>0 DEF BufferType
  <2>3. /\ HandlerOK(handler') /\ handler'.header_written
        /\ finish => handler'.status_code # 206
    BY <1>0, <2>1, <2>2, FlushOK
  <2>4. BufferType'
    BY <1>0, <2>1, SameTypes DEF BufferType
  <2>5. EndInv'
    BY <1>0, <2>1, <2>3 DEF EndInv, Ended
  <2> QED
    BY <1>1, <2>3, <2>4, <2>5
<1>8. CASE Finish
  <2>1. FinishCalled /\ buffer \in Seq(0..MaxParts) /\ failed \in BOOLEAN
    BY <1>8, <1>0 DEF FinishCalled, BufferType
  <2>2. /\ HandlerOK(handler') /\ finish' = TRUE /\ failed' \in BOOLEAN
        /\ buffer' = <<>> \/ buffer' = buffer
        /\ UNCHANGED <<written, kept, pc>>
        /\ ~ failed' => Ended'
    BY <1>0, <2>1, FinishCalledOK
  <2>3. BufferType'
    BY <1>0, <2>2, SameTypes DEF BufferType
  <2>4. EndInv'
    BY <2>2 DEF EndInv
  <2> QED
    BY <1>1, <2>2, <2>3, <2>4
<1> QED
  BY <1>2, <1>3, <1>4, <1>5, <1>6, <1>7, <1>8 DEF Qgis

(* What handle_message answers itself.                                     *)
LEMMA StartStep ==
  ASSUME HandlingInv,
         \/ NoProject \/ HeadRequest \/ NotModified \/ HandleRequest \/ Uncaught
         \/ \E code \in LookupCodes : LookupFails(code)
  PROVE  HandlingInv'
<1> USE DEF HandlingInv
<1>0. HandlerOK(handler) /\ BufferType /\ EndInv /\ RouteInv
  OBVIOUS
<1>1. ASSUME route = "start", pc = "handling"
      PROVE  /\ Unanswered /\ buffer = <<>> /\ kept = <<>> /\ handler.status_code = 200
             /\ finished = FALSE
  BY <1>0, <1>1 DEF RouteInv, BufferType
<1>2. CASE NoProject
  <2>1. /\ pc = "handling" /\ route = "start" /\ route' = "finishing" /\ buffer' = <<0>>
        /\ handler' = [handler EXCEPT !.status_code = 400]
        /\ UNCHANGED <<finish, written, kept, failed, pc, finished>>
    BY <1>2 DEF NoProject
  <2>2. ~ handler.header_written /\ ~ finish /\ ~ failed /\ finished = FALSE
    BY <1>1, <2>1 DEF Unanswered
  <2>3. PICK code \in Nat \ {206} : code = 400
    OBVIOUS
  <2>4. HandlerOK(handler') /\ ~ handler'.header_written
    BY <1>0, <2>1, <2>2, <2>3, StatusOK
  <2>5. <<0>> \in Seq(0..MaxParts)
    BY StreamAssumption
  <2>6. BufferType'
    BY <1>0, <2>1, <2>2, <2>5 DEF BufferType
  <2>7. EndInv'
    BY <1>0, <2>1, <2>2 DEF EndInv
  <2>8. RouteInv'
    BY <2>1, <2>2, <2>4 DEF RouteInv, Unanswered
  <2> QED
    BY <2>4, <2>6, <2>7, <2>8
<1>3. CASE HeadRequest
  <2>1. /\ pc = "handling" /\ route = "start" /\ route' = "finishing"
        /\ UNCHANGED <<handler, buffer, finish, written, kept, failed, pc, finished>>
    BY <1>3 DEF HeadRequest, vars
  <2>2. Unanswered /\ finished = FALSE
    BY <1>1, <2>1
  <2>3. BufferType'
    BY <1>0, <2>1, <2>2 DEF BufferType
  <2>4. EndInv' /\ RouteInv'
    BY <1>0, <2>1, <2>2 DEF EndInv, RouteInv, Unanswered, Ended
  <2> QED
    BY <1>0, <2>1, <2>3, <2>4
<1>4. CASE NotModified
  <2>1. /\ pc = "handling" /\ route = "start" /\ route' = "finishing"
        /\ handler' = [handler EXCEPT !.status_code = 304]
        /\ UNCHANGED <<buffer, finish, written, kept, failed, pc, finished>>
    BY <1>4 DEF NotModified, SetStatusCode, Handling
  <2>2. ~ handler.header_written /\ ~ finish /\ ~ failed /\ finished = FALSE
    BY <1>1, <2>1 DEF Unanswered
  <2>3. PICK code \in Nat \ {206} : code = 304
    OBVIOUS
  <2>4. HandlerOK(handler') /\ ~ handler'.header_written
    BY <1>0, <2>1, <2>2, <2>3, StatusOK
  <2>5. BufferType'
    BY <1>0, <2>1, <2>2 DEF BufferType
  <2>6. EndInv'
    BY <1>0, <2>1, <2>2 DEF EndInv
  <2>7. RouteInv'
    BY <2>1, <2>2, <2>4 DEF RouteInv, Unanswered
  <2> QED
    BY <2>4, <2>5, <2>6, <2>7
<1>5. CASE HandleRequest
  <2>1. /\ pc = "handling" /\ route = "start" /\ route' \in {"qgis", "api"}
        /\ UNCHANGED <<handler, buffer, finish, written, kept, failed, pc, finished>>
    BY <1>5 DEF HandleRequest, vars
  <2>2. /\ Unanswered /\ buffer = <<>> /\ kept = <<>> /\ handler.status_code = 200
        /\ finished = FALSE
    BY <1>1, <2>1
  <2>3. BufferType'
    <3>1. Len(buffer') <= Len(kept')
      BY <2>1, <2>2
    <3> QED
      BY <1>0, <2>1, <2>2, <3>1 DEF BufferType
  <2>4. EndInv' /\ RouteInv'
    BY <1>0, <2>1, <2>2 DEF EndInv, RouteInv, Unanswered, Ended
  <2> QED
    BY <1>0, <2>1, <2>3, <2>4
<1>6. CASE Uncaught
  <2>1. /\ route \in {"start", "qgis"} /\ pc' = "raised"
        /\ UNCHANGED <<buffer, finish, written, kept, failed, route, finished>>
    BY <1>6 DEF Uncaught, Raise
  <2>2. HandlerOK(handler') /\ (handler.header_written => handler' = handler)
    <3>1. CASE handler.header_written
      BY <1>0, <1>6, <3>1 DEF Uncaught, Raise
    <3>2. CASE ~ handler.header_written
      <4>1. PICK code \in Nat \ {206} : code = 500
        OBVIOUS
      <4>2. handler' = SendLast([handler EXCEPT !.status_code = code], <<0>>)
        BY <1>6, <3>2, <4>1 DEF Uncaught, Raise, SendLast
      <4> HIDE <4>1
      <4>3. HandlerOK(handler')
        BY <1>0, <3>2, <4>2, ErrorOK
      <4> QED
        BY <4>3, <3>2
    <3> QED
      BY <3>1, <3>2
  <2>3. BufferType'
    BY <1>0, <2>1 DEF BufferType
  <2>4. EndInv'
    BY <1>0, <2>1, <2>2 DEF EndInv, Ended
  <2>5. RouteInv'
    BY <1>0, <2>1 DEF RouteInv
  <2> QED
    BY <2>2, <2>3, <2>4, <2>5
<1>7. ASSUME NEW code \in LookupCodes, LookupFails(code)
      PROVE  HandlingInv'
  <2>1. /\ pc = "handling" /\ route = "start" /\ route' = "closing" /\ ErrorReply(code)
        /\ UNCHANGED <<buffer, written, kept, failed, pc, finished>>
    BY <1>7 DEF LookupFails, SendError, Handling
  <2>2. ~ handler.header_written /\ finished = FALSE
    BY <1>1, <2>1 DEF Unanswered
  <2>3. code \in Nat \ {206}
    BY DEF LookupCodes
  <2>4. /\ HandlerOK(handler') /\ finish' = TRUE
        /\ handler'.header_written /\ handler'.status_code # 206
    BY <1>0, <2>1, <2>2, <2>3, ErrorReplyOK
  <2>5. BufferType'
    BY <1>0, <2>1, <2>2, <2>4 DEF BufferType
  <2>6. EndInv' /\ RouteInv'
    BY <2>1, <2>2, <2>4 DEF EndInv, RouteInv, Ended
  <2> QED
    BY <2>4, <2>5, <2>6
<1> QED
  BY <1>2, <1>3, <1>4, <1>5, <1>6, <1>7

(* The calls of finish: by handle_message or _execute, by the method of an *)
(* API, and by QGIS after them.                                            *)
LEMMA FinishStep ==
  ASSUME HandlingInv, FinishAnswer \/ ApiFinish \/ FinishAgain
  PROVE  HandlingInv'
<1> USE DEF HandlingInv
<1>0. /\ HandlerOK(handler) /\ BufferType /\ EndInv /\ RouteInv
      /\ buffer \in Seq(0..MaxParts) /\ failed \in BOOLEAN /\ finished \in BOOLEAN
  BY DEF BufferType
<1>1. FinishCalled
  BY DEF FinishAnswer, ApiFinish, FinishAgain
<1>2. /\ HandlerOK(handler') /\ finish' = TRUE /\ failed' \in BOOLEAN
      /\ buffer' = <<>> \/ buffer' = buffer
      /\ UNCHANGED <<written, kept, pc>>
      /\ ~ failed' =>
              /\ ~ failed
              /\ Ended'
              /\ Ended => handler' = handler
              /\ ~ handler.header_written =>
                   /\ Len(handler'.sent) = 1
                   /\ \/ handler'.sent[1].data = <<0>> /\ handler'.sent[1].status = 500
                      \/ handler'.sent[1].data = buffer
                         /\ handler'.sent[1].status = handler.status_code
  BY <1>0, <1>1, FinishCalledOK
<1>3. /\ route' \in {"api", "closing"} /\ finished' \in BOOLEAN
      /\ route' = "api" => finished'
  BY <1>0 DEF FinishAnswer, ApiFinish, FinishAgain
<1>4. BufferType'
  BY <1>0, <1>2, <1>3, SameTypes DEF BufferType
<1>5. EndInv'
  BY <1>2 DEF EndInv
<1>6. ASSUME finished', ~ failed' PROVE Answered'
  <2>1. CASE Unanswered /\ ToAnswer
    <3>1. ~ handler.header_written
      BY <2>1 DEF Unanswered
    <3>2. /\ Len(handler'.sent) = 1
          /\ \/ handler'.sent[1].data = <<0>> /\ handler'.sent[1].status = 500
             \/ handler'.sent[1].data = buffer /\ handler'.sent[1].status = handler.status_code
      BY <1>2, <1>6, <3>1
    <3>3. 500 \notin {200, 206}
      OBVIOUS
    <3>4. kept' = kept
      BY <1>2
    <3> QED
      BY <2>1, <3>2, <3>3, <3>4 DEF ToAnswer, Answered
  <2>2. CASE FinishAnswer
    BY <2>1, <2>2, <1>0, <1>6 DEF FinishAnswer, RouteInv
  <2>3. CASE ApiFinish
    BY <2>1, <2>3, <1>0 DEF ApiFinish, RouteInv, ToAnswer
  <2>4. CASE FinishAgain
    <3>1. finish /\ Answered /\ ~ failed
      BY <2>4, <1>0, <1>2, <1>6 DEF FinishAgain, RouteInv
    <3>2. Ended
      BY <3>1, <1>0 DEF EndInv
    <3>3. handler' = handler /\ kept' = kept
      BY <3>2, <1>2, <1>6
    <3> QED
      BY <3>1, <3>3 DEF Answered
  <2> QED
    BY <2>2, <2>3, <2>4
<1>7. RouteInv'
  BY <1>2, <1>3, <1>6 DEF RouteInv
<1> QED
  BY <1>2, <1>4, <1>5, <1>7

(* The method of an API, and how _execute goes on.                         *)
LEMMA ApiStep ==
  ASSUME HandlingInv, \/ ApiWrite \/ ApiReturns \/ \E code \in ApiCodes : ApiRaises(code)
  PROVE  HandlingInv'
<1> USE DEF HandlingInv
<1>0. /\ HandlerOK(handler) /\ BufferType /\ EndInv /\ RouteInv
      /\ buffer \in Seq(0..MaxParts) /\ kept \in Seq(1..MaxParts) /\ written \in 0..MaxParts
      /\ finished \in BOOLEAN
  BY DEF BufferType
<1>1. ASSUME route = "api", ~ finished
      PROVE  Unanswered /\ buffer = kept /\ handler.status_code = 200
  BY <1>0, <1>1 DEF RouteInv
<1>2. CASE ApiWrite
  <2>1. /\ route = "api" /\ route' = "api" /\ finished' = finished /\ ~ finish
        /\ handler' = handler /\ UNCHANGED <<finish, failed, pc>> /\ written < MaxParts
        /\ written' = written + 1
        /\ buffer' = Append(buffer, written') /\ kept' = Append(kept, written')
    BY <1>2 DEF ApiWrite, Write
  <2>2. written' \in 1..MaxParts /\ written' \in 0..MaxParts
    BY <2>1, <1>0, StreamAssumption
  <2>3. buffer' \in Seq(0..MaxParts) /\ kept' \in Seq(1..MaxParts)
    BY <2>1, <2>2, <1>0
  <2>4. BufferType'
    BY <1>0, <2>1, <2>2, <2>3 DEF BufferType
  <2>5. EndInv'
    BY <1>0, <2>1 DEF EndInv, Ended
  <2>6. RouteInv'
    <3>1. CASE finished
      <4>1. failed
        BY <3>1, <2>1, <1>0 DEF RouteInv
      <4> QED
        BY <3>1, <4>1, <2>1 DEF RouteInv
    <3>2. CASE ~ finished
      <4>1. Unanswered' /\ buffer' = kept' /\ handler'.status_code = 200
        BY <1>1, <2>1, <3>2 DEF Unanswered
      <4> QED
        BY <3>2, <4>1, <2>1 DEF RouteInv
    <3> QED
      BY <3>1, <3>2
  <2> QED
    BY <1>0, <2>1, <2>4, <2>5, <2>6
<1>3. CASE ApiReturns
  <2>1. /\ route = "api" /\ route' = IF finished THEN "closing" ELSE "finishing"
        /\ finished' = TRUE
        /\ UNCHANGED <<handler, buffer, finish, written, kept, failed, pc>>
    BY <1>3 DEF ApiReturns, vars
  <2>2. BufferType'
    BY <1>0, <2>1 DEF BufferType
  <2>3. EndInv'
    BY <1>0, <2>1 DEF EndInv, Ended
  <2>4. CASE finished
    <3>1. ~ failed => finish /\ Answered
      BY <2>1, <2>4, <1>0 DEF RouteInv
    <3>2. ~ failed' => finish' /\ Answered'
      BY <2>1, <3>1 DEF Answered
    <3>3. RouteInv'
      BY <2>1, <2>4, <3>2 DEF RouteInv
    <3> QED
      BY <1>0, <2>1, <2>2, <2>3, <3>3
  <2>5. CASE ~ finished
    <3>1. Unanswered' /\ ToAnswer'
      BY <1>1, <2>1, <2>5 DEF Unanswered, ToAnswer
    <3>2. RouteInv'
      BY <2>1, <2>5, <3>1 DEF RouteInv
    <3> QED
      BY <1>0, <2>1, <2>2, <2>3, <3>2
  <2> QED
    BY <2>4, <2>5
<1>4. ASSUME NEW code \in ApiCodes, ApiRaises(code)
      PROVE  HandlingInv'
  <2>1. /\ route = "api" /\ route' = IF finished THEN "closing" ELSE "finishing"
        /\ finished' = TRUE
    BY <1>4 DEF ApiRaises
  <2>2. CASE finished
    <3>1. UNCHANGED <<handler, buffer, finish, written, kept, failed, pc>>
      BY <1>4, <2>2 DEF ApiRaises, vars
    <3>2. ~ failed => finish /\ Answered
      BY <2>1, <2>2, <1>0 DEF RouteInv
    <3>3. ~ failed' => finish' /\ Answered'
      BY <3>1, <3>2 DEF Answered
    <3>4. RouteInv'
      BY <2>1, <2>2, <3>3 DEF RouteInv
    <3>5. BufferType' /\ EndInv'
      BY <1>0, <2>1, <3>1 DEF BufferType, EndInv, Ended
    <3> QED
      BY <1>0, <3>1, <3>4, <3>5
  <2>3. CASE ~ finished
    <3>1. /\ handler' = [handler EXCEPT !.status_code = code] /\ buffer' = <<0>> /\ kept' = <<>>
          /\ UNCHANGED <<finish, written, failed, pc>>
      BY <1>4, <2>3 DEF ApiRaises
    <3>2. ~ handler.header_written /\ ~ finish /\ ~ failed
      BY <1>1, <2>1, <2>3 DEF Unanswered
    <3>3. code \in Nat \ {206} /\ code \notin {200, 206}
      BY DEF ApiCodes
    <3>4. HandlerOK(handler') /\ handler'.status_code = code /\ ~ handler'.header_written
      BY <1>0, <3>1, <3>2, <3>3, StatusOK
    <3>5. Unanswered' /\ ToAnswer'
      BY <3>1, <3>2, <3>3, <3>4 DEF Unanswered, ToAnswer
    <3>6. RouteInv'
      BY <2>1, <2>3, <3>5 DEF RouteInv
    <3>7. <<0>> \in Seq(0..MaxParts) /\ <<>> \in Seq(1..MaxParts)
      BY StreamAssumption
    <3>8. BufferType'
      BY <1>0, <2>1, <2>3, <3>1, <3>7 DEF BufferType
    <3>9. EndInv'
      BY <1>0, <3>1, <3>2 DEF EndInv
    <3> QED
      BY <3>4, <3>6, <3>8, <3>9
  <2> QED
    BY <2>2, <2>3
<1> QED
  BY <1>2, <1>3, <1>4

(* Every step keeps the invariant.                                         *)
LEMMA HandlingStep == HandlingInv /\ [NextHandling]_handlingVars => HandlingInv'
<1> SUFFICES ASSUME HandlingInv, [NextHandling]_handlingVars
             PROVE  HandlingInv'
  OBVIOUS
<1>1. CASE HandleMessageReturns
  <2>1. /\ finish /\ pc' = "returned" /\ route \in {"qgis", "closing"}
        /\ UNCHANGED <<handler, buffer, finish, written, kept, failed, route, finished>>
    BY <1>1 DEF HandleMessageReturns, Return
  <2>2. BufferType' /\ EndInv'
    BY <2>1 DEF HandlingInv, BufferType, EndInv, Ended
  <2>3. RouteInv'
    BY <2>1 DEF HandlingInv, RouteInv, Answered
  <2> QED
    BY <2>1, <2>2, <2>3 DEF HandlingInv
<1>2. CASE UNCHANGED handlingVars
  <2>1. UNCHANGED <<handler, buffer, finish, written, kept, failed, pc, route, finished>>
    BY <1>2 DEF handlingVars, vars
  <2>2. BufferType' /\ EndInv'
    BY <2>1 DEF HandlingInv, BufferType, EndInv, Ended
  <2>3. RouteInv'
    BY <2>1 DEF HandlingInv, RouteInv, Answered, ToAnswer, Unanswered
  <2> QED
    BY <2>1, <2>2, <2>3 DEF HandlingInv
<1> QED
  BY <1>1, <1>2, StartStep, FinishStep, ApiStep, QgisStep DEF NextHandling

(* The invariant holds always.                                             *)
LEMMA HandlingInvariant == SpecHandling => []HandlingInv
  BY HandlingInit, HandlingStep, PTL DEF SpecHandling

-----------------------------------------------------------------------------
(* Type correctness: header_written says whether something was sent, which *)
(* Response.sendError and the except clause of run_worker rely on.         *)
THEOREM HandlingTypeCorrect == SpecHandling => []HandlingTypeOK
<1>1. HandlingInv => HandlingTypeOK
  BY DEF HandlingInv, HandlerOK, BufferType, HandlingTypeOK, TypeOK, sent, Msg
<1> QED
  BY <1>1, HandlingInvariant, PTL

(* The client can read what RequestHandler.send sends, whatever QGIS and   *)
(* the APIs call: one header, and further messages only after one that     *)
(* announced them.                                                         *)
THEOREM StreamValidCorrect == SpecHandling => []StreamValid
<1>1. HandlingInv => StreamValid
  BY DEF HandlingInv, HandlerOK, StreamValid, sent
<1> QED
  BY <1>1, HandlingInvariant, PTL

(* When handle_message has returned and no flush failed, the last message  *)
(* said that there is no more: the client does not wait.                   *)
THEOREM StreamEndsCorrect == SpecHandling => []StreamEnds
<1>1. HandlingInv => StreamEnds
  <2> SUFFICES ASSUME HandlingInv, pc = "returned", ~ failed
               PROVE  sent # <<>> /\ ~ Last(sent).more
    BY DEF StreamEnds
  <2>1. handler.header_written /\ handler.status_code # 206
    BY DEF HandlingInv, EndInv, Ended
  <2> QED
    BY <2>1 DEF HandlingInv, HandlerOK, sent, Last
<1> QED
  BY <1>1, HandlingInvariant, PTL

(* An API that finishes its response has one message sent for it, with all *)
(* that it wrote or an error only, although QGIS finishes it once more.    *)
THEOREM ApiAnswersOnceCorrect == SpecHandling => []ApiAnswersOnce
<1>1. HandlingInv => ApiAnswersOnce
  <2> SUFFICES ASSUME HandlingInv, pc = "returned", finished, ~ failed
               PROVE  Answered
    BY DEF ApiAnswersOnce, Answered, sent
  <2>1. finish /\ route \in {"api", "finishing", "closing"}
    BY DEF HandlingInv, EndInv, BufferType
  <2>2. route # "finishing"
    BY <2>1 DEF HandlingInv, RouteInv, Unanswered
  <2> QED
    BY <2>1, <2>2 DEF HandlingInv, RouteInv
<1> QED
  BY <1>1, HandlingInvariant, PTL

-----------------------------------------------------------------------------
(* DataComplete is about the concatenation of what was sent.  The library  *)
(* states induction for predicates; the provers need it for sets.          *)

(* The natural numbers are well ordered.                                   *)
LEMMA LeastNumber ==
  ASSUME NEW T, T \subseteq Nat, T # {}
  PROVE  \E x \in T : \A y \in T : x <= y
<1>1. PICK R : R = OpToRel(<, Nat)
  OBVIOUS
<1>2. IsWellFoundedOn(R, Nat)
  BY <1>1, NatLessThanWellFounded
<1>3. PICK x \in T : \A y \in T : ~ (<<y, x>> \in R)
  BY <1>2, WFMin
<1>4. \A y \in T : <<y, x>> \in R <=> y < x
  BY <1>1 DEF OpToRel
<1>5. \A y \in T : x <= y
  <2> TAKE y \in T
  <2>1. x \in Nat /\ y \in Nat /\ ~ (y < x)
    BY <1>3, <1>4
  <2> QED
    BY <2>1
<1> QED
  BY <1>5

(* Induction, for a set of numbers instead of a predicate.                 *)
LEMMA InductionOnSet ==
  ASSUME NEW S, 0 \in S, \A n \in Nat : n \in S => n + 1 \in S
  PROVE  Nat \subseteq S
<1> SUFFICES ASSUME Nat \ S # {} PROVE FALSE
  OBVIOUS
<1>1. PICK x \in Nat \ S : \A y \in Nat \ S : x <= y
  <2>1. Nat \ S \subseteq Nat
    OBVIOUS
  <2> QED
    BY <2>1, LeastNumber
<1>2. x - 1 \in Nat /\ x = (x - 1) + 1 /\ ~ (x <= x - 1)
  OBVIOUS
<1>3. x - 1 \in S
  BY <1>1, <1>2
<1> QED
  BY <1>2, <1>3

-----------------------------------------------------------------------------
(* FlattenSeq.  The concatenations of the first sequences, up to the n-th. *)
Chain(seqs, n, f) ==
    f = [i \in 1..n |-> IF i = 1 THEN seqs[i] ELSE f[i - 1] \o seqs[i]]

(* There is a chain of every length.                                       *)
LEMMA ChainExists ==
  ASSUME NEW seqs
  PROVE  \A n \in Nat : \E f : Chain(seqs, n, f)
<1> DEFINE S == {n \in Nat : \E f : Chain(seqs, n, f)}
<1>1. 0 \in S
  <2>1. Chain(seqs, 0, [i \in 1..0 |-> 0])
    BY DEF Chain
  <2> QED
    BY <2>1
<1>2. ASSUME NEW n \in Nat, n \in S
      PROVE  n + 1 \in S
  <2>1. PICK f : Chain(seqs, n, f)
    BY <1>2
  <2> DEFINE last == IF n = 0 THEN seqs[1] ELSE f[n] \o seqs[n + 1]
             g == [i \in 1..(n + 1) |-> IF i = n + 1 THEN last ELSE f[i]]
             h == [i \in 1..(n + 1) |-> IF i = 1 THEN seqs[i] ELSE g[i - 1] \o seqs[i]]
  <2>2. ASSUME NEW i \in 1..(n + 1) PROVE g[i] = h[i]
    <3>1. CASE i = n + 1
      <4>1. CASE n = 0
        BY <3>1, <4>1
      <4>2. CASE n # 0
        <5>1. n \in 1..(n + 1) /\ n # n + 1 /\ i # 1 /\ i - 1 = n
          BY <3>1, <4>2
        <5>2. g[n] = f[n]
          BY <5>1
        <5>3. g[i] = f[n] \o seqs[n + 1]
          BY <3>1, <4>2
        <5> HIDE DEF g
        <5> QED
          BY <5>1, <5>2, <5>3, <3>1
      <4> QED
        BY <4>1, <4>2
    <3>2. CASE i # n + 1
      <4>1. i \in 1..n /\ g[i] = f[i]
        BY <3>2
      <4>2. f[i] = IF i = 1 THEN seqs[i] ELSE f[i - 1] \o seqs[i]
        BY <2>1, <4>1 DEF Chain
      <4>3. i # 1 => g[i - 1] = f[i - 1]
        BY <4>1
      <4> HIDE DEF g
      <4> QED
        BY <4>1, <4>2, <4>3
    <3> QED
      BY <3>1, <3>2
  <2>3. g = h
    BY <2>2
  <2>4. Chain(seqs, n + 1, g)
    BY <2>3 DEF Chain
  <2> QED
    BY <2>4
<1> HIDE DEF S
<1>3. Nat \subseteq S
  BY <1>1, <1>2, InductionOnSet
<1> QED
  BY <1>3 DEF S

(* Its members are sequences over the same set.                            *)
LEMMA ChainType ==
  ASSUME NEW D, NEW seqs \in Seq(Seq(D)), NEW f, Chain(seqs, Len(seqs), f)
  PROVE  \A i \in 1..Len(seqs) : f[i] \in Seq(D)
<1> DEFINE S == {n \in Nat : n \in 1..Len(seqs) => f[n] \in Seq(D)}
<1>0. Len(seqs) \in Nat /\ \A i \in 1..Len(seqs) : seqs[i] \in Seq(D)
  OBVIOUS
<1>1. 0 \in S
  BY <1>0
<1>2. ASSUME NEW n \in Nat, n \in S
      PROVE  n + 1 \in S
  <2> SUFFICES ASSUME n + 1 \in 1..Len(seqs) PROVE f[n + 1] \in Seq(D)
    OBVIOUS
  <2>1. f[n + 1] = IF n + 1 = 1 THEN seqs[n + 1] ELSE f[(n + 1) - 1] \o seqs[n + 1]
    BY DEF Chain
  <2>2. CASE n = 0
    BY <2>1, <2>2, <1>0
  <2>3. CASE n # 0
    <3>1. n \in 1..Len(seqs) /\ (n + 1) - 1 = n /\ n + 1 # 1
      BY <2>3, <1>0
    <3>2. f[n] \in Seq(D) /\ seqs[n + 1] \in Seq(D)
      BY <1>2, <3>1, <1>0
    <3>3. f[n + 1] = f[n] \o seqs[n + 1]
      BY <2>1, <3>1
    <3> QED
      BY <3>2, <3>3
  <2> QED
    BY <2>2, <2>3
<1> HIDE DEF S
<1>3. Nat \subseteq S
  BY <1>1, <1>2, InductionOnSet
<1> QED
  BY <1>3, <1>0 DEF S

(* The chain of a longer sequence begins with that of the shorter one.     *)
LEMMA ChainPrefix ==
  ASSUME NEW D, NEW seqs \in Seq(Seq(D)), NEW s \in Seq(D), NEW f, NEW g,
         Chain(seqs, Len(seqs), f), Chain(Append(seqs, s), Len(seqs) + 1, g)
  PROVE  \A i \in 1..Len(seqs) : f[i] = g[i]
<1> DEFINE S == {n \in Nat : n \in 1..Len(seqs) => f[n] = g[n]}
           t == Append(seqs, s)
<1>0. Len(seqs) \in Nat /\ \A i \in 1..Len(seqs) : t[i] = seqs[i]
  OBVIOUS
<1> HIDE DEF t
<1>1. 0 \in S
  BY <1>0
<1>2. ASSUME NEW n \in Nat, n \in S
      PROVE  n + 1 \in S
  <2> SUFFICES ASSUME n + 1 \in 1..Len(seqs) PROVE f[n + 1] = g[n + 1]
    OBVIOUS
  <2>1. f[n + 1] = IF n + 1 = 1 THEN seqs[n + 1] ELSE f[(n + 1) - 1] \o seqs[n + 1]
    BY DEF Chain
  <2>2. g[n + 1] = IF n + 1 = 1 THEN t[n + 1] ELSE g[(n + 1) - 1] \o t[n + 1]
    <3>1. n + 1 \in 1..(Len(seqs) + 1)
      BY <1>0
    <3>2. Chain(t, Len(seqs) + 1, g)
      BY DEF t
    <3> QED
      BY <3>1, <3>2 DEF Chain
  <2>3. t[n + 1] = seqs[n + 1]
    BY <1>0
  <2>4. CASE n = 0
    BY <2>1, <2>2, <2>3, <2>4
  <2>5. CASE n # 0
    <3>1. n \in 1..Len(seqs) /\ (n + 1) - 1 = n /\ n + 1 # 1
      BY <2>5, <1>0
    <3>2. f[n] = g[n]
      BY <1>2, <3>1
    <3> QED
      BY <3>1, <3>2, <2>1, <2>2, <2>3
  <2> QED
    BY <2>4, <2>5
<1> HIDE DEF S
<1>3. Nat \subseteq S
  BY <1>1, <1>2, InductionOnSet
<1> QED
  BY <1>3, <1>0 DEF S

(* FlattenSeq is the last member of a chain.                               *)
LEMMA FlattenChain ==
  ASSUME NEW seqs, Len(seqs) \in Nat \ {0}
  PROVE  \E f : Chain(seqs, Len(seqs), f) /\ FlattenSeq(seqs) = f[Len(seqs)]
<1>1. \E f : Chain(seqs, Len(seqs), f)
  BY ChainExists
<1> QED
  BY <1>1 DEF FlattenSeq, Chain

(* What FlattenSeq returns is a sequence over the same set.                *)
LEMMA FlattenType ==
  ASSUME NEW D, NEW seqs \in Seq(Seq(D))
  PROVE  FlattenSeq(seqs) \in Seq(D)
<1>1. CASE Len(seqs) = 0
  <2>1. seqs = <<>>
    BY <1>1
  <2>2. FlattenSeq(seqs) = seqs
    BY <1>1 DEF FlattenSeq
  <2>3. <<>> \in Seq(D)
    OBVIOUS
  <2> QED
    BY <2>1, <2>2, <2>3
<1>2. CASE Len(seqs) # 0
  <2>1. Len(seqs) \in Nat \ {0} /\ Len(seqs) \in 1..Len(seqs)
    BY <1>2
  <2>2. PICK f : Chain(seqs, Len(seqs), f) /\ FlattenSeq(seqs) = f[Len(seqs)]
    BY <2>1, FlattenChain
  <2> QED
    BY <2>1, <2>2, ChainType
<1> QED
  BY <1>1, <1>2

(* One more sequence at the end is concatenated.                           *)
LEMMA FlattenAppend ==
  ASSUME NEW D, NEW seqs \in Seq(Seq(D)), NEW s \in Seq(D)
  PROVE  FlattenSeq(Append(seqs, s)) = FlattenSeq(seqs) \o s
<1> DEFINE t == Append(seqs, s)
           n == Len(seqs)
<1>1. /\ n \in Nat /\ Len(t) = n + 1 /\ Len(t) \in Nat \ {0} /\ t[n + 1] = s
      /\ n + 1 \in 1..(n + 1)
  OBVIOUS
<1> HIDE DEF t, n
<1>2. PICK g : Chain(t, n + 1, g) /\ FlattenSeq(t) = g[n + 1]
  BY <1>1, FlattenChain
<1>3. g[n + 1] = IF n + 1 = 1 THEN t[n + 1] ELSE g[(n + 1) - 1] \o t[n + 1]
  BY <1>1, <1>2 DEF Chain
<1>4. CASE n = 0
  <2>1. seqs = <<>> /\ FlattenSeq(seqs) = seqs
    BY <1>4 DEF n, FlattenSeq
  <2>2. FlattenSeq(t) = s
    BY <1>1, <1>2, <1>3, <1>4
  <2>3. <<>> \o s = s
    OBVIOUS
  <2> QED
    BY <2>1, <2>2, <2>3 DEF t
<1>5. CASE n # 0
  <2>1. n \in Nat \ {0} /\ n \in 1..n /\ n + 1 # 1 /\ (n + 1) - 1 = n
    BY <1>1, <1>5
  <2>2. PICK f : Chain(seqs, n, f) /\ FlattenSeq(seqs) = f[n]
    BY <2>1, FlattenChain DEF n
  <2>3. f[n] = g[n]
    BY <1>2, <2>1, <2>2, ChainPrefix DEF n, t
  <2>4. FlattenSeq(t) = g[n] \o s
    BY <1>1, <1>2, <1>3, <2>1
  <2> QED
    BY <2>2, <2>3, <2>4 DEF t
<1> QED
  BY <1>4, <1>5

-----------------------------------------------------------------------------
(* Facts about concatenation.                                              *)
LEMMA CatEmpty ==
  ASSUME NEW D, NEW a \in Seq(D)
  PROVE  a \o <<>> = a /\ <<>> \o a = a
OBVIOUS

(* A concatenation without its second part is its first.                   *)
LEMMA CatSubSeq ==
  ASSUME NEW D, NEW a \in Seq(D), NEW b \in Seq(D)
  PROVE  SubSeq(a \o b, 1, Len(a \o b) - Len(b)) = a
<1> DEFINE c == a \o b
<1>1. /\ c \in Seq(D) /\ Len(a) \in Nat /\ Len(b) \in Nat /\ Len(c) = Len(a) + Len(b)
      /\ \A i \in 1..Len(a) : c[i] = a[i]
  OBVIOUS
<1> HIDE DEF c
<1>2. Len(c) - Len(b) = Len(a) /\ Len(a) <= Len(c)
  BY <1>1
<1>3. SubSeq(c, 1, Len(a)) = a
  BY <1>1, <1>2
<1> QED
  BY <1>2, <1>3 DEF c

(* A concatenation has the members of both parts.                          *)
LEMMA CatSet ==
  ASSUME NEW D, NEW a \in Seq(D), NEW b \in Seq(D)
  PROVE  ToSet(a) \subseteq ToSet(a \o b) /\ ToSet(b) \subseteq ToSet(a \o b)
<1> DEFINE c == a \o b
<1>1. /\ DOMAIN a = 1..Len(a) /\ DOMAIN b = 1..Len(b) /\ DOMAIN c = 1..(Len(a) + Len(b))
      /\ Len(a) \in Nat /\ Len(b) \in Nat
      /\ \A i \in 1..Len(a) : c[i] = a[i]
      /\ \A i \in 1..Len(b) : c[Len(a) + i] = b[i]
  OBVIOUS
<1> HIDE DEF c
<1>2. \A i \in DOMAIN a : i \in DOMAIN c /\ c[i] = a[i]
  BY <1>1
<1>3. \A i \in DOMAIN b : Len(a) + i \in DOMAIN c /\ c[Len(a) + i] = b[i]
  BY <1>1
<1>4. ToSet(a) \subseteq ToSet(c)
  BY <1>2, Zenon DEF ToSet
<1>5. ToSet(b) \subseteq ToSet(c)
  BY <1>3, Zenon DEF ToSet
<1> QED
  BY <1>4, <1>5 DEF c

(* What the messages s carry, and what it takes to be a success.           *)
Body(s) == FlattenSeq([i \in DOMAIN s |-> s[i].data])

Clean(h) == 0 \notin ToSet(Body(h.sent)) /\ h.sent[1].status \in {200, 206}

(* A message adds its data to the body.                                    *)
LEMMA BodyAppend ==
  ASSUME NEW s \in Seq(Msg), NEW m \in Msg
  PROVE  /\ Body(s) \in Seq(Nat)
         /\ Body(Append(s, m)) = Body(s) \o m.data
<1> DEFINE d == [i \in DOMAIN s |-> s[i].data]
           t == Append(s, m)
           e == [i \in DOMAIN t |-> t[i].data]
<1>1. m.data \in Seq(Nat) /\ \A x \in Msg : x.data \in Seq(Nat)
  BY DEF Msg
<1>2. DOMAIN s = 1..Len(s) /\ Len(s) \in Nat /\ \A i \in 1..Len(s) : s[i] \in Msg
  OBVIOUS
<1>3. d \in Seq(Seq(Nat)) /\ Len(d) = Len(s) /\ \A i \in 1..Len(s) : d[i] = s[i].data
  BY <1>1, <1>2
<1>4. /\ DOMAIN t = 1..(Len(s) + 1) /\ t[Len(s) + 1] = m
      /\ \A i \in 1..Len(s) : t[i] = s[i]
  BY <1>2
<1> HIDE DEF d, t
<1>5. Append(d, m.data) \in Seq(Seq(Nat))
  BY <1>1, <1>3
<1>6. /\ Append(d, m.data) = [i \in 1..(Len(s) + 1) |-> Append(d, m.data)[i]]
      /\ Append(d, m.data)[Len(s) + 1] = m.data
      /\ \A i \in 1..Len(s) : Append(d, m.data)[i] = d[i]
  BY <1>1, <1>3, <1>5
<1>7. \A i \in 1..(Len(s) + 1) : e[i] = Append(d, m.data)[i]
  <2> TAKE i \in 1..(Len(s) + 1)
  <2>1. CASE i = Len(s) + 1
    BY <2>1, <1>4, <1>6
  <2>2. CASE i # Len(s) + 1
    <3>1. i \in 1..Len(s)
      BY <2>2, <1>2
    <3> QED
      BY <3>1, <1>3, <1>4, <1>6
  <2> QED
    BY <2>1, <2>2
<1>8. e = [i \in 1..(Len(s) + 1) |-> e[i]]
  BY <1>4
<1> HIDE DEF e
<1>9. e = Append(d, m.data)
  BY <1>6, <1>7, <1>8
<1>10. FlattenSeq(e) = FlattenSeq(d) \o m.data
  BY <1>1, <1>3, <1>9, FlattenAppend
<1>11. FlattenSeq(d) \in Seq(Nat)
  BY <1>3, FlattenType
<1> QED
  BY <1>10, <1>11 DEF Body, d, e, t

(* The body is a sequence of parts.                                        *)
LEMMA BodyType ==
  ASSUME NEW s \in Seq(Msg)
  PROVE  Body(s) \in Seq(Nat)
<1>1. [head |-> TRUE, status |-> 0, data |-> <<>>, more |-> TRUE] \in Msg
  BY DEF Msg
<1>2. PICK m : m \in Msg
  BY <1>1
<1> QED
  BY <1>2, BodyAppend

(* Nothing sent is an empty body.                                          *)
LEMMA BodyEmpty == Body(<<>>) = <<>>
<1> DEFINE d == [i \in DOMAIN <<>> |-> <<>>[i].data]
<1>1. d = <<>>
  OBVIOUS
<1> HIDE DEF d
<1>2. FlattenSeq(d) = <<>>
  BY <1>1 DEF FlattenSeq
<1> QED
  BY <1>2 DEF Body, d

-----------------------------------------------------------------------------
(* From h to g one message was sent, with data; the first one under the    *)
(* status of the response.                                                 *)
Adds(h, g, data) ==
    \E m \in Msg : /\ g.sent = Append(h.sent, m)
                   /\ m.data = data
                   /\ h.sent = <<>> => m.status = g.status_code

(* A message with more to come adds its data.                              *)
LEMMA SendMoreAdds ==
  ASSUME NEW h, HandlerOK(h), NEW data \in Seq(Nat), h.header_written => h.status_code = 206
  PROVE  /\ Adds(h, SendMore(h, data), data)
         /\ SendMore(h, data).status_code # 200
         /\ h.header_written => SendMore(h, data).status_code = 206
<1> DEFINE g == SendMore(h, data)
<1>0. h.status_code \in Nat /\ (h.header_written <=> h.sent # <<>>)
  BY DEF HandlerOK
<1>1. CASE ~ h.header_written
  <2> DEFINE code == IF h.status_code = 200 THEN 206 ELSE h.status_code
             m == [head |-> TRUE, status |-> code, data |-> data, more |-> code = 206]
  <2>1. code \in Nat /\ code # 200
    BY <1>0
  <2>2. g = [status_code |-> code, header_written |-> TRUE, sent |-> Append(h.sent, m)]
    BY <1>1 DEF Send, SendMore
  <2> HIDE DEF code, g
  <2>3. m \in Msg /\ m.data = data /\ m.status = code
    BY <2>1 DEF Msg
  <2> HIDE DEF m
  <2>4. g.sent = Append(h.sent, m) /\ g.status_code = code
    BY <2>2
  <2>5. Adds(h, g, data)
    BY <2>3, <2>4 DEF Adds
  <2> QED
    BY <2>1, <2>4, <2>5, <1>1 DEF g
<1>2. CASE h.header_written
  <2> DEFINE m == [head |-> FALSE, status |-> 206, data |-> data, more |-> TRUE]
  <2>2. g = [status_code |-> 206, header_written |-> TRUE, sent |-> Append(h.sent, m)]
    BY <1>2 DEF Send, SendMore
  <2> HIDE DEF g
  <2>3. m \in Msg /\ m.data = data
    BY DEF Msg
  <2> HIDE DEF m
  <2>4. g.sent = Append(h.sent, m) /\ g.status_code = 206 /\ 206 # 200
    BY <2>2
  <2>5. Adds(h, g, data)
    BY <2>3, <2>4, <1>0, <1>2 DEF Adds
  <2> QED
    BY <2>4, <2>5, <1>2 DEF g
<1> QED
  BY <1>0, <1>1, <1>2

(* So does the last one.                                                   *)
LEMMA SendLastAdds ==
  ASSUME NEW h, HandlerOK(h), NEW data \in Seq(Nat), h.header_written => h.status_code = 206
  PROVE  Adds(h, SendLast(h, data), data)
<1> DEFINE g == SendLast(h, data)
<1>0. h.status_code \in Nat /\ (h.header_written <=> h.sent # <<>>)
  BY DEF HandlerOK
<1>1. CASE ~ h.header_written
  <2> DEFINE code == h.status_code
             m == [head |-> TRUE, status |-> code, data |-> data, more |-> code = 206]
  <2>1. code \in Nat
    BY <1>0
  <2>2. g = [status_code |-> code, header_written |-> TRUE, sent |-> Append(h.sent, m)]
    BY <1>1 DEF Send, SendLast
  <2> HIDE DEF code, g
  <2>3. m \in Msg /\ m.data = data /\ m.status = code
    BY <2>1 DEF Msg
  <2> HIDE DEF m
  <2>4. g.sent = Append(h.sent, m) /\ g.status_code = code
    BY <2>2
  <2>5. Adds(h, g, data)
    BY <2>3, <2>4 DEF Adds
  <2> QED
    BY <2>5 DEF g
<1>2. CASE h.header_written
  <2> DEFINE m == [head |-> FALSE, status |-> 206, data |-> data, more |-> FALSE]
  <2>2. g = [status_code |-> 200, header_written |-> TRUE, sent |-> Append(h.sent, m)]
    BY <1>2 DEF Send, SendLast
  <2> HIDE DEF g
  <2>3. m \in Msg /\ m.data = data
    BY DEF Msg
  <2> HIDE DEF m
  <2>4. g.sent = Append(h.sent, m)
    BY <2>2
  <2>5. Adds(h, g, data)
    BY <2>3, <2>4, <1>0, <1>2 DEF Adds
  <2> QED
    BY <2>5 DEF g
<1> QED
  BY <1>0, <1>1, <1>2

(* What was sent before stays, and the status with it.                     *)
LEMMA AddsBody ==
  ASSUME NEW h, HandlerOK(h), NEW g, NEW data \in Seq(Nat), Adds(h, g, data)
  PROVE  /\ Body(h.sent) \in Seq(Nat)
         /\ Body(g.sent) = Body(h.sent) \o data
         /\ h.sent # <<>> => g.sent[1] = h.sent[1]
         /\ h.sent = <<>> => g.sent[1].status = g.status_code
<1>1. PICK m \in Msg : /\ g.sent = Append(h.sent, m)
                       /\ m.data = data
                       /\ h.sent = <<>> => m.status = g.status_code
  BY DEF Adds
<1>2. h.sent \in Seq(Msg)
  BY DEF HandlerOK
<1>3. Body(h.sent) \in Seq(Nat) /\ Body(g.sent) = Body(h.sent) \o data
  BY <1>1, <1>2, BodyAppend
<1>4. h.sent # <<>> => g.sent[1] = h.sent[1]
  BY <1>1, <1>2
<1>5. h.sent = <<>> => g.sent[1] = m
  BY <1>1, <1>2
<1> QED
  BY <1>1, <1>3, <1>4, <1>5

(* flush sends the buffer, as long as the stream has not ended.            *)
LEMMA FlushData ==
  ASSUME HandlerOK(handler), buffer \in Seq(0..MaxParts), NEW done \in BOOLEAN, FlushBuffer(done),
         handler.header_written => handler.status_code = 206
  PROVE  /\ Body(handler.sent) \in Seq(Nat)
         /\ Body(handler'.sent) = Body(handler.sent) \o buffer
         /\ handler.header_written => handler'.sent[1] = handler.sent[1]
         /\ ~ done /\ Clean(handler') => handler'.status_code = 206
<1>1. buffer \in Seq(Nat) /\ <<>> \in Seq(Nat)
  BY StreamAssumption
<1>2. handler.header_written <=> handler.sent # <<>>
  BY DEF HandlerOK
<1>3. CASE ~ done
  <2>1. handler' = SendMore(handler, buffer)
    BY <1>3 DEF FlushBuffer, SendMore, Send
  <2>2. /\ Adds(handler, handler', buffer) /\ handler'.status_code # 200
        /\ handler.header_written => handler'.status_code = 206
    BY <2>1, <1>1, SendMoreAdds
  <2>3. /\ Body(handler.sent) \in Seq(Nat)
        /\ Body(handler'.sent) = Body(handler.sent) \o buffer
        /\ handler.sent # <<>> => handler'.sent[1] = handler.sent[1]
        /\ handler.sent = <<>> => handler'.sent[1].status = handler'.status_code
    BY <2>2, <1>1, AddsBody
  <2>4. Clean(handler') => handler'.status_code = 206
    BY <2>2, <2>3, <1>2 DEF Clean
  <2> QED
    BY <2>3, <2>4, <1>2
<1>4. CASE done /\ ~ handler.header_written
  <2>1. handler' = SendLast(handler, buffer)
    BY <1>4 DEF FlushBuffer, SendLast, Send
  <2>2. Adds(handler, handler', buffer)
    BY <2>1, <1>1, SendLastAdds
  <2>3. /\ Body(handler.sent) \in Seq(Nat)
        /\ Body(handler'.sent) = Body(handler.sent) \o buffer
    BY <2>2, <1>1, AddsBody
  <2> QED
    BY <2>3, <1>4
<1>5. CASE done /\ handler.header_written
  <2>1. PICK empty : empty = <<>>
    OBVIOUS
  <2>2. PICK first : first = SendMore(handler, buffer)
    OBVIOUS
  <2>3. (~ done \/ handler.header_written) = TRUE
    BY <1>5
  <2>4. ((~ done \/ handler.header_written) /\ done) = TRUE
    BY <1>5
  <2>5. handler' = SendLast(first, empty)
    BY <2>1, <2>2, <2>3, <2>4, Zenon DEF FlushBuffer, SendMore, SendLast
  <2>6. /\ HandlerOK(first) /\ first.status_code = 206
        /\ Adds(handler, first, buffer)
    BY <2>2, <1>1, <1>5, SendMoreOK, SendMoreAdds
  <2>7. /\ Body(handler.sent) \in Seq(Nat)
        /\ Body(first.sent) = Body(handler.sent) \o buffer
        /\ first.sent[1] = handler.sent[1]
    BY <2>6, <1>1, <1>2, <1>5, AddsBody
  <2>8. empty \in Seq(Nat)
    BY <2>1, <1>1
  <2>9. Adds(first, handler', empty)
    <3> HIDE <2>1
    <3> QED
      BY <2>5, <2>6, <2>8, SendLastAdds
  <2>10. first.sent # <<>>
    BY <2>6 DEF HandlerOK
  <2>11. /\ Body(first.sent) \in Seq(Nat)
         /\ Body(handler'.sent) = Body(first.sent) \o empty
         /\ handler'.sent[1] = first.sent[1]
    <3> HIDE <2>1
    <3> QED
      BY <2>6, <2>8, <2>9, <2>10, AddsBody
  <2>12. Body(handler'.sent) = Body(first.sent)
    BY <2>1, <2>11, CatEmpty
  <2> QED
    BY <2>7, <2>11, <2>12, <1>5
<1> QED
  BY <1>3, <1>4, <1>5

(* The text of an error is part 0: what carries it is no success.          *)
LEMMA ErrorNotClean ==
  ASSUME NEW h, HandlerOK(h), Len(h.sent) = 1, h.sent[1].data = << 0 >>
  PROVE  ~ Clean(h)
<1>1. h.sent \in Seq(Msg)
  BY DEF HandlerOK
<1>2. PICK m \in Msg : m = h.sent[1]
  BY <1>1
<1>3. h.sent = Append(<<>>, m) /\ <<>> \in Seq(Msg)
  BY <1>1, <1>2
<1>4. Body(h.sent) = Body(<<>>) \o m.data
  BY <1>3, BodyAppend
<1>5. Body(h.sent) = <<0>>
  <2>1. <<>> \o <<0>> = <<0>>
    OBVIOUS
  <2>2. m.data = <<0>>
    BY <1>2
  <2> QED
    BY <2>1, <2>2, <1>4, BodyEmpty
<1>6. 0 \in ToSet(<<0>>)
  BY DEF ToSet
<1> QED
  BY <1>5, <1>6 DEF Clean

-----------------------------------------------------------------------------
(* The inductive invariant for the data: while nothing was sent the buffer *)
(* is what is kept, unless it holds an error; then what was sent and the   *)
(* buffer are, and the buffer is empty once the stream has ended.          *)
DataInv ==
    ~ failed =>
      /\ ~ handler.header_written => buffer = kept \/ (route = "finishing" /\ buffer = <<0>>)
      /\ handler.header_written /\ Clean(handler) =>
           /\ kept = Body(handler.sent) \o buffer
           /\ handler.status_code # 206 => finish /\ buffer = <<>>

(* A step that sends, writes and clears nothing keeps the data.            *)
LEMMA DataSame ==
  ASSUME DataInv, UNCHANGED <<handler, buffer, finish, kept, failed>>,
         route # "finishing" \/ route' = "finishing"
  PROVE  DataInv'
BY DEF DataInv, Clean

(* An error answer keeps it: its body is not that of a success.            *)
LEMMA DataError ==
  ASSUME DataInv, HandlerOK(handler), NEW code \in Nat \ {206}, ErrorReply(code),
         UNCHANGED <<buffer, kept, failed>>
  PROVE  DataInv'
<1>1. /\ HandlerOK(handler')
      /\ handler.header_written => handler' = handler /\ finish' = finish
      /\ ~ handler.header_written =>
           /\ handler'.header_written
           /\ Len(handler'.sent) = 1 /\ handler'.sent[1].data = <<0>>
  BY ErrorReplyOK
<1>2. CASE handler.header_written
  BY <1>1, <1>2 DEF DataInv, Clean
<1>3. CASE ~ handler.header_written
  <2>1. ~ Clean(handler')
    BY <1>1, <1>3, ErrorNotClean
  <2> QED
    BY <1>1, <1>3, <2>1 DEF DataInv
<1> QED
  BY <1>2, <1>3

(* A flush, of finish too.                                                 *)
LEMMA DataFlush ==
  ASSUME DataInv, HandlingInv, NEW done \in BOOLEAN, FlushBuffer(done), finish' = done,
         finish => done, UNCHANGED <<kept, failed>>
  PROVE  DataInv'
<1>1. /\ HandlerOK(handler) /\ buffer \in Seq(0..MaxParts) /\ buffer' = <<>>
      /\ kept \in Seq(Nat) /\ (handler.header_written <=> handler.sent # <<>>)
  <2>1. kept \in Seq(1..MaxParts)
    BY DEF HandlingInv, BufferType
  <2>2. kept \in Seq(Nat)
    BY <2>1, StreamAssumption
  <2> QED
    BY <2>2 DEF HandlingInv, BufferType, FlushBuffer, HandlerOK
<1>2. SUFFICES ASSUME ~ failed, Clean(handler')
               PROVE  /\ handler'.header_written
                      /\ kept = Body(handler'.sent) \o <<>>
                      /\ handler'.status_code # 206 => done
  <2>1. HandlerOK(handler') /\ handler'.header_written
    BY <1>1, FlushOK
  <2> QED
    BY <1>1, <1>2, <2>1 DEF DataInv
<1>3. handler'.header_written
  BY <1>1, FlushOK
<1>4. CASE handler.header_written /\ handler.status_code # 206
  <2>1. handler' = handler
    BY <1>1, <1>4, FlushOK
  <2>2. kept = Body(handler'.sent) \o <<>> /\ finish
    BY <1>2, <1>4, <2>1 DEF DataInv
  <2> QED
    BY <1>3, <2>2
<1>5. CASE handler.header_written => handler.status_code = 206
  <2>1. /\ Body(handler.sent) \in Seq(Nat)
        /\ Body(handler'.sent) = Body(handler.sent) \o buffer
        /\ handler.header_written => handler'.sent[1] = handler.sent[1]
        /\ ~ done => handler'.status_code = 206
    BY <1>1, <1>2, <1>5, FlushData
  <2>2. buffer \in Seq(Nat)
    BY <1>1, StreamAssumption
  <2>3. Body(handler'.sent) = kept
    <3>1. CASE handler.header_written
      <4>1. 0 \notin ToSet(Body(handler.sent))
        BY <1>2, <2>1, <2>2, CatSet DEF Clean
      <4>2. Clean(handler)
        BY <1>2, <2>1, <3>1, <4>1 DEF Clean
      <4> QED
        BY <1>2, <2>1, <3>1, <4>2 DEF DataInv
    <3>2. CASE ~ handler.header_written
      <4>1. Body(handler'.sent) = buffer
        <5>1. handler.sent = <<>>
          BY <1>1, <3>2
        <5>2. Body(handler.sent) = <<>>
          BY <5>1, BodyEmpty
        <5>3. <<>> \o buffer = buffer
          BY <2>2, CatEmpty
        <5> QED
          BY <2>1, <5>2, <5>3
      <4>2. buffer # <<0>>
        <5>1. 0 \in ToSet(<<0>>)
          BY DEF ToSet
        <5> QED
          BY <1>2, <4>1, <5>1 DEF Clean
      <4> QED
        BY <1>2, <3>2, <4>1, <4>2 DEF DataInv
    <3> QED
      BY <3>1, <3>2
  <2>4. kept \o <<>> = kept
    BY <1>1, CatEmpty
  <2> QED
    BY <1>3, <2>1, <2>3, <2>4
<1> QED
  BY <1>4, <1>5

(* finish keeps it: it sends the whole buffer.                             *)
LEMMA DataFinish ==
  ASSUME DataInv, HandlingInv, FinishCalled
  PROVE  DataInv'
<1>0. HandlerOK(handler)
  BY DEF HandlingInv
<1>1. CASE Finish
  <2>1. FlushBuffer(TRUE) /\ finish' = TRUE /\ UNCHANGED <<kept, failed>>
    BY <1>1 DEF Finish
  <2> QED
    BY <2>1, DataFlush
<1>2. CASE ~ handler.header_written /\ ErrorReply(500) /\ UNCHANGED <<failed, buffer, kept>>
  <2>1. PICK code \in Nat \ {206} : code = 500
    OBVIOUS
  <2>2. ErrorReply(code)
    BY <1>2, <2>1
  <2> HIDE <2>1
  <2> QED
    BY <1>0, <1>2, <2>2, DataError
<1>3. CASE failed' = TRUE
  BY <1>3 DEF DataInv
<1> QED
  BY <1>1, <1>2, <1>3 DEF FinishCalled, FlushFails

(* write keeps it.                                                         *)
LEMMA DataWrite ==
  ASSUME DataInv, HandlingInv, Write, route # "finishing"
  PROVE  DataInv'
<1>1. /\ handler' = handler /\ finish' = finish /\ failed' = failed /\ ~ finish
      /\ buffer' = Append(buffer, written') /\ kept' = Append(kept, written')
      /\ written' = written + 1
  BY DEF Write
<1>2. /\ written \in 0..MaxParts /\ buffer \in Seq(0..MaxParts) /\ handler.sent \in Seq(Msg)
  BY DEF HandlingInv, BufferType, HandlerOK
<1>3. written' \in Nat /\ buffer \in Seq(Nat)
  BY <1>1, <1>2, StreamAssumption
<1>4. Body(handler.sent) \in Seq(Nat)
  BY <1>2, BodyType
<1>5. Append(Body(handler.sent) \o buffer, written') = Body(handler.sent) \o Append(buffer, written')
  <2>1. PICK D : D = Nat
    OBVIOUS
  <2>2. PICK a, x : a = Body(handler.sent) /\ x = written'
    OBVIOUS
  <2>3. a \in Seq(D) /\ buffer \in Seq(D) /\ x \in D
    BY <1>3, <1>4, <2>1, <2>2
  <2>4. Append(a \o buffer, x) = a \o Append(buffer, x)
    <3> HIDE <2>1, <2>2
    <3> QED
      BY <2>3
  <2> QED
    BY <2>2, <2>4
<1>6. SUFFICES ASSUME ~ failed
               PROVE  /\ ~ handler.header_written => buffer' = kept'
                      /\ handler.header_written /\ Clean(handler) =>
                           kept' = Body(handler.sent) \o buffer' /\ handler.status_code = 206
  BY <1>1, <1>6 DEF DataInv, Clean
<1>7. ~ handler.header_written => buffer = kept
  BY <1>6 DEF DataInv
<1>8. handler.header_written /\ Clean(handler) =>
           kept = Body(handler.sent) \o buffer /\ handler.status_code = 206
  BY <1>1, <1>6 DEF DataInv
<1> QED
  BY <1>1, <1>5, <1>7, <1>8

(* clear keeps it.                                                         *)
LEMMA DataClear ==
  ASSUME DataInv, HandlingInv, Clear, route = "qgis"
  PROVE  DataInv'
<1>1. /\ handler' = handler /\ finish' = finish /\ failed' = failed
      /\ buffer' = <<>> /\ kept' = SubSeq(kept, 1, Len(kept) - Len(buffer))
  BY DEF Clear
<1>2. buffer \in Seq(0..MaxParts) /\ handler.sent \in Seq(Msg)
  BY DEF HandlingInv, BufferType, HandlerOK
<1>3. buffer \in Seq(Nat) /\ <<>> \in Seq(Nat)
  BY <1>2, StreamAssumption
<1>4. Body(handler.sent) \in Seq(Nat)
  BY <1>2, BodyType
<1>5. SUFFICES ASSUME ~ failed
               PROVE  /\ ~ handler.header_written => kept' = <<>>
                      /\ handler.header_written /\ Clean(handler) =>
                           /\ kept' = Body(handler.sent) \o <<>>
                           /\ handler.status_code # 206 => finish
  BY <1>1, <1>5 DEF DataInv, Clean
<1>6. ASSUME ~ handler.header_written PROVE kept' = <<>>
  <2>1. kept = <<>> \o buffer
    <3>1. kept = buffer
      BY <1>5, <1>6 DEF DataInv
    <3> QED
      BY <1>3, <3>1, CatEmpty
  <2> QED
    BY <1>1, <1>3, <2>1, CatSubSeq
<1>7. ASSUME handler.header_written, Clean(handler)
      PROVE  /\ kept' = Body(handler.sent) \o <<>>
             /\ handler.status_code # 206 => finish
  <2>1. PICK a \in Seq(Nat) : a = Body(handler.sent)
    BY <1>4
  <2>2. kept = a \o buffer /\ (handler.status_code # 206 => finish)
    BY <1>5, <1>7, <2>1 DEF DataInv
  <2>3. kept' = a
    BY <1>1, <1>3, <2>2, CatSubSeq
  <2>4. a \o <<>> = a
    BY CatEmpty
  <2> QED
    BY <2>1, <2>2, <2>3, <2>4
<1> QED
  BY <1>6, <1>7

(* Every step keeps it.                                                    *)
LEMMA DataStep == HandlingInv /\ DataInv /\ [NextHandling]_handlingVars => DataInv'
<1> SUFFICES ASSUME HandlingInv, DataInv, [NextHandling]_handlingVars
             PROVE  DataInv'
  OBVIOUS
<1>0. HandlerOK(handler)
  BY DEF HandlingInv
<1>1. ASSUME route = "start", pc = "handling"
      PROVE  ~ handler.header_written /\ buffer = kept
  BY <1>1 DEF HandlingInv, RouteInv, Unanswered
<1>2. CASE NoProject
  <2>1. /\ ~ handler.header_written /\ route' = "finishing" /\ buffer' = <<0>>
        /\ handler' = [handler EXCEPT !.status_code = 400]
    BY <1>1, <1>2 DEF NoProject
  <2>2. PICK code \in Nat \ {206} : code = 400
    OBVIOUS
  <2>3. ~ handler'.header_written
    BY <1>0, <2>1, <2>2, StatusOK
  <2> QED
    BY <2>1, <2>3 DEF DataInv
<1>3. CASE HeadRequest \/ HandleRequest
  <2>1. UNCHANGED <<handler, buffer, finish, kept, failed>> /\ route = "start"
    BY <1>3 DEF HeadRequest, HandleRequest, vars
  <2> QED
    BY <2>1, DataSame
<1>4. CASE NotModified
  <2>1. /\ ~ handler.header_written /\ buffer = kept /\ UNCHANGED <<buffer, kept>>
        /\ handler' = [handler EXCEPT !.status_code = 304]
    BY <1>1, <1>4 DEF NotModified, SetStatusCode, Handling
  <2>2. PICK code \in Nat \ {206} : code = 304
    OBVIOUS
  <2>3. ~ handler'.header_written
    BY <1>0, <2>1, <2>2, StatusOK
  <2> QED
    BY <2>1, <2>3 DEF DataInv
<1>5. CASE Uncaught
  <2>1. route \in {"start", "qgis"} /\ route' = route /\ UNCHANGED <<buffer, finish, kept, failed>>
    BY <1>5 DEF Uncaught, Raise
  <2>2. CASE handler.header_written
    <3>1. handler' = handler
      BY <1>5, <2>2 DEF Uncaught, Raise
    <3> QED
      BY <2>1, <3>1, DataSame
  <2>3. CASE ~ handler.header_written
    <3>1. PICK code \in Nat \ {206} : code = 500
      OBVIOUS
    <3>2. handler' = SendLast([handler EXCEPT !.status_code = code], <<0>>)
      BY <1>5, <2>3, <3>1 DEF Uncaught, Raise, SendLast
    <3>3. /\ HandlerOK(handler') /\ handler'.header_written
          /\ Len(handler'.sent) = 1 /\ handler'.sent[1].data = <<0>>
      <4> HIDE <3>1
      <4> QED
        BY <1>0, <2>3, <3>2, ErrorOK
    <3>4. ~ Clean(handler')
      BY <3>3, ErrorNotClean
    <3> QED
      BY <3>3, <3>4 DEF DataInv
  <2> QED
    BY <2>2, <2>3
<1>6. ASSUME NEW code \in LookupCodes, LookupFails(code) PROVE DataInv'
  <2>1. ErrorReply(code) /\ UNCHANGED <<buffer, kept, failed>>
    BY <1>6 DEF LookupFails, SendError
  <2>2. code \in Nat \ {206}
    BY DEF LookupCodes
  <2> QED
    BY <1>0, <2>1, <2>2, DataError
<1>7. CASE FinishAnswer \/ ApiFinish \/ FinishAgain
  <2>1. FinishCalled
    BY <1>7 DEF FinishAnswer, ApiFinish, FinishAgain
  <2> QED
    BY <2>1, DataFinish
<1>8. CASE ApiWrite
  <2>1. Write /\ route # "finishing"
    BY <1>8 DEF ApiWrite
  <2> QED
    BY <2>1, DataWrite
<1>9. CASE ApiReturns
  <2>1. UNCHANGED <<handler, buffer, finish, kept, failed>> /\ route = "api"
    BY <1>9 DEF ApiReturns, vars
  <2> QED
    BY <2>1, DataSame
<1>10. ASSUME NEW code \in ApiCodes, ApiRaises(code) PROVE DataInv'
  <2>1. CASE finished
    <3>1. UNCHANGED <<handler, buffer, finish, kept, failed>> /\ route = "api"
      BY <1>10, <2>1 DEF ApiRaises, vars
    <3> QED
      BY <3>1, DataSame
  <2>2. CASE ~ finished
    <3>1. /\ handler' = [handler EXCEPT !.status_code = code] /\ buffer' = <<0>>
          /\ route' = "finishing" /\ route = "api"
      BY <1>10, <2>2 DEF ApiRaises
    <3>2. ~ handler.header_written
      BY <2>2, <3>1 DEF HandlingInv, RouteInv, Unanswered
    <3>3. code \in Nat \ {206}
      BY DEF ApiCodes
    <3>4. ~ handler'.header_written
      BY <1>0, <3>1, <3>2, <3>3, StatusOK
    <3> QED
      BY <3>1, <3>4 DEF DataInv
  <2> QED
    BY <2>1, <2>2
<1>11. CASE HandleMessageReturns
  <2>1. UNCHANGED <<handler, buffer, finish, kept, failed, route>>
    BY <1>11 DEF HandleMessageReturns, Return
  <2> QED
    BY <2>1, DataSame
<1>12. CASE Qgis
  <2>0. route = "qgis" /\ route' = "qgis"
    BY <1>12 DEF Qgis
  <2>1. ASSUME NEW code \in Statuses, SetStatusCode(code) PROVE DataInv'
    <3>1. /\ ~ handler.header_written /\ handler' = [handler EXCEPT !.status_code = code]
          /\ UNCHANGED <<buffer, kept, failed>>
      BY <2>1 DEF SetStatusCode
    <3>2. code \in Nat \ {206}
      BY StreamAssumption
    <3>3. ~ handler'.header_written
      BY <1>0, <3>1, <3>2, StatusOK
    <3> QED
      BY <2>0, <3>1, <3>3 DEF DataInv
  <2>2. ASSUME NEW code \in Statuses, SendError(code) PROVE DataInv'
    <3>1. ErrorReply(code) /\ UNCHANGED <<buffer, kept, failed>>
      BY <2>2 DEF SendError
    <3>2. code \in Nat \ {206}
      BY StreamAssumption
    <3> QED
      BY <1>0, <3>1, <3>2, DataError
  <2>3. ASSUME NEW done \in BOOLEAN, FlushFails(done) PROVE DataInv'
    <3>1. CASE ErrorReply(500) /\ UNCHANGED <<failed, buffer, kept>>
      <4>1. PICK code \in Nat \ {206} : code = 500
        OBVIOUS
      <4>2. ErrorReply(code) /\ UNCHANGED <<failed, buffer, kept>>
        BY <3>1, <4>1
      <4> HIDE <4>1
      <4> QED
        BY <1>0, <4>2, DataError
    <3>2. CASE failed' = TRUE
      BY <3>2 DEF DataInv
    <3> QED
      BY <2>3, <3>1, <3>2 DEF FlushFails
  <2>4. CASE Write
    BY <2>0, <2>4, DataWrite
  <2>5. CASE Clear
    BY <2>0, <2>5, DataClear
  <2>6. CASE Flush
    <3>1. /\ FlushBuffer(finish) /\ finish' = finish /\ UNCHANGED <<kept, failed>>
          /\ finish \in BOOLEAN
      BY <2>6 DEF Flush, HandlingInv, BufferType
    <3> QED
      BY <3>1, DataFlush
  <2>7. CASE Finish
    BY <2>7, DataFinish DEF FinishCalled
  <2> QED
    BY <1>12, <2>1, <2>2, <2>3, <2>4, <2>5, <2>6, <2>7 DEF Qgis
<1>13. CASE UNCHANGED handlingVars
  <2>1. UNCHANGED <<handler, buffer, finish, kept, failed, route>>
    BY <1>13 DEF handlingVars, vars
  <2> QED
    BY <2>1, DataSame
<1> QED
  BY <1>2, <1>3, <1>4, <1>5, <1>6, <1>7, <1>8, <1>9, <1>10, <1>11, <1>12, <1>13 DEF NextHandling

(* Every part that QGIS or an API wrote and did not clear is in what was   *)
(* sent, once and in order, whatever the flushes in between, when the      *)
(* response is a success and no flush failed.                              *)
THEOREM DataCompleteCorrect == SpecHandling => []DataComplete
<1>1. InitHandling => DataInv
  BY DEF InitHandling, Init, DataInv
<1>2. HandlingInv /\ DataInv => DataComplete
  <2> SUFFICES ASSUME HandlingInv, DataInv, pc = "returned", ~ failed, NoError,
                      sent[1].status \in {200, 206}
               PROVE  Data = kept
    BY DEF DataComplete
  <2>1. Data = Body(handler.sent) /\ handler.sent \in Seq(Msg)
    BY DEF Data, Body, sent, HandlingInv, HandlerOK
  <2>2. handler.header_written /\ handler.status_code # 206 /\ Clean(handler)
    BY <2>1 DEF HandlingInv, EndInv, Ended, Clean, NoError, sent
  <2>3. kept = Body(handler.sent) \o <<>>
    BY <2>2 DEF DataInv
  <2>4. Body(handler.sent) \in Seq(Nat)
    BY <2>1, BodyType
  <2> QED
    BY <2>1, <2>3, <2>4, CatEmpty
<1> QED
  BY <1>1, <1>2, HandlingInvariant, DataStep, PTL DEF SpecHandling
=============================================================================
