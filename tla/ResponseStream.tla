--------------------------- MODULE ResponseStream ---------------------------
(***************************************************************************)
(* How a worker turns the calls QGIS makes on its response into messages:  *)
(* Response of src/pyqgisserver/qgsworker.py on top of RequestHandler.send *)
(* of src/pyqgisserver/zeromq/worker.py, up to the except clause of        *)
(* run_worker.                                                             *)
(*                                                                         *)
(* The calls are the actions: setting the status, writing to the buffer,   *)
(* clearing it, flushing, sending an error, finishing.  RequestHandling    *)
(* has who makes them; QGIS server makes any, in any order.  Data is a     *)
(* sequence of numbered parts; part 0 is the text of an error.             *)
(*                                                                         *)
(* Definitions named Mut_... are faulty variants of the one that follows   *)
(* them, kept to show that the properties reject them.                     *)
(***************************************************************************)
EXTENDS Naturals, Sequences, SequencesExt

CONSTANTS
    Statuses,      \* the status codes QGIS may set
    MaxParts,      \* bound on the parts written
    MaxMessages    \* bound on the messages sent

ASSUME StreamAssumption ==
    /\ Statuses \subseteq Nat /\ 206 \notin Statuses
    /\ MaxParts \in Nat
    /\ MaxMessages \in Nat

VARIABLES
    handler,    \* RequestHandler: status_code, header_written and what it sent
    buffer,     \* Response._buffer
    finish,     \* Response._finish
    written,    \* number of parts written by QGIS
    kept,       \* the parts written and not cleared
    failed,     \* a flush failed and nothing was sent about it
    pc          \* "handling", "returned" or "raised"

vars == <<handler, buffer, finish, written, kept, failed, pc>>

Init ==
    /\ handler = [status_code |-> 200, header_written |-> FALSE, sent |-> <<>>]
    /\ buffer = <<>>
    /\ finish = FALSE
    /\ written = 0
    /\ kept = <<>>
    /\ failed = FALSE
    /\ pc = "handling"

-----------------------------------------------------------------------------
Mut_SendHeaderAfterStream(h, data, send_more) ==
    LET code == IF send_more /\ h.status_code = 200 THEN 206 ELSE h.status_code
    IN [status_code |-> code, header_written |-> ~ send_more,
        sent |-> Append(h.sent, [head |-> ~ h.header_written, status |-> code,
                                 data |-> data, more |-> code = 206])]

Mut_SendNoReset(h, data, send_more) ==
    IF ~ h.header_written
    THEN LET code == IF send_more /\ h.status_code = 200 THEN 206 ELSE h.status_code IN
         [status_code |-> code, header_written |-> TRUE,
          sent |-> Append(h.sent, [head |-> TRUE, status |-> code, data |-> data, more |-> code = 206])]
    ELSE IF h.status_code = 206
    THEN [h EXCEPT !.sent = Append(@, [head |-> FALSE, status |-> 206, data |-> data, more |-> send_more])]
    ELSE h

(* RequestHandler.send: the first message carries the status, which is 206 *)
(* when more data follows a 200; the next ones are sent under 206 only.    *)
Send(h, data, send_more) ==
    IF ~ h.header_written
    THEN LET code == IF send_more /\ h.status_code = 200 THEN 206 ELSE h.status_code IN
         [status_code |-> code, header_written |-> TRUE,
          sent |-> Append(h.sent, [head |-> TRUE, status |-> code, data |-> data, more |-> code = 206])]
    ELSE IF h.status_code = 206
    THEN [status_code |-> IF send_more THEN 206 ELSE 200, header_written |-> TRUE,
          sent |-> Append(h.sent, [head |-> FALSE, status |-> 206, data |-> data, more |-> send_more])]
    ELSE h

Mut_FlushNoEOF(done) ==
    /\ handler' = Send(handler, buffer, ~ done \/ handler.header_written)
    /\ buffer' = <<>>

Mut_FlushKeepsBuffer(done) ==
    LET send_more == ~ done \/ handler.header_written
        first == Send(handler, buffer, send_more)
    IN  /\ handler' = IF send_more /\ done THEN Send(first, <<>>, FALSE) ELSE first
        /\ UNCHANGED buffer

(* Response.flush: the buffer is sent; after finish the message is the     *)
(* only one, or is followed by an empty last one.                          *)
FlushBuffer(done) ==
    LET send_more == ~ done \/ handler.header_written
        first == Send(handler, buffer, send_more)
    IN  /\ handler' = IF send_more /\ done THEN Send(first, <<>>, FALSE) ELSE first
        /\ buffer' = <<>>

(* Response.sendError: only possible before the header is written.         *)
ErrorReply(code) ==
    IF handler.header_written THEN UNCHANGED <<handler, finish>>
    ELSE /\ handler' = Send([handler EXCEPT !.status_code = code], <<0>>, FALSE)
         /\ finish' = TRUE

-----------------------------------------------------------------------------
(* The calls, while the request is handled.                                *)
Handling == pc = "handling" /\ Len(handler.sent) < MaxMessages

SetStatusCode(code) ==
    /\ Handling
    /\ ~ handler.header_written
    /\ handler' = [handler EXCEPT !.status_code = code]
    /\ UNCHANGED <<buffer, finish, written, kept, failed, pc>>

Write ==
    /\ Handling
    /\ written < MaxParts
    /\ ~ finish
    /\ written' = written + 1
    /\ buffer' = Append(buffer, written')
    /\ kept' = Append(kept, written')
    /\ UNCHANGED <<handler, finish, failed, pc>>

(* Response.clear and truncate.                                            *)
Clear ==
    /\ Handling
    /\ buffer' = <<>>
    /\ kept' = SubSeq(kept, 1, Len(kept) - Len(buffer))
    /\ UNCHANGED <<handler, finish, written, failed, pc>>

Flush ==
    /\ Handling
    /\ FlushBuffer(finish)
    /\ UNCHANGED <<finish, written, kept, failed, pc>>

Finish ==
    /\ Handling
    /\ finish' = TRUE
    /\ FlushBuffer(TRUE)
    /\ UNCHANGED <<written, kept, failed, pc>>

(* flush, called by itself or by finish, fails before it sent anything.    *)
(* Its except clause sends a 500 while that is possible; once the header   *)
(* is written, or when there is no Content-Type to delete, nothing is.     *)
FlushFails(done) ==
    /\ Handling
    /\ \/ /\ ~ handler.header_written
          /\ ErrorReply(500)
          /\ UNCHANGED failed
       \/ /\ finish' = (finish \/ done)
          /\ failed' = TRUE
          /\ UNCHANGED handler
    /\ UNCHANGED <<buffer, written, kept, pc>>

SendError(code) ==
    /\ Handling
    /\ ErrorReply(code)
    /\ UNCHANGED <<buffer, written, kept, failed, pc>>

(* handle_message returns: QGIS finishes the responses it handles, and the *)
(* code returns by itself after an error.                                  *)
Return ==
    /\ pc = "handling"
    /\ finish
    /\ pc' = "returned"
    /\ UNCHANGED <<handler, buffer, finish, written, kept, failed>>

(* handle_message raises: run_worker answers with 500 unless the header    *)
(* was written.                                                            *)
Raise ==
    /\ pc = "handling"
    /\ pc' = "raised"
    /\ handler' = IF handler.header_written THEN handler
                  ELSE Send([handler EXCEPT !.status_code = 500], <<0>>, FALSE)
    /\ UNCHANGED <<buffer, finish, written, kept, failed>>

-----------------------------------------------------------------------------
sent == handler.sent

(* Type correctness; header_written says whether something was sent, which *)
(* is what sendError and run_worker rely on.                               *)
TypeOK ==
    /\ handler.status_code \in Nat
    /\ handler.header_written <=> sent # <<>>
    /\ sent \in Seq([head : BOOLEAN, status : Nat, data : Seq(Nat), more : BOOLEAN])
    /\ buffer \in Seq(0..MaxParts)
    /\ finish \in BOOLEAN
    /\ written \in 0..MaxParts
    /\ kept \in Seq(1..MaxParts)
    /\ failed \in BOOLEAN
    /\ pc \in {"handling", "returned", "raised"}

(* The client can read what the worker sends: one header, and further      *)
(* messages only as long as the previous one announced them.               *)
StreamValid ==
    /\ \A i \in DOMAIN sent : sent[i].head <=> i = 1
    /\ \A i \in 1..(Len(sent) - 1) : sent[i].more

(* When the handler returned, the client knows that there is no more,      *)
(* unless a flush failed after the header, which nothing can report.       *)
StreamEnds == pc = "returned" /\ ~ failed => sent # <<>> /\ ~ Last(sent).more

Data == FlattenSeq([i \in DOMAIN sent |-> sent[i].data])

(* The response was sent under its own status, not replaced by an error.   *)
NoError == sent # <<>> /\ 0 \notin ToSet(Data)

(* Every part that was written and not cleared is sent, once and in order, *)
(* when the response is a success.                                         *)
DataComplete == pc = "returned" /\ ~ failed /\ NoError /\ sent[1].status \in {200, 206} => Data = kept
=============================================================================
