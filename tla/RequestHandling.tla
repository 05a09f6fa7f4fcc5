--------------------------- MODULE RequestHandling ---------------------------
(***************************************************************************)
(* Who answers a request in a worker: handle_message and                   *)
(* handle_qgis_request of src/pyqgisserver/qgsworker.py answer some by     *)
(* themselves and hand the others to QGIS, which hands those of the        *)
(* management APIs to RequestHandler._execute of                           *)
(* src/pyqgisserver/management/apis/handler.py.  All of them answer        *)
(* through the Response of ResponseStream.                                 *)
(*                                                                         *)
(* Definitions named Mut_... are faulty variants of the one that follows   *)
(* them, kept to show that the properties reject them.                     *)
(***************************************************************************)
EXTENDS ResponseStream

VARIABLES
    route,      \* "start" (handle_message), "qgis", "api" (the method of an API
                \* handler), "finishing" (finish is next) or "closing"
    finished    \* RequestHandler._finished

handlingVars == <<vars, route, finished>>

InitHandling ==
    /\ Init
    /\ route = "start"
    /\ finished = FALSE

(* What handle_qgis_request and the API handlers turn exceptions into.     *)
LookupCodes == {403, 404, 422}
ApiCodes == {400, 404, 405, 500}

-----------------------------------------------------------------------------
(* No project is given for an OWS service: the exception is written.       *)
NoProject ==
    /\ pc = "handling"
    /\ route = "start"
    /\ route' = "finishing"
    /\ handler' = [handler EXCEPT !.status_code = 400]
    /\ buffer' = <<0>>
    /\ UNCHANGED <<finish, written, kept, failed, pc, finished>>

(* An OWS HEAD request gets the ETag of the project and nothing else.      *)
HeadRequest ==
    /\ pc = "handling"
    /\ route = "start"
    /\ route' = "finishing"
    /\ UNCHANGED <<vars, finished>>

(* cache_lookup raises one of the exceptions that are caught.              *)
LookupFails(code) ==
    /\ route = "start"
    /\ SendError(code)
    /\ route' = "closing"
    /\ UNCHANGED finished

(* check_etag_header: the client has what it asks for.                     *)
NotModified ==
    /\ route = "start"
    /\ SetStatusCode(304)
    /\ route' = "finishing"
    /\ UNCHANGED finished

(* qgis_server.handleRequest.                                              *)
HandleRequest ==
    /\ pc = "handling"
    /\ route = "start"
    /\ route' \in {"qgis", "api"}
    /\ UNCHANGED <<vars, finished>>

(* An exception that is not caught: any in the lookup, that of a HEAD      *)
(* request for a project that is not there, one of QGIS.                   *)
Uncaught ==
    /\ route \in {"start", "qgis"}
    /\ Raise
    /\ UNCHANGED <<route, finished>>

FinishCalled == Finish \/ FlushFails(TRUE)

FinishAnswer ==
    /\ route = "finishing"
    /\ FinishCalled
    /\ route' = "closing"
    /\ UNCHANGED finished

(* QGIS handles the request.                                               *)
Qgis ==
    /\ route = "qgis"
    /\ \/ \E code \in Statuses : SetStatusCode(code) \/ SendError(code)
       \/ \E done \in BOOLEAN : FlushFails(done)
       \/ Write \/ Clear \/ Flush \/ Finish
    /\ UNCHANGED <<route, finished>>

-----------------------------------------------------------------------------
(* The method of an API handler writes,                                    *)
ApiWrite ==
    /\ route = "api"
    /\ Write
    /\ UNCHANGED <<route, finished>>

(* finishes by itself,                                                     *)
ApiFinish ==
    /\ route = "api"
    /\ ~ finished
    /\ finished' = TRUE
    /\ FinishCalled
    /\ UNCHANGED route

(* returns, and _execute finishes if that is left to do,                   *)
ApiReturns ==
    /\ route = "api"
    /\ route' = IF finished THEN "closing" ELSE "finishing"
    /\ finished' = TRUE
    /\ UNCHANGED vars

Mut_ApiRaisesNoClear(code) ==
    /\ route = "api"
    /\ route' = IF finished THEN "closing" ELSE "finishing"
    /\ finished' = TRUE
    /\ IF finished THEN UNCHANGED vars
       ELSE /\ handler' = [handler EXCEPT !.status_code = code]
            /\ buffer' = Append(buffer, 0)
            /\ UNCHANGED <<finish, written, kept, failed, pc>>

(* or raises: send_error replaces what was written, unless the answer is   *)
(* finished, as it is when finish is called twice.                         *)
ApiRaises(code) ==
    /\ route = "api"
    /\ route' = IF finished THEN "closing" ELSE "finishing"
    /\ finished' = TRUE
    /\ IF finished THEN UNCHANGED vars
       ELSE /\ handler' = [handler EXCEPT !.status_code = code]
            /\ buffer' = <<0>>
            /\ kept' = <<>>
            /\ UNCHANGED <<finish, written, failed, pc>>

(* QGIS finishes the answer of an API once more.                           *)
FinishAgain ==
    /\ route = "closing"
    /\ finished
    /\ FinishCalled
    /\ UNCHANGED <<route, finished>>

HandleMessageReturns ==
    /\ route \in {"qgis", "closing"}
    /\ Return
    /\ UNCHANGED <<route, finished>>

-----------------------------------------------------------------------------
NextHandling ==
    \/ NoProject \/ HeadRequest \/ NotModified \/ HandleRequest \/ Uncaught
    \/ \E code \in LookupCodes : LookupFails(code)
    \/ FinishAnswer \/ Qgis
    \/ ApiWrite \/ ApiFinish \/ ApiReturns
    \/ \E code \in ApiCodes : ApiRaises(code)
    \/ FinishAgain \/ HandleMessageReturns

SpecHandling == InitHandling /\ [][NextHandling]_handlingVars

-----------------------------------------------------------------------------
(* Type correctness, that of ResponseStream included: header_written says  *)
(* whether something was sent.                                             *)
HandlingTypeOK ==
    /\ TypeOK
    /\ route \in {"start", "qgis", "api", "finishing", "closing"}
    /\ finished \in BOOLEAN
    /\ finished => route \in {"api", "finishing", "closing"}

(* A management API answers with one message, although QGIS finishes the   *)
(* response that the handler has finished: all that its method wrote, or   *)
(* an error with nothing of it.                                            *)
ApiAnswersOnce ==
    pc = "returned" /\ finished /\ ~ failed =>
        /\ Len(sent) = 1
        /\ \/ sent[1].data = <<0>> /\ sent[1].status \notin {200, 206}
           \/ sent[1].data = kept /\ sent[1].status = 200
=============================================================================
