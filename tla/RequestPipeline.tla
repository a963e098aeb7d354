--------------------------- MODULE RequestPipeline ---------------------------
(***************************************************************************)
(* The layers a request passes (main.create_app): Starlette's error layer, *)
(* request_context_middleware, CORS, the registered exception handlers and *)
(* the router.  A request descends to its handler; an answer or an         *)
(* exception comes back up and each layer may add to it, answer it or let  *)
(* it through (core/middleware.py, core/errors.py).                        *)
(***************************************************************************)
EXTENDS Naturals, FiniteSets, Sequences

CONSTANTS
  Requests,      \* requests in flight, at most one per model value
  ClientIds      \* values clients send as X-Request-ID

NoId == "no id"
VARIABLES
  req,    \* request -> the id it came with, request.state.request_id, session
  at,     \* request -> the layer it is in, "gone" once it is answered
  up,     \* request -> what comes back: an answer or an exception, or Nothing
  log     \* request -> the access log lines written for it

vars == <<req, at, up, log>>

\* The statuses exceptions are raised with in this code: an AppError never has a 5xx, an
\* HTTPException has (images.py).  What the router raises is Starlette's HTTPException.
Statuses ==
  [AppError |-> {400, 401, 403, 404, 409, 422}, HTTPException |-> {400, 413, 415, 500, 502},
   RequestValidationError |-> {422}, RouterException |-> {404, 405}, Exception |-> {500}]
Exceptions == DOMAIN Statuses
Nothing == [kind |-> "nothing"]
Answered(status, body) ==
  [kind |-> "answer", status |-> status, body |-> body, body_id |-> NoId,
   header_id |-> NoId, cors |-> FALSE]
Raised(exception) ==
  [kind : {"exception"}, exception : {exception}, status : Statuses[exception]]

Init ==
  /\ req \in [Requests -> [client_id : ClientIds \cup {NoId}, id : {NoId}, session : {"none"}]]
  /\ at = [r \in Requests |-> "errors"]
  /\ up = [r \in Requests |-> Nothing]
  /\ log = [r \in Requests |-> <<>>]

Descends(r, from) == at[r] = from /\ up[r] = Nothing
Returns(r, to) == at[r] = to /\ up[r] # Nothing
Enter(r, layer) == at' = [at EXCEPT ![r] = layer]
Pass(r, layer, what) == at' = [at EXCEPT ![r] = layer] /\ up' = [up EXCEPT ![r] = what]
IsAnswer(r) == up[r].kind = "answer"

\* The id is the client's or a new one; concurrent requests may send the same.
Assign(r) ==
  /\ Descends(r, "errors")
  /\ req' = [req EXCEPT ![r].id =
               IF req[r].client_id # NoId THEN req[r].client_id ELSE "generated"]
  /\ Enter(r, "handlers")
  /\ UNCHANGED <<up, log>>

\* The router: no route (or method) for it, or an endpoint, whose dependencies come first: one
\* of them may open a session.
Route(r) ==
  /\ Descends(r, "handlers")
  /\ \/ \E x \in Raised("RouterException") : Pass(r, "handlers", x) /\ UNCHANGED req
     \/ /\ Enter(r, "endpoint") /\ UNCHANGED up
        /\ \E session \in {"none", "open"} : req' = [req EXCEPT ![r].session = session]
  /\ UNCHANGED log

\* A dependency or the endpoint raises, or the endpoint answers.  What does not validate is
\* raised once the dependencies are solved.
Endpoint(r) ==
  /\ Descends(r, "endpoint")
  /\ \E what \in {Answered(200, "result")} \cup
                 UNION {Raised(e) : e \in Exceptions \ {"RouterException"}} :
       Pass(r, "endpoint", what)
  /\ UNCHANGED <<req, log>>

\* get_db_session closes the session in its finally: behind an exception before any handler
\* sees it, behind an answer once the answer has been sent (FastAPI since 0.118).
OpenAfterException(r) == req[r].session
SessionAfter(r) == IF IsAnswer(r) \/ req[r].session = "none" THEN req[r].session ELSE "closed"
EndpointReturns(r) ==
  /\ Returns(r, "endpoint")
  /\ req' = [req EXCEPT ![r].session = SessionAfter(r)]
  /\ Enter(r, "handlers")
  /\ UNCHANGED <<up, log>>
CloseSession(r) ==
  /\ at[r] \in {"errors", "gone"} /\ IsAnswer(r) /\ req[r].session = "open"
  /\ req' = [req EXCEPT ![r].session = "closed"]
  /\ UNCHANGED <<at, up, log>>

\* problem_detail takes the id of request.state.
ClientIdOnly(r, status) ==
  [Answered(status, "problem") EXCEPT !.body_id = req[r].client_id]
problem_detail(r, status) ==
  [Answered(status, "problem") EXCEPT !.body_id = req[r].id]

\* The handlers registered for what was raised answer with its status.  They are not asked
\* for the router's exception, which is no subclass of FastAPI's HTTPException: FastAPI's
\* default handler answers {"detail"}.  What is no known exception goes on up.
Handled(r, x) ==
  CASE x.exception = "RouterException" -> Answered(x.status, "detail")
    [] x.exception = "Exception"       -> x
    [] OTHER                           -> problem_detail(r, x.status)

\* ExceptionMiddleware, then CORS, which adds its header to an answer only (here for a
\* client of an allowed origin).
HandlersReturn(r) ==
  /\ Returns(r, "handlers")
  /\ Pass(r, "cors", IF IsAnswer(r) THEN up[r] ELSE Handled(r, up[r]))
  /\ UNCHANGED <<req, log>>

CorsReturns(r) ==
  /\ Returns(r, "cors")
  /\ Pass(r, "context", IF IsAnswer(r) THEN [up[r] EXCEPT !.cors = TRUE] ELSE up[r])
  /\ UNCHANGED <<req, log>>

\* request_context_middleware: an answer gets the id's header and the line
\* request_completed; an exception the line request_failed, and is raised again.
Line(event, status) == [event |-> event, status |-> status]
Failed(r) == Append(log[r], Line("request_failed", 500))
Completed(r) == Append(log[r], Line("request_completed", up[r].status))
WithId(r) == [up[r] EXCEPT !.header_id = req[r].id]
ContextReturns(r) ==
  /\ Returns(r, "context")
  /\ Pass(r, "errors", IF IsAnswer(r) THEN WithId(r) ELSE up[r])
  /\ log' = [log EXCEPT ![r] = IF IsAnswer(r) THEN Completed(r) ELSE Failed(r)]
  /\ UNCHANGED req

\* ServerErrorMiddleware, the outermost layer, calls unhandled_exception_handler.
unhandled_exception_handler(r) == problem_detail(r, 500)
Leave(r) ==
  /\ Returns(r, "errors")
  /\ Pass(r, "gone", IF IsAnswer(r) THEN up[r] ELSE unhandled_exception_handler(r))
  /\ UNCHANGED <<req, log>>

Step(r) == \/ Assign(r) \/ Route(r) \/ Endpoint(r) \/ EndpointReturns(r)
           \/ CloseSession(r) \/ HandlersReturn(r) \/ CorsReturns(r) \/ ContextReturns(r) \/ Leave(r)
Idle == (\A r \in Requests : at[r] = "gone") /\ UNCHANGED vars
Next == (\E r \in Requests : Step(r)) \/ Idle

Spec == Init /\ [][Next]_vars

-----------------------------------------------------------------------------
(* Properties *)

Done(r) == at[r] = "gone"

TypeOK ==
  \A r \in Requests :
    /\ req[r].id \in ClientIds \cup {NoId, "generated"}
    /\ req[r].session \in {"none", "open", "closed"}
    /\ at[r] \in {"errors", "handlers", "endpoint", "cors", "context", "gone"}
    /\ up[r].kind \in {"nothing", "answer", "exception"}
    /\ Done(r) => IsAnswer(r)

\* Every answer carries the request's id (openapi.py:15), in the X-Request-ID header or, when
\* the exception passed the middleware that would add it, in the problem's body; and a
\* problem's body names the request, wherever the exception was caught: by the id its
\* client sent, or the one made for it.
AnswersNameTheRequest ==
  \A r \in Requests : Done(r) =>
    /\ req[r].id \in {up[r].header_id, up[r].body_id}
    /\ up[r].body = "problem" =>
         up[r].body_id = IF req[r].client_id # NoId THEN req[r].client_id ELSE "generated"

\* However a request ends, it leaves exactly one access log line, with the status its client
\* sees though the middleware has not seen the answer of the layer outside it.  The line is
\* request_failed, not request_completed, just where that layer made the answer, without the
\* header of the id and CORS's: an HTTPException with status 500 is request_completed.  And
\* no error is answered with its session still open.
LogTellsAnswer ==
  \A r \in Requests : Done(r) =>
    /\ \E event \in {"request_completed", "request_failed"} :
         /\ log[r] = <<Line(event, up[r].status)>>
         /\ event = "request_failed" <=> up[r].header_id = NoId
         /\ event = "request_failed" <=> ~up[r].cors
    /\ req[r].session = "open" => up[r].body = "result"
=============================================================================
