----------------------- MODULE RequestPipelineProofs -------------------------
(***************************************************************************)
(* Proofs about RequestPipeline: whatever is raised, and wherever it is    *)
(* caught, an answer names its request, a request leaves one access log    *)
(* line that tells its answer, and no error leaves a session open.         *)
(* Requests do not touch each other's state, so the invariant says of each *)
(* what its four components may be together: the request's state q, its    *)
(* layer a, what comes back u and the lines l written for it.              *)
(***************************************************************************)
EXTENDS RequestPipeline, TLAPS

RequestIds == ClientIds \cup {NoId, "generated"}
RequestStates ==
  [client_id : ClientIds \cup {NoId}, id : RequestIds, session : {"none", "open", "closed"}]
Layers == {"errors", "handlers", "endpoint", "cors", "context", "gone"}
AllStatuses == {200} \cup UNION {Statuses[e] : e \in Exceptions}
Answers ==
  [kind : {"answer"}, status : AllStatuses, body : {"result", "problem", "detail"},
   body_id : RequestIds, header_id : RequestIds, cors : BOOLEAN]
Raises == [kind : {"exception"}, exception : Exceptions, status : AllStatuses]

\* The id a request has once the middleware has assigned it.
SentId(q) == IF q.client_id # NoId THEN q.client_id ELSE "generated"

\* On the way down nothing has been answered or logged, and only the endpoint holds a session.
Down(q, a, u, l) ==
  /\ u = Nothing
  /\ a \in {"errors", "handlers", "endpoint"}
  /\ l = <<>>
  /\ q.session = "open" => a = "endpoint"
  /\ a # "errors" => q.id = SentId(q)

\* An answer on its way up: a problem names the request; the layers inside the middleware
\* have logged nothing, past them there are both headers and the line.
AnswerUp(q, a, u, l) ==
  /\ u \in Answers /\ a # "gone"
  /\ u.body = "problem" => u.body_id = SentId(q)
  /\ q.id = SentId(q)
  /\ q.session = "open" => u.body = "result"
  /\ l = IF a = "errors" THEN <<Line("request_completed", u.status)>> ELSE <<>>
  /\ a \in {"context", "errors"} => u.cors
  /\ a = "errors" => u.header_id = SentId(q)

\* An exception on its way up; the middleware writes the failure's line.
ExceptionUp(q, a, u, l) ==
  /\ u \in Raises /\ a # "gone"
  /\ q.id = SentId(q)
  /\ a # "endpoint" => q.session # "open"
  /\ l = IF a = "errors" THEN <<Line("request_failed", 500)>> ELSE <<>>

\* Answered inside the middleware, or outside it.
Gone(q, a, u, l) ==
  /\ u \in Answers /\ a = "gone"
  /\ q.id = SentId(q)
  /\ q.session = "open" => u.body = "result"
  /\ u.body = "problem" => u.body_id = SentId(q)
  /\ \/ /\ l = <<Line("request_completed", u.status)>>
        /\ u.header_id = SentId(q) /\ u.cors
     \/ /\ l = <<Line("request_failed", u.status)>>
        /\ u.header_id = NoId /\ u.body_id = SentId(q) /\ ~u.cors

Together(q, a, u, l) ==
  \/ Down(q, a, u, l) \/ AnswerUp(q, a, u, l) \/ ExceptionUp(q, a, u, l) \/ Gone(q, a, u, l)

PipelineInv ==
  /\ req \in [Requests -> RequestStates]
  /\ at \in [Requests -> Layers]
  /\ up \in [Requests -> Answers \cup Raises \cup {Nothing}]
  /\ log = [r \in Requests |-> log[r]]
  /\ \A r \in Requests : Together(req[r], at[r], up[r], log[r])

-----------------------------------------------------------------------------
(* The values that come back up *)

LEMMA Kinds ==
  /\ \A u \in Answers : u.kind = "answer" /\ u # Nothing /\ u \notin Raises
  /\ \A u \in Raises : u.kind = "exception" /\ u # Nothing /\ u \notin Answers
  /\ Nothing.kind = "nothing" /\ Nothing \notin Answers /\ Nothing \notin Raises
BY DEF Answers, Raises, Nothing

LEMMA AnsweredIs ==
  ASSUME NEW status \in AllStatuses, NEW body \in {"result", "problem", "detail"}
  PROVE  /\ Answered(status, body) \in Answers
         /\ Answered(status, body).body = body
         /\ Answered(status, body).status = status
         /\ Answered(status, body).header_id = NoId /\ ~Answered(status, body).cors
BY DEF Answered, Answers, RequestIds

\* problem_detail names the request in its body.
LEMMA ProblemIs ==
  ASSUME NEW r \in Requests, NEW status \in AllStatuses, req[r] \in RequestStates
  PROVE  /\ problem_detail(r, status) \in Answers
         /\ problem_detail(r, status).body = "problem"
         /\ problem_detail(r, status).body_id = req[r].id
         /\ problem_detail(r, status).status = status
         /\ problem_detail(r, status).header_id = NoId /\ ~problem_detail(r, status).cors
<1>1. Answered(status, "problem") \in Answers
  BY AnsweredIs
<1>2. req[r].id \in RequestIds
  BY DEF RequestStates
<1> QED
  BY <1>1, <1>2, AnsweredIs DEF problem_detail, Answers

\* What is raised has one of its exception's statuses.
LEMMA RaisedIs ==
  \A e \in Exceptions : \A x \in Raised(e) : x \in Raises /\ x.exception = e
<1> SUFFICES ASSUME NEW e \in Exceptions, NEW x \in Raised(e)
             PROVE  x \in Raises /\ x.exception = e
  OBVIOUS
<1>1. Statuses[e] \subseteq AllStatuses
  BY DEF AllStatuses
<1> HIDE DEF AllStatuses, Statuses
<1> QED
  BY <1>1 DEF Raised, Raises

\* A step of one request, to components that go together, keeps the invariant.
LEMMA OneRequest ==
  ASSUME PipelineInv, NEW r \in Requests,
         NEW q \in RequestStates, NEW a \in Layers, NEW u \in Answers \cup Raises \cup {Nothing},
         NEW l,
         req' = [req EXCEPT ![r] = q], at' = [at EXCEPT ![r] = a],
         up' = [up EXCEPT ![r] = u], log' = [log EXCEPT ![r] = l],
         Together(q, a, u, l)
  PROVE  PipelineInv'
<1>1. \A s \in Requests : s # r =>
        req'[s] = req[s] /\ at'[s] = at[s] /\ up'[s] = up[s] /\ log'[s] = log[s]
  BY DEF PipelineInv
<1>2. req'[r] = q /\ at'[r] = a /\ up'[r] = u /\ log'[r] = l
  BY DEF PipelineInv
<1>3. \A s \in Requests : Together(req'[s], at'[s], up'[s], log'[s])
  BY <1>1, <1>2 DEF PipelineInv
<1>4. log' = [s \in Requests |-> log'[s]]
  BY DEF PipelineInv
<1> QED
  BY <1>3, <1>4 DEF PipelineInv

-----------------------------------------------------------------------------
(* The layers *)

LEMMA InitPipeline == Init => PipelineInv
<1> SUFFICES ASSUME Init PROVE PipelineInv
  OBVIOUS
<1>1. /\ req \in [Requests -> RequestStates]
      /\ \A r \in Requests : req[r].session = "none"
  BY DEF Init, RequestStates, RequestIds
<1>2. /\ at \in [Requests -> Layers] /\ up \in [Requests -> Answers \cup Raises \cup {Nothing}]
      /\ log = [r \in Requests |-> log[r]]
      /\ \A r \in Requests : at[r] = "errors" /\ up[r] = Nothing /\ log[r] = <<>>
  BY DEF Init, Layers
<1> QED
  BY <1>1, <1>2 DEF PipelineInv, Together, Down

\* The components of a request before the step.
LEMMA Before ==
  ASSUME PipelineInv, NEW r \in Requests
  PROVE  /\ req[r] \in RequestStates /\ at[r] \in Layers
         /\ up[r] \in Answers \cup Raises \cup {Nothing}
         /\ Together(req[r], at[r], up[r], log[r])
         /\ req = [req EXCEPT ![r] = req[r]] /\ up = [up EXCEPT ![r] = up[r]]
         /\ log = [log EXCEPT ![r] = log[r]]
         /\ IsAnswer(r) <=> up[r] \in Answers
BY Kinds DEF PipelineInv, IsAnswer

\* Assign gives the request its id.
LEMMA AssignKeeps == ASSUME PipelineInv, NEW r \in Requests, Assign(r) PROVE PipelineInv'
<1> DEFINE q == [req[r] EXCEPT !.id = SentId(req[r])]
<1>1. q \in RequestStates /\ SentId(q) = q.id /\ q.session = req[r].session
  BY Before DEF RequestStates, RequestIds, SentId
<1>2. /\ req' = [req EXCEPT ![r] = q]
      /\ at' = [at EXCEPT ![r] = "handlers"] /\ up' = up /\ log' = log
      /\ at[r] = "errors" /\ up[r] = Nothing
  BY DEF Assign, Enter, Descends, SentId
<1>3. Down(req[r], at[r], up[r], log[r])
  BY <1>2, Before, Kinds DEF Together, AnswerUp, ExceptionUp, Gone
<1> HIDE DEF q
<1>4. Together(q, "handlers", up[r], log[r])
  BY <1>1, <1>2, <1>3 DEF Down, Together
<1>5. up' = [up EXCEPT ![r] = up[r]] /\ log' = [log EXCEPT ![r] = log[r]]
  BY <1>2, Before
<1>6. up[r] \in Answers \cup Raises \cup {Nothing} /\ "handlers" \in Layers
  BY Before DEF Layers
<1>7. q \in RequestStates /\ req' = [req EXCEPT ![r] = q] /\ at' = [at EXCEPT ![r] = "handlers"]
  BY <1>1, <1>2
<1> QED
  BY <1>4, <1>5, <1>6, <1>7, OneRequest

\* The route is found, or the router raises.
LEMMA RouteKeeps == ASSUME PipelineInv, NEW r \in Requests, Route(r) PROVE PipelineInv'
<1>1. at[r] = "handlers" /\ up[r] = Nothing /\ log' = log
  BY DEF Route, Descends
<1>2. Down(req[r], at[r], up[r], log[r])
  BY <1>1, Before, Kinds DEF Together, AnswerUp, ExceptionUp, Gone
<1>3. ASSUME NEW x \in Raised("RouterException"), Pass(r, "handlers", x), UNCHANGED req
      PROVE  PipelineInv'
  <2>1. x \in Raises
    BY <1>3, RaisedIs DEF Exceptions, Statuses
  <2>2. Together(req[r], "handlers", x, log[r])
    BY <1>1, <1>2, <2>1 DEF Down, Together, ExceptionUp
  <2>3. /\ req' = [req EXCEPT ![r] = req[r]] /\ at' = [at EXCEPT ![r] = "handlers"]
        /\ up' = [up EXCEPT ![r] = x] /\ log' = [log EXCEPT ![r] = log[r]]
    BY <1>1, <1>3, Before DEF Pass
  <2> QED
    BY <2>1, <2>2, <2>3, OneRequest, Before DEF Layers
<1>4. ASSUME NEW session \in {"none", "open"}, Enter(r, "endpoint"), UNCHANGED up,
             req' = [req EXCEPT ![r].session = session]
      PROVE  PipelineInv'
  <2> DEFINE q == [req[r] EXCEPT !.session = session]
  <2>1. q \in RequestStates /\ q.id = req[r].id /\ q.client_id = req[r].client_id
    BY Before DEF RequestStates
  <2> HIDE DEF q
  <2>2. Together(q, "endpoint", up[r], log[r])
    BY <1>1, <1>2, <2>1 DEF Down, Together, SentId
  <2>3. /\ req' = [req EXCEPT ![r] = q] /\ at' = [at EXCEPT ![r] = "endpoint"]
        /\ up' = [up EXCEPT ![r] = up[r]] /\ log' = [log EXCEPT ![r] = log[r]]
    BY <1>1, <1>4, Before DEF Enter, q
  <2> QED
    BY <2>1, <2>2, <2>3, OneRequest, Before DEF Layers
<1> QED
  BY <1>3, <1>4 DEF Route

LEMMA EndpointKeeps == ASSUME PipelineInv, NEW r \in Requests, Endpoint(r) PROVE PipelineInv'
<1>1. at[r] = "endpoint" /\ up[r] = Nothing /\ log' = log /\ req' = req
  BY DEF Endpoint, Descends
<1>2. Down(req[r], at[r], up[r], log[r])
  BY <1>1, Before, Kinds DEF Together, AnswerUp, ExceptionUp, Gone
<1>3. PICK what \in {Answered(200, "result")} \cup
                    UNION {Raised(e) : e \in Exceptions \ {"RouterException"}} :
        Pass(r, "endpoint", what)
  BY DEF Endpoint
<1>4. \/ what \in Answers /\ what.body = "result"
      \/ what \in Raises
  <2>1. CASE what = Answered(200, "result")
    BY <2>1, AnsweredIs DEF AllStatuses
  <2>2. CASE \E e \in Exceptions : what \in Raised(e)
    BY <2>2, RaisedIs
  <2> QED
    BY <2>1, <2>2
<1>5. Together(req[r], "endpoint", what, log[r])
  BY <1>1, <1>2, <1>4 DEF Down, Together, AnswerUp, ExceptionUp
<1>6. /\ req' = [req EXCEPT ![r] = req[r]] /\ at' = [at EXCEPT ![r] = "endpoint"]
      /\ up' = [up EXCEPT ![r] = what] /\ log' = [log EXCEPT ![r] = log[r]]
  BY <1>1, <1>3, Before DEF Pass
<1> QED
  BY <1>4, <1>5, <1>6, OneRequest, Before DEF Layers

\* What comes back up, before the request is answered.
LEMMA OnTheWayUp ==
  ASSUME PipelineInv, NEW r \in Requests, NEW layer, layer # "gone", Returns(r, layer)
  PROVE  /\ at[r] = layer
         /\ \/ AnswerUp(req[r], at[r], up[r], log[r]) /\ IsAnswer(r)
            \/ ExceptionUp(req[r], at[r], up[r], log[r]) /\ ~IsAnswer(r)
BY Before, Kinds DEF Returns, Together, Down, AnswerUp, ExceptionUp, Gone

\* The session is closed behind an exception.
LEMMA EndpointReturnsKeeps ==
  ASSUME PipelineInv, NEW r \in Requests, EndpointReturns(r) PROVE PipelineInv'
<1> DEFINE q == [req[r] EXCEPT !.session = SessionAfter(r)]
<1>0. /\ SessionAfter(r) \in {"none", "open", "closed"}
      /\ SessionAfter(r) = "open" => IsAnswer(r) /\ req[r].session = "open"
  BY Before DEF SessionAfter, RequestStates
<1>1. q \in RequestStates /\ q.id = req[r].id /\ q.client_id = req[r].client_id
      /\ q.session = SessionAfter(r)
  BY <1>0, Before DEF RequestStates
<1>2. req' = [req EXCEPT ![r] = q] /\ at' = [at EXCEPT ![r] = "handlers"]
  BY DEF EndpointReturns, Enter
<1>3. up' = [up EXCEPT ![r] = up[r]] /\ log' = [log EXCEPT ![r] = log[r]]
  BY Before DEF EndpointReturns
<1> HIDE DEF q
<1>4. /\ at[r] = "endpoint"
      /\ \/ AnswerUp(req[r], at[r], up[r], log[r])
         \/ ExceptionUp(req[r], at[r], up[r], log[r]) /\ ~IsAnswer(r)
  BY OnTheWayUp DEF EndpointReturns
<1>5. Together(q, "handlers", up[r], log[r])
  BY <1>0, <1>1, <1>4 DEF Together, AnswerUp, ExceptionUp, SentId
<1> QED
  BY <1>1, <1>2, <1>3, <1>5, OneRequest, Before DEF Layers

\* The session is closed once the answer has been sent.
LEMMA CloseSessionKeeps ==
  ASSUME PipelineInv, NEW r \in Requests, CloseSession(r) PROVE PipelineInv'
<1> DEFINE q == [req[r] EXCEPT !.session = "closed"]
<1>1. q \in RequestStates /\ q.id = req[r].id /\ q.client_id = req[r].client_id
      /\ q.session = "closed"
  BY Before DEF RequestStates
<1>2. req' = [req EXCEPT ![r] = q]
  BY DEF CloseSession
<1>3. /\ at' = [at EXCEPT ![r] = at[r]] /\ at[r] \in {"errors", "gone"}
      /\ up' = [up EXCEPT ![r] = up[r]] /\ log' = [log EXCEPT ![r] = log[r]]
  BY Before DEF CloseSession, PipelineInv
<1> HIDE DEF q
<1>4. \/ AnswerUp(req[r], at[r], up[r], log[r])
      \/ Gone(req[r], at[r], up[r], log[r])
  BY Before, Kinds DEF CloseSession, IsAnswer, Together, Down, ExceptionUp
<1>5. Together(q, at[r], up[r], log[r])
  BY <1>1, <1>4 DEF Together, AnswerUp, Gone, SentId
<1>6. /\ q \in RequestStates /\ at[r] \in Layers
      /\ up[r] \in Answers \cup Raises \cup {Nothing}
  BY <1>1, Before
<1>7. /\ at' = [at EXCEPT ![r] = at[r]] /\ up' = [up EXCEPT ![r] = up[r]]
      /\ log' = [log EXCEPT ![r] = log[r]]
  BY <1>3
<1> QED
  BY <1>2, <1>5, <1>6, <1>7, OneRequest

\* What the exception handlers make of what was raised.
LEMMA HandledIs ==
  ASSUME PipelineInv, NEW r \in Requests, NEW x \in Raises
  PROVE  \/ Handled(r, x) \in Raises
         \/ /\ Handled(r, x) \in Answers /\ Handled(r, x).body # "result"
            /\ Handled(r, x).body = "problem" => Handled(r, x).body_id = req[r].id
<1>0. x.status \in AllStatuses /\ x.exception \in Exceptions
  BY DEF Raises
<1>1. CASE x.exception = "RouterException"
  BY <1>0, <1>1, AnsweredIs DEF Handled
<1>2. CASE x.exception = "Exception"
  BY <1>2 DEF Handled
<1>3. CASE x.exception \notin {"RouterException", "Exception"}
  <2>1. Handled(r, x) = problem_detail(r, x.status)
    BY <1>3 DEF Handled
  <2> QED
    BY <1>0, <2>1, ProblemIs, Before
<1> QED
  BY <1>1, <1>2, <1>3

LEMMA HandlersReturnKeeps ==
  ASSUME PipelineInv, NEW r \in Requests, HandlersReturn(r) PROVE PipelineInv'
<1> DEFINE u == IF IsAnswer(r) THEN up[r] ELSE Handled(r, up[r])
<1>1. /\ req' = [req EXCEPT ![r] = req[r]] /\ at' = [at EXCEPT ![r] = "cors"]
      /\ up' = [up EXCEPT ![r] = u] /\ log' = [log EXCEPT ![r] = log[r]]
  BY Before DEF HandlersReturn, Pass
<1>2. Returns(r, "handlers")
  BY DEF HandlersReturn
<1>3. Together(req[r], "cors", u, log[r]) /\ u \in Answers \cup Raises
  <2>1. CASE AnswerUp(req[r], at[r], up[r], log[r]) /\ IsAnswer(r) /\ at[r] = "handlers"
    BY <2>1 DEF AnswerUp, Together
  <2>2. CASE ExceptionUp(req[r], at[r], up[r], log[r]) /\ ~IsAnswer(r) /\ at[r] = "handlers"
    <3>1. up[r] \in Raises
      BY <2>2 DEF ExceptionUp
    <3>2. u = Handled(r, up[r])
      BY <2>2
    <3> HIDE DEF u
    <3> QED
      BY <2>2, <3>1, <3>2, HandledIs DEF AnswerUp, ExceptionUp, Together
  <2> QED
    BY <1>2, <2>1, <2>2, OnTheWayUp
<1> QED
  BY <1>1, <1>3, OneRequest, Before DEF Layers

LEMMA CorsReturnsKeeps ==
  ASSUME PipelineInv, NEW r \in Requests, CorsReturns(r) PROVE PipelineInv'
<1> DEFINE u == IF IsAnswer(r) THEN [up[r] EXCEPT !.cors = TRUE] ELSE up[r]
<1>1. /\ req' = [req EXCEPT ![r] = req[r]] /\ at' = [at EXCEPT ![r] = "context"]
      /\ up' = [up EXCEPT ![r] = u] /\ log' = [log EXCEPT ![r] = log[r]]
  BY Before DEF CorsReturns, Pass
<1>2. Returns(r, "cors")
  BY DEF CorsReturns
<1>3. Together(req[r], "context", u, log[r]) /\ u \in Answers \cup Raises
  <2>1. CASE AnswerUp(req[r], at[r], up[r], log[r]) /\ IsAnswer(r) /\ at[r] = "cors"
    <3>1. /\ u \in Answers /\ u.status = up[r].status /\ u.body = up[r].body
          /\ u.body_id = up[r].body_id /\ u.cors
      <4>1. up[r] \in Answers /\ u = [up[r] EXCEPT !.cors = TRUE]
        BY <2>1 DEF AnswerUp
      <4> HIDE DEF u
      <4> QED
        BY <4>1 DEF Answers
    <3> HIDE DEF u
    <3> QED
      BY <2>1, <3>1 DEF AnswerUp, Together
  <2>2. CASE ExceptionUp(req[r], at[r], up[r], log[r]) /\ ~IsAnswer(r) /\ at[r] = "cors"
    BY <2>2 DEF ExceptionUp, Together
  <2> QED
    BY <1>2, <2>1, <2>2, OnTheWayUp
<1> QED
  BY <1>1, <1>3, OneRequest, Before DEF Layers

\* The middleware: the header and the line of an answer, or the line of a failure.
LEMMA ContextReturnsKeeps ==
  ASSUME PipelineInv, NEW r \in Requests, ContextReturns(r) PROVE PipelineInv'
<1> DEFINE u == IF IsAnswer(r) THEN WithId(r) ELSE up[r]
           l == IF IsAnswer(r) THEN <<Line("request_completed", up[r].status)>>
                ELSE <<Line("request_failed", 500)>>
<1>1. Returns(r, "context")
  BY DEF ContextReturns
<1>2. log[r] = <<>>
  <2>1. /\ at[r] = "context"
        /\ \/ AnswerUp(req[r], at[r], up[r], log[r])
           \/ ExceptionUp(req[r], at[r], up[r], log[r])
    BY <1>1, OnTheWayUp
  <2> QED
    BY <2>1 DEF AnswerUp, ExceptionUp
<1>3. /\ Completed(r) = <<Line("request_completed", up[r].status)>>
      /\ Failed(r) = <<Line("request_failed", 500)>>
  BY <1>2 DEF Completed, Failed
<1>4. /\ req' = [req EXCEPT ![r] = req[r]] /\ at' = [at EXCEPT ![r] = "errors"]
      /\ up' = [up EXCEPT ![r] = u] /\ log' = [log EXCEPT ![r] = l]
  BY <1>3, Before DEF ContextReturns, Pass
<1>5. Together(req[r], "errors", u, l) /\ u \in Answers \cup Raises
  <2>1. CASE AnswerUp(req[r], at[r], up[r], log[r]) /\ IsAnswer(r) /\ at[r] = "context"
    <3>1. /\ u \in Answers /\ u.status = up[r].status /\ u.body = up[r].body
          /\ u.body_id = up[r].body_id /\ u.header_id = req[r].id /\ u.cors = up[r].cors
      <4>1. up[r] \in Answers /\ req[r].id \in RequestIds /\ u = WithId(r)
        BY <2>1, Before DEF AnswerUp, RequestStates
      <4> QED
        BY <4>1 DEF Answers, WithId
    <3>2. l = <<Line("request_completed", up[r].status)>>
      BY <2>1
    <3> HIDE DEF u, l
    <3> QED
      BY <2>1, <3>1, <3>2 DEF AnswerUp, Together
  <2>2. CASE ExceptionUp(req[r], at[r], up[r], log[r]) /\ ~IsAnswer(r) /\ at[r] = "context"
    BY <2>2 DEF ExceptionUp, Together
  <2> QED
    BY <1>1, <2>1, <2>2, OnTheWayUp
<1> HIDE DEF u, l
<1> QED
  BY <1>4, <1>5, OneRequest, Before DEF Layers

\* The outermost layer answers what is still an exception.
LEMMA LeaveKeeps ==
  ASSUME PipelineInv, NEW r \in Requests, Leave(r) PROVE PipelineInv'
<1> DEFINE u == IF IsAnswer(r) THEN up[r] ELSE unhandled_exception_handler(r)
<1>1. /\ req' = [req EXCEPT ![r] = req[r]] /\ at' = [at EXCEPT ![r] = "gone"]
      /\ up' = [up EXCEPT ![r] = u] /\ log' = [log EXCEPT ![r] = log[r]]
  BY Before DEF Leave, Pass
<1>2. Returns(r, "errors")
  BY DEF Leave
<1>3. Together(req[r], "gone", u, log[r]) /\ u \in Answers
  <2>1. CASE AnswerUp(req[r], at[r], up[r], log[r]) /\ IsAnswer(r) /\ at[r] = "errors"
    BY <2>1 DEF AnswerUp, Gone, Together
  <2>2. CASE ExceptionUp(req[r], at[r], up[r], log[r]) /\ ~IsAnswer(r) /\ at[r] = "errors"
    <3>1. u = problem_detail(r, 500)
      BY <2>2 DEF unhandled_exception_handler
    <3>2. /\ u \in Answers /\ u.body = "problem" /\ u.body_id = req[r].id /\ u.status = 500
          /\ u.header_id = NoId /\ ~u.cors
      <4>1. 500 \in AllStatuses
        BY DEF AllStatuses, Exceptions, Statuses
      <4> QED
        BY <3>1, <4>1, ProblemIs, Before
    <3> HIDE DEF u
    <3> QED
      BY <2>2, <3>2 DEF ExceptionUp, Gone, Together
  <2> QED
    BY <1>2, <2>1, <2>2, OnTheWayUp
<1> QED
  BY <1>1, <1>3, OneRequest, Before DEF Layers

-----------------------------------------------------------------------------
(* The theorems *)

LEMMA PipelineStep == ASSUME PipelineInv, [Next]_vars PROVE PipelineInv'
<1>1. CASE UNCHANGED vars
  BY <1>1 DEF vars, PipelineInv
<1>2. CASE Idle
  BY <1>1, <1>2 DEF Idle
<1> QED
  BY <1>1, <1>2, AssignKeeps, RouteKeeps, EndpointKeeps, EndpointReturnsKeeps,
     CloseSessionKeeps, HandlersReturnKeeps, CorsReturnsKeeps, ContextReturnsKeeps, LeaveKeeps DEF Next, Step

LEMMA PipelineInvariant == Spec => []PipelineInv
<1>1. PipelineInv /\ [Next]_vars => PipelineInv'
  BY PipelineStep
<1> QED
  BY <1>1, InitPipeline, PTL DEF Spec

\* A request that has left the stack has been answered.
LEMMA GoneMeans ==
  ASSUME PipelineInv, NEW r \in Requests, Done(r)
  PROVE  Gone(req[r], at[r], up[r], log[r]) /\ IsAnswer(r)
BY Before, Kinds DEF Done, Together, Down, AnswerUp, ExceptionUp, Gone

\* Every request keeps its types on its way through the layers and out.
THEOREM PipelineTypes == Spec => []TypeOK
<1>1. PipelineInv => TypeOK
  BY GoneMeans, Before, Kinds DEF TypeOK, RequestStates, RequestIds, Layers
<1> QED
  BY <1>1, PipelineInvariant, PTL

\* Wherever a request is answered, in the endpoint, by a handler or by the outermost layer,
\* the answer carries its id, and a problem's body the id its client sent.
THEOREM AnswersNameRequests == Spec => []AnswersNameTheRequest
<1>1. PipelineInv => AnswersNameTheRequest
  BY GoneMeans DEF AnswersNameTheRequest, Gone, SentId
<1> QED
  BY <1>1, PipelineInvariant, PTL

\* An id is never NoId: the header tells which answers passed the middleware.
LEMMA IdIsSent ==
  ASSUME PipelineInv, NEW r \in Requests PROVE SentId(req[r]) # NoId
BY DEF SentId, NoId

\* Every request that ends leaves one line with the status of its answer, request_failed just
\* where the outermost layer answered, and no error is answered with its session open.
THEOREM LogTellsAnswers == Spec => []LogTellsAnswer
<1>1. PipelineInv => LogTellsAnswer
  BY GoneMeans, IdIsSent DEF LogTellsAnswer, Gone
<1> QED
  BY <1>1, PipelineInvariant, PTL
=============================================================================
