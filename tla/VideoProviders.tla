---------------------------- MODULE VideoProviders ----------------------------
(***************************************************************************)
(* One call of provider.generate by a worker, the remote job behind it, and *)
(* what the worker writes to the job row about it                          *)
(* (video_generation_provider.py, video_generation_worker_service.py:      *)
(* 104-201).  VideoGeneration.tla has the call as one step; here every     *)
(* HTTP call and every write to the row is a step of its own.  A call      *)
(* takes time and finds the remote job wherever it has got to; calls and   *)
(* writes may fail, and the worker may die between any two steps: then the *)
(* entry is reclaimed and the row is failed.                               *)
(***************************************************************************)
EXTENDS Naturals

CONSTANTS
  Configurations, \* what settings can be
  MaxWait,        \* *_max_wait_seconds, in ticks
  PollInterval,   \* *_poll_interval_seconds
  CallTime        \* bound: longest HTTP call the client's own timeout allows

VARIABLES
  settings,   \* VIDEO_GENERATION_PROVIDER, and which API keys are set
  pc,         \* next step of the call
  remote,     \* state of the provider's job
  reason,     \* what the provider says of a failed job
  seen,       \* state the client read last
  raised,     \* what the exception that ends the call says
  now, spent, \* time since the call began, and of the current step
  deadline,   \* when the loop gives up
  row,        \* the job row: progress, whether provider_job_id is known, outcome
  stored      \* objects written to the storage

vars == <<settings, pc, remote, reason, seen, raised, now, spent, deadline, row, stored>>
time == <<now, deadline>>

resolve_video_generation_provider_name ==
  IF settings.VIDEO_GENERATION_PROVIDER # "auto" THEN settings.VIDEO_GENERATION_PROVIDER
  ELSE IF settings.OPENAI_API_KEY THEN "openai" ELSE IF settings.FAL_KEY THEN "fal" ELSE "mock"
Provider == resolve_video_generation_provider_name

Remote == {"none", "queued", "in_progress", "completed", "failed", "other"}
Pending == {"queued", "in_progress"}
Reasons == {"plain", "moderation", "timeout"}
Messages == Reasons \cup {"deadline"}       \* the run's own: the wait is over
\* schemas/movie.py: what GET /generation can answer as error_code.
GenerationErrorCode == {"PROVIDER_ERROR", "PROVIDER_TIMEOUT", "PROVIDER_MODERATION_BLOCKED"}
ErrorCodes == GenerationErrorCode \cup {"NONE", "WORKER_CRASHED"}
Calls == {"submit", "get", "result", "video", "thumbnail"}   \* steps that wait for HTTP
Writes == {"accepted", "report"}   \* steps that report progress
Steps == Calls \cup Writes \cup {"check", "sleep", "succeed", "fail", "dead", "end"}

TypeOK ==
  /\ settings \in Configurations
  /\ pc \in Steps
  /\ remote \in Remote /\ seen \in Remote
  /\ reason \in Reasons /\ raised \in Messages
  /\ now \in Nat /\ spent \in Nat /\ deadline \in Nat
  /\ row \in [status : {"RUNNING", "SUCCEEDED", "FAILED"}, progress : 0 .. 100,
              id : BOOLEAN, error : ErrorCodes]
  /\ stored \subseteq {"video", "thumbnail"}

Init ==
  /\ settings \in Configurations
  /\ pc = IF Provider = "mock" THEN "accepted" ELSE "submit"
  /\ remote = "none" /\ seen = "none" /\ reason = "plain" /\ raised = "plain"
  /\ now = 0 /\ spent = 0 /\ deadline = 0
  /\ row = [status |-> "RUNNING", progress |-> 0, id |-> FALSE, error |-> "NONE"]
  /\ stored = {}

provider_error_code(message) ==
  CASE message = "moderation" -> "PROVIDER_MODERATION_BLOCKED"
    [] message \in {"timeout", "deadline"} -> "PROVIDER_TIMEOUT"
    [] OTHER                  -> "PROVIDER_ERROR"

\* _record_progress: update_generation_progress on a row that is RUNNING.
Lowest(p) == IF p < 1 THEN 1 ELSE IF p > 99 THEN 99 ELSE p
Recorded(r, p) ==
  [r EXCEPT !.progress = IF Lowest(p) > @ THEN Lowest(p) ELSE @, !.id = TRUE]

Goto(step) == pc' = step /\ spent' = 0

Failed(r, message) ==
  [r EXCEPT !.status = "FAILED", !.error = provider_error_code(message)]

\* generate raises.
RaiseUnrecorded(message) ==
  /\ Goto("end") /\ raised' = message
  /\ UNCHANGED <<remote, reason, seen, time, row, stored>>
Raise(message) ==
  /\ Goto("fail") /\ raised' = message
  /\ UNCHANGED <<remote, reason, seen, time, row, stored>>

\* Any HTTP call may fail or be answered badly, and is not made again by this code.  What
\* the error says decides the code of the job: a 504 Gateway Timeout speaks of a timeout
\* whatever was seen before, and a refusal by OpenAI may speak of moderation.
CallErrors == IF Provider = "openai" THEN Reasons ELSE {"plain", "timeout"}
CallFails(step) == pc = step /\ \E message \in CallErrors : Raise(message)

\* A progress write that fails raises out of generate.  (When the session cannot be used
\* after it, _mark_failed raises too and the process ends: Crash.)
WriteFails == pc \in Writes /\ \E message \in {"plain", "timeout"} : Raise(message)

\* _mark_failed
MarkFailed ==
  /\ pc = "fail"
  /\ row' = Failed(row, raised)
  /\ Goto("end")
  /\ UNCHANGED <<remote, reason, seen, raised, time, stored>>

\* videos.create, or the POST to fal's queue: its answer names the remote job.
Submit ==
  /\ pc = "submit"
  /\ remote' = "queued" /\ seen' = "queued"
  /\ Goto("accepted")
  /\ UNCHANGED <<reason, raised, time, row, stored>>

\* The provider took the job and its answer was lost, or names no job.
SubmitAnswerLost ==
  /\ pc = "submit"
  /\ remote' = "queued"
  /\ \E message \in CallErrors : raised' = message
  /\ Goto("fail")
  /\ UNCHANGED <<reason, seen, time, row, stored>>

\* The first report is what makes the row name the remote job; the wait begins after it.
\* The mock reports 100 and is done.
OpenAIProgress == {1, 50, 100}
FirstReport ==
  CASE Provider = "openai" -> OpenAIProgress [] Provider = "mock" -> {100} [] OTHER -> {5}
Accepted ==
  /\ pc = "accepted"
  /\ \E p \in FirstReport : row' = Recorded(row, p)
  /\ deadline' = now + MaxWait
  /\ Goto(IF Provider = "mock" THEN "succeed" ELSE "check")
  /\ UNCHANGED <<remote, reason, seen, raised, now, stored>>

\* The clock is looked at before the state read last is acted on (OpenAI) or the
\* next one is read (fal).
Check ==
  /\ pc = "check"
  /\ \/ now > deadline /\ Raise("deadline")
     \/ /\ now <= deadline
        /\ Goto(IF Provider = "openai" THEN "report" ELSE "get")
        /\ UNCHANGED <<remote, reason, seen, raised, time, row, stored>>

Retrieve ==
  /\ pc = "get"
  /\ seen' = remote
  /\ Goto(IF Provider = "openai" THEN "check" ELSE "report")
  /\ UNCHANGED <<remote, reason, raised, row, time, stored>>

\* fal's COMPLETED comes with an "error" for a run that failed.
FalProgress(status) ==
  IF status \in {"completed", "failed"} THEN 95 ELSE IF status = "queued" THEN 10 ELSE 50
Progress(status) == IF Provider = "openai" THEN OpenAIProgress ELSE {FalProgress(status)}

\* What a state leads to, once it is reported: a job that failed has its own reason.
AfterStatus(status) ==
  CASE status \in Pending     -> "sleep"
    [] status = "completed"   -> IF Provider = "openai" THEN "video" ELSE "result"
    [] OTHER                  -> "fail"
Report ==
  /\ pc = "report"
  /\ \E p \in Progress(seen) : row' = Recorded(row, p)
  /\ Goto(AfterStatus(seen))
  /\ raised' = IF seen = "failed" THEN reason ELSE "plain"
  /\ UNCHANGED <<remote, reason, seen, time, stored>>

WakeLater ==
  /\ pc = "sleep" /\ spent = PollInterval
  /\ Goto(IF Provider = "openai" THEN "get" ELSE "check")
  /\ deadline' = now + MaxWait
  /\ UNCHANGED <<remote, reason, seen, raised, now, row, stored>>
Wake ==
  /\ pc = "sleep" /\ spent = PollInterval
  /\ Goto(IF Provider = "openai" THEN "get" ELSE "check")
  /\ UNCHANGED <<remote, reason, seen, raised, time, row, stored>>

\* fal: the result document with the video's URL.
GetResult ==
  /\ pc = "result"
  /\ Goto("succeed")
  /\ UNCHANGED <<remote, reason, seen, raised, time, row, stored>>

DownloadVideoOptional ==
  /\ pc = "video"
  /\ stored' \in {stored, stored \cup {"video"}}
  /\ Goto("thumbnail")
  /\ UNCHANGED <<remote, reason, seen, raised, time, row>>

\* OpenAI: both variants are downloaded and stored; the thumbnail is optional.
DownloadVideo ==
  /\ pc = "video"
  /\ stored' = stored \cup {"video"}
  /\ Goto("thumbnail")
  /\ UNCHANGED <<remote, reason, seen, raised, time, row>>

DownloadThumbnail ==
  /\ pc = "thumbnail"
  /\ stored' \in {stored, stored \cup {"thumbnail"}}
  /\ Goto("succeed")
  /\ UNCHANGED <<remote, reason, seen, raised, time, row>>

\* _mark_succeeded
Succeed ==
  /\ pc = "succeed"
  /\ row' = [row EXCEPT !.status = "SUCCEEDED", !.progress = 100, !.id = TRUE]
  /\ Goto("end")
  /\ UNCHANGED <<remote, reason, seen, raised, time, stored>>

Crash ==
  /\ pc \notin {"dead", "end"}
  /\ Goto("dead")
  /\ UNCHANGED <<remote, reason, seen, raised, time, row, stored>>

\* Another worker reclaims the entry: _fail_crashed.
FailCrashed ==
  /\ pc = "dead"
  /\ row' = [row EXCEPT !.status = "FAILED", !.error = "WORKER_CRASHED"]
  /\ Goto("end")
  /\ UNCHANGED <<remote, reason, seen, raised, time, stored>>

\* The remote job moves on; a queued job can be put back, a state can be one
\* the code does not know.
RemoteMoves ==
  /\ remote \in Pending \cup {"other"}
  /\ remote' \in Remote \ {"none"}
  /\ reason' \in IF remote' = "failed" THEN Reasons ELSE {"plain"}
  /\ UNCHANGED <<pc, seen, raised, now, spent, deadline, row, stored>>

\* Only a call and the sleep take time.
Tick ==
  /\ \/ pc \in Calls /\ spent < CallTime
     \/ pc = "sleep" /\ spent < PollInterval
  /\ now' = now + 1 /\ spent' = spent + 1
  /\ UNCHANGED <<pc, remote, reason, seen, raised, deadline, row, stored>>

Ended == pc = "end" /\ UNCHANGED vars

Worker ==
  \/ Submit \/ SubmitAnswerLost \/ Accepted \/ Check \/ Retrieve \/ Report \/ Wake
  \/ GetResult \/ DownloadVideo \/ DownloadThumbnail \/ Succeed \/ MarkFailed \/ FailCrashed
  \/ WriteFails \/ \E step \in Calls \ {"thumbnail"} : CallFails(step)

Step == Worker \/ Crash \/ RemoteMoves \/ Tick
Next == (Step /\ UNCHANGED settings) \/ Ended
Spec == Init /\ [][Next]_vars

\* The clients have timeouts of their own, sleep returns, and a dead worker's
\* entry is reclaimed.
LiveSpec == Spec /\ WF_vars((Worker \/ Tick) /\ UNCHANGED settings)

\* A job is reported a success only when its provider said so, and then its
\* video can be had: stored by us (OpenAI) or named by the provider's result.
SuccessIsReal ==
  row.status = "SUCCEEDED" /\ Provider # "mock" =>
    remote = "completed" /\ (Provider = "openai" => "video" \in stored)

\* Only a run that ended between the answer to its submission and its first report leaves a
\* paid job its row does not name: every later trace of the remote job, in the row, in the
\* storage or in what was read of it, comes with provider_job_id.
RemoteJobKnown ==
  \/ row.id
  \/ row.progress = 0 /\ row.status # "SUCCEEDED" /\ stored = {} /\ seen \in {"none", "queued"}

\* fal: a run given up at its own deadline was not done when it was last looked at.
\* (OpenAI retrieves first and looks at the clock then: there it can be.)
GivenUpPending == Provider = "fal" /\ raised = "deadline" => seen \in Pending

\* What the row says of the remote job is so: a success, which job it was, and that it was
\* still pending when the run gave it up.
RowMatchesRun == SuccessIsReal /\ RemoteJobKnown /\ GivenUpPending

\* What a worker occupied by generate costs: the limit counts from the answer
\* to the submission, and calls under way at the deadline still finish.
RunBounded ==
  now <= CallTime + MaxWait +
           (IF PollInterval > CallTime THEN PollInterval + CallTime ELSE 2 * CallTime)

\* Every call ends and its row is settled.
RunEnds == <>(pc = "end" /\ row.status # "RUNNING")

\* router.py:330 (GET /generation answers a FAILED job): every error code a
\* settled row can hold is one the response model admits.
ErrorCodeReadable == row.error \in GenerationErrorCode \cup {"NONE"}
=============================================================================
