------------------------ MODULE VideoProvidersProofs -------------------------
(***************************************************************************)
(* What holds of one provider run for every limit, interval and length of  *)
(* an HTTP call, and under every configuration.                            *)
(***************************************************************************)
EXTENDS VideoProviders, TLAPS

Durations == MaxWait \in Nat /\ PollInterval \in Nat /\ CallTime \in Nat

JobRows == [status : {"RUNNING", "SUCCEEDED", "FAILED"}, progress : 0 .. 100,
            id : BOOLEAN, error : ErrorCodes]

LEMMA RecordedRow ==
  ASSUME row \in JobRows, NEW p \in Nat
  PROVE  /\ Recorded(row, p).progress >= row.progress
         /\ Recorded(row, p).status = row.status /\ Recorded(row, p).error = row.error
         /\ Recorded(row, p).id = TRUE
         /\ Recorded(row, p) \in JobRows
<1> DEFINE best == IF Lowest(p) > row.progress THEN Lowest(p) ELSE row.progress
<1>1. Lowest(p) \in 1 .. 99
  BY DEF Lowest
<1>2. row.progress \in 0 .. 100
  BY DEF JobRows
<1>3. best \in 0 .. 100 /\ best >= row.progress
  BY <1>1, <1>2
<1>4. Recorded(row, p) = [status |-> row.status, progress |-> best, id |-> TRUE,
                             error |-> row.error]
  <2>1. Recorded(row, p) = [row EXCEPT !.progress = best, !.id = TRUE]
    BY DEF Recorded
  <2>2. row = [status |-> row.status, progress |-> row.progress, id |-> row.id, error |-> row.error]
    BY DEF JobRows
  <2> HIDE DEF best
  <2>3. QED
    BY <2>1, <2>2
<1> HIDE DEF best
<1>5. QED
  BY <1>3, <1>4 DEF JobRows

LEMMA FailedRow ==
  ASSUME NEW r \in JobRows, NEW m \in Messages
  PROVE  /\ Failed(r, m).progress = r.progress /\ Failed(r, m).id = r.id
         /\ Failed(r, m).status = "FAILED"
         /\ Failed(r, m) \in JobRows
<1>1. provider_error_code(m) \in GenerationErrorCode
  BY DEF provider_error_code, GenerationErrorCode
<1> DEFINE e == provider_error_code(m)
<1> HIDE DEF e
<1>2. Failed(r, m) = [status |-> "FAILED", progress |-> r.progress, id |-> r.id, error |-> e]
  <2>1. r = [status |-> r.status, progress |-> r.progress, id |-> r.id, error |-> r.error]
    BY DEF JobRows
  <2>2. Failed(r, m) = [r EXCEPT !.status = "FAILED", !.error = e]
    BY DEF Failed, e
  <2>3. QED
    BY <2>1, <2>2
<1>3. QED
  BY <1>1, <1>2 DEF JobRows, ErrorCodes, e

LEMMA SameProvider == UNCHANGED settings => Provider' = Provider
  BY DEF Provider, resolve_video_generation_provider_name

-----------------------------------------------------------------------------
(* The inductive invariant.                                                *)

\* Each provider's loop visits its own steps.
StepsOf ==
  /\ pc \in {"video", "thumbnail"} => Provider = "openai"
  /\ pc = "result" => Provider # "openai"
  /\ pc = "succeed" => Provider # "openai" \/ "video" \in stored
  /\ pc = "thumbnail" => "video" \in stored

\* The client follows the remote job: a job that ended stays as it was seen.
ClientFollows ==
  /\ seen \in {"completed", "failed"} => remote = seen
  /\ reason # "plain" => remote = "failed"
  /\ seen # "none" => remote # "none"
  /\ pc = "submit" => seen = "none" /\ remote = "none"
  /\ pc = "accepted" => seen \in {"none", "queued"} /\ (Provider # "mock" => seen = "queued")
  /\ pc \in {"result", "video", "thumbnail", "succeed"} => Provider = "mock" \/ remote = "completed"
  /\ pc \in {"check", "sleep"} /\ Provider = "fal" => seen \in Pending
  /\ pc \in {"get", "check", "report", "sleep"} => seen # "none"
  /\ raised = "deadline" => pc \in {"fail", "dead", "end"}

\* The row is settled by the last step alone, and names the remote job in every step after
\* the first report.
Tracked == {"check", "get", "report", "sleep", "result", "video", "thumbnail", "succeed"}
RowFollows ==
  /\ pc # "end" => row.status = "RUNNING" /\ row.error = "NONE"
  /\ pc \in Tracked => row.id
  /\ RemoteJobKnown /\ SuccessIsReal /\ GivenUpPending

\* How late each step can be.
Limit == CallTime + MaxWait
ClockInv ==
  /\ deadline <= Limit
  /\ pc = "submit" => now = spent /\ spent <= CallTime
  /\ pc = "accepted" => now <= CallTime
  /\ pc \in Calls => spent <= CallTime
  /\ pc = "sleep" => spent <= PollInterval
  /\ pc = "check" => now <= Limit + PollInterval + CallTime
  /\ pc = "report" /\ Provider = "openai" => now <= Limit
  /\ pc = "sleep" /\ Provider = "openai" => now <= Limit + spent
  /\ pc = "get" /\ Provider = "openai" => now <= Limit + PollInterval + spent
  /\ pc = "report" /\ Provider # "openai" => now <= Limit + CallTime
  /\ pc = "sleep" /\ Provider # "openai" => now <= Limit + CallTime + spent
  /\ pc = "get" /\ Provider # "openai" => now <= Limit + spent
  /\ pc = "video" => now <= Limit + spent
  /\ pc \in {"thumbnail", "result"} => now <= Limit + CallTime + spent
  /\ RunBounded

Inv == TypeOK /\ StepsOf /\ ClientFollows /\ RowFollows

-----------------------------------------------------------------------------
(* The steps.                                                              *)

LEMMA InvRow == Inv => row \in JobRows /\ row.progress \in Nat
                       /\ (pc # "end" => row.status = "RUNNING" /\ row.error = "NONE")
  BY DEF Inv, TypeOK, JobRows, RowFollows

\* A step that leaves the row as it is, before the first report or after it.
LEMMA SameRow ==
  ASSUME Inv, TypeOK', StepsOf', ClientFollows', UNCHANGED settings, row' = row, pc # "end",
         pc' # "end", pc' \in Tracked => pc \in Tracked,
         \/ pc \in Tracked
         \/ UNCHANGED stored /\ (seen' = seen \/ seen' = "queued"),
         raised' = "deadline" =>
           seen' = seen /\ (raised = "deadline" \/ (Provider = "fal" => seen \in Pending))
  PROVE  Inv' /\ row'.progress >= row.progress
<1>1. Provider' = Provider
  BY SameProvider
<1>2. RowFollows'
  BY <1>1 DEF Inv, RowFollows, RemoteJobKnown, SuccessIsReal, GivenUpPending
<1>3. QED
  BY <1>2, InvRow DEF Inv

\* A step that reports progress.
LEMMA ReportRow ==
  ASSUME Inv, NEW p \in Nat, row' = Recorded(row, p), UNCHANGED settings,
         pc # "end", raised' # "deadline"
  PROVE  RowFollows' /\ row' \in JobRows /\ row'.progress >= row.progress
<1>1. /\ row' \in JobRows /\ row'.progress >= row.progress
      /\ row'.status = "RUNNING" /\ row'.error = "NONE" /\ row'.id = TRUE
  BY InvRow, RecordedRow
<1>2. QED
  BY <1>1 DEF RowFollows, RemoteJobKnown, SuccessIsReal, GivenUpPending

LEMMA RaiseKeeps ==
  ASSUME Inv, NEW m \in Messages, Raise(m), UNCHANGED settings, pc \in Calls \cup Writes \cup {"check"},
         m = "deadline" /\ Provider = "fal" => seen \in Pending
  PROVE  Inv' /\ row'.progress >= row.progress
<1>1. /\ pc' = "fail" /\ raised' = m /\ spent' = 0
      /\ UNCHANGED <<remote, reason, seen, now, deadline, row, stored>>
  BY DEF Raise, Goto, time
<1>2. Provider' = Provider
  BY SameProvider
<1>3. TypeOK'
  BY <1>1 DEF Inv, TypeOK, Steps
<1>4. StepsOf' /\ ClientFollows'
  BY <1>1, <1>2 DEF Inv, StepsOf, ClientFollows
<1>5. pc # "end" /\ pc' # "end" /\ pc' \notin Tracked
  BY <1>1 DEF Calls, Writes, Tracked
<1>6. QED
  BY <1>1, <1>3, <1>4, <1>5, SameRow

LEMMA FailsKeeps ==
  ASSUME Inv, WriteFails \/ \E step \in Calls : CallFails(step), UNCHANGED settings
  PROVE  Inv' /\ row'.progress >= row.progress
<1>1. PICK m \in Reasons : Raise(m) /\ pc \in Calls \cup Writes
  BY DEF WriteFails, CallFails, CallErrors, Reasons
<1>2. m \in Messages /\ m # "deadline"
  BY DEF Messages, Reasons
<1>3. QED
  BY <1>1, <1>2, RaiseKeeps

LEMMA SubmitKeeps ==
  ASSUME Inv, Submit \/ SubmitAnswerLost, UNCHANGED settings
  PROVE  Inv' /\ row'.progress >= row.progress
<1>1. /\ Provider' = Provider /\ pc = "submit" /\ pc' \in {"accepted", "fail"} /\ spent' = 0
      /\ remote' = "queued" /\ seen' \in {seen, "queued"} /\ (pc' = "accepted" => seen' = "queued")
      /\ raised' \in {raised} \cup Reasons
      /\ UNCHANGED <<reason, now, deadline, row, stored>>
  BY SameProvider DEF Submit, SubmitAnswerLost, Goto, time, CallErrors, Reasons
<1>2. TypeOK'
  BY <1>1 DEF Inv, TypeOK, Steps, Writes, Remote, Messages
<1>3. StepsOf' /\ ClientFollows'
  BY <1>1 DEF Inv, StepsOf, ClientFollows, Reasons
<1>4. pc # "end" /\ pc' # "end" /\ pc' \notin Tracked /\ raised' # "deadline"
  BY <1>1 DEF Tracked, Inv, ClientFollows, Reasons
<1>5. QED
  BY <1>1, <1>2, <1>3, <1>4, SameRow

LEMMA AcceptedKeeps ==
  ASSUME Inv, Durations, Accepted, UNCHANGED settings
  PROVE  Inv' /\ row'.progress >= row.progress
<1>1. PICK p \in FirstReport : row' = Recorded(row, p)
  BY DEF Accepted
<1>2. p \in Nat
  BY DEF FirstReport, OpenAIProgress
<1>3. /\ Provider' = Provider /\ pc = "accepted" /\ spent' = 0
      /\ pc' = IF Provider = "mock" THEN "succeed" ELSE "check"
      /\ deadline' = now + MaxWait
      /\ UNCHANGED <<remote, reason, seen, raised, now, stored>>
  BY SameProvider DEF Accepted, Goto
<1>4. raised' # "deadline" /\ pc # "end"
  BY <1>3 DEF Inv, ClientFollows
<1>5. RowFollows' /\ row' \in JobRows /\ row'.progress >= row.progress
  BY <1>1, <1>2, <1>4, ReportRow
<1>6. TypeOK'
  BY <1>3, <1>5 DEF Inv, TypeOK, JobRows, Steps, Durations
<1>7. StepsOf' /\ ClientFollows'
  BY <1>3 DEF Inv, StepsOf, ClientFollows, Pending
<1>8. QED
  BY <1>5, <1>6, <1>7 DEF Inv

LEMMA CheckKeeps ==
  ASSUME Inv, Check, UNCHANGED settings
  PROVE  Inv' /\ row'.progress >= row.progress
<1>1. Provider' = Provider /\ pc = "check"
  BY SameProvider DEF Check
<1>2. CASE Raise("deadline")
  <2>1. "deadline" \in Messages /\ (Provider = "fal" => seen \in Pending)
    BY <1>1 DEF Messages, Inv, ClientFollows
  <2>2. QED
    BY <1>1, <1>2, <2>1, RaiseKeeps
<1>3. CASE ~Raise("deadline")
  <2>1. /\ pc' \in {"report", "get"} /\ spent' = 0
        /\ UNCHANGED <<remote, reason, seen, raised, now, deadline, row, stored>>
    BY <1>3 DEF Check, Goto, time
  <2>2. TypeOK' /\ StepsOf' /\ ClientFollows'
    BY <1>1, <2>1 DEF Inv, TypeOK, StepsOf, ClientFollows, Steps, Calls, Writes
  <2>3. QED
    BY <1>1, <2>1, <2>2, SameRow DEF Tracked
<1>4. QED
  BY <1>2, <1>3

LEMMA ReportKeeps ==
  ASSUME Inv, Report, UNCHANGED settings
  PROVE  Inv' /\ row'.progress >= row.progress
<1>1. PICK p \in Progress(seen) : row' = Recorded(row, p)
  BY DEF Report
<1>2. p \in Nat
  BY DEF Progress, OpenAIProgress, FalProgress
<1>3. /\ Provider' = Provider /\ pc = "report" /\ spent' = 0 /\ pc' = AfterStatus(seen)
      /\ raised' = IF seen = "failed" THEN reason ELSE "plain"
      /\ UNCHANGED <<remote, reason, seen, now, deadline, stored>>
  BY SameProvider DEF Report, Goto, time
<1>4. raised' \in Messages /\ raised' # "deadline" /\ pc # "end"
  BY <1>3 DEF Inv, TypeOK, Messages, Reasons
<1>5. RowFollows' /\ row' \in JobRows /\ row'.progress >= row.progress
  BY <1>1, <1>2, <1>4, ReportRow
<1>6. TypeOK'
  BY <1>3, <1>4, <1>5 DEF Inv, TypeOK, JobRows, AfterStatus, Steps, Calls
<1>7. StepsOf' /\ ClientFollows'
  BY <1>3, <1>4 DEF Inv, TypeOK, StepsOf, ClientFollows, AfterStatus, Pending
<1>8. QED
  BY <1>5, <1>6, <1>7 DEF Inv

LEMMA DownloadKeeps ==
  ASSUME Inv, Retrieve \/ Wake \/ GetResult \/ DownloadVideo \/ DownloadThumbnail,
         UNCHANGED settings
  PROVE  Inv' /\ row'.progress >= row.progress
<1>1. /\ Provider' = Provider /\ row' = row /\ pc \in Tracked /\ pc' \in Tracked /\ spent' = 0
      /\ UNCHANGED <<remote, reason, raised, now, deadline>>
  BY SameProvider DEF Retrieve, Wake, GetResult, DownloadVideo, DownloadThumbnail, Goto,
                      Tracked, time
<1>2. stored' \subseteq {"video", "thumbnail"} /\ seen' \in Remote
  BY DEF Inv, TypeOK, Retrieve, Wake, GetResult, DownloadVideo, DownloadThumbnail
<1>3. TypeOK'
  BY <1>1, <1>2 DEF Inv, TypeOK, Tracked, Steps, Calls, Writes
<1>4. StepsOf'
  BY <1>1 DEF Inv, StepsOf, Retrieve, Wake, GetResult, DownloadVideo, DownloadThumbnail, Goto
<1>5. ClientFollows'
  <2>1. CASE Retrieve
    BY <1>1, <2>1 DEF Inv, ClientFollows, Retrieve, Goto
  <2>2. CASE Wake
    BY <1>1, <2>2 DEF Inv, ClientFollows, Wake, Goto
  <2>3. CASE GetResult \/ DownloadVideo \/ DownloadThumbnail
    BY <1>1, <2>3 DEF Inv, ClientFollows, GetResult, DownloadVideo, DownloadThumbnail, Goto
  <2>4. QED
    BY <2>1, <2>2, <2>3
<1>6. raised' # "deadline" /\ pc # "end" /\ pc' # "end"
  BY <1>1 DEF Inv, ClientFollows, Tracked
<1>7. QED
  BY <1>1, <1>3, <1>4, <1>5, <1>6, SameRow

LEMMA EndKeeps ==
  ASSUME Inv, Succeed \/ MarkFailed \/ Crash \/ FailCrashed, UNCHANGED settings
  PROVE  Inv' /\ row'.progress >= row.progress
<1>1. /\ Provider' = Provider /\ spent' = 0 /\ pc # "end" /\ pc' \in {"end", "dead"}
      /\ UNCHANGED <<remote, reason, seen, raised, now, deadline, stored>>
  BY SameProvider DEF Succeed, MarkFailed, Crash, FailCrashed, Goto, time
<1>2. StepsOf' /\ ClientFollows'
  BY <1>1 DEF Inv, StepsOf, ClientFollows
<1>3. CASE Crash
  <2>1. row' = row /\ pc' = "dead" /\ pc' \notin Tracked
    BY <1>3 DEF Crash, Goto, Tracked
  <2>2. TypeOK'
    BY <1>1, <2>1 DEF Inv, TypeOK, Steps
  <2>3. QED
    BY <1>1, <1>2, <2>1, <2>2, SameRow
<1>4. CASE Succeed \/ MarkFailed \/ FailCrashed
  <2>1. row \in JobRows /\ raised \in Messages /\ row.progress \in 0 .. 100
    BY InvRow DEF JobRows, Inv, TypeOK
  <2>2. pc' = "end"
    BY <1>4 DEF Succeed, MarkFailed, FailCrashed, Goto
  <2>3. CASE Succeed
    <3>1. row' = [status |-> "SUCCEEDED", progress |-> 100, id |-> TRUE, error |-> row.error]
      BY <2>1, <2>3 DEF Succeed, JobRows
    <3>2. row' \in JobRows /\ row'.progress >= row.progress /\ row'.id = TRUE
      BY <2>1, <3>1 DEF JobRows
    <3>3. TypeOK'
      BY <1>1, <2>2, <3>2 DEF Inv, TypeOK, JobRows, Steps
    <3>4. RowFollows'
      BY <1>1, <2>2, <2>3, <3>2 DEF Inv, StepsOf, ClientFollows, RowFollows, RemoteJobKnown,
                                    SuccessIsReal, GivenUpPending, Succeed, Tracked
    <3>5. QED
      BY <1>2, <3>2, <3>3, <3>4 DEF Inv
  <2>4. CASE MarkFailed \/ FailCrashed
    <3>1. /\ row' \in JobRows /\ row'.progress = row.progress /\ row'.id = row.id
          /\ row'.status = "FAILED"
      <4>1. CASE MarkFailed
        BY <2>1, <4>1, FailedRow DEF MarkFailed
      <4>2. CASE FailCrashed
        <5>1. row' = [status |-> "FAILED", progress |-> row.progress, id |-> row.id,
                      error |-> "WORKER_CRASHED"]
          BY <2>1, <4>2 DEF FailCrashed, JobRows
        <5>2. QED
          BY <2>1, <5>1 DEF JobRows, ErrorCodes
      <4>3. QED
        BY <2>4, <4>1, <4>2
    <3>2. TypeOK'
      BY <1>1, <2>2, <3>1 DEF Inv, TypeOK, JobRows, Steps
    <3>3. RowFollows'
      BY <1>1, <2>2, <3>1 DEF Inv, RowFollows, RemoteJobKnown, SuccessIsReal, GivenUpPending,
                              Tracked
    <3>4. QED
      BY <1>2, <2>1, <3>1, <3>2, <3>3 DEF Inv
  <2>5. QED
    BY <1>4, <2>3, <2>4
<1>5. QED
  BY <1>3, <1>4

LEMMA OutsideKeeps ==
  ASSUME Inv, Durations, RemoteMoves \/ Tick \/ UNCHANGED vars, UNCHANGED settings
  PROVE  Inv' /\ row'.progress >= row.progress
<1>1. Provider' = Provider /\ UNCHANGED <<pc, seen, raised, deadline, row, stored>>
  BY SameProvider DEF RemoteMoves, Tick, vars
<1>2. UNCHANGED <<remote, reason>> \/
      /\ remote \in Pending \cup {"other"} /\ remote' \in Remote \ {"none"}
      /\ reason' \in Reasons /\ (reason' # "plain" => remote' = "failed")
  BY DEF RemoteMoves, Tick, vars, Reasons
<1>3. TypeOK'
  <2>1. now' \in Nat /\ spent' \in Nat
    BY DEF Inv, TypeOK, RemoteMoves, Tick, vars
  <2>2. QED
    BY <1>1, <1>2, <2>1 DEF Inv, TypeOK
<1>4. StepsOf' /\ ClientFollows'
  BY <1>1, <1>2 DEF Inv, StepsOf, ClientFollows, Pending
<1>5. RowFollows'
  BY <1>1, <1>2 DEF Inv, RowFollows, RemoteJobKnown, SuccessIsReal, GivenUpPending, Pending
<1>6. QED
  BY <1>1, <1>3, <1>4, <1>5, InvRow DEF Inv

LEMMA NextKeeps ==
  ASSUME Inv, Durations, [Next]_vars
  PROVE  Inv' /\ row'.progress >= row.progress
<1>1. UNCHANGED settings
  BY DEF Next, Ended, vars
<1>2. CASE UNCHANGED vars
  BY <1>1, <1>2, OutsideKeeps
<1>3. CASE Worker
  BY <1>1, <1>3, SubmitKeeps, AcceptedKeeps, CheckKeeps, ReportKeeps, DownloadKeeps, EndKeeps,
     FailsKeeps DEF Worker
<1>4. CASE Crash \/ RemoteMoves \/ Tick
  BY <1>1, <1>4, EndKeeps, OutsideKeeps
<1>5. QED
  BY <1>2, <1>3, <1>4 DEF Next, Step, Ended

LEMMA InitInv == Init => Inv
<1> SUFFICES ASSUME Init PROVE Inv
  OBVIOUS
<1>1. TypeOK
  BY DEF Init, TypeOK, Steps, Calls, Writes, Remote, Reasons, Messages, ErrorCodes
<1>2. StepsOf /\ ClientFollows
  BY DEF Init, StepsOf, ClientFollows
<1>3. RowFollows
  BY DEF Init, RowFollows, RemoteJobKnown, SuccessIsReal, GivenUpPending, Tracked
<1>4. QED
  BY <1>1, <1>2, <1>3 DEF Inv

-----------------------------------------------------------------------------
(* The clock.                                                              *)

LEMMA ClockInit == Init /\ Durations => ClockInv
  BY DEF Init, Durations, ClockInv, Calls, RunBounded, Limit

LEMMA ClockNext ==
  ASSUME Inv, ClockInv, Durations, [Next]_vars
  PROVE  ClockInv'
<1>1. Provider' = Provider
  BY SameProvider DEF Next, Ended, vars
<1>2. now \in Nat /\ spent \in Nat /\ deadline \in Nat
  BY DEF Inv, TypeOK
<1>3. CASE UNCHANGED vars
  BY <1>1, <1>3 DEF ClockInv, vars, RunBounded
<1>4. CASE Submit \/ SubmitAnswerLost
  BY <1>1, <1>2, <1>4 DEF ClockInv, Submit, SubmitAnswerLost, Goto, Calls, RunBounded, time
<1>5. CASE Accepted
  BY <1>1, <1>2, <1>5 DEF ClockInv, Accepted, Goto, Calls, RunBounded, Limit, Durations
<1>6. CASE Check
  BY <1>1, <1>2, <1>6 DEF ClockInv, Check, Raise, Goto, Calls, RunBounded, Limit, Durations, time
<1>7. CASE Retrieve
  BY <1>1, <1>2, <1>7 DEF ClockInv, Retrieve, Goto, Calls, RunBounded, Limit, Durations, time
<1>8. CASE Report
  BY <1>1, <1>2, <1>8 DEF ClockInv, Report, Goto, Calls, RunBounded, Limit, Durations,
                          AfterStatus, time
<1>9. CASE Wake
  BY <1>1, <1>2, <1>9 DEF ClockInv, Wake, Goto, Calls, RunBounded, Limit, Durations, time
<1>10. CASE GetResult \/ DownloadVideo \/ DownloadThumbnail
  BY <1>1, <1>2, <1>10 DEF ClockInv, GetResult, DownloadVideo, DownloadThumbnail, Goto, Calls,
                           RunBounded, Limit, Durations, time
<1>11. CASE Succeed \/ MarkFailed \/ Crash \/ FailCrashed
  BY <1>1, <1>2, <1>11 DEF ClockInv, Succeed, MarkFailed, Crash, FailCrashed, Goto, Calls,
                           RunBounded, time
<1>12. CASE WriteFails \/ \E step \in Calls : CallFails(step)
  BY <1>1, <1>2, <1>12 DEF ClockInv, WriteFails, CallFails, Raise, Goto, Calls, RunBounded, time
<1>13. CASE RemoteMoves
  BY <1>1, <1>2, <1>13 DEF ClockInv, RemoteMoves, RunBounded
<1>14. CASE Tick
  BY <1>1, <1>2, <1>14 DEF ClockInv, Tick, Calls, RunBounded, Limit, Durations
<1>15. QED
  BY <1>3, <1>4, <1>5, <1>6, <1>7, <1>8, <1>9, <1>10, <1>11, <1>12, <1>13, <1>14
  DEF Next, Step, Worker, Ended

-----------------------------------------------------------------------------
LEMMA SpecInv ==
  ASSUME Durations
  PROVE  Spec => [](Inv /\ ClockInv)
<1>1. Init => Inv /\ ClockInv
  BY InitInv, ClockInit
<1>2. Inv /\ ClockInv /\ [Next]_vars => (Inv /\ ClockInv)'
  BY NextKeeps, ClockNext
<1>3. QED
  BY <1>1, <1>2, PTL DEF Spec

\* A run's state has its type: progress stays a percentage, and a failed job's
\* code is one of the five (provider_error_code, WORKER_CRASHED).
THEOREM RunTypeCorrect == ASSUME Durations PROVE Spec => []TypeOK
<1>1. Inv => TypeOK
  BY DEF Inv
<1>2. QED
  BY <1>1, SpecInv, PTL

\* A job becomes SUCCEEDED only when the provider completed it and, with OpenAI,
\* the video is stored (OpenAIVideoGenerationProvider.generate downloads before it returns); a row without
\* provider_job_id is of a run that ended before its first report, the window the code
\* leaves open between the answer to its submission and _record_progress; and fal's own
\* deadline gives up only a job last read as pending.
THEOREM RowMatches == ASSUME Durations PROVE Spec => []RowMatchesRun
<1>1. Inv => RowMatchesRun
  BY DEF Inv, RowFollows, RowMatchesRun
<1>2. QED
  BY <1>1, SpecInv, PTL

\* How long generate occupies a worker, for every limit, interval and duration
\* of a call: the deadline alone (max_wait_seconds) does not bound it.
THEOREM RunIsBounded == ASSUME Durations PROVE Spec => []RunBounded
<1>1. ClockInv => RunBounded
  BY DEF ClockInv
<1>2. QED
  BY <1>1, SpecInv, PTL

\* The progress a client polls never goes back (update_generation_progress
\* keeps the larger value).
THEOREM ProgressKept ==
  ASSUME Durations PROVE Spec => [][row'.progress >= row.progress]_vars
<1>1. Inv /\ [Next]_vars => [row'.progress >= row.progress]_vars
  BY NextKeeps
<1>2. QED
  BY <1>1, SpecInv, PTL DEF Spec

-----------------------------------------------------------------------------
(* What VideoGeneration assumes of a run.                                  *)

\* Its RecordProgress, Mark and FailCrashed: reports while the row is RUNNING, one result.
RowStep ==
  /\ row.status = "RUNNING"
  /\ \/ row'.status \in {"RUNNING", "FAILED"} /\ row'.progress \in row.progress .. 99
     \/ row'.status = "SUCCEEDED" /\ row'.progress = 100

Unfinished == row.status = "RUNNING" => row.progress <= 99

LEMMA Records ==
  ASSUME Inv, Unfinished, pc # "end", NEW p \in Nat
  PROVE  /\ Recorded(row, p) \in JobRows
         /\ Recorded(row, p).status = "RUNNING" /\ Recorded(row, p).progress \in row.progress .. 99
<1>1. row \in JobRows /\ row.status = "RUNNING"
  BY InvRow
<1>2. /\ Recorded(row, p) \in JobRows /\ Recorded(row, p).status = "RUNNING"
      /\ Recorded(row, p).progress = IF Lowest(p) > row.progress THEN Lowest(p) ELSE row.progress
  BY <1>1, RecordedRow DEF Recorded, JobRows
<1>3. Lowest(p) \in 1 .. 99 /\ row.progress \in 0 .. 99
  BY <1>1 DEF Lowest, Unfinished, JobRows
<1>4. QED
  BY <1>2, <1>3

LEMMA NextIsRowStep ==
  ASSUME Inv, Unfinished, [Next]_vars
  PROVE  RowStep \/ row' = row
<1>1. CASE Accepted \/ Report
  <2>1. pc # "end" /\ \E p \in Nat : row' = Recorded(row, p)
    BY <1>1 DEF Accepted, Report, FirstReport, Progress, OpenAIProgress, FalProgress
  <2>2. QED
    BY <2>1, Records, InvRow DEF RowStep
<1>2. CASE MarkFailed
  <2>1. row' = Failed(row, raised) /\ pc # "end" /\ raised \in Messages
    BY <1>2 DEF MarkFailed, Inv, TypeOK
  <2>2. QED
    BY <2>1, InvRow, FailedRow DEF RowStep, Unfinished, JobRows
<1>3. CASE Succeed
  <2>1. row' = [row EXCEPT !.status = "SUCCEEDED", !.progress = 100, !.id = TRUE] /\ pc # "end"
    BY <1>3 DEF Succeed
  <2>2. QED
    BY <2>1, InvRow DEF RowStep, JobRows
<1>4. CASE FailCrashed
  <2>1. row' = [row EXCEPT !.status = "FAILED", !.error = "WORKER_CRASHED"] /\ pc # "end"
    BY <1>4 DEF FailCrashed
  <2>2. QED
    BY <2>1, InvRow DEF RowStep, Unfinished, JobRows
<1>5. CASE UNCHANGED row
  BY <1>5
<1>6. ASSUME WriteFails \/ Check \/ \E step \in Calls : CallFails(step) PROVE row' = row
  BY <1>6 DEF WriteFails, Check, CallFails, Raise
<1>7. CASE \/ Submit \/ SubmitAnswerLost \/ Retrieve \/ Wake \/ GetResult \/ DownloadVideo
           \/ DownloadThumbnail \/ Crash \/ RemoteMoves \/ Tick
  BY <1>7 DEF Submit, SubmitAnswerLost, Retrieve, Wake, GetResult, DownloadVideo,
              DownloadThumbnail, Crash, RemoteMoves, Tick
<1>8. QED
  BY <1>1, <1>2, <1>3, <1>4, <1>5, <1>6, <1>7 DEF Next, Step, Worker, Ended, vars

\* A run changes its row the way the workers of VideoGeneration do, whatever the provider, its
\* answers and failures: progress is reported from 1 to 99 and never goes back, the row is settled
\* by one write, a success says 100, and nothing is written after it (update_generation_progress,
\* mark_generation_succeeded, mark_generation_failed).
THEOREM RunsLikeAWorker == ASSUME Durations PROVE Spec => [][RowStep]_row
<1>1. Init => Unfinished
  BY DEF Init, Unfinished
<1>2. Inv /\ Unfinished /\ [Next]_vars => Unfinished' /\ [RowStep]_row
  <2> SUFFICES ASSUME Inv, Unfinished, [Next]_vars PROVE Unfinished' /\ [RowStep]_row
    OBVIOUS
  <2>1. RowStep => Unfinished'
    BY InvRow DEF RowStep, Unfinished
  <2>2. QED
    BY <2>1, NextIsRowStep DEF Unfinished
<1>3. QED
  BY <1>1, <1>2, SpecInv, PTL DEF Spec
=============================================================================
