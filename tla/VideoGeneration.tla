---------------------------- MODULE VideoGeneration ----------------------------
(***************************************************************************)
(* The video generation pipeline: API processes that accept, cancel and    *)
(* delete, the Redis stream that carries job ids, the workers that claim   *)
(* and run jobs, and the movies / video_generation_jobs tables they share. *)
(*                                                                         *)
(* A step is one database commit, one Redis command or one read that a     *)
(* later write depends on: that is where two processes interleave.  The    *)
(* database is MySQL at REPEATABLE READ and a session expires nothing on   *)
(* commit (app/db/session.py), so                                          *)
(*   - a read made inside an open transaction returns the row as it was    *)
(*     when the transaction's first SELECT ran (saw, sawMovie, apiSaw);    *)
(*   - an UPDATE names only the columns whose value differs from the one   *)
(*     loaded, is conditioned on the primary key alone and overwrites      *)
(*     whatever was committed meanwhile; on a deleted row it raises        *)
(*     StaleDataError.                                                     *)
(***************************************************************************)
EXTENDS Naturals, Sequences, FiniteSets

CONSTANTS
  Movies, Workers, Apis,   \* movie ids, worker processes, API processes
  NoMovie,                 \* the movie of a job id not yet used
  MaxJobs,                 \* bound: job rows ever created
  MaxCrashes,              \* bound: kills of worker processes
  ReclaimCount,            \* video_generation_reclaim_count
  Reported,                \* progress values a provider reports
  ApiMayAbort,             \* an API request may die between two commits
  IdleCoversRun,           \* min_idle_ms outlasts any live worker's hold
  GroupAtStart             \* the consumer group exists from the start

ASSUME MaxJobsAssumption == MaxJobs \in Nat
ASSUME MaxCrashesAssumption == MaxCrashes \in Nat
ASSUME NoMovieAssumption == NoMovie \notin Movies
ASSUME ReportedAssumption == Reported \subseteq Nat
ASSUME SwitchesAssumption ==
  ApiMayAbort \in BOOLEAN /\ IdleCoversRun \in BOOLEAN /\ GroupAtStart \in BOOLEAN

JobIds == 1..MaxJobs
NoJob  == 0

MovieStatus == {"DRAFT", "GENERATING", "COMPLETED", "FAILED"}
IN_PROGRESS_STATUSES == {"QUEUED", "RUNNING"}
JobStatus == IN_PROGRESS_STATUSES \cup {"SUCCEEDED", "FAILED", "CANCELED"}
NoRow == {"ABSENT", "DELETED"}     \* before the INSERT, after the DELETE

VARIABLES
  movieStatus, promptReady,        \* movies: status, generation_prompt set
  jobMovie, jobStatus, progress, startedAt,    \* video_generation_jobs
  nextJob,                         \* its AUTO_INCREMENT
  group, undelivered, pel,         \* stream: group made, new entries, pending
  apiPc, apiMovie, apiJob, apiSaw, \* an API process and the status it loaded
  pc, todo, job, reclaimed,        \* a worker and the entries it holds
  saw, sawMovie, outcome,          \* its open transaction and its result
  calls,                           \* history: provider.generate per job
  crashes                          \* kills so far

movieVars  == <<movieStatus, promptReady>>
jobVars    == <<jobMovie, jobStatus, progress, startedAt, nextJob>>
streamVars == <<group, undelivered, pel>>
apiVars    == <<apiPc, apiMovie, apiJob, apiSaw>>
holdVars   == <<todo, job, reclaimed>>
readVars   == <<saw, sawMovie, outcome>>
workerVars == <<pc, holdVars, readVars, calls, crashes>>
vars == <<movieVars, jobVars, streamVars, apiVars, workerVars>>

ApiPcs    == {"idle", "create", "enqueue", "generating", "cancel", "draft"}
WorkerPcs == {"down", "reclaim", "batch", "reclaimed", "claim", "claimed",
              "running", "refresh", "orphaned", "failCrashed", "marked",
              "movie", "ack"}

Unread == [status |-> "NONE", progress |-> 0]

MovieTypes ==
  /\ movieStatus \in [Movies -> MovieStatus \cup NoRow]
  /\ promptReady \in [Movies -> BOOLEAN]

JobTypes ==
  /\ jobMovie \in [JobIds -> Movies \cup {NoMovie}]
  /\ jobStatus \in [JobIds -> JobStatus \cup NoRow]
  /\ progress \in [JobIds -> 0..100]
  /\ startedAt \in [JobIds -> BOOLEAN]
  /\ nextJob \in 1..(MaxJobs + 1)

StreamTypes ==
  /\ group \in BOOLEAN
  /\ undelivered \in Seq(JobIds)
  /\ pel \in SUBSET JobIds

ApiTypes ==
  /\ apiPc \in [Apis -> ApiPcs]
  /\ apiMovie \in [Apis -> Movies \cup {NoMovie}]
  /\ apiJob \in [Apis -> JobIds \cup {NoJob}]
  /\ apiSaw \in [Apis -> MovieStatus \cup {"NONE"}]

WorkerTypes ==
  /\ pc \in [Workers -> WorkerPcs]
  /\ todo \in [Workers -> SUBSET JobIds]
  /\ job \in [Workers -> JobIds \cup {NoJob}]
  /\ reclaimed \in [Workers -> BOOLEAN]
  /\ saw \in [Workers -> [status : JobStatus \cup {"NONE"}, progress : 0..100]]
  /\ sawMovie \in [Workers -> MovieStatus \cup {"NONE"}]
  /\ outcome \in [Workers -> {"NONE", "SUCCEEDED", "FAILED"}]

CountTypes == calls \in [JobIds -> Nat] /\ crashes \in 0..MaxCrashes

TypeOK ==
  MovieTypes /\ JobTypes /\ StreamTypes /\ ApiTypes /\ WorkerTypes /\ CountTypes

NoMovies ==
  /\ movieStatus = [m \in Movies |-> "ABSENT"]
  /\ promptReady = [m \in Movies |-> FALSE]

NothingStarted ==
  /\ jobMovie = [j \in JobIds |-> NoMovie]
  /\ jobStatus = [j \in JobIds |-> "ABSENT"]
  /\ progress = [j \in JobIds |-> 0]
  /\ startedAt = [j \in JobIds |-> FALSE]
  /\ nextJob = 1
  /\ group = GroupAtStart
  /\ undelivered = <<>>
  /\ pel = {}
  /\ apiPc = [a \in Apis |-> "idle"]
  /\ apiMovie = [a \in Apis |-> NoMovie]
  /\ apiJob = [a \in Apis |-> NoJob]
  /\ apiSaw = [a \in Apis |-> "NONE"]
  /\ pc = [w \in Workers |-> "down"]
  /\ todo = [w \in Workers |-> {}]
  /\ job = [w \in Workers |-> NoJob]
  /\ reclaimed = [w \in Workers |-> FALSE]
  /\ saw = [w \in Workers |-> Unread]
  /\ sawMovie = [w \in Workers |-> "NONE"]
  /\ outcome = [w \in Workers |-> "NONE"]
  /\ calls = [j \in JobIds |-> 0]
  /\ crashes = 0

Init == NoMovies /\ NothingStarted

-----------------------------------------------------------------------------
(* Rows.                                                                   *)

MovieExists(m) == movieStatus[m] \notin NoRow
JobExists(j)   == jobStatus[j] \notin NoRow

\* get_in_progress_by_movie_id, and (for a mutation run) one that forgets RUNNING.
QueuedOnly(m) == {j \in JobIds : jobMovie[j] = m /\ jobStatus[j] = "QUEUED"}
InProgress(m) == {j \in JobIds : jobMovie[j] = m /\ jobStatus[j] \in IN_PROGRESS_STATUSES}

\* UPDATE movies SET status: emitted only when the new value differs from the
\* loaded one.
WriteMovieStatus(m, loaded, new) ==
  movieStatus' = IF loaded = new THEN movieStatus ELSE [movieStatus EXCEPT ![m] = new]

clamp_running_progress(p) == IF p < 1 THEN 1 ELSE IF p > 99 THEN 99 ELSE p

\* The value update_generation_progress stores, and (mutation) without its max.
LatestReport(old, p) == clamp_running_progress(p)
NewProgress(old, p) ==
  IF clamp_running_progress(p) > old THEN clamp_running_progress(p) ELSE old

-----------------------------------------------------------------------------
(* API process.  The video handlers await nothing, so inside one process   *)
(* they exclude each other and every other handler.                        *)

ApiReturns(a) ==
  /\ apiPc' = [apiPc EXCEPT ![a] = "idle"]
  /\ apiMovie' = [apiMovie EXCEPT ![a] = NoMovie]
  /\ apiJob' = [apiJob EXCEPT ![a] = NoJob]
  /\ apiSaw' = [apiSaw EXCEPT ![a] = "NONE"]

CreateDraft(a, m) ==
  /\ apiPc[a] = "idle"
  /\ movieStatus[m] = "ABSENT"
  /\ movieStatus' = [movieStatus EXCEPT ![m] = "DRAFT"]
  /\ UNCHANGED <<promptReady, jobVars, streamVars, apiVars, workerVars>>

\* finalize-story stores a generation_prompt, a chat turn clears it; neither
\* touches movies.status.
WriteStory(a, m, ready) ==
  /\ apiPc[a] = "idle"
  /\ MovieExists(m)
  /\ promptReady' = [promptReady EXCEPT ![m] = ready]
  /\ UNCHANGED <<movieStatus, jobVars, streamVars, apiVars, workerVars>>

\* request_generation, its checks: all read in one transaction.
RequestGeneration(a, m) ==
  /\ apiPc[a] = "idle"
  /\ nextJob + Cardinality({b \in Apis : apiPc[b] = "create"}) <= MaxJobs
  /\ MovieExists(m)
  /\ promptReady[m]
  /\ InProgress(m) = {}
  /\ apiPc' = [apiPc EXCEPT ![a] = "create"]
  /\ apiMovie' = [apiMovie EXCEPT ![a] = m]
  /\ apiSaw' = [apiSaw EXCEPT ![a] = movieStatus[m]]
  /\ UNCHANGED <<apiJob, movieVars, jobVars, streamVars, workerVars>>

\* job_repository.create commits the row; the foreign key refuses it when
\* another process deleted the movie.
CreateJob(a) ==
  /\ apiPc[a] = "create"
  /\ \/ /\ MovieExists(apiMovie[a])
        /\ nextJob <= MaxJobs
        /\ jobMovie' = [jobMovie EXCEPT ![nextJob] = apiMovie[a]]
        /\ jobStatus' = [jobStatus EXCEPT ![nextJob] = "QUEUED"]
        /\ nextJob' = nextJob + 1
        /\ apiPc' = [apiPc EXCEPT ![a] = "enqueue"]
        /\ apiJob' = [apiJob EXCEPT ![a] = nextJob]
        /\ UNCHANGED <<apiMovie, apiSaw, progress, startedAt>>
     \/ /\ ~MovieExists(apiMovie[a])
        /\ ApiReturns(a)
        /\ UNCHANGED jobVars
  /\ UNCHANGED <<movieVars, streamVars, workerVars>>

\* XADD.  create ends with a refresh of the row, which raises if the row is
\* already deleted: the request then ends without enqueueing.
EnqueueJob(a) ==
  /\ apiPc[a] = "enqueue"
  /\ \/ /\ undelivered' = Append(undelivered, apiJob[a])
        /\ apiPc' = [apiPc EXCEPT ![a] = "generating"]
        /\ UNCHANGED <<apiMovie, apiJob, apiSaw>>
     \/ /\ ~JobExists(apiJob[a])
        /\ ApiReturns(a)
        /\ UNCHANGED undelivered
  /\ UNCHANGED <<group, pel, movieVars, jobVars, workerVars>>

\* The last commit of request_generation: movie.status = GENERATING.
MovieGenerating(a) ==
  /\ apiPc[a] = "generating"
  /\ IF MovieExists(apiMovie[a])
       THEN WriteMovieStatus(apiMovie[a], apiSaw[a], "GENERATING")
       ELSE UNCHANGED movieStatus
  /\ ApiReturns(a)
  /\ UNCHANGED <<promptReady, jobVars, streamVars, workerVars>>

\* cancel_generation: reads the movie and its newest in-progress job.
CancelGeneration(a, m) ==
  /\ apiPc[a] = "idle"
  /\ MovieExists(m)
  /\ \E j \in InProgress(m) :
       /\ \A i \in InProgress(m) : i <= j
       /\ apiJob' = [apiJob EXCEPT ![a] = j]
  /\ apiPc' = [apiPc EXCEPT ![a] = "cancel"]
  /\ apiMovie' = [apiMovie EXCEPT ![a] = m]
  /\ apiSaw' = [apiSaw EXCEPT ![a] = movieStatus[m]]
  /\ UNCHANGED <<movieVars, jobVars, streamVars, workerVars>>

\* Its first commit; a deleted row ends the request with a conflict error.
CancelJob(a) ==
  /\ apiPc[a] = "cancel"
  /\ \/ /\ JobExists(apiJob[a])
        /\ jobStatus' = [jobStatus EXCEPT ![apiJob[a]] = "CANCELED"]
        /\ apiPc' = [apiPc EXCEPT ![a] = "draft"]
        /\ UNCHANGED <<apiMovie, apiJob, apiSaw>>
     \/ /\ ~JobExists(apiJob[a])
        /\ ApiReturns(a)
        /\ UNCHANGED jobStatus
  /\ UNCHANGED <<jobMovie, progress, startedAt, nextJob, movieVars, streamVars, workerVars>>

\* Its second commit: movie.status = DRAFT.
MovieDraft(a) ==
  /\ apiPc[a] = "draft"
  /\ IF MovieExists(apiMovie[a])
       THEN WriteMovieStatus(apiMovie[a], apiSaw[a], "DRAFT")
       ELSE UNCHANGED movieStatus
  /\ ApiReturns(a)
  /\ UNCHANGED <<promptReady, jobVars, streamVars, workerVars>>

\* delete_movie: the foreign key deletes the movie's jobs with it.
DeleteMovie(a, m) ==
  /\ apiPc[a] = "idle"
  /\ MovieExists(m)
  /\ movieStatus' = [movieStatus EXCEPT ![m] = "DELETED"]
  /\ jobStatus' = [j \in JobIds |->
                     IF jobMovie[j] = m /\ JobExists(j) THEN "DELETED" ELSE jobStatus[j]]
  /\ UNCHANGED <<promptReady, jobMovie, progress, startedAt, nextJob,
                 streamVars, apiVars, workerVars>>

\* The process is killed, or a database or Redis call raises (HTTP 500):
\* nothing undoes the commits already made.
ApiAborts(a) ==
  /\ ApiMayAbort
  /\ apiPc[a] # "idle"
  /\ ApiReturns(a)
  /\ UNCHANGED <<movieVars, jobVars, streamVars, workerVars>>

\* The steps of a request under way, and the steps that begin one.
ApiContinues(a) ==
  \/ CreateJob(a) \/ EnqueueJob(a) \/ MovieGenerating(a)
  \/ CancelJob(a) \/ MovieDraft(a)

ApiNext(a) ==
  \/ ApiContinues(a)
  \/ ApiAborts(a)
  \/ \E m \in Movies :
       \/ RequestGeneration(a, m) \/ CancelGeneration(a, m)
       \/ CreateDraft(a, m) \/ DeleteMovie(a, m)
       \/ \E ready \in BOOLEAN : WriteStory(a, m, ready)

-----------------------------------------------------------------------------
(* Worker process: ensure_group once, then forever process_batch: reclaim  *)
(* a batch, handle it one entry at a time, consume one new entry, handle   *)
(* it.  Handling an entry ends with its ack or with the end of the process *)
(* (run_forever catches nothing).                                          *)

Goto(w, p) == pc' = [pc EXCEPT ![w] = p]

\* The session of the entry is closed and its objects forgotten.
CloseSession(w) ==
  /\ job' = [job EXCEPT ![w] = NoJob]
  /\ saw' = [saw EXCEPT ![w] = Unread]
  /\ sawMovie' = [sawMovie EXCEPT ![w] = "NONE"]
  /\ outcome' = [outcome EXCEPT ![w] = "NONE"]
  /\ reclaimed' = [reclaimed EXCEPT ![w] = FALSE]

\* The process ends; its entries stay in the group's pending list.
Exit(w) ==
  /\ Goto(w, "down")
  /\ CloseSession(w)
  /\ todo' = [todo EXCEPT ![w] = {}]

Held(w) == todo[w] \cup ({job[w]} \ {NoJob})

\* ensure_group creates the group at "$": entries already in the stream are
\* never delivered to it.
Start(w) ==
  /\ pc[w] = "down"
  /\ Goto(w, "reclaim")
  /\ group' = TRUE
  /\ undelivered' = IF group THEN undelivered ELSE <<>>
  /\ UNCHANGED <<pel, movieVars, jobVars, apiVars, holdVars, readVars, calls, crashes>>

\* The entries XAUTOCLAIM may return, and (mutations) with a min_idle shorter
\* than a run, and without reclaiming at all.
AnyPending == pel
NothingReclaimed == {}
Reclaimable ==
  IF IdleCoversRun THEN pel \ UNION {Held(v) : v \in Workers} ELSE pel

\* XAUTOCLAIM: at most ReclaimCount of the entries idle long enough, without
\* asking whether the consumer that holds them is alive.  How long an entry
\* has been idle is left open here (VideoGenerationTimed.tla counts it), and
\* so is the order in which a batch is handled.
Reclaim(w, batch) ==
  /\ pc[w] = "reclaim"
  /\ batch \subseteq Reclaimable
  /\ Cardinality(batch) <= ReclaimCount
  /\ todo' = [todo EXCEPT ![w] = batch]
  /\ Goto(w, "batch")
  /\ UNCHANGED <<job, reclaimed, readVars, calls, crashes,
                 movieVars, jobVars, streamVars, apiVars>>

TakeReclaimed(w) ==
  /\ pc[w] = "batch"
  /\ \E j \in todo[w] :
       /\ todo' = [todo EXCEPT ![w] = @ \ {j}]
       /\ job' = [job EXCEPT ![w] = j]
  /\ reclaimed' = [reclaimed EXCEPT ![w] = TRUE]
  /\ Goto(w, "reclaimed")
  /\ UNCHANGED <<readVars, calls, crashes, movieVars, jobVars, streamVars, apiVars>>

\* XREADGROUP ">" with count 1.
Consume(w) ==
  /\ pc[w] = "batch"
  /\ todo[w] = {}
  /\ undelivered # <<>>
  /\ job' = [job EXCEPT ![w] = Head(undelivered)]
  /\ undelivered' = Tail(undelivered)
  /\ pel' = pel \cup {Head(undelivered)}
  /\ reclaimed' = [reclaimed EXCEPT ![w] = FALSE]
  /\ Goto(w, "claim")
  /\ UNCHANGED <<group, todo, readVars, calls, crashes, movieVars, jobVars, apiVars>>

ConsumeNothing(w) ==
  /\ pc[w] = "batch"
  /\ todo[w] = {}
  /\ undelivered = <<>>
  /\ Goto(w, "reclaim")
  /\ UNCHANGED <<holdVars, readVars, calls, crashes, movieVars, jobVars, streamVars, apiVars>>

\* _process_reclaimed: get_job opens the transaction mark_generation_failed
\* reads in; a QUEUED job goes on to be claimed.
ReadReclaimed(w) ==
  /\ pc[w] = "reclaimed"
  /\ \/ /\ jobStatus[job[w]] = "RUNNING"
        /\ saw' = [saw EXCEPT ![w] = [status |-> "RUNNING", progress |-> progress[job[w]]]]
        /\ Goto(w, "failCrashed")
     \/ /\ jobStatus[job[w]] = "QUEUED"
        /\ Goto(w, "claim")
        /\ UNCHANGED saw
     \/ /\ jobStatus[job[w]] \notin IN_PROGRESS_STATUSES
        /\ Goto(w, "ack")
        /\ UNCHANGED saw
  /\ UNCHANGED <<holdVars, sawMovie, outcome, calls, crashes,
                 movieVars, jobVars, streamVars, apiVars>>

\* The WHERE clause of repository.claim, and (mutations) weaker ones.
Unsettled(j) == jobStatus[j] \in IN_PROGRESS_STATUSES
Claimable(j) == jobStatus[j] = "QUEUED"

\* repository.claim: UPDATE ... WHERE status = QUEUED, and the commit.
Claim(w) ==
  /\ pc[w] = "claim"
  /\ \/ /\ Claimable(job[w])
        /\ jobStatus' = [jobStatus EXCEPT ![job[w]] = "RUNNING"]
        /\ progress' = [progress EXCEPT ![job[w]] = 1]
        /\ startedAt' = [startedAt EXCEPT ![job[w]] = TRUE]
        /\ Goto(w, "claimed")
     \/ /\ ~Claimable(job[w])
        /\ Goto(w, "ack")
        /\ UNCHANGED <<jobStatus, progress, startedAt>>
  /\ UNCHANGED <<jobMovie, nextJob, holdVars, readVars, calls, crashes,
                 movieVars, streamVars, apiVars>>

\* claim ends by reading the row back, which opens the transaction the first
\* status check of the run reads in; then provider.generate is called.
StartProvider(w) ==
  /\ pc[w] = "claimed"
  /\ \/ /\ JobExists(job[w])
        /\ saw' = [saw EXCEPT ![w] = [status |-> jobStatus[job[w]],
                                      progress |-> progress[job[w]]]]
        /\ calls' = [calls EXCEPT ![job[w]] = @ + 1]
        /\ Goto(w, "running")
     \/ /\ ~JobExists(job[w])
        /\ Goto(w, "ack")
        /\ UNCHANGED <<saw, calls>>
  /\ UNCHANGED <<holdVars, sawMovie, outcome, crashes,
                 movieVars, jobVars, streamVars, apiVars>>

\* _record_progress, up to its commit.  A status other than RUNNING raises an
\* AppError that is swallowed and leaves the transaction open: no step.  On a
\* deleted row the session is rolled back, which expires the claimed job
\* object that the rest of the run still uses.
RecordProgress(w, p) ==
  /\ pc[w] = "running"
  /\ saw[w].status = "RUNNING"
  /\ LET new == NewProgress(saw[w].progress, p)
     IN \/ /\ JobExists(job[w])
           /\ progress' = IF new = saw[w].progress THEN progress
                          ELSE [progress EXCEPT ![job[w]] = new]
           /\ Goto(w, "refresh")
        \/ /\ ~JobExists(job[w])
           /\ Goto(w, "orphaned")
           /\ UNCHANGED progress
  /\ UNCHANGED <<jobMovie, jobStatus, startedAt, nextJob, holdVars, readVars, calls, crashes,
                 movieVars, streamVars, apiVars>>

\* The refresh after that commit opens the next transaction.
Refresh(w) ==
  /\ pc[w] = "refresh"
  /\ \/ /\ JobExists(job[w])
        /\ saw' = [saw EXCEPT ![w] = [status |-> jobStatus[job[w]],
                                      progress |-> progress[job[w]]]]
        /\ Goto(w, "running")
     \/ /\ ~JobExists(job[w])
        /\ Goto(w, "orphaned")
        /\ UNCHANGED saw
  /\ UNCHANGED <<holdVars, sawMovie, outcome, calls, crashes,
                 movieVars, jobVars, streamVars, apiVars>>

\* The next use of the expired object (job.id) loads a row that is gone.  The
\* error is no AppError: it ends the process.
OrphanExits(w) ==
  /\ pc[w] = "orphaned"
  /\ Exit(w)
  /\ UNCHANGED <<calls, crashes, movieVars, jobVars, streamVars, apiVars>>

MarkAllowed(status, result) ==
  status = "RUNNING" \/ (result = "FAILED" /\ status = "QUEUED")

WriteOutcome(j, result) ==
  /\ jobStatus' = [jobStatus EXCEPT ![j] = result]
  /\ progress' = IF result = "SUCCEEDED" THEN [progress EXCEPT ![j] = 100] ELSE progress

\* provider.generate returned or raised: mark_generation_succeeded or
\* mark_generation_failed up to the job's commit.  The status check reads the
\* open transaction.  On a deleted row the conflict is logged with the expired
\* job.id, which ends the process.
Mark(w, result) ==
  /\ pc[w] = "running"
  /\ \/ /\ MarkAllowed(saw[w].status, result)
        /\ JobExists(job[w])
        /\ WriteOutcome(job[w], result)
        /\ outcome' = [outcome EXCEPT ![w] = result]
        /\ Goto(w, "marked")
        /\ UNCHANGED <<holdVars, saw, sawMovie>>
     \/ /\ MarkAllowed(saw[w].status, result)
        /\ ~JobExists(job[w])
        /\ Exit(w)
        /\ UNCHANGED <<jobStatus, progress>>
     \/ /\ ~MarkAllowed(saw[w].status, result)
        /\ Goto(w, "ack")
        /\ UNCHANGED <<jobStatus, progress, holdVars, readVars>>
  /\ UNCHANGED <<jobMovie, startedAt, nextJob, calls, crashes, movieVars, streamVars, apiVars>>

\* _fail_crashed: the same update for a reclaimed RUNNING job; here a conflict
\* is logged and skipped.
FailCrashed(w) ==
  /\ pc[w] = "failCrashed"
  /\ \/ /\ JobExists(job[w])
        /\ WriteOutcome(job[w], "FAILED")
        /\ outcome' = [outcome EXCEPT ![w] = "FAILED"]
        /\ Goto(w, "marked")
     \/ /\ ~JobExists(job[w])
        /\ Goto(w, "ack")
        /\ UNCHANGED <<jobStatus, progress, outcome>>
  /\ UNCHANGED <<jobMovie, startedAt, nextJob, holdVars, saw, sawMovie, calls, crashes,
                 movieVars, streamVars, apiVars>>

\* The refresh after the job's commit opens the transaction the movie is read
\* in; a row deleted meanwhile raises and ends the process.
RefreshMarked(w) ==
  /\ pc[w] = "marked"
  /\ \/ /\ JobExists(job[w])
        /\ sawMovie' = [sawMovie EXCEPT ![w] = movieStatus[jobMovie[job[w]]]]
        /\ Goto(w, "movie")
        /\ UNCHANGED <<holdVars, saw, outcome>>
     \/ /\ ~JobExists(job[w])
        /\ Exit(w)
  /\ UNCHANGED <<calls, crashes, movieVars, jobVars, streamVars, apiVars>>

\* The movie status of a result, and (mutations) the job's own word for it and one that is
\* always good news.
JobStatusOf(result) == result
CompletedAnyway(result) == "COMPLETED"
MovieStatusOf(result) == IF result = "SUCCEEDED" THEN "COMPLETED" ELSE "FAILED"

\* movie_repository.update: its StaleDataError (or failed refresh) on a deleted
\* movie is not caught and ends the process.
UpdateMovie(w) ==
  /\ pc[w] = "movie"
  /\ \/ /\ MovieExists(jobMovie[job[w]])
        /\ WriteMovieStatus(jobMovie[job[w]], sawMovie[w], MovieStatusOf(outcome[w]))
        /\ Goto(w, "ack")
        /\ UNCHANGED <<holdVars, readVars>>
     \/ /\ ~MovieExists(jobMovie[job[w]])
        /\ Exit(w)
        /\ UNCHANGED movieStatus
  /\ UNCHANGED <<promptReady, calls, crashes, jobVars, streamVars, apiVars>>

\* XACK and XDEL: they address the entry, whoever its consumer is by now.
Ack(w) ==
  /\ pc[w] = "ack"
  /\ pel' = pel \ {job[w]}
  /\ Goto(w, IF reclaimed[w] THEN "batch" ELSE "reclaim")
  /\ CloseSession(w)
  /\ UNCHANGED <<todo, calls, crashes, group, undelivered,
                 movieVars, jobVars, apiVars>>

\* The process is killed anywhere.
Crash(w) ==
  /\ pc[w] # "down"
  /\ crashes < MaxCrashes
  /\ crashes' = crashes + 1
  /\ Exit(w)
  /\ UNCHANGED <<calls, movieVars, jobVars, streamVars, apiVars>>

WorkerNext(w) ==
  \/ Start(w)
  \/ \E batch \in SUBSET Reclaimable : Reclaim(w, batch)
  \/ TakeReclaimed(w) \/ Consume(w) \/ ConsumeNothing(w)
  \/ ReadReclaimed(w) \/ Claim(w) \/ StartProvider(w)
  \/ \E p \in Reported : RecordProgress(w, p)
  \/ Refresh(w) \/ OrphanExits(w)
  \/ \E result \in {"SUCCEEDED", "FAILED"} : Mark(w, result)
  \/ FailCrashed(w) \/ RefreshMarked(w) \/ UpdateMovie(w) \/ Ack(w)

Next ==
  \/ \E a \in Apis : ApiNext(a)
  \/ \E w \in Workers : WorkerNext(w) \/ Crash(w)

Spec == Init /\ [][Next]_vars

\* Fairness.  The production compose file restarts dead processes (unless-stopped),
\* the worker loop never waits for ever (block_ms), and an API request that was
\* begun is finished when nothing kills it.  A provider polls at most max_wait
\* before it returns or raises (Mark) although its progress callback keeps
\* interrupting it; an entry no live worker holds grows older until every poll
\* would return it (Reclaim): both are enabled again and again, not for ever.
Fairness ==
  /\ \A a \in Apis : WF_vars(ApiContinues(a))
  /\ \A w \in Workers :
       /\ WF_vars(WorkerNext(w))
       /\ SF_vars(\E result \in {"SUCCEEDED", "FAILED"} : Mark(w, result))
  /\ \A j \in JobIds :
       SF_vars(\E w \in Workers, batch \in SUBSET Reclaimable : j \in batch /\ Reclaim(w, batch))

FairSpec == Spec /\ Fairness

-----------------------------------------------------------------------------
(* Properties.                                                             *)

\* From the commit of the claim to the moment the run is over or abandoned.
Executing(w) == pc[w] \in {"claimed", "running", "refresh", "orphaned"}

\* No two live workers run the same job, whatever was redelivered to whom:
\* the conditional UPDATE of repository.claim lets exactly one through
\* (video_generation_job_repository.py:122-144).
OneRunner ==
  \A v, w \in Workers :
    v # w /\ Executing(v) /\ Executing(w) => job[v] # job[w]

\* The paid provider call is made at most once per job over all deliveries,
\* reclaims and crashes (video_generation_worker_service.py:71-75).
ProviderAtMostOnce == \A j \in JobIds : calls[j] <= 1

\* A process past the first step of a request or of an entry holds its ids.
ApiHandles ==
  \A a \in Apis :
    /\ apiPc[a] # "idle" => apiMovie[a] \in Movies
    /\ apiPc[a] \notin {"idle", "create"} => apiJob[a] \in JobIds

WorkerHandles ==
  \A w \in Workers : pc[w] \notin {"down", "reclaim", "batch"} => job[w] \in JobIds

\* A job row never outlives its movie: deletion cascades, and an INSERT after
\* it is refused (the foreign key of video_generation_job.py:42-46).
ForeignKey ==
  \A j \in JobIds : JobExists(j) => jobMovie[j] \in Movies /\ MovieExists(jobMovie[j])

\* What makes the two hold: only an unclaimed row can be claimed, its claim is
\* spent by one worker that has not called the provider yet, and only a claimed
\* job is failed as crashed.
ClaimDiscipline ==
  /\ \A j \in JobIds : jobStatus[j] \in {"ABSENT", "QUEUED"} => ~startedAt[j]
  /\ \A j \in JobIds : jobStatus[j] = "RUNNING" => startedAt[j]
  /\ \A j \in JobIds : ~startedAt[j] => calls[j] = 0
  /\ \A j \in JobIds : j >= nextJob => jobStatus[j] = "ABSENT"
  /\ \A w \in Workers : Executing(w) \/ pc[w] = "failCrashed" => startedAt[job[w]]
  /\ \A w \in Workers : pc[w] = "claimed" => calls[job[w]] = 0
  /\ \A w \in Workers : pc[w] \in {"running", "refresh", "orphaned"} => calls[job[w]] = 1
  /\ OneRunner
  /\ ProviderAtMostOnce

\* A movie never has two jobs in progress: the check of request_generation and
\* the INSERT it allows are separate transactions, and only the single API
\* process keeps another request out of the gap
\* (video_generation_service.py:46-56).
OneInProgressPerMovie ==
  \A i, j \in JobIds :
    /\ jobStatus[i] \in IN_PROGRESS_STATUSES
    /\ jobStatus[j] \in IN_PROGRESS_STATUSES
    /\ jobMovie[i] = jobMovie[j]
    => i = j

\* The progress a client polls never goes back, although the worker computes it
\* from the row its open transaction saw (video_generation_service.py:94-107).
ProgressNeverDecreases ==
  [][\A j \in JobIds : progress'[j] >= progress[j]]_vars

\* An accepted job can always still be finished by some worker: QUEUED, its
\* entry is waiting, pending, or about to be added; RUNNING, its entry is
\* pending, so that a dead worker's job is reclaimed
\* (video_generation_queue.py:73-106).
UnfinishedIsRecoverable ==
  \A j \in JobIds :
    /\ jobStatus[j] = "QUEUED" =>
         \/ j \in pel
         \/ \E i \in DOMAIN undelivered : undelivered[i] = j
         \/ \E a \in Apis : apiPc[a] = "enqueue" /\ apiJob[a] = j
    /\ jobStatus[j] = "RUNNING" => j \in pel

\* Every accepted job is eventually settled or deleted with its movie, through
\* any finite number of worker crashes (video_generation_worker.py:51-89).
EveryJobSettles ==
  \A j \in JobIds :
    jobStatus[j] \in IN_PROGRESS_STATUSES ~> jobStatus[j] \notin IN_PROGRESS_STATUSES

\* The job state diagram of docs/ERD.md:284-293 has no edge out of SUCCEEDED,
\* FAILED or CANCELED.
SettledIsFinal ==
  [][\A j \in JobIds :
       jobStatus[j] \in {"SUCCEEDED", "FAILED", "CANCELED"}
         => jobStatus'[j] \in {jobStatus[j], "DELETED"}]_vars

\* A worker's result is written over by the user alone: by a cancellation that read
\* the job before the result was committed, or by deleting the movie.  The update of
\* mark_generation_succeeded and mark_generation_failed names only the primary key
\* (video_generation_service.py:109-161): no second worker may be about to write.
ResultIsKept ==
  [][\A j \in JobIds :
       jobStatus[j] \in {"SUCCEEDED", "FAILED"}
         => jobStatus'[j] \in {jobStatus[j], "CANCELED", "DELETED"}]_vars

\* What the status of a movie tells was earned by one of its own jobs: GENERATING by
\* one that was created, FAILED by one that was claimed, COMPLETED by one the provider
\* was called for.  The job's row and the movie's are committed apart, and whoever
\* writes the second may be killed, cancelled or deleted in between
\* (video_generation_service.py:56-61, 133-137, 157-161).
MovieStatusEarned ==
  \A m \in Movies :
    /\ movieStatus[m] = "GENERATING" => \E j \in JobIds : jobMovie[j] = m
    /\ movieStatus[m] = "FAILED" => \E j \in JobIds : jobMovie[j] = m /\ startedAt[j]
    /\ movieStatus[m] = "COMPLETED" => \E j \in JobIds : jobMovie[j] = m /\ calls[j] = 1

\* docs/video-generation-job-plan.md:688-689: the movie is GENERATING from the
\* creation of a job until the worker's result or the cancellation is applied
\* to it.  A movie nobody is about to write to is GENERATING only if one of its
\* jobs is in progress.
WritingTo(m) ==
  \/ \E a \in Apis : apiPc[a] # "idle" /\ apiMovie[a] = m
  \/ \E w \in Workers : pc[w] \in {"marked", "movie"} /\ jobMovie[job[w]] = m

GeneratingHasJob ==
  \A m \in Movies :
    movieStatus[m] = "GENERATING" /\ ~WritingTo(m) => InProgress(m) # {}

\* The promise of GenerationLifecycle.tla, kept by this model.
Lifecycle == INSTANCE GenerationLifecycle WITH
  Jobs <- JobIds, status <- jobStatus, startedAt <- startedAt, calls <- calls

ImplementsLifecycle == Lifecycle!Spec
================================================================================
