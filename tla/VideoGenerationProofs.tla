------------------------ MODULE VideoGenerationProofs ------------------------
(***************************************************************************)
(* What holds of VideoGeneration for every number of movies, workers, API  *)
(* processes, jobs and crashes, every idle limit and every batch size.     *)
(***************************************************************************)
EXTENDS VideoGeneration, SequenceTheorems, TLAPS

-----------------------------------------------------------------------------
(* Type correctness.                                                       *)

LEMMA ClampBounds == \A p \in Nat : clamp_running_progress(p) \in 1..99
  BY DEF clamp_running_progress

\* The value stored by a progress report is a percentage, and not a smaller one.
LEMMA NewProgressBounds ==
  ASSUME NEW old \in 0..100, NEW p \in Reported
  PROVE  NewProgress(old, p) \in 0..100 /\ NewProgress(old, p) >= old
  BY ReportedAssumption, ClampBounds DEF NewProgress

\* The types, the ids a process works with and the foreign key, kept together.
Shape == TypeOK /\ ApiHandles /\ WorkerHandles /\ ForeignKey

LEMMA InitShape == Init => Shape
<1> SUFFICES ASSUME Init PROVE Shape
  OBVIOUS
<1> USE DEF Init, NoMovies, NothingStarted
<1>1. MovieTypes /\ JobTypes /\ ForeignKey
  BY MaxJobsAssumption DEF MovieTypes, JobTypes, ForeignKey, JobExists, NoRow, JobIds
<1>2. StreamTypes /\ ApiTypes /\ ApiHandles
  BY SwitchesAssumption, EmptySeq DEF StreamTypes, ApiTypes, ApiHandles, ApiPcs, NoJob
<1>3. WorkerTypes /\ CountTypes /\ WorkerHandles
  BY MaxCrashesAssumption DEF WorkerTypes, CountTypes, WorkerPcs, Unread, NoJob, WorkerHandles
<1>4. QED
  BY <1>1, <1>2, <1>3 DEF Shape, TypeOK

\* What a step leaves alone keeps its shape.
LEMMA Frames ==
  ASSUME Shape
  PROVE  /\ UNCHANGED movieVars => MovieTypes'
         /\ UNCHANGED jobVars => JobTypes'
         /\ UNCHANGED streamVars => StreamTypes'
         /\ UNCHANGED apiVars => ApiTypes' /\ ApiHandles'
         /\ UNCHANGED <<pc, holdVars, readVars>> => WorkerTypes' /\ WorkerHandles'
         /\ UNCHANGED <<calls, crashes>> => CountTypes'
  BY DEF Shape, TypeOK, MovieTypes, JobTypes, StreamTypes, ApiTypes, WorkerTypes, CountTypes,
         ApiHandles, WorkerHandles,
         movieVars, jobVars, streamVars, apiVars, holdVars, readVars

\* The foreign key holds as long as no row appears and no movie disappears.
LEMMA ForeignKeyFrame ==
  ASSUME Shape,
         jobMovie' = jobMovie,
         \A j \in JobIds : jobStatus'[j] \notin NoRow => jobStatus[j] \notin NoRow,
         \A m \in Movies : movieStatus[m] \notin NoRow => movieStatus'[m] \notin NoRow
  PROVE  ForeignKey'
  BY DEF Shape, ForeignKey, JobExists, MovieExists

\* Returning from a request keeps what is known of the API processes.
LEMMA ReturnKeeps ==
  ASSUME Shape, NEW a \in Apis, ApiReturns(a)
  PROVE  ApiTypes' /\ ApiHandles'
  BY DEF Shape, TypeOK, ApiTypes, ApiReturns, ApiHandles, ApiPcs, NoJob

LEMMA WriteMovieStatusKeeps ==
  ASSUME Shape, NEW m \in Movies, MovieExists(m), NEW loaded, NEW new \in MovieStatus,
         WriteMovieStatus(m, loaded, new), UNCHANGED promptReady
  PROVE  /\ MovieTypes'
         /\ \A n \in Movies : movieStatus[n] \notin NoRow => movieStatus'[n] \notin NoRow
  BY DEF Shape, TypeOK, MovieTypes, WriteMovieStatus, MovieStatus, NoRow

\* The steps of a request.
LEMMA RequestKeepsShape ==
  ASSUME Shape, NEW a \in Apis,
         \/ CreateJob(a) \/ EnqueueJob(a) \/ MovieGenerating(a)
         \/ \E m \in Movies : RequestGeneration(a, m)
  PROVE  Shape'
<1>1. ASSUME NEW m \in Movies, RequestGeneration(a, m)
      PROVE  Shape'
  <2>1. UNCHANGED <<movieVars, jobVars, streamVars, workerVars>>
    BY <1>1 DEF RequestGeneration
  <2>2. ApiTypes' /\ ApiHandles'
    BY <1>1 DEF RequestGeneration, Shape, TypeOK, ApiTypes, ApiHandles, ApiPcs, MovieTypes,
                MovieExists
  <2>3. ForeignKey'
    BY <2>1, ForeignKeyFrame DEF movieVars, jobVars
  <2>4. QED
    BY <2>1, <2>2, <2>3, Frames DEF Shape, TypeOK, workerVars
<1>2. CASE CreateJob(a)
  <2>1. UNCHANGED <<movieVars, streamVars, workerVars>>
    BY <1>2 DEF CreateJob
  <2>2. CASE MovieExists(apiMovie[a])
    <3>1. nextJob \in JobIds /\ nextJob + 1 \in 1..(MaxJobs + 1) /\ apiMovie[a] \in Movies
      BY <1>2, <2>2, MaxJobsAssumption DEF CreateJob, JobIds, Shape, TypeOK, JobTypes, ApiHandles
    <3>2. JobTypes'
      BY <1>2, <2>2, <3>1
      DEF CreateJob, Shape, TypeOK, JobTypes, JobStatus, IN_PROGRESS_STATUSES
    <3>3. ApiTypes' /\ ApiHandles'
      BY <1>2, <2>2, <3>1 DEF CreateJob, Shape, TypeOK, ApiTypes, ApiHandles, ApiPcs
    <3>4. ForeignKey'
      BY <1>2, <2>1, <2>2, <3>1
      DEF CreateJob, Shape, TypeOK, JobTypes, ForeignKey, JobExists, MovieExists, movieVars, NoRow
    <3>5. QED
      BY <2>1, <3>2, <3>3, <3>4, Frames DEF Shape, TypeOK, workerVars
  <2>3. CASE ~MovieExists(apiMovie[a])
    <3>1. ApiReturns(a) /\ UNCHANGED jobVars
      BY <1>2, <2>3 DEF CreateJob
    <3>2. ForeignKey'
      BY <2>1, <3>1, ForeignKeyFrame DEF movieVars, jobVars
    <3>3. QED
      BY <2>1, <3>1, <3>2, ReturnKeeps, Frames DEF Shape, TypeOK, workerVars
  <2>4. QED
    BY <2>2, <2>3
<1>3. CASE EnqueueJob(a)
  <2>1. UNCHANGED <<group, pel, movieVars, jobVars, workerVars>>
    BY <1>3 DEF EnqueueJob
  <2>2. apiJob[a] \in JobIds /\ Append(undelivered, apiJob[a]) \in Seq(JobIds)
    BY <1>3, AppendProperties DEF EnqueueJob, Shape, TypeOK, ApiHandles, StreamTypes
  <2>3. StreamTypes'
    BY <1>3, <2>1, <2>2 DEF EnqueueJob, Shape, TypeOK, StreamTypes
  <2>4. ApiTypes' /\ ApiHandles'
    BY <1>3, ReturnKeeps DEF EnqueueJob, Shape, TypeOK, ApiTypes, ApiHandles, ApiPcs
  <2>5. ForeignKey'
    BY <2>1, ForeignKeyFrame DEF movieVars, jobVars
  <2>6. QED
    BY <2>1, <2>3, <2>4, <2>5, Frames DEF Shape, TypeOK, workerVars
<1>4. CASE MovieGenerating(a)
  <2>1. UNCHANGED <<jobVars, streamVars, workerVars>> /\ ApiReturns(a)
    BY <1>4 DEF MovieGenerating
  <2>2. /\ MovieTypes'
        /\ \A n \in Movies : movieStatus[n] \notin NoRow => movieStatus'[n] \notin NoRow
    BY <1>4, WriteMovieStatusKeeps, Frames
    DEF MovieGenerating, Shape, ApiHandles, MovieStatus, movieVars
  <2>3. ForeignKey'
    BY <2>1, <2>2, ForeignKeyFrame DEF jobVars
  <2>4. QED
    BY <2>1, <2>2, <2>3, ReturnKeeps, Frames DEF Shape, TypeOK, workerVars
<1>5. QED
  BY <1>1, <1>2, <1>3, <1>4

\* Cancelling: a chosen job, its status, and the movie back to DRAFT.
LEMMA CancelKeepsShape ==
  ASSUME Shape, NEW a \in Apis,
         CancelJob(a) \/ MovieDraft(a) \/ \E m \in Movies : CancelGeneration(a, m)
  PROVE  Shape'
<1>1. ASSUME NEW m \in Movies, CancelGeneration(a, m)
      PROVE  Shape'
  <2>1. UNCHANGED <<movieVars, jobVars, streamVars, workerVars>>
    BY <1>1 DEF CancelGeneration
  <2>2. PICK j \in JobIds : apiJob' = [apiJob EXCEPT ![a] = j]
    BY <1>1 DEF CancelGeneration, InProgress
  <2>3. movieStatus[m] \in MovieStatus
    BY <1>1 DEF CancelGeneration, MovieExists, Shape, TypeOK, MovieTypes
  <2>4. ApiTypes' /\ ApiHandles'
    BY <1>1, <2>2, <2>3 DEF CancelGeneration, Shape, TypeOK, ApiTypes, ApiHandles, ApiPcs
  <2>5. ForeignKey'
    BY <2>1, ForeignKeyFrame DEF movieVars, jobVars
  <2>6. QED
    BY <2>1, <2>4, <2>5, Frames DEF Shape, TypeOK, workerVars
<1>2. CASE CancelJob(a)
  <2>1. UNCHANGED <<jobMovie, progress, startedAt, nextJob, movieVars, streamVars, workerVars>>
    BY <1>2 DEF CancelJob
  <2>2. /\ JobTypes'
        /\ \A j \in JobIds : jobStatus'[j] \notin NoRow => jobStatus[j] \notin NoRow
    BY <1>2, <2>1
    DEF CancelJob, Shape, TypeOK, JobTypes, ApiHandles, JobExists, JobStatus, NoRow
  <2>3. ApiTypes' /\ ApiHandles'
    BY <1>2, ReturnKeeps DEF CancelJob, Shape, TypeOK, ApiTypes, ApiHandles, ApiPcs
  <2>4. ForeignKey'
    BY <2>1, <2>2, ForeignKeyFrame DEF movieVars
  <2>5. QED
    BY <2>1, <2>2, <2>3, <2>4, Frames DEF Shape, TypeOK, workerVars
<1>3. CASE MovieDraft(a)
  <2>1. UNCHANGED <<jobVars, streamVars, workerVars>> /\ ApiReturns(a)
    BY <1>3 DEF MovieDraft
  <2>2. /\ MovieTypes'
        /\ \A n \in Movies : movieStatus[n] \notin NoRow => movieStatus'[n] \notin NoRow
    BY <1>3, WriteMovieStatusKeeps, Frames
    DEF MovieDraft, Shape, ApiHandles, MovieStatus, movieVars
  <2>3. ForeignKey'
    BY <2>1, <2>2, ForeignKeyFrame DEF jobVars
  <2>4. QED
    BY <2>1, <2>2, <2>3, ReturnKeeps, Frames DEF Shape, TypeOK, workerVars
<1>4. QED
  BY <1>1, <1>2, <1>3

\* The movies themselves.
LEMMA MovieStepsKeepShape ==
  ASSUME Shape, NEW a \in Apis, NEW m \in Movies,
         \/ CreateDraft(a, m) \/ DeleteMovie(a, m)
         \/ \E ready \in BOOLEAN : WriteStory(a, m, ready)
  PROVE  Shape'
<1>1. CASE CreateDraft(a, m)
  <2>1. UNCHANGED <<promptReady, jobVars, streamVars, apiVars, workerVars>>
    BY <1>1 DEF CreateDraft
  <2>2. /\ MovieTypes'
        /\ \A n \in Movies : movieStatus[n] \notin NoRow => movieStatus'[n] \notin NoRow
    BY <1>1, <2>1 DEF CreateDraft, Shape, TypeOK, MovieTypes, MovieStatus, NoRow
  <2>3. ForeignKey'
    BY <2>1, <2>2, ForeignKeyFrame DEF jobVars
  <2>4. QED
    BY <2>1, <2>2, <2>3, Frames DEF Shape, TypeOK, workerVars
<1>2. CASE DeleteMovie(a, m)
  <2>1. UNCHANGED <<promptReady, jobMovie, progress, startedAt, nextJob,
                    streamVars, apiVars, workerVars>>
    BY <1>2 DEF DeleteMovie
  <2>2. MovieTypes'
    BY <1>2, <2>1 DEF DeleteMovie, Shape, TypeOK, MovieTypes, NoRow
  <2>3. JobTypes'
    BY <1>2, <2>1 DEF DeleteMovie, Shape, TypeOK, JobTypes, NoRow
  <2>4. ForeignKey'
    BY <1>2, <2>1
    DEF DeleteMovie, Shape, TypeOK, MovieTypes, ForeignKey, JobExists, MovieExists, NoRow
  <2>5. QED
    BY <2>1, <2>2, <2>3, <2>4, Frames DEF Shape, TypeOK, workerVars
<1>3. ASSUME NEW ready \in BOOLEAN, WriteStory(a, m, ready)
      PROVE  Shape'
  <2>1. UNCHANGED <<movieStatus, jobVars, streamVars, apiVars, workerVars>>
    BY <1>3 DEF WriteStory
  <2>2. MovieTypes'
    BY <1>3, <2>1 DEF WriteStory, Shape, TypeOK, MovieTypes
  <2>3. ForeignKey'
    BY <2>1, ForeignKeyFrame DEF jobVars
  <2>4. QED
    BY <2>1, <2>2, <2>3, Frames DEF Shape, TypeOK, workerVars
<1>4. QED
  BY <1>1, <1>2, <1>3

\* Every step of an API process; a request that dies only returns.
LEMMA ApiKeepsShape ==
  ASSUME Shape, NEW a \in Apis, ApiNext(a)
  PROVE  Shape'
<1>1. CASE ApiContinues(a)
  BY <1>1, RequestKeepsShape, CancelKeepsShape DEF ApiContinues
<1>2. CASE ApiAborts(a)
  <2>1. UNCHANGED <<movieVars, jobVars, streamVars, workerVars>> /\ ApiReturns(a)
    BY <1>2 DEF ApiAborts
  <2>2. ForeignKey'
    BY <2>1, ForeignKeyFrame DEF movieVars, jobVars
  <2>3. QED
    BY <2>1, <2>2, ReturnKeeps, Frames DEF Shape, TypeOK, workerVars
<1>3. ASSUME NEW m \in Movies,
             \/ RequestGeneration(a, m) \/ CancelGeneration(a, m)
             \/ CreateDraft(a, m) \/ DeleteMovie(a, m)
             \/ \E ready \in BOOLEAN : WriteStory(a, m, ready)
      PROVE  Shape'
  BY <1>3, RequestKeepsShape, CancelKeepsShape, MovieStepsKeepShape
<1>4. QED
  BY <1>1, <1>2, <1>3 DEF ApiNext

\* A worker process that ends keeps nothing.
LEMMA ExitKeeps ==
  ASSUME Shape, NEW w \in Workers, Exit(w)
  PROVE  WorkerTypes' /\ WorkerHandles'
<1>1. /\ pc' = [pc EXCEPT ![w] = "down"] /\ todo' = [todo EXCEPT ![w] = {}]
      /\ job' = [job EXCEPT ![w] = NoJob] /\ reclaimed' = [reclaimed EXCEPT ![w] = FALSE]
      /\ saw' = [saw EXCEPT ![w] = Unread] /\ sawMovie' = [sawMovie EXCEPT ![w] = "NONE"]
      /\ outcome' = [outcome EXCEPT ![w] = "NONE"]
  BY DEF Exit, Goto, CloseSession
<1>2. "down" \in WorkerPcs /\ Unread \in [status : JobStatus \cup {"NONE"}, progress : 0..100]
  BY DEF WorkerPcs, Unread
<1>3. WorkerTypes'
  BY <1>1, <1>2 DEF Shape, TypeOK, WorkerTypes
<1>4. WorkerHandles'
  BY <1>1 DEF Shape, TypeOK, WorkerTypes, WorkerHandles
<1>5. QED
  BY <1>3, <1>4

\* Moving on with the same entry and the same reads.
LEMMA GotoKeeps ==
  ASSUME Shape, NEW w \in Workers, NEW p \in WorkerPcs, Goto(w, p),
         p \in {"down", "reclaim", "batch"} \/ job[w] \in JobIds,
         UNCHANGED <<holdVars, readVars>>
  PROVE  WorkerTypes' /\ WorkerHandles'
<1>1. /\ pc' = [pc EXCEPT ![w] = p]
      /\ UNCHANGED <<todo, job, reclaimed, saw, sawMovie, outcome>>
  BY DEF Goto, holdVars, readVars
<1>2. QED
  BY <1>1 DEF Shape, TypeOK, WorkerTypes, WorkerHandles

\* Moving on after reading the job's row.
LEMMA ReadKeeps ==
  ASSUME Shape, NEW w \in Workers, NEW p \in WorkerPcs, Goto(w, p),
         job[w] \in JobIds, JobExists(job[w]),
         saw' = [saw EXCEPT ![w] = [status |-> jobStatus[job[w]], progress |-> progress[job[w]]]],
         UNCHANGED <<holdVars, sawMovie, outcome>>
  PROVE  WorkerTypes' /\ WorkerHandles'
<1>1. /\ pc' = [pc EXCEPT ![w] = p]
      /\ UNCHANGED <<todo, job, reclaimed, sawMovie, outcome>>
  BY DEF Goto, holdVars
<1>2. jobStatus[job[w]] \in JobStatus /\ progress[job[w]] \in 0..100
  BY DEF Shape, TypeOK, JobTypes, JobExists
<1>3. [status |-> jobStatus[job[w]], progress |-> progress[job[w]]]
        \in [status : JobStatus \cup {"NONE"}, progress : 0..100]
  BY <1>2
<1>4. saw' \in [Workers -> [status : JobStatus \cup {"NONE"}, progress : 0..100]]
  BY <1>3 DEF Shape, TypeOK, WorkerTypes
<1>5. QED
  BY <1>1, <1>4 DEF Shape, TypeOK, WorkerTypes, WorkerHandles

\* Taking entries from the stream.
LEMMA StreamStepsKeepShape ==
  ASSUME Shape, NEW w \in Workers,
         \/ Start(w) \/ TakeReclaimed(w) \/ Consume(w) \/ ConsumeNothing(w)
         \/ \E batch \in SUBSET Reclaimable : Reclaim(w, batch)
  PROVE  Shape'
<1>1. CASE Start(w)
  <2>1. UNCHANGED <<movieVars, jobVars, apiVars, holdVars, readVars, calls, crashes>>
    BY <1>1 DEF Start
  <2>2. StreamTypes'
    BY <1>1, EmptySeq DEF Start, Shape, TypeOK, StreamTypes
  <2>3. WorkerTypes' /\ WorkerHandles'
    BY <1>1, <2>1, GotoKeeps DEF Start, WorkerPcs
  <2>4. ForeignKey'
    BY <2>1, ForeignKeyFrame DEF movieVars, jobVars
  <2>5. QED
    BY <2>1, <2>2, <2>3, <2>4, Frames DEF Shape, TypeOK
<1>2. CASE TakeReclaimed(w)
  <2>1. UNCHANGED <<readVars, calls, crashes, movieVars, jobVars, streamVars, apiVars>>
    BY <1>2 DEF TakeReclaimed
  <2>2. PICK j \in todo[w] : /\ todo' = [todo EXCEPT ![w] = @ \ {j}]
                             /\ job' = [job EXCEPT ![w] = j]
    BY <1>2 DEF TakeReclaimed
  <2>3. WorkerTypes' /\ WorkerHandles'
    BY <1>2, <2>1, <2>2
    DEF TakeReclaimed, Goto, Shape, TypeOK, WorkerTypes, WorkerHandles, WorkerPcs, readVars
  <2>4. ForeignKey'
    BY <2>1, ForeignKeyFrame DEF movieVars, jobVars
  <2>5. QED
    BY <2>1, <2>3, <2>4, Frames DEF Shape, TypeOK
<1>3. CASE Consume(w)
  <2>1. UNCHANGED <<group, todo, readVars, calls, crashes, movieVars, jobVars, apiVars>>
    BY <1>3 DEF Consume
  <2>2. Head(undelivered) \in JobIds /\ Tail(undelivered) \in Seq(JobIds)
    BY <1>3, HeadTailProperties DEF Consume, Shape, TypeOK, StreamTypes
  <2>3. StreamTypes'
    BY <1>3, <2>1, <2>2 DEF Consume, Shape, TypeOK, StreamTypes
  <2>4. WorkerTypes' /\ WorkerHandles'
    BY <1>3, <2>1, <2>2
    DEF Consume, Goto, Shape, TypeOK, WorkerTypes, WorkerHandles, WorkerPcs, readVars
  <2>5. ForeignKey'
    BY <2>1, ForeignKeyFrame DEF movieVars, jobVars
  <2>6. QED
    BY <2>1, <2>3, <2>4, <2>5, Frames DEF Shape, TypeOK
<1>4. CASE ConsumeNothing(w)
  <2>1. UNCHANGED <<holdVars, readVars, calls, crashes, movieVars, jobVars, streamVars, apiVars>>
    BY <1>4 DEF ConsumeNothing
  <2>2. WorkerTypes' /\ WorkerHandles'
    BY <1>4, <2>1, GotoKeeps DEF ConsumeNothing, WorkerPcs
  <2>3. ForeignKey'
    BY <2>1, ForeignKeyFrame DEF movieVars, jobVars
  <2>4. QED
    BY <2>1, <2>2, <2>3, Frames DEF Shape, TypeOK
<1>5. ASSUME NEW batch \in SUBSET Reclaimable, Reclaim(w, batch)
      PROVE  Shape'
  <2>1. UNCHANGED <<job, reclaimed, readVars, calls, crashes,
                    movieVars, jobVars, streamVars, apiVars>>
    BY <1>5 DEF Reclaim
  <2>2. batch \subseteq JobIds
    BY DEF Reclaimable, Shape, TypeOK, StreamTypes
  <2>3. WorkerTypes' /\ WorkerHandles'
    BY <1>5, <2>1, <2>2
    DEF Reclaim, Goto, Shape, TypeOK, WorkerTypes, WorkerHandles, WorkerPcs, readVars
  <2>4. ForeignKey'
    BY <2>1, ForeignKeyFrame DEF movieVars, jobVars
  <2>5. QED
    BY <2>1, <2>3, <2>4, Frames DEF Shape, TypeOK
<1>6. QED
  BY <1>1, <1>2, <1>3, <1>4, <1>5

\* From the claim to the end of the provider call.
LEMMA RunStepsKeepShape ==
  ASSUME Shape, NEW w \in Workers,
         \/ ReadReclaimed(w) \/ Claim(w) \/ StartProvider(w) \/ Refresh(w) \/ OrphanExits(w)
         \/ \E p \in Reported : RecordProgress(w, p)
  PROVE  Shape'
<1>1. CASE ReadReclaimed(w)
  <2>1. UNCHANGED <<holdVars, sawMovie, outcome, calls, crashes,
                    movieVars, jobVars, streamVars, apiVars>>
    BY <1>1 DEF ReadReclaimed
  <2>2. job[w] \in JobIds
    BY <1>1 DEF ReadReclaimed, Shape, WorkerHandles
  <2>3. CASE jobStatus[job[w]] = "RUNNING"
    <3>1. JobExists(job[w])
      BY <2>3 DEF JobExists, NoRow
    <3>2. /\ Goto(w, "failCrashed")
          /\ saw' = [saw EXCEPT ![w] = [status |-> jobStatus[job[w]],
                                        progress |-> progress[job[w]]]]
      BY <1>1, <2>3 DEF ReadReclaimed, IN_PROGRESS_STATUSES
    <3>3. QED
      BY <2>1, <2>2, <3>1, <3>2, ReadKeeps, Frames, ForeignKeyFrame
      DEF Shape, TypeOK, WorkerPcs, movieVars, jobVars
  <2>4. CASE jobStatus[job[w]] # "RUNNING"
    <3>1. UNCHANGED saw /\ (Goto(w, "claim") \/ Goto(w, "ack"))
      BY <1>1, <2>4 DEF ReadReclaimed
    <3>2. WorkerTypes' /\ WorkerHandles'
      BY <2>1, <2>2, <3>1, GotoKeeps DEF WorkerPcs, readVars
    <3>3. QED
      BY <2>1, <3>2, Frames, ForeignKeyFrame DEF Shape, TypeOK, movieVars, jobVars
  <2>5. QED
    BY <2>3, <2>4
<1>2. CASE Claim(w)
  <2>1. UNCHANGED <<jobMovie, nextJob, holdVars, readVars, calls, crashes,
                    movieVars, streamVars, apiVars>>
    BY <1>2 DEF Claim
  <2>2. job[w] \in JobIds
    BY <1>2 DEF Claim, Shape, WorkerHandles
  <2>3. /\ JobTypes'
        /\ \A j \in JobIds : jobStatus'[j] \notin NoRow => jobStatus[j] \notin NoRow
    <3>1. CASE Claimable(job[w])
      <4>1. /\ jobStatus[job[w]] = "QUEUED"
            /\ jobStatus' = [jobStatus EXCEPT ![job[w]] = "RUNNING"]
            /\ progress' = [progress EXCEPT ![job[w]] = 1]
            /\ startedAt' = [startedAt EXCEPT ![job[w]] = TRUE]
        BY <1>2, <3>1 DEF Claim, Claimable
      <4>2. QED
        BY <2>1, <2>2, <4>1
        DEF Shape, TypeOK, JobTypes, JobStatus, IN_PROGRESS_STATUSES, NoRow
    <3>2. CASE ~Claimable(job[w])
      BY <1>2, <2>1, <3>2, Frames DEF Claim, jobVars
    <3>3. QED
      BY <3>1, <3>2
  <2>4. WorkerTypes' /\ WorkerHandles'
    BY <1>2, <2>1, <2>2, GotoKeeps DEF Claim, WorkerPcs
  <2>5. ForeignKey'
    BY <2>1, <2>3, ForeignKeyFrame DEF movieVars
  <2>6. QED
    BY <2>1, <2>3, <2>4, <2>5, Frames DEF Shape, TypeOK
<1>3. CASE StartProvider(w)
  <2>1. UNCHANGED <<holdVars, sawMovie, outcome, crashes,
                    movieVars, jobVars, streamVars, apiVars>>
    BY <1>3 DEF StartProvider
  <2>2. job[w] \in JobIds
    BY <1>3 DEF StartProvider, Shape, WorkerHandles
  <2>3. WorkerTypes' /\ WorkerHandles'
    <3>1. CASE JobExists(job[w])
      BY <1>3, <2>1, <2>2, <3>1, ReadKeeps DEF StartProvider, WorkerPcs
    <3>2. CASE ~JobExists(job[w])
      BY <1>3, <2>1, <2>2, <3>2, GotoKeeps DEF StartProvider, WorkerPcs, readVars
    <3>3. QED
      BY <3>1, <3>2
  <2>4. CountTypes'
    BY <1>3, <2>1 DEF StartProvider, Shape, TypeOK, CountTypes
  <2>5. ForeignKey'
    BY <2>1, ForeignKeyFrame DEF movieVars, jobVars
  <2>6. QED
    BY <2>1, <2>3, <2>4, <2>5, Frames DEF Shape, TypeOK
<1>4. CASE Refresh(w)
  <2>1. UNCHANGED <<holdVars, sawMovie, outcome, calls, crashes,
                    movieVars, jobVars, streamVars, apiVars>>
    BY <1>4 DEF Refresh
  <2>2. job[w] \in JobIds
    BY <1>4 DEF Refresh, Shape, WorkerHandles
  <2>3. WorkerTypes' /\ WorkerHandles'
    <3>1. CASE JobExists(job[w])
      BY <1>4, <2>1, <2>2, <3>1, ReadKeeps DEF Refresh, WorkerPcs
    <3>2. CASE ~JobExists(job[w])
      BY <1>4, <2>1, <2>2, <3>2, GotoKeeps DEF Refresh, WorkerPcs, readVars
    <3>3. QED
      BY <3>1, <3>2
  <2>4. QED
    BY <2>1, <2>3, Frames, ForeignKeyFrame DEF Shape, TypeOK, movieVars, jobVars
<1>5. CASE OrphanExits(w)
  <2>1. UNCHANGED <<calls, crashes, movieVars, jobVars, streamVars, apiVars>> /\ Exit(w)
    BY <1>5 DEF OrphanExits
  <2>2. QED
    BY <2>1, ExitKeeps, Frames, ForeignKeyFrame DEF Shape, TypeOK, movieVars, jobVars
<1>6. ASSUME NEW p \in Reported, RecordProgress(w, p)
      PROVE  Shape'
  <2>1. UNCHANGED <<jobMovie, jobStatus, startedAt, nextJob, holdVars, readVars, calls, crashes,
                    movieVars, streamVars, apiVars>>
    BY <1>6 DEF RecordProgress
  <2>2. job[w] \in JobIds /\ saw[w].progress \in 0..100
    BY <1>6 DEF RecordProgress, Shape, TypeOK, WorkerTypes, WorkerHandles
  <2>3. NewProgress(saw[w].progress, p) \in 0..100
    BY <2>2, NewProgressBounds
  <2>4. progress' \in [JobIds -> 0..100]
    BY <1>6, <2>2, <2>3 DEF RecordProgress, Shape, TypeOK, JobTypes
  <2>5. JobTypes'
    BY <2>1, <2>4 DEF Shape, TypeOK, JobTypes
  <2>6. WorkerTypes' /\ WorkerHandles'
    <3>1. Goto(w, "refresh") \/ Goto(w, "orphaned")
      BY <1>6 DEF RecordProgress
    <3>2. QED
      BY <2>1, <2>2, <3>1, GotoKeeps DEF WorkerPcs
  <2>7. ForeignKey'
    BY <2>1, ForeignKeyFrame DEF movieVars
  <2>8. QED
    BY <2>1, <2>5, <2>6, <2>7, Frames DEF Shape, TypeOK
<1>7. QED
  BY <1>1, <1>2, <1>3, <1>4, <1>5, <1>6

\* Storing a result, on a row that exists.
LEMMA WriteOutcomeKeeps ==
  ASSUME Shape, NEW j \in JobIds, JobExists(j), NEW result \in {"SUCCEEDED", "FAILED"},
         WriteOutcome(j, result), UNCHANGED <<jobMovie, startedAt, nextJob>>
  PROVE  /\ JobTypes'
         /\ \A i \in JobIds : jobStatus'[i] \notin NoRow => jobStatus[i] \notin NoRow
BY DEF WriteOutcome, Shape, TypeOK, JobTypes, JobExists, JobStatus, NoRow

\* The result of a run: the job, the movie, the acknowledgement.
LEMMA ResultStepsKeepShape ==
  ASSUME Shape, NEW w \in Workers,
         \/ FailCrashed(w) \/ RefreshMarked(w) \/ UpdateMovie(w) \/ Ack(w) \/ Crash(w)
         \/ \E result \in {"SUCCEEDED", "FAILED"} : Mark(w, result)
  PROVE  Shape'
<1>1. CASE FailCrashed(w)
  <2>1. UNCHANGED <<jobMovie, startedAt, nextJob, holdVars, saw, sawMovie, calls, crashes,
                    movieVars, streamVars, apiVars>>
    BY <1>1 DEF FailCrashed
  <2>2. job[w] \in JobIds
    BY <1>1 DEF FailCrashed, Shape, WorkerHandles
  <2>3. /\ JobTypes'
        /\ \A i \in JobIds : jobStatus'[i] \notin NoRow => jobStatus[i] \notin NoRow
    <3>1. CASE JobExists(job[w])
      BY <1>1, <2>1, <2>2, <3>1, WriteOutcomeKeeps DEF FailCrashed
    <3>2. CASE ~JobExists(job[w])
      BY <1>1, <2>1, <3>2, Frames DEF FailCrashed, jobVars
    <3>3. QED
      BY <3>1, <3>2
  <2>4. WorkerTypes' /\ WorkerHandles'
    BY <1>1, <2>1, <2>2
    DEF FailCrashed, Goto, Shape, TypeOK, WorkerTypes, WorkerHandles, WorkerPcs, holdVars
  <2>5. QED
    BY <2>1, <2>3, <2>4, Frames, ForeignKeyFrame DEF Shape, TypeOK, movieVars
<1>2. CASE RefreshMarked(w)
  <2>1. UNCHANGED <<calls, crashes, movieVars, jobVars, streamVars, apiVars>>
    BY <1>2 DEF RefreshMarked
  <2>2. WorkerTypes' /\ WorkerHandles'
    <3>1. job[w] \in JobIds
      BY <1>2 DEF RefreshMarked, Shape, WorkerHandles
    <3>2. CASE JobExists(job[w])
      <4>1. movieStatus[jobMovie[job[w]]] \in MovieStatus
        BY <3>1, <3>2 DEF Shape, TypeOK, MovieTypes, ForeignKey, MovieExists
      <4>2. QED
        BY <1>2, <3>1, <3>2, <4>1
        DEF RefreshMarked, Goto, Shape, TypeOK, WorkerTypes, WorkerHandles, WorkerPcs, holdVars
    <3>3. CASE ~JobExists(job[w])
      BY <1>2, <3>3, ExitKeeps DEF RefreshMarked
    <3>4. QED
      BY <3>2, <3>3
  <2>3. QED
    BY <2>1, <2>2, Frames, ForeignKeyFrame DEF Shape, TypeOK, movieVars, jobVars
<1>3. CASE UpdateMovie(w)
  <2>1. UNCHANGED <<promptReady, calls, crashes, jobVars, streamVars, apiVars>>
    BY <1>3 DEF UpdateMovie
  <2>2. CASE MovieExists(jobMovie[job[w]])
    <3>1. job[w] \in JobIds
      BY <1>3 DEF UpdateMovie, Shape, WorkerHandles
    <3>2. /\ WriteMovieStatus(jobMovie[job[w]], sawMovie[w], MovieStatusOf(outcome[w]))
          /\ Goto(w, "ack") /\ UNCHANGED <<holdVars, readVars>>
      BY <1>3, <2>2 DEF UpdateMovie
    <3>3. WorkerTypes' /\ WorkerHandles'
      BY <3>1, <3>2, GotoKeeps DEF WorkerPcs
    <3>4. MovieStatusOf(outcome[w]) \in MovieStatus
      BY DEF MovieStatusOf, MovieStatus
    <3>5. CASE jobMovie[job[w]] \in Movies
      <4>1. /\ MovieTypes'
            /\ \A n \in Movies : movieStatus[n] \notin NoRow => movieStatus'[n] \notin NoRow
        BY <2>1, <2>2, <3>2, <3>4, <3>5, WriteMovieStatusKeeps
      <4>2. QED
        BY <2>1, <3>3, <4>1, Frames, ForeignKeyFrame DEF Shape, TypeOK, jobVars
    <3>6. CASE jobMovie[job[w]] \notin Movies
      <4>1. UNCHANGED movieStatus
        BY <3>2, <3>6 DEF WriteMovieStatus, Shape, TypeOK, MovieTypes
      <4>2. QED
        BY <2>1, <3>3, <4>1, Frames, ForeignKeyFrame DEF Shape, TypeOK, jobVars, movieVars
    <3>7. QED
      BY <3>5, <3>6
  <2>3. CASE ~MovieExists(jobMovie[job[w]])
    <3>1. Exit(w) /\ UNCHANGED movieStatus
      BY <1>3, <2>3 DEF UpdateMovie
    <3>2. QED
      BY <2>1, <3>1, ExitKeeps, Frames, ForeignKeyFrame DEF Shape, TypeOK, jobVars, movieVars
  <2>4. QED
    BY <2>2, <2>3
<1>4. CASE Ack(w)
  <2>1. UNCHANGED <<todo, calls, crashes, group, undelivered, movieVars, jobVars, apiVars>>
    BY <1>4 DEF Ack
  <2>2. /\ pc' = [pc EXCEPT ![w] = IF reclaimed[w] THEN "batch" ELSE "reclaim"]
        /\ job' = [job EXCEPT ![w] = NoJob] /\ reclaimed' = [reclaimed EXCEPT ![w] = FALSE]
        /\ saw' = [saw EXCEPT ![w] = Unread] /\ sawMovie' = [sawMovie EXCEPT ![w] = "NONE"]
        /\ outcome' = [outcome EXCEPT ![w] = "NONE"]
    BY <1>4 DEF Ack, Goto, CloseSession
  <2>3. Unread \in [status : JobStatus \cup {"NONE"}, progress : 0..100]
    BY DEF Unread
  <2>4. WorkerTypes'
    BY <2>1, <2>2, <2>3 DEF Shape, TypeOK, WorkerTypes, WorkerPcs
  <2>5. WorkerHandles'
    BY <2>2 DEF Shape, TypeOK, WorkerTypes, WorkerHandles
  <2>6. StreamTypes'
    BY <1>4, <2>1 DEF Ack, Shape, TypeOK, StreamTypes
  <2>7. QED
    BY <2>1, <2>4, <2>5, <2>6, Frames, ForeignKeyFrame DEF Shape, TypeOK, movieVars, jobVars
<1>5. CASE Crash(w)
  <2>1. UNCHANGED <<calls, movieVars, jobVars, streamVars, apiVars>> /\ Exit(w)
    BY <1>5 DEF Crash
  <2>2. CountTypes'
    BY <1>5, MaxCrashesAssumption DEF Crash, Shape, TypeOK, CountTypes
  <2>3. QED
    BY <2>1, <2>2, ExitKeeps, Frames, ForeignKeyFrame DEF Shape, TypeOK, movieVars, jobVars
<1>6. ASSUME NEW result \in {"SUCCEEDED", "FAILED"}, Mark(w, result)
      PROVE  Shape'
  <2>1. UNCHANGED <<jobMovie, startedAt, nextJob, calls, crashes,
                    movieVars, streamVars, apiVars>>
    BY <1>6 DEF Mark
  <2>2. job[w] \in JobIds
    BY <1>6 DEF Mark, Shape, WorkerHandles
  <2>3. CASE MarkAllowed(saw[w].status, result) /\ JobExists(job[w])
    <3>1. /\ WriteOutcome(job[w], result) /\ outcome' = [outcome EXCEPT ![w] = result]
          /\ Goto(w, "marked") /\ UNCHANGED <<holdVars, saw, sawMovie>>
      BY <1>6, <2>3 DEF Mark
    <3>2. WorkerTypes' /\ WorkerHandles'
      BY <2>2, <3>1
      DEF Goto, Shape, TypeOK, WorkerTypes, WorkerHandles, WorkerPcs, holdVars
    <3>3. /\ JobTypes'
          /\ \A i \in JobIds : jobStatus'[i] \notin NoRow => jobStatus[i] \notin NoRow
      BY <2>1, <2>2, <2>3, <3>1, WriteOutcomeKeeps
    <3>4. QED
      BY <2>1, <3>2, <3>3, Frames, ForeignKeyFrame DEF Shape, TypeOK, movieVars
  <2>4. CASE MarkAllowed(saw[w].status, result) /\ ~JobExists(job[w])
    <3>1. Exit(w) /\ UNCHANGED <<jobStatus, progress>>
      BY <1>6, <2>4 DEF Mark
    <3>2. QED
      BY <2>1, <3>1, ExitKeeps, Frames, ForeignKeyFrame DEF Shape, TypeOK, movieVars, jobVars
  <2>5. CASE ~MarkAllowed(saw[w].status, result)
    <3>1. Goto(w, "ack") /\ UNCHANGED <<jobStatus, progress, holdVars, readVars>>
      BY <1>6, <2>5 DEF Mark
    <3>2. WorkerTypes' /\ WorkerHandles'
      BY <2>2, <3>1, GotoKeeps DEF WorkerPcs
    <3>3. QED
      BY <2>1, <3>1, <3>2, Frames, ForeignKeyFrame DEF Shape, TypeOK, movieVars, jobVars
  <2>6. QED
    BY <2>3, <2>4, <2>5
<1>7. QED
  BY <1>1, <1>2, <1>3, <1>4, <1>5, <1>6

LEMMA StepKeepsShape == Shape /\ [Next]_vars => Shape'
<1> SUFFICES ASSUME Shape, [Next]_vars PROVE Shape'
  OBVIOUS
<1>1. ASSUME NEW w \in Workers, WorkerNext(w) \/ Crash(w)
      PROVE  Shape'
  BY <1>1, StreamStepsKeepShape, RunStepsKeepShape, ResultStepsKeepShape DEF WorkerNext
<1>2. CASE UNCHANGED vars
  BY <1>2, Frames, ForeignKeyFrame
  DEF Shape, TypeOK, vars, workerVars, movieVars, jobVars
<1>3. QED
  BY <1>1, <1>2, ApiKeepsShape DEF Next

\* Every variable keeps its type, the foreign key holds, and a process past the
\* first step of its work knows the row it works on.
THEOREM ShapeAlways == Spec => []Shape
BY InitShape, StepKeepsShape, PTL DEF Spec

\* No sequence of requests, deliveries, reclaims, deletions and kills takes a
\* status, a progress value or the pending list outside what the code stores.
THEOREM TypeCorrect == Spec => []TypeOK
<1>1. Shape => TypeOK
  BY DEF Shape
<1>2. QED
  BY <1>1, ShapeAlways, PTL

-----------------------------------------------------------------------------
(* The claim.                                                              *)

Runs == {"running", "refresh", "orphaned"}

\* Steps that create, claim and call nothing: rows stay or are settled or
\* deleted, and no worker begins to run or to fail a job.
RowsOnlySettle ==
  \A j \in JobIds :
    \/ jobStatus'[j] = jobStatus[j]
    \/ JobExists(j) /\ jobStatus'[j] \notin {"ABSENT", "QUEUED", "RUNNING"}

NobodyStarts ==
  \A v \in Workers :
    \/ pc'[v] = pc[v] /\ job'[v] = job[v]
    \/ pc'[v] \notin Runs \cup {"claimed", "failCrashed"}
    \/ pc[v] \in Runs /\ pc'[v] \in Runs /\ job'[v] = job[v]

Quiet == RowsOnlySettle /\ NobodyStarts /\ UNCHANGED <<startedAt, calls, nextJob>>

LEMMA QuietKeepsClaims ==
  ASSUME Shape, ClaimDiscipline, Quiet
  PROVE  ClaimDiscipline'
<1>1. /\ \A j \in JobIds : jobStatus'[j] \in {"ABSENT", "QUEUED"} => ~startedAt'[j]
      /\ \A j \in JobIds : jobStatus'[j] = "RUNNING" => startedAt'[j]
      /\ \A j \in JobIds : ~startedAt'[j] => calls'[j] = 0
      /\ \A j \in JobIds : j >= nextJob' => jobStatus'[j] = "ABSENT"
      /\ ProviderAtMostOnce'
  BY DEF ClaimDiscipline, Quiet, RowsOnlySettle, ProviderAtMostOnce, JobExists, NoRow
<1>2. /\ \A w \in Workers : (Executing(w) \/ pc[w] = "failCrashed")' => startedAt'[job'[w]]
      /\ \A w \in Workers : pc'[w] = "claimed" => calls'[job'[w]] = 0
      /\ \A w \in Workers : pc'[w] \in Runs => calls'[job'[w]] = 1
  BY DEF ClaimDiscipline, Quiet, NobodyStarts, Executing, Runs
<1>3. OneRunner'
  BY DEF ClaimDiscipline, Quiet, NobodyStarts, Executing, Runs, OneRunner
<1>4. QED
  BY <1>1, <1>2, <1>3 DEF ClaimDiscipline, Runs

\* A step that leaves the workers and the job rows alone is quiet.
LEMMA QuietFrame ==
  ASSUME UNCHANGED <<jobVars, workerVars>>
  PROVE  Quiet
BY DEF Quiet, RowsOnlySettle, NobodyStarts, jobVars, workerVars, holdVars

LEMMA ApiQuiet ==
  ASSUME Shape, NEW a \in Apis, ApiNext(a)
  PROVE  Quiet \/ CreateJob(a)
<1>1. ASSUME NEW m \in Movies, DeleteMovie(a, m)
      PROVE  Quiet
  BY <1>1
  DEF DeleteMovie, Quiet, RowsOnlySettle, NobodyStarts, workerVars, holdVars
<1>2. CASE CancelJob(a)
  BY <1>2
  DEF CancelJob, Quiet, RowsOnlySettle, NobodyStarts, workerVars, holdVars,
      Shape, TypeOK, JobTypes
<1>3. ASSUME \/ EnqueueJob(a) \/ MovieGenerating(a) \/ MovieDraft(a) \/ ApiAborts(a)
             \/ \E m \in Movies : \/ RequestGeneration(a, m) \/ CancelGeneration(a, m)
                                  \/ CreateDraft(a, m)
                                  \/ \E ready \in BOOLEAN : WriteStory(a, m, ready)
      PROVE  Quiet
  <2>1. UNCHANGED <<jobVars, workerVars>>
    BY <1>3 DEF EnqueueJob, MovieGenerating, MovieDraft, ApiAborts, RequestGeneration,
                CancelGeneration, CreateDraft, WriteStory
  <2>2. QED
    BY <2>1, QuietFrame
<1>4. QED
  BY <1>1, <1>2, <1>3 DEF ApiNext, ApiContinues

\* A worker that moves to a step outside a run begins nothing.
LEMMA MovesQuietly ==
  ASSUME Shape, NEW w \in Workers,
         NEW p \in {"down", "reclaim", "batch", "reclaimed", "claim", "marked", "movie", "ack"},
         Goto(w, p), \A v \in Workers \ {w} : job'[v] = job[v]
  PROVE  NobodyStarts
BY DEF Goto, NobodyStarts, Runs, Shape, TypeOK, WorkerTypes

LEMMA ExitsQuietly ==
  ASSUME Shape, NEW w \in Workers, Exit(w)
  PROVE  NobodyStarts
<1>1. Goto(w, "down") /\ \A v \in Workers \ {w} : job'[v] = job[v]
  BY DEF Exit, CloseSession, Shape, TypeOK, WorkerTypes
<1>2. QED
  BY <1>1, MovesQuietly

LEMMA WorkerQuiet ==
  ASSUME Shape, NEW w \in Workers, WorkerNext(w) \/ Crash(w)
  PROVE  Quiet \/ Claim(w) \/ StartProvider(w) \/ ReadReclaimed(w)
<1>1. ASSUME \/ Start(w) \/ TakeReclaimed(w) \/ Consume(w) \/ ConsumeNothing(w) \/ Ack(w)
             \/ \E batch \in SUBSET Reclaimable : Reclaim(w, batch)
      PROVE  Quiet
  <2>1. UNCHANGED <<jobVars, calls>>
    BY <1>1 DEF Start, TakeReclaimed, Consume, ConsumeNothing, Ack, Reclaim
  <2>2. \A v \in Workers \ {w} : job'[v] = job[v]
    BY <1>1 DEF Start, TakeReclaimed, Consume, ConsumeNothing, Ack, CloseSession, Reclaim,
                holdVars, Shape, TypeOK, WorkerTypes
  <2>3. \E p \in {"reclaim", "batch", "reclaimed", "claim"} : Goto(w, p)
    BY <1>1 DEF Start, TakeReclaimed, Consume, ConsumeNothing, Ack, Reclaim
  <2>4. NobodyStarts
    BY <2>2, <2>3, MovesQuietly
  <2>5. QED
    BY <2>1, <2>4 DEF Quiet, RowsOnlySettle, jobVars
<1>2. ASSUME Refresh(w) \/ \E p \in Reported : RecordProgress(w, p)
      PROVE  Quiet
  <2>1. UNCHANGED <<jobStatus, startedAt, nextJob, calls, job>>
    BY <1>2 DEF Refresh, RecordProgress, jobVars, holdVars
  <2>2. pc[w] \in Runs /\ \E p \in Runs : Goto(w, p)
    BY <1>2 DEF Refresh, RecordProgress, Runs
  <2>3. NobodyStarts
    BY <2>1, <2>2 DEF NobodyStarts, Goto, Shape, TypeOK, WorkerTypes
  <2>4. QED
    BY <2>1, <2>3 DEF Quiet, RowsOnlySettle
<1>3. ASSUME OrphanExits(w) \/ Crash(w) \/ RefreshMarked(w) \/ UpdateMovie(w)
      PROVE  Quiet
  <2>1. UNCHANGED <<jobVars, calls>>
    BY <1>3 DEF OrphanExits, Crash, RefreshMarked, UpdateMovie
  <2>2. \/ Exit(w)
        \/ UNCHANGED job /\ (Goto(w, "movie") \/ Goto(w, "ack"))
    BY <1>3 DEF OrphanExits, Crash, RefreshMarked, UpdateMovie, holdVars
  <2>3. NobodyStarts
    BY <2>2, ExitsQuietly, MovesQuietly
  <2>4. QED
    BY <2>1, <2>3 DEF Quiet, RowsOnlySettle, jobVars
<1>4. ASSUME FailCrashed(w) \/ \E result \in {"SUCCEEDED", "FAILED"} : Mark(w, result)
      PROVE  Quiet
  <2>1. UNCHANGED <<startedAt, nextJob, calls>> /\ job[w] \in JobIds
    BY <1>4 DEF FailCrashed, Mark, Shape, WorkerHandles
  <2>2. RowsOnlySettle
    BY <1>4, <2>1
    DEF FailCrashed, Mark, WriteOutcome, RowsOnlySettle, Shape, TypeOK, JobTypes
  <2>3. Exit(w) \/ (UNCHANGED job /\ (Goto(w, "marked") \/ Goto(w, "ack")))
    BY <1>4 DEF FailCrashed, Mark, holdVars
  <2>4. NobodyStarts
    BY <2>3, ExitsQuietly, MovesQuietly
  <2>5. QED
    BY <2>1, <2>2, <2>4 DEF Quiet
<1>5. QED
  BY <1>1, <1>2, <1>3, <1>4 DEF WorkerNext

LEMMA CreateJobKeepsClaims ==
  ASSUME Shape, ClaimDiscipline, NEW a \in Apis, CreateJob(a)
  PROVE  ClaimDiscipline'
<1>1. UNCHANGED <<startedAt, calls, workerVars>>
  BY DEF CreateJob, ApiReturns, jobVars, workerVars
<1>2. CASE MovieExists(apiMovie[a])
  <2>1. /\ nextJob \in JobIds /\ nextJob' = nextJob + 1 /\ nextJob \in Nat
        /\ jobStatus' = [jobStatus EXCEPT ![nextJob] = "QUEUED"]
    BY <1>2, MaxJobsAssumption DEF CreateJob, JobIds, Shape, TypeOK, JobTypes
  <2>2. jobStatus[nextJob] = "ABSENT"
    BY <2>1 DEF ClaimDiscipline
  <2>3. \A j \in JobIds : j # nextJob => jobStatus'[j] = jobStatus[j]
    BY <2>1 DEF Shape, TypeOK, JobTypes
  <2>4. jobStatus'[nextJob] = "QUEUED"
    BY <2>1 DEF Shape, TypeOK, JobTypes
  <2>5. /\ \A j \in JobIds : jobStatus'[j] \in {"ABSENT", "QUEUED"} => ~startedAt'[j]
        /\ \A j \in JobIds : jobStatus'[j] = "RUNNING" => startedAt'[j]
        /\ \A j \in JobIds : ~startedAt'[j] => calls'[j] = 0
    BY <1>1, <2>2, <2>3, <2>4 DEF ClaimDiscipline
  <2>6. \A j \in JobIds : j >= nextJob' => jobStatus'[j] = "ABSENT"
    BY <2>1, <2>3 DEF ClaimDiscipline, JobIds
  <2>7. QED
    BY <1>1, <2>5, <2>6
    DEF ClaimDiscipline, OneRunner, ProviderAtMostOnce, Executing, workerVars, holdVars
<1>3. CASE ~MovieExists(apiMovie[a])
  <2>1. Quiet
    BY <1>1, <1>3, QuietFrame DEF CreateJob
  <2>2. QED
    BY <2>1, QuietKeepsClaims
<1>4. QED
  BY <1>2, <1>3

\* The conditional UPDATE lets through only a row nobody has claimed, so the
\* winner is alone.
LEMMA ClaimKeepsClaims ==
  ASSUME Shape, ClaimDiscipline, NEW w \in Workers, Claim(w)
  PROVE  ClaimDiscipline'
<1>1. job[w] \in JobIds /\ UNCHANGED <<nextJob, job, calls>>
  BY DEF Claim, Shape, WorkerHandles, holdVars
<1>2. CASE Claimable(job[w])
  <2>1. /\ jobStatus[job[w]] = "QUEUED"
        /\ jobStatus' = [jobStatus EXCEPT ![job[w]] = "RUNNING"]
        /\ startedAt' = [startedAt EXCEPT ![job[w]] = TRUE]
        /\ pc' = [pc EXCEPT ![w] = "claimed"]
    BY <1>2 DEF Claim, Claimable, Goto
  <2>2. ~startedAt[job[w]] /\ calls[job[w]] = 0
    BY <1>1, <2>1 DEF ClaimDiscipline
  <2>3. \A v \in Workers : Executing(v) \/ pc[v] = "failCrashed" => job[v] # job[w]
    BY <2>2 DEF ClaimDiscipline
  <2>4. /\ \A j \in JobIds \ {job[w]} :
             jobStatus'[j] = jobStatus[j] /\ startedAt'[j] = startedAt[j]
        /\ jobStatus'[job[w]] = "RUNNING" /\ startedAt'[job[w]]
    BY <1>1, <2>1 DEF Shape, TypeOK, JobTypes
  <2>5. pc'[w] = "claimed" /\ \A v \in Workers \ {w} : pc'[v] = pc[v]
    BY <2>1 DEF Shape, TypeOK, WorkerTypes
  <2>6. /\ \A j \in JobIds : jobStatus'[j] \in {"ABSENT", "QUEUED"} => ~startedAt'[j]
        /\ \A j \in JobIds : jobStatus'[j] = "RUNNING" => startedAt'[j]
        /\ \A j \in JobIds : ~startedAt'[j] => calls'[j] = 0
        /\ \A j \in JobIds : j >= nextJob' => jobStatus'[j] = "ABSENT"
        /\ ProviderAtMostOnce'
    BY <1>1, <2>1, <2>4 DEF ClaimDiscipline, ProviderAtMostOnce
  <2>7. \A v \in Workers : (Executing(v) \/ pc[v] = "failCrashed")' => startedAt'[job'[v]]
    <3>1. ASSUME NEW v \in Workers \ {w}, (Executing(v) \/ pc[v] = "failCrashed")'
          PROVE  startedAt'[job'[v]]
      <4>1. Executing(v) \/ pc[v] = "failCrashed"
        BY <2>5, <3>1 DEF Executing
      <4>2. job[v] \in JobIds /\ startedAt[job[v]]
        BY <4>1 DEF ClaimDiscipline, Shape, WorkerHandles, Executing
      <4>3. QED
        BY <1>1, <2>3, <2>4, <4>1, <4>2
    <3>2. QED
      BY <1>1, <2>4, <3>1
  <2>8. /\ \A v \in Workers : pc'[v] = "claimed" => calls'[job'[v]] = 0
        /\ \A v \in Workers : pc'[v] \in Runs => calls'[job'[v]] = 1
    BY <1>1, <2>2, <2>5 DEF ClaimDiscipline, Runs
  <2>9. OneRunner'
    BY <1>1, <2>3, <2>5 DEF ClaimDiscipline, OneRunner, Executing
  <2>10. QED
    BY <2>6, <2>7, <2>8, <2>9 DEF ClaimDiscipline, Runs
<1>3. CASE ~Claimable(job[w])
  <2>1. Goto(w, "ack") /\ UNCHANGED <<jobStatus, startedAt>>
    BY <1>3 DEF Claim
  <2>2. Quiet
    BY <1>1, <2>1, MovesQuietly DEF Quiet, RowsOnlySettle
  <2>3. QED
    BY <2>2, QuietKeepsClaims
<1>4. QED
  BY <1>2, <1>3

LEMMA StartProviderKeepsClaims ==
  ASSUME Shape, ClaimDiscipline, NEW w \in Workers, StartProvider(w)
  PROVE  ClaimDiscipline'
<1>1. job[w] \in JobIds /\ UNCHANGED <<nextJob, job, jobStatus, startedAt>>
  BY DEF StartProvider, Shape, WorkerHandles, holdVars, jobVars
<1>2. CASE JobExists(job[w])
  <2>1. /\ calls' = [calls EXCEPT ![job[w]] = @ + 1]
        /\ pc' = [pc EXCEPT ![w] = "running"]
    BY <1>2 DEF StartProvider, Goto
  <2>2. calls[job[w]] = 0 /\ startedAt[job[w]] /\ Executing(w)
    BY DEF ClaimDiscipline, StartProvider, Executing
  <2>3. calls'[job[w]] = 1 /\ \A j \in JobIds \ {job[w]} : calls'[j] = calls[j]
    BY <1>1, <2>1, <2>2 DEF Shape, TypeOK, CountTypes
  <2>4. pc'[w] = "running" /\ \A v \in Workers \ {w} : pc'[v] = pc[v]
    BY <2>1 DEF Shape, TypeOK, WorkerTypes
  <2>5. \A v \in Workers \ {w} : Executing(v) => job[v] # job[w] /\ job[v] \in JobIds
    BY <2>2 DEF ClaimDiscipline, OneRunner, Shape, WorkerHandles, Executing
  <2>6. /\ \A j \in JobIds : ~startedAt'[j] => calls'[j] = 0
        /\ ProviderAtMostOnce'
    BY <1>1, <2>2, <2>3 DEF ClaimDiscipline, ProviderAtMostOnce
  <2>7. /\ \A v \in Workers : pc'[v] = "claimed" => calls'[job'[v]] = 0
        /\ \A v \in Workers : pc'[v] \in Runs => calls'[job'[v]] = 1
    BY <1>1, <2>3, <2>4, <2>5 DEF ClaimDiscipline, Runs, Executing
  <2>8. /\ OneRunner'
        /\ \A v \in Workers : (Executing(v) \/ pc[v] = "failCrashed")' => startedAt'[job'[v]]
    BY <1>1, <2>2, <2>4 DEF ClaimDiscipline, OneRunner, Executing
  <2>9. QED
    BY <1>1, <2>6, <2>7, <2>8 DEF ClaimDiscipline, Runs
<1>3. CASE ~JobExists(job[w])
  <2>1. Goto(w, "ack") /\ UNCHANGED calls
    BY <1>3 DEF StartProvider
  <2>2. Quiet
    BY <1>1, <2>1, MovesQuietly DEF Quiet, RowsOnlySettle
  <2>3. QED
    BY <2>2, QuietKeepsClaims
<1>4. QED
  BY <1>2, <1>3

\* Only a job that was claimed is about to be failed as crashed.
LEMMA ReadReclaimedKeepsClaims ==
  ASSUME Shape, ClaimDiscipline, NEW w \in Workers, ReadReclaimed(w)
  PROVE  ClaimDiscipline'
<1>1. job[w] \in JobIds /\ UNCHANGED <<nextJob, job, jobStatus, startedAt, calls>>
  BY DEF ReadReclaimed, Shape, WorkerHandles, holdVars, jobVars
<1>2. CASE jobStatus[job[w]] = "RUNNING"
  <2>1. pc' = [pc EXCEPT ![w] = "failCrashed"] /\ startedAt[job[w]]
    BY <1>1, <1>2 DEF ReadReclaimed, Goto, IN_PROGRESS_STATUSES, ClaimDiscipline
  <2>2. pc'[w] = "failCrashed" /\ \A v \in Workers \ {w} : pc'[v] = pc[v]
    BY <2>1 DEF Shape, TypeOK, WorkerTypes
  <2>3. QED
    BY <1>1, <2>1, <2>2 DEF ClaimDiscipline, Executing, OneRunner, ProviderAtMostOnce
<1>3. CASE jobStatus[job[w]] # "RUNNING"
  <2>1. Goto(w, "claim") \/ Goto(w, "ack")
    BY <1>3 DEF ReadReclaimed
  <2>2. Quiet
    BY <1>1, <2>1, MovesQuietly DEF Quiet, RowsOnlySettle
  <2>3. QED
    BY <2>2, QuietKeepsClaims
<1>4. QED
  BY <1>2, <1>3

LEMMA InitClaims == Init => ClaimDiscipline
BY DEF Init, NothingStarted, ClaimDiscipline, OneRunner, ProviderAtMostOnce, Executing

LEMMA StepKeepsClaims == Shape /\ ClaimDiscipline /\ [Next]_vars => ClaimDiscipline'
<1> SUFFICES ASSUME Shape, ClaimDiscipline, [Next]_vars PROVE ClaimDiscipline'
  OBVIOUS
<1>1. ASSUME NEW a \in Apis, ApiNext(a)
      PROVE  ClaimDiscipline'
  BY <1>1, ApiQuiet, QuietKeepsClaims, CreateJobKeepsClaims
<1>2. ASSUME NEW w \in Workers, WorkerNext(w) \/ Crash(w)
      PROVE  ClaimDiscipline'
  BY <1>2, WorkerQuiet, QuietKeepsClaims, ClaimKeepsClaims, StartProviderKeepsClaims,
     ReadReclaimedKeepsClaims
<1>3. CASE UNCHANGED vars
  BY <1>3, QuietFrame, QuietKeepsClaims DEF vars
<1>4. QED
  BY <1>1, <1>2, <1>3 DEF Next

\* The inductive invariant of the claim: who may run a job and who has called
\* the provider, over all deliveries, reclaims, crashes and deletions.
THEOREM ClaimDisciplineAlways == Spec => []ClaimDiscipline
BY ShapeAlways, InitClaims, StepKeepsClaims, PTL DEF Spec

\* The provider is called at most once per job, and two live workers never run
\* the same job.
THEOREM AtMostOneProviderCall == Spec => [](ProviderAtMostOnce /\ OneRunner)
<1>1. ClaimDiscipline => ProviderAtMostOnce /\ OneRunner
  BY DEF ClaimDiscipline
<1>2. QED
  BY <1>1, ClaimDisciplineAlways, PTL

-----------------------------------------------------------------------------
(* VideoGeneration implements GenerationLifecycle.                         *)

LEMMA InitRefines == Init => Lifecycle!Init
BY DEF Init, NothingStarted, Lifecycle!Init

LEMMA ApiRefines ==
  ASSUME Shape, ClaimDiscipline, NEW a \in Apis, ApiNext(a)
  PROVE  [Lifecycle!Next]_(Lifecycle!vars)
<1>1. CASE CreateJob(a)
  <2>1. UNCHANGED <<startedAt, calls>>
    BY <1>1 DEF CreateJob, jobVars, workerVars
  <2>2. CASE MovieExists(apiMovie[a])
    <3>1. nextJob \in JobIds /\ jobStatus' = [jobStatus EXCEPT ![nextJob] = "QUEUED"]
      BY <1>1, <2>2 DEF CreateJob, JobIds, Shape, TypeOK, JobTypes
    <3>2. jobStatus[nextJob] = "ABSENT"
      BY <3>1, MaxJobsAssumption DEF ClaimDiscipline, JobIds
    <3>3. Lifecycle!Submit(nextJob)
      BY <2>1, <3>1, <3>2 DEF Lifecycle!Submit
    <3>4. QED
      BY <3>1, <3>3 DEF Lifecycle!Next
  <2>3. CASE ~MovieExists(apiMovie[a])
    BY <1>1, <2>1, <2>3 DEF CreateJob, jobVars, Lifecycle!vars
  <2>4. QED
    BY <2>2, <2>3
<1>2. CASE CancelJob(a)
  <2>1. UNCHANGED <<startedAt, calls>> /\ apiJob[a] \in JobIds
    BY <1>2 DEF CancelJob, workerVars, Shape, ApiHandles
  <2>2. CASE JobExists(apiJob[a])
    <3>1. jobStatus[apiJob[a]] \in Lifecycle!Rows
      BY <2>1, <2>2 DEF Shape, TypeOK, JobTypes, JobExists, JobStatus, IN_PROGRESS_STATUSES,
                        Lifecycle!Rows, Lifecycle!InProgress, Lifecycle!Settled
    <3>2. Lifecycle!Settle(apiJob[a], "CANCELED")
      BY <1>2, <2>1, <2>2, <3>1 DEF CancelJob, Lifecycle!Settle, Lifecycle!Settled
    <3>3. QED
      BY <2>1, <3>2 DEF Lifecycle!Next, Lifecycle!Settled
  <2>3. CASE ~JobExists(apiJob[a])
    BY <1>2, <2>1, <2>3 DEF CancelJob, Lifecycle!vars
  <2>4. QED
    BY <2>2, <2>3
<1>3. ASSUME NEW m \in Movies, DeleteMovie(a, m)
      PROVE  Lifecycle!Next
  <2> DEFINE gone == {j \in JobIds : jobMovie[j] = m /\ JobExists(j)}
  <2>1. UNCHANGED <<startedAt, calls>>
    BY <1>3 DEF DeleteMovie, workerVars
  <2>2. \A j \in gone : jobStatus[j] \in Lifecycle!Rows
    BY DEF Shape, TypeOK, JobTypes, JobExists, JobStatus, IN_PROGRESS_STATUSES,
           Lifecycle!Rows, Lifecycle!InProgress, Lifecycle!Settled
  <2>3. jobStatus' = [j \in JobIds |-> IF j \in gone THEN "DELETED" ELSE jobStatus[j]]
    BY <1>3 DEF DeleteMovie
  <2>4. Lifecycle!Remove(gone)
    BY <2>1, <2>2, <2>3 DEF Lifecycle!Remove
  <2>5. gone \in SUBSET JobIds
    OBVIOUS
  <2>6. QED
    BY <2>4, <2>5 DEF Lifecycle!Next
<1>4. ASSUME \/ EnqueueJob(a) \/ MovieGenerating(a) \/ MovieDraft(a) \/ ApiAborts(a)
             \/ \E m \in Movies : \/ RequestGeneration(a, m) \/ CancelGeneration(a, m)
                                  \/ CreateDraft(a, m)
                                  \/ \E ready \in BOOLEAN : WriteStory(a, m, ready)
      PROVE  UNCHANGED Lifecycle!vars
  BY <1>4 DEF EnqueueJob, MovieGenerating, MovieDraft, ApiAborts, RequestGeneration,
              CancelGeneration, CreateDraft, WriteStory, jobVars, workerVars, Lifecycle!vars
<1>5. QED
  BY <1>1, <1>2, <1>3, <1>4 DEF ApiNext, ApiContinues

\* Storing a worker's result is the abstract settlement of a claimed job.
LEMMA OutcomeRefines ==
  ASSUME Shape, NEW j \in JobIds, JobExists(j), startedAt[j],
         NEW result \in {"SUCCEEDED", "FAILED"}, result = "SUCCEEDED" => calls[j] = 1,
         WriteOutcome(j, result), UNCHANGED <<startedAt, calls>>
  PROVE  Lifecycle!Next
<1>1. jobStatus[j] \in Lifecycle!Rows
  BY DEF Shape, TypeOK, JobTypes, JobExists, JobStatus, IN_PROGRESS_STATUSES,
         Lifecycle!Rows, Lifecycle!InProgress, Lifecycle!Settled
<1>2. Lifecycle!Settle(j, result)
  BY <1>1 DEF WriteOutcome, Lifecycle!Settle, Lifecycle!Settled
<1>3. QED
  BY <1>2 DEF Lifecycle!Next, Lifecycle!Settled

LEMMA WorkerRefines ==
  ASSUME Shape, ClaimDiscipline, NEW w \in Workers, WorkerNext(w) \/ Crash(w)
  PROVE  [Lifecycle!Next]_(Lifecycle!vars)
<1>1. CASE Claim(w)
  <2>1. job[w] \in JobIds /\ UNCHANGED calls
    BY <1>1 DEF Claim, Shape, WorkerHandles
  <2>2. CASE Claimable(job[w])
    <3>1. Lifecycle!Claim(job[w])
      BY <1>1, <2>1, <2>2 DEF Claim, Claimable, Lifecycle!Claim
    <3>2. QED
      BY <2>1, <3>1 DEF Lifecycle!Next
  <2>3. CASE ~Claimable(job[w])
    BY <1>1, <2>1, <2>3 DEF Claim, Lifecycle!vars
  <2>4. QED
    BY <2>2, <2>3
<1>2. CASE StartProvider(w)
  <2>1. job[w] \in JobIds /\ UNCHANGED <<jobStatus, startedAt>>
    BY <1>2 DEF StartProvider, Shape, WorkerHandles, jobVars
  <2>2. CASE JobExists(job[w])
    <3>1. calls[job[w]] = 0 /\ startedAt[job[w]]
      BY <1>2 DEF ClaimDiscipline, StartProvider, Executing
    <3>2. calls' = [calls EXCEPT ![job[w]] = 1]
      BY <1>2, <2>2, <3>1 DEF StartProvider
    <3>3. Lifecycle!CallProvider(job[w])
      BY <2>1, <3>1, <3>2 DEF Lifecycle!CallProvider
    <3>4. QED
      BY <2>1, <3>3 DEF Lifecycle!Next
  <2>3. CASE ~JobExists(job[w])
    BY <1>2, <2>1, <2>3 DEF StartProvider, Lifecycle!vars
  <2>4. QED
    BY <2>2, <2>3
<1>3. ASSUME NEW result \in {"SUCCEEDED", "FAILED"}, Mark(w, result)
      PROVE  [Lifecycle!Next]_(Lifecycle!vars)
  <2>1. UNCHANGED <<startedAt, calls>> /\ job[w] \in JobIds
    BY <1>3 DEF Mark, Shape, WorkerHandles
  <2>2. startedAt[job[w]] /\ calls[job[w]] = 1
    BY <1>3 DEF Mark, ClaimDiscipline, Executing
  <2>3. CASE MarkAllowed(saw[w].status, result) /\ JobExists(job[w])
    BY <1>3, <2>1, <2>2, <2>3, OutcomeRefines DEF Mark
  <2>4. CASE ~(MarkAllowed(saw[w].status, result) /\ JobExists(job[w]))
    BY <1>3, <2>1, <2>4 DEF Mark, Lifecycle!vars
  <2>5. QED
    BY <2>3, <2>4
<1>4. CASE FailCrashed(w)
  <2>1. UNCHANGED <<startedAt, calls>> /\ job[w] \in JobIds /\ startedAt[job[w]]
    BY <1>4 DEF FailCrashed, Shape, WorkerHandles, ClaimDiscipline
  <2>2. CASE JobExists(job[w])
    BY <1>4, <2>1, <2>2, OutcomeRefines DEF FailCrashed
  <2>3. CASE ~JobExists(job[w])
    BY <1>4, <2>1, <2>3 DEF FailCrashed, Lifecycle!vars
  <2>4. QED
    BY <2>2, <2>3
<1>5. ASSUME \/ Start(w) \/ TakeReclaimed(w) \/ Consume(w) \/ ConsumeNothing(w) \/ Ack(w)
             \/ ReadReclaimed(w) \/ Refresh(w) \/ OrphanExits(w) \/ Crash(w)
             \/ RefreshMarked(w) \/ UpdateMovie(w)
             \/ \E batch \in SUBSET Reclaimable : Reclaim(w, batch)
             \/ \E p \in Reported : RecordProgress(w, p)
      PROVE  UNCHANGED Lifecycle!vars
  BY <1>5 DEF Start, TakeReclaimed, Consume, ConsumeNothing, Ack, ReadReclaimed, Refresh,
              OrphanExits, Crash, RefreshMarked, UpdateMovie, Reclaim, RecordProgress,
              jobVars, Lifecycle!vars
<1>6. QED
  BY <1>1, <1>2, <1>3, <1>4, <1>5 DEF WorkerNext

\* Whatever the interleaving, the pipeline does to a job row only what the
\* abstract life cycle allows: one claim, one provider call after it, no way
\* back into progress from a settled state.
THEOREM Refinement == Spec => ImplementsLifecycle
<1>1. Shape /\ ClaimDiscipline /\ [Next]_vars => [Lifecycle!Next]_(Lifecycle!vars)
  <2> SUFFICES ASSUME Shape, ClaimDiscipline, [Next]_vars
               PROVE  [Lifecycle!Next]_(Lifecycle!vars)
    OBVIOUS
  <2>1. CASE UNCHANGED vars
    BY <2>1 DEF vars, jobVars, workerVars, Lifecycle!vars
  <2>2. QED
    BY <2>1, ApiRefines, WorkerRefines DEF Next
<1>2. QED
  BY <1>1, InitRefines, ShapeAlways, ClaimDisciplineAlways, PTL
  DEF Spec, ImplementsLifecycle, Lifecycle!Spec

-----------------------------------------------------------------------------
(* At most one job in progress per movie, with a single API process.       *)

InProgressStatus(j) == jobStatus[j] \in IN_PROGRESS_STATUSES

\* Between the check and the INSERT of a request, its movie has no job in
\* progress.
CheckStillHolds ==
  \A a \in Apis : apiPc[a] = "create" =>
    \A j \in JobIds : jobMovie[j] = apiMovie[a] => ~InProgressStatus(j)

\* Steps that put no job in progress and pass no check.
NoNewWork ==
  /\ jobMovie' = jobMovie
  /\ \A j \in JobIds : InProgressStatus(j)' => InProgressStatus(j)
  /\ \A a \in Apis : apiPc'[a] = "create" => apiPc[a] = "create" /\ apiMovie'[a] = apiMovie[a]

LEMMA NoNewWorkKeepsOne ==
  ASSUME OneInProgressPerMovie, CheckStillHolds, NoNewWork
  PROVE  (OneInProgressPerMovie /\ CheckStillHolds)'
BY DEF OneInProgressPerMovie, CheckStillHolds, NoNewWork, InProgressStatus

LEMMA ReturnAddsNoWork ==
  ASSUME Shape, NEW a \in Apis, ApiReturns(a), UNCHANGED jobVars
  PROVE  NoNewWork
BY DEF ApiReturns, NoNewWork, InProgressStatus, jobVars, Shape, TypeOK, ApiTypes

LEMMA ApiAddsNoWork ==
  ASSUME Shape, NEW a \in Apis, ApiNext(a)
  PROVE  NoNewWork \/ CreateJob(a) \/ \E m \in Movies : RequestGeneration(a, m)
<1>1. CASE EnqueueJob(a) \/ MovieGenerating(a) \/ MovieDraft(a) \/ ApiAborts(a)
  <2>1. UNCHANGED jobVars
    BY <1>1 DEF EnqueueJob, MovieGenerating, MovieDraft, ApiAborts
  <2>2. CASE ApiReturns(a)
    BY <2>1, <2>2, ReturnAddsNoWork
  <2>3. CASE ~ApiReturns(a)
    <3>1. apiPc' = [apiPc EXCEPT ![a] = "generating"] /\ UNCHANGED apiMovie
      BY <1>1, <2>3 DEF EnqueueJob, MovieGenerating, MovieDraft, ApiAborts
    <3>2. QED
      BY <2>1, <3>1 DEF NoNewWork, InProgressStatus, jobVars, Shape, TypeOK, ApiTypes
  <2>4. QED
    BY <2>2, <2>3
<1>2. CASE CancelJob(a)
  <2>1. CASE JobExists(apiJob[a])
    BY <1>2, <2>1
    DEF CancelJob, NoNewWork, InProgressStatus, IN_PROGRESS_STATUSES,
        Shape, TypeOK, ApiTypes, JobTypes
  <2>2. CASE ~JobExists(apiJob[a])
    BY <1>2, <2>2, ReturnAddsNoWork DEF CancelJob, jobVars
  <2>3. QED
    BY <2>1, <2>2
<1>3. ASSUME NEW m \in Movies, CancelGeneration(a, m)
      PROVE  NoNewWork
  BY <1>3 DEF CancelGeneration, NoNewWork, InProgressStatus, jobVars, Shape, TypeOK, ApiTypes
<1>4. ASSUME NEW m \in Movies, DeleteMovie(a, m)
      PROVE  NoNewWork
  BY <1>4 DEF DeleteMovie, NoNewWork, InProgressStatus, IN_PROGRESS_STATUSES, apiVars
<1>5. ASSUME NEW m \in Movies,
             CreateDraft(a, m) \/ \E ready \in BOOLEAN : WriteStory(a, m, ready)
      PROVE  NoNewWork
  BY <1>5 DEF CreateDraft, WriteStory, NoNewWork, InProgressStatus, jobVars, apiVars
<1>6. QED
  BY <1>1, <1>2, <1>3, <1>4, <1>5 DEF ApiNext, ApiContinues

LEMMA WorkerAddsNoWork ==
  ASSUME Shape, NEW w \in Workers, WorkerNext(w) \/ Crash(w)
  PROVE  NoNewWork
<1>1. UNCHANGED <<jobMovie, apiVars>>
  BY DEF WorkerNext, Crash, Start, Reclaim, TakeReclaimed, Consume, ConsumeNothing,
         ReadReclaimed, Claim, StartProvider, RecordProgress, Refresh, OrphanExits, Mark,
         FailCrashed, RefreshMarked, UpdateMovie, Ack, jobVars
<1>2. ASSUME NEW j \in JobIds, InProgressStatus(j)'
      PROVE  InProgressStatus(j)
  <2>1. CASE Claim(w)
    BY <1>2, <2>1
    DEF Claim, Claimable, InProgressStatus, IN_PROGRESS_STATUSES,
        Shape, TypeOK, JobTypes, WorkerHandles
  <2>2. CASE StartProvider(w) \/ ReadReclaimed(w)
    BY <1>2, <2>2 DEF StartProvider, ReadReclaimed, jobVars, InProgressStatus
  <2>3. CASE Quiet
    BY <1>2, <2>3 DEF Quiet, RowsOnlySettle, InProgressStatus, IN_PROGRESS_STATUSES
  <2>4. QED
    BY <2>1, <2>2, <2>3, WorkerQuiet
<1>3. QED
  BY <1>1, <1>2 DEF NoNewWork, apiVars

LEMMA StepKeepsOne ==
  ASSUME \A a, b \in Apis : a = b,
         Shape, OneInProgressPerMovie, CheckStillHolds, [Next]_vars
  PROVE  (OneInProgressPerMovie /\ CheckStillHolds)'
<1>1. ASSUME NEW a \in Apis, NEW m \in Movies, RequestGeneration(a, m)
      PROVE  (OneInProgressPerMovie /\ CheckStillHolds)'
  <2>1. UNCHANGED <<jobMovie, jobStatus>> /\ InProgress(m) = {} /\ apiMovie'[a] = m
    BY <1>1 DEF RequestGeneration, jobVars, Shape, TypeOK, ApiTypes
  <2>2. OneInProgressPerMovie'
    BY <2>1 DEF OneInProgressPerMovie
  <2>3. \A j \in JobIds : jobMovie'[j] = apiMovie'[a] => ~InProgressStatus(j)'
    BY <2>1 DEF InProgress, InProgressStatus
  <2>4. \A b \in Apis : b = a
    OBVIOUS
  <2>5. CheckStillHolds'
    BY <2>3, <2>4 DEF CheckStillHolds
  <2>6. QED
    BY <2>2, <2>5
<1>2. ASSUME NEW a \in Apis, CreateJob(a)
      PROVE  (OneInProgressPerMovie /\ CheckStillHolds)'
  <2>1. CASE MovieExists(apiMovie[a])
    <3>1. /\ nextJob \in JobIds
          /\ jobMovie' = [jobMovie EXCEPT ![nextJob] = apiMovie[a]]
          /\ jobStatus' = [jobStatus EXCEPT ![nextJob] = "QUEUED"]
          /\ apiPc' = [apiPc EXCEPT ![a] = "enqueue"]
          /\ apiPc[a] = "create"
      BY <1>2, <2>1 DEF CreateJob, JobIds, Shape, TypeOK, JobTypes
    <3>2. /\ jobMovie'[nextJob] = apiMovie[a]
          /\ \A j \in JobIds \ {nextJob} :
               jobMovie'[j] = jobMovie[j] /\ jobStatus'[j] = jobStatus[j]
      BY <3>1 DEF Shape, TypeOK, JobTypes
    <3>3. \A j \in JobIds : jobMovie[j] = apiMovie[a] => ~InProgressStatus(j)
      BY <3>1 DEF CheckStillHolds
    <3>4. OneInProgressPerMovie'
      BY <3>2, <3>3 DEF OneInProgressPerMovie, InProgressStatus
    <3>5. \A b \in Apis : apiPc'[b] = "enqueue"
      BY <3>1 DEF Shape, TypeOK, ApiTypes
    <3>6. QED
      BY <3>4, <3>5 DEF CheckStillHolds
  <2>2. CASE ~MovieExists(apiMovie[a])
    BY <1>2, <2>2, ReturnAddsNoWork, NoNewWorkKeepsOne DEF CreateJob
  <2>3. QED
    BY <2>1, <2>2
<1>3. CASE UNCHANGED vars
  BY <1>3, NoNewWorkKeepsOne DEF vars, jobVars, apiVars, NoNewWork, InProgressStatus
<1>4. QED
  BY <1>1, <1>2, <1>3, ApiAddsNoWork, WorkerAddsNoWork, NoNewWorkKeepsOne DEF Next

\* With one API process, no interleaving of requests, workers and crashes gives
\* a movie two jobs in progress, although the check and the INSERT are separate
\* transactions.
THEOREM OneJobPerMovie ==
  ASSUME \A a, b \in Apis : a = b
  PROVE  Spec => []OneInProgressPerMovie
<1>1. Init => OneInProgressPerMovie /\ CheckStillHolds
  BY DEF Init, NothingStarted, OneInProgressPerMovie, CheckStillHolds, IN_PROGRESS_STATUSES
<1>2. Shape /\ OneInProgressPerMovie /\ CheckStillHolds /\ [Next]_vars
        => (OneInProgressPerMovie /\ CheckStillHolds)'
  BY StepKeepsOne
<1>3. QED
  BY <1>1, <1>2, ShapeAlways, PTL DEF Spec

-----------------------------------------------------------------------------
(* Progress.                                                               *)

\* Only the runner of a job writes its progress, so what it saw is current.
ProgressSeen ==
  /\ \A w \in Workers : pc[w] = "running" => saw[w].progress = progress[job[w]]
  /\ \A j \in JobIds : jobStatus[j] \in {"ABSENT", "QUEUED"} => progress[j] = 0

NoRowGoesBack == \A j \in JobIds : progress'[j] >= progress[j]

\* A step that leaves progress alone and lets nobody begin to run.
LEMMA ProgressFrame ==
  ASSUME Shape, ProgressSeen, UNCHANGED progress,
         \A j \in JobIds : jobStatus'[j] \in {"ABSENT", "QUEUED"}
                             => jobStatus[j] \in {"ABSENT", "QUEUED"},
         \A w \in Workers : pc'[w] = "running" =>
           pc[w] = "running" /\ saw'[w] = saw[w] /\ job'[w] = job[w]
  PROVE  ProgressSeen' /\ NoRowGoesBack
<1>1. \A j \in JobIds : progress[j] \in Nat
  BY DEF Shape, TypeOK, JobTypes
<1>2. QED
  BY <1>1 DEF ProgressSeen, NoRowGoesBack

LEMMA ApiKeepsProgress ==
  ASSUME Shape, ClaimDiscipline, ProgressSeen, NEW a \in Apis, ApiNext(a)
  PROVE  ProgressSeen' /\ NoRowGoesBack
<1>1. UNCHANGED <<progress, pc, job, saw>>
  BY DEF ApiNext, ApiContinues, CreateJob, EnqueueJob, MovieGenerating, CancelJob, MovieDraft,
         ApiAborts, RequestGeneration, CancelGeneration, CreateDraft, DeleteMovie, WriteStory,
         jobVars, workerVars, holdVars, readVars
<1>2. ASSUME NEW j \in JobIds, jobStatus'[j] \in {"ABSENT", "QUEUED"}
      PROVE  jobStatus[j] \in {"ABSENT", "QUEUED"}
  <2>1. CASE Quiet
    BY <1>2, <2>1 DEF Quiet, RowsOnlySettle
  <2>2. CASE CreateJob(a)
    <3>1. CASE MovieExists(apiMovie[a])
      <4>1. jobStatus' = [jobStatus EXCEPT ![nextJob] = "QUEUED"] /\ nextJob \in JobIds
        BY <2>2, <3>1 DEF CreateJob, JobIds, Shape, TypeOK, JobTypes
      <4>2. jobStatus[nextJob] = "ABSENT"
        BY <4>1, MaxJobsAssumption DEF ClaimDiscipline, JobIds
      <4>3. QED
        BY <1>2, <4>1, <4>2 DEF Shape, TypeOK, JobTypes
    <3>2. CASE ~MovieExists(apiMovie[a])
      BY <1>2, <2>2, <3>2 DEF CreateJob, jobVars
    <3>3. QED
      BY <3>1, <3>2
  <2>3. QED
    BY <2>1, <2>2, ApiQuiet
<1>3. QED
  BY <1>1, <1>2, ProgressFrame

\* The worker that writes a job's progress is its only runner.
LEMMA RunnerKeepsProgress ==
  ASSUME Shape, ClaimDiscipline, ProgressSeen, NEW w \in Workers,
         job[w] \in JobIds, UNCHANGED <<saw, job>>,
         NEW p \in 0..100, p >= progress[job[w]],
         progress' = [progress EXCEPT ![job[w]] = p],
         \A j \in JobIds : jobStatus'[j] \in {"ABSENT", "QUEUED"}
                             => j # job[w] /\ jobStatus[j] \in {"ABSENT", "QUEUED"},
         \A v \in Workers \ {w} : pc'[v] = pc[v],
         pc'[w] # "running",
         \A v \in Workers \ {w} : pc[v] = "running" => job[v] # job[w]
  PROVE  ProgressSeen' /\ NoRowGoesBack
<1>1. /\ progress'[job[w]] = p
      /\ \A j \in JobIds \ {job[w]} : progress'[j] = progress[j]
      /\ \A j \in JobIds : progress[j] \in Nat
  BY DEF Shape, TypeOK, JobTypes
<1>2. NoRowGoesBack
  BY <1>1 DEF NoRowGoesBack
<1>3. \A v \in Workers : pc'[v] = "running" => job[v] \in JobIds \ {job[w]}
  BY DEF Shape, WorkerHandles
<1>4. ProgressSeen'
  BY <1>1, <1>3 DEF ProgressSeen
<1>5. QED
  BY <1>2, <1>4

LEMMA WorkerKeepsProgress ==
  ASSUME Shape, ClaimDiscipline, ProgressSeen, NEW w \in Workers, WorkerNext(w) \/ Crash(w)
  PROVE  ProgressSeen' /\ NoRowGoesBack
<1>1. CASE Claim(w)
  <2>1. job[w] \in JobIds /\ UNCHANGED <<saw, job>>
    BY <1>1 DEF Claim, Shape, WorkerHandles, readVars, holdVars
  <2>2. CASE Claimable(job[w])
    <3>1. /\ jobStatus[job[w]] = "QUEUED"
          /\ jobStatus' = [jobStatus EXCEPT ![job[w]] = "RUNNING"]
          /\ progress' = [progress EXCEPT ![job[w]] = 1]
          /\ pc' = [pc EXCEPT ![w] = "claimed"]
      BY <1>1, <2>2 DEF Claim, Claimable, Goto
    <3>2. progress[job[w]] = 0
      BY <2>1, <3>1 DEF ProgressSeen
    <3>3. \A j \in JobIds : jobStatus'[j] \in {"ABSENT", "QUEUED"}
                              => j # job[w] /\ jobStatus[j] \in {"ABSENT", "QUEUED"}
      BY <2>1, <3>1 DEF Shape, TypeOK, JobTypes
    <3>4. pc'[w] # "running" /\ \A v \in Workers \ {w} : pc'[v] = pc[v]
      BY <3>1 DEF Shape, TypeOK, WorkerTypes
    <3>5. \A v \in Workers \ {w} : pc[v] = "running" => job[v] # job[w]
      BY <2>1, <3>1 DEF ClaimDiscipline, Executing
    <3>6. 1 \in 0..100 /\ 1 >= progress[job[w]]
      BY <3>2
    <3>7. QED
      BY <2>1, <3>1, <3>3, <3>4, <3>5, <3>6, RunnerKeepsProgress, Zenon
  <2>3. CASE ~Claimable(job[w])
    <3>1. UNCHANGED <<jobStatus, progress>> /\ pc' = [pc EXCEPT ![w] = "ack"]
      BY <1>1, <2>3 DEF Claim, Goto
    <3>2. QED
      BY <2>1, <3>1, ProgressFrame DEF Shape, TypeOK, WorkerTypes
  <2>4. QED
    BY <2>2, <2>3
<1>2. ASSUME NEW r \in Reported, RecordProgress(w, r)
      PROVE  ProgressSeen' /\ NoRowGoesBack
  <2>1. job[w] \in JobIds /\ UNCHANGED <<saw, job, jobStatus>>
    BY <1>2 DEF RecordProgress, Shape, WorkerHandles, readVars, holdVars
  <2>2. /\ pc[w] = "running" /\ saw[w].progress = progress[job[w]]
        /\ saw[w].progress \in 0..100
    BY <1>2 DEF RecordProgress, ProgressSeen, Shape, TypeOK, WorkerTypes
  <2>3. pc'[w] # "running" /\ \A v \in Workers \ {w} : pc'[v] = pc[v]
    BY <1>2 DEF RecordProgress, Goto, Shape, TypeOK, WorkerTypes
  <2>4. CASE UNCHANGED progress
    BY <2>1, <2>3, <2>4, ProgressFrame
  <2>5. CASE ~UNCHANGED progress
    <3> DEFINE new == NewProgress(saw[w].progress, r)
    <3>1. JobExists(job[w]) /\ progress' = [progress EXCEPT ![job[w]] = new]
      BY <1>2, <2>5 DEF RecordProgress
    <3>2. new \in 0..100 /\ new >= progress[job[w]]
      BY <2>2, NewProgressBounds
    <3>3. \A v \in Workers \ {w} : pc[v] = "running" => job[v] # job[w]
      BY <2>2 DEF ClaimDiscipline, OneRunner, Executing
    <3>4. startedAt[job[w]]
      BY <2>2 DEF ClaimDiscipline, Executing
    <3>5. \A j \in JobIds : jobStatus'[j] \in {"ABSENT", "QUEUED"}
                              => j # job[w] /\ jobStatus[j] \in {"ABSENT", "QUEUED"}
      BY <2>1, <3>4 DEF ClaimDiscipline
    <3> HIDE DEF new
    <3>6. QED
      BY <2>1, <2>3, <3>1, <3>2, <3>3, <3>5, RunnerKeepsProgress, Zenon
  <2>6. QED
    BY <2>4, <2>5
<1>3. ASSUME NEW result \in {"SUCCEEDED", "FAILED"}, Mark(w, result)
      PROVE  ProgressSeen' /\ NoRowGoesBack
  <2>1. job[w] \in JobIds /\ pc[w] = "running" /\ startedAt[job[w]]
    BY <1>3 DEF Mark, Shape, WorkerHandles, ClaimDiscipline, Executing
  <2>2. pc'[w] # "running" /\ \A v \in Workers \ {w} :
          pc'[v] = pc[v] /\ saw'[v] = saw[v] /\ job'[v] = job[v]
    BY <1>3 DEF Mark, Exit, CloseSession, Goto, holdVars, readVars, Shape, TypeOK, WorkerTypes
  <2>3. \A j \in JobIds : jobStatus'[j] \in {"ABSENT", "QUEUED"}
                            => j # job[w] /\ jobStatus[j] \in {"ABSENT", "QUEUED"}
    BY <1>3, <2>1 DEF Mark, WriteOutcome, ClaimDiscipline, Shape, TypeOK, JobTypes
  <2>4. CASE UNCHANGED progress
    BY <2>2, <2>3, <2>4, ProgressFrame
  <2>5. CASE ~UNCHANGED progress
    <3>1. /\ progress' = [progress EXCEPT ![job[w]] = 100]
          /\ UNCHANGED <<saw, job>>
      BY <1>3, <2>5 DEF Mark, WriteOutcome, holdVars
    <3>2. 100 \in 0..100 /\ 100 >= progress[job[w]]
      BY <2>1 DEF Shape, TypeOK, JobTypes
    <3>3. \A v \in Workers \ {w} : pc[v] = "running" => job[v] # job[w]
      BY <2>1 DEF ClaimDiscipline, OneRunner, Executing
    <3>4. QED
      BY <2>1, <2>2, <2>3, <3>1, <3>2, <3>3, RunnerKeepsProgress, Zenon
  <2>6. QED
    BY <2>4, <2>5
<1>4. CASE StartProvider(w) \/ Refresh(w)
  <2>1. job[w] \in JobIds /\ UNCHANGED <<job, jobStatus, progress>>
    BY <1>4 DEF StartProvider, Refresh, Shape, WorkerHandles, holdVars, jobVars
  <2>2. CASE JobExists(job[w])
    <3>1. /\ pc' = [pc EXCEPT ![w] = "running"]
          /\ saw' = [saw EXCEPT ![w] = [status |-> jobStatus[job[w]],
                                        progress |-> progress[job[w]]]]
      BY <1>4, <2>2 DEF StartProvider, Refresh, Goto
    <3>2. saw'[w].progress = progress[job[w]]
      BY <3>1 DEF Shape, TypeOK, WorkerTypes
    <3>3. \A v \in Workers \ {w} : pc'[v] = pc[v] /\ saw'[v] = saw[v]
      BY <3>1 DEF Shape, TypeOK, WorkerTypes
    <3>4. ProgressSeen'
      BY <2>1, <3>2, <3>3 DEF ProgressSeen
    <3>5. NoRowGoesBack
      BY <2>1 DEF NoRowGoesBack, Shape, TypeOK, JobTypes
    <3>6. QED
      BY <3>4, <3>5
  <2>3. CASE ~JobExists(job[w])
    <3>1. UNCHANGED saw /\ (Goto(w, "ack") \/ Goto(w, "orphaned"))
      BY <1>4, <2>3 DEF StartProvider, Refresh
    <3>2. \A v \in Workers : pc'[v] = "running" => pc[v] = "running"
      BY <3>1 DEF Goto, Shape, TypeOK, WorkerTypes
    <3>3. QED
      BY <2>1, <3>1, <3>2, ProgressFrame
  <2>4. QED
    BY <2>2, <2>3
<1>5. ASSUME \/ Start(w) \/ TakeReclaimed(w) \/ Consume(w) \/ ConsumeNothing(w) \/ Ack(w)
             \/ ReadReclaimed(w) \/ OrphanExits(w) \/ Crash(w)
             \/ FailCrashed(w) \/ RefreshMarked(w) \/ UpdateMovie(w)
             \/ \E batch \in SUBSET Reclaimable : Reclaim(w, batch)
      PROVE  ProgressSeen' /\ NoRowGoesBack
  <2>1. UNCHANGED progress
    BY <1>5 DEF Start, TakeReclaimed, Consume, ConsumeNothing, Ack, ReadReclaimed, OrphanExits,
                Crash, FailCrashed, WriteOutcome, RefreshMarked, UpdateMovie, Reclaim, jobVars
  <2>2. \A j \in JobIds : jobStatus'[j] \in {"ABSENT", "QUEUED"}
                            => jobStatus[j] \in {"ABSENT", "QUEUED"}
    BY <1>5 DEF Start, TakeReclaimed, Consume, ConsumeNothing, Ack, ReadReclaimed, OrphanExits,
                Crash, FailCrashed, WriteOutcome, RefreshMarked, UpdateMovie, Reclaim, jobVars,
                Shape, TypeOK, JobTypes
  <2>3. /\ \A v \in Workers \ {w} : pc'[v] = pc[v] /\ saw'[v] = saw[v] /\ job'[v] = job[v]
        /\ pc'[w] # "running"
    <3>1. CASE Exit(w)
      BY <3>1 DEF Exit, CloseSession, Goto, Shape, TypeOK, WorkerTypes
    <3>2. CASE ~Exit(w)
      <4>1. \E q \in WorkerPcs \ {"running"} : Goto(w, q)
        BY <1>5, <3>2
        DEF Start, TakeReclaimed, Consume, ConsumeNothing, Ack, ReadReclaimed, OrphanExits,
            Crash, FailCrashed, RefreshMarked, UpdateMovie, Reclaim, WorkerPcs
      <4>2. \A v \in Workers \ {w} : saw'[v] = saw[v] /\ job'[v] = job[v]
        BY <1>5, <3>2
        DEF Start, TakeReclaimed, Consume, ConsumeNothing, Ack, CloseSession, ReadReclaimed,
            OrphanExits, Crash, FailCrashed, RefreshMarked, UpdateMovie, Reclaim,
            holdVars, readVars, Shape, TypeOK, WorkerTypes
      <4>3. QED
        BY <4>1, <4>2 DEF Goto, Shape, TypeOK, WorkerTypes
    <3>3. QED
      BY <3>1, <3>2
  <2>4. QED
    BY <2>1, <2>2, <2>3, ProgressFrame
<1>6. QED
  BY <1>1, <1>2, <1>3, <1>4, <1>5 DEF WorkerNext

\* The progress of a row never decreases, over all interleavings of workers,
\* redeliveries and crashes and all values providers report.
THEOREM ProgressMonotonic == Spec => ProgressNeverDecreases
<1>1. Init => ProgressSeen
  BY DEF Init, NothingStarted, ProgressSeen
<1>2. Shape /\ ClaimDiscipline /\ ProgressSeen /\ [Next]_vars
        => ProgressSeen' /\ [NoRowGoesBack]_vars
  <2> SUFFICES ASSUME Shape, ClaimDiscipline, ProgressSeen, [Next]_vars
               PROVE  ProgressSeen' /\ [NoRowGoesBack]_vars
    OBVIOUS
  <2>1. CASE UNCHANGED vars
    BY <2>1 DEF vars, workerVars, holdVars, readVars, jobVars, ProgressSeen
  <2>2. QED
    BY <2>1, ApiKeepsProgress, WorkerKeepsProgress DEF Next
<1>3. QED
  BY <1>1, <1>2, ShapeAlways, ClaimDisciplineAlways, PTL
  DEF Spec, ProgressNeverDecreases, NoRowGoesBack

-----------------------------------------------------------------------------
(* The status of a movie.                                                  *)

\* Whoever is about to write a movie's status has already earned it.
WritersOK ==
  /\ \A j \in JobIds : IF j < nextJob THEN jobMovie[j] \in Movies ELSE jobMovie[j] = NoMovie
  /\ \A a \in Apis :
       apiPc[a] \in {"enqueue", "generating"} =>
         apiMovie[a] \in Movies /\ jobMovie[apiJob[a]] = apiMovie[a]
  /\ \A w \in Workers :
       pc[w] \in {"marked", "movie"} =>
         /\ outcome[w] \in {"SUCCEEDED", "FAILED"} /\ startedAt[job[w]]
         /\ outcome[w] = "SUCCEEDED" => calls[job[w]] = 1

\* No step takes back what a row says of its past.
PastStays ==
  \A j \in JobIds :
    /\ jobMovie[j] # NoMovie => jobMovie'[j] = jobMovie[j]
    /\ startedAt[j] => startedAt'[j]
    /\ calls[j] = 1 => calls'[j] = 1

\* A movie whose status stays as it is, or becomes DRAFT or DELETED.
LEMMA StatusStays ==
  ASSUME MovieStatusEarned, PastStays,
         \A m \in Movies : movieStatus'[m] = movieStatus[m] \/ movieStatus'[m] \in {"DRAFT", "DELETED"}
  PROVE  MovieStatusEarned'
<1>1. \A j \in JobIds, m \in Movies : jobMovie[j] = m => jobMovie'[j] = m
  BY NoMovieAssumption DEF PastStays
<1>2. QED
  BY <1>1 DEF MovieStatusEarned, PastStays

\* A movie whose status is written on behalf of a job of its own.
LEMMA StatusWritten ==
  ASSUME Shape, MovieStatusEarned, PastStays, NEW j \in JobIds, NEW m \in Movies,
         jobMovie[j] = m, NEW new, NEW loaded, WriteMovieStatus(m, loaded, new),
         \/ new \in {"GENERATING", "DRAFT"}
         \/ new = "FAILED" /\ startedAt[j]
         \/ new = "COMPLETED" /\ calls[j] = 1
  PROVE  MovieStatusEarned'
<1>1. \A i \in JobIds, n \in Movies : jobMovie[i] = n => jobMovie'[i] = n
  BY NoMovieAssumption DEF PastStays
<1>2. \A n \in Movies : movieStatus'[n] = movieStatus[n] \/ (n = m /\ movieStatus'[n] = new)
  BY DEF WriteMovieStatus, Shape, TypeOK, MovieTypes
<1>3. ASSUME NEW n \in Movies, movieStatus'[n] = movieStatus[n]
      PROVE  /\ movieStatus'[n] = "GENERATING" => \E i \in JobIds : jobMovie'[i] = n
             /\ movieStatus'[n] = "FAILED" => \E i \in JobIds : jobMovie'[i] = n /\ startedAt'[i]
             /\ movieStatus'[n] = "COMPLETED" => \E i \in JobIds : jobMovie'[i] = n /\ calls'[i] = 1
  BY <1>1, <1>3 DEF MovieStatusEarned, PastStays
<1>4. ASSUME movieStatus'[m] = new
      PROVE  /\ movieStatus'[m] = "GENERATING" => \E i \in JobIds : jobMovie'[i] = m
             /\ movieStatus'[m] = "FAILED" => \E i \in JobIds : jobMovie'[i] = m /\ startedAt'[i]
             /\ movieStatus'[m] = "COMPLETED" => \E i \in JobIds : jobMovie'[i] = m /\ calls'[i] = 1
  BY <1>1, <1>4 DEF PastStays
<1>5. QED
  BY <1>2, <1>3, <1>4 DEF MovieStatusEarned

LEMMA ApiEarns ==
  ASSUME Shape, ClaimDiscipline, WritersOK, MovieStatusEarned, NEW a \in Apis, ApiNext(a)
  PROVE  WritersOK' /\ MovieStatusEarned'
<1>1. UNCHANGED <<pc, job, outcome, startedAt, calls>>
  BY DEF ApiNext, ApiContinues, CreateJob, EnqueueJob, MovieGenerating, CancelJob, MovieDraft,
         ApiAborts, RequestGeneration, CancelGeneration, CreateDraft, DeleteMovie, WriteStory,
         jobVars, workerVars, holdVars, readVars
<1>2. CASE CreateJob(a) /\ MovieExists(apiMovie[a])
  <2>1. /\ jobMovie' = [jobMovie EXCEPT ![nextJob] = apiMovie[a]] /\ nextJob \in JobIds
        /\ nextJob' = nextJob + 1 /\ apiMovie' = apiMovie /\ movieStatus' = movieStatus
        /\ apiPc' = [apiPc EXCEPT ![a] = "enqueue"] /\ apiJob' = [apiJob EXCEPT ![a] = nextJob]
        /\ apiMovie[a] \in Movies /\ nextJob \in Nat
    BY <1>2 DEF CreateJob, movieVars, JobIds, Shape, TypeOK, JobTypes, ApiHandles
  <2>2. jobMovie[nextJob] = NoMovie /\ jobMovie'[nextJob] = apiMovie[a]
    BY <2>1 DEF WritersOK, Shape, TypeOK, JobTypes
  <2>3. \A j \in JobIds : j # nextJob => jobMovie'[j] = jobMovie[j]
    BY <2>1 DEF Shape, TypeOK, JobTypes
  <2>4. PastStays
    BY <1>1, <2>2, <2>3 DEF PastStays
  <2>5. \A j \in JobIds : IF j < nextJob' THEN jobMovie'[j] \in Movies ELSE jobMovie'[j] = NoMovie
    BY <2>1, <2>2, <2>3 DEF WritersOK, JobIds
  <2>6. ASSUME NEW b \in Apis, apiPc'[b] \in {"enqueue", "generating"}
        PROVE  apiMovie'[b] \in Movies /\ jobMovie'[apiJob'[b]] = apiMovie'[b]
    <3>1. CASE b = a
      BY <2>1, <2>2, <3>1 DEF Shape, TypeOK, ApiTypes
    <3>2. CASE b # a
      <4>1. /\ apiPc[b] \in {"enqueue", "generating"} /\ apiJob'[b] = apiJob[b]
            /\ apiMovie'[b] = apiMovie[b]
        BY <2>1, <2>6, <3>2 DEF Shape, TypeOK, ApiTypes
      <4>2. apiJob[b] \in JobIds /\ apiMovie[b] \in Movies /\ jobMovie[apiJob[b]] = apiMovie[b]
        BY <4>1 DEF WritersOK, Shape, ApiHandles
      <4>3. QED
        BY <2>2, <2>3, <4>1, <4>2, NoMovieAssumption
    <3>3. QED
      BY <3>1, <3>2
  <2>7. WritersOK'
    BY <1>1, <2>5, <2>6 DEF WritersOK
  <2>8. QED
    BY <2>1, <2>4, <2>7, StatusStays
<1>3. CASE ~(CreateJob(a) /\ MovieExists(apiMovie[a]))
  <2>1. UNCHANGED <<jobMovie, nextJob>>
    BY <1>3 DEF ApiNext, ApiContinues, CreateJob, EnqueueJob, MovieGenerating, CancelJob,
                MovieDraft, ApiAborts, RequestGeneration, CancelGeneration, CreateDraft,
                DeleteMovie, WriteStory, jobVars
  <2>2. PastStays
    BY <1>1, <2>1 DEF PastStays
  <2>3. \A b \in Apis \ {a} :
          apiPc'[b] = apiPc[b] /\ apiJob'[b] = apiJob[b] /\ apiMovie'[b] = apiMovie[b]
    BY DEF ApiNext, ApiContinues, CreateJob, EnqueueJob, MovieGenerating, CancelJob, MovieDraft,
           ApiAborts, RequestGeneration, CancelGeneration, CreateDraft, DeleteMovie, WriteStory,
           ApiReturns, apiVars, Shape, TypeOK, ApiTypes
  <2>4. apiPc'[a] \in {"enqueue", "generating"} =>
          /\ apiPc[a] \in {"enqueue", "generating"}
          /\ apiJob'[a] = apiJob[a] /\ apiMovie'[a] = apiMovie[a]
    BY <1>3
    DEF ApiNext, ApiContinues, CreateJob, EnqueueJob, MovieGenerating, CancelJob, MovieDraft,
        ApiAborts, RequestGeneration, CancelGeneration, CreateDraft, DeleteMovie, WriteStory,
        ApiReturns, apiVars, Shape, TypeOK, ApiTypes
  <2>5. WritersOK'
    BY <1>1, <2>1, <2>3, <2>4 DEF WritersOK
  <2>6. CASE MovieGenerating(a)
    <3>1. /\ apiMovie[a] \in Movies /\ apiJob[a] \in JobIds /\ jobMovie[apiJob[a]] = apiMovie[a]
          /\ \/ movieStatus' = movieStatus
             \/ WriteMovieStatus(apiMovie[a], apiSaw[a], "GENERATING")
      BY <2>6 DEF MovieGenerating, WritersOK, Shape, ApiHandles
    <3>2. QED
      BY <2>2, <2>5, <3>1, StatusStays, StatusWritten
  <2>7. CASE ~MovieGenerating(a)
    <3>1. \A m \in Movies : movieStatus'[m] = movieStatus[m] \/ movieStatus'[m] \in {"DRAFT", "DELETED"}
      BY <2>7
      DEF ApiNext, ApiContinues, CreateJob, EnqueueJob, CancelJob, MovieDraft, ApiAborts,
          RequestGeneration, CancelGeneration, CreateDraft, DeleteMovie, WriteStory,
          WriteMovieStatus, movieVars, Shape, TypeOK, MovieTypes
    <3>2. QED
      BY <2>2, <2>5, <3>1, StatusStays
  <2>8. QED
    BY <2>6, <2>7
<1>4. QED
  BY <1>2, <1>3

LEMMA WorkerEarns ==
  ASSUME Shape, ClaimDiscipline, WritersOK, MovieStatusEarned, NEW w \in Workers,
         WorkerNext(w) \/ Crash(w)
  PROVE  WritersOK' /\ MovieStatusEarned'
<1>1. UNCHANGED <<jobMovie, nextJob, apiVars>>
  BY DEF WorkerNext, Start, Reclaim, TakeReclaimed, Consume, ConsumeNothing, ReadReclaimed, Claim,
         StartProvider, RecordProgress, Refresh, OrphanExits, Mark, FailCrashed, RefreshMarked,
         UpdateMovie, Ack, Crash, jobVars
<1>2. \A j \in JobIds : startedAt[j] => startedAt'[j]
  BY DEF WorkerNext, Start, Reclaim, TakeReclaimed, Consume, ConsumeNothing, ReadReclaimed, Claim,
         StartProvider, RecordProgress, Refresh, OrphanExits, Mark, FailCrashed, RefreshMarked,
         UpdateMovie, Ack, Crash, jobVars, Shape, TypeOK, JobTypes
<1>3. \A j \in JobIds : calls[j] = 1 => calls'[j] = 1
  <2>1. CASE StartProvider(w)
    <3>1. pc[w] = "claimed" /\ calls[job[w]] = 0
      BY <2>1 DEF StartProvider, ClaimDiscipline
    <3>2. QED
      BY <2>1, <3>1 DEF StartProvider, Shape, TypeOK, CountTypes
  <2>2. CASE ~StartProvider(w)
    BY <2>2
    DEF WorkerNext, Start, Reclaim, TakeReclaimed, Consume, ConsumeNothing, ReadReclaimed, Claim,
        RecordProgress, Refresh, OrphanExits, Mark, FailCrashed, RefreshMarked, UpdateMovie, Ack,
        Crash
  <2>3. QED
    BY <2>1, <2>2
<1>4. PastStays
  BY <1>1, <1>2, <1>3 DEF PastStays
<1>5. \A v \in Workers \ {w} : pc'[v] = pc[v] /\ job'[v] = job[v] /\ outcome'[v] = outcome[v]
  <2> USE DEF Shape, TypeOK, WorkerTypes, Goto, CloseSession, Exit, holdVars, readVars
  <2>1. CASE \/ Start(w) \/ TakeReclaimed(w) \/ Consume(w) \/ ConsumeNothing(w)
             \/ \E batch \in SUBSET Reclaimable : Reclaim(w, batch)
    BY <2>1 DEF Start, TakeReclaimed, Consume, ConsumeNothing, Reclaim
  <2>2. CASE \/ ReadReclaimed(w) \/ Claim(w) \/ StartProvider(w) \/ Refresh(w) \/ OrphanExits(w)
             \/ \E p \in Reported : RecordProgress(w, p)
    BY <2>2 DEF ReadReclaimed, Claim, StartProvider, Refresh, OrphanExits, RecordProgress
  <2>3. CASE \/ \E result \in {"SUCCEEDED", "FAILED"} : Mark(w, result)
             \/ FailCrashed(w) \/ RefreshMarked(w) \/ UpdateMovie(w) \/ Ack(w) \/ Crash(w)
    BY <2>3 DEF Mark, FailCrashed, RefreshMarked, UpdateMovie, Ack, Crash
  <2>4. QED
    BY <2>1, <2>2, <2>3 DEF WorkerNext
<1>6. ASSUME pc'[w] \in {"marked", "movie"}
      PROVE  /\ job'[w] = job[w] /\ job[w] \in JobIds
             /\ outcome'[w] \in {"SUCCEEDED", "FAILED"} /\ startedAt[job[w]]
             /\ outcome'[w] = "SUCCEEDED" => calls[job[w]] = 1
  <2>1. \/ FailCrashed(w) \/ RefreshMarked(w)
        \/ \E result \in {"SUCCEEDED", "FAILED"} : Mark(w, result)
    BY <1>6
    DEF WorkerNext, Start, Reclaim, TakeReclaimed, Consume, ConsumeNothing, ReadReclaimed, Claim,
        StartProvider, RecordProgress, Refresh, OrphanExits, UpdateMovie, Ack, Crash, Exit, Goto,
        Shape, TypeOK, WorkerTypes
  <2>2. pc[w] \in {"failCrashed", "marked", "running"} /\ job[w] \in JobIds
    BY <2>1 DEF FailCrashed, RefreshMarked, Mark, Shape, WorkerHandles
  <2>3. ~Exit(w)
    BY <1>6 DEF Exit, Goto, Shape, TypeOK, WorkerTypes
  <2>4. CASE FailCrashed(w)
    <3>1. startedAt[job[w]]
      BY <2>4 DEF FailCrashed, ClaimDiscipline
    <3>2. job' = job /\ outcome'[w] = "FAILED"
      BY <1>6, <2>4 DEF FailCrashed, Goto, holdVars, Shape, TypeOK, WorkerTypes
    <3>3. QED
      BY <2>2, <3>1, <3>2
  <2>5. CASE RefreshMarked(w)
    <3>1. pc[w] = "marked" /\ UNCHANGED <<job, outcome>>
      BY <2>3, <2>5 DEF RefreshMarked, holdVars
    <3>2. QED
      BY <2>2, <3>1 DEF WritersOK
  <2>6. ASSUME NEW result \in {"SUCCEEDED", "FAILED"}, Mark(w, result)
        PROVE  /\ job'[w] = job[w] /\ outcome'[w] = result
               /\ startedAt[job[w]] /\ calls[job[w]] = 1
    <3>1. startedAt[job[w]] /\ calls[job[w]] = 1
      BY <2>6 DEF Mark, ClaimDiscipline, Executing
    <3>2. job' = job /\ outcome'[w] = result
      BY <1>6, <2>3, <2>6 DEF Mark, Goto, holdVars, Shape, TypeOK, WorkerTypes
    <3>3. QED
      BY <3>1, <3>2
  <2>7. QED
    BY <2>1, <2>2, <2>4, <2>5, <2>6
<1>7. WritersOK'
  <2>1. ASSUME NEW v \in Workers, pc'[v] \in {"marked", "movie"}
        PROVE  /\ outcome'[v] \in {"SUCCEEDED", "FAILED"} /\ startedAt'[job'[v]]
               /\ outcome'[v] = "SUCCEEDED" => calls'[job'[v]] = 1
    <3>1. CASE v = w
      BY <1>2, <1>3, <1>6, <2>1, <3>1
    <3>2. CASE v # w
      <4>1. /\ pc[v] \in {"marked", "movie"} /\ job'[v] = job[v] /\ outcome'[v] = outcome[v]
            /\ job[v] \in JobIds
        BY <1>5, <2>1, <3>2 DEF Shape, WorkerHandles
      <4>2. QED
        BY <1>2, <1>3, <4>1 DEF WritersOK
    <3>3. QED
      BY <3>1, <3>2
  <2>2. QED
    BY <1>1, <2>1 DEF WritersOK, apiVars
<1>8. MovieStatusEarned'
  <2>1. CASE UpdateMovie(w) /\ MovieExists(jobMovie[job[w]])
    <3>1. /\ pc[w] = "movie" /\ job[w] \in JobIds
          /\ WriteMovieStatus(jobMovie[job[w]], sawMovie[w], MovieStatusOf(outcome[w]))
      BY <2>1 DEF UpdateMovie, Shape, WorkerHandles
    <3>2. /\ outcome[w] \in {"SUCCEEDED", "FAILED"} /\ startedAt[job[w]]
          /\ outcome[w] = "SUCCEEDED" => calls[job[w]] = 1
      BY <3>1 DEF WritersOK
    <3>3. jobMovie[job[w]] \in Movies
      <4>1. jobStatus[job[w]] # "ABSENT" /\ job[w] \in Nat /\ nextJob \in Nat
        BY <3>1, <3>2 DEF ClaimDiscipline, Shape, TypeOK, JobTypes, JobIds
      <4>2. job[w] < nextJob
        BY <3>1, <4>1 DEF ClaimDiscipline
      <4>3. QED
        BY <3>1, <4>2 DEF WritersOK
    <3>4. QED
      BY <1>4, <3>1, <3>2, <3>3, StatusWritten DEF MovieStatusOf
  <2>2. CASE ~(UpdateMovie(w) /\ MovieExists(jobMovie[job[w]]))
    <3>1. movieStatus' = movieStatus
      BY <2>2
      DEF WorkerNext, Start, Reclaim, TakeReclaimed, Consume, ConsumeNothing, ReadReclaimed, Claim,
          StartProvider, RecordProgress, Refresh, OrphanExits, Mark, FailCrashed, RefreshMarked,
          UpdateMovie, Ack, Crash, movieVars
    <3>2. QED
      BY <1>4, <3>1, StatusStays
  <2>3. QED
    BY <2>1, <2>2
<1>9. QED
  BY <1>7, <1>8

\* What a movie's status tells the user was earned by one of its own jobs, however requests,
\* cancellations, deletions, redeliveries and kills fall between the commit of the job's row
\* and the commit of the movie's (WritersOK: whoever is between the two has earned it).
THEOREM StatusIsEarned == Spec => []MovieStatusEarned
<1>1. Init => WritersOK /\ MovieStatusEarned
  BY MaxJobsAssumption DEF Init, NoMovies, NothingStarted, JobIds, WritersOK, MovieStatusEarned
<1>2. Shape /\ ClaimDiscipline /\ WritersOK /\ MovieStatusEarned /\ [Next]_vars
        => WritersOK' /\ MovieStatusEarned'
  <2> SUFFICES ASSUME Shape, ClaimDiscipline, WritersOK, MovieStatusEarned, [Next]_vars
               PROVE  WritersOK' /\ MovieStatusEarned'
    OBVIOUS
  <2>1. CASE UNCHANGED vars
    BY <2>1 DEF vars, movieVars, jobVars, apiVars, workerVars, holdVars, readVars, WritersOK,
                MovieStatusEarned
  <2>2. QED
    BY <2>1, ApiEarns, WorkerEarns DEF Next
<1>3. QED
  BY <1>1, <1>2, ShapeAlways, ClaimDisciplineAlways, PTL DEF Spec
================================================================================
