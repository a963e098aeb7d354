-------------------------- MODULE VideoRecoveryProofs --------------------------
(***************************************************************************)
(* Recovery: what keeps an accepted job within reach of some worker.  The  *)
(* first part assumes that nothing in the hands of a live worker is        *)
(* reclaimed; the second derives that from the two durations of            *)
(* VideoGenerationTimed, for every number of processes, jobs and crashes.  *)
(***************************************************************************)
EXTENDS VideoGenerationTimed, VideoGenerationProofs, FiniteSetTheorems

-----------------------------------------------------------------------------
(* The inductive invariant.                                                *)

Waiting == {undelivered[i] : i \in DOMAIN undelivered}
Enqueued == {apiJob[a] : a \in {b \in Apis : apiPc[b] = "enqueue"}}

\* Every entry of a job is in one place: about to be added, waiting or pending.
EntriesOK ==
  /\ \A i, k \in DOMAIN undelivered : undelivered[i] = undelivered[k] => i = k
  /\ Waiting \cap pel = {}
  /\ Enqueued \cap (Waiting \cup pel) = {}
  /\ \A a, b \in Apis :
       a # b /\ apiPc[a] = "enqueue" /\ apiPc[b] = "enqueue" => apiJob[a] # apiJob[b]
  /\ \A j \in Waiting \cup pel \cup Enqueued : jobStatus[j] # "ABSENT"

\* What a worker holds is pending, and nobody else holds it.
Holds(w) ==
  /\ Held(w) \subseteq pel
  /\ job[w] \notin todo[w]
  /\ pc[w] \in {"down", "reclaim", "batch"} => job[w] = NoJob
  /\ pc[w] = "down" => todo[w] = {}

HoldersOK == OneHolder /\ \A w \in Workers : Holds(w)

\* Nobody else claims the job a worker is about to claim, and a worker about to
\* acknowledge an entry knows that its job is settled.
Settled(j) == jobStatus[j] \notin IN_PROGRESS_STATUSES
Result(w) ==
  /\ pc[w] = "claim" => jobStatus[job[w]] # "RUNNING"
  /\ pc[w] = "running" /\ saw[w].status # "RUNNING" => Settled(job[w])
  /\ pc[w] \in {"marked", "movie", "ack"} => Settled(job[w])

ResultsOK == \A w \in Workers : Result(w)

\* The conclusion.  A QUEUED job is lost when its API process dies before XADD
\* or when the group is made after it.
NothingLost == GroupAtStart /\ ~ApiMayAbort
RowsReachable ==
  \A j \in JobIds :
    /\ jobStatus[j] = "RUNNING" => j \in pel
    /\ NothingLost /\ jobStatus[j] = "QUEUED" => j \in pel \cup Waiting \cup Enqueued

GroupMade == GroupAtStart => group

RecoveryInv == GroupMade /\ EntriesOK /\ HoldersOK /\ ResultsOK /\ RowsReachable

\* No step takes an entry from a worker that still holds it.
NothingSnatched ==
  \A w \in Workers, batch \in SUBSET Reclaimable :
    Reclaim(w, batch) => \A v \in Workers : batch \cap Held(v) = {}

LEMMA JobIdsAreNumbers == JobIds \subseteq Nat /\ NoJob \notin JobIds
  BY MaxJobsAssumption DEF JobIds, NoJob

LEMMA InitRecovery == NothingStarted => RecoveryInv
<1> SUFFICES ASSUME NothingStarted PROVE RecoveryInv
  OBVIOUS
<1> USE DEF NothingStarted
<1>1. Waiting = {} /\ Enqueued = {} /\ DOMAIN undelivered = {}
  BY DEF Waiting, Enqueued
<1>2. GroupMade /\ EntriesOK
  BY <1>1 DEF GroupMade, EntriesOK
<1>3. HoldersOK /\ ResultsOK
  BY DEF HoldersOK, OneHolder, Holds, Held, ResultsOK, Result
<1>4. RowsReachable
  BY DEF RowsReachable
<1>5. QED
  BY <1>2, <1>3, <1>4 DEF RecoveryInv

-----------------------------------------------------------------------------
(* Frames: what a step leaves alone.                                       *)

\* Rows that only settle take no entry out of place.
LEMMA EntriesFrame ==
  ASSUME EntriesOK, RowsOnlySettle, UNCHANGED <<undelivered, pel, apiPc, apiJob>>, Shape
  PROVE  EntriesOK'
<1>1. Waiting' = Waiting /\ Enqueued' = Enqueued
  BY DEF Waiting, Enqueued
<1>2. Waiting \cup pel \cup Enqueued \subseteq JobIds
  BY DEF Waiting, Enqueued, Shape, TypeOK, StreamTypes, ApiHandles
<1>3. \A j \in Waiting \cup pel \cup Enqueued : jobStatus'[j] # "ABSENT"
  BY <1>2 DEF EntriesOK, RowsOnlySettle
<1>4. QED
  BY <1>1, <1>3 DEF EntriesOK

LEMMA RowsFrame ==
  ASSUME RowsReachable, RowsOnlySettle, pel' = pel,
         NothingLost => \A j \in Waiting \cup Enqueued :
                          jobStatus'[j] = "QUEUED" => j \in (Waiting \cup Enqueued)'
  PROVE  RowsReachable'
BY DEF RowsReachable, RowsOnlySettle, NothingLost, JobExists

\* A settled job stays settled.
LEMMA StaysSettled ==
  ASSUME RowsOnlySettle, NEW j \in JobIds, Settled(j)
  PROVE  Settled(j)'
BY DEF Settled, RowsOnlySettle, IN_PROGRESS_STATUSES

LEMMA ResultFrame ==
  ASSUME Shape, RowsOnlySettle, NEW v \in Workers, Result(v),
         pc'[v] = pc[v], job'[v] = job[v], saw'[v] = saw[v]
  PROVE  Result(v)'
<1>1. pc[v] \in {"claim", "running", "marked", "movie", "ack"} => job[v] \in JobIds
  BY DEF Shape, WorkerHandles
<1>2. pc[v] = "claim" => jobStatus'[job[v]] # "RUNNING"
  BY <1>1 DEF Result, RowsOnlySettle
<1>3. QED
  BY <1>1, <1>2, StaysSettled DEF Result, Settled

\* A step that keeps every worker where it is.
LEMMA WorkersFrame ==
  ASSUME Shape, HoldersOK, ResultsOK, RowsOnlySettle, UNCHANGED <<pel, workerVars>>
  PROVE  HoldersOK' /\ ResultsOK'
<1>1. UNCHANGED <<pc, todo, job, saw>>
  BY DEF workerVars, holdVars, readVars
<1>2. HoldersOK'
  BY <1>1 DEF HoldersOK, OneHolder, Holds, Held
<1>3. ResultsOK'
  BY <1>1, ResultFrame DEF ResultsOK
<1>4. QED
  BY <1>2, <1>3

-----------------------------------------------------------------------------
(* API steps.                                                              *)

\* A request that ends, or moves on without adding an entry, leaves every entry where it
\* is; what it was about to enqueue is only dropped with its row or by an abort.
LEMMA RequestMoves ==
  ASSUME Shape, RecoveryInv, NEW a \in Apis, RowsOnlySettle,
         UNCHANGED <<streamVars, workerVars>>,
         \A b \in Apis \ {a} : apiPc'[b] = apiPc[b] /\ apiJob'[b] = apiJob[b],
         apiPc'[a] = "enqueue" => apiPc[a] = "enqueue" /\ apiJob'[a] = apiJob[a],
         apiPc[a] = "enqueue" /\ apiPc'[a] # "enqueue" =>
           ApiMayAbort \/ jobStatus[apiJob[a]] \in NoRow
  PROVE  RecoveryInv'
<1>1. UNCHANGED <<group, undelivered, pel>>
  BY DEF streamVars
<1>2. Waiting' = Waiting /\ Enqueued' \subseteq Enqueued
  BY <1>1 DEF Waiting, Enqueued
<1>3. Waiting \cup pel \cup Enqueued \subseteq JobIds
  BY DEF Waiting, Enqueued, Shape, TypeOK, StreamTypes, ApiHandles
<1>4. EntriesOK'
  <2>1. \A j \in Waiting \cup pel \cup Enqueued : jobStatus'[j] # "ABSENT"
    BY <1>3 DEF RecoveryInv, EntriesOK, RowsOnlySettle
  <2>2. ASSUME NEW b \in Apis, NEW c \in Apis, b # c, apiPc'[b] = "enqueue", apiPc'[c] = "enqueue"
        PROVE  apiJob'[b] # apiJob'[c]
    BY <2>2 DEF RecoveryInv, EntriesOK
  <2>3. QED
    BY <1>1, <1>2, <2>1, <2>2 DEF RecoveryInv, EntriesOK
<1>5. ASSUME NothingLost, NEW j \in Enqueued, jobStatus'[j] = "QUEUED"
      PROVE  j \in Enqueued'
  <2>1. PICK b \in Apis : apiPc[b] = "enqueue" /\ j = apiJob[b]
    BY <1>5 DEF Enqueued
  <2>2. jobStatus[j] \notin NoRow
    BY <1>3, <1>5 DEF RowsOnlySettle, NoRow
  <2>3. apiPc'[b] = "enqueue" /\ apiJob'[b] = j
    BY <1>5, <2>1, <2>2 DEF NothingLost
  <2>4. QED
    BY <2>3 DEF Enqueued
<1>6. RowsReachable'
  BY <1>1, <1>2, <1>5, RowsFrame DEF RecoveryInv
<1>7. HoldersOK' /\ ResultsOK' /\ GroupMade'
  BY <1>1, WorkersFrame DEF RecoveryInv, GroupMade
<1>8. QED
  BY <1>4, <1>6, <1>7 DEF RecoveryInv

\* The row of a new job is in no other place yet; its request enqueues it next.
LEMMA CreateJobRecovers ==
  ASSUME Shape, ClaimDiscipline, RecoveryInv, NEW a \in Apis, CreateJob(a), MovieExists(apiMovie[a])
  PROVE  RecoveryInv'
<1>1. /\ nextJob \in JobIds /\ jobStatus[nextJob] = "ABSENT"
      /\ apiPc' = [apiPc EXCEPT ![a] = "enqueue"] /\ apiJob' = [apiJob EXCEPT ![a] = nextJob]
      /\ jobStatus' = [jobStatus EXCEPT ![nextJob] = "QUEUED"]
      /\ UNCHANGED <<streamVars, workerVars>> /\ apiPc[a] = "create"
  BY DEF CreateJob, ClaimDiscipline, JobIds, Shape, TypeOK, JobTypes
<1>2. UNCHANGED <<group, undelivered, pel, pc, todo, job, saw>>
  BY <1>1 DEF streamVars, workerVars, holdVars, readVars
<1>3. /\ apiPc'[a] = "enqueue" /\ apiJob'[a] = nextJob
      /\ \A b \in Apis \ {a} : apiPc'[b] = apiPc[b] /\ apiJob'[b] = apiJob[b]
      /\ jobStatus'[nextJob] = "QUEUED"
      /\ \A j \in JobIds \ {nextJob} : jobStatus'[j] = jobStatus[j]
  BY <1>1 DEF Shape, TypeOK, ApiTypes, JobTypes
<1>4. nextJob \notin Waiting \cup pel \cup Enqueued
  BY <1>1 DEF RecoveryInv, EntriesOK
<1>5. Waiting' = Waiting /\ Enqueued' = Enqueued \cup {nextJob}
  BY <1>1, <1>2, <1>3 DEF Waiting, Enqueued
<1>6. Waiting \cup pel \cup Enqueued \subseteq JobIds
  BY DEF Waiting, Enqueued, Shape, TypeOK, StreamTypes, ApiHandles
<1>7. EntriesOK'
  <2>1. ASSUME NEW b \in Apis, NEW c \in Apis, b # c, apiPc'[b] = "enqueue", apiPc'[c] = "enqueue"
        PROVE  apiJob'[b] # apiJob'[c]
    BY <2>1, <1>3, <1>4 DEF RecoveryInv, EntriesOK, Enqueued
  <2>2. \A j \in (Waiting \cup pel \cup Enqueued)' : jobStatus'[j] # "ABSENT"
    BY <1>2, <1>3, <1>4, <1>5, <1>6 DEF RecoveryInv, EntriesOK
  <2>3. QED
    BY <1>2, <1>4, <1>5, <2>1, <2>2 DEF RecoveryInv, EntriesOK
<1>8. HoldersOK'
  BY <1>2 DEF RecoveryInv, HoldersOK, OneHolder, Holds, Held
<1>9. ResultsOK'
  <2>1. ASSUME NEW w \in Workers PROVE Result(w)'
    <3>1. pc[w] \in {"claim", "running", "marked", "movie", "ack"} =>
            job[w] \in pel /\ job[w] # nextJob /\ job[w] \in JobIds
      BY <1>4, JobIdsAreNumbers DEF RecoveryInv, HoldersOK, Holds, Held, Shape, WorkerHandles
    <3>2. pc[w] \in {"claim", "running", "marked", "movie", "ack"} =>
            jobStatus'[job[w]] = jobStatus[job[w]]
      BY <1>3, <3>1
    <3>3. QED
      BY <1>2, <3>2 DEF RecoveryInv, ResultsOK, Result, Settled
  <2>2. QED
    BY <2>1 DEF ResultsOK
<1>10. RowsReachable'
  BY <1>2, <1>3, <1>5 DEF RecoveryInv, RowsReachable, NothingLost
<1>11. QED
  BY <1>2, <1>7, <1>8, <1>9, <1>10 DEF RecoveryInv, GroupMade

\* XADD: the entry goes from the request to the end of the stream.
LEMMA EnqueueRecovers ==
  ASSUME Shape, RecoveryInv, NEW a \in Apis, EnqueueJob(a),
         undelivered' = Append(undelivered, apiJob[a])
  PROVE  RecoveryInv'
<1> DEFINE n == apiJob[a]
<1>1. n \in JobIds /\ apiPc[a] = "enqueue" /\ undelivered \in Seq(JobIds)
  BY DEF EnqueueJob, Shape, TypeOK, StreamTypes, ApiHandles
<1>2. UNCHANGED <<group, pel, pc, todo, job, saw, jobStatus, jobVars, workerVars>>
  BY DEF EnqueueJob, workerVars, holdVars, readVars, jobVars
<1>3. apiPc'[a] # "enqueue" /\ \A b \in Apis \ {a} : apiPc'[b] = apiPc[b] /\ apiJob'[b] = apiJob[b]
  BY DEF EnqueueJob, ApiReturns, Shape, TypeOK, ApiTypes
<1>4. /\ Len(undelivered') = Len(undelivered) + 1 /\ undelivered' \in Seq(JobIds)
      /\ \A i \in 1 .. Len(undelivered) : undelivered'[i] = undelivered[i]
      /\ undelivered'[Len(undelivered) + 1] = n
  BY <1>1, AppendProperties
<1>5. /\ DOMAIN undelivered = 1 .. Len(undelivered) /\ Len(undelivered) \in Nat
      /\ DOMAIN undelivered' = 1 .. Len(undelivered) + 1
  BY <1>1, <1>4, LenProperties
<1>6. Waiting' = Waiting \cup {n}
  BY <1>4, <1>5 DEF Waiting
<1>7. n \in Enqueued /\ n \notin Waiting \cup pel
  BY <1>1 DEF Enqueued, RecoveryInv, EntriesOK
<1>8. Enqueued' = Enqueued \ {n}
  <2>1. \A b \in Apis \ {a} : apiPc[b] = "enqueue" => apiJob[b] # n
    BY <1>1 DEF RecoveryInv, EntriesOK
  <2>2. QED
    BY <1>3, <2>1 DEF Enqueued
<1>9. EntriesOK'
  <2>1. ASSUME NEW i \in DOMAIN undelivered', NEW k \in DOMAIN undelivered',
               undelivered'[i] = undelivered'[k]
        PROVE  i = k
    <3>1. \A l \in 1 .. Len(undelivered) : undelivered[l] # n
      BY <1>5, <1>7 DEF Waiting
    <3>2. QED
      BY <2>1, <3>1, <1>4, <1>5 DEF RecoveryInv, EntriesOK
  <2>2. ASSUME NEW b \in Apis, NEW c \in Apis, b # c, apiPc'[b] = "enqueue", apiPc'[c] = "enqueue"
        PROVE  apiJob'[b] # apiJob'[c]
    BY <2>2, <1>3 DEF RecoveryInv, EntriesOK
  <2>3. QED
    BY <1>2, <1>6, <1>7, <1>8, <2>1, <2>2 DEF RecoveryInv, EntriesOK
<1>10. RowsReachable'
  BY <1>2, <1>6, <1>8 DEF RecoveryInv, RowsReachable, NothingLost
<1>11. HoldersOK' /\ ResultsOK'
  BY <1>2, QuietFrame, WorkersFrame DEF RecoveryInv, Quiet
<1>12. QED
  BY <1>2, <1>9, <1>10, <1>11 DEF RecoveryInv, GroupMade

LEMMA ApiRecovers ==
  ASSUME Shape, ClaimDiscipline, RecoveryInv, NEW a \in Apis, ApiNext(a)
  PROVE  RecoveryInv'
<1>1. CASE CreateJob(a)
  <2>1. CASE MovieExists(apiMovie[a])
    BY <1>1, <2>1, CreateJobRecovers
  <2>2. CASE ~MovieExists(apiMovie[a])
    <3>1. ApiReturns(a) /\ UNCHANGED <<jobVars, streamVars, workerVars>> /\ apiPc[a] = "create"
      BY <1>1, <2>2 DEF CreateJob
    <3>2. RowsOnlySettle
      BY <3>1 DEF RowsOnlySettle, jobVars
    <3>3. QED
      BY <3>1, <3>2, RequestMoves DEF ApiReturns, Shape, TypeOK, ApiTypes
  <2>3. QED
    BY <2>1, <2>2
<1>2. CASE EnqueueJob(a)
  <2>1. CASE undelivered' = Append(undelivered, apiJob[a])
    BY <1>2, <2>1, EnqueueRecovers
  <2>2. CASE undelivered' # Append(undelivered, apiJob[a])
    <3>1. /\ ApiReturns(a) /\ UNCHANGED <<jobVars, streamVars, workerVars>>
          /\ apiPc[a] = "enqueue" /\ jobStatus[apiJob[a]] \in NoRow
      BY <1>2, <2>2 DEF EnqueueJob, streamVars, JobExists
    <3>2. RowsOnlySettle
      BY <3>1 DEF RowsOnlySettle, jobVars
    <3>3. QED
      BY <3>1, <3>2, RequestMoves DEF ApiReturns, Shape, TypeOK, ApiTypes
  <2>3. QED
    BY <2>1, <2>2
<1>3. ASSUME ~CreateJob(a), ~EnqueueJob(a) PROVE RecoveryInv'
  <2>1. RowsOnlySettle
    BY <1>3, ApiQuiet DEF Quiet
  <2>2. /\ UNCHANGED <<streamVars, workerVars>>
        /\ \A b \in Apis \ {a} : apiPc'[b] = apiPc[b] /\ apiJob'[b] = apiJob[b]
        /\ apiPc'[a] = "enqueue" => apiPc[a] = "enqueue" /\ apiJob'[a] = apiJob[a]
        /\ apiPc[a] = "enqueue" => apiPc'[a] = "enqueue" \/ ApiMayAbort
    BY <1>3 DEF ApiNext, ApiContinues, MovieGenerating, CancelJob, MovieDraft, ApiAborts,
                RequestGeneration, CancelGeneration, CreateDraft, DeleteMovie, WriteStory,
                ApiReturns, apiVars, Shape, TypeOK, ApiTypes
  <2>3. QED
    BY <2>1, <2>2, RequestMoves
<1>4. QED
  BY <1>1, <1>2, <1>3

-----------------------------------------------------------------------------
(* Worker steps.                                                           *)

OthersStay(w) ==
  \A v \in Workers \ {w} :
    /\ pc'[v] = pc[v] /\ job'[v] = job[v] /\ todo'[v] = todo[v] /\ saw'[v] = saw[v]
    /\ reclaimed'[v] = reclaimed[v]

LEMMA WorkersStay ==
  ASSUME Shape, NEW w \in Workers, WorkerNext(w) \/ Crash(w)
  PROVE  OthersStay(w) /\ UNCHANGED apiVars
<1> USE DEF Shape, TypeOK, WorkerTypes, OthersStay, Goto, CloseSession, Exit, holdVars, readVars
<1>1. CASE \/ Start(w) \/ TakeReclaimed(w) \/ Consume(w) \/ ConsumeNothing(w)
           \/ \E batch \in SUBSET Reclaimable : Reclaim(w, batch)
  BY <1>1 DEF Start, TakeReclaimed, Consume, ConsumeNothing, Reclaim
<1>2. CASE \/ ReadReclaimed(w) \/ Claim(w) \/ StartProvider(w) \/ Refresh(w) \/ OrphanExits(w)
           \/ \E p \in Reported : RecordProgress(w, p)
  BY <1>2 DEF ReadReclaimed, Claim, StartProvider, Refresh, OrphanExits, RecordProgress
<1>3. CASE \/ \E result \in {"SUCCEEDED", "FAILED"} : Mark(w, result)
           \/ FailCrashed(w) \/ RefreshMarked(w) \/ UpdateMovie(w) \/ Ack(w) \/ Crash(w)
  BY <1>3 DEF Mark, FailCrashed, RefreshMarked, UpdateMovie, Ack, Crash
<1>4. QED
  BY <1>1, <1>2, <1>3 DEF WorkerNext

\* Whoever holds less, or the same, disturbs no other holder.
LEMMA HolderMoves ==
  ASSUME HoldersOK, NEW w \in Workers, OthersStay(w), pel' = pel, Held(w)' \subseteq Held(w),
         Held(w)' \subseteq pel => Holds(w)'
  PROVE  HoldersOK'
<1>1. \A v \in Workers \ {w} : Held(v)' = Held(v) /\ Holds(v)'
  BY DEF OthersStay, HoldersOK, Held, Holds
<1>2. Holds(w)'
  BY DEF HoldersOK, Holds
<1>3. OneHolder'
  BY <1>1 DEF HoldersOK, OneHolder
<1>4. QED
  BY <1>1, <1>2, <1>3 DEF HoldersOK

LEMMA ResultMoves ==
  ASSUME Shape, ResultsOK, NEW w \in Workers, OthersStay(w), RowsOnlySettle, Result(w)'
  PROVE  ResultsOK'
BY ResultFrame DEF ResultsOK, OthersStay

\* A step of a worker that neither takes an entry nor acknowledges one.
LEMMA WorkerMoves ==
  ASSUME Shape, RecoveryInv, NEW w \in Workers, OthersStay(w), RowsOnlySettle,
         UNCHANGED <<apiVars, streamVars>>, Held(w)' \subseteq Held(w),
         Held(w)' \subseteq pel => Holds(w)', Result(w)'
  PROVE  RecoveryInv'
<1>1. UNCHANGED <<group, undelivered, pel, apiPc, apiJob>>
  BY DEF apiVars, streamVars
<1>2. EntriesOK' /\ HoldersOK' /\ ResultsOK'
  BY <1>1, EntriesFrame, HolderMoves, ResultMoves DEF RecoveryInv
<1>3. RowsReachable'
  BY <1>1, RowsFrame DEF RecoveryInv, Waiting, Enqueued
<1>4. QED
  BY <1>1, <1>2, <1>3 DEF RecoveryInv, GroupMade

\* A worker that goes on with the entry it has.
LEMMA WorkerGoesOn ==
  ASSUME Shape, RecoveryInv, NEW w \in Workers, OthersStay(w), RowsOnlySettle,
         UNCHANGED <<apiVars, streamVars, job, todo>>,
         NEW p \in {"claim", "claimed", "running", "refresh", "orphaned", "failCrashed",
                    "marked", "movie", "ack"},
         Goto(w, p), Result(w)'
  PROVE  RecoveryInv'
<1>1. pc'[w] = p
  BY DEF Goto, Shape, TypeOK, WorkerTypes
<1>2. Held(w)' = Held(w) /\ (Held(w)' \subseteq pel => Holds(w)')
  BY <1>1 DEF Held, Holds, RecoveryInv, HoldersOK, streamVars
<1>3. QED
  BY <1>2, WorkerMoves

\* A process that ends lets go of what it held.
LEMMA WorkerExits ==
  ASSUME Shape, RecoveryInv, NEW w \in Workers, OthersStay(w), RowsOnlySettle,
         UNCHANGED <<apiVars, streamVars>>, Exit(w)
  PROVE  RecoveryInv'
<1>1. pc'[w] = "down" /\ job'[w] = NoJob /\ todo'[w] = {}
  BY DEF Exit, Goto, CloseSession, Shape, TypeOK, WorkerTypes
<1>2. Held(w)' = {} /\ Holds(w)' /\ Result(w)'
  BY <1>1 DEF Held, Holds, Result
<1>3. QED
  BY <1>2, WorkerMoves

LEMMA StartRecovers ==
  ASSUME Shape, RecoveryInv, NEW w \in Workers, Start(w)
  PROVE  RecoveryInv'
<1>1. OthersStay(w)
  BY WorkersStay DEF WorkerNext
<1>2. /\ pc'[w] = "reclaim" /\ pc[w] = "down" /\ group' = TRUE
      /\ UNCHANGED <<pel, apiPc, apiJob, jobStatus, job, todo, saw>>
      /\ undelivered' = IF group THEN undelivered ELSE <<>>
  BY DEF Start, Goto, Shape, TypeOK, WorkerTypes, jobVars, apiVars, holdVars, readVars
<1>3. RowsOnlySettle /\ Enqueued' = Enqueued
  BY <1>2 DEF RowsOnlySettle, Enqueued
<1>4. Held(w)' = Held(w) /\ Holds(w)' /\ Result(w)'
  BY <1>2 DEF RecoveryInv, HoldersOK, Held, Holds, Result
<1>5. HoldersOK' /\ ResultsOK'
  BY <1>1, <1>2, <1>3, <1>4, HolderMoves, ResultMoves DEF RecoveryInv
<1>6. CASE group
  BY <1>2, <1>3, <1>5, <1>6, EntriesFrame, RowsFrame DEF RecoveryInv, GroupMade, Waiting
<1>7. CASE ~group
  <2>1. Waiting' = {} /\ DOMAIN undelivered' = {}
    BY <1>2, <1>7 DEF Waiting
  <2>2. EntriesOK'
    BY <1>2, <1>3, <2>1 DEF RecoveryInv, EntriesOK
  <2>3. ~GroupAtStart
    BY <1>7 DEF RecoveryInv, GroupMade
  <2>4. RowsReachable'
    BY <1>2, <2>3 DEF RecoveryInv, RowsReachable, NothingLost
  <2>5. QED
    BY <1>2, <1>5, <2>2, <2>4 DEF RecoveryInv, GroupMade
<1>8. QED
  BY <1>6, <1>7

\* A reclaimed batch comes from dead workers only.
LEMMA ReclaimRecovers ==
  ASSUME Shape, RecoveryInv, NothingSnatched, NEW w \in Workers,
         NEW batch \in SUBSET Reclaimable, Reclaim(w, batch)
  PROVE  RecoveryInv'
<1>1. OthersStay(w)
  BY WorkersStay DEF WorkerNext
<1>2. /\ pc'[w] = "batch" /\ pc[w] = "reclaim" /\ todo'[w] = batch
      /\ UNCHANGED <<pel, undelivered, group, apiPc, apiJob, jobStatus, job, saw>>
  BY DEF Reclaim, Goto, Shape, TypeOK, WorkerTypes, jobVars, apiVars, readVars, streamVars
<1>3. RowsOnlySettle
  BY <1>2 DEF RowsOnlySettle
<1>4. job[w] = NoJob /\ batch \subseteq pel /\ NoJob \notin batch
  BY <1>2, JobIdsAreNumbers
  DEF RecoveryInv, HoldersOK, Holds, Reclaimable, Shape, TypeOK, StreamTypes
<1>5. Held(w)' = batch /\ Holds(w)' /\ Result(w)'
  BY <1>2, <1>4 DEF Held, Holds, Result
<1>6. \A v \in Workers \ {w} : Held(v)' = Held(v) /\ Holds(v)' /\ batch \cap Held(v) = {}
  BY <1>1, <1>2 DEF OthersStay, NothingSnatched, RecoveryInv, HoldersOK, Held, Holds
<1>7. HoldersOK'
  <2>1. OneHolder'
    BY <1>5, <1>6 DEF RecoveryInv, HoldersOK, OneHolder
  <2>2. QED
    BY <1>5, <1>6, <2>1 DEF HoldersOK
<1>8. QED
  BY <1>1, <1>2, <1>3, <1>5, <1>7, EntriesFrame, ResultMoves, RowsFrame
  DEF RecoveryInv, GroupMade, Waiting, Enqueued

\* XREADGROUP hands the first entry to one worker; nobody else held it.
LEMMA ConsumeRecovers ==
  ASSUME Shape, RecoveryInv, NEW w \in Workers, Consume(w)
  PROVE  RecoveryInv'
<1> DEFINE n == Head(undelivered)
<1>1. OthersStay(w)
  BY WorkersStay DEF WorkerNext
<1>2. /\ pc'[w] = "claim" /\ pc[w] = "batch" /\ todo[w] = {} /\ undelivered # <<>>
      /\ job'[w] = n /\ undelivered' = Tail(undelivered) /\ pel' = pel \cup {n}
      /\ UNCHANGED <<group, apiPc, apiJob, jobStatus, todo, saw>>
  BY DEF Consume, Goto, Shape, TypeOK, WorkerTypes, jobVars, apiVars, readVars
<1>3. RowsOnlySettle
  BY <1>2 DEF RowsOnlySettle
<1>4. /\ undelivered \in Seq(JobIds) /\ n \in JobIds
      /\ Tail(undelivered) \in Seq(JobIds) /\ Len(Tail(undelivered)) = Len(undelivered) - 1
      /\ \A i \in 1 .. Len(Tail(undelivered)) : Tail(undelivered)[i] = undelivered[i + 1]
  BY <1>2, HeadTailProperties DEF Shape, TypeOK, StreamTypes
<1>5. /\ DOMAIN undelivered = 1 .. Len(undelivered) /\ Len(undelivered) \in Nat \ {0}
      /\ DOMAIN Tail(undelivered) = 1 .. Len(undelivered) - 1
  BY <1>2, <1>4, LenProperties, EmptySeq
<1>6. n = undelivered[1] /\ n \in Waiting
  BY <1>2, <1>4, <1>5 DEF Waiting
<1>7. /\ n \notin pel /\ n \notin Enqueued
      /\ jobStatus[n] # "RUNNING" /\ jobStatus[n] # "ABSENT"
  BY <1>4, <1>6 DEF RecoveryInv, EntriesOK, RowsReachable
<1>8. Waiting' = Waiting \ {n}
  <2>1. ASSUME NEW i \in 1 .. Len(undelivered) - 1
        PROVE  undelivered'[i] = undelivered[i + 1] /\ undelivered[i + 1] # n
    BY <1>2, <1>4, <1>5, <1>6 DEF RecoveryInv, EntriesOK
  <2>2. ASSUME NEW i \in DOMAIN undelivered, undelivered[i] # n
        PROVE  i - 1 \in DOMAIN undelivered' /\ undelivered'[i - 1] = undelivered[i]
    BY <2>2, <1>2, <1>4, <1>5, <1>6
  <2>3. QED
    BY <1>2, <1>5, <2>1, <2>2 DEF Waiting
<1>9. Enqueued' = Enqueued
  BY <1>2 DEF Enqueued
<1>10. EntriesOK'
  <2>1. ASSUME NEW i \in DOMAIN undelivered', NEW k \in DOMAIN undelivered',
               undelivered'[i] = undelivered'[k]
        PROVE  i = k
    <3>1. i + 1 \in DOMAIN undelivered /\ k + 1 \in DOMAIN undelivered
      BY <1>2, <1>5
    <3>2. undelivered[i + 1] = undelivered[k + 1]
      BY <2>1, <1>2, <1>4, <1>5
    <3>3. i + 1 = k + 1
      BY <3>1, <3>2 DEF RecoveryInv, EntriesOK
    <3>4. QED
      BY <3>3, <1>2, <1>5
  <2>2. QED
    BY <1>2, <1>7, <1>8, <1>9, <2>1 DEF RecoveryInv, EntriesOK
<1>11. job[w] = NoJob /\ Held(w)' = {n}
  BY <1>2, <1>4, JobIdsAreNumbers DEF RecoveryInv, HoldersOK, Holds, Held
<1>12. \A v \in Workers \ {w} : Held(v)' = Held(v) /\ Held(v) \subseteq pel /\ Holds(v)'
  BY <1>1, <1>2 DEF OthersStay, RecoveryInv, HoldersOK, Held, Holds
<1>13. Holds(w)' /\ Result(w)'
  BY <1>2, <1>7, <1>11 DEF Holds, Result
<1>14. OneHolder'
  BY <1>7, <1>11, <1>12 DEF RecoveryInv, HoldersOK, OneHolder
<1>15. RowsReachable'
  BY <1>2, <1>8, <1>9 DEF RecoveryInv, RowsReachable, NothingLost
<1>16. QED
  BY <1>1, <1>2, <1>3, <1>10, <1>12, <1>13, <1>14, <1>15, ResultMoves
  DEF RecoveryInv, GroupMade, HoldersOK

\* A claim makes the row RUNNING; its entry is pending, in the hands of the claimer.
LEMMA ClaimRecovers ==
  ASSUME Shape, RecoveryInv, NEW w \in Workers, Claim(w), Claimable(job[w])
  PROVE  RecoveryInv'
<1>1. OthersStay(w) /\ UNCHANGED apiVars
  BY WorkersStay DEF WorkerNext
<1>2. /\ pc'[w] = "claimed" /\ pc[w] = "claim" /\ job[w] \in JobIds
      /\ jobStatus' = [jobStatus EXCEPT ![job[w]] = "RUNNING"]
      /\ UNCHANGED <<group, undelivered, pel, job, todo, saw>>
  BY DEF Claim, Claimable, Goto, Shape, TypeOK, WorkerTypes, WorkerHandles, holdVars, readVars,
         streamVars
<1>3. /\ jobStatus'[job[w]] = "RUNNING"
      /\ \A j \in JobIds \ {job[w]} : jobStatus'[j] = jobStatus[j]
  BY <1>2 DEF Shape, TypeOK, JobTypes
<1>4. job[w] \in pel /\ Waiting' = Waiting /\ Enqueued' = Enqueued
  BY <1>1, <1>2, JobIdsAreNumbers
  DEF RecoveryInv, HoldersOK, Holds, Held, Waiting, Enqueued, apiVars
<1>5. Waiting \cup pel \cup Enqueued \subseteq JobIds
  BY DEF Waiting, Enqueued, Shape, TypeOK, StreamTypes, ApiHandles
<1>6. EntriesOK'
  BY <1>1, <1>2, <1>3, <1>4, <1>5 DEF RecoveryInv, EntriesOK, apiVars
<1>7. HoldersOK'
  <2>1. Held(w)' = Held(w) /\ (Held(w)' \subseteq pel => Holds(w)')
    BY <1>2 DEF RecoveryInv, HoldersOK, Held, Holds
  <2>2. QED
    BY <1>1, <1>2, <2>1, HolderMoves DEF RecoveryInv
<1>8. ResultsOK'
  <2>1. ASSUME NEW v \in Workers \ {w} PROVE Result(v)'
    <3>1. pc[v] \in {"claim", "running", "marked", "movie", "ack"} =>
            job[v] \in JobIds /\ job[v] # job[w]
      BY <1>2, JobIdsAreNumbers
      DEF RecoveryInv, HoldersOK, OneHolder, Held, Shape, WorkerHandles
    <3>2. pc[v] \in {"claim", "running", "marked", "movie", "ack"} =>
            jobStatus'[job[v]] = jobStatus[job[v]]
      BY <1>3, <3>1
    <3>3. QED
      BY <1>1, <3>2 DEF RecoveryInv, ResultsOK, Result, Settled, OthersStay
  <2>2. Result(w)'
    BY <1>2 DEF Result
  <2>3. QED
    BY <2>1, <2>2 DEF ResultsOK
<1>9. RowsReachable'
  BY <1>2, <1>3, <1>4 DEF RecoveryInv, RowsReachable, NothingLost
<1>10. QED
  BY <1>2, <1>6, <1>7, <1>8, <1>9 DEF RecoveryInv, GroupMade

\* XACK takes the entry of a settled job out of the pending list, and only that one.
LEMMA AckRecovers ==
  ASSUME Shape, RecoveryInv, NEW w \in Workers, Ack(w)
  PROVE  RecoveryInv'
<1> DEFINE n == job[w]
<1>1. OthersStay(w) /\ UNCHANGED apiVars
  BY WorkersStay DEF WorkerNext
<1>2. /\ pc'[w] \in {"batch", "reclaim"} /\ pc[w] = "ack" /\ job'[w] = NoJob
      /\ pel' = pel \ {n} /\ UNCHANGED <<group, undelivered, todo, jobStatus>>
  BY DEF Ack, Goto, CloseSession, Shape, TypeOK, WorkerTypes, jobVars
<1>3. RowsOnlySettle /\ Waiting' = Waiting /\ Enqueued' = Enqueued
  BY <1>1, <1>2 DEF RowsOnlySettle, Waiting, Enqueued, apiVars
<1>4. n \in JobIds /\ n # NoJob /\ Settled(n) /\ n \in Held(w)
  BY <1>2, JobIdsAreNumbers DEF Shape, WorkerHandles, RecoveryInv, ResultsOK, Result, Held
<1>5. EntriesOK'
  BY <1>1, <1>2, <1>3 DEF RecoveryInv, EntriesOK, apiVars
<1>6. Held(w)' = todo[w] /\ n \notin todo[w] /\ todo[w] \subseteq pel
  BY <1>2 DEF RecoveryInv, HoldersOK, Holds, Held
<1>7. NoJob \notin todo[w]
  BY JobIdsAreNumbers DEF Shape, TypeOK, WorkerTypes
<1>8. Holds(w)'
  BY <1>2, <1>6, <1>7 DEF Holds
<1>9. ASSUME NEW v \in Workers \ {w} PROVE Held(v)' = Held(v) /\ n \notin Held(v) /\ Holds(v)'
  BY <1>1, <1>2, <1>4 DEF OthersStay, RecoveryInv, HoldersOK, OneHolder, Holds, Held
<1>10. OneHolder'
  BY <1>6, <1>9 DEF RecoveryInv, HoldersOK, OneHolder, Held
<1>11. ResultsOK'
  BY <1>1, <1>2, <1>3, ResultMoves DEF RecoveryInv, Result
<1>12. RowsReachable'
  <2>1. jobStatus[n] \notin {"QUEUED", "RUNNING"}
    BY <1>4 DEF Settled, IN_PROGRESS_STATUSES
  <2>2. QED
    BY <1>2, <1>3, <2>1 DEF RecoveryInv, RowsReachable, NothingLost
<1>13. QED
  BY <1>2, <1>5, <1>8, <1>9, <1>10, <1>11, <1>12 DEF RecoveryInv, GroupMade, HoldersOK

\* The status a run works with: after it was read, only a settled row is not RUNNING.
LEMMA ReadsRunning ==
  ASSUME Shape, ClaimDiscipline, NEW w \in Workers, pc[w] \in {"claimed", "refresh"},
         JobExists(job[w]), saw' = [saw EXCEPT ![w] = [status |-> jobStatus[job[w]],
                                                       progress |-> progress[job[w]]]],
         UNCHANGED <<job, jobStatus>>, Goto(w, "running")
  PROVE  Result(w)'
<1>1. job[w] \in JobIds /\ startedAt[job[w]]
  BY DEF Shape, WorkerHandles, ClaimDiscipline, Executing
<1>2. jobStatus[job[w]] # "QUEUED"
  BY <1>1 DEF ClaimDiscipline
<1>3. pc'[w] = "running" /\ saw'[w].status = jobStatus[job[w]]
  BY DEF Goto, Shape, TypeOK, WorkerTypes
<1>4. QED
  BY <1>2, <1>3 DEF Result, Settled, IN_PROGRESS_STATUSES

LEMMA RunRecovers ==
  ASSUME Shape, ClaimDiscipline, RecoveryInv, NEW w \in Workers,
         \/ ReadReclaimed(w) \/ Claim(w) \/ StartProvider(w) \/ Refresh(w) \/ OrphanExits(w)
         \/ \E p \in Reported : RecordProgress(w, p)
  PROVE  RecoveryInv'
<1>1. OthersStay(w)
  BY WorkersStay DEF WorkerNext
<1>2. pc[w] \in {"claim", "reclaimed"} => job[w] \in JobIds
  BY DEF Shape, WorkerHandles
<1>3. CASE ReadReclaimed(w)
  <2>1. RowsOnlySettle /\ UNCHANGED <<apiVars, streamVars, job, todo, jobStatus>> /\ pc[w] = "reclaimed"
    BY <1>3 DEF ReadReclaimed, RowsOnlySettle, jobVars, holdVars
  <2>2. PICK p \in {"failCrashed", "claim", "ack"} :
          /\ Goto(w, p)
          /\ p = "claim" => jobStatus[job[w]] = "QUEUED"
          /\ p = "ack" => Settled(job[w])
    BY <1>3 DEF ReadReclaimed, Settled
  <2>3. Result(w)'
    BY <2>1, <2>2 DEF Goto, Result, Settled, Shape, TypeOK, WorkerTypes
  <2>4. QED
    BY <1>1, <2>1, <2>2, <2>3, WorkerGoesOn
<1>4. CASE Claim(w)
  <2>1. CASE Claimable(job[w])
    BY <1>4, <2>1, ClaimRecovers
  <2>2. CASE ~Claimable(job[w])
    <3>1. /\ Goto(w, "ack") /\ UNCHANGED <<apiVars, streamVars, job, todo, jobStatus>>
          /\ pc[w] = "claim"
      BY <1>4, <2>2 DEF Claim, holdVars
    <3>2. RowsOnlySettle /\ Settled(job[w])
      BY <2>2, <3>1 DEF RowsOnlySettle, Claimable, Settled, IN_PROGRESS_STATUSES, RecoveryInv,
                        ResultsOK, Result
    <3>3. Result(w)'
      BY <3>1, <3>2 DEF Goto, Result, Settled, Shape, TypeOK, WorkerTypes
    <3>4. QED
      BY <1>1, <3>1, <3>2, <3>3, WorkerGoesOn
  <2>3. QED
    BY <2>1, <2>2
<1>5. CASE StartProvider(w) \/ Refresh(w)
  <2>1. /\ RowsOnlySettle /\ UNCHANGED <<apiVars, streamVars, job, todo, jobStatus>>
        /\ pc[w] \in {"claimed", "refresh"}
    BY <1>5 DEF StartProvider, Refresh, RowsOnlySettle, jobVars, holdVars
  <2>2. CASE JobExists(job[w])
    <3>1. /\ Goto(w, "running")
          /\ saw' = [saw EXCEPT ![w] = [status |-> jobStatus[job[w]],
                                        progress |-> progress[job[w]]]]
      BY <1>5, <2>2 DEF StartProvider, Refresh
    <3>2. Result(w)'
      BY <2>1, <2>2, <3>1, ReadsRunning
    <3>3. QED
      BY <1>1, <2>1, <3>1, <3>2, WorkerGoesOn
  <2>3. CASE ~JobExists(job[w])
    <3>1. Settled(job[w])
      BY <2>3 DEF JobExists, NoRow, Settled, IN_PROGRESS_STATUSES
    <3>2. PICK p \in {"ack", "orphaned"} : Goto(w, p)
      BY <1>5, <2>3 DEF StartProvider, Refresh
    <3>3. Result(w)'
      BY <2>1, <3>1, <3>2 DEF Goto, Result, Settled, Shape, TypeOK, WorkerTypes
    <3>4. QED
      BY <1>1, <2>1, <3>2, <3>3, WorkerGoesOn
  <2>4. QED
    BY <2>2, <2>3
<1>6. CASE OrphanExits(w)
  <2>1. RowsOnlySettle /\ UNCHANGED <<apiVars, streamVars>> /\ Exit(w)
    BY <1>6 DEF OrphanExits, RowsOnlySettle, jobVars
  <2>2. QED
    BY <1>1, <2>1, WorkerExits
<1>7. ASSUME NEW p \in Reported, RecordProgress(w, p) PROVE RecoveryInv'
  <2>1. RowsOnlySettle /\ UNCHANGED <<apiVars, streamVars, job, todo, jobStatus>>
    BY <1>7 DEF RecordProgress, RowsOnlySettle, holdVars
  <2>2. PICK q \in {"refresh", "orphaned"} : Goto(w, q)
    BY <1>7 DEF RecordProgress
  <2>3. Result(w)'
    BY <2>2 DEF Goto, Result, Shape, TypeOK, WorkerTypes
  <2>4. QED
    BY <1>1, <2>1, <2>2, <2>3, WorkerGoesOn
<1>8. QED
  BY <1>3, <1>4, <1>5, <1>6, <1>7

\* After the run: the outcome is written before the entry can be acknowledged.
LEMMA OutcomeSettles ==
  ASSUME Shape, NEW w \in Workers, NEW result \in {"SUCCEEDED", "FAILED"},
         job[w] \in JobIds, WriteOutcome(job[w], result), Goto(w, "marked"), job' = job
  PROVE  Result(w)'
<1>1. pc'[w] = "marked" /\ jobStatus'[job[w]] = result
  BY DEF WriteOutcome, Goto, Shape, TypeOK, WorkerTypes, JobTypes
<1>2. QED
  BY <1>1 DEF Result, Settled, IN_PROGRESS_STATUSES

LEMMA MarkRecovers ==
  ASSUME Shape, RecoveryInv, NEW w \in Workers, NEW result \in {"SUCCEEDED", "FAILED"},
         Mark(w, result)
  PROVE  RecoveryInv'
<1>1. OthersStay(w) /\ job[w] \in JobIds
  BY WorkersStay DEF WorkerNext, Mark, Shape, WorkerHandles
<1>2. RowsOnlySettle /\ UNCHANGED <<apiVars, streamVars>> /\ pc[w] = "running"
  BY WorkerQuiet DEF WorkerNext, Mark, Quiet, Claim, StartProvider, ReadReclaimed
<1>3. CASE MarkAllowed(saw[w].status, result) /\ JobExists(job[w])
  <2>1. WriteOutcome(job[w], result) /\ Goto(w, "marked") /\ UNCHANGED <<job, todo>>
    BY <1>3 DEF Mark, holdVars
  <2>2. QED
    BY <1>1, <1>2, <2>1, OutcomeSettles, WorkerGoesOn
<1>4. CASE MarkAllowed(saw[w].status, result) /\ ~JobExists(job[w])
  BY <1>1, <1>2, <1>4, WorkerExits DEF Mark
<1>5. CASE ~MarkAllowed(saw[w].status, result)
  <2>1. Goto(w, "ack") /\ UNCHANGED <<job, todo, jobStatus>>
    BY <1>5 DEF Mark, holdVars
  <2>2. Settled(job[w])
    BY <1>2, <1>5 DEF MarkAllowed, RecoveryInv, ResultsOK, Result
  <2>3. Result(w)'
    BY <2>1, <2>2 DEF Goto, Result, Settled, Shape, TypeOK, WorkerTypes
  <2>4. QED
    BY <1>1, <1>2, <2>1, <2>3, WorkerGoesOn
<1>6. QED
  BY <1>3, <1>4, <1>5

LEMMA ResultRecovers ==
  ASSUME Shape, RecoveryInv, NEW w \in Workers,
         FailCrashed(w) \/ RefreshMarked(w) \/ UpdateMovie(w) \/ Crash(w)
  PROVE  RecoveryInv'
<1>1. OthersStay(w)
  BY WorkersStay DEF WorkerNext
<1>2. CASE FailCrashed(w)
  <2>1. /\ RowsOnlySettle /\ UNCHANGED <<apiVars, streamVars, job, todo>>
        /\ pc[w] = "failCrashed" /\ job[w] \in JobIds
    BY <1>2, WorkerQuiet
    DEF WorkerNext, FailCrashed, Quiet, Claim, StartProvider, ReadReclaimed, holdVars, Shape,
        WorkerHandles
  <2>2. CASE JobExists(job[w])
    <3>1. WriteOutcome(job[w], "FAILED") /\ Goto(w, "marked")
      BY <1>2, <2>2 DEF FailCrashed
    <3>2. QED
      BY <1>1, <2>1, <3>1, OutcomeSettles, WorkerGoesOn
  <2>3. CASE ~JobExists(job[w])
    <3>1. Goto(w, "ack") /\ jobStatus' = jobStatus
      BY <1>2, <2>3 DEF FailCrashed
    <3>2. Settled(job[w])
      BY <2>3 DEF JobExists, NoRow, Settled, IN_PROGRESS_STATUSES
    <3>3. Result(w)'
      BY <2>1, <3>1, <3>2 DEF Goto, Result, Settled, Shape, TypeOK, WorkerTypes
    <3>4. QED
      BY <1>1, <2>1, <3>1, <3>3, WorkerGoesOn
  <2>4. QED
    BY <2>2, <2>3
<1>3. CASE RefreshMarked(w) \/ UpdateMovie(w)
  <2>1. RowsOnlySettle /\ UNCHANGED <<apiVars, streamVars, jobStatus>> /\ pc[w] \in {"marked", "movie"}
    BY <1>3 DEF RefreshMarked, UpdateMovie, RowsOnlySettle, jobVars
  <2>2. CASE Exit(w)
    BY <1>1, <2>1, <2>2, WorkerExits
  <2>3. CASE ~Exit(w)
    <3>1. PICK p \in {"movie", "ack"} : Goto(w, p)
      BY <1>3, <2>3 DEF RefreshMarked, UpdateMovie
    <3>2. UNCHANGED <<job, todo>>
      BY <1>3, <2>3 DEF RefreshMarked, UpdateMovie, holdVars
    <3>3. Result(w)'
      BY <2>1, <3>1, <3>2
      DEF RecoveryInv, ResultsOK, Result, Goto, Settled, Shape, TypeOK, WorkerTypes
    <3>4. QED
      BY <1>1, <2>1, <3>1, <3>2, <3>3, WorkerGoesOn
  <2>4. QED
    BY <2>2, <2>3
<1>4. CASE Crash(w)
  <2>1. RowsOnlySettle /\ UNCHANGED <<apiVars, streamVars>> /\ Exit(w)
    BY <1>4 DEF Crash, RowsOnlySettle, jobVars
  <2>2. QED
    BY <1>1, <2>1, WorkerExits
<1>5. QED
  BY <1>2, <1>3, <1>4

\* Going through a batch: an entry moves from the batch into the worker's hand.
LEMMA BatchRecovers ==
  ASSUME Shape, RecoveryInv, NEW w \in Workers, TakeReclaimed(w) \/ ConsumeNothing(w)
  PROVE  RecoveryInv'
<1>1. OthersStay(w)
  BY WorkersStay DEF WorkerNext
<1>2. RowsOnlySettle /\ UNCHANGED <<apiVars, streamVars>> /\ pc[w] = "batch"
  BY DEF TakeReclaimed, ConsumeNothing, RowsOnlySettle, jobVars
<1>3. job[w] = NoJob /\ NoJob \notin todo[w] /\ Held(w) \subseteq pel
  BY <1>2, JobIdsAreNumbers
  DEF RecoveryInv, HoldersOK, Holds, Shape, TypeOK, WorkerTypes
<1>4. CASE TakeReclaimed(w)
  <2>1. PICK j \in todo[w] : todo'[w] = todo[w] \ {j} /\ job'[w] = j
    BY <1>4 DEF TakeReclaimed, Shape, TypeOK, WorkerTypes
  <2>2. pc'[w] = "reclaimed"
    BY <1>4 DEF TakeReclaimed, Goto, Shape, TypeOK, WorkerTypes
  <2>3. Held(w)' = Held(w) /\ Result(w)' /\ (Held(w)' \subseteq pel => Holds(w)')
    BY <1>2, <1>3, <2>1, <2>2 DEF Held, Holds, Result, streamVars
  <2>4. QED
    BY <1>1, <1>2, <2>3, WorkerMoves
<1>5. CASE ConsumeNothing(w)
  <2>1. pc'[w] = "reclaim" /\ UNCHANGED <<job, todo>>
    BY <1>5 DEF ConsumeNothing, Goto, holdVars, Shape, TypeOK, WorkerTypes
  <2>2. Held(w)' = Held(w) /\ Result(w)' /\ (Held(w)' \subseteq pel => Holds(w)')
    BY <1>2, <1>3, <2>1 DEF Held, Holds, Result, streamVars
  <2>3. QED
    BY <1>1, <1>2, <2>2, WorkerMoves
<1>6. QED
  BY <1>4, <1>5

LEMMA StepRecovers ==
  ASSUME Shape, ClaimDiscipline, RecoveryInv, [Next]_vars, NothingSnatched
  PROVE  RecoveryInv'
<1>1. ASSUME NEW w \in Workers, WorkerNext(w) \/ Crash(w)
      PROVE  RecoveryInv'
  BY <1>1, StartRecovers, ReclaimRecovers, BatchRecovers, ConsumeRecovers, RunRecovers,
     MarkRecovers, ResultRecovers, AckRecovers
  DEF WorkerNext
<1>2. CASE UNCHANGED vars
  <2>1. UNCHANGED <<group, undelivered, pel, apiPc, apiJob, jobStatus, workerVars>>
    BY <1>2 DEF vars, streamVars, apiVars, jobVars
  <2>2. RowsOnlySettle
    BY <2>1 DEF RowsOnlySettle
  <2>3. QED
    BY <2>1, <2>2, EntriesFrame, RowsFrame, WorkersFrame
    DEF RecoveryInv, GroupMade, Waiting, Enqueued
<1>3. QED
  BY <1>1, <1>2, ApiRecovers DEF Next

LEMMA Reachable ==
  ASSUME GroupAtStart, ~ApiMayAbort, RecoveryInv
  PROVE  UnfinishedIsRecoverable
BY DEF RecoveryInv, RowsReachable, UnfinishedIsRecoverable, NothingLost, Waiting, Enqueued

-----------------------------------------------------------------------------
(* Results.                                                                *)

\* Whoever may still write a result works on a job that has none.
Written == {"SUCCEEDED", "FAILED"}
MayWrite(w) == Executing(w) \/ pc[w] = "failCrashed"
Unwritten(w) == MayWrite(w) => jobStatus[job[w]] \notin Written
NoResultYet == \A w \in Workers : Unwritten(w)

KeepsResults ==
  \A j \in JobIds :
    jobStatus[j] \in Written => jobStatus'[j] \in {jobStatus[j], "CANCELED", "DELETED"}

\* What a worker's step does to the rows and to its own place.
WritesOwnRow(w) ==
  /\ \A j \in JobIds : j # job[w] => jobStatus'[j] = jobStatus[j]
  /\ jobStatus[job[w]] \in Written => jobStatus'[job[w]] = jobStatus[job[w]]
  /\ Unwritten(w)'

LEMMA ApiWritesNoResult ==
  ASSUME Shape, ClaimDiscipline, NEW a \in Apis, ApiNext(a)
  PROVE  /\ KeepsResults
         /\ \A j \in JobIds : jobStatus'[j] \in Written => jobStatus[j] \in Written
         /\ UNCHANGED <<pc, job>>
<1>1. UNCHANGED <<pc, job>>
  BY DEF ApiNext, ApiContinues, CreateJob, EnqueueJob, MovieGenerating, CancelJob, MovieDraft,
         ApiAborts, RequestGeneration, CancelGeneration, CreateDraft, DeleteMovie, WriteStory,
         workerVars, holdVars
<1>2. CASE CreateJob(a)
  <2>1. CASE MovieExists(apiMovie[a])
    <3>1. /\ jobStatus' = [jobStatus EXCEPT ![nextJob] = "QUEUED"]
          /\ nextJob \in JobIds /\ jobStatus[nextJob] = "ABSENT"
      BY <1>2, <2>1 DEF CreateJob, JobIds, Shape, TypeOK, JobTypes, ClaimDiscipline
    <3>2. QED
      BY <1>1, <3>1 DEF KeepsResults, Written, Shape, TypeOK, JobTypes
  <2>2. CASE ~MovieExists(apiMovie[a])
    BY <1>1, <1>2, <2>2 DEF CreateJob, jobVars, KeepsResults
  <2>3. QED
    BY <2>1, <2>2
<1>3. CASE CancelJob(a)
  <2>1. \/ jobStatus' = jobStatus
        \/ jobStatus' = [jobStatus EXCEPT ![apiJob[a]] = "CANCELED"]
    BY <1>3 DEF CancelJob
  <2>2. QED
    BY <1>1, <2>1 DEF KeepsResults, Written, Shape, TypeOK, JobTypes
<1>4. ASSUME NEW m \in Movies, DeleteMovie(a, m)
      PROVE  /\ KeepsResults
             /\ \A j \in JobIds : jobStatus'[j] \in Written => jobStatus[j] \in Written
  BY <1>4 DEF DeleteMovie, KeepsResults, Written
<1>5. CASE ~CreateJob(a) /\ ~CancelJob(a) /\ ~\E m \in Movies : DeleteMovie(a, m)
  <2>1. jobStatus' = jobStatus
    BY <1>5 DEF ApiNext, ApiContinues, EnqueueJob, MovieGenerating, MovieDraft, ApiAborts,
                RequestGeneration, CancelGeneration, CreateDraft, WriteStory, jobVars
  <2>2. QED
    BY <1>1, <2>1 DEF KeepsResults
<1>6. QED
  BY <1>1, <1>2, <1>3, <1>4, <1>5

LEMMA WorkerWritesOwnRow ==
  ASSUME Shape, NoResultYet, NEW w \in Workers, WorkerNext(w) \/ Crash(w)
  PROVE  WritesOwnRow(w)
<1>1. Unwritten(w) /\ jobStatus \in [JobIds -> JobStatus \cup NoRow]
  BY DEF NoResultYet, Shape, TypeOK, JobTypes
<1>2. pc[w] \notin {"down", "reclaim", "batch"} => job[w] \in JobIds
  BY DEF Shape, WorkerHandles
<1>3. ASSUME jobStatus' = jobStatus, job'[w] = job[w],
             MayWrite(w)' => MayWrite(w) \/ jobStatus[job[w]] = "RUNNING"
      PROVE  WritesOwnRow(w)
  BY <1>1, <1>3 DEF WritesOwnRow, Unwritten, Written
<1>4. ASSUME jobStatus' = jobStatus, ~MayWrite(w)'
      PROVE  WritesOwnRow(w)
  BY <1>4 DEF WritesOwnRow, Unwritten
<1>5. CASE \/ Start(w) \/ TakeReclaimed(w) \/ Consume(w) \/ ConsumeNothing(w) \/ OrphanExits(w)
           \/ RefreshMarked(w) \/ UpdateMovie(w) \/ Ack(w) \/ Crash(w)
           \/ \E batch \in SUBSET Reclaimable : Reclaim(w, batch)
  <2>1. jobStatus' = jobStatus
    BY <1>5 DEF Start, TakeReclaimed, Consume, ConsumeNothing, Reclaim, OrphanExits, RefreshMarked,
                UpdateMovie, Ack, Crash, jobVars
  <2>2. pc'[w] \in {"reclaim", "reclaimed", "claim", "batch", "down", "movie", "ack"}
    BY <1>5 DEF Start, TakeReclaimed, Consume, ConsumeNothing, Reclaim, OrphanExits, RefreshMarked,
                UpdateMovie, Ack, Crash, Exit, Goto, Shape, TypeOK, WorkerTypes
  <2>3. QED
    BY <1>4, <2>1, <2>2 DEF MayWrite, Executing
<1>6. CASE ReadReclaimed(w)
  <2>1. /\ jobStatus' = jobStatus /\ job' = job
        /\ pc'[w] \in {"claim", "ack", "failCrashed"}
        /\ pc'[w] = "failCrashed" => jobStatus[job[w]] = "RUNNING"
    BY <1>6 DEF ReadReclaimed, Goto, jobVars, holdVars, Shape, TypeOK, WorkerTypes
  <2>2. QED
    BY <1>3, <2>1 DEF MayWrite, Executing
<1>7. CASE \/ StartProvider(w) \/ Refresh(w) \/ \E p \in Reported : RecordProgress(w, p)
  <2>1. jobStatus' = jobStatus /\ job' = job /\ MayWrite(w)
    BY <1>7 DEF StartProvider, Refresh, RecordProgress, jobVars, holdVars, MayWrite, Executing
  <2>2. QED
    BY <1>3, <2>1
<1>8. CASE Claim(w)
  <2>1. CASE Claimable(job[w])
    <3>1. /\ jobStatus[job[w]] = "QUEUED" /\ job' = job /\ job[w] \in JobIds
          /\ jobStatus' = [jobStatus EXCEPT ![job[w]] = "RUNNING"]
      BY <1>2, <1>8, <2>1 DEF Claim, Claimable, holdVars
    <3>2. QED
      BY <1>1, <3>1 DEF WritesOwnRow, Unwritten, Written
  <2>2. CASE ~Claimable(job[w])
    <3>1. jobStatus' = jobStatus /\ pc'[w] = "ack"
      BY <1>8, <2>2 DEF Claim, Goto, Shape, TypeOK, WorkerTypes
    <3>2. QED
      BY <1>4, <3>1 DEF MayWrite, Executing
  <2>3. QED
    BY <2>1, <2>2
<1>9. CASE FailCrashed(w) \/ \E result \in {"SUCCEEDED", "FAILED"} : Mark(w, result)
  <2>1. pc'[w] \in {"marked", "ack", "down"} /\ pc[w] \in {"running", "failCrashed"}
    BY <1>9 DEF FailCrashed, Mark, Exit, Goto, Shape, TypeOK, WorkerTypes
  <2>2. jobStatus[job[w]] \notin Written /\ ~MayWrite(w)'
    BY <1>1, <2>1 DEF Unwritten, MayWrite, Executing
  <2>3. \/ jobStatus' = jobStatus
        \/ \E result \in {"SUCCEEDED", "FAILED"} :
             jobStatus' = [jobStatus EXCEPT ![job[w]] = result]
    BY <1>9 DEF FailCrashed, Mark, WriteOutcome
  <2>4. QED
    BY <1>1, <2>2, <2>3 DEF WritesOwnRow, Unwritten
<1>10. QED
  BY <1>5, <1>6, <1>7, <1>8, <1>9 DEF WorkerNext

LEMMA StepKeepsResults ==
  ASSUME Shape, ClaimDiscipline, HoldersOK, NoResultYet, [Next]_vars
  PROVE  KeepsResults /\ NoResultYet'
<1>1. \A w \in Workers : MayWrite(w) => job[w] \in JobIds
  BY DEF MayWrite, Executing, Shape, WorkerHandles
<1>2. ASSUME NEW a \in Apis, ApiNext(a)
      PROVE  KeepsResults /\ NoResultYet'
  <2>1. /\ KeepsResults /\ UNCHANGED <<pc, job>>
        /\ \A j \in JobIds : jobStatus'[j] \in Written => jobStatus[j] \in Written
    BY <1>2, ApiWritesNoResult
  <2>2. QED
    BY <1>1, <2>1 DEF NoResultYet, Unwritten, MayWrite, Executing
<1>3. ASSUME NEW w \in Workers, WorkerNext(w) \/ Crash(w)
      PROVE  KeepsResults /\ NoResultYet'
  <2>1. WritesOwnRow(w) /\ OthersStay(w)
    BY <1>3, WorkerWritesOwnRow, WorkersStay
  <2>2. KeepsResults
    BY <2>1 DEF WritesOwnRow, KeepsResults
  <2>3. ASSUME NEW v \in Workers \ {w} PROVE Unwritten(v)'
    <3>1. pc'[v] = pc[v] /\ job'[v] = job[v]
      BY <2>1 DEF OthersStay
    <3>2. MayWrite(v)' = MayWrite(v)
      BY <3>1 DEF MayWrite, Executing
    <3>3. ASSUME MayWrite(v) PROVE jobStatus'[job[v]] = jobStatus[job[v]]
      <4>1. job[v] \in JobIds /\ job[v] \in Held(v)
        BY <1>1, <3>3, JobIdsAreNumbers DEF Held
      <4>2. job[v] # job[w]
        BY <4>1, JobIdsAreNumbers DEF HoldersOK, OneHolder, Held
      <4>3. QED
        BY <2>1, <4>1, <4>2 DEF WritesOwnRow
    <3>4. QED
      BY <3>1, <3>2, <3>3 DEF NoResultYet, Unwritten
  <2>4. QED
    BY <2>1, <2>2, <2>3 DEF NoResultYet, WritesOwnRow
<1>4. CASE UNCHANGED vars
  <2>1. UNCHANGED <<jobStatus, pc, job>>
    BY <1>4 DEF vars, jobVars, workerVars, holdVars
  <2>2. QED
    BY <2>1 DEF KeepsResults, NoResultYet, Unwritten, MayWrite, Executing
<1>5. QED
  BY <1>2, <1>3, <1>4 DEF Next

-----------------------------------------------------------------------------
(* Theorems.                                                               *)

\* With an idle limit that outlasts every live worker's hold, a RUNNING job keeps its
\* pending entry, so that the job of a worker that died is reclaimed
\* (video_generation_queue.py:87-106); API processes may die at any moment.
THEOREM RunningIsPending ==
  ASSUME IdleCoversRun
  PROVE  Spec => [](\A j \in JobIds : jobStatus[j] = "RUNNING" => j \in pel)
<1>1. [Next]_vars => NothingSnatched
  BY DEF NothingSnatched, Reclaimable
<1>2. Init => RecoveryInv
  BY InitRecovery DEF Init
<1>3. Shape /\ ClaimDiscipline /\ RecoveryInv /\ [Next]_vars => RecoveryInv'
  BY <1>1, StepRecovers
<1>4. RecoveryInv => (\A j \in JobIds : jobStatus[j] = "RUNNING" => j \in pel)
  BY DEF RecoveryInv, RowsReachable
<1>5. QED
  BY <1>2, <1>3, <1>4, ShapeAlways, ClaimDisciplineAlways, PTL DEF Spec

\* An accepted job can always still be finished, through any number of kills of workers,
\* cancellations and deletions: the idle limit outlasts every hold, the group exists before
\* the first XADD, and no API process dies between the row's commit and XADD.
THEOREM AcceptedIsRecoverable ==
  ASSUME IdleCoversRun, GroupAtStart, ~ApiMayAbort
  PROVE  Spec => []UnfinishedIsRecoverable
<1>1. [Next]_vars => NothingSnatched
  BY DEF NothingSnatched, Reclaimable
<1>2. Init => RecoveryInv
  BY InitRecovery DEF Init
<1>3. Shape /\ ClaimDiscipline /\ RecoveryInv /\ [Next]_vars => RecoveryInv'
  BY <1>1, StepRecovers
<1>4. RecoveryInv => UnfinishedIsRecoverable
  BY Reachable
<1>5. QED
  BY <1>2, <1>3, <1>4, ShapeAlways, ClaimDisciplineAlways, PTL DEF Spec

\* The result a worker committed is never written over by another worker, whatever is
\* redelivered, reclaimed or crashes: nobody who may still write works on a job with a
\* result (NoResultYet), because nobody else holds the entry of the one who writes.
THEOREM ResultsAreKept ==
  ASSUME IdleCoversRun
  PROVE  Spec => ResultIsKept
<1>1. [Next]_vars => NothingSnatched
  BY DEF NothingSnatched, Reclaimable
<1>2. Init => RecoveryInv /\ NoResultYet
  BY InitRecovery DEF Init, NothingStarted, NoResultYet, Unwritten, MayWrite, Executing
<1>3. Shape /\ ClaimDiscipline /\ RecoveryInv /\ NoResultYet /\ [Next]_vars
        => RecoveryInv' /\ NoResultYet' /\ KeepsResults
  BY <1>1, StepRecovers, StepKeepsResults DEF RecoveryInv
<1>4. KeepsResults => [\A j \in JobIds :
                         jobStatus[j] \in {"SUCCEEDED", "FAILED"}
                           => jobStatus'[j] \in {jobStatus[j], "CANCELED", "DELETED"}]_vars
  BY DEF KeepsResults, Written
<1>5. QED
  BY <1>2, <1>3, <1>4, ShapeAlways, ClaimDisciplineAlways, PTL DEF Spec, ResultIsKept

-----------------------------------------------------------------------------
(* The two durations (VideoGenerationTimed).                               *)

\* The limit of XAUTOCLAIM outlasts a whole batch, whose entries run one after the other
\* while all of them age.
BatchFits == ReclaimCount \in Nat \ {0} /\ ReclaimCount * MaxRun < MinIdle

\* How many runs a worker may have behind it in this batch.
Begun == {"reclaimed", "claim", "claimed"} \cup Runs
Behind(w) == ReclaimCount - Cardinality(todo[w]) - (IF pc[w] \in Begun THEN 1 ELSE 0)

\* An entry is handed over fresh and ages while its worker waits for the provider: with the
\* runs of the entries before it in the batch, and with its own.
Clock(w) ==
  /\ Behind(w) \in Nat
  /\ \A j \in Held(w) : idle[j] <= Behind(w) * MaxRun + ran[w]
  /\ pc[w] \notin Runs => ran[w] = 0
  /\ todo[w] # {} => pc[w] = "batch" \/ (reclaimed[w] /\ pc[w] # "reclaim")

Clocks == \A w \in Workers : Clock(w)

\* One more run, and no more runs than the batch has entries.
LEMMA Spans ==
  ASSUME NEW n \in Nat, NEW M \in Nat
  PROVE  /\ n * M \in Nat
         /\ (n + 1) * M = n * M + M
         /\ \A k \in Nat : n <= k => n * M <= k * M
OBVIOUS

LEMMA BatchesAreFinite ==
  ASSUME Shape, NEW w \in Workers
  PROVE  /\ IsFiniteSet(todo[w]) /\ Cardinality(todo[w]) \in Nat
<1>1. IsFiniteSet(JobIds) /\ todo[w] \subseteq JobIds
  BY FS_Interval, MaxJobsAssumption DEF JobIds, Shape, TypeOK, WorkerTypes
<1>2. IsFiniteSet(todo[w])
  BY <1>1, FS_Subset
<1>3. QED
  BY <1>2, FS_CardinalityType

LEMMA TimedStepIsStep == [TimedNext]_timedVars => [Next]_vars
BY DEF TimedNext, timedVars, Tick, Next, ApiNext

LEMMA TimedInitShape == TimedInit => Shape /\ ClaimDiscipline /\ RecoveryInv
<1> SUFFICES ASSUME TimedInit PROVE Shape /\ ClaimDiscipline /\ RecoveryInv
  OBVIOUS
<1> USE DEF TimedInit, NothingStarted
<1>1. MovieTypes /\ JobTypes /\ ForeignKey
  BY MaxJobsAssumption
  DEF MovieTypes, MovieStatus, JobTypes, ForeignKey, JobExists, NoRow, JobIds
<1>2. StreamTypes /\ ApiTypes /\ ApiHandles
  BY SwitchesAssumption, EmptySeq DEF StreamTypes, ApiTypes, ApiHandles, ApiPcs, NoJob
<1>3. WorkerTypes /\ CountTypes /\ WorkerHandles
  BY MaxCrashesAssumption DEF WorkerTypes, CountTypes, WorkerPcs, Unread, NoJob, WorkerHandles
<1>4. ClaimDiscipline
  BY DEF ClaimDiscipline, OneRunner, ProviderAtMostOnce, Executing
<1>5. QED
  BY <1>1, <1>2, <1>3, <1>4, InitRecovery DEF Shape, TypeOK

LEMMA TimedInitClocks == BatchFits /\ TimedInit => TimedTypeOK /\ Clocks
<1> SUFFICES ASSUME BatchFits, TimedInit PROVE TimedTypeOK /\ Clocks
  OBVIOUS
<1>1. TimedTypeOK
  BY TimedInitShape, DurationsAssumption DEF TimedTypeOK, Shape, TimedInit
<1>2. ASSUME NEW w \in Workers
      PROVE  Clock(w)
  <2>1. /\ pc[w] = "down" /\ todo[w] = {} /\ Held(w) = {} /\ ran[w] = 0
    BY DEF TimedInit, NothingStarted, Held
  <2>2. Behind(w) = ReclaimCount
    <3>1. Cardinality(todo[w]) = 0
      BY <2>1, FS_EmptySet
    <3>2. QED
      BY <2>1, <3>1 DEF Behind, Begun, Runs, BatchFits
  <2>3. QED
    BY <2>1, <2>2 DEF Clock, BatchFits
<1>3. QED
  BY <1>1, <1>2 DEF Clocks

\* The clocks stay within their ranges whatever is reclaimed.
LEMMA StepKeepsTimedTypes ==
  ASSUME Shape', TimedTypeOK, [TimedNext]_timedVars
  PROVE  TimedTypeOK'
<1>1. TypeOK'
  BY DEF Shape
<1>2. CASE Tick
  <2>1. idle' \in [JobIds -> 0..MinIdle]
    BY <1>2, DurationsAssumption DEF Tick, TimedTypeOK
  <2>2. ran' \in [Workers -> 0..MaxRun]
    BY <1>2, DurationsAssumption DEF Tick, Waits, TimedTypeOK
  <2>3. QED
    BY <1>1, <2>1, <2>2 DEF TimedTypeOK
<1>3. CASE ClocksFollow
  BY <1>1, <1>3, DurationsAssumption DEF ClocksFollow, TimedTypeOK
<1>4. CASE UNCHANGED timedVars
  BY <1>1, <1>4 DEF timedVars, clockVars, TimedTypeOK
<1>5. QED
  BY <1>2, <1>3, <1>4 DEF TimedNext

\* So XAUTOCLAIM returns nothing a live worker still holds.
LEMMA DueIsFree ==
  ASSUME Shape, TimedTypeOK, BatchFits, Clocks, NEW v \in Workers
  PROVE  Due \cap Held(v) = {}
<1>1. /\ Behind(v) \in Nat /\ Behind(v) <= ReclaimCount
      /\ pc[v] \in Runs => Behind(v) + 1 <= ReclaimCount
  BY BatchesAreFinite DEF Clocks, Clock, Behind, Begun, BatchFits
<1>2. /\ MaxRun \in Nat /\ ran[v] \in Nat /\ ran[v] <= MaxRun
      /\ pc[v] \notin Runs => ran[v] = 0
  BY DurationsAssumption DEF TimedTypeOK, Clocks, Clock
<1>3. /\ Behind(v) * MaxRun \in Nat
      /\ (Behind(v) + 1) * MaxRun = Behind(v) * MaxRun + MaxRun
      /\ ReclaimCount * MaxRun \in Nat
      /\ Behind(v) * MaxRun <= ReclaimCount * MaxRun
      /\ pc[v] \in Runs => (Behind(v) + 1) * MaxRun <= ReclaimCount * MaxRun
  <2>1. ReclaimCount \in Nat /\ Behind(v) + 1 \in Nat
    BY <1>1 DEF BatchFits
  <2>2. QED
    BY <1>1, <1>2, <2>1, Spans
<1>4. Behind(v) * MaxRun + ran[v] <= ReclaimCount * MaxRun
  <2> DEFINE b == Behind(v) * MaxRun
             c == (Behind(v) + 1) * MaxRun
             d == ReclaimCount * MaxRun
  <2>1. b \in Nat /\ d \in Nat /\ c = b + MaxRun /\ b <= d /\ (pc[v] \in Runs => c <= d)
    BY <1>3
  <2> HIDE DEF b, c, d
  <2>2. b + ran[v] <= d
    BY <1>2, <2>1
  <2>3. QED
    BY <2>2 DEF b, d
<1>5. \A j \in Held(v) : idle[j] <= Behind(v) * MaxRun + ran[v]
  BY DEF Clocks, Clock
<1>6. \A j \in Due : idle[j] \in Nat /\ idle[j] >= MinIdle
  BY DEF Due, TimedTypeOK, TypeOK, StreamTypes
<1>7. QED
  <2> DEFINE b == Behind(v) * MaxRun + ran[v]
             d == ReclaimCount * MaxRun
  <2>1. b \in Nat /\ d \in Nat /\ b <= d /\ d < MinIdle /\ \A j \in Held(v) : idle[j] <= b
    BY <1>2, <1>3, <1>4, <1>5 DEF BatchFits
  <2> HIDE DEF b, d
  <2>2. QED
    BY <1>6, <2>1, DurationsAssumption

LEMMA TimedReclaim ==
  ASSUME Shape, TimedNext, NEW w \in Workers, NEW batch \in SUBSET Reclaimable,
         Reclaim(w, batch)
  PROVE  batch \subseteq Due /\ todo'[w] = batch
<1>1. /\ pc[w] = "reclaim" /\ pc'[w] = "batch" /\ todo'[w] = batch
  BY DEF Reclaim, Goto, Shape, TypeOK, WorkerTypes
<1>2. ReclaimsWhatIsDue
  BY <1>1 DEF TimedNext, Tick, vars, workerVars
<1>3. QED
  BY <1>1, <1>2 DEF ReclaimsWhatIsDue, IsNextBatch

LEMMA TimedNothingSnatched ==
  ASSUME Shape, TimedTypeOK, BatchFits, Clocks, [TimedNext]_timedVars
  PROVE  NothingSnatched
<1> SUFFICES ASSUME NEW w \in Workers, NEW batch \in SUBSET Reclaimable, Reclaim(w, batch),
                    NEW v \in Workers
             PROVE  batch \cap Held(v) = {}
  BY DEF NothingSnatched
<1>1. TimedNext
  BY DEF Reclaim, Goto, timedVars, vars, workerVars, Shape, TypeOK, WorkerTypes
<1>2. QED
  BY <1>1, TimedReclaim, DueIsFree

\* The clocks of a step that is not a tick: nothing grows, and what is handed over is fresh.
LEMMA ClocksOnlyFall ==
  ASSUME TimedTypeOK, ClocksFollow
  PROVE  /\ \A j \in JobIds : idle'[j] \in Nat /\ idle'[j] <= idle[j]
         /\ \A v \in Workers, j \in JobIds : j \in Held(v)' \ Held(v) => idle'[j] = 0
         /\ \A v \in Workers : ran'[v] = IF pc'[v] \in Runs THEN ran[v] ELSE 0
BY DurationsAssumption DEF TimedTypeOK, ClocksFollow, Delivered, Runs

LEMMA HeldAreIds ==
  ASSUME Shape, NEW v \in Workers
  PROVE  Held(v) \subseteq JobIds
BY DEF Held, Shape, TypeOK, WorkerTypes

\* What a step has to do for the clock of one worker: the runs behind it stay, or one more
\* is behind it, or what it holds is fresh.
ClockSteps(w) ==
  /\ \/ Behind(w)' = Behind(w) /\ (pc[w] \in Runs => pc'[w] \in Runs)
     \/ Behind(w)' = Behind(w) + 1
     \/ Behind(w)' \in Nat /\ Held(w)' \cap Held(w) = {}
  /\ todo'[w] # {} => pc'[w] = "batch" \/ (reclaimed'[w] /\ pc'[w] # "reclaim")

LEMMA ClockStepKeeps ==
  ASSUME Shape, Shape', TimedTypeOK, ClocksFollow, NEW w \in Workers, Clock(w), ClockSteps(w)
  PROVE  Clock(w)'
<1> DEFINE n == Behind(w)
           m == Behind(w)'
           b == n * MaxRun
           c == m * MaxRun
<1>1. Held(w) \subseteq JobIds /\ Held(w)' \subseteq JobIds
  BY DEF Held, Shape, TypeOK, WorkerTypes
<1>2. /\ \A j \in JobIds : idle[j] \in Nat
      /\ ran[w] \in Nat /\ ran[w] <= MaxRun /\ MaxRun \in Nat
  BY DurationsAssumption DEF TimedTypeOK
<1>3. /\ \A j \in JobIds : idle'[j] \in Nat /\ idle'[j] <= idle[j]
      /\ \A j \in JobIds : j \in Held(w)' \ Held(w) => idle'[j] = 0
      /\ ran'[w] = IF pc'[w] \in Runs THEN ran[w] ELSE 0
  BY ClocksOnlyFall
<1>4. n \in Nat /\ m \in Nat
  BY DEF Clock, ClockSteps
<1>5. /\ b \in Nat /\ c \in Nat
      /\ m = n + 1 => c = b + MaxRun
  BY <1>2, <1>4, Spans
<1>6. /\ \A j \in Held(w) : idle[j] <= b + ran[w]
      /\ pc[w] \notin Runs => ran[w] = 0
  BY DEF Clock
<1>7. \/ c = b /\ (pc[w] \in Runs => pc'[w] \in Runs)
      \/ c = b + MaxRun
      \/ Held(w)' \cap Held(w) = {}
  BY <1>5 DEF ClockSteps
<1>8. ASSUME NEW j \in Held(w)'
      PROVE  idle'[j] <= c + ran'[w]
  <2> HIDE DEF b, c
  <2>1. ran'[w] \in Nat
    BY <1>2, <1>3
  <2>2. CASE j \notin Held(w)
    BY <1>1, <1>3, <1>5, <2>1, <2>2
  <2>3. CASE j \in Held(w)
    <3>1. idle'[j] <= idle[j] /\ idle[j] <= b + ran[w] /\ idle[j] \in Nat /\ idle'[j] \in Nat
      BY <1>1, <1>2, <1>3, <1>6, <2>3
    <3>2. b + ran[w] <= c + ran'[w]
      BY <1>2, <1>3, <1>5, <1>6, <1>7, <2>3
    <3>3. QED
      BY <1>2, <1>5, <2>1, <3>1, <3>2
  <2>4. QED
    BY <2>2, <2>3
<1>9. QED
  BY <1>3, <1>4, <1>8 DEF Clock, ClockSteps

\* A worker that is left alone.
LEMMA ClockStays ==
  ASSUME NEW v \in Workers, Clock(v), pc'[v] = pc[v], job'[v] = job[v], todo'[v] = todo[v],
         reclaimed'[v] = reclaimed[v]
  PROVE  ClockSteps(v)
BY DEF ClockSteps, Clock, Behind

\* A worker whose place changes and whose batch does not.
LEMMA BehindMoves ==
  ASSUME Shape, BatchFits, NEW w \in Workers, todo'[w] = todo[w]
  PROVE  /\ (pc[w] \in Begun <=> pc'[w] \in Begun) => Behind(w)' = Behind(w)
         /\ pc[w] \in Begun /\ pc'[w] \notin Begun => Behind(w)' = Behind(w) + 1
BY BatchesAreFinite DEF Behind, BatchFits

\* A worker whose batch is over.
LEMMA NothingBehind ==
  ASSUME Shape', BatchFits, NEW w \in Workers, todo'[w] = {}
  PROVE  Behind(w)' \in Nat
<1>1. Cardinality(todo'[w]) = 0
  BY FS_EmptySet
<1>2. QED
  BY <1>1 DEF Behind, BatchFits

LEMMA StreamClocks ==
  ASSUME Shape, Shape', HoldersOK, BatchFits, NEW w \in Workers, Clock(w),
         \/ Start(w) \/ TakeReclaimed(w) \/ Consume(w) \/ ConsumeNothing(w)
         \/ \E batch \in SUBSET Reclaimable : Reclaim(w, batch)
  PROVE  ClockSteps(w)
<1>1. CASE Start(w) \/ Consume(w) \/ ConsumeNothing(w)
  <2>1. /\ pc[w] \in {"down", "batch"} /\ todo[w] = {} /\ todo'[w] = {} /\ job[w] = NoJob
    BY <1>1 DEF Start, Consume, ConsumeNothing, Goto, holdVars, HoldersOK, Holds
  <2>2. Held(w)' \cap Held(w) = {}
    BY <2>1 DEF Held
  <2>3. QED
    BY <2>1, <2>2, NothingBehind DEF ClockSteps
<1>2. CASE TakeReclaimed(w)
  <2>1. /\ pc[w] = "batch" /\ pc'[w] = "reclaimed" /\ reclaimed'[w]
        /\ \E j \in todo[w] : todo'[w] = todo[w] \ {j}
    BY <1>2 DEF TakeReclaimed, Goto, Shape, TypeOK, WorkerTypes
  <2>2. Cardinality(todo'[w]) = Cardinality(todo[w]) - 1 /\ Cardinality(todo[w]) \in Nat
    <3>1. IsFiniteSet(todo[w]) /\ Cardinality(todo[w]) \in Nat
      BY BatchesAreFinite
    <3>2. PICK j \in todo[w] : todo'[w] = todo[w] \ {j}
      BY <2>1
    <3>3. Cardinality(todo[w] \ {j}) = Cardinality(todo[w]) - 1
      BY <3>1, FS_RemoveElement
    <3>4. QED
      BY <3>1, <3>2, <3>3
  <2>3. Behind(w)' = Behind(w)
    BY <2>1, <2>2 DEF Behind, Begun, Runs, BatchFits
  <2>4. QED
    BY <2>1, <2>3 DEF ClockSteps, Runs
<1>3. ASSUME NEW batch \in SUBSET Reclaimable, Reclaim(w, batch)
      PROVE  ClockSteps(w)
  <2>1. /\ pc[w] = "reclaim" /\ pc'[w] = "batch" /\ todo'[w] = batch
        /\ Cardinality(batch) <= ReclaimCount
    BY <1>3 DEF Reclaim, Goto, Shape, TypeOK, WorkerTypes
  <2>2. Cardinality(todo'[w]) \in Nat
    <3>1. IsFiniteSet(JobIds) /\ batch \subseteq JobIds
      BY FS_Interval, MaxJobsAssumption DEF JobIds, Reclaimable, Shape, TypeOK, StreamTypes
    <3>2. QED
      BY <2>1, <3>1, FS_Subset, FS_CardinalityType
  <2>3. Behind(w)' \in Nat
    BY <2>1, <2>2 DEF Behind, Begun, Runs, BatchFits
  <2>4. Held(w) = {}
    BY <2>1 DEF Held, HoldersOK, Holds, Clock
  <2>5. QED
    BY <2>1, <2>3, <2>4 DEF ClockSteps
<1>4. QED
  BY <1>1, <1>2, <1>3

\* The process ends: it holds nothing any more.
LEMMA ExitClocks ==
  ASSUME Shape, Shape', BatchFits, NEW w \in Workers, Exit(w)
  PROVE  ClockSteps(w)
<1>1. todo'[w] = {} /\ job'[w] = NoJob
  BY DEF Exit, CloseSession, Shape, TypeOK, WorkerTypes
<1>2. QED
  BY <1>1, NothingBehind DEF ClockSteps, Held

LEMMA RunClocks ==
  ASSUME Shape, Shape', BatchFits, NEW w \in Workers, Clock(w),
         \/ ReadReclaimed(w) \/ Claim(w) \/ StartProvider(w) \/ Refresh(w) \/ OrphanExits(w)
         \/ \E p \in Reported : RecordProgress(w, p)
  PROVE  ClockSteps(w)
<1>1. CASE OrphanExits(w)
  BY <1>1, ExitClocks DEF OrphanExits
<1>2. ASSUME ~OrphanExits(w)
      PROVE  ClockSteps(w)
  <2>1. /\ pc[w] \in Begun /\ UNCHANGED <<todo, reclaimed>>
        /\ pc'[w] \in Begun \cup {"failCrashed", "ack"}
        /\ pc[w] \in Runs /\ pc'[w] \in Begun => pc'[w] \in Runs
    BY <1>2
    DEF ReadReclaimed, Claim, StartProvider, Refresh, RecordProgress, Goto, holdVars, Begun, Runs,
        Shape, TypeOK, WorkerTypes
  <2>2. pc'[w] \in {"failCrashed", "ack"} => pc'[w] \notin Begun
    BY DEF Begun, Runs
  <2>3. QED
    BY <2>1, <2>2, BehindMoves DEF ClockSteps, Clock, Begun, Runs
<1>3. QED
  BY <1>1, <1>2

LEMMA ResultClocks ==
  ASSUME Shape, Shape', BatchFits, NEW w \in Workers, Clock(w),
         \/ FailCrashed(w) \/ RefreshMarked(w) \/ UpdateMovie(w) \/ Ack(w) \/ Crash(w)
         \/ \E result \in {"SUCCEEDED", "FAILED"} : Mark(w, result)
  PROVE  ClockSteps(w)
<1>1. CASE Exit(w)
  BY <1>1, ExitClocks
<1>2. CASE Ack(w)
  <2>1. /\ pc[w] = "ack" /\ todo' = todo
        /\ pc'[w] = IF reclaimed[w] THEN "batch" ELSE "reclaim"
    BY <1>2 DEF Ack, CloseSession, Goto, Shape, TypeOK, WorkerTypes
  <2>2. Behind(w)' = Behind(w)
    BY <2>1, BehindMoves DEF Begun, Runs
  <2>3. QED
    BY <2>1, <2>2 DEF ClockSteps, Clock, Runs
<1>3. ASSUME ~Exit(w), ~Ack(w)
      PROVE  ClockSteps(w)
  <2>1. /\ pc[w] \in {"running", "failCrashed", "marked", "movie"}
        /\ UNCHANGED <<todo, reclaimed>>
        /\ pc'[w] \in {"marked", "movie", "ack"}
    BY <1>3
    DEF FailCrashed, RefreshMarked, UpdateMovie, Crash, Mark, Goto, holdVars,
        Shape, TypeOK, WorkerTypes
  <2>2. \/ Behind(w)' = Behind(w) /\ pc[w] \notin Runs
        \/ Behind(w)' = Behind(w) + 1
    BY <2>1, BehindMoves DEF Begun, Runs
  <2>3. QED
    BY <2>1, <2>2 DEF ClockSteps, Clock
<1>4. QED
  BY <1>1, <1>2, <1>3

\* Time passes only while every worker is dead, idle or below its limit.
LEMMA TickClocks ==
  ASSUME Shape, HoldersOK, BatchFits, TimedTypeOK, Clocks, Tick
  PROVE  Clocks'
<1> SUFFICES ASSUME NEW w \in Workers PROVE Clock(w)'
  BY DEF Clocks
<1>1. /\ UNCHANGED <<pc, todo, job, reclaimed>>
      /\ Behind(w)' = Behind(w) /\ Held(w)' = Held(w)
  BY DEF Tick, vars, workerVars, holdVars, Behind, Held
<1>2. CASE pc[w] # "running"
  <2>1. Held(w) = {} /\ todo[w] = {}
    BY <1>2 DEF Tick, Waits, HoldersOK, Holds, Held
  <2>2. pc[w] \notin Runs /\ ran'[w] = 0
    BY <1>2 DEF Tick, Waits, Runs
  <2>3. QED
    BY <1>1, <2>1, <2>2 DEF Clocks, Clock
<1>3. CASE pc[w] = "running"
  <2> DEFINE b == Behind(w) * MaxRun
  <2>1. Behind(w) \in Nat /\ MaxRun \in Nat /\ b \in Nat
    BY DurationsAssumption, Spans DEF Clocks, Clock
  <2>2. ran'[w] = ran[w] + 1 /\ ran[w] \in Nat
    BY <1>3 DEF Tick, TimedTypeOK
  <2>3. ASSUME NEW j \in Held(w)
        PROVE  idle'[j] <= b + ran'[w]
    <3>1. j \in JobIds
      BY HeldAreIds
    <3>2. idle[j] \in Nat /\ idle'[j] \in {idle[j], idle[j] + 1} /\ idle[j] <= b + ran[w]
      BY <3>1 DEF Clocks, Clock, TimedTypeOK, Tick
    <3> HIDE DEF b
    <3>3. QED
      BY <2>1, <2>2, <3>2
  <2>4. QED
    BY <1>1, <1>3, <2>1, <2>3 DEF Clocks, Clock, Runs
<1>4. QED
  BY <1>2, <1>3

LEMMA StepKeepsClocks ==
  ASSUME Shape, Shape', RecoveryInv, BatchFits, TimedTypeOK, Clocks, [TimedNext]_timedVars
  PROVE  Clocks'
<1>1. HoldersOK
  BY DEF RecoveryInv
<1>2. ASSUME ClocksFollow, \A v \in Workers : ClockSteps(v)
      PROVE  Clocks'
  BY <1>2, ClockStepKeeps DEF Clocks
<1>3. ASSUME ClocksFollow, UNCHANGED <<pc, job, todo, reclaimed>>
      PROVE  Clocks'
  BY <1>2, <1>3, ClockStays DEF Clocks
<1>4. ASSUME NEW a \in Apis, ClocksFollow,
             \/ ApiContinues(a)
             \/ \E m \in Movies : RequestGeneration(a, m) \/ CancelGeneration(a, m)
      PROVE  Clocks'
  <2>1. UNCHANGED <<pc, job, todo, reclaimed>>
    BY <1>4
    DEF ApiContinues, CreateJob, EnqueueJob, MovieGenerating, CancelJob, MovieDraft,
        RequestGeneration, CancelGeneration, workerVars, holdVars
  <2>2. QED
    BY <1>3, <1>4, <2>1
<1>5. ASSUME NEW w \in Workers, ClocksFollow, WorkerNext(w) \/ Crash(w)
      PROVE  Clocks'
  <2>1. ClockSteps(w)
    BY <1>1, <1>5, StreamClocks, RunClocks, ResultClocks DEF WorkerNext, Clocks
  <2>2. \A v \in Workers \ {w} : ClockSteps(v)
    BY <1>5, WorkersStay, ClockStays DEF OthersStay, Clocks
  <2>3. QED
    BY <1>2, <1>5, <2>1, <2>2
<1>6. CASE UNCHANGED timedVars
  <2>1. \A w \in Workers : Behind(w)' = Behind(w) /\ Held(w)' = Held(w)
    BY <1>6 DEF timedVars, vars, workerVars, holdVars, Behind, Held
  <2>2. QED
    BY <1>6, <2>1 DEF timedVars, clockVars, vars, workerVars, holdVars, Clocks, Clock
<1>7. QED
  BY <1>1, <1>4, <1>5, <1>6, TickClocks DEF TimedNext

\* The clocks stay in range for every batch size, number of processes and crashes.
THEOREM TimedTypeCorrect == TimedSpec => []TimedTypeOK
<1>1. TimedInit => Shape /\ TimedTypeOK
  BY TimedInitShape, DurationsAssumption DEF TimedTypeOK, Shape, TimedInit
<1>2. Shape /\ TimedTypeOK /\ [TimedNext]_timedVars => Shape' /\ TimedTypeOK'
  BY TimedStepIsStep, StepKeepsShape, StepKeepsTimedTypes
<1>3. QED
  BY <1>1, <1>2, PTL DEF TimedSpec

\* The inductive invariant of the timed model.
TimedInv == Shape /\ ClaimDiscipline /\ RecoveryInv /\ TimedTypeOK /\ Clocks

LEMMA TimedInvAlways ==
  ASSUME BatchFits
  PROVE  TimedSpec => []TimedInv
<1>1. TimedInit => TimedInv
  BY TimedInitShape, TimedInitClocks DEF TimedInv
<1>2. TimedInv /\ [TimedNext]_timedVars => TimedInv'
  <2> SUFFICES ASSUME TimedInv, [TimedNext]_timedVars PROVE TimedInv'
    OBVIOUS
  <2>1. Shape /\ ClaimDiscipline /\ RecoveryInv /\ TimedTypeOK /\ Clocks
    BY DEF TimedInv
  <2>2. [Next]_vars
    BY TimedStepIsStep
  <2>3. Shape' /\ ClaimDiscipline'
    BY <2>1, <2>2, StepKeepsShape, StepKeepsClaims
  <2>4. RecoveryInv'
    BY <2>1, <2>2, TimedNothingSnatched, StepRecovers
  <2>5. TimedTypeOK' /\ Clocks'
    BY <2>1, <2>3, StepKeepsTimedTypes, StepKeepsClocks
  <2>6. QED
    BY <2>3, <2>4, <2>5 DEF TimedInv
<1>3. QED
  BY <1>1, <1>2, PTL DEF TimedSpec

\* With an idle limit longer than the runs of a whole batch, no entry is ever in the hands of
\* two live workers: RecoveryInv shows why a held entry is pending, Clocks why it is not yet
\* due.  (The defaults, batches of 10, runs of 900 s and a limit of 1200 s, are outside.)
THEOREM OneHolderAlways ==
  ASSUME BatchFits
  PROVE  TimedSpec => []OneHolder
<1>1. TimedInv => OneHolder
  BY DEF TimedInv, RecoveryInv, HoldersOK
<1>2. QED
  BY <1>1, TimedInvAlways, PTL

\* What app/core/config.py:49 wants, under the limit it takes: a job that a live worker runs
\* is never failed as crashed when the idle limit outlasts the runs of a whole batch.  (When
\* it outlasts one run only, it is: live_run_failed.)
THEOREM LiveRunsAreSafe ==
  ASSUME BatchFits
  PROVE  TimedSpec => []LiveRunNotFailed
<1>1. TimedInv => LiveRunNotFailed
  <2> SUFFICES ASSUME TimedInv, NEW v \in Workers, NEW w \in Workers,
                      pc[w] = "failCrashed", Executing(v)
               PROVE  job[v] # job[w]
    BY DEF LiveRunNotFailed
  <2>1. job[v] \in Held(v) /\ job[w] \in Held(w) /\ v # w
    BY JobIdsAreNumbers DEF Held, Executing, TimedInv, Shape, WorkerHandles
  <2>2. Held(v) \cap Held(w) = {}
    BY <2>1 DEF TimedInv, RecoveryInv, HoldersOK, OneHolder
  <2>3. QED
    BY <2>1, <2>2
<1>2. QED
  BY <1>1, TimedInvAlways, PTL

\* AcceptedIsRecoverable with its assumption on the idle limit replaced by the durations:
\* an accepted job can always still be finished, whatever workers die, if the limit outlasts
\* the runs of a whole batch, the group exists before the first XADD, and no API process
\* dies between the row's commit and its XADD.
THEOREM TimedRecoverable ==
  ASSUME BatchFits, GroupAtStart, ~ApiMayAbort
  PROVE  TimedSpec => []UnfinishedIsRecoverable
<1>1. TimedInv => UnfinishedIsRecoverable
  BY Reachable DEF TimedInv
<1>2. QED
  BY <1>1, TimedInvAlways, PTL

\* ResultsAreKept from the durations: if the idle limit outlasts the runs of a whole batch,
\* no worker's result is written over by another worker.
THEOREM TimedResultsAreKept ==
  ASSUME BatchFits
  PROVE  TimedSpec => ResultIsKept
<1>1. TimedInit => NoResultYet
  BY DEF TimedInit, Init, NothingStarted, NoResultYet, Unwritten, MayWrite, Executing
<1>2. TimedInv /\ NoResultYet /\ [TimedNext]_timedVars => NoResultYet' /\ KeepsResults
  BY TimedStepIsStep, StepKeepsResults DEF TimedInv, RecoveryInv
<1>3. KeepsResults => [\A j \in JobIds :
                         jobStatus[j] \in {"SUCCEEDED", "FAILED"}
                           => jobStatus'[j] \in {jobStatus[j], "CANCELED", "DELETED"}]_vars
  BY DEF KeepsResults, Written
<1>4. QED
  BY <1>1, <1>2, <1>3, TimedInvAlways, PTL DEF TimedSpec, ResultIsKept

-----------------------------------------------------------------------------
(* The switch IdleCoversRun, replaced by the durations.                    *)

Covered == INSTANCE VideoGeneration WITH IdleCoversRun <- TRUE

LEMMA CoveredCount == \A S : Covered!Cardinality(S) = Cardinality(S)
BY SMT DEF Covered!Cardinality, Cardinality

LEMMA CoveredContinues ==
  ASSUME NEW a \in Apis, ApiContinues(a)
  PROVE  Covered!ApiContinues(a)
<1> USE DEF Covered!ApiReturns, ApiReturns, Covered!MovieExists, MovieExists, Covered!JobExists,
            JobExists, Covered!NoRow, NoRow, Covered!WriteMovieStatus, WriteMovieStatus,
            Covered!movieVars, movieVars, Covered!jobVars, jobVars, Covered!streamVars, streamVars,
            Covered!workerVars, workerVars, Covered!holdVars, holdVars, Covered!readVars, readVars,
            Covered!NoJob, NoJob
<1>1. CreateJob(a) => Covered!CreateJob(a)
  BY DEF CreateJob, Covered!CreateJob
<1>2. EnqueueJob(a) => Covered!EnqueueJob(a)
  BY DEF EnqueueJob, Covered!EnqueueJob
<1>3. MovieGenerating(a) => Covered!MovieGenerating(a)
  BY DEF MovieGenerating, Covered!MovieGenerating
<1>4. CancelJob(a) => Covered!CancelJob(a)
  BY DEF CancelJob, Covered!CancelJob
<1>5. MovieDraft(a) => Covered!MovieDraft(a)
  BY DEF MovieDraft, Covered!MovieDraft
<1>6. QED
  BY <1>1, <1>2, <1>3, <1>4, <1>5 DEF ApiContinues, Covered!ApiContinues

LEMMA CoveredRequests ==
  ASSUME NEW a \in Apis, NEW m \in Movies, RequestGeneration(a, m) \/ CancelGeneration(a, m)
  PROVE  Covered!RequestGeneration(a, m) \/ Covered!CancelGeneration(a, m)
BY CoveredCount
DEF RequestGeneration, Covered!RequestGeneration, CancelGeneration, Covered!CancelGeneration,
    InProgress, Covered!InProgress, MovieExists, Covered!MovieExists, NoRow, Covered!NoRow,
    IN_PROGRESS_STATUSES, Covered!IN_PROGRESS_STATUSES, JobIds, Covered!JobIds,
    movieVars, Covered!movieVars, jobVars, Covered!jobVars, streamVars, Covered!streamVars,
    workerVars, Covered!workerVars, holdVars, Covered!holdVars, readVars, Covered!readVars

\* Every worker step but the reclaim is the same step, whatever the switch.
LEMMA CoveredSteps ==
  ASSUME NEW w \in Workers,
         \/ WorkerNext(w) /\ ~\E batch \in SUBSET Reclaimable : Reclaim(w, batch)
         \/ Crash(w)
  PROVE  Covered!WorkerNext(w) \/ Covered!Crash(w)
<1> USE DEF Covered!Goto, Goto, Covered!Exit, Exit, Covered!CloseSession, CloseSession,
            Covered!MovieExists, MovieExists, Covered!JobExists, JobExists,
            Covered!NoRow, NoRow, Covered!WriteMovieStatus, WriteMovieStatus,
            Covered!movieVars, movieVars, Covered!jobVars, jobVars, Covered!streamVars, streamVars,
            Covered!apiVars, apiVars, Covered!holdVars, holdVars, Covered!readVars, readVars,
            Covered!NoJob, NoJob, Covered!Unread, Unread
<1>1. /\ Start(w) => Covered!Start(w)
      /\ TakeReclaimed(w) => Covered!TakeReclaimed(w)
      /\ Consume(w) => Covered!Consume(w)
      /\ ConsumeNothing(w) => Covered!ConsumeNothing(w)
  BY DEF Start, Covered!Start, TakeReclaimed, Covered!TakeReclaimed, Consume, Covered!Consume,
         ConsumeNothing, Covered!ConsumeNothing
<1>2. /\ ReadReclaimed(w) => Covered!ReadReclaimed(w)
      /\ Claim(w) => Covered!Claim(w)
      /\ StartProvider(w) => Covered!StartProvider(w)
  BY DEF ReadReclaimed, Covered!ReadReclaimed, Claim, Covered!Claim, Claimable, Covered!Claimable,
         StartProvider, Covered!StartProvider, IN_PROGRESS_STATUSES, Covered!IN_PROGRESS_STATUSES
<1>3. ASSUME NEW p \in Reported, RecordProgress(w, p) PROVE Covered!RecordProgress(w, p)
  BY <1>3 DEF RecordProgress, Covered!RecordProgress, NewProgress, Covered!NewProgress,
              clamp_running_progress, Covered!clamp_running_progress
<1>4. /\ Refresh(w) => Covered!Refresh(w)
      /\ OrphanExits(w) => Covered!OrphanExits(w)
      /\ Crash(w) => Covered!Crash(w)
  BY DEF Refresh, Covered!Refresh, OrphanExits, Covered!OrphanExits, Crash, Covered!Crash
<1>5. ASSUME NEW result \in {"SUCCEEDED", "FAILED"}, Mark(w, result)
      PROVE  Covered!Mark(w, result)
  BY <1>5 DEF Mark, Covered!Mark, MarkAllowed, Covered!MarkAllowed, WriteOutcome,
              Covered!WriteOutcome
<1>6. /\ FailCrashed(w) => Covered!FailCrashed(w)
      /\ RefreshMarked(w) => Covered!RefreshMarked(w)
      /\ UpdateMovie(w) => Covered!UpdateMovie(w)
      /\ Ack(w) => Covered!Ack(w)
  BY DEF FailCrashed, Covered!FailCrashed, WriteOutcome, Covered!WriteOutcome, RefreshMarked,
         Covered!RefreshMarked, UpdateMovie, Covered!UpdateMovie, MovieStatusOf,
         Covered!MovieStatusOf, Ack, Covered!Ack
<1>7. QED
  BY <1>1, <1>2, <1>3, <1>4, <1>5, <1>6 DEF WorkerNext, Covered!WorkerNext

LEMMA CoveredReclaim ==
  ASSUME NothingSnatched, NEW w \in Workers, NEW batch \in SUBSET Reclaimable, Reclaim(w, batch)
  PROVE  Covered!WorkerNext(w)
<1>1. batch \in SUBSET Covered!Reclaimable
  BY DEF NothingSnatched, Reclaimable, Covered!Reclaimable, Held, Covered!Held, NoJob,
         Covered!NoJob
<1>2. Covered!Reclaim(w, batch)
  BY <1>1, CoveredCount
  DEF Reclaim, Covered!Reclaim, Goto, Covered!Goto, readVars, Covered!readVars,
      movieVars, Covered!movieVars, jobVars, Covered!jobVars, streamVars, Covered!streamVars,
      apiVars, Covered!apiVars
<1>3. QED
  BY <1>1, <1>2 DEF Covered!WorkerNext

LEMMA CoveredNext ==
  ASSUME BatchFits, TimedInv, [TimedNext]_timedVars
  PROVE  [Covered!Next]_(Covered!vars)
<1>1. Covered!vars = vars /\ Covered!vars' = vars'
  BY DEF vars, movieVars, jobVars, streamVars, apiVars, workerVars, holdVars, readVars,
         Covered!vars, Covered!movieVars, Covered!jobVars, Covered!streamVars, Covered!apiVars,
         Covered!workerVars, Covered!holdVars, Covered!readVars
<1>2. NothingSnatched
  BY TimedNothingSnatched DEF TimedInv
<1>3. ASSUME NEW a \in Apis, ApiContinues(a) PROVE Covered!Next
  BY <1>3, CoveredContinues DEF Covered!Next, Covered!ApiNext
<1>4. ASSUME NEW a \in Apis, NEW m \in Movies, RequestGeneration(a, m) \/ CancelGeneration(a, m)
      PROVE  Covered!Next
  BY <1>4, CoveredRequests DEF Covered!Next, Covered!ApiNext
<1>5. ASSUME NEW w \in Workers, WorkerNext(w) \/ Crash(w) PROVE Covered!Next
  BY <1>2, <1>5, CoveredSteps, CoveredReclaim DEF Covered!Next
<1>6. CASE UNCHANGED vars
  BY <1>1, <1>6
<1>7. QED
  BY <1>3, <1>4, <1>5, <1>6 DEF TimedNext, Tick, timedVars

\* What the switch that the runs recoverable and settles set asks of a deployment: an idle
\* limit that outlasts the runs of a whole batch.  Then every step of the timed model is one
\* that reclaims nothing from the hands of a live worker (app/core/config.py:49).
THEOREM DurationsCover ==
  ASSUME BatchFits
  PROVE  TimedSpec => [][Covered!Next]_(Covered!vars)
<1>1. TimedInv /\ [TimedNext]_timedVars => [Covered!Next]_(Covered!vars)
  BY CoveredNext
<1>2. QED
  BY <1>1, TimedInvAlways, PTL DEF TimedSpec
================================================================================
