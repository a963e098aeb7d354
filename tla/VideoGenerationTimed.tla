------------------------- MODULE VideoGenerationTimed -------------------------
(***************************************************************************)
(* VideoGeneration with the two durations its recovery rests on: how long  *)
(* an entry has been pending since it was last delivered (XAUTOCLAIM's     *)
(* idle time, compared with video_generation_reclaim_min_idle_ms) and how  *)
(* long the current provider.generate has been running (bounded by         *)
(* *_max_wait_seconds).  app/core/config.py:49 relies on the first limit   *)
(* being larger than the second.  Everything that is not a provider run, a *)
(* blocking read of the stream or a dead process takes no time.            *)
(* The movies are finalized before the start and neither rewritten nor     *)
(* deleted: those requests touch no entry of the stream.                   *)
(***************************************************************************)
EXTENDS VideoGeneration

CONSTANTS
  MinIdle,    \* reclaim_min_idle_ms, in ticks
  MaxRun      \* longest provider run, in ticks

ASSUME DurationsAssumption == MinIdle \in Nat /\ MaxRun \in Nat /\ MaxRun < MinIdle

VARIABLES idle, ran

clockVars == <<idle, ran>>
timedVars == <<vars, clockVars>>

TimedTypeOK ==
  /\ TypeOK
  /\ idle \in [JobIds -> 0..MinIdle]
  /\ ran \in [Workers -> 0..MaxRun]

TimedInit ==
  /\ NothingStarted
  /\ movieStatus = [m \in Movies |-> "DRAFT"]
  /\ promptReady = [m \in Movies |-> TRUE]
  /\ idle = [j \in JobIds |-> 0]
  /\ ran = [w \in Workers |-> 0]

\* Mutation: a provider that may run for ever.
WaitsForever(w) ==
  \/ pc[w] = "down"
  \/ pc[w] = "batch" /\ todo[w] = {} /\ undelivered = <<>>
  \/ pc[w] = "running"

\* A worker may let time pass: it is dead, blocks in XREADGROUP, or waits for
\* a provider that has not yet used up its limit.
Waits(w) ==
  \/ pc[w] = "down"
  \/ pc[w] = "batch" /\ todo[w] = {} /\ undelivered = <<>>
  \/ pc[w] = "running" /\ ran[w] < MaxRun

\* An entry that has been idle for MinIdle stays due: longer makes no difference.
Tick ==
  /\ \A w \in Workers : Waits(w)
  /\ idle' = [j \in JobIds |-> IF j \in pel /\ idle[j] < MinIdle THEN idle[j] + 1 ELSE idle[j]]
  /\ ran' = [w \in Workers |-> IF pc[w] = "running" THEN ran[w] + 1 ELSE 0]
  /\ UNCHANGED vars

\* The batch XAUTOCLAIM returns: the first ReclaimCount entries, in stream
\* order, among those idle for MinIdle.  One API process enqueues in id order.
DueEarly == {j \in pel : idle[j] + 2 >= MinIdle}    \* mutation: limit too small
Due == {j \in pel : idle[j] >= MinIdle}

IsNextBatch(batch) ==
  /\ batch \subseteq Due
  /\ batch = Due \/ Cardinality(batch) = ReclaimCount
  /\ \A j \in batch, i \in Due \ batch : j < i

ReclaimsWhatIsDue ==
  \A w \in Workers : pc[w] = "reclaim" /\ pc'[w] = "batch" => IsNextBatch(todo'[w])

\* Delivery to a worker restarts the idle time; an ack forgets it.
Delivered(j) == \E w \in Workers : j \in Held(w)' \ Held(w)

ClocksFollow ==
  /\ idle' = [j \in JobIds |-> IF j \in pel' /\ ~Delivered(j) THEN idle[j] ELSE 0]
  /\ ran' = [w \in Workers |->
               IF pc'[w] \in {"running", "refresh", "orphaned"} THEN ran[w] ELSE 0]

TimedNext ==
  \/ Tick
  \/ /\ \/ \E a \in Apis : ApiContinues(a)
        \/ \E a \in Apis, m \in Movies : RequestGeneration(a, m) \/ CancelGeneration(a, m)
        \/ \E w \in Workers : WorkerNext(w) \/ Crash(w)
     /\ ReclaimsWhatIsDue
     /\ ClocksFollow

TimedSpec == TimedInit /\ [][TimedNext]_timedVars

-----------------------------------------------------------------------------
\* No entry is in the hands of two live workers, so nothing is acknowledged or
\* failed behind the back of the worker that runs it.  Holds while the idle limit
\* outlasts the runs of a whole reclaimed batch, whose entries are handled one
\* after the other (video_generation_worker.py:53-59).
OneHolder ==
  \A v, w \in Workers : v # w => Held(v) \cap Held(w) = {}

\* app/core/config.py:49: min_idle_ms is longer than the longest provider run
\* "so that a long job that is alive is not reclaimed".  A job is failed as
\* WORKER_CRASHED only when no live worker is running it.
LiveRunNotFailed ==
  \A v, w \in Workers :
    pc[w] = "failCrashed" /\ Executing(v) => job[v] # job[w]
================================================================================
