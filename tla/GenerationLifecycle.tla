-------------------------- MODULE GenerationLifecycle --------------------------
(***************************************************************************)
(* What the video generation pipeline promises of one job row, whatever    *)
(* the interleaving of API processes and workers, the crashes and the      *)
(* redeliveries:                                                           *)
(*   - a row is created QUEUED, is claimed (QUEUED -> RUNNING) at most     *)
(*     once, and is never put back in progress once it has been settled;   *)
(*   - the provider is called at most once, and only for a claimed job;    *)
(*   - only a claimed job fails and only a provider call succeeds.         *)
(* A settled row may be settled again: the status updates of               *)
(* video_generation_service.py carry no version check.                     *)
(* VideoGeneration.tla is the detailed model that implements this one.     *)
(***************************************************************************)
EXTENDS Naturals

CONSTANT Jobs

VARIABLES
  status,      \* Jobs -> status column of the row
  startedAt,   \* Jobs -> whether started_at is set, i.e. the job was claimed
  calls        \* Jobs -> calls of provider.generate made for the job

vars == <<status, startedAt, calls>>

InProgress == {"QUEUED", "RUNNING"}
Settled    == {"SUCCEEDED", "FAILED", "CANCELED"}
Rows       == InProgress \cup Settled

Init ==
  /\ status = [j \in Jobs |-> "ABSENT"]
  /\ startedAt = [j \in Jobs |-> FALSE]
  /\ calls = [j \in Jobs |-> 0]

Submit(j) ==
  /\ status[j] = "ABSENT"
  /\ status' = [status EXCEPT ![j] = "QUEUED"]
  /\ UNCHANGED <<startedAt, calls>>

Claim(j) ==
  /\ status[j] = "QUEUED"
  /\ status' = [status EXCEPT ![j] = "RUNNING"]
  /\ startedAt' = [startedAt EXCEPT ![j] = TRUE]
  /\ UNCHANGED calls

CallProvider(j) ==
  /\ startedAt[j]
  /\ calls[j] = 0
  /\ calls' = [calls EXCEPT ![j] = 1]
  /\ UNCHANGED <<status, startedAt>>

Settle(j, s) ==
  /\ status[j] \in Rows
  /\ s \in Settled
  /\ s = "FAILED" => startedAt[j]
  /\ s = "SUCCEEDED" => calls[j] = 1
  /\ status' = [status EXCEPT ![j] = s]
  /\ UNCHANGED <<startedAt, calls>>

\* Deleting a movie deletes its rows with it, in one statement.
Remove(gone) ==
  /\ \A j \in gone : status[j] \in Rows
  /\ status' = [j \in Jobs |-> IF j \in gone THEN "DELETED" ELSE status[j]]
  /\ UNCHANGED <<startedAt, calls>>

Next ==
  \/ \E j \in Jobs : Submit(j) \/ Claim(j) \/ CallProvider(j)
  \/ \E j \in Jobs, s \in Settled : Settle(j, s)
  \/ \E gone \in SUBSET Jobs : Remove(gone)

Spec == Init /\ [][Next]_vars
================================================================================
