------------------------------- MODULE Batch --------------------------------
(***************************************************************************)
(* What a batch of jobs run through a worker pool promises its caller: a   *)
(* job begins at most once, never more than Limit of them run at a time,   *)
(* it ends as done or failed or is cut off by the end of the batch, and    *)
(* when the batch is closed nothing of it runs any more.                   *)
(*                                                                         *)
(* Two things spoil the end.  A worker may swallow the cancellation that   *)
(* stops it and begin one more job, which is deaf: only its own answer, or *)
(* a second cancellation, ends it.  And a caller cancelled before the stop *)
(* has reached a worker abandons the batch: its jobs go on without it.     *)
(*                                                                         *)
(* InMemoryAgentExecutionQueue.run_jobs and the delegation engine's        *)
(* _execute_children_queued are both such batches: the first is shown to   *)
(* implement this module on top of WorkerPool (ExecutionQueue), the second *)
(* is built on it (Delegation).                                            *)
(***************************************************************************)
EXTENDS Naturals, FiniteSets

CONSTANTS
  Jobs,
  Limit    \* jobs that may run at once

VARIABLES
  job,     \* where each job is
  batch    \* whether jobs are awaited, being stopped, over, or abandoned

vars == <<job, batch>>

Ended == {"done", "failed"}

Init == job = [j \in Jobs |-> "waiting"] /\ batch = "open"

Running == {"running", "deaf"}
RunningJobs == {j \in Jobs : job[j] \in Running}

Begin(j, how) ==
  /\ batch # "closed"
  /\ how = "running" \/ (how = "deaf" /\ batch = "closing")
  /\ job[j] = "waiting" /\ Cardinality(RunningJobs) < Limit
  /\ job' = [job EXCEPT ![j] = how]
  /\ UNCHANGED batch

End(j, how) ==
  /\ how \in Ended
  /\ job[j] \in Running
  /\ job' = [job EXCEPT ![j] = how]
  /\ UNCHANGED batch

\* Only a batch that is being stopped cuts a job off.
Cut(j) ==
  /\ batch = "closing"
  /\ job[j] = "running"
  /\ job' = [job EXCEPT ![j] = "cut"]
  /\ UNCHANGED batch

\* The caller is cancelled once more: now the deaf jobs hear of it.
CancelAgain ==
  /\ batch = "closing"
  /\ job' = [j \in Jobs |-> IF job[j] = "deaf" THEN "running" ELSE job[j]]
  /\ UNCHANGED batch

\* The caller is cancelled before its stop has reached any worker.
Abandon ==
  /\ batch = "closing" /\ \A j \in Jobs : job[j] \notin {"deaf", "cut"}
  /\ batch' = "abandoned"
  /\ UNCHANGED job

\* Everything has ended, or the time is up, or the caller is cancelled.
Close ==
  /\ batch = "open"
  /\ batch' = "closing"
  /\ UNCHANGED job

Closed ==
  /\ batch = "closing" /\ RunningJobs = {}
  /\ batch' = "closed"
  /\ UNCHANGED job

Next ==
  \/ \E j \in Jobs : Cut(j) \/ (\E how \in Running : Begin(j, how))
                           \/ (\E how \in Ended : End(j, how))
  \/ Close \/ CancelAgain \/ Abandon \/ Closed

Spec == Init /\ [][Next]_vars
=============================================================================
