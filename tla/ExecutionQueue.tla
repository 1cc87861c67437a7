--------------------------- MODULE ExecutionQueue ---------------------------
(***************************************************************************)
(* InMemoryAgentExecutionQueue.run_jobs of                                 *)
(* dawn_kestrel/agents/execution_queue.py, on the WorkerPool it builds for *)
(* each call: the jobs are enqueued, the pool is started, completion is    *)
(* awaited with a timeout, the pool is stopped, and the two tables are     *)
(* returned.  One coroutine does all of this, so it is the producer, the   *)
(* administrator and the waiter of WorkerPool at once.  It may be          *)
(* cancelled wherever it suspends, in the wait or in the stop.             *)
(*                                                                         *)
(* The delegation engine's _execute_children_queued has the same shape and *)
(* differs in what it does with the tables (see Delegation).               *)
(***************************************************************************)
EXTENDS WorkerPool

CONSTANT Parallel    \* max_workers

VARIABLES
  caller,     \* where run_jobs is
  completed,  \* completed_by_index holds the job's result
  errors      \* errors_by_index

batchVars == <<caller, completed, errors>>
allVars == <<vars, batchVars>>

\* min(self.max_workers, max(1, len(jobs)))
PoolSize == IF Tasks = {} THEN 1
            ELSE IF Parallel < Cardinality(Tasks) THEN Parallel ELSE Cardinality(Tasks)

\* "filling" to "answered" is one stretch but for the await in "waiting".
Stages == {"filling", "started", "waiting", "answered", "cancelled", "stopping",
           "unwinding", "returned", "raised", "abandoned"}

BatchTypeOK ==
  /\ TypeOK
  /\ caller \in Stages
  /\ completed \in [Tasks -> BOOLEAN]
  /\ errors \in [Tasks -> {"none", "failed", "timeout"}]

BatchInit ==
  /\ Init
  /\ caller = "filling"
  /\ completed = [t \in Tasks |-> FALSE]
  /\ errors = [t \in Tasks |-> "none"]

-----------------------------------------------------------------------------
(* The coroutine inside run_jobs. *)

Goto(stage) == caller' = stage
KeepTables == UNCHANGED <<completed, errors>>

Fill(t) ==
  /\ caller = "filling"
  /\ enqueue(t)
  /\ UNCHANGED batchVars

StartPool ==
  /\ caller = "filling" /\ \A t \in Tasks : status[t] # "none"
  /\ start
  /\ Goto("started") /\ KeepTables

Await ==
  /\ caller = "started"
  /\ wait_for_completion
  /\ Goto("waiting") /\ KeepTables

JobsDone ==
  /\ caller = "waiting"
  /\ Completes
  /\ Goto("answered") /\ KeepTables

\* The timeout is written down for every job that has left no trace yet.
JobsTimeOut ==
  /\ caller = "waiting"
  /\ TimesOut
  /\ errors' = [t \in Tasks |->
       IF ~completed[t] /\ errors[t] = "none" THEN "timeout" ELSE errors[t]]
  /\ Goto("answered") /\ UNCHANGED completed

\* The caller is cancelled while it waits: the pool is stopped all the same, and
\* nobody reads the tables.
WaitCancelled ==
  /\ caller = "waiting"
  /\ waiter' = "idle"
  /\ UNCHANGED <<queue, status, putting, worker, poolVars, inProgress, started>>
  /\ Goto("cancelled") /\ KeepTables

\* It is cancelled in pool.stop before the gathered w.stop coroutines have begun:
\* they are cancelled unbegun, and run_jobs raises over workers that go on.
StopUnbegun ==
  /\ caller \in {"stopping", "unwinding"} /\ admin.awaited = {}
  /\ admin' = NoAdmin
  /\ UNCHANGED <<queue, status, putting, worker, pool, running, size, stops, inProgress,
                 waiter, started>>
  /\ Goto("abandoned") /\ KeepTables

\* It is cancelled in pool.stop later: the w.stop coroutines are, and with them
\* the workers they await.  gather still waits for all of them.
StopCancelled ==
  /\ caller \in {"stopping", "unwinding"} /\ admin.todo = {}
  /\ worker' = [w \in Workers |->
       IF w \in admin.awaited /\ worker[w].phase # "dead"
       THEN [worker[w] EXCEPT !.cancelled = TRUE] ELSE worker[w]]
  /\ UNCHANGED <<queue, status, putting, poolVars, inProgress, waiter, started>>
  /\ Goto("unwinding") /\ KeepTables

RunCancelled == WaitCancelled \/ StopUnbegun \/ StopCancelled

StopPool ==
  /\ caller \in {"answered", "cancelled"}
  /\ stop
  /\ Goto(IF caller = "answered" THEN "stopping" ELSE "unwinding") /\ KeepTables

Return ==
  /\ caller \in {"stopping", "unwinding"}
  /\ AdminReturns
  /\ Goto(IF caller = "stopping" THEN "returned" ELSE "raised") /\ KeepTables

CallerStep ==
  \/ \E t \in Tasks : Fill(t)
  \/ StartPool \/ Await \/ StopPool \/ Return

-----------------------------------------------------------------------------
(* The workers run while run_jobs is suspended, or has left them. *)

Suspended == caller \in {"waiting", "stopping", "unwinding", "abandoned"}

\* process_task writes the outcome of execute(job) before the pool counts the
\* job out, all in one stretch.
JobEnds_Mutant(w) ==
  /\ Suspended
  /\ Finish(w)
  /\ LET t == worker[w].task IN
     IF status'[t] = "COMPLETED"
     THEN completed' = [completed EXCEPT ![t] = TRUE] /\ UNCHANGED errors
     ELSE UNCHANGED <<completed, errors>>
  /\ UNCHANGED caller

JobEnds(w) ==
  /\ Suspended
  /\ Finish(w)
  /\ LET t == worker[w].task IN
     IF status'[t] = "COMPLETED"
     THEN completed' = [completed EXCEPT ![t] = TRUE] /\ UNCHANGED errors
     ELSE errors' = [errors EXCEPT ![t] = "failed"] /\ UNCHANGED completed
  /\ UNCHANGED caller

\* CancelledError passes process_task's "except Exception": no table is written.
WorkerMoves(w) ==
  /\ Suspended
  /\ Dequeue(w) \/ Resume(w) \/ Killed(w) \/ StopWorker(w)
  /\ UNCHANGED batchVars

BatchNext ==
  \/ CallerStep \/ JobsDone \/ JobsTimeOut \/ RunCancelled
  \/ \E w \in Workers : JobEnds(w) \/ WorkerMoves(w)

BatchSpec == BatchInit /\ [][BatchNext]_allVars

\* The event loop runs what is ready and the timeout fires.  Nothing is assumed
\* of the agents: JobEnds is not fair, they may never answer.
BatchFairness ==
  /\ WF_allVars(CallerStep) /\ WF_allVars(JobsDone \/ JobsTimeOut)
  /\ \A w \in Workers : WF_allVars(WorkerMoves(w))

BatchFairSpec == BatchSpec /\ BatchFairness

-----------------------------------------------------------------------------
(* Properties. *)

\* A worker whose cancellation wait_for swallowed: busy, told to stop, and nobody
\* will cancel it again but a second cancellation of the caller.
Deaf(w) == worker[w].phase = "busy" /\ ~worker[w].running /\ ~worker[w].cancelled

\* The pool, seen as a batch: what its caller can rely on.
JobState(t) ==
  CASE status[t] \in {"none", "PENDING"} -> "waiting"
    [] status[t] = "RUNNING" -> IF Holders(t) = {} THEN "cut"
                                ELSE IF \E w \in Holders(t) : Deaf(w) THEN "deaf"
                                ELSE "running"
    [] status[t] = "COMPLETED" -> "done"
    [] status[t] = "FAILED" -> "failed"

BatchState ==
  CASE caller \in {"filling", "started", "waiting"} -> "open"
    [] caller \in {"answered", "cancelled", "stopping", "unwinding"} -> "closing"
    [] caller \in {"returned", "raised"} -> "closed"
    [] caller = "abandoned" -> "abandoned"

Promise == INSTANCE Batch WITH
  Jobs <- Tasks, Limit <- NumWorkers,
  job <- [t \in Tasks |-> JobState(t)], batch <- BatchState

\* run_jobs over queue, workers and stop is a batch: jobs begin once, at most
\* NumWorkers run, only a stop cuts them off, nothing runs once it is over,
\* unless its caller was cancelled before the stop had begun.
IsBatch == Promise!Spec

\* When run_jobs returns, every job is in one of its tables, whatever was done,
\* failed or never begun, but for one: a job that a worker had in hand while
\* completion was answered Ok, and that the stop then cut off.  A failure is never
\* also a success, and a "timeout" is also one only of a job that ended after
\* the timeout was written down.
EveryJobAccounted ==
  /\ BatchTypeOK
  /\ caller = "returned" =>
       \A t \in Tasks :
         /\ \/ completed[t] \/ errors[t] # "none"
            \/ waiter = "Ok" /\ JobState(t) = "cut"
         /\ errors[t] = "failed" => ~completed[t]
         /\ errors[t] = "timeout" => waiter = "TIMEOUT"

\* run_jobs comes back although no agent has to: the timeout stops the pool and
\* the pool's stop ends the agents, except one that began after its worker had
\* swallowed the cancellation.  While such an agent runs, run_jobs waits for it.
RunJobsReturns ==
  <>(\/ caller \in {"returned", "raised", "abandoned"}
     \/ [](\E w \in Workers : Deaf(w)))

\* "Track in-progress tasks to fix race condition in wait_for_completion"
\* (WorkerPool.__init__): when it answers Ok, no task is with a worker or queued.
CompletionMeansDone ==
  [][waiter' = "Ok" /\ waiter = "waiting" =>
       \A t \in Tasks : Holders(t) = {} /\ Places(t) = {}]_allVars
=============================================================================
