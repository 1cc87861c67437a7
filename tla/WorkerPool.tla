----------------------------- MODULE WorkerPool -----------------------------
(***************************************************************************)
(* InMemoryTaskQueue, AsyncWorker and WorkerPool of                        *)
(* dawn_kestrel/reliability/queue_worker.py: producers put tasks on an     *)
(* asyncio.Queue, workers poll it, one coroutine starts, resizes and stops *)
(* the pool and another waits for completion.                              *)
(*                                                                         *)
(* The asyncio.Locks of this file guard bodies that never suspend, so they *)
(* are never contended and every locked body is part of one action.  peek  *)
(* and get_task leave the state as they find it, and the counters of       *)
(* get_stats are not modelled.                                             *)
(***************************************************************************)
EXTENDS Integers, Sequences, FiniteSets

CONSTANTS
  Tasks,        \* tasks that may be enqueued, once each
  MaxWorkers,   \* bound: AsyncWorker objects created in a behaviour
  NoTask,
  NumWorkers,   \* WorkerPool(num_workers=...)
  MaxSize,      \* InMemoryTaskQueue(maxsize=...), 0 = unlimited
  InnerGet,     \* TRUE: asyncio.wait_for runs queue.get() as a task of its own
                \* (Python 3.11, .python-version); FALSE: inline (3.12 and later)
  Sizes,        \* sizes resize may be asked for
  ResizeStopped,\* TRUE: resize may also be called on a pool that is not running
  MaxStops      \* bound: calls of stop in a behaviour

ASSUME PoolAssumption ==
  /\ NoTask \notin Tasks
  /\ IsFiniteSet(Tasks) /\ MaxWorkers \in Nat
  /\ NumWorkers \in Nat \ {0} /\ MaxSize \in Nat /\ MaxStops \in Nat
  /\ Sizes \subseteq Nat
  /\ InnerGet \in BOOLEAN /\ ResizeStopped \in BOOLEAN

VARIABLES
  queue,      \* the asyncio.Queue
  status,     \* task.status of the tasks in self._tasks
  putting,    \* tasks whose enqueue is suspended in queue.put
  worker,     \* every AsyncWorker ever created
  pool,       \* self._workers
  running,    \* self._running
  size,       \* self._num_workers
  inProgress, \* self._in_progress_count
  admin,      \* the coroutine inside stop or resize: the workers it still has
              \* to stop and the ones it awaits
  stops,      \* calls of stop so far, for the bound
  waiter,     \* the coroutine inside wait_for_completion
  started     \* how often the processor was called on each task (observed)

poolVars == <<pool, running, size, admin, stops>>
vars == <<queue, status, putting, worker, poolVars, inProgress, waiter, started>>

Workers == 1..MaxWorkers   \* AsyncWorker objects, in the order of creation

Statuses == {"none", "PENDING", "RUNNING", "COMPLETED", "FAILED"}

\* "handed": the inner get() of wait_for has taken a task off the queue and
\* the worker has not resumed with it yet.
Phases == {"unborn", "polling", "handed", "busy", "dead"}

Worker == [phase : Phases, task : Tasks \cup {NoTask},
           running : BOOLEAN, cancelled : BOOLEAN]

TypeOK ==
  /\ queue \in Seq(Tasks)
  /\ status \in [Tasks -> Statuses]
  /\ putting \subseteq Tasks
  /\ worker \in [Workers -> Worker]
  /\ pool \in Seq(Workers)
  /\ running \in BOOLEAN
  /\ size \in Nat
  /\ inProgress \in Nat
  /\ admin \in [op : {"idle", "stop", "resize"}, to : Sizes \cup {0},
                todo : SUBSET Workers, awaited : SUBSET Workers]
  /\ stops \in 0..MaxStops
  /\ waiter \in {"idle", "waiting", "Ok", "TIMEOUT"}
  /\ started \in [Tasks -> Nat]

NoAdmin == [op |-> "idle", to |-> 0, todo |-> {}, awaited |-> {}]

Init ==
  /\ queue = << >> /\ putting = {}
  /\ status = [t \in Tasks |-> "none"]
  /\ worker = [w \in Workers |-> [phase |-> "unborn", task |-> NoTask,
                                  running |-> FALSE, cancelled |-> FALSE]]
  /\ pool = << >> /\ running = FALSE /\ size = NumWorkers
  /\ inProgress = 0
  /\ admin = NoAdmin /\ stops = 0
  /\ waiter = "idle"
  /\ started = [t \in Tasks |-> 0]

-----------------------------------------------------------------------------
(* Producers. *)

Full == MaxSize # 0 /\ Len(queue) >= MaxSize

\* The task is registered as PENDING before queue.put may suspend.
enqueue(t) ==
  /\ status[t] = "none"
  /\ status' = [status EXCEPT ![t] = "PENDING"]
  /\ \/ Full /\ putting' = putting \cup {t} /\ UNCHANGED queue
     \/ ~Full /\ queue' = Append(queue, t) /\ UNCHANGED putting
  /\ UNCHANGED <<worker, poolVars, inProgress, waiter, started>>

PutResumes(t) ==
  /\ t \in putting /\ ~Full
  /\ queue' = Append(queue, t)
  /\ putting' = putting \ {t}
  /\ UNCHANGED <<status, worker, poolVars, inProgress, waiter, started>>

\* The producer is cancelled in queue.put: the task stays registered, PENDING.
PutCancelled(t) ==
  /\ t \in putting
  /\ putting' = putting \ {t}
  /\ UNCHANGED <<queue, status, worker, poolVars, inProgress, waiter, started>>

-----------------------------------------------------------------------------
(* AsyncWorker._run_loop with the pool's tracked_processor. *)

\* The worker resumes from dequeue with t: RUNNING, counted, processed.
Process(w, t) ==
  /\ status' = [status EXCEPT ![t] = "RUNNING"]
  /\ inProgress' = inProgress + 1
  /\ started' = [started EXCEPT ![t] = @ + 1]
  /\ worker' = [worker EXCEPT ![w].phase = "busy", ![w].task = t,
                              ![w].cancelled = FALSE]

Dequeue_Mutant(w) ==
  /\ worker[w].phase = "polling"
  /\ queue # << >>
  /\ Process(w, Head(queue))
  /\ UNCHANGED <<queue, putting, poolVars, waiter>>

Dequeue(w) ==
  /\ worker[w].phase = "polling"
  /\ queue # << >>
  /\ queue' = Tail(queue)
  /\ \/ /\ InnerGet
        /\ worker' = [worker EXCEPT ![w].phase = "handed", ![w].task = Head(queue)]
        /\ UNCHANGED <<status, inProgress, started>>
     \/ /\ ~InnerGet /\ ~worker[w].cancelled
        /\ Process(w, Head(queue))
  /\ UNCHANGED <<putting, poolVars, waiter>>

\* wait_for returns the task of its finished inner get even when the worker
\* was cancelled meanwhile: the cancellation is swallowed.
Resume(w) ==
  /\ worker[w].phase = "handed"
  /\ Process(w, worker[w].task)
  /\ UNCHANGED <<queue, putting, poolVars, waiter>>

\* The processor returns Ok or Err, or raises; the loop tests self._running.
FinishDies_Mutant(w) ==
  /\ worker[w].phase = "busy" /\ ~worker[w].cancelled
  /\ \E s \in {"COMPLETED", "FAILED"} :
       /\ status' = [status EXCEPT ![worker[w].task] = s]
       /\ worker' = [worker EXCEPT ![w].task = NoTask,
                       ![w].phase = IF s = "FAILED" THEN "dead" ELSE "polling"]
  /\ inProgress' = inProgress - 1
  /\ UNCHANGED <<queue, putting, poolVars, waiter, started>>

FinishLoops_Mutant(w) ==
  /\ worker[w].phase = "busy" /\ ~worker[w].cancelled
  /\ \E s \in {"COMPLETED", "FAILED"} :
       status' = [status EXCEPT ![worker[w].task] = s]
  /\ inProgress' = inProgress - 1
  /\ worker' = [worker EXCEPT ![w].task = NoTask, ![w].phase = "polling"]
  /\ UNCHANGED <<queue, putting, poolVars, waiter, started>>

Finish(w) ==
  /\ worker[w].phase = "busy" /\ ~worker[w].cancelled
  /\ \E s \in {"COMPLETED", "FAILED"} :
       status' = [status EXCEPT ![worker[w].task] = s]
  /\ inProgress' = inProgress - 1
  /\ worker' = [worker EXCEPT ![w].task = NoTask,
                  ![w].phase = IF worker[w].running THEN "polling" ELSE "dead"]
  /\ UNCHANGED <<queue, putting, poolVars, waiter, started>>

\* CancelledError ends the worker.  It passes the "except Exception" of
\* _run_loop, so a task being processed keeps the status RUNNING.
Killed(w) ==
  /\ worker[w].cancelled
  /\ worker[w].phase \in {"polling", "busy"}
  /\ inProgress' = IF worker[w].phase = "busy" THEN inProgress - 1 ELSE inProgress
  /\ worker' = [worker EXCEPT ![w].phase = "dead", ![w].task = NoTask]
  /\ UNCHANGED <<queue, status, putting, poolVars, waiter, started>>

WorkerStep(w) == Dequeue(w) \/ Resume(w) \/ Finish(w) \/ Killed(w)

-----------------------------------------------------------------------------
(* WorkerPool.start, stop and resize, called by one coroutine. *)

PoolSet == {pool[i] : i \in DOMAIN pool}

\* n fresh workers are created and started, and listed behind the ones of old.
Born == Cardinality({w \in Workers : worker[w].phase # "unborn"})

Hire(old, n) ==
  /\ Born + n <= MaxWorkers
  /\ pool' = old \o [i \in 1..n |-> Born + i]
  /\ worker' = [w \in Workers |->
       IF w \in Born + 1 .. Born + n
       THEN [phase |-> "polling", task |-> NoTask, running |-> TRUE, cancelled |-> FALSE]
       ELSE worker[w]]

start ==
  /\ admin = NoAdmin /\ ~running
  /\ running' = TRUE
  /\ Hire(<< >>, size)
  /\ UNCHANGED <<queue, status, putting, size, admin, stops, inProgress, waiter, started>>

stop ==
  /\ admin = NoAdmin /\ running
  /\ stops < MaxStops
  /\ stops' = stops + 1
  /\ admin' = [op |-> "stop", to |-> 0, todo |-> PoolSet, awaited |-> {}]
  /\ UNCHANGED <<queue, status, putting, worker, pool, running, size, inProgress,
                 waiter, started>>

resize(n) ==
  /\ admin = NoAdmin
  /\ n >= 1 /\ (running \/ ResizeStopped)
  /\ \/ /\ n > Len(pool)
        /\ Hire(pool, n - Len(pool))
        /\ size' = n
        /\ UNCHANGED admin
     \/ /\ n < Len(pool)
        /\ admin' = [op |-> "resize", to |-> n, awaited |-> {},
                     todo |-> {pool[i] : i \in (n + 1)..Len(pool)}]
        /\ pool' = SubSeq(pool, 1, n)
        /\ UNCHANGED <<worker, size>>
     \/ /\ n = Len(pool)
        /\ size' = n
        /\ UNCHANGED <<admin, pool, worker>>
  /\ UNCHANGED <<queue, status, putting, running, stops, inProgress, waiter, started>>

\* AsyncWorker.stop under asyncio.gather: flag down, task cancelled, awaited.
StopWorker_Mutant(w) ==
  /\ w \in admin.todo
  /\ admin' = [admin EXCEPT !.todo = @ \ {w}]
  /\ worker' = [worker EXCEPT ![w].running = FALSE, ![w].cancelled = TRUE]
  /\ UNCHANGED <<queue, status, putting, pool, running, size, stops, inProgress,
                 waiter, started>>

StopWorker(w) ==
  /\ w \in admin.todo
  /\ worker' = [worker EXCEPT ![w].running = FALSE, ![w].cancelled = TRUE]
  /\ admin' = [admin EXCEPT !.todo = @ \ {w}, !.awaited = @ \cup {w}]
  /\ UNCHANGED <<queue, status, putting, pool, running, size, stops, inProgress,
                 waiter, started>>

\* Every awaited worker has ended: stop forgets the workers, resize its size.
AdminReturns ==
  /\ admin.op # "idle" /\ admin.todo = {}
  /\ \A w \in admin.awaited : worker[w].phase = "dead"
  /\ \/ /\ admin.op = "stop"
        /\ pool' = << >> /\ running' = FALSE
        /\ UNCHANGED size
     \/ /\ admin.op = "resize"
        /\ size' = admin.to
        /\ UNCHANGED <<pool, running>>
  /\ admin' = NoAdmin
  /\ UNCHANGED <<queue, status, putting, worker, stops, inProgress, waiter, started>>

-----------------------------------------------------------------------------
(* wait_for_completion: poll, give up, or report completion. *)

wait_for_completion ==
  /\ waiter # "waiting"
  /\ waiter' = "waiting"
  /\ UNCHANGED <<queue, status, putting, worker, poolVars, inProgress, started>>

Completes ==
  /\ waiter = "waiting"
  /\ queue = << >> /\ inProgress = 0
  /\ waiter' = "Ok"
  /\ UNCHANGED <<queue, status, putting, worker, poolVars, inProgress, started>>

\* As if no timeout were passed.
TimesOut_Mutant == FALSE /\ UNCHANGED vars

TimesOut ==
  /\ waiter = "waiting"
  /\ ~(queue = << >> /\ inProgress = 0)
  /\ waiter' = "TIMEOUT"
  /\ UNCHANGED <<queue, status, putting, worker, poolVars, inProgress, started>>

-----------------------------------------------------------------------------
Next ==
  \/ \E t \in Tasks : enqueue(t) \/ PutResumes(t) \/ PutCancelled(t)
  \/ \E w \in Workers : WorkerStep(w) \/ StopWorker(w)
  \/ start \/ stop \/ (\E n \in Sizes : resize(n)) \/ AdminReturns
  \/ wait_for_completion \/ Completes \/ TimesOut

Spec == Init /\ [][Next]_vars

\* The event loop runs every coroutine that is ready, and processors return.
Fairness ==
  /\ \A w \in Workers : WF_vars(WorkerStep(w)) /\ WF_vars(StopWorker(w))
  /\ \A t \in Tasks : WF_vars(PutResumes(t))
  /\ WF_vars(start) /\ WF_vars(AdminReturns) /\ WF_vars(Completes)

FairSpec == Spec /\ Fairness

-----------------------------------------------------------------------------
(* Properties. *)

Busy == {w \in Workers : worker[w].phase = "busy"}
Live == {w \in Workers : worker[w].phase \in {"polling", "handed", "busy"}}
Holders(t) == {w \in Workers : worker[w].task = t}
Places(t) == {i \in DOMAIN queue : queue[i] = t}

\* A task is on the queue, with a producer or with one worker, never in two
\* of these places, and its status says which side of the hand-over it is on.
OneHolder ==
  \A t \in Tasks :
    /\ Cardinality(Holders(t)) + Cardinality(Places(t))
         + (IF t \in putting THEN 1 ELSE 0) <= 1
    /\ Places(t) # {} \/ t \in putting => status[t] = "PENDING"
    /\ \A w \in Holders(t) :
         status[t] = IF worker[w].phase = "busy" THEN "RUNNING" ELSE "PENDING"

\* No stop, restart, resize or cancelled worker makes a task be processed
\* twice, and no task is finished without having been processed.
AtMostOnce ==
  \A t \in Tasks :
    started[t] = IF status[t] \in {"none", "PENDING"} THEN 0 ELSE 1

\* The count wait_for_completion trusts is the number of processors running,
\* through errors, cancellations and resizes.
InProgressExact == inProgress = Cardinality(Busy)

\* A pool whose stop has returned has no worker left that could take a task.
StopStopsAll == ~running => Live = {}

\* Never more processors at once than the pool was sized for: the reason the
\* delegation engine and the execution queue run children through a pool.
ConcurrencyLimit == Cardinality(Busy) <= size

\* Tasks go from queue to worker and out again, each once, counted exactly, and
\* no more of them at a time than there is room for.
TasksHandled ==
  TypeOK /\ OneHolder /\ AtMostOnce /\ InProgressExact /\ ConcurrencyLimit

\* Every task on the queue is finished, also when processors fail and producers
\* wait on a full queue.  Only stop or resize may leave one behind, queued or
\* with a worker they cancelled.
EveryTaskFinishes ==
  \A t \in Tasks :
    Places(t) # {} ~> \/ status[t] \in {"COMPLETED", "FAILED"}
                      \/ stops > 0 \/ admin.op = "resize"

\* stop and resize come back: every worker they cancel ends, also one whose
\* cancellation wait_for swallowed.
AdminComesBack == admin.op # "idle" ~> admin.op = "idle"
=============================================================================
