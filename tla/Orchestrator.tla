---------------------------- MODULE Orchestrator ----------------------------
(***************************************************************************)
(* AgentOrchestrator of dawn_kestrel/agents/orchestrator.py, publishing    *)
(* its lifecycle events on the EventBus of dawn_kestrel/core/event_bus.py. *)
(* Coroutines of one event loop delegate tasks, cancel them, clear the     *)
(* finished ones and query the tables.                                     *)
(*                                                                         *)
(* Two locks matter.  EventBus.publish holds an asyncio.Lock while it      *)
(* awaits its subscribers: whoever publishes next waits.  The orchestrator *)
(* guards its tables with a threading.Lock, and cancel_tasks awaits        *)
(* publish while it holds it: a coroutine that then takes the lock does    *)
(* not suspend, it stops the thread and with it the event loop.            *)
(***************************************************************************)
EXTENDS Naturals, FiniteSets

CONSTANTS
  Tasks,        \* AgentTask objects
  Calls,        \* calls of delegate_task
  TaskOf,       \* the task of a call
  ViaTask,      \* the calls made by execute_task_via_task
  MaxCancels,   \* bound: calls of cancel_tasks
  Canceller,    \* the coroutine in cancel_tasks
  Nobody

ASSUME OrchestratorAssumption ==
  /\ TaskOf \in [Calls -> Tasks] /\ ViaTask \subseteq Calls
  /\ MaxCancels \in Nat
  /\ Nobody \notin Calls /\ Canceller \notin Calls /\ Canceller # Nobody

VARIABLES
  status,    \* task.status
  tracked,   \* the keys of self._tasks
  result,    \* self._results
  call,      \* where each call is in delegate_task
  lock,      \* self._task_lock is held across an await
  toCancel,  \* the task ids cancel_tasks has still to look at
  bus,       \* who holds the bus lock
  loop,      \* whether the event loop still runs
  cancels

taskVars == <<status, tracked, result, call, lock, toCancel, bus, loop, cancels>>

Active == {"PENDING", "RUNNING"}
Complete == {"COMPLETED", "FAILED", "CANCELLED"}

\* "started", "completed" and "failed" are inside bus.publish.
CallPhases == {"new", "started", "executing", "completed", "failed", "returned",
               "raised", "missing", "killed"}

TasksTypeOK ==
  /\ status \in [Tasks -> Active \cup Complete]
  /\ tracked \subseteq Tasks
  /\ result \in [Tasks -> {"none", "ok", "error"}]
  /\ call \in [Calls -> CallPhases]
  /\ lock \in BOOLEAN
  /\ toCancel \subseteq Tasks
  /\ bus \in Calls \cup {Canceller, Nobody}
  /\ loop \in {"running", "blocked"}
  /\ cancels \in 0..MaxCancels

TasksInit ==
  /\ status = [t \in Tasks |-> "PENDING"]
  /\ tracked = {}
  /\ result = [t \in Tasks |-> "none"]
  /\ call = [d \in Calls |-> "new"]
  /\ lock = FALSE /\ toCancel = {}
  /\ bus = Nobody
  /\ loop = "running"
  /\ cancels = 0

-----------------------------------------------------------------------------
(* EventBus.publish: take the lock, await the subscribers, release. *)

Publishing == {d \in Calls : call[d] \in {"started", "completed", "failed"}}
                \cup (IF lock THEN {Canceller} ELSE {})

Publish(a) ==
  /\ loop = "running"
  /\ a \in Publishing
  /\ bus = Nobody
  /\ bus' = a
  /\ UNCHANGED <<status, tracked, result, call, lock, toCancel, loop, cancels>>

\* publish returns to its caller.
Published(a) == bus = a /\ bus' = Nobody

-----------------------------------------------------------------------------
(* delegate_task. *)

Move(d, phase) == call' = [call EXCEPT ![d] = phase]

\* The task is checked, tracked and announced.
Delegate(d) ==
  LET t == TaskOf[d] IN
  /\ loop = "running"
  /\ call[d] = "new"
  /\ \/ /\ status[t] # "PENDING"
        /\ Move(d, "raised")
        /\ UNCHANGED <<tracked, status>>
     \/ /\ status[t] = "PENDING" /\ ~lock
        /\ tracked' = tracked \cup {t}
        /\ Move(d, "started")
        /\ UNCHANGED status
  /\ UNCHANGED <<result, lock, toCancel, bus, loop, cancels>>

\* TASK_STARTED is out: whatever became of the task meanwhile, it is RUNNING.
Execute(d) ==
  /\ loop = "running"
  /\ call[d] = "started" /\ Published(d)
  /\ Move(d, "executing")
  /\ status' = [status EXCEPT ![TaskOf[d]] = "RUNNING"]
  /\ UNCHANGED <<tracked, result, lock, toCancel, loop, cancels>>

\* How a call ends.  delegate_task re-raises what the agent raised;
\* execute_task_via_task swaps that for the stored result, if it is there.
Outcome(d, ok, results) ==
  IF d \in ViaTask THEN IF results[TaskOf[d]] = "none" THEN "missing" ELSE "returned"
  ELSE IF ok THEN "returned" ELSE "raised"

\* The end of a call whose agent answered (ok) or raised is announced.
Ends(d, ok) == Move(d, IF ok THEN "completed" ELSE "failed")

\* The agent answers or raises: status and result are set, then announced.
Finish_Mutant(d) ==
  LET t == TaskOf[d] IN
  /\ loop = "running" /\ ~lock
  /\ call[d] = "executing"
  /\ \E ok \in BOOLEAN :
       /\ status' = [status EXCEPT ![t] = IF ok THEN "COMPLETED" ELSE "FAILED"]
       /\ result' = [result EXCEPT ![t] = "ok"]
       /\ Ends(d, ok)
  /\ UNCHANGED <<tracked, lock, toCancel, bus, loop, cancels>>

Finish(d) ==
  LET t == TaskOf[d] IN
  /\ loop = "running" /\ ~lock
  /\ call[d] = "executing"
  /\ \E ok \in BOOLEAN :
       /\ status' = [status EXCEPT ![t] = IF ok THEN "COMPLETED" ELSE "FAILED"]
       /\ result' = [result EXCEPT ![t] = IF ok THEN "ok" ELSE "error"]
       /\ Ends(d, ok)
  /\ UNCHANGED <<tracked, lock, toCancel, bus, loop, cancels>>

Return_Mutant(d) ==
  /\ loop = "running" /\ (d \in ViaTask => ~lock)
  /\ call[d] \in {"completed", "failed"} /\ bus = d
  /\ Move(d, Outcome(d, call[d] = "completed", result))
  /\ UNCHANGED <<status, tracked, result, lock, toCancel, bus, loop, cancels>>

Return(d) ==
  /\ loop = "running" /\ (d \in ViaTask => ~lock)
  /\ call[d] \in {"completed", "failed"} /\ Published(d)
  /\ Move(d, Outcome(d, call[d] = "completed", result))
  /\ UNCHANGED <<status, tracked, result, lock, toCancel, loop, cancels>>

\* WorkerPool.stop cancels the call where it is suspended: CancelledError is
\* no Exception, so the task keeps its status and gets no result.
Kill(d) ==
  /\ loop = "running"
  /\ call[d] \in {"started", "executing", "completed", "failed"}
  /\ Move(d, "killed")
  /\ bus' = IF bus = d THEN Nobody ELSE bus
  /\ UNCHANGED <<status, tracked, result, lock, toCancel, loop, cancels>>

-----------------------------------------------------------------------------
(* cancel_tasks, and the tables. *)

Cancellable(ids) == {t \in ids \cap tracked : status[t] \in Active}

\* The next active task is marked and announced, or the lock is released.
CancelNext(ids) ==
  \/ \E t \in Cancellable(ids) :
       /\ status' = [status EXCEPT ![t] = "CANCELLED"]
       /\ lock' = TRUE /\ toCancel' = ids \ {t}
  \/ /\ Cancellable(ids) = {}
     /\ lock' = FALSE /\ toCancel' = {}
     /\ UNCHANGED status

cancel_tasks_Mutant(ids) ==
  /\ loop = "running" /\ ~lock
  /\ cancels < MaxCancels /\ cancels' = cancels + 1
  /\ status' = [t \in Tasks |-> IF t \in ids \cap tracked THEN "CANCELLED" ELSE status[t]]
  /\ UNCHANGED <<tracked, result, call, lock, toCancel, bus, loop>>

cancel_tasks(ids) ==
  /\ loop = "running" /\ ~lock
  /\ cancels < MaxCancels /\ cancels' = cancels + 1
  /\ CancelNext(ids)
  /\ UNCHANGED <<tracked, result, call, bus, loop>>

CancelResumes ==
  /\ loop = "running" /\ lock /\ Published(Canceller)
  /\ CancelNext(toCancel)
  /\ UNCHANGED <<tracked, result, call, loop, cancels>>

Cleared == {t \in tracked : status[t] \in Complete}

clear_completed_tasks ==
  /\ loop = "running" /\ ~lock
  /\ Cleared # {}
  /\ tracked' = tracked \ Cleared
  /\ result' = [t \in Tasks |-> IF t \in Cleared THEN "none" ELSE result[t]]
  /\ UNCHANGED <<status, call, lock, toCancel, bus, loop, cancels>>

\* A coroutine takes the threading.Lock that the suspended cancel_tasks holds:
\* a call that begins or ends, or any query of the tables.
TakesHeldLock ==
  /\ loop = "running" /\ lock
  /\ loop' = "blocked"
  /\ UNCHANGED <<status, tracked, result, call, lock, toCancel, bus, cancels>>

-----------------------------------------------------------------------------
CallStep(d) == Delegate(d) \/ Publish(d) \/ Execute(d) \/ Finish(d) \/ Return(d)

TasksNext ==
  \/ \E d \in Calls : CallStep(d) \/ Kill(d)
  \/ \E ids \in SUBSET Tasks : cancel_tasks(ids)
  \/ Publish(Canceller) \/ CancelResumes
  \/ clear_completed_tasks
  \/ TakesHeldLock

TasksSpec == TasksInit /\ [][TasksNext]_taskVars

\* Nobody has to call.  Agents and subscribers come back.  asyncio.Lock is first
\* come first served, so a publisher that waits for the bus is not overtaken for
\* ever.  A coroutine that is ready to take the task lock takes it, held or not.
TasksFairness ==
  /\ \A d \in Calls : WF_taskVars(Execute(d) \/ Finish(d) \/ Return(d))
  /\ \A a \in Calls \cup {Canceller} : SF_taskVars(Publish(a))
  /\ WF_taskVars(CancelResumes) /\ WF_taskVars(TakesHeldLock)

-----------------------------------------------------------------------------
(* Properties. *)

\* "Cannot cancel already completed tasks" (cancel_tasks): when each task is
\* delegated once, a finished task keeps its status, whatever is cancelled,
\* cleared or killed around it.
DoneIsFinal ==
  [][\A t \in Tasks : status[t] \in {"COMPLETED", "FAILED"} => status'[t] = status[t]]_taskVars

\* The result table and the task agree, also for tasks that were cancelled
\* while they ran: a reader never finds a result that contradicts the status.
ResultTellsStatus ==
  \A t \in Tasks :
    /\ result[t] = "ok" => status[t] = "COMPLETED"
    /\ result[t] = "error" => status[t] = "FAILED"

\* Every delegation comes back through the bus it contends for, and with it the
\* workers and parents that wait for it, whoever is killed while it publishes.
\* Only the task lock can stop it, by stopping the whole loop.
EveryCallReturns ==
  \A d \in Calls :
    call[d] # "new" ~>
      call[d] \in {"returned", "raised", "missing", "killed"} \/ loop = "blocked"
=============================================================================
