# A verification project for dawn-kestrel

dawn-kestrel is a Python SDK for agents that call language models. Its agents
are coroutines of one `asyncio` event loop: they run tools, delegate to other
agents, queue work for worker pools, and share caches, limiters, an event bus
and a JSON store. Almost nothing of this is guarded by locks that matter; what
keeps it right is where a coroutine may be suspended and what it checks again
afterwards. That is what these modules model, check and prove.

All paths below are relative to `src/dawn_kestrel/`, those that begin with `tests/` to
`src/`.

## How the code is turned into TLA+

Coroutines of one event loop switch only where they await something that really
suspends. One action is therefore one *stretch* of a coroutine: from where it is
resumed to where it is next suspended, every assignment on the way included.
`async with lock` on an `asyncio.Lock` whose holders never suspend is no
suspension and disappears; a lock held across an await is a variable.
Cancellation (`CancelledError`) is modelled where the coroutine is suspended:
it is not an `Exception`, so `except Exception` does not stop it, and many of
the interesting behaviours begin there.

Messages, prompts, tool results and errors are reduced to what the properties
tell apart. Logging, statistics and formatting are left out.

## Inventory

| Component | State | Operations | What makes it correct | Modelled |
|---|---|---|---|---|
| Finite state machine, `core/fsm.py` | current state, observers, history, stored record | `transition_to` (hooks, persist, publish, notify), observer registry | only declared transitions; memory, store and history agree; observers hear after the write | `Fsm`, `StateMachine` |
| Task queue, workers, pool, `reliability/queue_worker.py` | queue, statuses, workers, in-progress count | `enqueue`, `dequeue`, worker loop, `start`, `stop`, `resize`, `wait_for_completion` | no task lost or run twice; completion means done; stop stops all | `WorkerPool` |
| Parallel execution queue, `agents/execution_queue.py` | results and errors by index | `run_jobs` on a worker pool | each job has an outcome; the caller comes back | `ExecutionQueue` over `WorkerPool`, implementing `Batch` |
| Delegation engine, `delegation/` | context, budgets, convergence tracker | BFS, DFS and policy-driven traversals | budgets hold; every child has an outcome | `Delegation` over `Batch` |
| Bulkhead, `llm/bulkhead.py` | semaphores, limits, managed set, counts | `try_execute`, `try_acquire`, `release`, `set_limit` | never over the limit; every permit comes back | `Bulkhead` |
| Tool result cache, `tools/cache.py` | LRU map, pending futures | `aget_or_execute`, `get`, `set`, `invalidate`, `resize` | one execution per key; everyone answered; bounded | `ToolCache` |
| Agent orchestrator, `agents/orchestrator.py`, and event bus, `core/event_bus.py` | task and result tables, task statuses, table lock, bus lock | `delegate_task`, `execute_task_via_task`, `cancel_tasks`, `clear_completed_tasks`, queries, `publish` | statuses are final, results match them, every call returns | `Orchestrator` |
| LLM client and rate limiter, `llm/client.py`, `llm/rate_limiter.py`, `llm/evidence_sharing.py` | global semaphore, token bucket, kept answers | `complete`, `stream`, retries | permits conserved; rate bounded; calls come back | `LlmClient` over `TokenBucket` |
| Agent runtime and AI session, `agents/runtime.py`, `ai_session.py`, `ai/tool_execution.py` | message counter, recent tool calls, active calls | `execute_agent`, `process_message`, `process_stream`, `execute_tool_call` | tool calls end with their reply; messages are not overwritten; events tell the outcome | `AgentTurn` |
| Storage, session manager, unit of work, `storage/store.py`, `core/session.py`, `core/repositories.py`, `core/unit_of_work.py` | JSON files, the manager's lock, pending entities | create, update, delete, list, export; `begin`, `register_*`, `commit`, `rollback` | no torn file unexplained; a commit that says Ok is on disk | `SessionStore` |
| Multi-agent workflow, `workflow/multi_agent.py` | agent results, execution order | construction, `execute` in four modes | circular graphs rejected; dependencies first; everybody reported on | `MultiAgent` |
| Provider bus, `llm/provider_bus.py`, `llm/provider_limits.py`, `llm/distributed_limiter.py` | semaphores, token buckets, 429 counts | `execute`, `execute_stream`, `check_allowed` | rate and concurrency limits | no |
| Retry and circuit breaker, `llm/retry.py`, `llm/circuit_breaker.py`, `llm/reliability.py` | circuit state, attempt counts | `execute`, `generate_with_resilience` | attempts bounded | no |
| Mediator and observers, `core/mediator.py`, `core/observer.py` | handler lists and sets | `publish`, `subscribe`, `notify_observers` | each handler sees each event once | no |
| Workspace allocator, `session/workspace.py` | workspaces, directories | `allocate`, `release`, `cleanup_orphaned` | no directory in use is removed | no |
| Session services, `core/services/`, `session/` | none of their own | fork, revert, compact | multi-step changes leave no half | as used by `AgentTurn` |
| Workflow agents, `agents/fsm_orchestrator.py`, `agents/workflow.py` | workflow FSM, budgets | the reason/act/check loop | budgets stop the loop | only the machine (`Fsm`) |
| Agent lifecycle and registry, policy, harness, tools, providers, HTTP, CLI, SDK, settings, prompts, security, observability | little or none shared | | | no: tables, pure decisions, I/O, text or wiring |

How they interact: the orchestrator runs `run_parallel_agents` through the
execution queue, which builds a worker pool for the batch, and the delegation
engine builds one for its children; both rely on `wait_for_completion` and on
`stop` cancelling the workers. An agent's run stores its messages through the
session service and manager, asks the provider through the LLM client with its
global semaphore and rate limiter, and runs the tool calls of a reply side by
side; tools may go through the tool cache. Every lifecycle change is published
on the global event bus, awaited by the publisher. The unit of work writes the
same files as the session manager, without its lock. Workflow agents are driven
by an FSM whose repository is the JSON store.

Hard behaviours: a condition checked before an await and used after it (FSM,
orchestrator, workflow conditions); cancellation in the middle of an operation
(cache, worker pool, FSM, tool calls, streams); hand-over between a queue and its
counter (worker pool) or a semaphore and its waiters (LLM client); a lock held
across an await (event bus, `cancel_tasks`, session manager); files written in
place by several coroutines; a write that fails half way (FSM, storage, unit of
work); timeouts that race answers (execution queue, delegation, streams); bounds
(cache, bulkhead, pool, budgets, token bucket). `PROJECT.json` lists them at
their lines, with the properties that cover them or the reason none does.

## Modules

### `StateMachine`, `Fsm`: the finite state machine

`StateMachine` is what `core/fsm.py` promises: a current state that starts at
the initial one and only moves along declared transitions. `Fsm` is
`FSMImpl`, driven by `Callers`. `state` is `self._state`, `store` the
repository's record, `observers` and `history` the sets and lists of the same
name, `call[c]` where coroutine `c` is suspended in `transition_to`; `view` and
`path` are observed only (what each observer was last told, which moves were
really made).

| Action | Stretch of `transition_to` |
|---|---|
| `TransitionTo` | validation, then up to the exit hook, or past the assignment of the state |
| `ExitHookDone` | back from the exit hook: the state is assigned |
| `EntryHookDone` | back from the entry hook: the write begins |
| `Persisted`, `PersistFails` | the write lands, or answers Err and the call gives up |
| `Published`, `Notified` | one turn of the observer loop (`LoopTurn`), which ends in the history entry |
| `Cancel` | CancelledError wherever the call is suspended; a write may have landed, torn the file or done nothing |
| `register_observer`, `unregister_observer` | the registry, while calls are in flight |

`LoopTurn` models CPython's set iterator: it raises when the size differs from
the size at the start, skips removed members and may or may not reach new ones.
A hook's success, Err, exception, rate limiting and exhausted retries are one
step, because `transition_to` ignores all of them; so are Err and Ok of
`mediator.publish`. A repository and a mediator are always configured (without
them the corresponding step does not suspend). `MCFsm` gives the machine of
`WORKFLOW_STATES` and `WORKFLOW_TRANSITIONS`. What holds only of an FSM that one
coroutine drives is stated for as long as at most one coroutine has called
`transition_to` (`Alone`); the others may exist, they just have not called yet.

### `WorkerPool`: queue, workers and pool

`worker[w]` goes `unborn`, `polling`, (`handed`), `busy`, `dead`. `Dequeue`
takes the task from the queue. With `InnerGet` (Python 3.11, the repository's
`.python-version`) `asyncio.wait_for` runs `queue.get()` in a task of its own,
so there is a state in which the task has left the queue and the worker has not
resumed: `handed`. From 3.12 `wait_for` awaits inline and `Dequeue` goes on to
`Process`. `Resume` also happens to a cancelled worker: `wait_for` of 3.11
returns the finished inner task's result and drops the cancellation.
`Finish` is the processor's return, Err or exception and the test of
`self._running`; `Killed` the end by CancelledError, through the `finally` that
counts the task out. `start`, `stop` and `resize` are made by one coroutine;
`StopWorker` is `AsyncWorker.stop` as gathered, `AdminReturns` the end of the
gather. `wait_for_completion`, `Completes` and `TimesOut` are the polling of
another coroutine.

### `Bulkhead`

`try_execute` overrides the limit, creates the semaphore on first use with the
limit of that moment and waits; `Acquired` is the rest of `try_acquire`;
`AcquireFails` the timeout or cancellation of the wait; `Done` the end of the
protected function however it ends, the release (refused when the semaphore is
not in the managed set) and, through `Leave`, the outer `finally`.
`FirstActive` keeps the code's choice of the resource to count down.

### `ToolCache`

`cache` is the ordered map, least recently used first, each entry fresh or
expired; `pending[k]` the future in `self._pending`, `future[f]` its state.
`aget_or_execute` is the entry of the method up to its first suspension: `Hit`,
`Join` (await another's future) or `Execute` (become the executor). `ExecuteDone`
and `ExecuteRaises` are the executor resuming, with everything up to the
`finally`; `SetResult` is `future.set_result`, which raises on a cancelled
future. `ExecutorCancelled`, `WaiterCancelled` and `WaiterResumes` are what
cancellation and completion do to both sides. `get`, `set`, `invalidate`,
`resize` and `Expire` run beside them.

### `Orchestrator`: tasks, results, two locks

`status`, `tracked` and `result` are the tasks and the two tables. `call[d]` is
where a call of `delegate_task` is: announcing the start (`started`), in the
agent (`executing`), announcing the end (`completed`, `failed`), or out. `bus` is
the holder of the event bus's lock, which a publisher keeps while its
subscribers are suspended. `lock` is the `threading.Lock` of the tables while
`cancel_tasks` is suspended in it; `TakesHeldLock` is any coroutine that then
takes it, and stops the loop for good. `Kill` is the cancellation of a call by
the execution queue's pool. Calls made by `execute_task_via_task` are in
`ViaTask` and look their result up once more (`Outcome`).

### `Batch`, `ExecutionQueue`: a batch of jobs

`Batch` is what a caller of a worker pool relies on: a job begins once, at most
`Limit` run at a time, only the end of the batch cuts one off, and nothing of it
runs when it is `closed`. Two things the code does are part of it. A job may begin
`deaf`, while the batch is closing: its worker swallowed the cancellation that was
to stop it, and only the job's own answer or another cancellation ends it. And a
batch may be `abandoned`: its caller was cancelled in `pool.stop` before a worker
had been reached, so its jobs go on. `ExecutionQueue` extends `WorkerPool` with `run_jobs`: one
coroutine fills the queue (`Fill`), starts the pool (`StartPool`), waits
(`Await`, `JobsDone`, `JobsTimeOut`), stops it (`StopPool`) and answers with the
two tables (`Return`). `JobEnds` is `process_task`: it writes its table before
the worker counts it out; a job that is cancelled writes none (`WorkerMoves`).
The caller may be cancelled wherever it suspends: in the wait (`WaitCancelled`; the
`finally` stops the pool), in the stop before the coroutines that `gather` has
made of `w.stop` have begun (`StopUnbegun`: they never begin, and `run_jobs` raises
over workers that go on), or later in the stop (`StopCancelled`: each worker that is
being awaited is cancelled once more, and `gather` waits for all of them).
`IsBatch` maps statuses, holders and the caller's stage to `Batch`.

### `Delegation`: traversals and budgets

`ctx` is the `DelegationContext`, `conv` the `ConvergenceTracker`, `stack` the
recursion of `_execute_dfs`, `policy` the turn of `delegate_with_policy`. The
breadth-first mode runs its children in `Batch` (`job`, `batch`), since
`_execute_children_queued` uses the pool exactly as `run_jobs` does:
`ChildBegins`, `ChildEnds`, `ChildCut`, `ChildRefused` (the spawn callback
raises), `PoolStops`, `Collect` (the loop over `results_map`, `Collected`). A
cancellation of the caller comes in the wait (`WaitCancelled`) or in the stop
(`StopUnbegun`, `StopCancelled`), as in `ExecutionQueue`; the stop then ends in
`Aborts`, and a batch that was abandoned works on behind the cancelled delegation.
`ChildCut` counts the child out unless it was still in `on_agent_spawn`, which is
outside the `try`. The depth-first traversal is `SelfAnswers`,
`NextChild`, `ChildAnswers`, `AfterChild`, with the code's asymmetry that a
return before the `try` does not count the level out (`EarlyReturn`) and one
inside does (`LeaveLevel`). `Cancelled` is the cancellation of a caller that runs
an agent itself. `lost` observes who was cut, refused by the spawn callback, or
cancelled in it (`unstarted`). The tree is
given by `Children` and by `Level`, how far below the root an agent is: that such
a numbering exists is what makes it a tree.

### `TokenBucket`, `LlmClient`: requests

`TokenBucket` is the limiter's bucket over ticks: it refills only when it is
empty, and drops the accrued fraction. `ideal` observes a bucket of twice the
capacity that loses nothing. `LlmClient` has for each call the `caller` and the
`task` that collects the provider's events: the same coroutine for `complete`,
another one for `stream`, beside the task that sleeps for the timeout. `Attempt`
takes or queues for a permit, `Granted` is woken, `Wake` asks the limiter again,
`RequestEnds` is the provider's end, a transient error that is retried or a
permanent one, `Unwind` the delivery of a cancellation. A semaphore's release
hands the permit to its first waiter.

### `AgentTurn`: executions of a session

`run[r]` is one `execute_agent`, `tool[r]` the tool calls of its current reply
and `active[r]` the manager's `active_calls`; `disk` says whose message each
identifier holds. `Ask` and `AskAnyway` are the storing of the question (a
failed write is swallowed), `List` the reading of the prompt (a failure of it, a
record that does not validate for instance, is answered with no messages at all),
`Reply` the
provider's answer with its tool calls less the recent duplicates, `Gathered` and
`Write` the storing of the reply, `LeaveLoop`, `Close`, `Raises` and `Fail` the
end with its events. `ToolStarts` to `ToolCancelled` are `execute_tool_call`.

### `SessionStore`: files, manager, unit of work

`disk` is the content of each file (absent, empty, garbled, written), `fd[c]`
the file a coroutine has open for writing, `call[c]` where it is, `queue` the
holder of the manager's lock and its waiters, `uow` the transaction with its
three pending lists, which `commit` writes one after the other (`InOrder`). Each of
`Open`, `Close`, `Unlink`, `Read` is one thread-pool suspension of `aiofiles`.
`Truncate` and `Flushed` are opening for writing and closing; `Flushed` garbles a
file that another writer closed meanwhile. `Fails` is a write that raises,
`Crash` the end of the process and its restart. `past` observes what may have
happened to a file, `due` what a listing owes. `create` and `create_message` write
under a new UUID (`Fresh`); every other call, and a registration, writes under the
identifier it is given, which may be in use (`Given`), but cannot be a UUID that is
just being created (`InCreation`) and that nobody has been told yet. `import_data`
is its calls: `update_session` or `create`, and then `create_messages` under the
identifiers of the imported messages. Nothing is asked of a part: its message may
be nowhere.

### `MultiAgent`: the workflow

`Construct` is `__init__` with `_validate_dag`. Its `has_cycle` is a recursive
function of an `Activation`: a call's name, the dependencies it still has to look
at, and the sets `visited` and `rec_stack` as they are then. `Called` is a call's
beginning, `Left` its end, `Checked` the loop's body for one agent, and `Searched`
the loop. Agents and dependencies are looked at in any order that is fixed
beforehand. `Start`, `Ready` and `StartWave` choose
whom to run (with `ConditionRaises`), `Begin` is a task's own look at its
condition, `AgentEnds` the agent's answer, failure or timeout, `ContextChanges` a
change of the context that conditions read, `Gathered` the end of the wave,
`Finished` and `ReturnResult` what is reported of those never run.

## What is checked

| Run | Shows |
|---|---|
| `fsm` | one or two coroutines. However they overlap: memory and store hold only reachable states (`ReachableOnly`), the history has no more entries into a state than there were moves into it (`AuditSound`). While one of them alone has called: the FSM refines `StateMachine` (`MovesAreDeclared`), an Ok means that memory, store and history agree (`AgreeWhenOk`), observers are told only what is stored (`ToldAfterPersisted`) |
| `pool_safety` | under every interleaving of producers, workers, stop, restart and resize, with the `wait_for` of Python 3.11: a task is in one place and run once, the count is exact, no more run than the pool has room for (`TasksHandled`); a stopped pool has no worker (`StopStopsAll`); `stop` and `resize` come back (`AdminComesBack`); a pool left alone finishes every task (`EveryTaskFinishes`) |
| `guards` | the tool cache: single flight (`SingleFlight`), no stale pending future (`PendingIsExecuting`), a bounded map that keeps what was just executed (`ExecutedIsCached`), every caller answered unless its executor was cancelled (`AnsweredOrAbandoned`). The bulkhead: no resource is over capacity (`NeverOverCapacity`), a semaphore of one permit never loses it (`SinglePermitReturns`) |
| `agents` | the orchestrator: results and statuses agree (`ResultTellsStatus`), a completed or failed task keeps its status (`DoneIsFinal`), every call comes back unless the loop is stopped (`EveryCallReturns`). The workflow: exactly the circular graphs are rejected (`CyclesRejected`); agents run once and behind their dependencies, in an accepted graph nobody who wants to run is stuck, everybody is reported on, for a reason, and nobody left running (`AgentsAccounted`), and a workflow ends (`WorkflowEnds`) |
| `batch` | `run_jobs` on that pool, with the `wait_for` of Python 3.11: it implements `Batch` (`IsBatch`); every job is in a table but those cut off after a premature completion (`EveryJobAccounted`); it comes back unless an agent that began on a swallowed cancellation never answers (`RunJobsReturns`) |
| `completion` | *violated:* completion means that no task is queued or with a worker (`CompletionMeansDone`) |
| `delegation` | a delegation goes no further than its depth, and than its number of agents breadth first and one more depth first, and does not converge before answers repeat (`BoundariesHold`); every agent is counted in, out and reported, but for those the spawn callback failed (`Accounted`); it ends unless a child that began on a swallowed cancellation never answers (`DelegationEnds`) |
| `agent_limit` | *violated:* depth first, no more than `max_total_agents` are spawned (`AgentLimitNeverExceeded`) |
| `llm_client` | permits are neither lost nor doubled, nor idle while somebody waits (`PermitsExact`), the rate is that of a bucket of twice the capacity (`RateBound`), only a cancelled stream leaves a request behind (`NoStrays`), every call comes back (`CallsReturn`) |
| `agent_turn` | no tool call outlives its reply (`ToolsSettled`), a run never overwrites its own messages (`OwnMessagesApart`), prompts with its question if that could be stored and read (`PromptHasQuestion`), and tells what it did: events in order, tool events paired, every reply counted, and only the last of a run that leaves its loop twice (`TellsWhatHappened`) |
| `replies` | *violated:* no reply is counted twice (`RepliesCountedOnce`) |
| `sessions` | an unreadable file has a reason, no two calls of the manager have one message open, the lock is held by those who took it (`FilesSound`); listings miss nothing that was there all the time (`ListingComplete`); a commit that says Ok is on disk, and one that stops short has written every message before the first part (`CommitPersists`); calls come back (`CallsReturn`) |

`guards` and `agents` each hold two components that share nothing. In a behaviour
the one that is used first is the only one used, so the states are those of the
two side by side, and not their product.

`TasksHandled`, `BoundariesHold`, `Accounted`, `TellsWhatHappened`, `FilesSound`
and `AgentsAccounted` are conjunctions of invariants that are
stated one by one, each with its comment, above them. They, or `PermitsExact`,
`ExecutedIsCached` and `EveryJobAccounted`, include the type invariants of their
modules; `Fsm`'s `TypeOK`, `BulkheadTypeOK` and `TasksTypeOK` are proved instead.

### What the code does not keep

Three runs check what a comment or a test says of the program, and fail:

- `completion`. "Track in-progress tasks to fix race condition in
  wait_for_completion" (`reliability/queue_worker.py:491`). On the pinned Python
  3.11 `wait_for` runs `queue.get()` in a task of its own. When that task has the
  item and the worker has not resumed, the queue is empty and the count is zero:
  `wait_for_completion` answers Ok. In `run_jobs` the stop that follows may cut the
  job off, and it is then in neither table; `EveryJobAccounted` says that this is
  the only way to lose one.
- `agent_limit`. "Test that max_total_agents boundary is never exceeded."
  (`tests/delegation/test_guarantees.py:223`, for both traversals). Depth first, a
  child with children is executed under the budget, and then once more as the root
  of its own activation, without a look at it (`delegation/engine.py:333`). The
  tests' children have none. `delegate_with_policy` does not look at the budget at
  all.
- `replies`. `assert result.tokens_used.input == 10`, of a run with one reply of 10
  (`tests/test_agent_runtime.py:174`). A reply that ends the loop over tool calls is
  added to the totals in the loop and behind it (`agents/runtime.py:419`), so it is
  20.

### Behaviour a reader of the code should know

The models hold what the code does, also where it surprises. What follows is in
the state space and the properties are worded around it.

State machine and pool:
- two coroutines in one FSM: the edge validated before the exit hook is not the
  edge taken after it, so the machine may take one that nobody declared, and the
  history then tells of the edge that was validated; the repository may keep the
  older of two states; a failed write leaves a move out of the history; no code
  consults `with_guard` guards;
- the `wait_for` of Python 3.11 may also swallow the cancellation that stops a
  worker, which then begins one more task. Nobody cancels it again: if that agent
  never answers, `pool.stop`, and with it `run_jobs` or the delegation, waits for
  ever. With the inline `wait_for` of Python 3.12 this does not happen;
- a caller cancelled in `pool.stop` before `gather` has run the `w.stop` it was
  given leaves the workers running behind it (`agents/execution_queue.py:96`,
  `delegation/engine.py:240`);
- a job that ends between the timeout and the stop is reported as completed and
  with the error of the timeout;
- a pool resized before it is started has workers that `start` forgets
  (`StopStopsAll` fails with `ResizeStopped = TRUE`).

Limits and caches:
- with a limit of two, a bulkhead's release unmanages the semaphore that
  another caller still holds, whose permit is lost; overlapping overrides
  restore each other's limit;
- callers that joined a tool call whose executor was cancelled wait for ever;
  those that joined one that raised are handed None; cancelling one of them
  cancels the future of all;
- a token bucket that is full does not refill, and is refilled for its idle time
  once empty: bursts of twice the capacity; at the default 0.5 tokens a second
  asked every second (`llm/client.py:73`) it never refills at all, because the
  fraction is dropped each time; `CallsReturn` is checked at a token per poll;
- a cancelled `stream` leaves its two tasks running, and with them a permit.

Agents and delegation:
- `delegate_task` sets RUNNING, and later COMPLETED or FAILED, over a CANCELLED
  that came while it awaited; `execute_task_via_task` may find its result
  cleared; a task cancelled and cleared while it runs leaves a result for ever;
- `cancel_tasks` awaits its subscribers with a `threading.Lock` held: the next
  coroutine that takes it stops the event loop;
- the depth-first delegation executes a child that has children twice;
  `iteration_count` is never incremented; an `on_agent_spawn` that raises, or that
  is cancelled, leaves the agent counted as active; children cut off by the wall
  time are in neither table and the delegation succeeds;
- every execution of a session numbers its messages from the stored counter,
  which nobody saves: a second one overwrites the first one's messages, also
  under its feet; a question that could not be stored is asked all the same, with
  a prompt that lacks it; a failure to list the messages empties the prompt
  (`core/services/session_service.py:381-387`); `list_messages` lists newest first;
- a hook that raises after AGENT_CLEANUP has AGENT_ERROR published as well; a
  tool call cancelled while it publishes its end publishes another;
- a tool call repeated within eight seconds is dropped, and the loop ends.

Sessions and workflows:
- `update_session` takes no lock: updates are lost, a deleted session is written
  again, and two that overlap may leave a file that is not JSON, although
  `storage/store.py:20` speaks of file locking;
- a commit that fails in the middle leaves what it has written, where
  `core/unit_of_work.py:113` says that no partial changes are persisted;
- `register_part` and `add_part` ask nothing of the part's message: a part may be
  stored whose message is nowhere;
- `import_data` into a session that exists keeps the identifiers of the messages
  and writes their files again; `create_messages` and `register_message` write
  under any identifier they are given;
  `delete_session` leaves the messages;
- the session manager holds its lock while subscribers run: one that calls the
  manager back waits for itself;
- a workflow's dependency counts as completed when it failed or was skipped in
  its wave; an agent whose error is the empty string counts as a success
  (`workflow/multi_agent.py:396`); a condition that raises ends a sequential, dag
  or conditional workflow, but in a parallel one only its own agent; `retry_count`
  is not used.

Seen in code that is not modelled: `provider_bus.py` does not ask the limiter
again after waiting (221), and counts a request active before the `try` that
counts it out (226); `llm/reliability.py:250` refuses closed circuits and lets
open ones through; a mediator's first failing handler keeps the rest from the
event; `cleanup_orphaned` of `session/workspace.py` removes the directories of
other allocators on the same base directory.

### Bounds, and why they are enough

- `Fsm`: seven workflow states, two callers, three calls, two observers. Two calls
  overlap in every pair of phases and a third follows either; or one coroutine
  makes all three. The machine starts at `reason`, so that `intake` is unreachable
  and `ReachableOnly` has something to exclude; from there three calls lead round
  a cycle.
- `WorkerPool`: three tasks, up to three workers ever created, a queue of one,
  one stop. A producer waits while another is cancelled, and a stop meets a
  polling, a handed and a busy worker, a restart or a resize creates others.
  `resize` is called on running pools (`ResizeStopped = FALSE`).
- `ExecutionQueue`: four jobs on two workers: two run, two wait, and each of them
  may end, raise, kill its worker, be cut off or never begin. The caller may be
  cancelled as often as it suspends, and an agent may never answer.
- `Delegation`: seven agents on four levels, the root with four children where
  three are allowed, budgets of three, four and eight agents, two answers that
  can repeat. The budget is met exactly, missed by one, and not met. `agent_limit`
  runs the depth-first mode of the same tree.
- `Bulkhead`: three callers on two resources, limits one and two, each called with
  an override of two or with none. Three callers on a limit of two is the least in which one waits while
  two hold.
- `ToolCache`: three callers, two keys of two tools, room for one or two, three
  calls, one cancellation. An executor and two waiters on one key, a call after
  an abandoned one, or a second key that evicts the first.
- `Orchestrator`: three calls, of which one goes through
  `execute_task_via_task`; one call of `cancel_tasks` on any set of tasks.
- `LlmClient`: three calls and one permit, so that one holds it and two wait; two
  attempts, so that one is retried and given up; a bucket of one token.
- `AgentTurn`: two executions, one with two tools and one without, two loops
  (`MAX_TOOL_LOOPS` is larger): a reply inside the loop, one that leaves it, and
  two tool calls in different phases when a cancellation reaches them.
- `SessionStore`: two coroutines on the manager and one on a unit of work, one
  session, two messages and a part, four calls, one failing write or crash. A
  message and a part are registered and committed beside one call of the manager,
  or two commits follow each other; or the manager has four calls. Two
  writers and a reader of one file are the least that garble and observe it.
- `MultiAgent`: three agents, every graph over them, those in which the first one
  depends on a name that does not exist, one condition that is not met and one
  change of a condition. Three are the least with a cycle behind a way into it and
  with a wave between two others.

No symmetry is used. Deadlock checking is off where the system may really come to
rest: when its calls are used up, a batch is over, or the loop is blocked. It is
on in `fsm` and `guards`, where some operation is always possible.

### Fairness

Weak fairness on a coroutine's own step says that what it awaits comes back and
that the event loop runs what is ready, which it does first come first served.
Cancellation, timeouts that need not strike, expiry and administration are never
fair. In particular:

- `WorkerPool`: the pool is started (`WF(start)`), workers and stops go on;
  `EveryTaskFinishes` promises nothing once it is stopped or resized.
- `ExecutionQueue`: nothing is assumed of the jobs (`JobEnds` is not fair); the
  timeout fires, since `run_jobs` always passes one. A job that its worker began
  on a swallowed cancellation may thus go on for ever, and `RunJobsReturns` says
  that `run_jobs` then waits for it.
- `Delegation`: agents that run in the engine's own coroutine answer (nothing
  there has a timeout); those in the pool need not, the wall time passes and the
  stop cuts them off, but for the `deaf` ones of Python 3.11, which `ChildCut`
  does not reach.
- `ToolCache`: tools come back, and waiters of a future that is done resume.
- `Orchestrator`: nobody has to call; strong fairness on taking the bus lock, because `asyncio.Lock`
  wakes its waiters in order, and weak fairness on `TakesHeldLock`: a coroutine
  that is ready to take the task lock does not wait for it to be free.
- `LlmClient`: time passes and timers fire; the provider owes no answer, a request
  it never answers ends as the transient error that its timeout is.
- `SessionStore`: threads and subscribers of the bus come back; its lock is first
  come first served.
- `MultiAgent`: nobody has to construct or execute a workflow; `_execute_agent` has a
  timeout, so every agent that began ends (`WF` on its failing, not on its
  succeeding).

`Fsm`, `Bulkhead` and `AgentTurn` are checked for safety only.

## What is proved

TLAPS checks these for every value of the constants, from the assumptions named
in the modules (`FsmAssumption`, `PoolAssumption`, `BulkheadAssumption`,
`CacheAssumption`, `OrchestratorAssumption`, `BucketAssumption`,
`ClientAssumption`, `StoreAssumption`, `TurnAssumption`, `DelegationAssumption`,
`WorkflowAssumption`), which TLC evaluates in
the runs. They say what kind of thing a constant is, and that `Agents`, `Callers`,
`Observers`, `Calls`, `Tasks` and `Messages` are finite, as what a process
creates always is; counting needs it. A theorem that needs more says so in an `ASSUME`
of its own, and each of these is the setting of the run that checks the property:
- `OncePerTask`: each task is delegated once, as the code's callers do;
- `~ResizeStopped` (`PoolKeepsToSize`): a pool is resized while it runs;
- `MaxSize = 0` (`NoJobForgotten`): the queue `run_jobs` makes is unbounded;
- one caller at most (`SingleCaller`, which says of the whole life of an FSM what
  `SerialRefinement` says of its life up to a second caller's first call).

`InnerGet` is assumed nowhere: what is proved of pool, `run_jobs` and delegation
holds with the `wait_for` of Python 3.11 and with that of 3.12.

`Fsm_proof`:
- `TypeCorrect`: `Spec => []TypeOK`. `TypeOK` is inductive. `ReturnTyped`,
  `EnterTyped` and `LoopTurnTyped` type the three ways in which actions change
  `call`.
- `Reachability`: `Spec => []ReachableOnly`, for any number of coroutines. The
  invariant is not inductive by itself: a call in flight carries the target
  validated earlier, and its move or its write may come at any time. For a set
  closed under the transitions, the strengthening `Within` adds that every
  command in flight aims into the set; since the machine's state was in it when
  the command was validated, and only then, this is inductive.
- `SerialRefinement`: `Spec => MovesAreDeclared`, for any number of coroutines:
  while one alone has called, every step is one of `StateMachine`. Its inductive
  invariant, `ExitPending`, says that a call suspended in its exit hook still has the machine
  in the state it was validated from; it is kept up to the step at which a
  second coroutine calls and may move the machine meanwhile. `SingleCaller` draws
  the conclusion for an FSM that only one coroutine can call: `Spec =>
  Declared!Spec`, the refinement of `StateMachine`.
- `OkMeansAgreement` and `ToldWhatIsStored`: `AgreeWhenOk` and
  `ToldAfterPersisted`, again while one coroutine alone has called. The invariant `Agreed` adds what the one call in
  flight has already done: past its write, memory and store are its target; past
  the observers' loop, so is the last history entry.
- `HistoryIsTrue`: `Spec => []AuditSound`, for any number of coroutines. The
  history and the list of moves really made grow at different moments, in
  different orders, so the one is no prefix or subsequence of the other that an
  induction could carry along. What is inductive counts: the entries into a state
  plus the calls that have made that move and not yet entered it (`Unaudited`)
  are at most the moves into it. Each stage moves one call in or out of that set.
  It says nothing of the state that an entry claims to come from: with two callers
  that is the one validated, not the one left.

`WorkerPool_proof`, which is also about `ExecutionQueue`:
- `EveryTaskOnce`: a task is in one place, is never run twice, and
  `in_progress` is exact. The invariant `Exact` relates queue, statuses and
  workers: who holds a task, that the queue has no duplicates and only queued
  tasks, that a producer waiting to put has a task nobody holds.
- `PoolKeepsToSize`, if only running pools are resized: `TasksHandled` and
  `StopStopsAll`. The room of the pool is not inductive: `Listed` says that every
  worker alive is in the pool's list or among those being stopped, which a resize
  of a pool that was never started breaks.
- `RunJobsIsBatch`: `BatchSpec => IsBatch`, the refinement of `Batch`, step by
  step: every action of the pool, under the caller's stage in which it can happen,
  is a step of `Batch` or a stutter, with either `wait_for` and wherever the caller
  is cancelled. That no more than `Limit` jobs run rests on the pool's own
  invariants (`PoolSafe`); `Orderly` says that only workers whose stop has begun
  are cancelled or told to end before the batch is closed, that nothing has been cut
  before a stop has begun, and that a closed batch has a stopped pool.
- `RunJobsBounded`: what the promise is worth to the caller of `run_jobs`. At most
  `max_workers` agents run, none once it has returned or raised behind its stop, and
  no job begins twice. It is proved of `Batch` alone (`BatchKeepsWithin`,
  `BatchNoWayBack`) and comes through `RunJobsIsBatch`. Of a `run_jobs` that was
  cancelled before its stop had begun (`abandoned`) the middle part is not said, and
  not true.
- `NoJobForgotten`: when `run_jobs` returns, every job is in a table, or was in a
  worker's hands when completion was answered Ok and cut off by the stop. `Kept` says
  that before the answer a job is queued, held or in a table (`NoneLost`), what is
  in the tables (`TablesTell`), and what an answer leaves (`AllTold`): a
  timeout has been written down for whatever is in no table, an Ok found nothing on
  the queue. It rests on no producer ever waiting on the unbounded queue.

`ToolCache_proof`:
- `CacheSingleFlight` and `CachePendingIsExecuting`: for any number of callers
  and keys, a key is executed by one caller at a time and has a pending future
  exactly while it is executed. Neither is inductive alone: that a second caller
  joins instead of executing rests on the executor's future being there, and
  removing the future at the end rests on there being no second executor. The
  strengthening `Flight` says both, and that a pending future is its executor's
  own; `Answered`, `Ended`, and two more lemmas for joining and executing, say
  what the four kinds of step do to it. The map of cached entries plays no role.
- `CacheKeepsExecuted`: `Spec => ExecutedIsCached`, for any sizes and however `set`,
  `invalidate`, `resize` and time interfere. `Roomy` (the map is within its bound and
  holds a key once) is kept by every operation on the map, each with a lemma of its
  own (`WithoutKeeps`, `MovedKeeps`, `LastOnes`, `StoredKeeps`). The first is about a
  recursive function: that it exists (`WithoutSteps`) and what it leaves is shown by
  taking the least index where it fails.

`LlmClient_proof`:
- `RateHolds`: `Spec => []RateBound`, for any capacity, rate, polling interval
  and number of calls. That the client sends no faster than the lossless bucket
  of twice the capacity is not inductive; the strengthening `Covered` says how
  far the level of that bucket is above the tokens in hand plus those a refill
  would bring. Each of `Elapse`, `Taken` and `Refused` keeps it, and every action
  of the client is one of them on the bucket's variables, or leaves those alone.
- `PermitsAreExact`: `Spec => [](PermitsExact /\ Waiting)`, for any number of
  calls and permits. What makes the count inductive is the queue of the
  semaphore: its waiters are exactly the attempts that are `queued`, each once
  (`Waiting`), so that a release hands the permit to a call that will count it.
- `NobodyStrays`: `Spec => []NoStrays`, from the same invariant `Sound`, which
  says for each stage of the caller what its task may still be doing.

`AgentTurn_proof`:
- `NumbersApart`: `Spec => []OwnMessagesApart`, for any number of executions and
  tools. Two places advance the counter, writes fail and are cancelled between,
  and so `IsInjective` of what was written is not inductive: `Numbered` says for
  each stage how far the counter is ahead of all identifiers written.
- `CallsEndWithReply`: `Spec => []ToolsSettled`. `Tidy` says that every active
  call is one that has begun and not ended, and that unsettled calls exist only in the
  stage `tools`. Both rest on
  `TurnInv`, the conjunction of `Typed` and, for each execution, the two.
- `PromptsHold`: `Spec => []PromptHasQuestion`, however executions of a session
  overlap, unless the storing or the listing failed. Between its write and its listing an execution depends on what the
  others write: `Prompted` says that its question is then on disk, or that some
  other execution has written under that number, and this survives every step of
  every other execution (`OthersPrompted`).
- `ReportsAreTrue`: `Spec => []TellsWhatHappened`. `Turning` ties counter, turns,
  replies and what has been counted together, stage by stage (three numbers a turn,
  from which the bound of `Ids` in `TypeOK` follows); `Logged` gives the log of
  events at each stage; `Paired` gives the events published for a tool call from
  the state the call is in.
- The actions are first reduced to what they do to the execution's own record
  (`StepOf`, proved once in `RunStepForm`); the lemmas on `Turning` and `Logged` use
  nothing else. `Telling` is the conjunction of everything.

`SessionStore_proof`, for any coroutines, sessions, messages and parts, through
crashes and failing writes, under identifiers old and new:
- `FilesAreSound`: `Spec => []FilesSound`. A file is read and written in several
  stretches, so `Typed` and `Placed` say where in its list of files each call is,
  `LockHeld` which calls hold the manager's lock, `Owned` that a UUID in creation is
  claimed by its creator alone, and `Opened` and `Explained` what an open descriptor and an unreadable
  file say about the past. That two calls of the manager never have one message
  open (`WritersAlone`) holds although they are given identifiers that are in use:
  `add_message` and `create_messages` write under the lock, and the one that takes
  none, `create_message`, writes under a UUID that nobody else has been given.
- `NoMessageMissed`: `Spec => []ListingComplete`. `DueWritten` adds that what a
  listing still owes is on disk and open for writing by nobody: a message that is
  removed or rewritten is struck off what listings owe.
- `CommitsPersist`: `Spec => []CommitPersists`, whatever is registered. A commit may
  fail half way and be tried again with more registered; `Committing` says that
  what precedes the commit's position in its list has been written, and that the
  list has all messages before the first part.
- The proof is in layers. Lemmas on the file operations and on the moves of a call
  stand alone; `Served` is the little that an action of one call tells the others
  (its own moves, and its effect on files, listings and the transaction), is proved
  once per action, and one lemma per part of the invariant uses nothing else.

`Delegation_proof`, for any tree of agents, limits and answers, however often the
spawn callback raises and wherever the caller is cancelled:
- `BoundariesKept` and `AgentsCounted`: `Spec => []BoundariesHold` and
  `Spec => []Accounted`. Neither is inductive: the depth is a counter that several
  places move, and the numbers of agents and answers are sums over an agents' tree,
  a stack and a pool. The invariant `Sound` ties each to what it counts.
- `DepthKept`: the depth is the number of activations on the stack that are behind
  their own agent, which is all but the last one at most (`Nested`: an activation is
  one level below the one that made it). It explains why the early return must not
  count a level out and the late one must (`MoveSound`, `PopSound`).
- `AgentsKept`: children that wait in the pool count as spawned already, so
  that those which were admitted together stay within the budget when they begin one
  by one. Depth first, a budget asked for before each child allows one agent more
  for its second execution and no further one, since the next is asked for.
- `InAndOut` and `AnswersKept`: in each stage, who is active is who runs, was
  refused, or was cancelled in the spawn callback, and completed agents are those whose answer is in the context, still in
  `results_map`, or was cut off. `Moves` and `PoolCounts` do the counting over the
  pool: an agent that goes from one place to another is one fewer here and one
  more there.
- `PoolKept`: who uses the pool, and that a batch left behind is an abandoned one, of
  a delegation that was cancelled: its agents are still counted, in and out.
- `CollectedSteps` and `CollectedCounts` are about the recursive function that goes
  through `results_map`: it exists and counts each answer once, shown by taking the
  least number of answers at which it does not.
- The proof has one lemma per action (`SelfSound` to `CancelledSound`), joined in
  `NextSteps`; those of the depth-first mode share `DfsSound`, those of the pool
  `PoolSound`, and those of the policy's loop `PolicySound`.

and about `Bulkhead`:
- `BulkheadTypeCorrect`: with the strengthening `Sane` (a resource with a
  holder has a semaphore).
- `BulkheadHolds`: `BulkheadSpec => []NeverOverCapacity` for any limits, overrides and
  number of callers, by induction over `permits + Cardinality(Holders) <=
  capacity`. `AcquiredHolders` and `DoneHolders` say how the set of holders
  changes by one.
- `SinglePermit`: `BulkheadSpec => []SinglePermitReturns`, for any limits and overrides:
  a semaphore created with one permit never loses it. The strengthening is
  `SingleHolderManaged`: the holder of a single permit is in the managed set, so
  its release is accepted, and it is alone, so nobody else is forgotten with it.
  For two permits it fails: the first release refuses the second.

`MultiAgent_proof`, for any agents, graph, modes, conditions and changes of
conditions while the workflow runs:
- `WorkflowSound`: `Spec => []AgentsAccounted`: dependencies first, nobody twice,
  everybody reported, skipped for a reason, nobody left running. That an agent runs
  behind its dependencies is not inductive, since the order is extended only when a
  wave has been gathered: `WaveIsDue` says that whoever is in the wave has not run
  and that its dependencies have, `WavesOnly` that there are tasks in a wave only,
  and `TableIsOrder` that the table of results and the order of execution tell of
  the same agents, so that `DependenciesFirst` survives the wave being appended.
  `Listed`, `Joined` and `Bounded` are about sequences without repetition.
- `CyclesAreRejected`: `Spec => []CyclesRejected`, the search of `_validate_dag` for
  any graph. `has_cycle` calls itself on what it returned, so that the function
  itself has to be shown to exist (`SearchExists`): every call has a smaller `Rank`,
  the names not visited times the width of the graph plus the dependencies still
  to look at, and the function is put together from approximations of bounded rank.
  What a call returns is an induction over the same rank (`CallReturnsRight`).
  `Begins` says that every name on the stack below the call's own depends on one
  on the stack, and `Layered` that what has been left depends only on what has been
  left, in no circle. So a name met on the stack closes a circle, and a search
  that ends without one (`Returns`) has left every name it came to.
  `SearchIsRight` carries it through the loop.
- In an accepted graph nobody is stuck (`NobodyStuck`): if no wave is due and some
  agents have not run, one of them depends on none of the others (`OneToBlame`),
  so its own condition or a name that is no agent kept it.

and about `Orchestrator`:
- `OrchestratorTypeCorrect`: `TasksTypeOK` is inductive.
- `ResultsTellStatus` and `FinishedStaysFinished`: results never contradict
  statuses, and a completed or failed task keeps its status. Both assume
  `OncePerTask`: every task is delegated once, as the code's own callers do. The
  strengthening `Unfinished` says that a task whose agent has not ended has no
  result and is at most cancelled, so that what `Execute` and `Finish` overwrite
  is never a final status.

Every safety invariant, action property and refinement that a passing run checks
is a theorem. Only model-checked is liveness under fairness (`AdminComesBack`,
`EveryTaskFinishes`, `AnsweredOrAbandoned`, `EveryCallReturns`, `RunJobsReturns`,
both `CallsReturn`, `DelegationEnds`, `WorkflowEnds`): it and `ENABLED` are out of
the prover's reach.

So are induction over data by the library's theorems and RECURSIVE operators; no module here declares one
(`has_cycle`, `Collected` and `Without` are recursive functions). Where a proof needs
an induction over numbers it takes a least one (`SmallestNat`), also where the
recursion is over data that a number measures.

## Not modelled

Statistics and logging everywhere. `FSMBuilder`'s setters and the budgets of
`WorkflowFSMBuilder`. `EventBus.subscribe` and its unsubscribe closures. Two
coroutines in `stop` and `resize` at once. `ToolResultCache` with `max_size` 0,
where making room loops for ever. A result stored after its key was
invalidated: `invalidate` promises nothing about executions in flight.
The order of the calls that `import_data` makes, `Storage.update`, and cancellation of calls of the session manager. `_aggregate_results` of a
workflow, a pure function: its strategies VOTE and PRIORITY fall through to the
default.

Whole parts of the repository, with the reasons in `PROJECT.json`. Provider bus
and the retry and circuit-breaker pipeline have no caller: what real requests go
through is in `LlmClient`. The mediator's loop has the shape of the FSM's
observer loop. The larger part of the 44,000 lines is file, shell, web and git
tools, command line and terminal interface, provider formats, prompts, settings
and the evaluation harness: code that changes no state another coroutine sees.
That is why the modelled share of the lines is small, while what the agents
share (tasks, pools, caches, limits, files, events) is modelled.

## Plan

1. `Fsm` over `StateMachine`, `WorkerPool`, `Bulkhead`, `ToolCache`,
   `Orchestrator`, with their runs; proofs for `Fsm`, `Bulkhead`, the single
   flight of `ToolCache` and the statuses of `Orchestrator`. *(done)*
2. `ExecutionQueue` over `WorkerPool`, implementing `Batch`; `Delegation` over
   `Batch`. *(done)*
3. `TokenBucket` and `LlmClient`, with the proof of the rate. *(done)*
4. `SessionStore` with failing writes and crashes. *(done)*
5. `AgentTurn` with its two proofs; `MultiAgent`. *(done)*
6. Proofs: `WorkerPool` and `ExecutionQueue` with the refinement of `Batch`,
   `LlmClient` (permits and strays), the rest of `Fsm`, `SessionStore`. *(done)*
7. Proofs: `AgentTurn` (`PromptHasQuestion`, `TellsWhatHappened`), `ToolCache`
   (`ExecutedIsCached`). *(done)*
8. Proofs: the order of execution and the reports of `MultiAgent`; the boundaries
   and counts of `Delegation`. *(done)*
9. Proofs: the search for circular dependencies; nobody stuck in an accepted graph;
   what `run_jobs` owes to being a `Batch`. *(done)*
10. Should they find callers: the provider bus and its buckets, the reliability
    pipeline, the workspace allocator; the mediator with handlers that unsubscribe
    while it publishes.
