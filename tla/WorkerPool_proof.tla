-------------------------- MODULE WorkerPool_proof --------------------------
(***************************************************************************)
(* Whatever producers, workers and the administrator do: a task is in one  *)
(* place, is processed at most once and counted exactly while it is; and a *)
(* pool that is only resized while it runs keeps to its size and has no    *)
(* worker left when its stop has returned.  On the same invariants stands  *)
(* run_jobs, which shares the pool's queue and workers: the second half    *)
(* shows that it is the batch of module Batch and that no job is lost.     *)
(***************************************************************************)
EXTENDS ExecutionQueue, FiniteSetTheorems, TLAPS

USE PoolAssumption

-----------------------------------------------------------------------------
(* Sequences. *)

\* What appending leaves in place.
LEMMA Appended ==
  ASSUME NEW S, NEW q \in Seq(S), NEW x \in S
  PROVE  /\ Append(q, x) \in Seq(S)
         /\ DOMAIN Append(q, x) = DOMAIN q \cup {Len(q) + 1}
         /\ Len(q) + 1 \notin DOMAIN q
         /\ \A i \in DOMAIN q : Append(q, x)[i] = q[i]
         /\ Append(q, x)[Len(q) + 1] = x
OBVIOUS

\* What a concatenation holds.
LEMMA Concatenated ==
  ASSUME NEW S, NEW p \in Seq(S), NEW q \in Seq(S)
  PROVE  /\ p \o q \in Seq(S) /\ Len(p \o q) = Len(p) + Len(q)
         /\ \A i \in 1..Len(p) : (p \o q)[i] = p[i]
         /\ \A i \in 1..Len(q) : (p \o q)[Len(p) + i] = q[i]
OBVIOUS

\* A list with n new numbers at its end.
LEMMA Extended ==
  ASSUME NEW S, NEW p \in Seq(S), NEW n \in Nat, NEW b \in Nat, \A i \in 1..n : b + i \in S
  PROVE  LET q == p \o [i \in 1..n |-> b + i]
         IN  /\ q \in Seq(S) /\ Len(q) = Len(p) + n
             /\ \A i \in 1..Len(p) : q[i] = p[i]
             /\ \A i \in 1..n : q[Len(p) + i] = b + i
<1> DEFINE new == [i \in 1..n |-> b + i]
<1>1. new \in [1..n -> S]
  OBVIOUS
<1>2. new \in Seq(S)
  BY <1>1
<1>3. DOMAIN new = 1..n /\ \A i \in 1..n : new[i] = b + i
  OBVIOUS
<1>. HIDE DEF new
<1>4. Len(new) = n
  BY <1>2, <1>3
<1>. QED BY <1>2, <1>3, <1>4, Concatenated DEF new

\* What taking the head leaves.
LEMMA Behead ==
  ASSUME NEW S, NEW q \in Seq(S), q # << >>
  PROVE  /\ Tail(q) \in Seq(S) /\ Head(q) \in S
         /\ 1 \in DOMAIN q /\ Head(q) = q[1]
         /\ \A i \in DOMAIN Tail(q) : i + 1 \in DOMAIN q /\ i + 1 # 1 /\ Tail(q)[i] = q[i + 1]
OBVIOUS

\* What is not at the head is still there when the head is gone.
LEMMA LeftBehind ==
  ASSUME NEW S, NEW q \in Seq(S), q # << >>, NEW x \in S, x # Head(q),
         NEW i \in DOMAIN q, q[i] = x
  PROVE  \E j \in DOMAIN Tail(q) : Tail(q)[j] = x
<1>1. i - 1 \in DOMAIN Tail(q) /\ Tail(q)[i - 1] = q[i]
  OBVIOUS
<1>. QED BY <1>1

-----------------------------------------------------------------------------
(* A task is in one place. *)

\* A worker has a task exactly while it is between taking and finishing one.
TaskWhileHolding ==
  \A w \in Workers : worker[w].task # NoTask <=> worker[w].phase \in {"handed", "busy"}

OneWorkerEach ==
  \A v, w \in Workers : worker[v].task = worker[w].task /\ worker[v].task # NoTask => v = w

QueuedOnce == \A i, j \in DOMAIN queue : queue[i] = queue[j] => i = j

QueuedWaits ==
  \A i \in DOMAIN queue : /\ status[queue[i]] = "PENDING" /\ queue[i] \notin putting
                          /\ \A w \in Workers : worker[w].task # queue[i]

PutWaits == \A t \in putting : status[t] = "PENDING" /\ \A w \in Workers : worker[w].task # t

HeldStatus ==
  \A w \in Workers : worker[w].task # NoTask =>
    status[worker[w].task] = IF worker[w].phase = "busy" THEN "RUNNING" ELSE "PENDING"

OnePlace ==
  /\ TaskWhileHolding /\ OneWorkerEach /\ QueuedOnce
  /\ QueuedWaits /\ PutWaits /\ HeldStatus

\* Types but for the count, which needs to be exact to be typed.
Typed ==
  /\ queue \in Seq(Tasks)
  /\ status \in [Tasks -> Statuses]
  /\ putting \subseteq Tasks
  /\ worker \in [Workers -> Worker]
  /\ pool \in Seq(Workers)
  /\ running \in BOOLEAN
  /\ size \in Nat
  /\ admin \in [op : {"idle", "stop", "resize"}, to : Sizes \cup {0},
                todo : SUBSET Workers, awaited : SUBSET Workers]
  /\ stops \in 0..MaxStops
  /\ waiter \in {"idle", "waiting", "Ok", "TIMEOUT"}
  /\ started \in [Tasks -> Nat]

\* Workers are created in order and never forgotten.
InOrder == Born \in 0..MaxWorkers /\ \A w \in Workers : worker[w].phase # "unborn" <=> w <= Born

Tracked == Typed /\ OnePlace /\ InOrder /\ AtMostOnce

-----------------------------------------------------------------------------
\* A new task is queued, or waits to be, and is nowhere else.
LEMMA enqueueTracked ==
  ASSUME Tracked, NEW t \in Tasks, enqueue(t)
  PROVE  Typed' /\ OnePlace'
<1>. USE DEF Tracked
<1>0. queue \in Seq(Tasks)
  BY DEF Typed
<1>1. Typed'
  <2>1. queue' \in Seq(Tasks) /\ putting' \subseteq Tasks
    <3>1. CASE UNCHANGED queue /\ putting' = putting \cup {t}
      BY <1>0, <3>1 DEF Typed
    <3>2. CASE queue' = Append(queue, t) /\ UNCHANGED putting
      BY <1>0, <3>2, Appended DEF Typed
    <3>. QED BY <3>1, <3>2 DEF enqueue
  <2>. QED BY <2>1 DEF enqueue, Typed, Statuses, poolVars
<1>2. TaskWhileHolding' /\ OneWorkerEach' /\ HeldStatus'
  BY DEF enqueue, OnePlace, TaskWhileHolding, OneWorkerEach, HeldStatus, Typed
<1>3. /\ \A i \in DOMAIN queue : queue[i] # t
      /\ \A w \in Workers : worker[w].task # t
      /\ t \notin putting
  BY DEF enqueue, OnePlace, QueuedWaits, PutWaits, HeldStatus, Typed
<1>4. PutWaits'
  BY <1>3 DEF enqueue, OnePlace, PutWaits, Typed
<1>5. QueuedOnce' /\ QueuedWaits'
  <2>1. CASE UNCHANGED queue
    <3>1. QueuedOnce'
      BY <2>1 DEF OnePlace, QueuedOnce
    <3>2. QueuedWaits'
      BY <1>0, <1>3, <2>1 DEF enqueue, OnePlace, QueuedWaits, Typed
    <3>. QED BY <3>1, <3>2
  <2>2. CASE queue' = Append(queue, t) /\ UNCHANGED putting
    <3>1. QueuedOnce'
      BY <1>0, <1>3, <2>2, Appended DEF OnePlace, QueuedOnce
    <3>2. QueuedWaits'
      BY <1>0, <1>3, <2>2, Appended DEF enqueue, OnePlace, QueuedWaits, Typed
    <3>. QED BY <3>1, <3>2
  <2>. QED BY <2>1, <2>2 DEF enqueue
<1>. QED BY <1>1, <1>2, <1>4, <1>5 DEF OnePlace

\* A put that resumes leaves the waiting and enters the queue.
LEMMA PutResumesTracked ==
  ASSUME Tracked, NEW t \in Tasks, PutResumes(t)
  PROVE  Typed' /\ OnePlace'
<1>. USE DEF Tracked
<1>0. queue \in Seq(Tasks)
  BY DEF Typed
<1>1. Typed'
  <2>1. queue' \in Seq(Tasks)
    BY <1>0, Appended DEF PutResumes
  <2>. QED BY <2>1 DEF PutResumes, Typed, poolVars
<1>2. TaskWhileHolding' /\ OneWorkerEach' /\ HeldStatus' /\ PutWaits'
  BY DEF PutResumes, OnePlace, TaskWhileHolding, OneWorkerEach, HeldStatus, PutWaits
<1>3. \A i \in DOMAIN queue : queue[i] # t
  BY DEF PutResumes, OnePlace, QueuedWaits
<1>4. QueuedOnce'
  BY <1>0, <1>3, Appended DEF PutResumes, OnePlace, QueuedOnce
<1>5. QueuedWaits'
  BY <1>0, Appended DEF PutResumes, OnePlace, QueuedWaits, PutWaits
<1>. QED BY <1>1, <1>2, <1>4, <1>5 DEF OnePlace

\* A worker that starts on a task that only it has.
LEMMA ProcessTracked ==
  ASSUME Tracked, NEW w \in Workers, NEW t \in Tasks, Process(w, t),
         worker[w].phase \in {"polling", "handed"},
         status[t] = "PENDING", t \notin putting,
         \A v \in Workers : worker[v].task = t => v = w,
         queue' \in Seq(Tasks), QueuedOnce',
         \A i \in DOMAIN queue' : queue'[i] # t /\ \E j \in DOMAIN queue : queue'[i] = queue[j],
         UNCHANGED <<putting, poolVars, waiter>>
  PROVE  Typed' /\ OnePlace'
<1>. USE DEF Tracked
<1>1. worker[w] \in Worker
  BY DEF Typed
<1>2. worker' = [worker EXCEPT ![w] = [worker[w] EXCEPT !.phase = "busy", !.task = t,
                                                        !.cancelled = FALSE]]
  BY <1>1 DEF Process, Typed, Worker
<1>3. [worker[w] EXCEPT !.phase = "busy", !.task = t, !.cancelled = FALSE] \in Worker
  BY <1>1 DEF Worker, Phases
<1>4. worker' \in [Workers -> Worker] /\ worker'[w].phase = "busy" /\ worker'[w].task = t
  BY <1>1, <1>2, <1>3 DEF Typed, Worker
<1>5. \A v \in Workers : v # w => worker'[v] = worker[v]
  BY <1>2 DEF Typed
<1>6. status' \in [Tasks -> Statuses] /\ started' \in [Tasks -> Nat]
  BY DEF Process, Typed, Statuses
<1>7. status'[t] = "RUNNING" /\ \A s \in Tasks : s # t => status'[s] = status[s]
  BY DEF Process, Typed
<1>8. Typed'
  BY <1>4, <1>6 DEF Typed, poolVars
<1>9. TaskWhileHolding' /\ OneWorkerEach'
  BY <1>4, <1>5 DEF OnePlace, TaskWhileHolding, OneWorkerEach
<1>10. QueuedWaits'
  BY <1>4, <1>5, <1>7 DEF OnePlace, QueuedWaits, Typed
<1>11. PutWaits'
  <2>1. \A s \in putting : s # t /\ s \in Tasks
    BY DEF Typed
  <2>. QED BY <1>4, <1>5, <1>7, <2>1 DEF OnePlace, PutWaits
<1>12. HeldStatus'
  <2>. SUFFICES ASSUME NEW v \in Workers, worker'[v].task # NoTask
                PROVE  status'[worker'[v].task] =
                         IF worker'[v].phase = "busy" THEN "RUNNING" ELSE "PENDING"
    BY DEF HeldStatus
  <2>1. CASE v = w
    BY <1>4, <1>7, <2>1
  <2>2. CASE v # w
    <3>1. worker'[v] = worker[v] /\ worker[v].task # t /\ worker[v].task \in Tasks
      BY <1>5, <2>2 DEF Typed, Worker
    <3>. QED BY <1>7, <3>1 DEF OnePlace, HeldStatus
  <2>. QED BY <2>1, <2>2
<1>. QED BY <1>8, <1>9, <1>10, <1>11, <1>12 DEF OnePlace

\* The head of the queue is nowhere else, and what is left behind it neither.
LEMMA HeadApart ==
  ASSUME Tracked, queue # << >>
  PROVE  /\ Head(queue) \in Tasks /\ Tail(queue) \in Seq(Tasks)
         /\ status[Head(queue)] = "PENDING" /\ Head(queue) \notin putting
         /\ \A v \in Workers : worker[v].task # Head(queue)
         /\ \A i \in DOMAIN Tail(queue) :
              Tail(queue)[i] # Head(queue) /\ \E j \in DOMAIN queue : Tail(queue)[i] = queue[j]
         /\ \A i, j \in DOMAIN Tail(queue) : Tail(queue)[i] = Tail(queue)[j] => i = j
<1>1. queue \in Seq(Tasks)
  BY DEF Tracked, Typed
<1>2. /\ Tail(queue) \in Seq(Tasks) /\ Head(queue) \in Tasks
      /\ 1 \in DOMAIN queue /\ Head(queue) = queue[1]
      /\ \A i \in DOMAIN Tail(queue) :
           i + 1 \in DOMAIN queue /\ i + 1 # 1 /\ Tail(queue)[i] = queue[i + 1]
  BY <1>1, Behead
<1>3. /\ status[Head(queue)] = "PENDING" /\ Head(queue) \notin putting
      /\ \A v \in Workers : worker[v].task # Head(queue)
  BY <1>2 DEF Tracked, OnePlace, QueuedWaits
<1>4. \A i \in DOMAIN Tail(queue) : Tail(queue)[i] # Head(queue)
  BY <1>2 DEF Tracked, OnePlace, QueuedOnce
<1>5. \A i, j \in DOMAIN Tail(queue) : i \in Int /\ j \in Int
  BY <1>2
<1>6. \A i, j \in DOMAIN Tail(queue) : Tail(queue)[i] = Tail(queue)[j] => i = j
  BY <1>2, <1>5 DEF Tracked, OnePlace, QueuedOnce
<1>. QED BY <1>2, <1>3, <1>4, <1>6

\* The task at the head of the queue passes to one idle worker.
LEMMA DequeueTracked ==
  ASSUME Tracked, NEW w \in Workers, Dequeue(w)
  PROVE  Typed' /\ OnePlace'
<1> DEFINE t == Head(queue)
<1>. USE DEF Tracked
<1>1. /\ t \in Tasks /\ status[t] = "PENDING" /\ t \notin putting
      /\ \A v \in Workers : worker[v].task # t
      /\ queue' = Tail(queue) /\ queue' \in Seq(Tasks) /\ QueuedOnce'
      /\ \A i \in DOMAIN queue' : queue'[i] # t /\ \E j \in DOMAIN queue : queue'[i] = queue[j]
  BY HeadApart DEF Dequeue, QueuedOnce
<1>2. worker[w].phase = "polling" /\ worker[w] \in Worker
      /\ UNCHANGED <<putting, poolVars, waiter>>
  BY DEF Dequeue, Typed
<1>3. CASE Process(w, t)
  <2>. HIDE DEF t
  <2>. QED BY <1>1, <1>2, <1>3, ProcessTracked
<1>4. CASE /\ worker' = [worker EXCEPT ![w].phase = "handed", ![w].task = t]
           /\ UNCHANGED <<status, inProgress, started>>
  <2>. HIDE DEF t
  <2>1. worker' = [worker EXCEPT ![w] = [worker[w] EXCEPT !.phase = "handed", !.task = t]]
    BY <1>2, <1>4 DEF Typed, Worker
  <2>2. [worker[w] EXCEPT !.phase = "handed", !.task = t] \in Worker
    BY <1>1, <1>2 DEF Worker, Phases
  <2>3. worker' \in [Workers -> Worker] /\ worker'[w].phase = "handed" /\ worker'[w].task = t
    BY <1>2, <2>1, <2>2 DEF Typed, Worker
  <2>4. \A v \in Workers : v # w => worker'[v] = worker[v]
    BY <2>1 DEF Typed
  <2>5. Typed'
    BY <1>1, <1>2, <1>4, <2>3 DEF Typed, poolVars
  <2>6. TaskWhileHolding' /\ OneWorkerEach'
    BY <1>1, <2>3, <2>4 DEF OnePlace, TaskWhileHolding, OneWorkerEach
  <2>7. QueuedWaits' /\ PutWaits' /\ HeldStatus'
    BY <1>1, <1>2, <1>4, <2>3, <2>4 DEF OnePlace, QueuedWaits, PutWaits, HeldStatus
  <2>. QED BY <1>1, <2>5, <2>6, <2>7 DEF OnePlace
<1>. QED BY <1>3, <1>4 DEF Dequeue

\* A worker that waited for a task goes on with the head of the queue.
LEMMA ResumeTracked ==
  ASSUME Tracked, NEW w \in Workers, Resume(w)
  PROVE  Typed' /\ OnePlace'
<1> DEFINE t == worker[w].task
<1>. USE DEF Tracked
<1>1. worker[w].phase = "handed" /\ worker[w] \in Worker /\ Process(w, t)
      /\ UNCHANGED <<queue, putting, poolVars, waiter>>
  BY DEF Resume, Typed
<1>2. t # NoTask /\ t \in Tasks
  BY <1>1 DEF OnePlace, TaskWhileHolding, Worker
<1>3. /\ status[t] = "PENDING" /\ t \notin putting
      /\ \A v \in Workers : worker[v].task = t => v = w
  BY <1>1, <1>2 DEF OnePlace, HeldStatus, PutWaits, OneWorkerEach
<1>4. queue' \in Seq(Tasks) /\ QueuedOnce'
  BY <1>1 DEF Typed, OnePlace, QueuedOnce
<1>5. \A i \in DOMAIN queue' : queue'[i] # t /\ \E j \in DOMAIN queue : queue'[i] = queue[j]
  BY <1>1 DEF OnePlace, QueuedWaits
<1>. HIDE DEF t
<1>. QED BY <1>1, <1>2, <1>3, <1>4, <1>5, ProcessTracked

\* A worker that is done with its task holds none.
LEMMA FinishTracked ==
  ASSUME Tracked, NEW w \in Workers, Finish(w)
  PROVE  Typed' /\ OnePlace'
<1> DEFINE t == worker[w].task
           next == IF worker[w].running THEN "polling" ELSE "dead"
<1>. USE DEF Tracked
<1>1. worker[w] \in Worker /\ worker[w].phase = "busy" /\ t \in Tasks /\ t # NoTask
  BY DEF Finish, Typed, OnePlace, TaskWhileHolding, Worker
<1>2. PICK s \in {"COMPLETED", "FAILED"} : status' = [status EXCEPT ![t] = s]
  BY DEF Finish
<1>3. worker' = [worker EXCEPT ![w] = [worker[w] EXCEPT !.task = NoTask, !.phase = next]]
  BY <1>1 DEF Finish, Typed, Worker
<1>4. [worker[w] EXCEPT !.task = NoTask, !.phase = next] \in Worker
  BY <1>1 DEF Worker, Phases
<1>5. /\ worker' \in [Workers -> Worker] /\ worker'[w].task = NoTask
      /\ worker'[w].phase \in {"polling", "dead"}
  BY <1>1, <1>3, <1>4 DEF Typed, Worker
<1>6. \A v \in Workers : v # w => worker'[v] = worker[v]
  BY <1>3 DEF Typed
<1>7. status' \in [Tasks -> Statuses] /\ \A u \in Tasks : u # t => status'[u] = status[u]
  BY <1>2 DEF Typed, Statuses
<1>8. UNCHANGED <<queue, putting, poolVars, waiter, started>>
  BY DEF Finish
<1>9. status[t] = "RUNNING"
  BY <1>1 DEF OnePlace, HeldStatus
<1>. HIDE DEF t
<1>10. Typed'
  BY <1>5, <1>7, <1>8 DEF Typed, poolVars
<1>11. TaskWhileHolding' /\ OneWorkerEach' /\ QueuedOnce'
  BY <1>5, <1>6, <1>8 DEF OnePlace, TaskWhileHolding, OneWorkerEach, QueuedOnce
<1>12. QueuedWaits'
  <2>1. \A i \in DOMAIN queue : queue[i] # t /\ queue[i] \in Tasks
    BY <1>9 DEF Typed, OnePlace, QueuedWaits
  <2>. QED BY <1>5, <1>6, <1>7, <1>8, <2>1 DEF OnePlace, QueuedWaits
<1>13. PutWaits'
  <2>1. \A u \in putting : u # t /\ u \in Tasks
    BY <1>9 DEF Typed, OnePlace, PutWaits
  <2>. QED BY <1>5, <1>6, <1>7, <1>8, <2>1 DEF OnePlace, PutWaits
<1>14. HeldStatus'
  <2>1. \A v \in Workers : worker'[v].task # NoTask =>
          /\ v # w /\ worker'[v] = worker[v]
          /\ worker[v].task # t /\ worker[v].task \in Tasks
    BY <1>1, <1>5, <1>6 DEF OnePlace, OneWorkerEach, Typed, Worker, t
  <2>. QED BY <1>7, <2>1 DEF OnePlace, HeldStatus
<1>. QED BY <1>10, <1>11, <1>12, <1>13, <1>14 DEF OnePlace

\* Where tasks stay where they are, or only leave workers that let go of them,
\* nothing is in two places.
LEMMA KeptOrDropped ==
  ASSUME Typed, OnePlace, UNCHANGED <<queue, status, putting>>,
         \A w \in Workers :
           \/ worker'[w].task = worker[w].task /\ worker'[w].phase = worker[w].phase
           \/ worker'[w].task = NoTask /\ worker'[w].phase \notin {"handed", "busy"}
  PROVE  OnePlace'
<1>1. TaskWhileHolding' /\ OneWorkerEach'
  BY DEF OnePlace, TaskWhileHolding, OneWorkerEach
<1>2. QueuedOnce'
  BY DEF OnePlace, QueuedOnce
<1>3. QueuedWaits'
  <2>1. \A i \in DOMAIN queue : queue[i] # NoTask
    BY DEF Typed
  <2>. QED BY <2>1 DEF OnePlace, QueuedWaits
<1>4. PutWaits'
  BY DEF OnePlace, PutWaits, Typed
<1>5. HeldStatus'
  BY DEF OnePlace, HeldStatus
<1>. QED BY <1>1, <1>2, <1>3, <1>4, <1>5 DEF OnePlace

\* A cancelled worker drops what it held; no other does.
LEMMA KilledTracked ==
  ASSUME Tracked, NEW w \in Workers, Killed(w)
  PROVE  Typed' /\ OnePlace'
<1>. USE DEF Tracked
<1>1. worker[w] \in Worker
  BY DEF Typed
<1>2. worker' = [worker EXCEPT ![w] = [worker[w] EXCEPT !.phase = "dead", !.task = NoTask]]
  BY <1>1 DEF Killed, Typed, Worker
<1>3. [worker[w] EXCEPT !.phase = "dead", !.task = NoTask] \in Worker
  BY <1>1 DEF Worker, Phases
<1>4. /\ worker' \in [Workers -> Worker] /\ worker'[w].task = NoTask /\ worker'[w].phase = "dead"
      /\ \A v \in Workers : v # w => worker'[v] = worker[v]
  BY <1>1, <1>2, <1>3 DEF Typed, Worker
<1>5. Typed'
  BY <1>4 DEF Killed, Typed, poolVars
<1>6. OnePlace'
  <2>1. UNCHANGED <<queue, status, putting>>
    BY DEF Killed
  <2>. QED BY <1>4, <2>1, KeptOrDropped
<1>. QED BY <1>5, <1>6

\* So do the workers that are stopped together.
LEMMA StopWorkerTracked ==
  ASSUME Tracked, NEW w \in Workers, StopWorker(w)
  PROVE  Typed' /\ OnePlace'
<1>. USE DEF Tracked
<1>1. worker[w] \in Worker
  BY DEF Typed
<1>2. worker' = [worker EXCEPT ![w] = [worker[w] EXCEPT !.running = FALSE, !.cancelled = TRUE]]
  BY <1>1 DEF StopWorker, Typed, Worker
<1>3. [worker[w] EXCEPT !.running = FALSE, !.cancelled = TRUE] \in Worker
  BY <1>1 DEF Worker
<1>4. /\ worker' \in [Workers -> Worker]
      /\ worker'[w].task = worker[w].task /\ worker'[w].phase = worker[w].phase
      /\ \A v \in Workers : v # w => worker'[v] = worker[v]
  BY <1>1, <1>2, <1>3 DEF Typed, Worker
<1>5. Typed'
  BY <1>4 DEF StopWorker, Typed
<1>6. OnePlace'
  <2>1. UNCHANGED <<queue, status, putting>>
    BY DEF StopWorker
  <2>2. \A v \in Workers : worker'[v].task = worker[v].task /\ worker'[v].phase = worker[v].phase
    BY <1>4
  <2>. QED BY <2>1, <2>2, KeptOrDropped
<1>. QED BY <1>5, <1>6

-----------------------------------------------------------------------------
(* Workers are hired one after the other. *)

\* Workers that were created as a prefix are counted by the last of them.
LEMMA PrefixCount ==
  ASSUME NEW f \in [Workers -> Worker], NEW k \in 0..MaxWorkers,
         \A w \in Workers : f[w].phase # "unborn" <=> w <= k
  PROVE  Cardinality({w \in Workers : f[w].phase # "unborn"}) = k
<1>1. {w \in Workers : f[w].phase # "unborn"} = 1..k
  BY DEF Workers
<1>2. Cardinality(1..k) = k
  BY FS_Interval
<1>. QED BY <1>1, <1>2

\* What hiring n workers leaves: they are new, idle and at the end of the list.
LEMMA HireEffect ==
  ASSUME Tracked, NEW old \in Seq(Workers), NEW n \in Nat, Hire(old, n)
  PROVE  /\ worker' \in [Workers -> Worker] /\ pool' \in Seq(Workers)
         /\ Len(pool') = Len(old) + n
         /\ \A i \in 1..Len(old) : pool'[i] = old[i]
         /\ \A i \in 1..n : pool'[Len(old) + i] = Born + i
         /\ \A w \in Workers :
              IF w \in Born + 1 .. Born + n
              THEN /\ worker[w].phase = "unborn" /\ worker[w].task = NoTask
                   /\ worker'[w].phase = "polling" /\ worker'[w].task = NoTask
                   /\ ~worker'[w].cancelled
              ELSE worker'[w] = worker[w]
         /\ InOrder' /\ Born + n <= MaxWorkers /\ Born \in Nat
<1>. USE DEF Tracked
<1> DEFINE fresh == [phase |-> "polling", task |-> NoTask, running |-> TRUE, cancelled |-> FALSE]
           b == Born
           new == [i \in 1..n |-> b + i]
<1>1. b \in 0..MaxWorkers /\ b + n <= MaxWorkers
  BY DEF InOrder, Hire
<1>2. worker' = [w \in Workers |-> IF w \in b + 1 .. b + n THEN fresh ELSE worker[w]]
      /\ pool' = old \o new
  BY DEF Hire
<1>3. \A w \in Workers : worker[w].phase # "unborn" <=> w <= b
  BY DEF InOrder
<1>. HIDE DEF b
<1>4. fresh \in Worker
  BY DEF Worker, Phases
<1>5. worker' \in [Workers -> Worker]
  BY <1>2, <1>4 DEF Typed
<1>7. /\ pool' \in Seq(Workers) /\ Len(pool') = Len(old) + n
      /\ \A i \in 1..Len(old) : pool'[i] = old[i]
      /\ \A i \in 1..n : pool'[Len(old) + i] = b + i
  <2>1. b \in Nat /\ \A i \in 1..n : b + i \in Workers
    BY <1>1 DEF Workers
  <2>2. pool' = old \o new
    BY <1>2
  <2>. QED BY <2>1, <2>2, Extended
<1>8. \A w \in Workers :
        IF w \in b + 1 .. b + n
        THEN /\ worker[w].phase = "unborn" /\ worker[w].task = NoTask
             /\ worker'[w].phase = "polling" /\ worker'[w].task = NoTask
             /\ ~worker'[w].cancelled
        ELSE worker'[w] = worker[w]
  <2>. SUFFICES ASSUME NEW w \in Workers
                PROVE  IF w \in b + 1 .. b + n
                       THEN /\ worker[w].phase = "unborn" /\ worker[w].task = NoTask
                            /\ worker'[w].phase = "polling" /\ worker'[w].task = NoTask
                            /\ ~worker'[w].cancelled
                       ELSE worker'[w] = worker[w]
    OBVIOUS
  <2>1. worker'[w] = IF w \in b + 1 .. b + n THEN fresh ELSE worker[w]
    BY <1>2
  <2>2. CASE w \in b + 1 .. b + n
    <3>1. worker[w].phase = "unborn"
      BY <1>1, <1>3, <2>2
    <3>2. worker[w].task = NoTask
      BY <3>1 DEF OnePlace, TaskWhileHolding
    <3>. QED BY <2>1, <2>2, <3>1, <3>2
  <2>. QED BY <2>1, <2>2
<1>9. \A w \in Workers : worker'[w].phase # "unborn" <=> w <= b + n
  BY <1>1, <1>3, <1>8 DEF Workers
<1>10. Born' = b + n
  <2>1. b + n \in 0..MaxWorkers
    BY <1>1
  <2>. QED BY <1>5, <1>9, <2>1, PrefixCount DEF Born
<1>11. InOrder'
  BY <1>1, <1>9, <1>10 DEF InOrder
<1>. QED BY <1>1, <1>5, <1>7, <1>8, <1>11 DEF b

\* Hiring takes no task from anybody.
LEMMA HireOnePlace ==
  ASSUME Tracked, NEW old \in Seq(Workers), NEW n \in Nat, Hire(old, n),
         UNCHANGED <<queue, status, putting>>
  PROVE  OnePlace'
<1>1. \A w \in Workers : \/ worker'[w] = worker[w]
                         \/ worker'[w].phase = "polling" /\ worker'[w].task = NoTask
  BY HireEffect
<1>. QED BY <1>1, KeptOrDropped DEF Tracked

\* start hires, and touches no task.
LEMMA startTracked ==
  ASSUME Tracked, start
  PROVE  Typed' /\ OnePlace' /\ InOrder'
<1>1. /\ << >> \in Seq(Workers) /\ size \in Nat /\ Hire(<< >>, size)
      /\ UNCHANGED <<queue, status, putting>>
  BY DEF Tracked, Typed, start
<1>2. worker' \in [Workers -> Worker] /\ pool' \in Seq(Workers) /\ InOrder'
  BY <1>1, HireEffect
<1>3. OnePlace'
  BY <1>1, HireOnePlace
<1>. QED BY <1>2, <1>3 DEF Tracked, Typed, start

\* resize hires or stops the end of the list, and touches no task.
LEMMA resizeTracked ==
  ASSUME Tracked, NEW n \in Sizes, resize(n)
  PROVE  Typed' /\ OnePlace' /\ InOrder'
<1>1. n \in Nat /\ pool \in Seq(Workers) /\ Len(pool) \in Nat
      /\ UNCHANGED <<queue, status, putting>>
  <2>1. pool \in Seq(Workers)
    BY DEF Tracked, Typed
  <2>2. UNCHANGED <<queue, status, putting>>
    BY DEF resize
  <2>. QED BY <2>1, <2>2
<1>2. CASE n > Len(pool) /\ Hire(pool, n - Len(pool)) /\ size' = n /\ UNCHANGED admin
  <2>1. n - Len(pool) \in Nat
    BY <1>1, <1>2
  <2>2. worker' \in [Workers -> Worker] /\ pool' \in Seq(Workers) /\ InOrder'
    BY <1>1, <1>2, <2>1, HireEffect
  <2>3. OnePlace'
    BY <1>1, <1>2, <2>1, HireOnePlace
  <2>. QED BY <1>1, <1>2, <2>2, <2>3 DEF Tracked, Typed, resize
<1>3. CASE /\ n < Len(pool)
           /\ admin' = [op |-> "resize", to |-> n, awaited |-> {},
                        todo |-> {pool[i] : i \in (n + 1)..Len(pool)}]
           /\ pool' = SubSeq(pool, 1, n)
           /\ UNCHANGED <<worker, size>>
  <2>1. pool' \in Seq(Workers)
    BY <1>1, <1>3
  <2>2. {pool[i] : i \in (n + 1)..Len(pool)} \subseteq Workers
    BY <1>1
  <2>3. Typed'
    BY <1>1, <1>3, <2>1, <2>2 DEF Tracked, Typed, resize
  <2>4. OnePlace' /\ InOrder'
    BY <1>1, <1>3, KeptOrDropped DEF Tracked, InOrder, Born
  <2>. QED BY <2>3, <2>4
<1>4. CASE n = Len(pool) /\ size' = n /\ UNCHANGED <<admin, pool, worker>>
  <2>1. OnePlace' /\ InOrder'
    BY <1>1, <1>4, KeptOrDropped DEF Tracked, InOrder, Born
  <2>. QED BY <1>1, <1>4, <2>1 DEF Tracked, Typed, resize
<1>. QED BY <1>2, <1>3, <1>4 DEF resize

-----------------------------------------------------------------------------
(* Every step keeps a task in one place. *)

\* The workers that exist, but for those that are hired, are those that did.
LEMMA SameBorn ==
  ASSUME InOrder, Typed, Typed',
         \A w \in Workers : worker'[w].phase = "unborn" <=> worker[w].phase = "unborn"
  PROVE  InOrder'
<1>1. Born \in 0..MaxWorkers /\ \A w \in Workers : worker'[w].phase # "unborn" <=> w <= Born
  BY DEF InOrder
<1> DEFINE b == Born
<1>2. b \in 0..MaxWorkers /\ \A w \in Workers : worker'[w].phase # "unborn" <=> w <= b
  BY <1>1
<1>. HIDE DEF b
<1>3. Born' = b
  BY <1>2, PrefixCount DEF Born, Typed
<1>. QED BY <1>2, <1>3 DEF InOrder

\* Every step of a worker keeps each task in one place.
LEMMA WorkerTracked ==
  ASSUME Tracked, NEW w \in Workers, WorkerStep(w) \/ StopWorker(w)
  PROVE  Typed' /\ OnePlace' /\ InOrder'
<1>1. Typed' /\ OnePlace'
  BY DequeueTracked, ResumeTracked, FinishTracked, KilledTracked, StopWorkerTracked
     DEF WorkerStep
<1>2. worker[w].phase # "unborn" \/ worker'[w].phase = "unborn"
  BY DEF Tracked, Typed, WorkerStep, Dequeue, Resume, Process, Finish, Killed, StopWorker, Worker
<1>3. worker[w].phase = "unborn" => worker'[w].phase = "unborn"
  BY <1>2
<1>4. worker'[w].phase = "unborn" => worker[w].phase = "unborn"
  <2>1. worker[w] \in Worker /\ worker \in [Workers -> Worker]
    BY DEF Tracked, Typed
  <2>2. Dequeue(w) => worker'[w].phase \in {"handed", "busy"}
    BY <2>1 DEF Dequeue, Process, Worker
  <2>3. Resume(w) => worker'[w].phase = "busy"
    BY <2>1 DEF Resume, Process, Worker
  <2>4. Finish(w) => worker'[w].phase \in {"polling", "dead"}
    BY <2>1 DEF Finish, Worker
  <2>5. Killed(w) => worker'[w].phase = "dead"
    BY <2>1 DEF Killed, Worker
  <2>6. StopWorker(w) => worker'[w].phase = worker[w].phase
    BY <2>1 DEF StopWorker, Worker
  <2>. QED BY <2>2, <2>3, <2>4, <2>5, <2>6 DEF WorkerStep
<1>5. \A v \in Workers : v # w => worker'[v] = worker[v]
  BY DEF Tracked, Typed, WorkerStep, Dequeue, Resume, Process, Finish, Killed, StopWorker
<1>6. \A v \in Workers : worker'[v].phase = "unborn" <=> worker[v].phase = "unborn"
  BY <1>3, <1>4, <1>5
<1>. QED BY <1>1, <1>6, SameBorn DEF Tracked

\* Steps that leave the tasks, the workers and the pool as they are.
LEMMA QuietTracked ==
  ASSUME Tracked,
         \/ \E t \in Tasks : PutCancelled(t)
         \/ stop \/ AdminReturns
         \/ wait_for_completion \/ Completes \/ TimesOut
         \/ UNCHANGED vars
  PROVE  Typed' /\ OnePlace' /\ InOrder'
<1>. USE DEF Tracked
<1>1. UNCHANGED <<queue, status, worker, started>> /\ putting' \subseteq putting
  BY DEF PutCancelled, stop, AdminReturns, wait_for_completion, Completes, TimesOut, vars
<1>2. OnePlace'
  <2>1. QueuedWaits'
    BY <1>1 DEF OnePlace, QueuedWaits
  <2>2. PutWaits'
    BY <1>1 DEF OnePlace, PutWaits
  <2>3. TaskWhileHolding' /\ OneWorkerEach' /\ QueuedOnce' /\ HeldStatus'
    BY <1>1 DEF OnePlace, TaskWhileHolding, OneWorkerEach, QueuedOnce, HeldStatus
  <2>. QED BY <2>1, <2>2, <2>3 DEF OnePlace
<1>3. InOrder'
  BY <1>1 DEF InOrder, Born
<1>4. Typed'
  <2>1. ASSUME NEW t \in Tasks, PutCancelled(t) PROVE Typed'
    BY <2>1 DEF Typed, PutCancelled, poolVars
  <2>2. CASE stop
    <3>1. PoolSet \subseteq Workers
      BY DEF PoolSet, Typed
    <3>2. stops' \in 0..MaxStops
      BY <2>2 DEF stop, Typed
    <3>. QED BY <2>2, <3>1, <3>2 DEF Typed, stop
  <2>3. CASE AdminReturns
    <3>. USE DEF AdminReturns
    <3>1. pool' \in Seq(Workers) /\ running' \in BOOLEAN
      <4>1. << >> \in Seq(Workers) /\ pool \in Seq(Workers) /\ running \in BOOLEAN
        BY DEF Typed
      <4>. QED BY <2>3, <4>1
    <3>2. size' \in Nat
      <4>1. size \in Nat /\ admin.to \in Sizes \cup {0}
        BY DEF Typed
      <4>2. admin.to \in Nat
        <5>1. \A m \in Sizes \cup {0} : m \in Nat
          BY DEF PoolAssumption
        <5>. QED BY <4>1, <5>1
      <4>. QED BY <2>3, <4>1, <4>2
    <3>. QED BY <2>3, <3>1, <3>2 DEF Typed, AdminReturns, NoAdmin
  <2>4. CASE wait_for_completion \/ Completes \/ TimesOut
    BY <2>4 DEF Typed, wait_for_completion, Completes, TimesOut, poolVars
  <2>5. CASE UNCHANGED vars
    BY <2>5 DEF Typed, vars, poolVars
  <2>. QED BY <2>1, <2>2, <2>3, <2>4, <2>5
<1>. QED BY <1>2, <1>3, <1>4

\* No task is processed again, and none is finished that was not processed.
LEMMA AtMostOnceKept == ASSUME Tracked, [Next]_vars PROVE AtMostOnce'
<1>. USE DEF Tracked
<1>1. status \in [Tasks -> Statuses] /\ started \in [Tasks -> Nat]
      /\ worker \in [Workers -> Worker]
  BY DEF Typed
<1>2. ASSUME NEW t \in Tasks, enqueue(t) PROVE AtMostOnce'
  BY <1>1, <1>2 DEF enqueue, AtMostOnce
<1>3. ASSUME NEW w \in Workers, NEW t \in Tasks, status[t] = "PENDING", Process(w, t)
      PROVE  AtMostOnce'
  BY <1>1, <1>3 DEF Process, AtMostOnce
<1>4. ASSUME NEW w \in Workers, WorkerStep(w) PROVE AtMostOnce'
  <2>1. CASE Dequeue(w)
    <3>1. CASE UNCHANGED <<status, started>>
      BY <3>1 DEF AtMostOnce
    <3>2. CASE Process(w, Head(queue))
      BY <2>1, <3>2, <1>3, HeadApart DEF Dequeue
    <3>. QED BY <2>1, <3>1, <3>2 DEF Dequeue
  <2>2. CASE Resume(w)
    <3>1. worker[w].task \in Tasks /\ status[worker[w].task] = "PENDING"
      BY <1>1, <2>2 DEF Resume, OnePlace, TaskWhileHolding, HeldStatus, Worker
    <3>. QED BY <1>3, <2>2, <3>1 DEF Resume
  <2>3. CASE Finish(w)
    <3>1. worker[w].task \in Tasks /\ status[worker[w].task] = "RUNNING"
      BY <1>1, <2>3 DEF Finish, OnePlace, TaskWhileHolding, HeldStatus, Worker
    <3>. QED BY <1>1, <2>3, <3>1 DEF Finish, AtMostOnce
  <2>4. CASE Killed(w)
    BY <2>4 DEF Killed, AtMostOnce
  <2>. QED BY <1>4, <2>1, <2>2, <2>3, <2>4 DEF WorkerStep
<1>5. ASSUME \/ \E t \in Tasks : PutResumes(t) \/ PutCancelled(t)
             \/ \E w \in Workers : StopWorker(w)
             \/ start \/ stop \/ (\E n \in Sizes : resize(n)) \/ AdminReturns
             \/ wait_for_completion \/ Completes \/ TimesOut
             \/ UNCHANGED vars
      PROVE  AtMostOnce'
  <2>1. UNCHANGED <<status, started>>
    BY <1>5 DEF PutResumes, PutCancelled, StopWorker, start, stop, resize, AdminReturns,
                wait_for_completion, Completes, TimesOut, vars
  <2>. QED BY <2>1 DEF AtMostOnce
<1>. QED BY <1>2, <1>4, <1>5 DEF Next

-----------------------------------------------------------------------------
(* The count of the processors that run. *)

\* The workers ever created are finitely many.
LEMMA WorkersFinite ==
  ASSUME NEW W \in SUBSET Workers
  PROVE  IsFiniteSet(W) /\ Cardinality(W) \in Nat
<1>1. IsFiniteSet(Workers)
  BY FS_Interval DEF Workers
<1>. QED BY <1>1, FS_Subset, FS_CardinalityType

\* The count of tasks in progress moves with the workers that process.
LEMMA InProgressKept ==
  ASSUME Tracked, InProgressExact, [Next]_vars
  PROVE  InProgressExact'
<1>. USE DEF Tracked, InProgressExact
<1>0. worker \in [Workers -> Worker] /\ IsFiniteSet(Busy) /\ Cardinality(Busy) \in Nat
  BY WorkersFinite DEF Typed, Busy
<1>1. ASSUME NEW w \in Workers, NEW t \in Tasks, worker[w].phase # "busy", Process(w, t)
      PROVE  InProgressExact'
  <2>1. worker'[w].phase = "busy" /\ \A v \in Workers : v # w => worker'[v] = worker[v]
    BY <1>0, <1>1 DEF Process, Worker
  <2>2. Busy' = Busy \cup {w} /\ w \notin Busy
    BY <1>1, <2>1 DEF Busy
  <2>. QED BY <1>0, <1>1, <2>2, FS_AddElement DEF Process
<1>2. ASSUME NEW w \in Workers, worker[w].phase = "busy", worker'[w].phase # "busy",
             inProgress' = inProgress - 1,
             \A v \in Workers : v # w => worker'[v] = worker[v]
      PROVE  InProgressExact'
  <2>1. Busy' = Busy \ {w} /\ w \in Busy
    BY <1>2 DEF Busy
  <2>. QED BY <1>0, <1>2, <2>1, FS_RemoveElement
<1>3. ASSUME UNCHANGED inProgress,
             \A w \in Workers : worker'[w].phase = "busy" <=> worker[w].phase = "busy"
      PROVE  InProgressExact'
  <2>1. Busy' = Busy
    BY <1>3 DEF Busy
  <2>. QED BY <1>3, <2>1
<1>4. ASSUME NEW w \in Workers, WorkerStep(w) \/ StopWorker(w) PROVE InProgressExact'
  <2>1. \A v \in Workers : v # w => worker'[v] = worker[v]
    BY <1>0, <1>4 DEF WorkerStep, Dequeue, Resume, Process, Finish, Killed, StopWorker
  <2>2. CASE Dequeue(w)
    <3>1. worker[w].phase = "polling" /\ Head(queue) \in Tasks
      BY <2>2, HeadApart DEF Dequeue
    <3>2. CASE Process(w, Head(queue))
      BY <1>1, <3>1, <3>2
    <3>3. CASE /\ worker' = [worker EXCEPT ![w].phase = "handed", ![w].task = Head(queue)]
               /\ UNCHANGED inProgress
      <4>1. worker'[w].phase = "handed"
        BY <1>0, <3>3 DEF Worker
      <4>. QED BY <1>3, <2>1, <3>1, <3>3, <4>1
    <3>. QED BY <2>2, <3>2, <3>3 DEF Dequeue
  <2>3. CASE Resume(w)
    <3>1. worker[w].phase = "handed" /\ worker[w].task \in Tasks
      BY <1>0, <2>3 DEF Resume, OnePlace, TaskWhileHolding, Worker
    <3>. QED BY <1>1, <2>3, <3>1 DEF Resume
  <2>4. CASE Finish(w)
    <3>1. worker[w].phase = "busy" /\ worker'[w].phase # "busy" /\ inProgress' = inProgress - 1
      BY <1>0, <2>4 DEF Finish, Worker
    <3>. QED BY <1>2, <2>1, <3>1
  <2>5. CASE Killed(w)
    <3>1. worker'[w].phase = "dead"
      BY <1>0, <2>5 DEF Killed, Worker
    <3>2. CASE worker[w].phase = "busy"
      BY <1>2, <2>1, <2>5, <3>1, <3>2 DEF Killed
    <3>3. CASE worker[w].phase # "busy"
      BY <1>3, <2>1, <2>5, <3>1, <3>3 DEF Killed
    <3>. QED BY <3>2, <3>3
  <2>6. CASE StopWorker(w)
    <3>1. worker'[w].phase = worker[w].phase /\ UNCHANGED inProgress
      BY <1>0, <2>6 DEF StopWorker, Worker
    <3>. QED BY <1>3, <2>1, <3>1
  <2>. QED BY <1>4, <2>2, <2>3, <2>4, <2>5, <2>6 DEF WorkerStep
<1>5. ASSUME NEW old \in Seq(Workers), NEW n \in Nat, Hire(old, n), UNCHANGED inProgress
      PROVE  InProgressExact'
  <2>1. \A w \in Workers : \/ worker'[w] = worker[w]
                           \/ worker[w].phase = "unborn" /\ worker'[w].phase = "polling"
    BY <1>5, HireEffect
  <2>. QED BY <1>3, <1>5, <2>1
<1>6. CASE start
  <2>1. << >> \in Seq(Workers) /\ size \in Nat
    BY DEF Typed
  <2>. QED BY <1>5, <1>6, <2>1 DEF start
<1>7. ASSUME NEW n \in Sizes, resize(n) PROVE InProgressExact'
  <2>1. pool \in Seq(Workers) /\ Len(pool) \in Nat /\ n \in Nat
    BY DEF Typed, PoolAssumption
  <2>2. CASE n > Len(pool) /\ Hire(pool, n - Len(pool))
    BY <1>5, <1>7, <2>1, <2>2 DEF resize
  <2>3. CASE UNCHANGED worker
    BY <1>3, <1>7, <2>3 DEF resize
  <2>. QED BY <1>7, <2>2, <2>3 DEF resize
<1>8. ASSUME \/ \E t \in Tasks : enqueue(t) \/ PutResumes(t) \/ PutCancelled(t)
             \/ stop \/ AdminReturns
             \/ wait_for_completion \/ Completes \/ TimesOut
             \/ UNCHANGED vars
      PROVE  InProgressExact'
  <2>1. UNCHANGED <<worker, inProgress>>
    BY <1>8 DEF enqueue, PutResumes, PutCancelled, stop, AdminReturns,
                wait_for_completion, Completes, TimesOut, vars
  <2>. QED BY <1>3, <2>1
<1>. QED BY <1>4, <1>6, <1>7, <1>8 DEF Next

-----------------------------------------------------------------------------
Exact == Tracked /\ InProgressExact

\* The invariant holds initially ...
LEMMA InitExact == Init => Exact
<1>. SUFFICES ASSUME Init PROVE Exact
  OBVIOUS
<1>. USE DEF Init
<1>1. queue = << >> /\ queue \in Seq(Tasks) /\ DOMAIN queue = {}
  OBVIOUS
<1>2. Typed
  <2>1. pool \in Seq(Workers)
    OBVIOUS
  <2>2. size \in Nat /\ stops \in 0..MaxStops
    BY DEF PoolAssumption
  <2>3. worker \in [Workers -> Worker]
    BY DEF Worker, Phases
  <2>. QED BY <1>1, <2>1, <2>2, <2>3 DEF Typed, Statuses, NoAdmin
<1>3. TaskWhileHolding /\ OneWorkerEach /\ HeldStatus
  BY DEF TaskWhileHolding, OneWorkerEach, HeldStatus
<1>4. QueuedOnce /\ QueuedWaits /\ PutWaits
  BY <1>1 DEF QueuedOnce, QueuedWaits, PutWaits
<1>5. \A w \in Workers : worker[w].phase # "unborn" <=> w <= 0
  BY DEF Workers
<1>6. Born = 0
  <2>1. 0 \in 0..MaxWorkers
    BY DEF PoolAssumption
  <2>. QED BY <1>2, <1>5, <2>1, PrefixCount DEF Born, Typed
<1>7. InOrder
  BY <1>5, <1>6 DEF InOrder, PoolAssumption
<1>8. AtMostOnce
  BY DEF AtMostOnce
<1>9. InProgressExact
  <2>1. Busy = {}
    BY DEF Busy
  <2>. QED BY <2>1, FS_EmptySet DEF InProgressExact
<1>. QED BY <1>2, <1>3, <1>4, <1>7, <1>8, <1>9 DEF Exact, Tracked, OnePlace

\* ... and every step keeps it.
LEMMA NextExact == Exact /\ [Next]_vars => Exact'
<1>. SUFFICES ASSUME Exact, [Next]_vars PROVE Exact'
  OBVIOUS
<1>. USE DEF Exact
<1>1. Typed' /\ OnePlace' /\ InOrder'
  <2>1. ASSUME NEW t \in Tasks, enqueue(t) \/ PutResumes(t) PROVE Typed' /\ OnePlace' /\ InOrder'
    <3>1. InOrder'
      BY <2>1 DEF enqueue, PutResumes, Tracked, InOrder, Born
    <3>. QED BY <2>1, <3>1, enqueueTracked, PutResumesTracked
  <2>2. ASSUME NEW t \in Tasks, PutCancelled(t) PROVE Typed' /\ OnePlace' /\ InOrder'
    BY <2>2, QuietTracked
  <2>3. ASSUME NEW w \in Workers, WorkerStep(w) \/ StopWorker(w)
        PROVE  Typed' /\ OnePlace' /\ InOrder'
    BY <2>3, WorkerTracked
  <2>4. ASSUME NEW n \in Sizes, resize(n) PROVE Typed' /\ OnePlace' /\ InOrder'
    BY <2>4, resizeTracked
  <2>5. CASE start
    BY <2>5, startTracked
  <2>6. CASE \/ stop \/ AdminReturns
             \/ wait_for_completion \/ Completes \/ TimesOut
             \/ UNCHANGED vars
    BY <2>6, QuietTracked
  <2>. QED BY <2>1, <2>2, <2>3, <2>4, <2>5, <2>6 DEF Next
<1>. QED BY <1>1, AtMostOnceKept, InProgressKept DEF Tracked

\* What nobody shares is counted at most once.
LEMMA AtMostOneElement ==
  ASSUME NEW S, \A x, y \in S : x = y
  PROVE  IsFiniteSet(S) /\ Cardinality(S) = IF S = {} THEN 0 ELSE 1
<1>1. CASE S = {}
  BY <1>1, FS_EmptySet
<1>2. CASE S # {}
  <2>1. PICK x \in S : TRUE
    BY <1>2
  <2>2. S = {x}
    BY <2>1
  <2>. QED BY <1>2, <2>2, FS_Singleton
<1>. QED BY <1>1, <1>2

\* In particular no task has two workers.
LEMMA ExactOneHolder == Exact => OneHolder
<1>. SUFFICES ASSUME Exact, NEW t \in Tasks
              PROVE  /\ Cardinality(Holders(t)) + Cardinality(Places(t))
                          + (IF t \in putting THEN 1 ELSE 0) <= 1
                     /\ Places(t) # {} \/ t \in putting => status[t] = "PENDING"
                     /\ \A w \in Holders(t) :
                          status[t] = IF worker[w].phase = "busy" THEN "RUNNING" ELSE "PENDING"
  BY DEF OneHolder
<1>. USE DEF Exact, Tracked
<1>0. t # NoTask
  BY DEF PoolAssumption
<1>1. Cardinality(Holders(t)) = IF Holders(t) = {} THEN 0 ELSE 1
  <2>1. \A v, w \in Holders(t) : v = w
    BY <1>0 DEF Holders, OnePlace, OneWorkerEach
  <2>. QED BY <2>1, AtMostOneElement
<1>2. Cardinality(Places(t)) = IF Places(t) = {} THEN 0 ELSE 1
  <2>1. \A i, j \in Places(t) : i = j
    BY DEF Places, OnePlace, QueuedOnce
  <2>. QED BY <2>1, AtMostOneElement
<1>3. Places(t) # {} => Holders(t) = {} /\ t \notin putting /\ status[t] = "PENDING"
  BY DEF Places, Holders, OnePlace, QueuedWaits
<1>4. t \in putting => Holders(t) = {} /\ status[t] = "PENDING"
  BY DEF Holders, OnePlace, PutWaits
<1>5. \A w \in Holders(t) :
        status[t] = IF worker[w].phase = "busy" THEN "RUNNING" ELSE "PENDING"
  BY <1>0 DEF Holders, OnePlace, HeldStatus
<1>. QED BY <1>1, <1>2, <1>3, <1>4, <1>5

\* Types, OneHolder, AtMostOnce and InProgressExact, whoever resizes the pool and
\* when: enqueue, the workers, start, stop and resize hand every task from one
\* place to the next, process it at most once and count it while they do.
THEOREM EveryTaskOnce == Spec => [](TypeOK /\ OneHolder /\ AtMostOnce /\ InProgressExact)
<1>1. Exact => TypeOK /\ OneHolder /\ AtMostOnce /\ InProgressExact
  <2>1. Exact => Cardinality(Busy) \in Nat
    BY WorkersFinite DEF Busy
  <2>2. Exact => TypeOK
    BY <2>1 DEF Exact, Tracked, InProgressExact, Typed, TypeOK
  <2>. QED BY <2>2, ExactOneHolder DEF Exact, Tracked
<1>. QED BY <1>1, InitExact, NextExact, PTL DEF Spec

-----------------------------------------------------------------------------
(* A pool that is resized only while it runs keeps to its size and stops. *)

\* The workers that still live are the listed ones and those that are being
\* stopped, and there are none when the pool does not run.
Listed ==
  /\ ~running => pool = << >> /\ Live = {} /\ admin = NoAdmin
  /\ Live \subseteq PoolSet \cup admin.todo \cup admin.awaited
  /\ admin.op = "idle" => admin = NoAdmin
  /\ admin.op = "stop" => PoolSet \subseteq admin.todo \cup admin.awaited
  /\ admin.op = "resize" => Len(pool) <= admin.to
  /\ Cardinality(Live) <= size

\* A list has no more members than entries.
LEMMA MembersBounded ==
  ASSUME NEW S, NEW q \in Seq(S)
  PROVE  /\ IsFiniteSet({q[i] : i \in DOMAIN q})
         /\ Cardinality({q[i] : i \in DOMAIN q}) <= Len(q)
<1> DEFINE T == {q[i] : i \in DOMAIN q}
<1>1. q \in Surjection(DOMAIN q, T)
  <2>1. q \in [DOMAIN q -> T]
    OBVIOUS
  <2>. QED BY <2>1 DEF Surjection
<1>2. IsFiniteSet(DOMAIN q) /\ Cardinality(DOMAIN q) = Len(q)
  <2>1. DOMAIN q = 1..Len(q) /\ Len(q) \in Nat
    OBVIOUS
  <2>2. IsFiniteSet(1..Len(q)) /\ Cardinality(1..Len(q)) = Len(q)
    BY <2>1, FS_Interval
  <2>. QED BY <2>1, <2>2
<1>. HIDE DEF T
<1>3. IsFiniteSet(T) /\ Cardinality(T) <= Cardinality(DOMAIN q)
  BY <1>1, <1>2, FS_Surjection
<1>. QED BY <1>2, <1>3 DEF T

\* The administrator is where it was, or has cancelled one more worker.
AdminGoesOn ==
  \/ UNCHANGED admin
  \/ \E w \in admin.todo :
       admin' = [admin EXCEPT !.todo = @ \ {w}, !.awaited = @ \cup {w}]

\* Where nobody comes to life and the list stays, workers may end or be stopped.
LEMMA FewerListed ==
  ASSUME Typed, Listed, Live' \subseteq Live,
         UNCHANGED <<pool, running, size>>, AdminGoesOn
  PROVE  Listed'
<1>. USE DEF Listed
<1>1. PoolSet' = PoolSet
  BY DEF PoolSet
<1>2. Cardinality(Live') <= size
  <2>1. Live \subseteq Workers /\ Live' \subseteq Workers
    BY DEF Live
  <2>2. IsFiniteSet(Live) /\ Cardinality(Live) \in Nat /\ Cardinality(Live') \in Nat
    BY <2>1, WorkersFinite
  <2>3. Cardinality(Live') <= Cardinality(Live)
    BY <2>2, FS_Subset
  <2>4. Cardinality(Live) <= size /\ size \in Nat
    BY DEF Typed
  <2>. HIDE DEF Listed
  <2>. QED BY <2>2, <2>3, <2>4
<1>3. CASE UNCHANGED admin
  BY <1>1, <1>2, <1>3
<1>4. ASSUME NEW w \in admin.todo,
             admin' = [admin EXCEPT !.todo = @ \ {w}, !.awaited = @ \cup {w}]
      PROVE  Listed'
  <2>1. /\ admin'.op = admin.op /\ admin'.to = admin.to
        /\ admin'.todo \cup admin'.awaited = admin.todo \cup admin.awaited
    <3>1. admin \in [op : {"idle", "stop", "resize"}, to : Sizes \cup {0},
                     todo : SUBSET Workers, awaited : SUBSET Workers]
      BY DEF Typed
    <3>2. /\ admin'.op = admin.op /\ admin'.to = admin.to
          /\ admin'.todo = admin.todo \ {w} /\ admin'.awaited = admin.awaited \cup {w}
      BY <1>4, <3>1
    <3>. QED BY <3>2
  <2>2. admin # NoAdmin
    <3>1. NoAdmin.todo = {}
      BY DEF NoAdmin
    <3>. QED BY <3>1
  <2>3. running /\ admin.op # "idle"
    BY <2>2
  <2>4. Live' \subseteq PoolSet' \cup admin'.todo \cup admin'.awaited
    BY <1>1, <2>1
  <2>5. admin'.op = "stop" => PoolSet' \subseteq admin'.todo \cup admin'.awaited
    BY <1>1, <2>1
  <2>. QED BY <1>2, <2>1, <2>3, <2>4, <2>5
<1>. QED BY <1>3, <1>4 DEF AdminGoesOn

\* A worker's own steps hire nobody.
LEMMA WorkerListed ==
  ASSUME Tracked, Listed, NEW w \in Workers, WorkerStep(w) \/ StopWorker(w)
  PROVE  Listed'
<1>1. worker \in [Workers -> Worker]
  BY DEF Tracked, Typed
<1>2. \A v \in Workers : v # w => worker'[v] = worker[v]
  BY <1>1 DEF WorkerStep, Dequeue, Resume, Process, Finish, Killed, StopWorker
<1>3. worker'[w].phase \in {"polling", "handed", "busy"} =>
        worker[w].phase \in {"polling", "handed", "busy"}
  BY <1>1 DEF WorkerStep, Dequeue, Resume, Finish, Killed, StopWorker, Worker
<1>4. Live' \subseteq Live
  BY <1>2, <1>3 DEF Live
<1>5. UNCHANGED <<pool, running, size>>
  BY DEF WorkerStep, Dequeue, Resume, Finish, Killed, StopWorker, poolVars
<1>6. AdminGoesOn
  BY DEF AdminGoesOn, WorkerStep, Dequeue, Resume, Finish, Killed, StopWorker, poolVars
<1>. QED BY <1>4, <1>5, <1>6, FewerListed DEF Tracked

\* Workers that are all on the list are no more than its entries.
LEMMA SmallerThanList ==
  ASSUME pool \in Seq(Workers), Live \subseteq PoolSet
  PROVE  Cardinality(Live) <= Len(pool) /\ Cardinality(Live) \in Nat
<1>1. IsFiniteSet(PoolSet) /\ Cardinality(PoolSet) <= Len(pool)
  BY MembersBounded DEF PoolSet
<1>2. Cardinality(Live) <= Cardinality(PoolSet) /\ Cardinality(Live) \in Nat
  BY <1>1, FS_Subset, FS_CardinalityType
<1>3. Cardinality(PoolSet) \in Nat /\ Len(pool) \in Nat
  BY <1>1, FS_CardinalityType
<1>. QED BY <1>1, <1>2, <1>3

\* n workers more are n at most that live, and they are on the list.
LEMMA HireLive ==
  ASSUME Tracked, NEW old \in Seq(Workers), NEW n \in Nat, Hire(old, n),
         Live \subseteq {old[i] : i \in DOMAIN old}
  PROVE  Live' \subseteq PoolSet' /\ Cardinality(Live') <= Len(old) + n
<1> DEFINE b == Born
           new == b + 1 .. b + n
           O == {old[i] : i \in DOMAIN old}
<1>1. /\ pool' \in Seq(Workers) /\ Len(pool') = Len(old) + n /\ b \in Nat
      /\ \A i \in 1..Len(old) : pool'[i] = old[i]
      /\ \A i \in 1..n : pool'[Len(old) + i] = b + i
      /\ \A w \in Workers : w \notin new => worker'[w] = worker[w]
  BY HireEffect
<1>. HIDE DEF b
<1>2. Live' \subseteq O \cup new
  BY <1>1 DEF Live
<1>3. O \subseteq PoolSet'
  <2>. SUFFICES ASSUME NEW i \in DOMAIN old PROVE old[i] \in PoolSet'
    OBVIOUS
  <2>1. i \in 1 .. Len(old) /\ i \in Nat /\ Len(old) \in Nat
    OBVIOUS
  <2>2. pool'[i] = old[i] /\ i \in DOMAIN pool'
    <3>1. DOMAIN pool' = 1 .. Len(pool')
      BY <1>1
    <3>. QED BY <1>1, <2>1, <3>1
  <2>. QED BY <2>2 DEF PoolSet
<1>4. new \subseteq PoolSet'
  <2>. SUFFICES ASSUME NEW w \in new PROVE w \in PoolSet'
    OBVIOUS
  <2>1. w - b \in 1..n /\ b + (w - b) = w
    BY <1>1
  <2>2. Len(old) + (w - b) \in DOMAIN pool' /\ pool'[Len(old) + (w - b)] = w
    <3>1. Len(old) + (w - b) \in 1..Len(pool') /\ 1..Len(pool') = DOMAIN pool'
      BY <1>1, <2>1
    <3>2. \A i \in 1..n : pool'[Len(old) + i] = b + i
      BY <1>1
    <3>. QED BY <2>1, <3>1, <3>2
  <2>. QED BY <2>2 DEF PoolSet
<1>5. Cardinality(Live') <= Len(old) + n
  <2>1. IsFiniteSet(O) /\ Cardinality(O) <= Len(old) /\ Cardinality(O) \in Nat
    BY MembersBounded, FS_CardinalityType
  <2>2. IsFiniteSet(new) /\ Cardinality(new) = n
    <3>1. b + 1 \in Int /\ b + n \in Int
      BY <1>1
    <3>2. /\ IsFiniteSet(b + 1 .. b + n)
          /\ Cardinality(b + 1 .. b + n) = IF b + 1 > b + n THEN 0 ELSE (b + n) - (b + 1) + 1
      BY <3>1, FS_Interval
    <3>. QED BY <1>1, <3>2
  <2>3. /\ IsFiniteSet(O \cup new) /\ IsFiniteSet(O \cap new)
        /\ Cardinality(O \cup new) = Cardinality(O) + Cardinality(new) - Cardinality(O \cap new)
    BY <2>1, <2>2, FS_Union, FS_Intersection
  <2>4. Cardinality(O \cap new) \in Nat /\ Cardinality(O \cup new) \in Nat
    BY <2>3, FS_CardinalityType
  <2>5. Cardinality(Live') <= Cardinality(O \cup new) /\ Cardinality(Live') \in Nat
    BY <1>2, <2>3, FS_Subset, FS_CardinalityType
  <2>. HIDE DEF O, new
  <2>. QED BY <2>1, <2>2, <2>3, <2>4, <2>5
<1>. QED BY <1>2, <1>3, <1>4, <1>5

\* A running pool grows by what it hires, and sheds only the end of its list.
LEMMA resizeListed ==
  ASSUME Exact, Listed, running, NEW n \in Sizes, resize(n)
  PROVE  Listed'
<1>. USE DEF Exact, Tracked
<1>1. /\ n \in Nat /\ pool \in Seq(Workers) /\ Len(pool) \in Nat /\ size \in Nat
      /\ admin = NoAdmin /\ running /\ running'
  <2>1. n \in Nat
    BY DEF PoolAssumption
  <2>2. pool \in Seq(Workers) /\ size \in Nat
    BY DEF Typed
  <2>3. admin = NoAdmin /\ running /\ running'
    BY DEF resize
  <2>. QED BY <2>1, <2>2, <2>3
<1>2. Live \subseteq PoolSet
  BY <1>1 DEF Listed, NoAdmin
<1>3. CASE Hire(pool, n - Len(pool)) /\ n > Len(pool) /\ size' = n /\ UNCHANGED admin
  <2>1. n - Len(pool) \in Nat
    BY <1>1, <1>3
  <2>2. Live' \subseteq PoolSet' /\ Cardinality(Live') <= Len(pool) + (n - Len(pool))
    BY <1>1, <1>2, <1>3, <2>1, HireLive DEF PoolSet
  <2>3. Cardinality(Live') <= size'
    BY <1>1, <1>3, <2>2
  <2>. QED BY <1>1, <1>3, <2>2, <2>3 DEF Listed, NoAdmin
<1>4. CASE /\ n < Len(pool)
           /\ admin' = [op |-> "resize", to |-> n, awaited |-> {},
                        todo |-> {pool[i] : i \in (n + 1)..Len(pool)}]
           /\ pool' = SubSeq(pool, 1, n)
           /\ UNCHANGED <<worker, size>>
  <2>1. Len(pool') = n /\ \A i \in 1..n : i \in DOMAIN pool' /\ pool'[i] = pool[i]
    BY <1>1, <1>4
  <2>2. PoolSet \subseteq PoolSet' \cup admin'.todo
    <3>. SUFFICES ASSUME NEW i \in DOMAIN pool
                  PROVE  pool[i] \in PoolSet' \cup admin'.todo
      BY DEF PoolSet
    <3>1. i \in 1..n \/ i \in (n + 1)..Len(pool)
      BY <1>1
    <3>2. CASE i \in 1..n
      BY <2>1, <3>2 DEF PoolSet
    <3>3. CASE i \in (n + 1)..Len(pool)
      BY <1>4, <3>3
    <3>. QED BY <3>1, <3>2, <3>3
  <2>3. Live' = Live
    BY <1>4 DEF Live
  <2>4. Live' \subseteq PoolSet' \cup admin'.todo
    BY <1>2, <2>2, <2>3
  <2>5. admin'.op = "resize" /\ admin'.to = n /\ Len(pool') <= n
    BY <1>1, <1>4, <2>1
  <2>. QED BY <1>1, <1>4, <2>3, <2>4, <2>5 DEF Listed
<1>5. CASE n = Len(pool) /\ size' = n /\ UNCHANGED <<admin, pool, worker>>
  <2>1. Live' = Live /\ PoolSet' = PoolSet
    BY <1>5 DEF Live, PoolSet
  <2>2. Cardinality(Live) <= Len(pool)
    BY <1>1, <1>2, SmallerThanList
  <2>. QED BY <1>1, <1>2, <1>5, <2>1, <2>2 DEF Listed, NoAdmin
<1>. QED BY <1>3, <1>4, <1>5 DEF resize

\* Every step but resize.
Unresized ==
  \/ \E t \in Tasks : enqueue(t) \/ PutResumes(t) \/ PutCancelled(t)
  \/ \E w \in Workers : WorkerStep(w) \/ StopWorker(w)
  \/ start \/ stop \/ AdminReturns
  \/ wait_for_completion \/ Completes \/ TimesOut

\* Nor does a step that resizes nothing, start apart.
LEMMA UnresizedListed ==
  ASSUME Exact, Listed, Unresized \/ UNCHANGED vars
  PROVE  Listed'
<1>. USE DEF Exact, Tracked
<1>1. ASSUME NEW w \in Workers, WorkerStep(w) \/ StopWorker(w) PROVE Listed'
  BY <1>1, WorkerListed
<1>2. CASE start
  <2>1. << >> \in Seq(Workers) /\ size \in Nat /\ Live = {} /\ admin = NoAdmin
        /\ running' /\ UNCHANGED <<admin, size>> /\ Hire(<< >>, size)
    BY <1>2 DEF start, Listed, Typed
  <2>2. Live' \subseteq PoolSet' /\ Cardinality(Live') <= Len(<< >>) + size
    BY <2>1, HireLive
  <2>. QED BY <2>1, <2>2 DEF Listed, NoAdmin
<1>3. CASE stop
  <2>1. /\ running /\ Live' = Live /\ PoolSet' = PoolSet /\ UNCHANGED <<running, size>>
        /\ admin'.op = "stop" /\ admin'.todo = PoolSet /\ admin'.awaited = {}
        /\ admin = NoAdmin
    BY <1>3 DEF stop, Live, PoolSet
  <2>. QED BY <2>1 DEF Listed, NoAdmin
<1>4. CASE AdminReturns
  <2>1. /\ Live' = Live /\ admin.op # "idle" /\ admin.todo = {}
        /\ \A w \in admin.awaited : worker[w].phase = "dead"
        /\ admin' = NoAdmin
    BY <1>4 DEF AdminReturns, Live
  <2>2. running /\ size \in Nat /\ pool \in Seq(Workers) /\ Len(pool) \in Nat
    BY <2>1 DEF Listed, Typed, NoAdmin
  <2>3. Live \cap admin.awaited = {}
    BY <2>1 DEF Live
  <2>4. Live \subseteq PoolSet
    BY <2>1, <2>3 DEF Listed
  <2>5. CASE admin.op = "stop" /\ pool' = << >> /\ running' = FALSE /\ UNCHANGED size
    <3>1. Live' = {}
      BY <2>1, <2>3, <2>4, <2>5 DEF Listed
    <3>2. Cardinality(Live') <= size'
      BY <2>2, <2>5, <3>1, FS_EmptySet
    <3>. QED BY <2>1, <2>5, <3>1, <3>2 DEF Listed, NoAdmin
  <2>6. CASE admin.op = "resize" /\ size' = admin.to /\ UNCHANGED <<pool, running>>
    <3>1. Cardinality(Live) <= Len(pool) /\ Cardinality(Live) \in Nat
      BY <2>2, <2>4, SmallerThanList
    <3>2. Len(pool) <= admin.to /\ admin.to \in Nat
      <4>1. admin.to \in Sizes \cup {0}
        BY DEF Typed
      <4>2. admin.to \in Nat
        <5>1. \A m \in Sizes \cup {0} : m \in Nat
          BY DEF PoolAssumption
        <5>. QED BY <4>1, <5>1
      <4>3. Len(pool) <= admin.to
        BY <2>6 DEF Listed
      <4>. QED BY <4>2, <4>3
    <3>3. Cardinality(Live') <= size'
      BY <2>1, <2>2, <2>6, <3>1, <3>2
    <3>4. PoolSet' = PoolSet
      BY <2>6 DEF PoolSet
    <3>. QED BY <2>1, <2>2, <2>4, <2>6, <3>3, <3>4 DEF Listed, NoAdmin
  <2>. QED BY <1>4, <2>5, <2>6 DEF AdminReturns
<1>5. ASSUME \/ \E t \in Tasks : enqueue(t) \/ PutResumes(t) \/ PutCancelled(t)
             \/ wait_for_completion \/ Completes \/ TimesOut
             \/ UNCHANGED vars
      PROVE  Listed'
  <2>1. UNCHANGED <<worker, poolVars>>
    BY <1>5 DEF enqueue, PutResumes, PutCancelled, wait_for_completion, Completes, TimesOut, vars
  <2>2. Live' = Live
    BY <2>1 DEF Live
  <2>. QED BY <2>1, <2>2, FewerListed DEF AdminGoesOn, poolVars
<1>. QED BY <1>1, <1>2, <1>3, <1>4, <1>5 DEF Unresized

\* At first there is no worker and no list.
LEMMA InitListed == Init => Listed
<1>. SUFFICES ASSUME Init PROVE Listed
  OBVIOUS
<1>1. Live = {} /\ Cardinality(Live) = 0
  <2>1. Live = {}
    BY DEF Init, Live
  <2>. QED BY <2>1, FS_EmptySet
<1>2. NumWorkers \in Nat
  BY DEF PoolAssumption
<1>. QED BY <1>1, <1>2 DEF Init, Listed, NoAdmin

\* TasksHandled and StopStopsAll, for a pool that nobody resizes while it is
\* stopped: stop and resize await the workers they cancel, so at no moment do
\* more of them process than the pool was sized for, and none after stop.
THEOREM PoolKeepsToSize ==
  ASSUME ~ResizeStopped
  PROVE  Spec => [](TasksHandled /\ StopStopsAll)
<1>1. Exact /\ Listed => TasksHandled /\ StopStopsAll
  <2>. SUFFICES ASSUME Exact, Listed PROVE TasksHandled /\ StopStopsAll
    OBVIOUS
  <2>1. Cardinality(Busy) \in Nat /\ Cardinality(Live) \in Nat /\ IsFiniteSet(Live)
    BY WorkersFinite DEF Busy, Live
  <2>2. Cardinality(Busy) <= Cardinality(Live)
    <3>1. Busy \subseteq Live
      BY DEF Busy, Live
    <3>. QED BY <2>1, <3>1, FS_Subset
  <2>3. ConcurrencyLimit
    BY <2>1, <2>2 DEF Listed, ConcurrencyLimit, Exact, Tracked, Typed
  <2>4. TypeOK
    BY <2>1 DEF Exact, Tracked, InProgressExact, Typed, TypeOK
  <2>5. StopStopsAll
    BY DEF Listed, StopStopsAll
  <2>. QED BY <2>3, <2>4, <2>5, ExactOneHolder DEF TasksHandled, Exact, Tracked
<1>2. Exact /\ Listed /\ [Next]_vars => Exact' /\ Listed'
  <2>. SUFFICES ASSUME Exact, Listed, [Next]_vars PROVE Listed'
    BY NextExact
  <2>1. ASSUME NEW n \in Sizes, resize(n) PROVE Listed'
    BY <2>1, resizeListed DEF resize
  <2>2. CASE Unresized \/ UNCHANGED vars
    BY <2>2, UnresizedListed
  <2>. QED BY <2>1, <2>2 DEF Next, Unresized
<1>. QED BY <1>1, <1>2, InitExact, InitListed, PTL DEF Spec

-----------------------------------------------------------------------------
(* run_jobs on the pool. *)

\* A stop in hand is one of run_jobs's own, and nothing is resized; before it has
\* begun to await a worker, that worker is neither cancelled nor told to stop, and
\* before it awaits any no job is cut.  A batch that is over has stopped the pool.
Orderly ==
  /\ caller \in Stages
  /\ size = NumWorkers
  /\ IF caller \in {"stopping", "unwinding"} THEN admin.op = "stop" ELSE admin = NoAdmin
  /\ admin.todo \subseteq PoolSet /\ admin.todo \cap admin.awaited = {}
  /\ BatchState # "closed" =>
       /\ \A w \in Workers \ admin.awaited :
            ~worker[w].cancelled /\ (w \in Live => worker[w].running)
       /\ admin.awaited = {} => \A t \in Tasks : status[t] = "RUNNING" => Holders(t) # {}
  /\ BatchState = "closed" => ~running

PoolSafe == Exact /\ Listed

\* What leaves the workers' phases and tasks, the queue and the pool alone.
LEMMA FlagsPoolSafe ==
  ASSUME PoolSafe, worker' \in [Workers -> Worker],
         \A w \in Workers : worker'[w].phase = worker[w].phase /\ worker'[w].task = worker[w].task,
         waiter' \in {"idle", waiter},
         UNCHANGED <<queue, status, putting, pool, running, size, stops, inProgress, started>>,
         UNCHANGED admin \/ (admin' = NoAdmin /\ running /\ admin.awaited = {} /\ admin.todo \subseteq PoolSet)
  PROVE  PoolSafe'
<1>. USE DEF PoolSafe, Exact, Tracked
<1>1. Typed'
  BY DEF Typed, NoAdmin
<1>2. AtMostOnce' /\ InProgressExact'
  <2>1. Busy' = Busy
    BY DEF Busy
  <2>. QED BY <2>1 DEF AtMostOnce, InProgressExact
<1>3. OnePlace'
  BY KeptOrDropped
<1>4. InOrder'
  BY <1>1, SameBorn
<1>5. Live' = Live /\ PoolSet' = PoolSet
  BY DEF Live, PoolSet
<1>6. Listed'
  <2>1. CASE UNCHANGED admin
    BY <1>5, <2>1, FewerListed DEF AdminGoesOn
  <2>2. CASE admin' = NoAdmin /\ running /\ admin.awaited = {} /\ admin.todo \subseteq PoolSet
    BY <1>5, <2>2 DEF Listed, NoAdmin
  <2>. QED BY <2>1, <2>2
<1>. QED BY <1>1, <1>2, <1>3, <1>4, <1>6

\* run_jobs moves the pool by the pool's own steps; cancelled, it leaves
\* wait_for_completion, or leaves stop, or cancels the workers stop awaits.
LEMMA BatchPoolSafe == PoolSafe /\ Orderly /\ [BatchNext]_allVars => PoolSafe'
<1>. SUFFICES ASSUME PoolSafe, Orderly, [BatchNext]_allVars PROVE PoolSafe'
  OBVIOUS
<1>0. worker \in [Workers -> Worker]
  BY DEF PoolSafe, Exact, Tracked, Typed
<1>1. CASE Unresized \/ UNCHANGED vars
  BY <1>1, NextExact, UnresizedListed DEF Unresized, Next, PoolSafe
<1>2. CASE WaitCancelled
  BY <1>0, <1>2, FlagsPoolSafe DEF WaitCancelled, poolVars
<1>3. CASE StopUnbegun
  <2>1. admin.todo \subseteq PoolSet /\ admin # NoAdmin
    BY <1>3 DEF Orderly, StopUnbegun, NoAdmin
  <2>2. running
    BY <2>1 DEF PoolSafe, Listed
  <2>. QED BY <1>0, <1>3, <2>1, <2>2, FlagsPoolSafe DEF StopUnbegun
<1>4. CASE StopCancelled
  <2>1. \A w \in Workers : [worker[w] EXCEPT !.cancelled = TRUE] \in Worker
    BY <1>0 DEF Worker
  <2>2. /\ worker' \in [Workers -> Worker]
        /\ \A w \in Workers : worker'[w].phase = worker[w].phase /\ worker'[w].task = worker[w].task
    BY <1>0, <1>4, <2>1 DEF StopCancelled, Worker
  <2>. QED BY <1>4, <2>2, FlagsPoolSafe DEF StopCancelled, poolVars
<1>5. BatchNext => Unresized \/ WaitCancelled \/ StopUnbegun \/ StopCancelled
  BY DEF BatchNext, Unresized, CallerStep, Fill, StartPool, Await, StopPool, Return, JobsDone,
         JobsTimeOut, JobEnds, WorkerMoves, WorkerStep, RunCancelled
<1>6. UNCHANGED allVars => UNCHANGED vars
  BY DEF allVars
<1>. QED BY <1>1, <1>2, <1>3, <1>4, <1>5, <1>6

\* A batch begins in order.
LEMMA InitOrderly == BatchInit => PoolSafe /\ Orderly
<1>. SUFFICES ASSUME BatchInit PROVE PoolSafe /\ Orderly
  OBVIOUS
<1>1. PoolSafe
  BY InitExact, InitListed DEF BatchInit, PoolSafe
<1>2. Orderly
  BY DEF BatchInit, Init, Orderly, Stages, BatchState, NoAdmin, Live
<1>. QED BY <1>1, <1>2

\* A job without a worker is one that a stop has cut.
LEMMA HeldWhileRunning ==
  ASSUME PoolSafe, \A t \in Tasks : status[t] = "RUNNING" => Holders(t) # {},
         NEW w \in Workers, Dequeue(w) \/ Resume(w) \/ Finish(w)
  PROVE  \A t \in Tasks : status'[t] = "RUNNING" => Holders(t)' # {}
<1>. USE DEF PoolSafe, Exact, Tracked
<1>0. worker \in [Workers -> Worker] /\ status \in [Tasks -> Statuses] /\ NoTask \notin Tasks
  BY DEF Typed, PoolAssumption
<1>1. ASSUME NEW u \in Tasks, Process(w, u), worker[w].task \in {u, NoTask}
      PROVE  \A t \in Tasks : status'[t] = "RUNNING" => Holders(t)' # {}
  <2>1. /\ worker'[w].task = u /\ \A v \in Workers : v # w => worker'[v] = worker[v]
        /\ \A t \in Tasks : t # u => status'[t] = status[t]
    BY <1>0, <1>1 DEF Process, Worker
  <2>. QED BY <1>0, <1>1, <2>1 DEF Holders
<1>2. CASE Dequeue(w)
  <2>1. worker[w].task = NoTask /\ Head(queue) \in Tasks
    BY <1>2, HeadApart DEF Dequeue, OnePlace, TaskWhileHolding
  <2>2. CASE Process(w, Head(queue))
    BY <1>1, <2>1, <2>2
  <2>3. CASE /\ worker' = [worker EXCEPT ![w].phase = "handed", ![w].task = Head(queue)]
             /\ UNCHANGED status
    <3>1. \A v \in Workers : v # w => worker'[v] = worker[v]
      BY <1>0, <2>3
    <3>. QED BY <1>0, <2>1, <2>3, <3>1 DEF Holders
  <2>. QED BY <1>2, <2>2, <2>3 DEF Dequeue
<1>3. CASE Resume(w)
  <2>1. worker[w].task \in Tasks /\ Process(w, worker[w].task)
    BY <1>0, <1>3 DEF Resume, OnePlace, TaskWhileHolding, Worker
  <2>. QED BY <1>1, <2>1
<1>4. CASE Finish(w)
  <2>1. PICK u \in Tasks : u = worker[w].task
    BY <1>0, <1>4 DEF Finish, OnePlace, TaskWhileHolding, Worker
  <2>2. status'[u] # "RUNNING" /\ \A t \in Tasks : t # u => status'[t] = status[t]
    BY <1>0, <1>4, <2>1 DEF Finish
  <2>3. \A v \in Workers : v # w => worker'[v] = worker[v]
    BY <1>0, <1>4 DEF Finish
  <2>. QED BY <1>0, <2>1, <2>2, <2>3 DEF Holders
<1>. QED BY <1>2, <1>3, <1>4

\* Every step of run_jobs and of its workers keeps that order.
LEMMA NextOrderly == PoolSafe /\ Orderly /\ [BatchNext]_allVars => Orderly'
<1>. SUFFICES ASSUME PoolSafe, Orderly, [BatchNext]_allVars PROVE Orderly'
  OBVIOUS
<1>0. /\ worker \in [Workers -> Worker] /\ size \in Nat
      /\ status \in [Tasks -> Statuses] /\ NoTask \notin Tasks
      /\ admin \in [op : {"idle", "stop", "resize"}, to : Sizes \cup {0},
                     todo : SUBSET Workers, awaited : SUBSET Workers]
  BY DEF PoolSafe, Exact, Tracked, Typed, PoolAssumption
<1>1. ASSUME NEW t \in Tasks, Fill(t) PROVE Orderly'
  <2>1. /\ UNCHANGED <<worker, pool, running, size, admin, caller>> /\ caller = "filling"
        /\ status' = [status EXCEPT ![t] = "PENDING"]
    BY <1>1 DEF Fill, enqueue, batchVars, poolVars
  <2>2. \A u \in Tasks : status'[u] = "RUNNING" => status[u] = "RUNNING"
    BY <1>0, <2>1
  <2>. QED BY <2>1, <2>2 DEF Orderly, BatchState, Live, PoolSet, Holders
<1>2. CASE StartPool
  <2>1. /\ << >> \in Seq(Workers) /\ Hire(<< >>, size) /\ UNCHANGED <<admin, size, status>>
        /\ caller = "filling" /\ caller' = "started" /\ admin = NoAdmin
    BY <1>2 DEF StartPool, start, Goto
  <2>2. \A w \in Workers : /\ worker'[w].task = worker[w].task
                           /\ worker'[w] = worker[w] \/ (~worker'[w].cancelled /\ worker'[w].running)
    <3>1. \A w \in Workers : \/ worker'[w] = worker[w]
                             \/ worker'[w].task = worker[w].task /\ ~worker'[w].cancelled
      BY <1>0, <2>1, HireEffect DEF PoolSafe, Exact
    <3>2. \A w \in Workers : worker'[w] = worker[w] \/ worker'[w].running
      BY <2>1 DEF Hire
    <3>. QED BY <3>1, <3>2
  <2>. QED BY <2>1, <2>2 DEF Orderly, BatchState, Stages, NoAdmin, Live, Holders
<1>3. CASE Await \/ JobsDone \/ JobsTimeOut \/ WaitCancelled
  <2>1. /\ UNCHANGED <<status, worker, pool, running, size, admin>>
        /\ caller \in {"started", "waiting"} /\ caller' \in {"waiting", "answered", "cancelled"}
    BY <1>3 DEF Await, JobsDone, JobsTimeOut, WaitCancelled, wait_for_completion, Completes,
                TimesOut, Goto, poolVars
  <2>. QED BY <2>1 DEF Orderly, BatchState, Stages, Live, PoolSet, Holders
<1>4. CASE StopPool
  <2>1. /\ UNCHANGED <<status, worker, pool, running, size>>
        /\ admin = NoAdmin /\ admin'.op = "stop" /\ admin'.todo = PoolSet /\ admin'.awaited = {}
        /\ caller \in {"answered", "cancelled"} /\ caller' \in {"stopping", "unwinding"}
    BY <1>4 DEF StopPool, stop, Goto
  <2>. QED BY <2>1 DEF Orderly, BatchState, Stages, NoAdmin, Live, PoolSet, Holders
<1>5. CASE Return
  <2>1. admin.op = "stop" /\ ~running' /\ UNCHANGED <<size, status, worker>> /\ admin' = NoAdmin
        /\ caller' \in {"returned", "raised"}
    BY <1>5 DEF Orderly, Return, AdminReturns, Goto
  <2>. QED BY <2>1 DEF Orderly, BatchState, NoAdmin, Stages, PoolSet
<1>6. CASE StopUnbegun
  <2>1. /\ UNCHANGED <<status, worker, pool, running, size>> /\ admin' = NoAdmin
        /\ admin.awaited = {} /\ caller \in {"stopping", "unwinding"} /\ caller' = "abandoned"
    BY <1>6 DEF StopUnbegun, Goto
  <2>. QED BY <2>1 DEF Orderly, BatchState, NoAdmin, Stages, Live, PoolSet, Holders
<1>7. CASE StopCancelled
  <2>1. /\ UNCHANGED <<status, pool, running, size, admin>>
        /\ caller \in {"stopping", "unwinding"} /\ caller' = "unwinding"
        /\ \A w \in Workers : /\ worker'[w].task = worker[w].task
                              /\ worker'[w].phase = worker[w].phase
                              /\ w \notin admin.awaited => worker'[w] = worker[w]
    BY <1>0, <1>7 DEF StopCancelled, Goto, poolVars, Worker
  <2>. QED BY <2>1 DEF Orderly, BatchState, Stages, Live, PoolSet, Holders
<1>8. ASSUME NEW w \in Workers, Dequeue(w) \/ Resume(w) \/ Finish(w),
             Suspended, UNCHANGED caller
      PROVE  Orderly'
  <2>1. /\ UNCHANGED <<pool, running, size, admin>>
        /\ \A v \in Workers : v # w => worker'[v] = worker[v]
        /\ worker'[w].running = worker[w].running
        /\ worker'[w].cancelled => worker[w].cancelled
        /\ w \in Live
    BY <1>0, <1>8 DEF Dequeue, Resume, Process, Finish, poolVars, Worker, Live
  <2>2. admin.awaited = {} => \A t \in Tasks : status'[t] = "RUNNING" => Holders(t)' # {}
    BY <1>8, HeldWhileRunning DEF Orderly, Suspended, BatchState
  <2>. QED BY <1>8, <2>1, <2>2 DEF Orderly, BatchState, Live, PoolSet, Suspended
<1>9. ASSUME NEW w \in Workers, Killed(w), Suspended, UNCHANGED caller
      PROVE  Orderly'
  <2>1. /\ UNCHANGED <<status, pool, running, size, admin>> /\ worker[w].cancelled
        /\ \A v \in Workers : v # w => worker'[v] = worker[v]
        /\ worker'[w].phase = "dead"
    BY <1>0, <1>9 DEF Killed, poolVars, Worker
  <2>2. w \in admin.awaited
    BY <1>9, <2>1 DEF Orderly, Suspended, BatchState
  <2>. QED BY <1>9, <2>1, <2>2 DEF Orderly, BatchState, Live, PoolSet, Suspended
<1>10. ASSUME NEW w \in Workers, StopWorker(w), Suspended, UNCHANGED caller
       PROVE  Orderly'
  <2>1. /\ UNCHANGED <<status, pool, running, size>> /\ w \in admin.todo
        /\ admin'.todo = admin.todo \ {w} /\ admin'.awaited = admin.awaited \cup {w}
        /\ admin'.op = admin.op
        /\ \A v \in Workers : v # w => worker'[v] = worker[v]
    BY <1>0, <1>10 DEF StopWorker
  <2>2. admin # NoAdmin
    BY <2>1 DEF NoAdmin
  <2>. QED BY <1>10, <2>1, <2>2 DEF Orderly, BatchState, Live, PoolSet, Suspended
<1>11. CASE UNCHANGED allVars
  BY <1>11 DEF allVars, vars, batchVars, poolVars, Orderly, BatchState, Live, PoolSet, Holders
<1>12. ASSUME NEW w \in Workers, WorkerMoves(w) \/ JobEnds(w) PROVE Orderly'
  BY <1>8, <1>9, <1>10, <1>12 DEF WorkerMoves, JobEnds, batchVars
<1>. QED BY <1>1, <1>2, <1>3, <1>4, <1>5, <1>6, <1>7, <1>11, <1>12
         DEF BatchNext, CallerStep, RunCancelled

-----------------------------------------------------------------------------
(* run_jobs is a batch (module Batch). *)

JobMap == [t \in Tasks |-> JobState(t)]

\* A job that has not begun, or that keeps its status and its worker, is where it was.
Still(t) ==
  \/ status[t] \in {"none", "PENDING"} /\ status'[t] \in {"none", "PENDING"}
  \/ /\ status'[t] = status[t]
     /\ status[t] = "RUNNING" =>
          Holders(t)' = Holders(t) /\ \A w \in Holders(t) : Deaf(w)' = Deaf(w)

\* Where a status is kept, so are the jobs that have it.
LEMMA StillInState ==
  ASSUME NEW t \in Tasks, Still(t)
  PROVE  JobState(t)' = JobState(t)
<1>1. CASE status[t] \in {"none", "PENDING"} /\ status'[t] \in {"none", "PENDING"}
  BY <1>1 DEF JobState
<1>2. CASE /\ status'[t] = status[t] /\ status[t] = "RUNNING"
           /\ Holders(t)' = Holders(t) /\ \A w \in Holders(t) : Deaf(w)' = Deaf(w)
  <2>1. (\E w \in Holders(t) : Deaf(w))' <=> \E w \in Holders(t) : Deaf(w)
    BY <1>2, Zenon
  <2>. QED BY <1>2, <2>1 DEF JobState
<1>3. CASE status'[t] = status[t] /\ status[t] # "RUNNING"
  BY <1>3 DEF JobState
<1>. QED BY <1>1, <1>2, <1>3 DEF Still

\* The step of one worker leaves the jobs of the others alone.
LEMMA OthersStill ==
  ASSUME NEW w \in Workers, \A v \in Workers : v # w => worker'[v] = worker[v],
         NEW u \in Tasks, status'[u] = status[u],
         worker[w].task # u, worker'[w].task # u
  PROVE  Still(u)
<1>1. Holders(u)' = Holders(u)
  BY DEF Holders
<1>2. \A v \in Holders(u) : Deaf(v)' = Deaf(v)
  BY DEF Holders, Deaf
<1>. QED BY <1>1, <1>2 DEF Still

\* A job that changes its status moves between two of Batch's sets.
LEMMA OneJobMoves ==
  ASSUME NEW t \in Tasks, \A u \in Tasks : u # t => Still(u)
  PROVE  JobMap' = [JobMap EXCEPT ![t] = JobState(t)']
<1>1. \A u \in Tasks : u # t => JobState(u)' = JobState(u)
  BY StillInState
<1>. QED BY <1>1 DEF JobMap

\* Where no job changes its status, Batch stutters.
LEMMA NoJobMoves ==
  ASSUME \A u \in Tasks : Still(u)
  PROVE  JobMap' = JobMap
<1>1. \A u \in Tasks : JobState(u)' = JobState(u)
  BY StillInState
<1>. QED BY <1>1 DEF JobMap

\* Where workers keep their tasks and hear no better or worse, so do their jobs.
LEMMA SameTasksStill ==
  ASSUME UNCHANGED status,
         \A w \in Workers : worker'[w].task = worker[w].task /\ Deaf(w)' = Deaf(w)
  PROVE  \A u \in Tasks : Still(u)
<1>1. \A u \in Tasks : Holders(u)' = Holders(u)
  BY DEF Holders
<1>. QED BY <1>1 DEF Still, Holders

\* The jobs that run are held by busy workers, so there is room for one more
\* whenever a worker has become busy.
LEMMA RoomForJobs ==
  ASSUME PoolSafe, Listed', size' = NumWorkers,
         NEW w \in Workers, Busy' = Busy \cup {w}, w \notin Busy
  PROVE  Cardinality(Promise!RunningJobs) < NumWorkers
<1> DEFINE R == Promise!RunningJobs
<1>. USE DEF PoolSafe, Exact, Tracked
<1>1. Busy \subseteq Workers /\ IsFiniteSet(Busy) /\ Cardinality(Busy) \in Nat
  BY WorkersFinite DEF Busy
<1>2. \A t \in R : t \in Tasks /\ status[t] = "RUNNING" /\ Holders(t) # {}
  BY DEF Promise!RunningJobs, Promise!Running, JobState, Typed, Statuses
<1>3. \A t \in R : \E v \in Busy : worker[v].task = t
  <2>. SUFFICES ASSUME NEW t \in R PROVE \E v \in Busy : worker[v].task = t
    OBVIOUS
  <2>1. PICK v \in Workers : worker[v].task = t
    BY <1>2 DEF Holders
  <2>2. t # NoTask /\ status[t] = "RUNNING"
    BY <1>2 DEF PoolAssumption
  <2>3. worker[v].phase = "busy"
    BY <2>1, <2>2 DEF OnePlace, HeldStatus
  <2>. QED BY <2>1, <2>3 DEF Busy
<1> DEFINE B == {v \in Busy : worker[v].task \in R}
           heldB == [v \in B |-> worker[v].task]
<1>4. heldB \in Surjection(B, R)
  <2>1. heldB \in [B -> R]
    OBVIOUS
  <2>. QED BY <1>3, <2>1 DEF Surjection
<1>5. B \subseteq Busy
  OBVIOUS
<1>. HIDE DEF R, B, heldB
<1>6. IsFiniteSet(B) /\ Cardinality(B) <= Cardinality(Busy) /\ Cardinality(B) \in Nat
  BY <1>1, <1>5, FS_Subset, FS_CardinalityType
<1>7. Cardinality(R) <= Cardinality(B) /\ Cardinality(R) \in Nat
  BY <1>4, <1>6, FS_Surjection, FS_CardinalityType
<1>8. Cardinality(Busy) + 1 <= NumWorkers
  <2>1. Cardinality(Busy') = Cardinality(Busy) + 1
    BY <1>1, FS_AddElement
  <2>2. Busy' \subseteq Live' /\ Live' \subseteq Workers
    BY DEF Busy, Live
  <2>3. Cardinality(Busy') <= Cardinality(Live') /\ Cardinality(Live') \in Nat
    BY <2>2, WorkersFinite, FS_Subset
  <2>4. Cardinality(Live') <= NumWorkers
    BY DEF Listed
  <2>5. NumWorkers \in Nat
    BY DEF PoolAssumption
  <2>. QED BY <1>1, <2>1, <2>3, <2>4, <2>5
<1>9. NumWorkers \in Nat
  BY DEF PoolAssumption
<1>10. Cardinality(R) < NumWorkers
  BY <1>1, <1>6, <1>7, <1>8, <1>9
<1>. QED BY <1>10 DEF R

\* Batch counts as everybody does.
LEMMA BatchCounts == \A S : Promise!Cardinality(S) = Cardinality(S)
BY DEF Promise!Cardinality, Cardinality

\* A worker that starts on a pending task begins that job, while the pool may run.
LEMMA ProcessBegins ==
  ASSUME PoolSafe, PoolSafe', Orderly, Orderly',
         NEW w \in Workers, NEW t \in Tasks, Process(w, t), Suspended, UNCHANGED caller,
         worker[w].phase \in {"polling", "handed"}, worker[w].task \in {t, NoTask},
         status[t] = "PENDING"
  PROVE  \E how \in Promise!Running : Promise!Begin(t, how)
<1>. USE DEF PoolSafe, Exact, Tracked
<1>1. worker \in [Workers -> Worker] /\ status \in [Tasks -> Statuses] /\ t # NoTask
  BY DEF Typed, PoolAssumption
<1>2. /\ worker'[w].phase = "busy" /\ worker'[w].task = t /\ status'[t] = "RUNNING"
      /\ \A v \in Workers : v # w => worker'[v] = worker[v]
      /\ \A u \in Tasks : u # t => status'[u] = status[u]
  BY <1>1 DEF Process, Worker
<1>3. \A u \in Tasks : u # t => Still(u)
  <2>1. \A u \in Tasks : u # NoTask
    BY DEF PoolAssumption
  <2>. QED BY <1>2, <2>1, OthersStill
<1> DEFINE how == IF worker[w].running THEN "running" ELSE "deaf"
<1>4. JobState(t) = "waiting" /\ JobState(t)' = how
  <2>1. Holders(t)' = {w}
    BY <1>1, <1>2 DEF Holders, OnePlace, OneWorkerEach
  <2>2. worker'[w].running = worker[w].running /\ ~worker'[w].cancelled
    BY <1>1 DEF Process, Worker
  <2>3. worker[w].running \in BOOLEAN
    BY <1>1 DEF Worker
  <2>4. Deaf(w)' <=> ~worker[w].running
    BY <1>2, <2>2 DEF Deaf
  <2>. QED BY <1>2, <2>1, <2>3, <2>4 DEF JobState
<1>5. JobMap' = [JobMap EXCEPT ![t] = how]
  BY <1>3, <1>4, OneJobMoves
<1>6. Busy' = Busy \cup {w} /\ w \notin Busy
  BY <1>2 DEF Busy
<1>7. Cardinality(Promise!RunningJobs) < NumWorkers
  BY <1>6, RoomForJobs DEF Orderly
<1>8. BatchState # "closed" /\ BatchState' = BatchState
  BY DEF Suspended, BatchState
<1>9. JobMap[t] = "waiting"
  BY <1>4 DEF JobMap
<1>10. how = "running" \/ (how = "deaf" /\ BatchState = "closing")
  <2>1. w \in Live
    BY DEF Live
  <2>2. worker[w].running \/ w \in admin.awaited
    BY <1>8, <2>1 DEF Orderly
  <2>3. admin.awaited # {} => BatchState = "closing"
    BY DEF Orderly, Suspended, BatchState, NoAdmin
  <2>. QED BY <2>2, <2>3
<1>11. how \in Promise!Running
  BY DEF Promise!Running
<1>12. Promise!Begin(t, how)
  <2>. HIDE DEF how
  <2>. QED BY <1>5, <1>7, <1>8, <1>9, <1>10, BatchCounts, Zenon DEF Promise!Begin, JobMap
<1>. QED BY <1>11, <1>12

\* Every step of run_jobs and its pool is one of Batch or leaves it alone.
LEMMA BatchStep ==
  ASSUME PoolSafe, PoolSafe', Orderly, Orderly', [BatchNext]_allVars
  PROVE  [Promise!Next]_(Promise!vars)
<1>. USE DEF PoolSafe, Exact, Tracked
<1>0. worker \in [Workers -> Worker] /\ status \in [Tasks -> Statuses] /\ NoTask \notin Tasks
  BY DEF Typed, PoolAssumption
<1>1. ASSUME JobMap' = JobMap, BatchState' = BatchState PROVE UNCHANGED Promise!vars
  BY <1>1 DEF Promise!vars, JobMap
<1>2. ASSUME NEW t \in Tasks, Fill(t) PROVE UNCHANGED Promise!vars
  <2>1. /\ status[t] = "none" /\ status'[t] = "PENDING"
        /\ \A u \in Tasks : u # t => status'[u] = status[u]
        /\ UNCHANGED <<worker, caller>>
    BY <1>0, <1>2 DEF Fill, enqueue, batchVars
  <2>2. \A u \in Tasks : Still(u)
    BY <2>1 DEF Still, Holders, Deaf
  <2>. QED BY <1>1, <2>1, <2>2, NoJobMoves DEF BatchState
<1>3. ASSUME UNCHANGED status,
             \A w \in Workers : worker'[w].task = worker[w].task /\ Deaf(w)' = Deaf(w)
      PROVE  JobMap' = JobMap
  BY <1>3, SameTasksStill, NoJobMoves
<1>4. CASE StartPool
  <2>1. << >> \in Seq(Workers) /\ size \in Nat /\ Hire(<< >>, size) /\ UNCHANGED status
        /\ caller = "filling" /\ caller' = "started"
    BY <1>4 DEF StartPool, start, Goto, Typed
  <2>2. \A w \in Workers : worker'[w].task = worker[w].task /\ Deaf(w)' = Deaf(w)
    <3>1. \A w \in Workers : \/ worker'[w] = worker[w]
                             \/ /\ worker'[w].task = worker[w].task
                                /\ worker[w].phase = "unborn" /\ worker'[w].phase = "polling"
      BY <2>1, HireEffect
    <3>. QED BY <3>1 DEF Deaf
  <2>. QED BY <1>1, <1>3, <2>1, <2>2 DEF BatchState
<1>5. CASE Await \/ StopPool
  <2>1. UNCHANGED <<status, worker>> /\ BatchState' = BatchState
    BY <1>5 DEF Await, StopPool, wait_for_completion, stop, Goto, BatchState
  <2>. QED BY <1>1, <1>3, <2>1 DEF Deaf
<1>6. CASE JobsDone \/ JobsTimeOut \/ WaitCancelled
  <2>1. UNCHANGED <<status, worker>> /\ BatchState = "open" /\ BatchState' = "closing"
    BY <1>6 DEF JobsDone, JobsTimeOut, WaitCancelled, Completes, TimesOut, Goto, BatchState
  <2>2. JobMap' = JobMap
    BY <1>3, <2>1 DEF Deaf
  <2>. QED BY <2>1, <2>2 DEF Promise!Next, Promise!Close, JobMap
<1>7. CASE Return
  <2>1. UNCHANGED <<status, worker>> /\ BatchState = "closing" /\ BatchState' = "closed"
    BY <1>7 DEF Return, AdminReturns, Goto, BatchState
  <2>2. JobMap' = JobMap
    BY <1>3, <2>1 DEF Deaf
  <2>3. Live' = {}
    BY <2>1 DEF Orderly, Listed
  <2>4. Live = {}
    BY <2>1, <2>3 DEF Live
  <2>5. Promise!RunningJobs = {}
    <3>. SUFFICES ASSUME NEW t \in Tasks, JobState(t) \in {"running", "deaf"} PROVE FALSE
      BY DEF Promise!RunningJobs, Promise!Running
    <3>1. Holders(t) # {}
      BY <1>0 DEF JobState, Statuses
    <3>. QED BY <1>0, <2>4, <3>1 DEF Holders, Live, OnePlace, TaskWhileHolding
  <2>. QED BY <2>1, <2>2, <2>5 DEF Promise!Next, Promise!Closed, JobMap
<1>8. ASSUME NEW w \in Workers, WorkerMoves(w) PROVE [Promise!Next]_(Promise!vars)
  <2>1. Suspended /\ UNCHANGED caller /\ BatchState' = BatchState
    BY <1>8 DEF WorkerMoves, batchVars, BatchState
  <2>2. CASE Dequeue(w)
    <3>1. /\ Head(queue) \in Tasks /\ status[Head(queue)] = "PENDING"
          /\ worker[w].phase = "polling" /\ worker[w].task = NoTask
      BY <1>0, <2>2, HeadApart DEF Dequeue, OnePlace, TaskWhileHolding
    <3>2. CASE Process(w, Head(queue))
      BY <2>1, <3>1, <3>2, ProcessBegins DEF Promise!Next
    <3>3. CASE /\ worker' = [worker EXCEPT ![w].phase = "handed", ![w].task = Head(queue)]
               /\ UNCHANGED status
      <4>1. worker'[w].task = Head(queue) /\ \A v \in Workers : v # w => worker'[v] = worker[v]
        BY <1>0, <3>3 DEF Worker
      <4>2. \A u \in Tasks : Still(u)
        <5>1. Still(Head(queue))
          BY <3>1, <3>3 DEF Still
        <5>2. \A u \in Tasks : u # Head(queue) => Still(u)
          BY <1>0, <3>1, <3>3, <4>1, OthersStill
        <5>. QED BY <5>1, <5>2
      <4>. QED BY <1>1, <2>1, <4>2, NoJobMoves
    <3>. QED BY <2>2, <3>2, <3>3 DEF Dequeue
  <2>3. CASE Resume(w)
    <3>1. /\ worker[w].phase = "handed" /\ worker[w].task \in Tasks
          /\ status[worker[w].task] = "PENDING" /\ Process(w, worker[w].task)
      BY <1>0, <2>3 DEF Resume, OnePlace, TaskWhileHolding, HeldStatus, Worker
    <3>. QED BY <2>1, <3>1, ProcessBegins DEF Promise!Next
  <2>4. CASE Killed(w)
    <3>1. /\ worker'[w].task = NoTask /\ UNCHANGED status /\ worker[w].cancelled
          /\ \A v \in Workers : v # w => worker'[v] = worker[v]
      BY <1>0, <2>4 DEF Killed, Worker
    <3>2. CASE worker[w].phase = "polling"
      <4>1. worker[w].task = NoTask
        BY <3>2 DEF OnePlace, TaskWhileHolding
      <4>2. worker'[w].phase = "dead"
        BY <1>0, <2>4 DEF Killed, Worker
      <4>. QED BY <1>1, <1>3, <2>1, <3>1, <3>2, <4>1, <4>2 DEF Deaf
    <3>3. CASE worker[w].phase = "busy"
      <4>1. PICK t \in Tasks : t = worker[w].task /\ status[t] = "RUNNING"
        BY <1>0, <3>3 DEF OnePlace, TaskWhileHolding, HeldStatus, Worker
      <4>2. Holders(t) = {w} /\ Holders(t)' = {}
        BY <1>0, <3>1, <4>1 DEF Holders, OnePlace, OneWorkerEach
      <4>4. JobState(t) = "running" /\ JobState(t)' = "cut"
        BY <3>1, <4>1, <4>2 DEF JobState, Deaf
      <4>5. \A u \in Tasks : u # t => Still(u)
        BY <1>0, <3>1, <4>1, OthersStill
      <4>6. JobMap' = [JobMap EXCEPT ![t] = "cut"]
        BY <4>1, <4>4, <4>5, OneJobMoves
      <4>7. BatchState = "closing"
        <5>1. admin.awaited # {}
          BY <2>1, <3>1 DEF Orderly, Suspended, BatchState
        <5>. QED BY <2>1, <5>1 DEF Orderly, NoAdmin, Suspended, BatchState
      <4>. QED BY <2>1, <4>1, <4>4, <4>6, <4>7 DEF Promise!Next, Promise!Cut, JobMap
    <3>. QED BY <2>4, <3>2, <3>3 DEF Killed
  <2>5. CASE StopWorker(w)
    <3>1. /\ UNCHANGED status /\ w \notin admin.awaited
          /\ \A v \in Workers : worker'[v].task = worker[v].task
          /\ \A v \in Workers : v # w => worker'[v] = worker[v]
          /\ worker'[w].cancelled
      BY <1>0, <2>5 DEF StopWorker, Worker, Orderly
    <3>2. ~Deaf(w)
      BY <2>1, <3>1 DEF Orderly, Suspended, BatchState, Deaf, Live
    <3>. QED BY <1>1, <1>3, <2>1, <3>1, <3>2 DEF Deaf
  <2>. QED BY <1>8, <2>2, <2>3, <2>4, <2>5 DEF WorkerMoves
<1>9. ASSUME NEW w \in Workers, JobEnds(w) PROVE [Promise!Next]_(Promise!vars)
  <2>1. Finish(w) /\ BatchState' = BatchState
    BY <1>9 DEF JobEnds, BatchState
  <2>2. PICK t \in Tasks : t = worker[w].task /\ status[t] = "RUNNING"
    BY <1>0, <2>1 DEF Finish, OnePlace, TaskWhileHolding, HeldStatus, Worker
  <2>3. PICK s \in {"COMPLETED", "FAILED"} : status' = [status EXCEPT ![t] = s]
    BY <2>1, <2>2 DEF Finish
  <2>4. worker'[w].task = NoTask /\ \A v \in Workers : v # w => worker'[v] = worker[v]
    BY <1>0, <2>1 DEF Finish, Worker
  <2>5. Holders(t) # {}
    BY <2>2 DEF Holders
  <2>6. status'[t] = s /\ \A u \in Tasks : u # t => status'[u] = status[u]
    BY <1>0, <2>2, <2>3
  <2>7. JobState(t) \in {"running", "deaf"} /\ JobState(t)' = IF s = "COMPLETED" THEN "done" ELSE "failed"
    BY <2>2, <2>5, <2>6 DEF JobState
  <2>8. \A u \in Tasks : u # t => Still(u)
    BY <1>0, <2>2, <2>4, <2>6, OthersStill
  <2>9. JobMap' = [JobMap EXCEPT ![t] = JobState(t)']
    BY <2>2, <2>8, OneJobMoves
  <2>10. JobState(t)' \in Promise!Ended
    BY <2>7 DEF Promise!Ended
  <2>11. Promise!End(t, JobState(t)')
    <3>1. JobMap[t] \in Promise!Running
      BY <2>7 DEF JobMap, Promise!Running
    <3>. QED BY <2>1, <2>9, <2>10, <3>1, Zenon DEF Promise!End, JobMap
  <2>. QED BY <2>2, <2>10, <2>11 DEF Promise!Next
<1>10. CASE UNCHANGED allVars
  <2>1. UNCHANGED <<status, worker, caller>>
    BY <1>10 DEF allVars, vars, batchVars
  <2>. QED BY <1>1, <1>3, <2>1 DEF BatchState, Deaf
<1>11. CASE StopUnbegun
  <2>1. /\ UNCHANGED <<status, worker>> /\ admin.awaited = {}
        /\ BatchState = "closing" /\ BatchState' = "abandoned"
    BY <1>11 DEF StopUnbegun, Goto, BatchState
  <2>2. JobMap' = JobMap
    BY <1>3, <2>1 DEF Deaf
  <2>3. \A t \in Tasks : JobMap[t] \notin {"deaf", "cut"}
    <3>1. \A w \in Workers : ~Deaf(w)
      BY <2>1 DEF Orderly, Deaf, Live
    <3>2. \A t \in Tasks : status[t] = "RUNNING" => Holders(t) # {}
      BY <2>1 DEF Orderly
    <3>3. \A t \in Tasks : \A w \in Holders(t) : ~Deaf(w)
      BY <3>1 DEF Holders
    <3>. QED BY <1>0, <3>2, <3>3 DEF JobMap, JobState, Statuses
  <2>. QED BY <2>1, <2>2, <2>3 DEF Promise!Next, Promise!Abandon, JobMap
<1>12. CASE StopCancelled
  <2>1. /\ UNCHANGED status
        /\ BatchState = "closing" /\ BatchState' = "closing"
        /\ \A w \in Workers : /\ worker'[w].task = worker[w].task
                              /\ worker'[w].phase = worker[w].phase
        /\ \A w \in admin.awaited : worker[w].phase # "dead" => worker'[w].cancelled
        /\ \A w \in Workers \ admin.awaited : worker'[w] = worker[w]
    <3>1. admin.awaited \subseteq Workers
      BY DEF Typed
    <3>. QED BY <1>0, <1>12, <3>1 DEF StopCancelled, Goto, BatchState, Worker
  <2>2. \A w \in Workers : ~Deaf(w)'
    BY <2>1 DEF Orderly, Deaf, Live
  <2>3. \A t \in Tasks : Holders(t)' = Holders(t) /\ \A w \in Holders(t) : w \in Workers
    BY <2>1 DEF Holders
  <2>4. \A t \in Tasks : JobState(t)' = IF JobState(t) = "deaf" THEN "running" ELSE JobState(t)
    <3>. SUFFICES ASSUME NEW t \in Tasks
                  PROVE  JobState(t)' = IF JobState(t) = "deaf" THEN "running" ELSE JobState(t)
      OBVIOUS
    <3>1. ~(\E w \in Holders(t) : Deaf(w))'
      BY <2>2, <2>3
    <3>2. status[t] \in Statuses /\ status'[t] = status[t]
      BY <1>0, <2>1
    <3>. QED BY <2>3, <3>1, <3>2 DEF JobState, Statuses
  <2>5. Promise!CancelAgain
    BY <2>1, <2>4 DEF Promise!CancelAgain, JobMap
  <2>. QED BY <2>5 DEF Promise!Next
<1>. QED BY <1>2, <1>4, <1>5, <1>6, <1>7, <1>8, <1>9, <1>10, <1>11, <1>12
         DEF BatchNext, CallerStep, RunCancelled

\* IsBatch: run_jobs, over queue, workers, timeout, cancellation and stop, keeps
\* what module Batch promises, however many jobs and workers there are.
THEOREM RunJobsIsBatch == BatchSpec => IsBatch
<1>1. BatchInit => Promise!Init
  BY DEF BatchInit, Init, Promise!Init, JobState, BatchState
<1>. QED
  BY <1>1, InitOrderly, NextOrderly, BatchPoolSafe, BatchStep, PTL
     DEF BatchSpec, IsBatch, Promise!Spec

\* As many jobs run as may, and none when the batch is closed.
Within ==
  /\ IsFiniteSet(Promise!RunningJobs) /\ Cardinality(Promise!RunningJobs) <= NumWorkers
  /\ BatchState = "closed" => Promise!RunningJobs = {}

\* A job does not go back, and where it has ended or was cut off it stays.
NoWayBack(t) ==
  /\ JobState(t) # "waiting" => JobState(t)' # "waiting"
  /\ JobState(t) \in {"done", "failed", "cut"} => JobState(t)' = JobState(t)

\* Every batch keeps within its limit.
LEMMA BatchKeepsWithin ==
  ASSUME Within, [Promise!Next]_(Promise!vars)
  PROVE  Within'
<1> DEFINE R == Promise!RunningJobs
<1>1. /\ R = {t \in Tasks : JobMap[t] \in {"running", "deaf"}}
      /\ R' = {t \in Tasks : JobMap'[t] \in {"running", "deaf"}}
  BY DEF Promise!RunningJobs, Promise!Running, JobMap
<1>2. ASSUME NEW t \in Tasks, NEW how \in {"running", "deaf"}, Promise!Begin(t, how) PROVE Within'
  <2>1. /\ JobMap' = [JobMap EXCEPT ![t] = how] /\ BatchState' = BatchState
        /\ BatchState # "closed" /\ JobMap[t] = "waiting" /\ Cardinality(R) < NumWorkers
    BY <1>2, BatchCounts DEF Promise!Begin, JobMap
  <2>2. R' = R \cup {t} /\ t \notin R
    BY <1>1, <2>1 DEF JobMap
  <2>3. NumWorkers \in Nat
    BY DEF PoolAssumption
  <2>. HIDE DEF R
  <2>4. IsFiniteSet(R') /\ Cardinality(R') = Cardinality(R) + 1 /\ Cardinality(R) \in Nat
    BY <2>2, FS_AddElement, FS_CardinalityType DEF Within, R
  <2>5. Cardinality(R') <= NumWorkers
    BY <2>1, <2>3, <2>4
  <2>. QED BY <2>1, <2>4, <2>5 DEF Within, R
<1>3. ASSUME R' \subseteq R, BatchState' = "closed" => R' = {} PROVE Within'
  <2>. HIDE DEF R
  <2>1. IsFiniteSet(R) /\ Cardinality(R) <= NumWorkers /\ Cardinality(R) \in Nat
    BY FS_CardinalityType DEF Within, R
  <2>2. IsFiniteSet(R') /\ Cardinality(R') <= Cardinality(R) /\ Cardinality(R') \in Nat
    BY <1>3, <2>1, FS_Subset, FS_CardinalityType
  <2>3. Cardinality(R') <= NumWorkers
    BY <2>1, <2>2 DEF PoolAssumption
  <2>. QED BY <1>3, <2>2, <2>3 DEF Within, R
<1>4. ASSUME NEW t \in Tasks, Promise!Cut(t) \/ \E how \in Promise!Ended : Promise!End(t, how)
      PROVE  Within'
  <2>1. PICK how \in {"cut", "done", "failed"} :
          JobMap' = [JobMap EXCEPT ![t] = how] /\ BatchState' = BatchState
    BY <1>4 DEF Promise!Cut, Promise!End, Promise!Ended, JobMap
  <2>2. R' \subseteq R
    BY <1>1, <2>1 DEF JobMap
  <2>. QED BY <1>3, <2>1, <2>2 DEF Within
<1>5. CASE Promise!Close \/ Promise!Abandon \/ Promise!Closed \/ UNCHANGED Promise!vars
  <2>1. JobMap' = JobMap /\ (BatchState' = "closed" => BatchState = "closed" \/ R = {})
    BY <1>5 DEF Promise!Close, Promise!Abandon, Promise!Closed, Promise!vars, JobMap
  <2>2. R' = R
    BY <1>1, <2>1
  <2>. QED BY <1>3, <2>1, <2>2 DEF Within
<1>6. CASE Promise!CancelAgain
  <2>1. /\ BatchState' = BatchState
        /\ \A t \in Tasks : JobMap'[t] = IF JobMap[t] = "deaf" THEN "running" ELSE JobMap[t]
    BY <1>6 DEF Promise!CancelAgain, JobMap
  <2>2. R' \subseteq R
    BY <1>1, <2>1
  <2>. QED BY <1>3, <2>1, <2>2 DEF Within
<1>. QED BY <1>2, <1>4, <1>5, <1>6 DEF Promise!Next, Promise!Running

\* No step of a batch takes a job back.
LEMMA BatchNoWayBack ==
  ASSUME [Promise!Next]_(Promise!vars), NEW t \in Tasks
  PROVE  NoWayBack(t)
<1>1. CASE JobMap' = JobMap
  BY <1>1 DEF JobMap, NoWayBack
<1>2. ASSUME NEW u \in Tasks, NEW how \in {"running", "deaf", "cut", "done", "failed"},
             JobMap' = [JobMap EXCEPT ![u] = how], JobMap[u] \in {"waiting", "running", "deaf"}
      PROVE  NoWayBack(t)
  <2>1. JobState(t) = JobMap[t] /\ JobState(t)' = JobMap'[t]
    BY DEF JobMap
  <2>2. JobMap'[t] = IF t = u THEN how ELSE JobMap[t]
    BY <1>2 DEF JobMap
  <2>. QED BY <1>2, <2>1, <2>2 DEF NoWayBack
<1>3. ASSUME NEW u \in Tasks,
             \/ \E how \in Promise!Running : Promise!Begin(u, how)
             \/ Promise!Cut(u) \/ \E how \in Promise!Ended : Promise!End(u, how)
      PROVE  NoWayBack(t)
  BY <1>2, <1>3 DEF Promise!Begin, Promise!Cut, Promise!End, Promise!Ended, Promise!Running, JobMap
<1>4. CASE Promise!Close \/ Promise!Abandon \/ Promise!Closed \/ UNCHANGED Promise!vars
  BY <1>1, <1>4 DEF Promise!Close, Promise!Abandon, Promise!Closed, Promise!vars, JobMap
<1>5. CASE Promise!CancelAgain
  <2>1. JobState(t)' = IF JobState(t) = "deaf" THEN "running" ELSE JobState(t)
    BY <1>5 DEF Promise!CancelAgain, JobMap
  <2>. QED BY <2>1 DEF NoWayBack
<1>. QED BY <1>3, <1>4, <1>5 DEF Promise!Next

\* What that comes to for the agents of run_jobs: no more of them run than
\* max_workers, none when it has returned or raised after its stop, and none is
\* begun a second time.  Of a run_jobs that left its stop unbegun ("abandoned")
\* only the limit and the last hold.  It follows from the promise alone.
THEOREM RunJobsBounded ==
  BatchSpec => /\ [](/\ Cardinality({t \in Tasks : JobState(t) \in {"running", "deaf"}}) <= NumWorkers
                     /\ caller \in {"returned", "raised"} =>
                          \A t \in Tasks : JobState(t) \notin {"running", "deaf"})
               /\ [][\A t \in Tasks : NoWayBack(t)]_(Promise!vars)
<1> DEFINE Few == Cardinality({t \in Tasks : JobState(t) \in {"running", "deaf"}}) <= NumWorkers
           Over == caller \in {"returned", "raised"} =>
                     \A t \in Tasks : JobState(t) \notin {"running", "deaf"}
<1>1. Promise!Init => Within
  <2>. SUFFICES ASSUME Promise!Init PROVE Within
    OBVIOUS
  <2>1. Promise!RunningJobs = {}
    BY DEF Promise!Init, Promise!RunningJobs, Promise!Running
  <2>. QED BY <2>1, FS_EmptySet DEF Within, PoolAssumption
<1>2. Within => Few /\ Over
  <2>1. Promise!RunningJobs = {t \in Tasks : JobState(t) \in {"running", "deaf"}}
    BY DEF Promise!RunningJobs, Promise!Running
  <2>. QED BY <2>1 DEF Within, BatchState
<1>3. [Promise!Next]_(Promise!vars) => [\A t \in Tasks : NoWayBack(t)]_(Promise!vars)
  BY BatchNoWayBack
<1>. QED
  BY <1>1, <1>2, <1>3, BatchKeepsWithin, RunJobsIsBatch, PTL DEF IsBatch, Promise!Spec

-----------------------------------------------------------------------------
(* No job is lost. *)

\* The tables say what became of the tasks that were finished.
TablesTell ==
  /\ completed \in [Tasks -> BOOLEAN] /\ errors \in [Tasks -> {"none", "failed", "timeout"}]
  /\ \A t \in Tasks : completed[t] <=> status[t] = "COMPLETED"
  /\ \A t \in Tasks : errors[t] = "failed" <=> status[t] = "FAILED"

\* Before the pool is being stopped, a job that is not finished is somewhere.
NoneLost ==
  caller \in {"filling", "started", "waiting"} =>
    \A t \in Tasks :
      status[t] \in {"PENDING", "RUNNING"} => Places(t) # {} \/ Holders(t) # {}

AllFilled == caller # "filling" => \A t \in Tasks : status[t] # "none"

\* A timeout is written down by the one answer that is a timeout; after any other
\* answer a job without an entry is, or was, with a worker.
AllTold ==
  /\ (\E t \in Tasks : errors[t] = "timeout") =>
        waiter = "TIMEOUT" /\ caller \notin {"filling", "started", "waiting"}
  /\ caller \in {"answered", "stopping", "returned"} =>
       \A t \in Tasks : \/ completed[t] \/ errors[t] # "none"
                        \/ waiter = "Ok" /\ (Holders(t) # {} \/ status[t] = "RUNNING")

\* run_jobs enqueues on an unbounded queue, so nobody waits to put.
Kept == putting = {} /\ TablesTell /\ NoneLost /\ AllFilled /\ AllTold

\* No job is lost at first ...
LEMMA InitKept == BatchInit => Kept
BY DEF BatchInit, Init, Kept, TablesTell, NoneLost, AllFilled, AllTold

\* Steps of the pool that move no task.
LEMMA SameKept ==
  ASSUME Kept, UNCHANGED <<queue, status, putting, completed, errors, caller, waiter>>,
         \A w \in Workers : worker'[w].task = worker[w].task
  PROVE  Kept'
<1>1. \A t \in Tasks : Holders(t)' = Holders(t) /\ Places(t)' = Places(t)
  BY DEF Holders, Places
<1>. QED BY <1>1 DEF Kept, TablesTell, NoneLost, AllFilled, AllTold

\* A worker that begins a job takes it from where it was.
LEMMA ProcessKept ==
  ASSUME PoolSafe, Kept, NEW w \in Workers, NEW t \in Tasks, Process(w, t),
         status[t] = "PENDING", worker[w].task \in {t, NoTask},
         \A u \in Tasks : u # t /\ Places(u) # {} => Places(u)' # {},
         UNCHANGED <<putting, completed, errors, caller, waiter>>
  PROVE  Kept'
<1>. USE DEF PoolSafe, Exact, Tracked, Kept
<1>0. worker \in [Workers -> Worker] /\ status \in [Tasks -> Statuses] /\ NoTask \notin Tasks
  BY DEF Typed, PoolAssumption
<1>1. /\ status'[t] = "RUNNING" /\ \A u \in Tasks : u # t => status'[u] = status[u]
      /\ worker'[w].task = t /\ \A v \in Workers : v # w => worker'[v] = worker[v]
  BY <1>0 DEF Process, Worker
<1>2. Holders(t)' # {} /\ \A u \in Tasks : u # t => Holders(u)' = Holders(u)
  BY <1>0, <1>1 DEF Holders
<1>3. TablesTell'
  BY <1>0, <1>1 DEF TablesTell
<1>4. NoneLost'
  BY <1>1, <1>2 DEF NoneLost
<1>5. AllFilled' /\ AllTold'
  BY <1>1, <1>2 DEF AllFilled, AllTold
<1>. QED BY <1>3, <1>4, <1>5

\* ... nor by any step.
LEMMA NextKept ==
  ASSUME MaxSize = 0, PoolSafe, Orderly, Kept, [BatchNext]_allVars
  PROVE  Kept'
<1>. USE DEF PoolSafe, Exact, Tracked, Kept
<1>0. /\ worker \in [Workers -> Worker] /\ status \in [Tasks -> Statuses]
      /\ NoTask \notin Tasks /\ queue \in Seq(Tasks)
  BY DEF Typed, PoolAssumption
<1>1. ASSUME NEW t \in Tasks, Fill(t) PROVE Kept'
  <2>1. /\ queue' = Append(queue, t) /\ status[t] = "none" /\ caller = "filling"
        /\ status' = [status EXCEPT ![t] = "PENDING"]
        /\ UNCHANGED <<putting, worker, completed, errors, caller, waiter>>
    BY <1>1 DEF Fill, enqueue, Full, batchVars
  <2>2. /\ DOMAIN queue' = DOMAIN queue \cup {Len(queue) + 1} /\ queue'[Len(queue) + 1] = t
        /\ \A i \in DOMAIN queue : queue'[i] = queue[i]
    BY <1>0, <2>1, Appended
  <2>3. /\ Places(t)' # {} /\ \A u \in Tasks : Places(u) # {} => Places(u)' # {}
        /\ \A u \in Tasks : Holders(u)' = Holders(u)
    BY <2>1, <2>2 DEF Places, Holders
  <2>4. \A u \in Tasks : u # t => status'[u] = status[u]
    BY <1>0, <2>1
  <2>5. NoneLost'
    BY <2>1, <2>3, <2>4 DEF NoneLost
  <2>6. TablesTell'
    BY <1>0, <2>1 DEF TablesTell
  <2>. QED BY <2>1, <2>5, <2>6 DEF AllFilled, AllTold
<1>2. CASE StartPool
  <2>1. /\ << >> \in Seq(Workers) /\ size \in Nat /\ Hire(<< >>, size)
        /\ UNCHANGED <<queue, status, putting, completed, errors, waiter>>
        /\ caller = "filling" /\ caller' = "started" /\ \A t \in Tasks : status[t] # "none"
    BY <1>2 DEF StartPool, start, Goto, KeepTables, Typed
  <2>2. \A w \in Workers : worker'[w].task = worker[w].task
    BY <2>1, HireEffect
  <2>3. \A u \in Tasks : Holders(u)' = Holders(u) /\ Places(u)' = Places(u)
    BY <2>1, <2>2 DEF Holders, Places
  <2>4. TablesTell' /\ NoneLost'
    BY <2>1, <2>3 DEF TablesTell, NoneLost
  <2>5. AllFilled' /\ AllTold'
    BY <2>1 DEF AllFilled, AllTold
  <2>. QED BY <2>1, <2>4, <2>5
<1>3. CASE Await \/ WaitCancelled
  <2>1. /\ UNCHANGED <<queue, status, putting, worker, completed, errors>>
        /\ caller \in {"started", "waiting"} /\ caller' \in {"waiting", "cancelled"}
    BY <1>3 DEF Await, WaitCancelled, wait_for_completion, Goto, KeepTables
  <2>2. ~ \E t \in Tasks : errors[t] = "timeout"
    BY <2>1 DEF AllTold
  <2>. QED BY <2>1, <2>2 DEF TablesTell, NoneLost, AllFilled, AllTold, Holders, Places
<1>4. CASE JobsDone
  <2>1. /\ UNCHANGED <<queue, status, putting, worker, completed, errors>>
        /\ caller = "waiting" /\ caller' = "answered" /\ waiter' = "Ok"
        /\ queue = << >>
    BY <1>4 DEF JobsDone, Completes, Goto, KeepTables
  <2>2. \A t \in Tasks : Places(t) = {} /\ Holders(t)' = Holders(t)
    BY <2>1 DEF Places, Holders
  <2>3. \A t \in Tasks : status[t] \in {"COMPLETED", "FAILED"} \/ Holders(t) # {}
    BY <1>0, <2>1, <2>2 DEF NoneLost, AllFilled, Statuses
  <2>4. AllTold'
    <3>1. ~ \E t \in Tasks : errors[t] = "timeout"
      BY <2>1 DEF AllTold
    <3>2. \A t \in Tasks : completed[t] \/ errors[t] # "none" \/ Holders(t) # {}
      BY <2>3 DEF TablesTell
    <3>. QED BY <2>1, <2>2, <3>1, <3>2 DEF AllTold
  <2>. QED BY <2>1, <2>4 DEF TablesTell, NoneLost, AllFilled
<1>5. CASE JobsTimeOut
  <2>1. /\ UNCHANGED <<queue, status, putting, worker, completed>>
        /\ caller = "waiting" /\ caller' = "answered" /\ waiter' = "TIMEOUT"
        /\ errors' = [t \in Tasks |->
             IF ~completed[t] /\ errors[t] = "none" THEN "timeout" ELSE errors[t]]
    BY <1>5 DEF JobsTimeOut, TimesOut, Goto
  <2>2. \A t \in Tasks : completed[t] \/ errors'[t] # "none"
    BY <2>1 DEF TablesTell
  <2>3. \A t \in Tasks : errors'[t] = "failed" <=> errors[t] = "failed"
    BY <2>1
  <2>4. errors' \in [Tasks -> {"none", "failed", "timeout"}]
    BY <2>1 DEF TablesTell
  <2>. QED BY <2>1, <2>2, <2>3, <2>4 DEF TablesTell, NoneLost, AllFilled, AllTold
<1>6. CASE StopPool \/ Return \/ StopUnbegun \/ StopCancelled
  <2>1. /\ UNCHANGED <<queue, status, putting, completed, errors, waiter>>
        /\ \A w \in Workers : worker'[w].task = worker[w].task
        /\ \/ caller = "answered" /\ caller' = "stopping"
           \/ caller = "cancelled" /\ caller' = "unwinding"
           \/ caller = "stopping" /\ caller' = "returned"
           \/ caller = "unwinding" /\ caller' = "raised"
           \/ caller \in {"stopping", "unwinding"} /\ caller' \in {"abandoned", "unwinding"}
    BY <1>0, <1>6 DEF StopPool, Return, StopUnbegun, StopCancelled, stop, AdminReturns, Goto,
                      KeepTables, Worker
  <2>2. \A u \in Tasks : Holders(u)' = Holders(u)
    BY <2>1 DEF Holders
  <2>. QED BY <2>1, <2>2 DEF TablesTell, NoneLost, AllFilled, AllTold
<1>7. ASSUME NEW w \in Workers, WorkerMoves(w) PROVE Kept'
  <2>1. Suspended /\ UNCHANGED <<caller, completed, errors, putting, waiter>>
    BY <1>7 DEF WorkerMoves, batchVars, Dequeue, Resume, Killed, StopWorker, poolVars
  <2>2. CASE Resume(w)
    <3>1. /\ worker[w].task \in Tasks /\ status[worker[w].task] = "PENDING"
          /\ Process(w, worker[w].task) /\ UNCHANGED queue
      BY <1>0, <2>2 DEF Resume, OnePlace, TaskWhileHolding, HeldStatus, Worker
    <3>2. \A u \in Tasks : Places(u)' = Places(u)
      BY <3>1 DEF Places
    <3>. QED BY <2>1, <3>1, <3>2, ProcessKept
  <2>3. CASE Dequeue(w)
    <3>1. /\ Head(queue) \in Tasks /\ status[Head(queue)] = "PENDING" /\ queue' = Tail(queue)
          /\ queue # << >> /\ worker[w].phase = "polling" /\ worker[w].task = NoTask
      BY <2>3, HeadApart DEF Dequeue, OnePlace, TaskWhileHolding
    <3>2. \A t \in Tasks : t # Head(queue) /\ Places(t) # {} => Places(t)' # {}
      BY <1>0, <3>1, LeftBehind DEF Places
    <3>3. CASE Process(w, Head(queue))
      BY <2>1, <3>1, <3>2, <3>3, ProcessKept
    <3>4. CASE /\ worker' = [worker EXCEPT ![w].phase = "handed", ![w].task = Head(queue)]
               /\ UNCHANGED status
      <4>0. PICK h \in Tasks : h = Head(queue)
        BY <3>1
      <4>1. worker'[w].task = h /\ \A v \in Workers : v # w => worker'[v] = worker[v]
        BY <1>0, <3>4, <4>0 DEF Worker
      <4>2. /\ Holders(h)' # {}
            /\ \A t \in Tasks : t # h => Holders(t)' = Holders(t) /\ (Places(t) # {} => Places(t)' # {})
        BY <1>0, <3>1, <3>2, <4>0, <4>1 DEF Holders
      <4>3. NoneLost'
        BY <2>1, <3>4, <4>2 DEF NoneLost
      <4>4. AllTold'
        BY <2>1, <3>4, <4>2 DEF AllTold
      <4>. QED BY <2>1, <3>4, <4>3, <4>4 DEF TablesTell, AllFilled
    <3>. QED BY <2>3, <3>3, <3>4 DEF Dequeue
  <2>4. CASE Killed(w)
    <3>1. worker[w].cancelled /\ UNCHANGED <<queue, status>>
      BY <2>4 DEF Killed
    <3>2. caller \in {"stopping", "unwinding"}
      BY <2>1, <3>1 DEF Orderly, Suspended, BatchState, NoAdmin
    <3>3. \A t \in Tasks : Holders(t) # {} => Holders(t)' # {} \/ status[t] = "RUNNING"
      <4>1. \A v \in Workers : v # w => worker'[v] = worker[v]
        BY <1>0, <2>4 DEF Killed
      <4>2. worker[w].task # NoTask => status[worker[w].task] = "RUNNING"
        BY <2>4 DEF Killed, OnePlace, TaskWhileHolding, HeldStatus
      <4>. QED BY <1>0, <4>1, <4>2 DEF Holders
    <3>4. NoneLost' /\ AllFilled' /\ TablesTell'
      BY <2>1, <3>1, <3>2 DEF NoneLost, AllFilled, TablesTell
    <3>5. AllTold'
      BY <2>1, <3>1, <3>3 DEF AllTold
    <3>. QED BY <2>1, <3>4, <3>5
  <2>5. CASE StopWorker(w)
    <3>1. /\ UNCHANGED <<queue, status>>
          /\ \A v \in Workers : worker'[v].task = worker[v].task
      BY <1>0, <2>5 DEF StopWorker, Worker
    <3>. QED BY <2>1, <3>1, SameKept
  <2>. QED BY <1>7, <2>2, <2>3, <2>4, <2>5 DEF WorkerMoves
<1>8. ASSUME NEW w \in Workers, JobEnds(w) PROVE Kept'
  <2>1. Finish(w) /\ UNCHANGED <<caller, queue, putting, waiter>>
    BY <1>8 DEF JobEnds, Finish
  <2>2. PICK t \in Tasks : t = worker[w].task /\ status[t] = "RUNNING"
    BY <1>0, <2>1 DEF Finish, OnePlace, TaskWhileHolding, HeldStatus, Worker
  <2>3. PICK s \in {"COMPLETED", "FAILED"} : status' = [status EXCEPT ![t] = s]
    BY <2>1, <2>2 DEF Finish
  <2>4. /\ completed' = [completed EXCEPT ![t] = (s = "COMPLETED")]
        /\ errors' = IF s = "COMPLETED" THEN errors ELSE [errors EXCEPT ![t] = "failed"]
    <3>1. status'[t] = s /\ completed[t] = FALSE
      BY <1>0, <2>2, <2>3 DEF TablesTell
    <3>. QED BY <1>8, <2>2, <3>1 DEF JobEnds, TablesTell
  <2>5. worker'[w].task = NoTask /\ \A v \in Workers : v # w => worker'[v] = worker[v]
    BY <1>0, <2>1 DEF Finish, Worker
  <2>6. errors[t] # "failed" /\ ~completed[t]
    BY <2>2 DEF TablesTell
  <2>7. status'[t] = s /\ \A u \in Tasks : u # t => status'[u] = status[u]
    BY <1>0, <2>2, <2>3
  <2>8. \A u \in Tasks : u # t => completed'[u] = completed[u] /\ errors'[u] = errors[u]
    BY <2>4 DEF TablesTell
  <2>9. \A u \in Tasks : u # t => Holders(u)' = Holders(u) /\ Places(u)' = Places(u)
    BY <1>0, <2>1, <2>2, <2>5 DEF Holders, Places
  <2>10. TablesTell'
    <3>1. /\ completed' \in [Tasks -> BOOLEAN] /\ errors' \in [Tasks -> {"none", "failed", "timeout"}]
          /\ completed'[t] <=> s = "COMPLETED"
          /\ errors'[t] = "failed" <=> s = "FAILED"
      BY <2>3, <2>4, <2>6 DEF TablesTell
    <3>2. ASSUME NEW u \in Tasks
          PROVE  /\ completed'[u] <=> status'[u] = "COMPLETED"
                 /\ errors'[u] = "failed" <=> status'[u] = "FAILED"
      <4>1. CASE u = t
        BY <2>7, <3>1, <4>1
      <4>2. CASE u # t
        BY <2>7, <2>8, <4>2 DEF TablesTell
      <4>. QED BY <4>1, <4>2
    <3>. QED BY <3>1, <3>2 DEF TablesTell
  <2>11. NoneLost' /\ AllFilled'
    BY <2>1, <2>3, <2>7, <2>9 DEF NoneLost, AllFilled
  <2>12. AllTold'
    <3>1. completed'[t] \/ errors'[t] # "none"
      BY <2>3, <2>7, <2>10 DEF TablesTell
    <3>2. \A u \in Tasks : errors'[u] = "timeout" => errors[u] = "timeout"
      BY <2>4, <2>8 DEF TablesTell
    <3>3. \A u \in Tasks : u # t =>
            /\ completed'[u] = completed[u] /\ errors'[u] = errors[u]
            /\ Holders(u)' = Holders(u) /\ status'[u] = status[u]
      BY <2>7, <2>8, <2>9
    <3>. QED BY <2>1, <3>1, <3>2, <3>3 DEF AllTold
  <2>. QED BY <2>1, <2>10, <2>11, <2>12
<1>9. CASE UNCHANGED allVars
  BY <1>9, SameKept DEF allVars, vars, batchVars
<1>. QED BY <1>1, <1>2, <1>3, <1>4, <1>5, <1>6, <1>7, <1>8, <1>9
         DEF BatchNext, CallerStep, RunCancelled

\* EveryJobAccounted, with an unbounded queue (run_jobs gives it no maxsize) and
\* whichever way wait_for awaits queue.get(): before the stop every job is queued,
\* with a worker or in a table; an answer Ok means that none is queued, a timeout
\* is written down for all that are in no table, and when the stop has returned
\* no worker holds a job, so one that it held has ended or was cut.
THEOREM NoJobForgotten ==
  ASSUME MaxSize = 0
  PROVE  BatchSpec => []EveryJobAccounted
<1>1. PoolSafe /\ Orderly /\ Kept => EveryJobAccounted
  <2>. SUFFICES ASSUME PoolSafe, Orderly, Kept PROVE EveryJobAccounted
    OBVIOUS
  <2>1. Cardinality(Busy) \in Nat
    BY WorkersFinite DEF Busy
  <2>2. TypeOK
    BY <2>1 DEF PoolSafe, Exact, Tracked, InProgressExact, Typed, TypeOK
  <2>3. BatchTypeOK
    BY <2>2 DEF BatchTypeOK, Orderly, Kept, TablesTell
  <2>4. ASSUME caller = "returned", NEW t \in Tasks
        PROVE  /\ \/ completed[t] \/ errors[t] # "none"
                  \/ waiter = "Ok" /\ JobState(t) = "cut"
               /\ errors[t] = "failed" => ~completed[t]
               /\ errors[t] = "timeout" => waiter = "TIMEOUT"
    <3>1. Live = {}
      BY <2>4 DEF PoolSafe, Listed, Orderly, BatchState
    <3>2. Holders(t) = {}
      BY <3>1 DEF Live, Holders, PoolSafe, Exact, Tracked, OnePlace, TaskWhileHolding, PoolAssumption
    <3>3. status[t] = "RUNNING" => JobState(t) = "cut"
      BY <3>2 DEF JobState
    <3>4. errors[t] = "failed" => ~completed[t]
      BY DEF Kept, TablesTell
    <3>. QED BY <2>4, <3>2, <3>3, <3>4 DEF Kept, AllTold
  <2>. QED BY <2>3, <2>4 DEF EveryJobAccounted
<1>. QED BY <1>1, InitOrderly, NextOrderly, BatchPoolSafe, InitKept, NextKept, PTL DEF BatchSpec
=============================================================================
