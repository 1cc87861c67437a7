----------------------------- MODULE LlmClient ------------------------------
(***************************************************************************)
(* LLMClient.complete and LLMClient.stream of dawn_kestrel/llm/client.py,  *)
(* for calls to one provider, with the global semaphore and rate limiter   *)
(* that configure_global_rate_limiter installs and the answers that        *)
(* HashMapEvidenceSharingStrategy keeps.                                   *)
(*                                                                         *)
(* Both collect the provider's events in a coroutine that retries: complete*)
(* runs it itself, stream in a task of its own beside a task that sleeps   *)
(* for the timeout.  An attempt holds a permit of the semaphore while it   *)
(* polls the rate limiter and while the provider answers.                  *)
(***************************************************************************)
EXTENDS TokenBucket, Sequences, FiniteSets, SequencesExt

CONSTANTS
  Calls,
  Requests,     \* request fingerprints of complete
  NoRequest,
  Poll,         \* ticks between two questions to the rate limiter
  MaxAttempts,
  MaxEntries    \* answers kept

ASSUME ClientAssumption ==
  /\ IsFiniteSet(Calls)
  /\ NoRequest \notin Requests /\ Poll \in Nat \ {0}
  /\ MaxAttempts \in Nat \ {0} /\ MaxEntries \in Nat \ {0}

VARIABLES
  caller,     \* each call: what it asked for and where its caller is
  task,       \* its collecting coroutine
  cancelling, \* collecting coroutines with a cancellation to be delivered
  permits,    \* value of _global_concurrency_semaphore
  queue,      \* its waiters
  evidence    \* keys of the evidence strategy's store, oldest first

clientVars == <<caller, task, cancelling, permits, queue, evidence>>
vars == <<bucketVars, clientVars>>

\* A call that returned has an answer or raised.
Stages == {"idle", "awaiting", "returned", "cancelled"}
Places == {"none", "created", "queued", "granted", "sleeping", "request",
           "backoff", "done", "gone"}

TypeOK ==
  /\ BucketTypeOK
  /\ caller \in [Calls -> [stage : Stages, request : Requests \cup {NoRequest}]]
  /\ task \in [Calls -> [at : Places, left : 0..Poll, attempt : 0..MaxAttempts]]
  /\ cancelling \subseteq Calls
  /\ permits \in 0..Capacity
  /\ queue \in Seq(Calls) /\ Len(queue) <= Cardinality(Calls)
  /\ evidence \in Seq(Requests) /\ Len(evidence) <= MaxEntries

Init ==
  /\ BucketInit
  /\ caller = [c \in Calls |-> [stage |-> "idle", request |-> NoRequest]]
  /\ task = [c \in Calls |-> [at |-> "none", left |-> 0, attempt |-> 0]]
  /\ cancelling = {}
  /\ permits = Capacity /\ queue = << >>
  /\ evidence = << >>

Streams(c) == caller[c].request = NoRequest

-----------------------------------------------------------------------------
(* The callers. *)

Stage(c, s) == caller' = [caller EXCEPT ![c].stage = s]
Returns(c) == caller' = [caller EXCEPT ![c] = [stage |-> "returned", request |-> NoRequest]]
Ended(at) == [at |-> at, left |-> 0, attempt |-> 0]

\* The recently used end of the store.
Touched(r) == Append(RemoveFirst(evidence, r), r)

\* A kept answer is copied; otherwise _collect_stream_events_with_retry runs.
complete(c, r) ==
  /\ caller[c].stage = "idle"
  /\ IF r \in ToSet(evidence)
     THEN /\ Returns(c)
          /\ evidence' = Touched(r)
          /\ UNCHANGED task
     ELSE /\ caller' = [caller EXCEPT ![c] = [stage |-> "awaiting", request |-> r]]
          /\ task' = [task EXCEPT ![c].at = "created", ![c].attempt = 1]
          /\ UNCHANGED evidence
  /\ UNCHANGED <<bucketVars, cancelling, permits, queue>>

stream(c) ==
  /\ caller[c].stage = "idle"
  /\ Stage(c, "awaiting")
  /\ task' = [task EXCEPT ![c].at = "created", ![c].attempt = 1]
  /\ UNCHANGED <<bucketVars, cancelling, permits, queue, evidence>>

\* asyncio.wait comes back with the stream's task ...
StreamDone(c) ==
  /\ caller[c].stage = "awaiting" /\ Streams(c)
  /\ task[c].at = "done"
  /\ Returns(c)
  /\ task' = [task EXCEPT ![c] = Ended("gone")]
  /\ UNCHANGED <<bucketVars, cancelling, permits, queue, evidence>>

Over(c) == task[c].at \in {"none", "done", "gone"}

\* As if the timeout returned without cancelling.
StreamTimesOut_Mutant(c) ==
  /\ caller[c].stage = "awaiting" /\ Streams(c)
  /\ Returns(c)
  /\ UNCHANGED <<bucketVars, task, cancelling, permits, queue, evidence>>

\* ... or with the timeout's, which wins if both are done.
StreamTimesOut(c) ==
  /\ caller[c].stage = "awaiting" /\ Streams(c)
  /\ Returns(c)
  /\ cancelling' = IF Over(c) THEN cancelling ELSE cancelling \cup {c}
  /\ UNCHANGED <<bucketVars, task, permits, queue, evidence>>

\* The caller is cancelled.  complete takes the cancellation into the coroutine;
\* asyncio.wait leaves both tasks of stream running.
Cancel(c) ==
  /\ caller[c].stage = "awaiting"
  /\ Stage(c, "cancelled")
  /\ cancelling' = IF Streams(c) THEN cancelling ELSE cancelling \cup {c}
  /\ UNCHANGED <<bucketVars, task, permits, queue, evidence>>

-----------------------------------------------------------------------------
(* The collecting coroutine. *)

Runs(c) == c \notin cancelling
KeepCaller == UNCHANGED <<caller, evidence>>

Release_Mutant(t) == permits' = permits + 1 /\ task' = t /\ UNCHANGED queue

ReleaseTwice_Mutant(t) ==
  /\ permits' = permits + 1
  /\ IF queue = << >> THEN task' = t /\ UNCHANGED queue
     ELSE task' = [t EXCEPT ![Head(queue)].at = "granted"] /\ queue' = Tail(queue)

\* The semaphore is released: its first waiter gets the permit.
Release(t) ==
  IF queue = << >> THEN permits' = permits + 1 /\ task' = t /\ UNCHANGED queue
  ELSE /\ task' = [t EXCEPT ![Head(queue)].at = "granted"]
       /\ queue' = Tail(queue) /\ UNCHANGED permits

\* acquire_rate_limit, once a permit is held: the request is sent, or the
\* coroutine sleeps before it asks again.
AskLimiter(c) ==
  \/ Taken /\ task' = [task EXCEPT ![c].at = "request", ![c].left = 0]
  \/ Refused /\ task' = [task EXCEPT ![c].at = "sleeping", ![c].left = Poll]

\* An attempt begins at the semaphore.
Attempt(c) ==
  /\ task[c].at \in {"created", "backoff"} /\ Runs(c)
  /\ IF permits > 0 /\ queue = << >>
     THEN permits' = permits - 1 /\ AskLimiter(c) /\ UNCHANGED queue
     ELSE /\ task' = [task EXCEPT ![c].at = "queued"]
          /\ queue' = Append(queue, c)
          /\ UNCHANGED <<bucketVars, permits>>
  /\ UNCHANGED cancelling /\ KeepCaller

Granted(c) ==
  /\ task[c].at = "granted" /\ Runs(c)
  /\ AskLimiter(c)
  /\ UNCHANGED <<cancelling, permits, queue>> /\ KeepCaller

Wake(c) ==
  /\ task[c].at = "sleeping" /\ task[c].left = 0 /\ Runs(c)
  /\ AskLimiter(c)
  /\ UNCHANGED <<cancelling, permits, queue>> /\ KeepCaller

\* complete keeps the answer and returns it.
Answers(c) ==
  /\ Returns(c)
  /\ evidence' = LET e == Touched(caller[c].request)
                 IN  IF Len(e) > MaxEntries THEN Tail(e) ELSE e

\* The provider's stream ends, breaks off, or runs into wait_for's timeout.
\* A transient error is retried after a pause, up to MaxAttempts attempts.
RequestEnds(c, how) ==
  /\ task[c].at = "request" /\ Runs(c)
  /\ IF how = "transient" /\ task[c].attempt < MaxAttempts
     THEN /\ Release([task EXCEPT ![c].at = "backoff", ![c].attempt = @ + 1])
          /\ KeepCaller
     ELSE /\ Release([task EXCEPT ![c] = Ended(IF Streams(c) THEN "done" ELSE "gone")])
          /\ IF Streams(c) THEN KeepCaller
             ELSE IF how = "ok" THEN Answers(c)
             ELSE Returns(c) /\ UNCHANGED evidence
  /\ UNCHANGED <<bucketVars, cancelling>>

\* CancelledError comes out of whatever the coroutine awaits.
Unwind(c) ==
  /\ c \in cancelling
  /\ cancelling' = cancelling \ {c}
  /\ LET gone == [task EXCEPT ![c] = Ended("gone")]
     IN  IF task[c].at \in {"granted", "sleeping", "request"} THEN Release(gone)
         ELSE /\ task' = gone /\ UNCHANGED permits
              /\ queue' = RemoveFirst(queue, c)
  /\ UNCHANGED bucketVars /\ KeepCaller

Tick ==
  /\ Elapse
  /\ task' = [c \in Calls |-> [task[c] EXCEPT !.left = IF @ = 0 THEN 0 ELSE @ - 1]]
  /\ UNCHANGED <<caller, cancelling, permits, queue, evidence>>

Next ==
  \/ \E c \in Calls :
       \/ \E r \in Requests : complete(c, r)
       \/ stream(c) \/ StreamDone(c) \/ StreamTimesOut(c) \/ Cancel(c)
       \/ Attempt(c) \/ Granted(c) \/ Wake(c) \/ Unwind(c)
       \/ \E how \in {"ok", "transient", "permanent"} : RequestEnds(c, how)
  \/ Tick

Spec == Init /\ [][Next]_vars

\* The event loop runs what is ready, clocks advance and timers fire.  The
\* provider owes nothing: a request that it never answers times out.
Fairness ==
  /\ WF_vars(Tick)
  /\ \A c \in Calls :
       /\ WF_vars(StreamDone(c)) /\ WF_vars(StreamTimesOut(c))
       /\ WF_vars(Attempt(c)) /\ WF_vars(Granted(c)) /\ WF_vars(Wake(c))
       /\ WF_vars(RequestEnds(c, "transient")) /\ WF_vars(Unwind(c))

FairSpec == Spec /\ Fairness

-----------------------------------------------------------------------------
(* Properties. *)

Holders == {c \in Calls : task[c].at \in {"granted", "sleeping", "request"}}

\* Timeouts, retries and cancellations neither lose nor double a permit, so no
\* more than Capacity requests are under way, and none lies idle while an
\* attempt waits for it.
PermitsExact ==
  /\ TypeOK
  /\ permits + Cardinality(Holders) = Capacity
  /\ permits > 0 => queue = << >>

\* A coroutine that still collects does so for a caller that waits, or is being
\* cancelled, or was left behind by a cancelled stream.
NoStrays ==
  \A c \in Calls : ~Over(c) =>
    \/ caller[c].stage = "awaiting" \/ c \in cancelling
    \/ caller[c].stage = "cancelled" /\ Streams(c)

\* Every call comes to its end.  A stream's timeout stands beside everything it
\* waits for.  Of complete only the requests have one, so the rate limiter must
\* let every attempt through in the end: it does if a tick accrues a whole token.
CallsReturn ==
  \A c \in Calls : caller[c].stage = "awaiting" ~> caller[c].stage # "awaiting"
=============================================================================
