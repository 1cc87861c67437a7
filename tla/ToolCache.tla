----------------------------- MODULE ToolCache -----------------------------
(***************************************************************************)
(* ToolResultCache of dawn_kestrel/tools/cache.py, shared by concurrent    *)
(* agents: an LRU map with expiry, and a pending future per key that lets  *)
(* all callers of a key wait for the one that executes the tool.           *)
(*                                                                         *)
(* self._lock guards bodies without an await, so it is never contended:    *)
(* aget_or_execute runs from its entry to "await pending_future" or to     *)
(* "await execute_fn()" in one action, and its second look under the lock  *)
(* always sees what the first one saw.  Tools that are not cacheable never *)
(* reach the state modelled here.                                          *)
(***************************************************************************)
EXTENDS Naturals, Sequences, FiniteSets

CONSTANTS
  Callers,     \* agents that call aget_or_execute
  Keys,        \* cache keys of cacheable tools
  ToolOf,      \* the tool of a key, for invalidate(tool_name)
  Sizes,       \* values max_size is given, at first and by resize
  NoKey,
  MaxCalls,    \* bound: calls of aget_or_execute
  MaxCancels   \* bound: callers cancelled

ASSUME CacheAssumption ==
  /\ Sizes \subseteq Nat \ {0} /\ Sizes # {}
  /\ MaxCalls \in Nat /\ MaxCancels \in Nat

VARIABLES
  cache,     \* self._cache, least recently used first: [key, fresh]
  maxSize,   \* self._max_size
  pending,   \* self._pending: key -> future, 0 when there is none
  future,    \* the futures created so far, one per execution
  call,      \* what each caller is doing in aget_or_execute
  calls, cancels

vars == <<cache, maxSize, pending, future, call, calls, cancels>>

Entry == [key : Keys, fresh : BOOLEAN]

Futures == 1..MaxCalls

\* "None" is the future an executor completes when its tool raised.
FutureStates == {"unborn", "open", "entry", "None", "cancelled"}

Outcomes == {"none", "executed", "cached", "None", "Error", "CancelledError",
             "InvalidStateError"}

Call == [phase : {"idle", "executing", "waiting"}, key : Keys \cup {NoKey},
         fut : Futures \cup {0}, out : Outcomes]

TypeOK ==
  /\ cache \in Seq(Entry)
  /\ maxSize \in Sizes
  /\ pending \in [Keys -> Futures \cup {0}]
  /\ future \in [Futures -> FutureStates]
  /\ call \in [Callers -> Call]
  /\ calls \in 0..MaxCalls /\ cancels \in 0..MaxCancels

Init ==
  /\ cache = << >> /\ maxSize \in Sizes
  /\ pending = [k \in Keys |-> 0]
  /\ future = [f \in Futures |-> "unborn"]
  /\ call = [c \in Callers |-> [phase |-> "idle", key |-> NoKey, fut |-> 0,
                                out |-> "none"]]
  /\ calls = 0 /\ cancels = 0

-----------------------------------------------------------------------------
(* The LRU map. *)

Cached(k) == \E i \in DOMAIN cache : cache[i].key = k
Fresh(k) == \E i \in DOMAIN cache : cache[i].key = k /\ cache[i].fresh

\* Evicting the entries of the keys.
Without(s, keys) ==
  LET kept[i \in 0 .. Len(s)] ==
        IF i = 0 THEN << >>
        ELSE IF s[i].key \in keys THEN kept[i - 1]
        ELSE Append(kept[i - 1], s[i])
  IN  kept[Len(s)]

MoveToEnd(s, k) == Append(Without(s, {k}), s[CHOOSE i \in DOMAIN s : s[i].key = k])

\* "while len(self._cache) >= self._max_size: self._evict_oldest()"
Evicted(s) ==
  IF Len(s) < maxSize THEN s ELSE SubSeq(s, Len(s) - maxSize + 2, Len(s))

\* Store after evicting: an entry that is still there keeps its place.
Stored_Mutant(k) ==
  LET new == [key |-> k, fresh |-> TRUE]
      all == IF Cached(k) THEN [i \in DOMAIN cache |-> IF cache[i].key = k THEN new ELSE cache[i]]
             ELSE Append(cache, new)
  IN Evicted(all)

Stored(k) ==
  LET new == [key |-> k, fresh |-> TRUE]
      old == Evicted(cache)
  IN IF \E i \in DOMAIN old : old[i].key = k
     THEN [i \in DOMAIN old |-> IF old[i].key = k THEN new ELSE old[i]]
     ELSE Append(old, new)

-----------------------------------------------------------------------------
(* aget_or_execute. *)

Answer(c, out) ==
  call' = [call EXCEPT ![c] = [phase |-> "idle", key |-> NoKey, fut |-> 0, out |-> out]]

Hit(c, k) ==
  /\ Fresh(k)
  /\ cache' = MoveToEnd(cache, k)
  /\ Answer(c, "cached")
  /\ UNCHANGED <<pending, future>>

\* An expired entry is evicted on the way to waiting or executing.
Join(c, k) ==
  /\ ~Fresh(k) /\ pending[k] # 0
  /\ cache' = Without(cache, {k})
  /\ call' = [call EXCEPT ![c] = [phase |-> "waiting", key |-> k,
                                  fut |-> pending[k], out |-> "none"]]
  /\ UNCHANGED <<pending, future>>

Execute_Mutant(c, k) ==
  /\ ~Fresh(k)
  /\ cache' = Without(cache, {k})
  /\ pending' = [pending EXCEPT ![k] = calls + 1]
  /\ future' = [future EXCEPT ![calls + 1] = "open"]
  /\ call' = [call EXCEPT ![c] = [phase |-> "executing", key |-> k,
                                  fut |-> calls + 1, out |-> "none"]]

Execute(c, k) ==
  /\ ~Fresh(k) /\ pending[k] = 0
  /\ cache' = Without(cache, {k})
  /\ pending' = [pending EXCEPT ![k] = calls + 1]
  /\ future' = [future EXCEPT ![calls + 1] = "open"]
  /\ call' = [call EXCEPT ![c] = [phase |-> "executing", key |-> k,
                                  fut |-> calls + 1, out |-> "none"]]

aget_or_execute(c, k) ==
  /\ call[c].phase = "idle"
  /\ calls < MaxCalls
  /\ calls' = calls + 1
  /\ Hit(c, k) \/ Join(c, k) \/ Execute(c, k)
  /\ UNCHANGED <<maxSize, cancels>>

\* future.set_result(value): a future that a waiter cancelled refuses it, and
\* the refusal is what the executor's caller gets.
SetResult(c, value, out) ==
  LET f == call[c].fut IN
  \/ /\ future[f] = "open"
     /\ future' = [future EXCEPT ![f] = value]
     /\ Answer(c, out)
  \/ /\ future[f] = "cancelled"
     /\ Answer(c, "InvalidStateError")
     /\ UNCHANGED future

\* The tool returns: store, complete the future, clear the pending entry.
ExecuteDone(c) ==
  /\ call[c].phase = "executing"
  /\ cache' = Stored(call[c].key)
  /\ SetResult(c, "entry", "executed")
  /\ pending' = [pending EXCEPT ![call[c].key] = 0]
  /\ UNCHANGED <<maxSize, calls, cancels>>

ExecuteRaises_Mutant(c) ==
  /\ call[c].phase = "executing"
  /\ SetResult(c, "None", "Error")
  /\ UNCHANGED <<cache, pending, maxSize, calls, cancels>>

ExecuteRaisesSilently_Mutant(c) ==
  /\ call[c].phase = "executing"
  /\ Answer(c, "Error")
  /\ pending' = [pending EXCEPT ![call[c].key] = 0]
  /\ UNCHANGED <<cache, future, maxSize, calls, cancels>>

\* The tool raises an Exception.
ExecuteRaises(c) ==
  /\ call[c].phase = "executing"
  /\ SetResult(c, "None", "Error")
  /\ pending' = [pending EXCEPT ![call[c].key] = 0]
  /\ UNCHANGED <<cache, maxSize, calls, cancels>>

\* The future is done: a waiter gets the entry, None, or its cancellation.
WaiterResumes(c) ==
  /\ call[c].phase = "waiting"
  /\ LET f == call[c].fut
     IN \/ future[f] = "entry" /\ Answer(c, "cached")
        \/ future[f] = "None" /\ Answer(c, "None")
        \/ future[f] = "cancelled" /\ Answer(c, "CancelledError")
  /\ UNCHANGED <<cache, pending, future, maxSize, calls, cancels>>

\* A cancelled executor skips "except Exception": its finally clears the
\* pending entry, and its future is never completed.
ExecutorCancelled(c) ==
  /\ call[c].phase = "executing"
  /\ cancels < MaxCancels /\ cancels' = cancels + 1
  /\ Answer(c, "CancelledError")
  /\ pending' = [pending EXCEPT ![call[c].key] = 0]
  /\ UNCHANGED <<cache, future, maxSize, calls>>

\* Cancelling a task that awaits a bare future cancels that future.
WaiterCancelled(c) ==
  /\ call[c].phase = "waiting"
  /\ cancels < MaxCancels /\ cancels' = cancels + 1
  /\ Answer(c, "CancelledError")
  /\ future' = [future EXCEPT ![call[c].fut] = IF @ = "open" THEN "cancelled" ELSE @]
  /\ UNCHANGED <<cache, pending, maxSize, calls>>

-----------------------------------------------------------------------------
(* The synchronous interface, and time. *)

get(k) ==
  /\ Cached(k)
  /\ cache' = IF Fresh(k) THEN MoveToEnd(cache, k) ELSE Without(cache, {k})
  /\ UNCHANGED <<maxSize, pending, future, call, calls, cancels>>

\* set and aset.
set(k) ==
  /\ cache' = Stored(k)
  /\ UNCHANGED <<maxSize, pending, future, call, calls, cancels>>

invalidate(keys) ==
  /\ cache' = Without(cache, keys)
  /\ cache' # cache
  /\ UNCHANGED <<maxSize, pending, future, call, calls, cancels>>

resize(n) ==
  /\ n # maxSize
  /\ maxSize' = n
  /\ cache' = IF Len(cache) > n THEN SubSeq(cache, Len(cache) - n + 1, Len(cache))
              ELSE cache
  /\ UNCHANGED <<pending, future, call, calls, cancels>>

\* The age of an entry passes its ttl_seconds.
Expire(k) ==
  /\ Fresh(k)
  /\ cache' = [i \in DOMAIN cache |->
                 [cache[i] EXCEPT !.fresh = @ /\ cache[i].key # k]]
  /\ UNCHANGED <<maxSize, pending, future, call, calls, cancels>>

-----------------------------------------------------------------------------
Next ==
  \/ \E c \in Callers :
       \/ \E k \in Keys : aget_or_execute(c, k)
       \/ ExecuteDone(c) \/ ExecuteRaises(c) \/ WaiterResumes(c)
       \/ ExecutorCancelled(c) \/ WaiterCancelled(c)
  \/ \E k \in Keys :
       get(k) \/ set(k) \/ Expire(k)
         \/ invalidate({j \in Keys : ToolOf[j] = ToolOf[k]})
  \/ invalidate(Keys)
  \/ \E n \in Sizes : resize(n)

Spec == Init /\ [][Next]_vars

\* Tools come back and the event loop resumes waiters whose future is done.
Fairness ==
  \A c \in Callers : /\ WF_vars(ExecuteDone(c) \/ ExecuteRaises(c))
                     /\ WF_vars(WaiterResumes(c))

FairSpec == Spec /\ Fairness

-----------------------------------------------------------------------------
(* Properties. *)

Executors(k) == {c \in Callers : call[c].phase = "executing" /\ call[c].key = k}

\* "prevents the thundering herd problem" (aget_or_execute): a tool call is
\* never executed by two callers at once, across failures, cancellations,
\* expiry, invalidation and resizing.
SingleFlight == \A k \in Keys : Cardinality(Executors(k)) <= 1

\* The pending future of a key is that of the caller executing it: nobody
\* joins an execution that has ended, and none is left behind to join.
PendingIsExecuting ==
  \A k \in Keys :
    IF pending[k] = 0 THEN Executors(k) = {}
    ELSE \E c \in Executors(k) : call[c].fut = pending[k]

\* Every variable has its type, and the map never outgrows max_size and never
\* holds a key twice.
Bounded ==
  /\ TypeOK
  /\ Len(cache) <= maxSize
  /\ \A i, j \in DOMAIN cache : cache[i].key = cache[j].key => i = j

\* What a caller executed is in the cache when it is answered: making room,
\* which keeps the map within its bound, does not evict the entry that room was
\* made for.
ExecutedIsCached ==
  [][/\ Bounded'
     /\ \A c \in Callers :
          call[c].phase = "executing" /\ call'[c].out = "executed" =>
            \E i \in DOMAIN cache' : cache'[i].key = call[c].key /\ cache'[i].fresh]_vars

\* A caller that executes or waits is answered once its tool ends, raises or
\* returns.  Only a cancellation of the caller that executed for it can leave
\* it behind: its future stays open with nobody to complete it.
Abandoned(c) ==
  /\ call[c].phase = "waiting" /\ future[call[c].fut] = "open"
  /\ \A d \in Callers : call[d].phase = "executing" => call[d].fut # call[c].fut
  /\ cancels > 0

AnsweredOrAbandoned ==
  \A c \in Callers : call[c].phase # "idle" ~> call[c].phase = "idle" \/ Abandoned(c)
=============================================================================
