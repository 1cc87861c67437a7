--------------------------- MODULE ToolCache_proof ---------------------------
(***************************************************************************)
(* The tool cache executes a key for at most one caller at a time, its     *)
(* pending futures are exactly those of the callers that execute, and what *)
(* was executed is in the map, within its bound, when its caller is        *)
(* answered: for any number of callers, keys, failures and cancellations.  *)
(***************************************************************************)
EXTENDS ToolCache, FiniteSetTheorems, NaturalsInduction, WellFoundedInduction, TLAPS

USE CacheAssumption

\* The part of the state that says who executes; the map plays no role in it.
Typed ==
  /\ pending \in [Keys -> Futures \cup {0}]
  /\ call \in [Callers -> Call]
  /\ calls \in 0..MaxCalls

Executing(c) == call[c].phase = "executing"

\* Whoever executes does so for a key whose pending future is its own.
OwnsPending ==
  \A c \in Callers : Executing(c) =>
    /\ call[c].key \in Keys
    /\ call[c].fut # 0 /\ pending[call[c].key] = call[c].fut

\* No two callers execute the same key.
Alone == \A c, d \in Callers : Executing(c) /\ Executing(d) /\ call[c].key = call[d].key => c = d

\* A pending future belongs to somebody who executes its key.
HasExecutor ==
  \A k \in Keys : pending[k] # 0 => \E c \in Callers : Executing(c) /\ call[c].key = k

Flight == Typed /\ OwnsPending /\ Alone /\ HasExecutor

\* The strengthening implies both properties of the runs.
LEMMA FlightMeans == Flight => SingleFlight /\ PendingIsExecuting
<1>. SUFFICES ASSUME Flight PROVE SingleFlight /\ PendingIsExecuting
  OBVIOUS
<1>1. ASSUME NEW k \in Keys PROVE Cardinality(Executors(k)) <= 1
  <2>1. CASE Executors(k) = {}
    BY <2>1, FS_EmptySet
  <2>2. CASE Executors(k) # {}
    <3>1. PICK c \in Executors(k) : TRUE
      BY <2>2
    <3>2. Executors(k) = {c}
      BY <3>1 DEF Executors, Flight, Alone, Executing
    <3>. QED BY <3>2, FS_Singleton
  <2>. QED BY <2>1, <2>2
<1>2. PendingIsExecuting
  BY DEF PendingIsExecuting, Executors, Flight, OwnsPending, HasExecutor, Executing
<1>. QED BY <1>1, <1>2 DEF SingleFlight

-----------------------------------------------------------------------------
\* A step in which c leaves its call, having executed nothing.
LEMMA Answered ==
  ASSUME Flight, NEW c \in Callers, NEW out \in Outcomes, Answer(c, out),
         ~Executing(c), UNCHANGED pending, calls' \in 0..MaxCalls
  PROVE  Flight'
<1>1. /\ \A d \in Callers : d # c => call'[d] = call[d]
      /\ call'[c] = [phase |-> "idle", key |-> NoKey, fut |-> 0, out |-> out]
      /\ call' \in [Callers -> Call]
  BY DEF Answer, Flight, Typed, Call
<1>2. Typed'
  BY <1>1 DEF Flight, Typed
<1>3. \A d \in Callers : Executing(d)' <=> Executing(d)
  BY <1>1 DEF Executing
<1>4. \A d \in Callers : Executing(d) => call'[d] = call[d]
  BY <1>1
<1>. QED BY <1>2, <1>3, <1>4 DEF Flight, OwnsPending, Alone, HasExecutor

\* A step in which c ends its execution, however: its key becomes free.
LEMMA Ended ==
  ASSUME Flight, NEW c \in Callers, NEW out \in Outcomes, Answer(c, out),
         Executing(c), pending' = [pending EXCEPT ![call[c].key] = 0],
         UNCHANGED calls
  PROVE  Flight'
<1>1. /\ \A d \in Callers : d # c => call'[d] = call[d]
      /\ call'[c] = [phase |-> "idle", key |-> NoKey, fut |-> 0, out |-> out]
      /\ call' \in [Callers -> Call]
  BY DEF Answer, Flight, Typed, Call
<1>2. call[c].key \in Keys
  BY DEF Flight, OwnsPending
<1>3. /\ pending' \in [Keys -> Futures \cup {0}]
      /\ pending'[call[c].key] = 0
      /\ \A k \in Keys : k # call[c].key => pending'[k] = pending[k]
  BY <1>2 DEF Flight, Typed
<1>4. Typed'
  BY <1>1, <1>3 DEF Flight, Typed
<1>5. \A d \in Callers : Executing(d)' => d # c /\ Executing(d) /\ call'[d] = call[d]
  BY <1>1 DEF Executing
<1>6. \A d \in Callers : Executing(d)' => call[d].key # call[c].key
  BY <1>5 DEF Flight, Alone
<1>7. OwnsPending'
  BY <1>3, <1>5, <1>6 DEF Flight, OwnsPending
<1>8. Alone'
  BY <1>5 DEF Flight, Alone
<1>9. HasExecutor'
  <2>. SUFFICES ASSUME NEW k \in Keys, pending'[k] # 0
                PROVE  \E d \in Callers : Executing(d)' /\ call'[d].key = k
    BY DEF HasExecutor
  <2>1. k # call[c].key /\ pending[k] # 0
    BY <1>3
  <2>2. PICK d \in Callers : Executing(d) /\ call[d].key = k
    BY <2>1 DEF Flight, HasExecutor
  <2>3. d # c
    BY <2>1, <2>2
  <2>. QED BY <1>1, <2>2, <2>3 DEF Executing
<1>. QED BY <1>4, <1>7, <1>8, <1>9 DEF Flight

\* A step in which c waits for the execution of another.
LEMMA Joined ==
  ASSUME Flight, NEW c \in Callers, NEW k \in Keys, Join(c, k), ~Executing(c),
         calls' \in 0..MaxCalls
  PROVE  Flight'
<1>1. /\ \A d \in Callers : d # c => call'[d] = call[d]
      /\ call'[c] = [phase |-> "waiting", key |-> k, fut |-> pending[k], out |-> "none"]
      /\ call' \in [Callers -> Call] /\ pending' = pending
  BY DEF Join, Flight, Typed, Call, Outcomes
<1>2. Typed'
  BY <1>1 DEF Flight, Typed
<1>3. \A d \in Callers : Executing(d)' <=> Executing(d)
  BY <1>1 DEF Executing
<1>4. \A d \in Callers : Executing(d) => call'[d] = call[d]
  BY <1>1
<1>. QED BY <1>1, <1>2, <1>3, <1>4 DEF Flight, OwnsPending, Alone, HasExecutor

\* A step in which c becomes the executor of a key nobody executes.
LEMMA Started ==
  ASSUME Flight, NEW c \in Callers, NEW k \in Keys, Execute(c, k), ~Executing(c),
         calls < MaxCalls, calls' = calls + 1
  PROVE  Flight'
<1>0. calls + 1 \in Futures /\ calls + 1 # 0 /\ calls + 1 \in 0..MaxCalls
  BY DEF Flight, Typed, Futures
<1>1. /\ \A d \in Callers : d # c => call'[d] = call[d]
      /\ call'[c] = [phase |-> "executing", key |-> k, fut |-> calls + 1, out |-> "none"]
      /\ call' \in [Callers -> Call]
  BY <1>0 DEF Execute, Flight, Typed, Call, Outcomes
<1>2. /\ pending[k] = 0
      /\ pending' \in [Keys -> Futures \cup {0}]
      /\ pending'[k] = calls + 1
      /\ \A j \in Keys : j # k => pending'[j] = pending[j]
  BY <1>0 DEF Execute, Flight, Typed
<1>3. Typed'
  BY <1>0, <1>1, <1>2 DEF Flight, Typed
<1>4. \A d \in Callers : Executing(d)' => d = c \/ (Executing(d) /\ call'[d] = call[d])
  BY <1>1 DEF Executing
<1>5. \A d \in Callers : Executing(d) => d # c /\ call[d].key # k /\ call'[d] = call[d]
  BY <1>1, <1>2 DEF Flight, OwnsPending
<1>6. OwnsPending'
  BY <1>0, <1>1, <1>2, <1>4, <1>5 DEF Flight, OwnsPending
<1>7. Alone'
  BY <1>1, <1>4, <1>5 DEF Flight, Alone
<1>8. HasExecutor'
  <2>. SUFFICES ASSUME NEW j \in Keys, pending'[j] # 0
                PROVE  \E d \in Callers : Executing(d)' /\ call'[d].key = j
    BY DEF HasExecutor
  <2>1. CASE j = k
    BY <1>1, <2>1 DEF Executing
  <2>2. CASE j # k
    <3>1. PICK d \in Callers : Executing(d) /\ call[d].key = j
      BY <1>2, <2>2 DEF Flight, HasExecutor
    <3>. QED BY <1>5, <3>1 DEF Executing
  <2>. QED BY <2>1, <2>2
<1>. QED BY <1>3, <1>6, <1>7, <1>8 DEF Flight

-----------------------------------------------------------------------------
\* At first nobody executes and nothing is pending.
LEMMA InitFlight == Init => Flight
BY DEF Init, Flight, Typed, OwnsPending, Alone, HasExecutor, Executing, Call, Outcomes

\* Every step of callers, time and maintenance keeps the strengthening.
LEMMA NextFlight == Flight /\ [Next]_vars => Flight'
<1>. SUFFICES ASSUME Flight, [Next]_vars PROVE Flight'
  OBVIOUS
<1>1. ASSUME NEW c \in Callers, NEW k \in Keys, aget_or_execute(c, k) PROVE Flight'
  <2>1. /\ ~Executing(c) /\ calls < MaxCalls /\ calls' = calls + 1
        /\ calls' \in 0..MaxCalls
    BY <1>1 DEF aget_or_execute, Executing, Flight, Typed
  <2>2. CASE Hit(c, k)
    BY <2>1, <2>2, Answered DEF Hit, Outcomes
  <2>3. CASE Join(c, k)
    BY <2>1, <2>3, Joined
  <2>4. CASE Execute(c, k)
    BY <2>1, <2>4, Started
  <2>. QED BY <1>1, <2>2, <2>3, <2>4 DEF aget_or_execute
<1>2. ASSUME NEW c \in Callers,
             ExecuteDone(c) \/ ExecuteRaises(c) \/ ExecutorCancelled(c)
      PROVE  Flight'
  <2>1. /\ Executing(c) /\ UNCHANGED calls
        /\ pending' = [pending EXCEPT ![call[c].key] = 0]
    BY <1>2 DEF ExecuteDone, ExecuteRaises, ExecutorCancelled, Executing
  <2>2. PICK out \in Outcomes : Answer(c, out)
    BY <1>2 DEF ExecuteDone, ExecuteRaises, ExecutorCancelled, SetResult, Outcomes
  <2>. QED BY <2>1, <2>2, Ended
<1>3. ASSUME NEW c \in Callers, WaiterResumes(c) \/ WaiterCancelled(c)
      PROVE  Flight'
  <2>1. ~Executing(c) /\ UNCHANGED <<pending, calls>> /\ calls' \in 0..MaxCalls
    BY <1>3 DEF WaiterResumes, WaiterCancelled, Executing, Flight, Typed
  <2>2. PICK out \in Outcomes : Answer(c, out)
    BY <1>3 DEF WaiterResumes, WaiterCancelled, Outcomes
  <2>. QED BY <2>1, <2>2, Answered
<1>4. CASE UNCHANGED <<pending, call, calls>>
  BY <1>4 DEF Flight, Typed, OwnsPending, Alone, HasExecutor, Executing
<1>. QED BY <1>1, <1>2, <1>3, <1>4
     DEF Next, vars, get, set, Expire, invalidate, resize

\* No two callers ever execute the same tool call at once.
THEOREM CacheSingleFlight == Spec => []SingleFlight
<1>1. Spec => []Flight
  BY InitFlight, NextFlight, PTL DEF Spec
<1>. QED BY <1>1, FlightMeans, PTL

\* Nobody joins an execution that has ended, and no failure, cancellation or
\* refused result leaves a pending future behind.
THEOREM CachePendingIsExecuting == Spec => []PendingIsExecuting
<1>1. Spec => []Flight
  BY InitFlight, NextFlight, PTL DEF Spec
<1>. QED BY <1>1, FlightMeans, PTL
-----------------------------------------------------------------------------
(* The map. *)

Distinct(s) == \A i, j \in DOMAIN s : s[i].key = s[j].key => i = j

\* One step of Without.
Keep(s, keys, t, i) == IF s[i].key \in keys THEN t ELSE Append(t, s[i])

\* The smallest of some numbers.
LEMMA SmallestNat ==
  ASSUME NEW I, I \subseteq Nat, I # {}
  PROVE  \E m \in I : \A i \in I : m <= i
<1>1. PICK m \in I : \A i \in I : ~(<<i, m>> \in OpToRel(<, Nat))
  BY NatLessThanWellFounded, WFMin
<1>2. \A i \in I : ~(i < m)
  BY <1>1 DEF OpToRel
<1>. QED BY <1>2

\* The eviction of several keys goes through the map entry by entry.
LEMMA WithoutSteps ==
  ASSUME NEW s \in Seq(Entry), NEW keys
  PROVE  \E f : /\ f \in [0 .. Len(s) -> Seq(Entry)] /\ f[0] = << >>
                /\ \A i \in 1 .. Len(s) : f[i] = Keep(s, keys, f[i - 1], i)
                /\ Without(s, keys) = f[Len(s)]
<1> DEFINE Steps(f, n) == /\ f \in [0 .. n -> Seq(Entry)] /\ f[0] = << >>
                          /\ \A i \in 1 .. n : f[i] = Keep(s, keys, f[i - 1], i)
           body(f) == [i \in 0 .. Len(s) |->
                         IF i = 0 THEN << >>
                         ELSE IF s[i].key \in keys THEN f[i - 1]
                         ELSE Append(f[i - 1], s[i])]
<1>0. Len(s) \in Nat
  OBVIOUS
<1>1. \A n \in Nat : n <= Len(s) => \E f : Steps(f, n)
  <2> DEFINE I == {n \in Nat : n <= Len(s) /\ ~ \E f : Steps(f, n)}
  <2>. SUFFICES ASSUME I # {} PROVE FALSE
    OBVIOUS
  <2>1. PICK n \in I : \A i \in I : n <= i
    <3>. HIDE DEF Steps
    <3>. QED BY SmallestNat
  <2>2. n \in Nat /\ n <= Len(s) /\ ~ \E f : Steps(f, n)
    BY <2>1
  <2>3. n # 0
    <3>1. Steps([i \in 0 .. 0 |-> << >>], 0)
      OBVIOUS
    <3>. QED BY <2>2, <3>1
  <2>4. PICK g : Steps(g, n - 1)
    <3>. HIDE DEF Steps
    <3>1. n - 1 \in Nat /\ n - 1 <= Len(s) /\ n - 1 < n
      BY <1>0, <2>2, <2>3
    <3>2. n - 1 \notin I
      <4>. HIDE DEF I
      <4>. QED BY <2>1, <2>2, <3>1
    <3>. QED BY <3>1, <3>2
  <2> DEFINE h == [i \in 0 .. n |-> IF i = n THEN Keep(s, keys, g[n - 1], n) ELSE g[i]]
  <2>5. Keep(s, keys, g[n - 1], n) \in Seq(Entry)
    <3>1. g[n - 1] \in Seq(Entry) /\ s[n] \in Entry
      BY <1>0, <2>2, <2>3, <2>4
    <3>. QED BY <3>1 DEF Keep
  <2>6. /\ h \in [0 .. n -> Seq(Entry)] /\ h[0] = << >> /\ h[n] = Keep(s, keys, g[n - 1], n)
        /\ \A i \in 0 .. n - 1 : h[i] = g[i]
    BY <2>2, <2>3, <2>4, <2>5
  <2>7. Steps(h, n)
    <3>. HIDE DEF h
    <3>1. ASSUME NEW i \in 1 .. n PROVE h[i] = Keep(s, keys, h[i - 1], i)
      <4>1. CASE i = n
        BY <2>2, <2>3, <2>6, <4>1
      <4>2. CASE i # n
        <5>1. i \in 1 .. n - 1 /\ i \in 0 .. n - 1 /\ i - 1 \in 0 .. n - 1
          BY <2>2, <4>2
        <5>. QED BY <2>4, <2>6, <5>1
      <4>. QED BY <4>1, <4>2
    <3>. QED BY <2>6, <3>1
  <2>. QED BY <2>2, <2>7
<1>2. PICK g : Steps(g, Len(s))
  <2>. HIDE DEF Steps
  <2>. QED BY <1>0, <1>1
<1>3. g = body(g)
  <2>1. g = [i \in 0 .. Len(s) |-> g[i]]
    BY <1>2
  <2>2. ASSUME NEW i \in 0 .. Len(s) PROVE g[i] = body(g)[i]
    <3>1. CASE i = 0
      BY <1>2, <3>1
    <3>2. CASE i # 0
      <4>1. i \in 1 .. Len(s)
        BY <1>0, <3>2
      <4>. QED BY <1>2, <3>2, <4>1 DEF Keep
    <3>. QED BY <3>1, <3>2
  <2>. QED BY <2>1, <2>2
<1> DEFINE f == CHOOSE f : f = body(f)
<1>4. f = body(f)
  <2>. HIDE DEF body
  <2>. QED BY <1>3
<1>5. Without(s, keys) = f[Len(s)]
  BY DEF Without
<1>. HIDE DEF f
<1>6. Steps(f, Len(s))
  <2>1. /\ f[0] = << >> /\ \A i \in 1 .. Len(s) : f[i] = Keep(s, keys, f[i - 1], i)
        /\ f = [i \in 0 .. Len(s) |-> f[i]]
    <3>1. ASSUME NEW i \in 0 .. Len(s)
          PROVE  f[i] = IF i = 0 THEN << >>
                        ELSE IF s[i].key \in keys THEN f[i - 1]
                        ELSE Append(f[i - 1], s[i])
      <4>1. f[i] = body(f)[i]
        BY <1>4
      <4>. QED BY <4>1
    <3>2. f[0] = << >>
      BY <1>0, <3>1
    <3>3. ASSUME NEW i \in 1 .. Len(s) PROVE f[i] = Keep(s, keys, f[i - 1], i)
      <4>1. i \in 0 .. Len(s) /\ i # 0
        BY <1>0
      <4>. QED BY <3>1, <4>1 DEF Keep
    <3>4. f = [i \in 0 .. Len(s) |-> f[i]]
      BY <1>4
    <3>. QED BY <3>2, <3>3, <3>4
  <2>2. ASSUME NEW n \in 0 .. Len(s) PROVE f[n] \in Seq(Entry)
    <3> DEFINE I == {i \in 0 .. Len(s) : f[i] \notin Seq(Entry)}
    <3>. SUFFICES ASSUME I # {} PROVE FALSE
      OBVIOUS
    <3>1. PICK m \in I : \A i \in I : m <= i
      <4>1. I \subseteq Nat
        BY <1>0
      <4>. HIDE DEF I
      <4>. QED BY <4>1, SmallestNat
    <3>2. m # 0
      BY <2>1, <3>1
    <3>3. f[m - 1] \in Seq(Entry) /\ m \in 1 .. Len(s)
      BY <1>0, <3>1, <3>2
    <3>4. f[m] \in Seq(Entry)
      <4>1. s[m] \in Entry /\ Append(f[m - 1], s[m]) \in Seq(Entry)
        BY <3>3
      <4>2. f[m] = Keep(s, keys, f[m - 1], m)
        BY <2>1, <3>3
      <4>. QED BY <3>3, <4>1, <4>2 DEF Keep
    <3>. QED BY <3>1, <3>4
  <2>. QED BY <2>1, <2>2
<1>. QED BY <1>5, <1>6

\* What evicting several keys leaves of a map.
LEMMA WithoutKeeps ==
  ASSUME NEW s \in Seq(Entry), NEW keys
  PROVE  /\ Without(s, keys) \in Seq(Entry) /\ Len(Without(s, keys)) <= Len(s)
         /\ \A j \in DOMAIN Without(s, keys) : Without(s, keys)[j].key \notin keys
         /\ Distinct(s) => Distinct(Without(s, keys))
         /\ (\E i \in DOMAIN s : s[i].key \in keys) => Len(Without(s, keys)) < Len(s)
<1> DEFINE From(t, n) == \A j \in DOMAIN t : t[j].key \notin keys /\ \E i \in 1 .. n : s[i] = t[j]
           Good(t, n) == /\ Len(t) <= n /\ From(t, n)
                         /\ Distinct(s) => Distinct(t)
                         /\ (\E i \in 1 .. n : s[i].key \in keys) => Len(t) < n
<1>0. Len(s) \in Nat /\ DOMAIN s = 1 .. Len(s)
  OBVIOUS
<1>1. PICK f : /\ f \in [0 .. Len(s) -> Seq(Entry)] /\ f[0] = << >>
               /\ \A i \in 1 .. Len(s) : f[i] = Keep(s, keys, f[i - 1], i)
               /\ Without(s, keys) = f[Len(s)]
  BY WithoutSteps
<1>2. Good(f[0], 0)
  BY <1>1 DEF Distinct
<1>3. ASSUME NEW n \in 1 .. Len(s), Good(f[n - 1], n - 1)
      PROVE  Good(f[n], n)
  <2> DEFINE t == f[n - 1]
  <2>1. t \in Seq(Entry) /\ Len(t) \in Nat /\ DOMAIN t = 1 .. Len(t) /\ Good(t, n - 1) /\ n \in Nat
    <3>1. n \in Nat /\ n - 1 \in 0 .. Len(s) /\ Good(t, n - 1)
      BY <1>0, <1>3
    <3>2. t \in Seq(Entry)
      BY <1>1, <3>1
    <3>. HIDE DEF t, Good
    <3>3. Len(t) \in Nat /\ DOMAIN t = 1 .. Len(t)
      BY <3>2
    <3>. QED BY <3>1, <3>2, <3>3
  <2>2. f[n] = Keep(s, keys, t, n) /\ s[n] \in Entry
    BY <1>0, <1>1
  <2>. HIDE DEF t
  <2>3. CASE s[n].key \in keys
    BY <2>1, <2>2, <2>3 DEF Keep
  <2>4. CASE s[n].key \notin keys
    <3> DEFINE u == Append(t, s[n])
    <3>1. /\ f[n] = u /\ DOMAIN u = 1 .. (Len(t) + 1) /\ Len(u) = Len(t) + 1
          /\ u[Len(t) + 1] = s[n] /\ \A j \in 1 .. Len(t) : u[j] = t[j]
      BY <2>1, <2>2, <2>4 DEF Keep
    <3>. HIDE DEF u
    <3>2. From(u, n)
      BY <2>1, <2>4, <3>1
    <3>3. Len(u) <= n
      BY <2>1, <3>1
    <3>4. ASSUME Distinct(s) PROVE Distinct(u)
      <4>1. ASSUME NEW j \in 1 .. Len(t) PROVE t[j].key # s[n].key
        <5>1. PICK i \in 1 .. n - 1 : s[i] = t[j]
          BY <2>1, <4>1
        <5>2. i \in DOMAIN s /\ n \in DOMAIN s /\ i # n
          BY <1>0
        <5>. QED BY <3>4, <5>1, <5>2 DEF Distinct
      <4>. QED BY <2>1, <3>1, <3>4, <4>1 DEF Distinct
    <3>5. (\E i \in 1 .. n : s[i].key \in keys) => Len(u) < n
      <4>1. (\E i \in 1 .. n : s[i].key \in keys) => \E i \in 1 .. n - 1 : s[i].key \in keys
        BY <2>1, <2>4
      <4>. QED BY <2>1, <3>1, <4>1
    <3>. QED BY <3>1, <3>2, <3>3, <3>4, <3>5
  <2>. QED BY <2>3, <2>4
<1>. HIDE DEF Good
<1>4. Good(f[Len(s)], Len(s))
  <2> DEFINE I == {n \in 0 .. Len(s) : ~Good(f[n], n)}
  <2>. SUFFICES ASSUME I # {} PROVE FALSE
    BY <1>0
  <2>1. PICK m \in I : \A i \in I : m <= i
    <3>1. I \subseteq Nat
      BY <1>0
    <3>. HIDE DEF I
    <3>. QED BY <3>1, SmallestNat
  <2>2. m # 0
    BY <1>2, <2>1
  <2>3. m \in 1 .. Len(s) /\ m - 1 \in 0 .. Len(s) /\ m - 1 \notin I
    BY <1>0, <2>1, <2>2
  <2>. QED BY <1>3, <2>1, <2>3
<1>. QED BY <1>0, <1>1, <1>4 DEF Good

\* Moving an entry to the end.
LEMMA MovedKeeps ==
  ASSUME NEW s \in Seq(Entry), NEW k, \E i \in DOMAIN s : s[i].key = k, Distinct(s)
  PROVE  /\ MoveToEnd(s, k) \in Seq(Entry) /\ Len(MoveToEnd(s, k)) <= Len(s)
         /\ Distinct(MoveToEnd(s, k))
<1> DEFINE t == Without(s, {k})
           e == s[CHOOSE i \in DOMAIN s : s[i].key = k]
           u == Append(t, e)
<1>1. e \in Entry /\ e.key = k
  <2>1. \A i \in DOMAIN s : s[i] \in Entry
    OBVIOUS
  <2>. QED BY <2>1
<1>2. /\ t \in Seq(Entry) /\ Len(t) < Len(s) /\ Distinct(t)
      /\ \A j \in DOMAIN t : t[j].key # k
  BY WithoutKeeps
<1>3. MoveToEnd(s, k) = u
  BY DEF MoveToEnd
<1>. HIDE DEF t, e
<1>4. /\ u \in Seq(Entry) /\ Len(u) = Len(t) + 1 /\ DOMAIN u = 1 .. (Len(t) + 1)
      /\ DOMAIN t = 1 .. Len(t) /\ Len(t) \in Nat /\ Len(s) \in Nat
      /\ u[Len(t) + 1] = e /\ \A j \in 1 .. Len(t) : u[j] = t[j]
  BY <1>1, <1>2
<1>. HIDE DEF u
<1>5. Distinct(u)
  BY <1>1, <1>2, <1>4 DEF Distinct
<1>. QED BY <1>2, <1>3, <1>4, <1>5

\* The entries used last.
LEMMA LastOnes ==
  ASSUME NEW s \in Seq(Entry), NEW m \in 1 .. Len(s) + 1
  PROVE  LET t == SubSeq(s, m, Len(s))
         IN  /\ t \in Seq(Entry) /\ Len(t) = Len(s) + 1 - m
             /\ Distinct(s) => Distinct(t)
<1> DEFINE t == SubSeq(s, m, Len(s))
<1>0. Len(s) \in Nat /\ m \in Nat /\ DOMAIN s = 1 .. Len(s)
  OBVIOUS
<1>1. /\ t \in Seq(Entry) /\ Len(t) = Len(s) + 1 - m
      /\ \A i \in 1 .. Len(t) : t[i] = s[m + i - 1]
  BY <1>0
<1>. HIDE DEF t
<1>2. DOMAIN t = 1 .. Len(t)
  BY <1>1
<1>3. ASSUME Distinct(s), NEW i \in DOMAIN t, NEW j \in DOMAIN t, t[i].key = t[j].key
      PROVE  i = j
  <2>1. m + i - 1 \in DOMAIN s /\ m + j - 1 \in DOMAIN s
    BY <1>0, <1>1, <1>2
  <2>2. m + i - 1 = m + j - 1
    BY <1>1, <1>2, <1>3, <2>1 DEF Distinct
  <2>. QED BY <1>0, <1>1, <1>2, <2>2
<1>. QED BY <1>1, <1>3 DEF Distinct, t

\* What is stored is in the map, and the map within its bound.
LEMMA StoredKeeps ==
  ASSUME cache \in Seq(Entry), Distinct(cache), maxSize \in Nat \ {0}, Len(cache) <= maxSize,
         NEW k \in Keys
  PROVE  /\ Stored(k) \in Seq(Entry) /\ Len(Stored(k)) <= maxSize /\ Distinct(Stored(k))
         /\ \E i \in DOMAIN Stored(k) : Stored(k)[i].key = k /\ Stored(k)[i].fresh
<1> DEFINE new == [key |-> k, fresh |-> TRUE]
           old == Evicted(cache)
<1>1. old \in Seq(Entry) /\ Len(old) < maxSize /\ Distinct(old)
  <2>1. CASE Len(cache) < maxSize
    BY <2>1 DEF Evicted
  <2>2. CASE ~(Len(cache) < maxSize)
    <3>1. Len(cache) = maxSize /\ Len(cache) - maxSize + 2 = 2 /\ 2 \in 1 .. Len(cache) + 1
      BY <2>2
    <3>2. old = SubSeq(cache, 2, Len(cache))
      BY <2>2, <3>1 DEF Evicted
    <3>. HIDE DEF old
    <3>3. old \in Seq(Entry) /\ Len(old) = Len(cache) + 1 - 2 /\ Distinct(old)
      BY <3>1, <3>2, LastOnes
    <3>. QED BY <3>1, <3>3
  <2>. QED BY <2>1, <2>2
<1>2. new \in Entry /\ new.key = k /\ new.fresh
  BY DEF Entry
<1>3. Stored(k) = IF \E i \in DOMAIN old : old[i].key = k
                  THEN [i \in DOMAIN old |-> IF old[i].key = k THEN new ELSE old[i]]
                  ELSE Append(old, new)
  BY DEF Stored
<1>. HIDE DEF old, new
<1>4. Len(old) \in Nat /\ DOMAIN old = 1 .. Len(old) /\ \A i \in DOMAIN old : old[i] \in Entry
  BY <1>1
<1>5. CASE \E i \in DOMAIN old : old[i].key = k
  <2> DEFINE t == [i \in DOMAIN old |-> IF old[i].key = k THEN new ELSE old[i]]
  <2>1. Stored(k) = t
    BY <1>3, <1>5
  <2>2. /\ t \in Seq(Entry) /\ DOMAIN t = DOMAIN old /\ Len(t) = Len(old)
        /\ \A i \in DOMAIN old : t[i] = IF old[i].key = k THEN new ELSE old[i]
    BY <1>2, <1>4
  <2>. HIDE DEF t
  <2>3. \A i \in DOMAIN t : t[i].key = old[i].key
    BY <1>2, <2>2
  <2>4. Distinct(t)
    BY <1>1, <2>2, <2>3 DEF Distinct
  <2>5. \E i \in DOMAIN t : t[i].key = k /\ t[i].fresh
    BY <1>2, <1>5, <2>2
  <2>. QED BY <1>1, <2>1, <2>2, <2>4, <2>5
<1>6. CASE ~ \E i \in DOMAIN old : old[i].key = k
  <2> DEFINE t == Append(old, new)
  <2>1. Stored(k) = t
    BY <1>3, <1>6
  <2>2. /\ t \in Seq(Entry) /\ DOMAIN t = 1 .. (Len(old) + 1) /\ Len(t) = Len(old) + 1
        /\ t[Len(old) + 1] = new /\ \A i \in 1 .. Len(old) : t[i] = old[i]
    BY <1>1, <1>2, <1>4
  <2>. HIDE DEF t
  <2>3. Distinct(t)
    BY <1>1, <1>2, <1>4, <1>6, <2>2 DEF Distinct
  <2>4. \E i \in DOMAIN t : t[i].key = k /\ t[i].fresh
    <3>1. Len(old) + 1 \in DOMAIN t
      BY <1>4, <2>2
    <3>. QED BY <1>2, <2>2, <3>1
  <2>. QED BY <1>1, <1>4, <2>1, <2>2, <2>3, <2>4
<1>. QED BY <1>5, <1>6

-----------------------------------------------------------------------------
(* The map through all steps. *)

\* The map has room for what max_size says, and each key once.
Roomy == cache \in Seq(Entry) /\ maxSize \in Sizes /\ Len(cache) <= maxSize /\ Distinct(cache)

\* The futures and counts have their type, and a caller that executes has not
\* been answered.
Rest ==
  /\ future \in [Futures -> FutureStates]
  /\ cancels \in 0..MaxCancels
  /\ \A c \in Callers : Executing(c) => call[c].out = "none"

\* What a step does to the map leaves it so.
LEMMA RoomyStep ==
  ASSUME Roomy, Flight, [Next]_vars
  PROVE  Roomy'
<1>0. /\ maxSize \in Nat \ {0} /\ cache \in Seq(Entry) /\ Distinct(cache)
      /\ Len(cache) <= maxSize /\ Len(cache) \in Nat /\ maxSize \in Sizes
  BY DEF Roomy
<1>1. CASE maxSize' = maxSize /\ cache' = cache
  BY <1>0, <1>1 DEF Roomy
<1>2. ASSUME NEW keys, maxSize' = maxSize, cache' = Without(cache, keys) PROVE Roomy'
  <2>1. Without(cache, keys) \in Seq(Entry) /\ Len(Without(cache, keys)) <= Len(cache)
        /\ Distinct(Without(cache, keys))
    BY <1>0, WithoutKeeps
  <2>2. Len(Without(cache, keys)) \in Nat
    BY <2>1
  <2>. QED BY <1>0, <1>2, <2>1, <2>2 DEF Roomy
<1>3. ASSUME NEW k, Fresh(k), maxSize' = maxSize, cache' = MoveToEnd(cache, k) PROVE Roomy'
  <2>1. \E i \in DOMAIN cache : cache[i].key = k
    BY <1>3 DEF Fresh
  <2>2. /\ MoveToEnd(cache, k) \in Seq(Entry) /\ Len(MoveToEnd(cache, k)) <= Len(cache)
        /\ Distinct(MoveToEnd(cache, k))
    BY <1>0, <2>1, MovedKeeps
  <2>3. Len(MoveToEnd(cache, k)) \in Nat
    BY <2>2
  <2>. QED BY <1>0, <1>3, <2>2, <2>3 DEF Roomy
<1>4. ASSUME NEW k \in Keys, maxSize' = maxSize, cache' = Stored(k) PROVE Roomy'
  BY <1>0, <1>4, StoredKeeps DEF Roomy
<1>5. ASSUME NEW c \in Callers, NEW k \in Keys, aget_or_execute(c, k) PROVE Roomy'
  BY <1>2, <1>3, <1>5 DEF aget_or_execute, Hit, Join, Execute
<1>6. ASSUME NEW c \in Callers, ExecuteDone(c) PROVE Roomy'
  <2>1. call[c].key \in Keys
    BY <1>6 DEF ExecuteDone, Executing, Flight, OwnsPending
  <2>. QED BY <1>4, <1>6, <2>1 DEF ExecuteDone
<1>7. ASSUME NEW c \in Callers,
             ExecuteRaises(c) \/ WaiterResumes(c) \/ ExecutorCancelled(c) \/ WaiterCancelled(c)
      PROVE  Roomy'
  BY <1>1, <1>7 DEF ExecuteRaises, WaiterResumes, ExecutorCancelled, WaiterCancelled
<1>8. ASSUME NEW k \in Keys, get(k) \/ set(k) PROVE Roomy'
  BY <1>2, <1>3, <1>4, <1>8 DEF get, set
<1>9. ASSUME NEW keys, invalidate(keys) PROVE Roomy'
  BY <1>2, <1>9 DEF invalidate
<1>10. ASSUME NEW k \in Keys, Expire(k) PROVE Roomy'
  <2> DEFINE t == [i \in DOMAIN cache |->
                     [cache[i] EXCEPT !.fresh = @ /\ cache[i].key # k]]
  <2>1. maxSize' = maxSize /\ cache' = t
    BY <1>10 DEF Expire
  <2>2. ASSUME NEW i \in DOMAIN cache PROVE t[i] \in Entry /\ t[i].key = cache[i].key
    <3>1. cache[i] \in Entry
      BY <1>0
    <3>2. [cache[i] EXCEPT !.fresh = @ /\ cache[i].key # k] \in Entry
      BY <3>1 DEF Entry
    <3>3. [cache[i] EXCEPT !.fresh = @ /\ cache[i].key # k].key = cache[i].key
      BY <3>1 DEF Entry
    <3>. QED BY <3>2, <3>3
  <2>3. DOMAIN t = DOMAIN cache /\ DOMAIN cache = 1 .. Len(cache) /\ t = [i \in DOMAIN cache |-> t[i]]
    BY <1>0
  <2>. HIDE DEF t
  <2>4. t \in Seq(Entry) /\ Len(t) = Len(cache)
    BY <1>0, <2>2, <2>3
  <2>5. Distinct(t)
    BY <1>0, <2>2, <2>3 DEF Distinct
  <2>. QED BY <1>0, <2>1, <2>4, <2>5 DEF Roomy
<1>11. ASSUME NEW n \in Sizes, resize(n) PROVE Roomy'
  <2>1. n \in Nat \ {0} /\ maxSize' = n
    BY <1>11 DEF resize
  <2>2. CASE Len(cache) > n
    <3>1. Len(cache) - n + 1 \in 1 .. Len(cache) + 1
      BY <1>0, <2>1, <2>2
    <3>2. cache' = SubSeq(cache, Len(cache) - n + 1, Len(cache))
      BY <1>11, <2>2 DEF resize
    <3>3. cache' \in Seq(Entry) /\ Len(cache') = Len(cache) + 1 - (Len(cache) - n + 1) /\ Distinct(cache')
      BY <1>0, <3>1, <3>2, LastOnes
    <3>4. Len(cache') = n
      BY <1>0, <2>1, <3>3
    <3>. QED BY <2>1, <3>3, <3>4 DEF Roomy, Distinct
  <2>3. CASE ~(Len(cache) > n)
    BY <1>0, <1>11, <2>1, <2>3 DEF resize, Roomy, Distinct
  <2>. QED BY <2>2, <2>3
<1>. QED BY <1>1, <1>5, <1>6, <1>7, <1>8, <1>9, <1>10, <1>11 DEF Next, vars

\* What a step does to a caller: nothing, it begins or joins an execution, or
\* it answers, as executed only where the result has just been stored.
LEMMA StepAnswers ==
  ASSUME Flight, [Next]_vars, NEW c \in Callers
  PROVE  \/ call'[c] = call[c]
         \/ ~Executing(c) /\ call'[c].phase \in {"executing", "waiting"} /\ call'[c].out = "none"
         \/ ~Executing(c) /\ call'[c].phase = "idle"
         \/ /\ call'[c].phase = "idle"
            /\ call'[c].out = "executed" => cache' = Stored(call[c].key)
<1>0. call \in [Callers -> Call]
  BY DEF Flight, Typed
<1>1. CASE call' = call
  BY <1>1
<1>2. ASSUME NEW d \in Callers, NEW k \in Keys, aget_or_execute(d, k)
      PROVE  \/ call'[c] = call[c]
             \/ ~Executing(c) /\ call'[c].phase \in {"executing", "waiting"} /\ call'[c].out = "none"
             \/ ~Executing(c) /\ call'[c].phase = "idle"
  <2>1. ~Executing(d)
    BY <1>2 DEF aget_or_execute, Executing
  <2>2. CASE c = d
    BY <1>0, <1>2, <2>1, <2>2 DEF aget_or_execute, Hit, Join, Execute, Answer
  <2>3. CASE c # d
    BY <1>0, <1>2, <2>3 DEF aget_or_execute, Hit, Join, Execute, Answer
  <2>. QED BY <2>2, <2>3
<1>3. ASSUME NEW d \in Callers, WaiterResumes(d) \/ WaiterCancelled(d)
      PROVE  call'[c] = call[c] \/ (~Executing(c) /\ call'[c].phase = "idle")
  BY <1>0, <1>3 DEF WaiterResumes, WaiterCancelled, Answer, Executing
<1>4. ASSUME NEW d \in Callers, ExecuteDone(d) \/ ExecuteRaises(d) \/ ExecutorCancelled(d)
      PROVE  \/ call'[c] = call[c]
             \/ /\ call'[c].phase = "idle"
                /\ call'[c].out = "executed" => cache' = Stored(call[c].key)
  <2>1. ASSUME NEW out, Answer(d, out), out = "executed" => ExecuteDone(d)
        PROVE  \/ call'[c] = call[c]
               \/ /\ call'[c].phase = "idle"
                  /\ call'[c].out = "executed" => cache' = Stored(call[c].key)
    BY <1>0, <2>1 DEF Answer, ExecuteDone
  <2>2. CASE ExecuteDone(d)
    BY <2>1, <2>2 DEF ExecuteDone, SetResult
  <2>3. CASE ExecuteRaises(d) \/ ExecutorCancelled(d)
    BY <2>1, <2>3 DEF ExecuteRaises, ExecutorCancelled, SetResult
  <2>. QED BY <1>4, <2>2, <2>3
<1>5. CASE \E k \in Keys : get(k) \/ set(k) \/ Expire(k)
  BY <1>1, <1>5 DEF get, set, Expire
<1>6. CASE \E keys : invalidate(keys)
  BY <1>1, <1>6 DEF invalidate
<1>7. CASE \E n \in Sizes : resize(n)
  BY <1>1, <1>7 DEF resize
<1>8. CASE UNCHANGED vars
  BY <1>1, <1>8 DEF vars
<1>. QED BY <1>2, <1>3, <1>4, <1>5, <1>6, <1>7, <1>8 DEF Next

\* The remaining types.
LEMMA RestStep ==
  ASSUME Flight, Rest, [Next]_vars
  PROVE  Rest'
<1>1. ASSUME NEW c \in Callers, Executing(c)' PROVE call'[c].out = "none"
  <2>1. \/ call'[c] = call[c]
        \/ call'[c].phase = "executing" /\ call'[c].out = "none"
    BY <1>1, StepAnswers DEF Executing
  <2>. QED BY <1>1, <2>1 DEF Rest, Executing
<1>2. future' \in [Futures -> FutureStates]
  <2>1. ASSUME NEW f, NEW value \in FutureStates, future' = [future EXCEPT ![f] = value]
        PROVE  future' \in [Futures -> FutureStates]
    BY <2>1 DEF Rest
  <2>2. /\ "open" \in FutureStates /\ "entry" \in FutureStates /\ "None" \in FutureStates
        /\ "cancelled" \in FutureStates
    BY DEF FutureStates
  <2>3. ASSUME NEW c \in Callers, NEW k \in Keys, aget_or_execute(c, k)
        PROVE  future' \in [Futures -> FutureStates]
    BY <2>1, <2>2, <2>3 DEF aget_or_execute, Hit, Join, Execute, Rest
  <2>4. ASSUME NEW c \in Callers, ExecuteDone(c) \/ ExecuteRaises(c)
        PROVE  future' \in [Futures -> FutureStates]
    BY <2>1, <2>2, <2>4 DEF ExecuteDone, ExecuteRaises, SetResult, Rest
  <2>5. ASSUME NEW c \in Callers, WaiterCancelled(c)
        PROVE  future' \in [Futures -> FutureStates]
    BY <2>2, <2>5 DEF WaiterCancelled, Rest
  <2>6. CASE UNCHANGED future
    BY <2>6 DEF Rest
  <2>. QED BY <2>3, <2>4, <2>5, <2>6 DEF Next, vars, WaiterResumes, ExecutorCancelled, get, set,
           Expire, invalidate, resize
<1>3. cancels' \in 0..MaxCancels
  <2>1. ASSUME NEW c \in Callers, ExecutorCancelled(c) \/ WaiterCancelled(c)
        PROVE  cancels' \in 0..MaxCancels
    BY <2>1 DEF ExecutorCancelled, WaiterCancelled, Rest
  <2>2. CASE UNCHANGED cancels
    BY <2>2 DEF Rest
  <2>. QED BY <2>1, <2>2 DEF Next, vars, aget_or_execute, ExecuteDone, ExecuteRaises,
           WaiterResumes, get, set, Expire, invalidate, resize
<1>. QED BY <1>1, <1>2, <1>3 DEF Rest

Kept == Flight /\ Roomy /\ Rest

\* At first the map is empty.
LEMMA InitKept == Init => Kept
<1>. SUFFICES ASSUME Init PROVE Kept
  OBVIOUS
<1>1. Roomy
  BY DEF Init, Roomy, Distinct
<1>2. Rest
  BY DEF Init, Rest, FutureStates, Executing
<1>. QED BY <1>1, <1>2, InitFlight DEF Kept

\* What an execution was answered with is in the map.
LEMMA ExecutedStored ==
  ASSUME Kept, [Next]_vars, NEW c \in Callers, Executing(c), call'[c].out = "executed"
  PROVE  \E i \in DOMAIN cache' : cache'[i].key = call[c].key /\ cache'[i].fresh
<1>1. call[c].out = "none" /\ call[c].key \in Keys
  BY DEF Kept, Rest, Flight, OwnsPending
<1>2. cache' = Stored(call[c].key)
  BY <1>1, StepAnswers DEF Kept
<1>3. /\ cache \in Seq(Entry) /\ Distinct(cache) /\ maxSize \in Nat \ {0} /\ Len(cache) <= maxSize
  BY DEF Kept, Roomy
<1>. QED BY <1>1, <1>2, <1>3, StoredKeeps

\* An answered execution left its result in the map, which keeps to max_size and
\* holds each key once: making room does not evict what room was made for, and
\* nothing comes between storing and answering (ToolResultCache.aget_or_execute).
THEOREM CacheKeepsExecuted == Spec => ExecutedIsCached
<1> DEFINE Shown == \A c \in Callers :
                      call[c].phase = "executing" /\ call'[c].out = "executed" =>
                        \E i \in DOMAIN cache' : cache'[i].key = call[c].key /\ cache'[i].fresh
<1>1. Kept => Bounded
  BY DEF Kept, Flight, Typed, Roomy, Rest, Distinct, Bounded, TypeOK
<1>2. Kept /\ [Next]_vars => Kept'
  BY NextFlight, RoomyStep, RestStep DEF Kept
<1>3. Kept /\ [Next]_vars => Shown
  BY ExecutedStored DEF Executing
<1>. QED BY <1>1, <1>2, <1>3, InitKept, PTL DEF Spec, ExecutedIsCached
=============================================================================
