-------------------------- MODULE LlmClient_proof ---------------------------
(***************************************************************************)
(* However many calls share the rate limiter, and however they are retried,*)
(* timed out and cancelled, it lets no more requests through than a bucket *)
(* of twice the capacity that drops no fraction of a token, the semaphore  *)
(* neither loses nor doubles a permit, and no coroutine collects for a     *)
(* caller that is gone.                                                    *)
(***************************************************************************)
EXTENDS LlmClient, FiniteSetTheorems, TLAPS

USE BucketAssumption

\* What has accrued since the last refill, in units of 1 / RateDen.
Accrued == AtMost(since * RateNum, Capacity * RateDen)

\* The ideal bucket holds at least what the tokens and the next refill can give.
Covered == BucketTypeOK /\ ideal >= tokens * RateDen + Accrued

\* A refill gives no more than has accrued.
LEMMA RefillAccrued ==
  ASSUME tokens = 0, since \in Nat
  PROVE  /\ Refilled \in 0..Capacity
         /\ Refilled * RateDen <= Accrued
<1> DEFINE x == since * RateNum
           q == x \div RateDen
           m == Capacity * RateDen
<1>1. x \in Nat /\ m \in Nat
  OBVIOUS
<1>2. q \in Nat /\ q * RateDen <= x
  <2>. HIDE DEF x
  <2>. QED BY <1>1
<1>3. Refilled = IF q < Capacity THEN q ELSE Capacity
  <2>. HIDE DEF q
  <2>1. 0 + q = q
    BY <1>2
  <2>. QED BY <2>1 DEF Refilled, AtMost, q, x
<1>4. CASE q < Capacity
  <2>1. q * RateDen <= m
    <3>. HIDE DEF q
    <3>. QED BY <1>2, <1>4
  <2>. HIDE DEF q, x, m
  <2>2. Accrued = IF x < m THEN x ELSE m
    BY DEF Accrued, AtMost, x, m
  <2>. QED BY <1>1, <1>2, <1>3, <1>4, <2>1, <2>2
<1>5. CASE ~(q < Capacity)
  <2>1. m <= q * RateDen
    <3>. HIDE DEF q
    <3>. QED BY <1>2, <1>5
  <2>. HIDE DEF q, x
  <2>2. Accrued = IF x < m THEN x ELSE m
    BY DEF Accrued, AtMost, x, m
  <2>. QED BY <1>1, <1>2, <1>3, <1>5, <2>1, <2>2
<1>. QED BY <1>4, <1>5

\* Time fills both buckets.
LEMMA ElapseCovered == Covered /\ Elapse => Covered'
<1>. SUFFICES ASSUME Covered, Elapse PROVE Covered'
  OBVIOUS
<1> DEFINE x == since * RateNum
           m == Capacity * RateDen
           t == tokens * RateDen
<1>1. x \in Nat /\ m \in Nat /\ t \in Nat /\ t <= m
  BY DEF Covered, BucketTypeOK
<1>2. ideal \in Int /\ ideal >= t + (IF x < m THEN x ELSE m)
  BY DEF Covered, BucketTypeOK, Accrued, AtMost
<1>3. ideal' = IF ideal + RateNum < 2 * m THEN ideal + RateNum ELSE 2 * m
  BY DEF Elapse, AtMost
<1>4. tokens' = tokens /\ BucketTypeOK'
  <2>1. 2 * m \in Int
    BY <1>1
  <2>2. ideal' \in Int
    <3>. HIDE DEF m
    <3>. QED BY <1>2, <1>3, <2>1
  <2>. QED BY <2>2 DEF Covered, BucketTypeOK, Elapse
<1>5. CASE x < m
  <2>1. since' * RateNum = x + RateNum
    BY <1>5 DEF Elapse, Covered, BucketTypeOK
  <2>2. Accrued' = IF x + RateNum < m THEN x + RateNum ELSE m
    BY <2>1 DEF Accrued, AtMost
  <2>. HIDE DEF x, m, t
  <2>3. ideal' >= t + Accrued'
    BY <1>1, <1>2, <1>3, <1>5, <2>2
  <2>. QED BY <2>3, <1>4 DEF Covered, t
<1>6. CASE ~(x < m)
  <2>1. Accrued' = m
    BY <1>6 DEF Elapse, Accrued, AtMost
  <2>. HIDE DEF x, m, t
  <2>2. ideal' >= t + Accrued'
    BY <1>1, <1>2, <1>3, <1>6, <2>1
  <2>. QED BY <2>2, <1>4 DEF Covered, t
<1>. QED BY <1>5, <1>6

\* A request takes a token from both, with a refill when there was none.
LEMMA TakenCovered == Covered /\ Taken => Covered'
<1>. SUFFICES ASSUME Covered, Taken PROVE Covered'
  OBVIOUS
<1>0. ideal' = ideal - RateDen /\ ideal' \in Int
  BY DEF Taken, Covered, BucketTypeOK
<1>1. CASE tokens >= 1 /\ tokens' = tokens - 1 /\ since' = since
  <2>1. tokens' * RateDen = tokens * RateDen - RateDen /\ tokens * RateDen \in Int
    BY <1>1 DEF Covered, BucketTypeOK
  <2>2. Accrued' = Accrued /\ Accrued \in Int
    BY <1>1 DEF Accrued, AtMost, Covered, BucketTypeOK
  <2>3. ideal' >= tokens' * RateDen + Accrued'
    BY <1>0, <2>1, <2>2 DEF Covered, BucketTypeOK
  <2>. QED BY <1>0, <1>1, <2>3 DEF Covered, BucketTypeOK
<1>2. CASE tokens = 0 /\ Refilled >= 1 /\ tokens' = Refilled - 1 /\ since' = 0
  <2>1. Refilled \in 0..Capacity /\ Refilled * RateDen <= Accrued
    BY <1>2, RefillAccrued DEF Covered, BucketTypeOK
  <2>2. tokens' * RateDen = Refilled * RateDen - RateDen /\ Refilled * RateDen \in Int
    BY <1>2, <2>1
  <2>3. Accrued' = 0 /\ Accrued \in Int
    BY <1>2 DEF Accrued, AtMost, Covered, BucketTypeOK
  <2>4. tokens * RateDen = 0
    BY <1>2
  <2>5. ideal' >= tokens' * RateDen + Accrued'
    BY <1>0, <2>1, <2>2, <2>3, <2>4 DEF Covered, BucketTypeOK
  <2>. QED BY <1>0, <1>2, <2>1, <2>5 DEF Covered, BucketTypeOK
<1>. QED BY <1>1, <1>2 DEF Taken

\* A refusal drops what has accrued.
LEMMA RefusedCovered == Covered /\ Refused => Covered'
<1>. SUFFICES ASSUME Covered, Refused PROVE Covered'
  OBVIOUS
<1>1. Accrued' = 0 /\ Accrued \in Nat
  BY DEF Refused, Accrued, AtMost, Covered, BucketTypeOK
<1>2. tokens * RateDen \in Nat
  BY DEF Covered, BucketTypeOK
<1>. QED BY <1>1, <1>2 DEF Refused, Covered, BucketTypeOK

\* Every step of the client is a step of the bucket or leaves it alone.
LEMMA BucketStep == Next => BucketNext \/ UNCHANGED bucketVars
<1>. USE DEF BucketNext
<1>. SUFFICES ASSUME Next PROVE BucketNext \/ UNCHANGED bucketVars
  OBVIOUS
<1>1. ASSUME NEW c \in Calls, Attempt(c) \/ Granted(c) \/ Wake(c)
      PROVE  BucketNext \/ UNCHANGED bucketVars
  BY <1>1 DEF Attempt, Granted, Wake, AskLimiter
<1>2. ASSUME NEW c \in Calls, NEW r \in Requests, complete(c, r)
      PROVE  UNCHANGED bucketVars
  BY <1>2 DEF complete
<1>3. ASSUME NEW c \in Calls,
             stream(c) \/ StreamDone(c) \/ StreamTimesOut(c) \/ Cancel(c) \/ Unwind(c)
      PROVE  UNCHANGED bucketVars
  BY <1>3 DEF stream, StreamDone, StreamTimesOut, Cancel, Unwind
<1>4. ASSUME NEW c \in Calls, NEW how \in {"ok", "transient", "permanent"}, RequestEnds(c, how)
      PROVE  UNCHANGED bucketVars
  BY <1>4 DEF RequestEnds
<1>5. Tick => BucketNext
  BY DEF Tick
<1>. QED BY <1>1, <1>2, <1>3, <1>4, <1>5 DEF Next

\* Both buckets start full.
LEMMA InitCovered == Init => Covered
<1>. SUFFICES ASSUME Init PROVE Covered
  OBVIOUS
<1>1. /\ Capacity * RateDen \in Nat
      /\ 2 * Capacity * RateDen = Capacity * RateDen + Capacity * RateDen
  OBVIOUS
<1>2. Accrued = 0
  BY DEF Init, BucketInit, Accrued, AtMost
<1>. QED BY <1>1, <1>2 DEF Init, BucketInit, Covered, BucketTypeOK

\* Whatever the client does, it elapses time, takes, or is refused.
LEMMA NextCovered == Covered /\ [Next]_vars => Covered'
<1>1. Covered /\ UNCHANGED bucketVars => Covered'
  BY DEF Covered, BucketTypeOK, bucketVars, Accrued
<1>2. UNCHANGED vars => UNCHANGED bucketVars
  BY DEF vars
<1>. QED BY <1>1, <1>2, BucketStep, ElapseCovered, TakenCovered, RefusedCovered DEF BucketNext

\* RateBound for the client: streams, completions, retries and cancellations
\* share the bucket, and none of them takes more than it gives.
THEOREM RateHolds == Spec => []RateBound
<1>1. Covered => RateBound
  <2>1. Covered => tokens * RateDen \in Nat /\ Accrued \in Nat
    BY DEF Covered, BucketTypeOK, Accrued, AtMost
  <2>. QED BY <2>1 DEF Covered, BucketTypeOK, RateBound
<1>. QED BY <1>1, InitCovered, NextCovered, PTL DEF Spec

-----------------------------------------------------------------------------
(* What happens to the semaphore's waiters and to the store of answers. *)

\* Numbers have a least one.
LEMMA SmallestNat ==
  ASSUME NEW I, I \subseteq Nat, I # {}
  PROVE  \E m \in I : \A i \in I : m <= i
<1>1. PICK m \in I : \A i \in I : ~(<<i, m>> \in OpToRel(<, Nat))
  BY NatLessThanWellFounded, WFMin
<1>2. \A i \in I : ~(i < m)
  BY <1>1 DEF OpToRel
<1>. QED BY <1>2

\* What taking the head leaves.
LEMMA Behead ==
  ASSUME NEW S, NEW s \in Seq(S), s # << >>
  PROVE  /\ Tail(s) \in Seq(S) /\ Len(Tail(s)) = Len(s) - 1
         /\ \A i \in DOMAIN Tail(s) : i + 1 \in DOMAIN s /\ Tail(s)[i] = s[i + 1]
         /\ \A i \in DOMAIN s : i # 1 => i - 1 \in DOMAIN Tail(s) /\ Tail(s)[i - 1] = s[i]
OBVIOUS

\* One sequence after another.
LEMMA Joined ==
  ASSUME NEW S, NEW a \in Seq(S), NEW b \in Seq(S)
  PROVE  /\ a \o b \in Seq(S) /\ Len(a \o b) = Len(a) + Len(b)
         /\ \A i \in 1..(Len(a) + Len(b)) :
              (a \o b)[i] = IF i <= Len(a) THEN a[i] ELSE b[i - Len(a)]
OBVIOUS

\* Where e stands in s, if it does, s closes up.
LEMMA Removed ==
  ASSUME NEW S, NEW s \in Seq(S), NEW e
  PROVE  /\ RemoveFirst(s, e) \in Seq(S)
         /\ \/ RemoveFirst(s, e) = s /\ \A i \in DOMAIN s : s[i] # e
            \/ \E k \in DOMAIN s :
                 /\ s[k] = e /\ Len(RemoveFirst(s, e)) = Len(s) - 1
                 /\ \A i \in 1..(Len(s) - 1) :
                      RemoveFirst(s, e)[i] = IF i < k THEN s[i] ELSE s[i + 1]
<1>1. CASE ~\E i \in 1..Len(s) : s[i] = e
  BY <1>1 DEF RemoveFirst
<1>2. CASE \E i \in 1..Len(s) : s[i] = e
  <2> DEFINE I == {i \in 1..Len(s) : s[i] = e}
  <2>1. PICK k \in I : k = SelectInSeq(s, LAMBDA v : v = e)
    <3>1. I # {} /\ I \subseteq Nat
      BY <1>2
    <3>2. PICK m \in I : \A i \in I : m <= i
      BY <3>1, SmallestNat
    <3>3. Min(I) \in I
      BY <3>2 DEF Min
    <3>. QED BY <3>1, <3>3 DEF SelectInSeq
  <2>2. RemoveFirst(s, e) = SubSeq(s, 1, k - 1) \o SubSeq(s, k + 1, Len(s))
    BY <1>2, <2>1 DEF RemoveFirst, RemoveAt
  <2>. HIDE <2>1
  <2>3. k \in 1..Len(s) /\ s[k] = e
    OBVIOUS
  <2> DEFINE a == SubSeq(s, 1, k - 1)
             b == SubSeq(s, k + 1, Len(s))
  <2>4. /\ a \in Seq(S) /\ Len(a) = k - 1 /\ \A i \in 1..(k - 1) : a[i] = s[i]
        /\ b \in Seq(S) /\ Len(b) = Len(s) - k
        /\ \A i \in 1..(Len(s) - k) : b[i] = s[k + i]
    BY <2>3
  <2>5. RemoveFirst(s, e) = a \o b
    BY <2>2
  <2>. HIDE DEF a, b
  <2>6. /\ a \o b \in Seq(S) /\ Len(a \o b) = Len(s) - 1
        /\ \A i \in 1..(Len(s) - 1) : (a \o b)[i] = IF i < k THEN a[i] ELSE b[i - (k - 1)]
    <3>1. Len(s) \in Nat /\ k \in 1..Len(s)
      BY <2>3
    <3>2. Len(a) + Len(b) = Len(s) - 1 /\ \A i \in Int : i <= Len(a) <=> i < k
      BY <2>4, <3>1
    <3>3. /\ a \o b \in Seq(S) /\ Len(a \o b) = Len(a) + Len(b)
          /\ \A i \in 1..(Len(a) + Len(b)) :
               (a \o b)[i] = IF i <= Len(a) THEN a[i] ELSE b[i - Len(a)]
      BY <2>4, Joined
    <3>4. Len(a) = k - 1
      BY <2>4
    <3>. QED BY <3>2, <3>3, <3>4
  <2>7. \A i \in 1..(Len(s) - 1) : (a \o b)[i] = IF i < k THEN s[i] ELSE s[i + 1]
    <3>. TAKE i \in 1..(Len(s) - 1)
    <3>1. i < k => a[i] = s[i]
      BY <2>3, <2>4
    <3>2. ~(i < k) => i - (k - 1) \in 1..(Len(s) - k) /\ k + (i - (k - 1)) = i + 1
      BY <2>3
    <3>. QED BY <2>4, <2>6, <3>1, <3>2
  <2>8. /\ RemoveFirst(s, e) \in Seq(S) /\ Len(RemoveFirst(s, e)) = Len(s) - 1
        /\ \A i \in 1..(Len(s) - 1) :
             RemoveFirst(s, e)[i] = IF i < k THEN s[i] ELSE s[i + 1]
    BY <2>5, <2>6, <2>7
  <2>9. k \in DOMAIN s
    BY <2>3
  <2>. QED BY <2>3, <2>8, <2>9, Zenon
<1>. QED BY <1>1, <1>2

USE ClientAssumption

Holding == {"granted", "sleeping", "request"}
Task == [at : Places, left : 0..Poll, attempt : 0..MaxAttempts]

ClientTyped ==
  /\ caller \in [Calls -> [stage : Stages, request : Requests \cup {NoRequest}]]
  /\ task \in [Calls -> Task]
  /\ cancelling \subseteq Calls
  /\ permits \in 0..Capacity
  /\ queue \in Seq(Calls)
  /\ evidence \in Seq(Requests) /\ Len(evidence) <= MaxEntries

\* The semaphore's waiters are the coroutines that wait for it, once each.
Waiting ==
  /\ \A i \in DOMAIN queue : task[queue[i]].at = "queued"
  /\ \A i, j \in DOMAIN queue : queue[i] = queue[j] => i = j
  /\ \A c \in Calls : task[c].at = "queued" => \E i \in DOMAIN queue : queue[i] = c

Balanced ==
  /\ permits + Cardinality(Holders) = Capacity
  /\ permits > 0 => queue = << >>

Permitted == ClientTyped /\ Waiting /\ Balanced

\* Touching an answer makes the store no longer than by one.
LEMMA TouchedBound ==
  ASSUME NEW r \in Requests, evidence \in Seq(Requests)
  PROVE  /\ Touched(r) \in Seq(Requests) /\ Len(Touched(r)) \in 1..(Len(evidence) + 1)
         /\ r \in ToSet(evidence) => Len(Touched(r)) = Len(evidence)
<1> DEFINE e == RemoveFirst(evidence, r)
<1>1. /\ e \in Seq(Requests)
      /\ Len(e) = Len(evidence) \/ Len(e) = Len(evidence) - 1
      /\ r \in ToSet(evidence) => Len(e) = Len(evidence) - 1
  BY Removed DEF ToSet
<1>. HIDE DEF e
<1>2. Touched(r) = Append(e, r)
  BY DEF Touched, e
<1>3. Append(e, r) \in Seq(Requests) /\ Len(Append(e, r)) = Len(e) + 1
  BY <1>1
<1>. QED BY <1>1, <1>2, <1>3

\* The calls are finitely many, and so are those with a permit.
LEMMA HoldersFinite == IsFiniteSet(Holders) /\ Cardinality(Holders) \in Nat
<1>1. Holders \subseteq Calls
  BY DEF Holders
<1>. QED BY <1>1, FS_Subset, FS_CardinalityType

\* Where nobody comes or goes at the semaphore, its balance stands.
LEMMA SamePermits ==
  ASSUME Permitted, UNCHANGED <<permits, queue>>,
         \A c \in Calls : /\ task[c].at \in Holding <=> task'[c].at \in Holding
                          /\ task[c].at = "queued" <=> task'[c].at = "queued"
  PROVE  Waiting' /\ Balanced'
<1>1. Holders' = Holders
  BY DEF Holders, Holding
<1>2. \A i \in DOMAIN queue : queue[i] \in Calls
  BY DEF Permitted, ClientTyped
<1>. QED BY <1>1, <1>2 DEF Permitted, Waiting, Balanced

\* A holder leaves: the permit is free, or the first waiter has it.
LEMMA ReleaseKeeps ==
  ASSUME Permitted, NEW c \in Holders, NEW t \in [Calls -> Task],
         \A d \in Calls \ {c} : t[d] = task[d],
         t[c].at \notin Holding, t[c].at # "queued", Release(t)
  PROVE  /\ task' \in [Calls -> Task] /\ permits' \in 0..Capacity /\ queue' \in Seq(Calls)
         /\ Waiting' /\ Balanced'
         /\ task'[c] = t[c]
         /\ \A d \in Calls \ {c} : task'[d].at = task[d].at \/ task[d].at = "queued"
<1>. USE DEF Permitted
<1>0. /\ queue \in Seq(Calls) /\ permits \in 0..Capacity /\ task \in [Calls -> Task]
      /\ c \in Calls /\ task[c].at \in Holding
  BY DEF ClientTyped, Holders, Holding
<1>1. Cardinality(Holders \ {c}) = Cardinality(Holders) - 1 /\ IsFiniteSet(Holders \ {c})
  BY HoldersFinite, FS_RemoveElement
<1>2. CASE queue = << >>
  <2>1. permits' = permits + 1 /\ task' = t /\ queue' = queue
    BY <1>2 DEF Release
  <2>2. Holders' = Holders \ {c}
    BY <2>1, <1>0 DEF Holders, Holding
  <2>3. permits' + Cardinality(Holders') = Capacity
    BY <2>1, <2>2, <1>0, <1>1, HoldersFinite DEF Balanced
  <2>4. Cardinality(Holders') \in Nat
    BY <2>2, <1>1, FS_CardinalityType
  <2>5. Balanced' /\ permits' \in 0..Capacity
    BY <2>1, <2>3, <2>4, <1>0, <1>2 DEF Balanced
  <2>6. Waiting'
    BY <2>1, <1>0, <1>2 DEF Waiting
  <2>. QED BY <2>1, <2>5, <2>6, <1>0
<1>3. CASE queue # << >>
  <2> DEFINE h == Head(queue)
  <2>1. h = queue[1] /\ 1 \in DOMAIN queue /\ h \in Calls /\ task[h].at = "queued"
    BY <1>0, <1>3 DEF Waiting
  <2>2. h # c /\ t[h] = task[h]
    BY <2>1, <1>0 DEF Holding
  <2>3. /\ task' = [t EXCEPT ![h] = [t[h] EXCEPT !.at = "granted"]]
        /\ queue' = Tail(queue) /\ permits' = permits
    BY <1>3, <2>1 DEF Release
  <2>. HIDE DEF h
  <2>4. [t[h] EXCEPT !.at = "granted"] \in Task /\ [t[h] EXCEPT !.at = "granted"].at = "granted"
    BY <2>1 DEF Task, Places
  <2>5. /\ task' \in [Calls -> Task] /\ task'[h].at = "granted" /\ task'[c] = t[c]
        /\ \A d \in Calls \ {c, h} : task'[d] = task[d]
    BY <2>1, <2>2, <2>3, <2>4, <1>0
  <2>6. Holders' = (Holders \ {c}) \cup {h}
    BY <2>1, <2>2, <2>5, <1>0 DEF Holders, Holding
  <2>7. h \notin Holders \ {c}
    BY <2>1 DEF Holders
  <2>8. Cardinality(Holders') = Cardinality(Holders)
    <3> DEFINE rest == Holders \ {c}
    <3>1. Cardinality(rest \cup {h}) = Cardinality(rest) + 1
      BY <2>7, <1>1, FS_AddElement
    <3>2. Holders' = rest \cup {h}
      BY <2>6
    <3>. HIDE DEF rest
    <3>3. Cardinality(rest) = Cardinality(Holders) - 1
      BY <1>1 DEF rest
    <3>. QED BY <3>1, <3>2, <3>3, HoldersFinite
  <2>9. permits = 0
    BY <1>3, <1>0 DEF Balanced
  <2>10. Balanced'
    BY <2>3, <2>8, <2>9 DEF Balanced
  <2>11. /\ queue' \in Seq(Calls) /\ Len(queue') = Len(queue) - 1
         /\ \A i \in DOMAIN queue' : i + 1 \in DOMAIN queue /\ queue'[i] = queue[i + 1]
         /\ \A i \in DOMAIN queue : i # 1 => i - 1 \in DOMAIN queue' /\ queue'[i - 1] = queue[i]
    BY <2>3, <1>0, <1>3, Behead
  <2>12. Waiting'
    <3>1. \A i \in DOMAIN queue' : queue'[i] # h /\ queue'[i] # c /\ queue'[i] \in Calls
                                   /\ task[queue'[i]].at = "queued"
      <4>. TAKE i \in DOMAIN queue'
      <4>1. i + 1 # 1 /\ i + 1 \in DOMAIN queue /\ queue'[i] = queue[i + 1]
        BY <2>11, <1>0
      <4>2. queue[i + 1] # queue[1] /\ task[queue[i + 1]].at = "queued" /\ queue[i + 1] \in Calls
        BY <4>1, <2>1, <1>0 DEF Waiting
      <4>. QED BY <4>1, <4>2, <2>1, <1>0 DEF Holding
    <3>2. \A i \in DOMAIN queue' : task'[queue'[i]].at = "queued"
      BY <3>1, <2>5
    <3>3. \A i, j \in DOMAIN queue' : queue'[i] = queue'[j] => i = j
      <4>. TAKE i, j \in DOMAIN queue'
      <4>1. queue[i + 1] = queue[j + 1] => i + 1 = j + 1
        BY <2>11 DEF Waiting
      <4>. QED BY <4>1, <2>11
    <3>4. ASSUME NEW d \in Calls, task'[d].at = "queued"
          PROVE  \E i \in DOMAIN queue' : queue'[i] = d
      <4>1. d # h /\ d # c
        BY <3>4, <2>5
      <4>2. PICK i \in DOMAIN queue : queue[i] = d
        BY <3>4, <4>1, <2>5 DEF Waiting
      <4>. QED BY <4>1, <4>2, <2>1, <2>11
    <3>. QED BY <3>2, <3>3, <3>4 DEF Waiting
  <2>. QED BY <2>1, <2>3, <2>5, <2>10, <2>11, <2>12, <1>0
<1>. QED BY <1>2, <1>3

\* A free permit is taken.
LEMMA AcquireKeeps ==
  ASSUME Permitted, NEW c \in Calls, task[c].at \notin Holding, task[c].at # "queued",
         permits > 0, permits' = permits - 1, queue' = queue,
         task' \in [Calls -> Task], task'[c].at \in Holding,
         \A d \in Calls \ {c} : task'[d] = task[d]
  PROVE  permits' \in 0..Capacity /\ Waiting' /\ Balanced'
<1>. USE DEF Permitted
<1>1. queue = << >> /\ permits \in 0..Capacity
  BY DEF Balanced, ClientTyped
<1>2. Holders' = Holders \cup {c} /\ c \notin Holders
  BY DEF Holders, Holding
<1>3. Cardinality(Holders') = Cardinality(Holders) + 1
  BY <1>2, HoldersFinite, FS_AddElement
<1>4. Balanced'
  BY <1>1, <1>3, HoldersFinite DEF Balanced
<1>5. Waiting'
  BY <1>1 DEF Waiting, Holding
<1>. QED BY <1>1, <1>4, <1>5

\* A coroutine that finds none goes to the end of the queue.
LEMMA EnqueueKeeps ==
  ASSUME Permitted, NEW c \in Calls, task[c].at \notin Holding, task[c].at # "queued",
         ~(permits > 0 /\ queue = << >>), permits' = permits, queue' = Append(queue, c),
         task' \in [Calls -> Task], task'[c].at = "queued",
         \A d \in Calls \ {c} : task'[d] = task[d]
  PROVE  queue' \in Seq(Calls) /\ Waiting' /\ Balanced'
<1>. USE DEF Permitted
<1>1. queue \in Seq(Calls) /\ permits \in 0..Capacity
  BY DEF ClientTyped
<1>2. Holders' = Holders
  BY DEF Holders, Holding
<1>3. Balanced'
  BY <1>1, <1>2 DEF Balanced
<1>4. /\ queue' \in Seq(Calls) /\ DOMAIN queue' = DOMAIN queue \cup {Len(queue) + 1}
      /\ Len(queue) + 1 \notin DOMAIN queue /\ queue'[Len(queue) + 1] = c
      /\ \A i \in DOMAIN queue : queue'[i] = queue[i] /\ queue[i] \in Calls
  BY <1>1
<1>5. \A i \in DOMAIN queue : queue[i] # c
  BY DEF Waiting
<1>6. Waiting'
  BY <1>4, <1>5 DEF Waiting
<1>. QED BY <1>3, <1>4, <1>6

\* A waiter that is cancelled leaves the queue.
LEMMA LeaveKeeps ==
  ASSUME Permitted, NEW c \in Calls, task[c].at \notin Holding,
         permits' = permits, queue' = RemoveFirst(queue, c),
         task' \in [Calls -> Task], task'[c].at = "gone",
         \A d \in Calls \ {c} : task'[d] = task[d]
  PROVE  queue' \in Seq(Calls) /\ Waiting' /\ Balanced'
<1>. USE DEF Permitted
<1>1. queue \in Seq(Calls) /\ permits \in 0..Capacity
  BY DEF ClientTyped
<1>2. Holders' = Holders
  BY DEF Holders, Holding
<1>3. queue' \in Seq(Calls) /\ (queue = << >> => queue' = << >>)
  BY <1>1, Removed
<1>4. Balanced'
  BY <1>1, <1>2, <1>3 DEF Balanced
<1>5. CASE queue' = queue /\ \A i \in DOMAIN queue : queue[i] # c
  <2>1. \A i \in DOMAIN queue : queue[i] \in Calls \ {c}
    BY <1>1, <1>5
  <2>2. Waiting'
    BY <2>1, <1>5 DEF Waiting
  <2>. QED BY <1>3, <1>4, <2>2
<1>6. ASSUME NEW k \in DOMAIN queue, queue[k] = c, Len(queue') = Len(queue) - 1,
             \A i \in 1..(Len(queue) - 1) : queue'[i] = IF i < k THEN queue[i] ELSE queue[i + 1]
      PROVE  Waiting'
  <2> DEFINE old(i) == IF i < k THEN i ELSE i + 1
  <2>0. DOMAIN queue' = 1..(Len(queue) - 1) /\ DOMAIN queue = 1..Len(queue)
    BY <1>1, <1>3, <1>6
  <2>1. \A i \in DOMAIN queue' : /\ old(i) \in DOMAIN queue /\ queue'[i] = queue[old(i)]
                                 /\ old(i) # k
    BY <1>1, <1>6, <2>0
  <2>2. \A i, j \in DOMAIN queue' : old(i) = old(j) => i = j
    BY <2>0
  <2>3. \A i \in DOMAIN queue : i # k => \E j \in DOMAIN queue' : old(j) = i
    <3>. TAKE i \in DOMAIN queue
    <3>1. i < k => i \in DOMAIN queue' /\ old(i) = i
      BY <1>1, <2>0
    <3>2. i > k => i - 1 \in DOMAIN queue' /\ old(i - 1) = i
      BY <1>1, <2>0
    <3>. QED BY <1>1, <2>0, <3>1, <3>2
  <2>. HIDE DEF old
  <2>4. \A i \in DOMAIN queue' : queue'[i] \in Calls \ {c} /\ task[queue'[i]].at = "queued"
    <3>. TAKE i \in DOMAIN queue'
    <3>1. queue[old(i)] # queue[k] /\ task[queue[old(i)]].at = "queued" /\ queue[old(i)] \in Calls
      BY <1>1, <2>1, <1>6 DEF Waiting
    <3>. QED BY <3>1, <2>1, <1>6
  <2>5. \A i \in DOMAIN queue' : task'[queue'[i]].at = "queued"
    BY <2>4
  <2>6. \A i, j \in DOMAIN queue' : queue'[i] = queue'[j] => i = j
    BY <2>1, <2>2 DEF Waiting
  <2>7. ASSUME NEW d \in Calls, task'[d].at = "queued"
        PROVE  \E i \in DOMAIN queue' : queue'[i] = d
    <3>1. d # c /\ task[d].at = "queued"
      BY <2>7
    <3>2. PICK i \in DOMAIN queue : queue[i] = d
      BY <3>1 DEF Waiting
    <3>3. i # k
      BY <3>1, <3>2, <1>6
    <3>. QED BY <3>2, <3>3, <2>1, <2>3
  <2>. QED BY <2>5, <2>6, <2>7 DEF Waiting
<1>7. Waiting'
  BY <1>1, <1>5, <1>6, Removed
<1>. QED BY <1>3, <1>4, <1>7

\* Whatever the limiter answers, a coroutine with a permit keeps it.
LEMMA AskEffect ==
  ASSUME task \in [Calls -> Task], NEW c \in Calls, AskLimiter(c)
  PROVE  /\ task' \in [Calls -> Task] /\ task'[c].at \in Holding
         /\ \A d \in Calls \ {c} : task'[d] = task[d]
<1>1. PICK p \in {"request", "sleeping"}, n \in {0, Poll} :
        task' = [task EXCEPT ![c] = [task[c] EXCEPT !.at = p, !.left = n]]
  <2>1. task[c] \in Task
    OBVIOUS
  <2>2. CASE task' = [task EXCEPT ![c].at = "request", ![c].left = 0]
    BY <2>1, <2>2 DEF Task
  <2>3. CASE task' = [task EXCEPT ![c].at = "sleeping", ![c].left = Poll]
    BY <2>1, <2>3 DEF Task
  <2>. QED BY <2>2, <2>3 DEF AskLimiter
<1>2. [task[c] EXCEPT !.at = p, !.left = n] \in Task /\ [task[c] EXCEPT !.at = p, !.left = n].at = p
  <2>1. p \in Places /\ n \in 0..Poll /\ task[c] \in Task
    BY DEF Places
  <2>. QED BY <2>1 DEF Task
<1>. QED BY <1>1, <1>2 DEF Holding

\* A call that has not begun has no coroutine.
Fresh == \A c \in Calls : caller[c].stage = "idle" => task[c].at = "none" /\ c \notin cancelling

Sound == Permitted /\ NoStrays /\ Fresh

\* The callers' own steps.
LEMMA CallerSound ==
  ASSUME Sound, NEW c \in Calls,
         \/ \E r \in Requests : complete(c, r)
         \/ stream(c) \/ StreamDone(c) \/ StreamTimesOut(c) \/ Cancel(c)
  PROVE  Sound'
<1>. USE DEF Sound, Permitted
<1>0. /\ caller \in [Calls -> [stage : Stages, request : Requests \cup {NoRequest}]]
      /\ task \in [Calls -> Task] /\ task[c] \in Task /\ cancelling \subseteq Calls
      /\ caller[c] \in [stage : Stages, request : Requests \cup {NoRequest}]
  BY DEF ClientTyped
<1> DEFINE Caller == [stage : Stages, request : Requests \cup {NoRequest}]
<1>1. ASSUME NEW x \in Caller, caller' = [caller EXCEPT ![c] = x]
      PROVE  /\ caller' \in [Calls -> Caller] /\ caller'[c] = x
             /\ \A d \in Calls \ {c} : caller'[d] = caller[d]
  BY <1>1, <1>0
<1>2. ASSUME NEW x \in Task, task' = [task EXCEPT ![c] = x],
             x.at \notin Holding, x.at # "queued",
             task[c].at \notin Holding, task[c].at # "queued", UNCHANGED <<permits, queue>>
      PROVE  /\ task' \in [Calls -> Task] /\ task'[c] = x
             /\ \A d \in Calls \ {c} : task'[d] = task[d]
             /\ Waiting' /\ Balanced'
  <2>1. /\ task' \in [Calls -> Task] /\ task'[c] = x
        /\ \A d \in Calls \ {c} : task'[d] = task[d]
    BY <1>2, <1>0
  <2>2. \A d \in Calls : /\ task[d].at \in Holding <=> task'[d].at \in Holding
                         /\ task[d].at = "queued" <=> task'[d].at = "queued"
    BY <1>2, <2>1
  <2>. QED BY <2>1, <2>2, <1>2, SamePermits
<1>3. ASSUME UNCHANGED <<task, permits, queue>> PROVE Waiting' /\ Balanced'
  BY <1>3, SamePermits
<1> DEFINE begun == [task[c] EXCEPT !.at = "created", !.attempt = 1]
<1>4. ASSUME caller[c].stage = "idle", task' = [task EXCEPT ![c].at = "created", ![c].attempt = 1],
             UNCHANGED <<permits, queue>>
      PROVE  /\ task' \in [Calls -> Task]
             /\ \A d \in Calls \ {c} : task'[d] = task[d]
             /\ Waiting' /\ Balanced'
  <2>1. begun \in Task /\ begun.at = "created"
    <3>1. 1 \in 0..MaxAttempts /\ "created" \in Places
      BY DEF ClientAssumption, Places
    <3>. QED BY <1>0, <3>1 DEF Task
  <2>2. task' = [task EXCEPT ![c] = begun]
    BY <1>4, <1>0 DEF Task
  <2>3. task[c].at = "none"
    BY <1>4 DEF Fresh
  <2>. HIDE DEF begun
  <2>. QED BY <1>2, <1>4, <2>1, <2>2, <2>3 DEF Holding
<1>5. ASSUME NEW r \in Requests, complete(c, r) PROVE Sound'
  <2>1. CASE r \in ToSet(evidence)
    <3>1. /\ caller' = [caller EXCEPT ![c] = [stage |-> "returned", request |-> NoRequest]]
          /\ evidence' = Touched(r) /\ caller[c].stage = "idle"
          /\ UNCHANGED <<task, cancelling, permits, queue>>
      BY <1>5, <2>1 DEF complete, Returns
    <3>2. evidence' \in Seq(Requests) /\ Len(evidence') <= MaxEntries
      BY <2>1, <3>1, TouchedBound DEF ClientTyped
    <3>3. /\ caller' \in [Calls -> Caller] /\ caller'[c].stage = "returned"
          /\ \A d \in Calls \ {c} : caller'[d] = caller[d]
      BY <1>1, <3>1 DEF Stages
    <3>4. NoStrays' /\ Fresh'
      BY <3>1, <3>3 DEF NoStrays, Fresh, Over, Streams
    <3>. QED BY <1>3, <3>1, <3>2, <3>3, <3>4 DEF ClientTyped
  <2>2. CASE r \notin ToSet(evidence)
    <3>1. /\ caller' = [caller EXCEPT ![c] = [stage |-> "awaiting", request |-> r]]
          /\ task' = [task EXCEPT ![c].at = "created", ![c].attempt = 1]
          /\ caller[c].stage = "idle"
          /\ UNCHANGED <<evidence, cancelling, permits, queue>>
      BY <1>5, <2>2 DEF complete
    <3>3. /\ caller' \in [Calls -> Caller] /\ caller'[c].stage = "awaiting"
          /\ \A d \in Calls \ {c} : caller'[d] = caller[d]
      BY <1>1, <3>1 DEF Stages
    <3>4. /\ task' \in [Calls -> Task] /\ Waiting' /\ Balanced'
          /\ \A d \in Calls \ {c} : task'[d] = task[d]
      BY <1>4, <3>1
    <3>5. NoStrays' /\ Fresh'
      BY <3>1, <3>3, <3>4 DEF NoStrays, Fresh, Over, Streams
    <3>. QED BY <3>1, <3>3, <3>4, <3>5 DEF ClientTyped
  <2>. QED BY <2>1, <2>2
<1>6. ASSUME NEW s \in Stages, Stage(c, s)
      PROVE  /\ caller' \in [Calls -> Caller] /\ caller'[c].stage = s
             /\ caller'[c].request = caller[c].request
             /\ \A d \in Calls \ {c} : caller'[d] = caller[d]
  <2>1. [caller[c] EXCEPT !.stage = s] \in Caller
    BY <1>0
  <2>. QED BY <1>0, <1>6, <2>1 DEF Stage
<1>7. CASE stream(c)
  <2>1. /\ Stage(c, "awaiting") /\ caller[c].stage = "idle"
        /\ task' = [task EXCEPT ![c].at = "created", ![c].attempt = 1]
        /\ UNCHANGED <<evidence, cancelling, permits, queue>>
    BY <1>7 DEF stream
  <2>2. /\ caller' \in [Calls -> Caller] /\ caller'[c].stage = "awaiting"
        /\ \A d \in Calls \ {c} : caller'[d] = caller[d]
    BY <1>6, <2>1 DEF Stages
  <2>3. /\ task' \in [Calls -> Task] /\ Waiting' /\ Balanced'
        /\ \A d \in Calls \ {c} : task'[d] = task[d]
    BY <1>4, <2>1
  <2>4. NoStrays' /\ Fresh'
    BY <2>1, <2>2, <2>3 DEF NoStrays, Fresh, Over, Streams
  <2>. QED BY <2>1, <2>2, <2>3, <2>4 DEF ClientTyped
<1>8. CASE StreamDone(c)
  <2> DEFINE over == Ended("gone")
  <2>1. /\ caller' = [caller EXCEPT ![c] = [stage |-> "returned", request |-> NoRequest]]
        /\ task' = [task EXCEPT ![c] = over] /\ task[c].at = "done"
        /\ UNCHANGED <<evidence, cancelling, permits, queue>>
    BY <1>8 DEF StreamDone, Returns
  <2>2. over \in Task /\ over.at = "gone"
    BY DEF Ended, Task, Places
  <2>3. /\ caller' \in [Calls -> Caller] /\ caller'[c].stage = "returned"
        /\ \A d \in Calls \ {c} : caller'[d] = caller[d]
    BY <1>1, <2>1 DEF Stages
  <2>. HIDE DEF over
  <2>4. /\ task' \in [Calls -> Task] /\ task'[c] = over /\ Waiting' /\ Balanced'
        /\ \A d \in Calls \ {c} : task'[d] = task[d]
    BY <1>2, <2>1, <2>2 DEF Holding
  <2>5. NoStrays' /\ Fresh'
    BY <2>1, <2>2, <2>3, <2>4 DEF NoStrays, Fresh, Over, Streams
  <2>. QED BY <2>1, <2>3, <2>4, <2>5 DEF ClientTyped
<1>9. CASE StreamTimesOut(c)
  <2>1. /\ caller' = [caller EXCEPT ![c] = [stage |-> "returned", request |-> NoRequest]]
        /\ cancelling' = IF Over(c) THEN cancelling ELSE cancelling \cup {c}
        /\ UNCHANGED <<evidence, task, permits, queue>>
    BY <1>9 DEF StreamTimesOut, Returns
  <2>2. /\ caller' \in [Calls -> Caller] /\ caller'[c].stage = "returned"
        /\ \A d \in Calls \ {c} : caller'[d] = caller[d]
    BY <1>1, <2>1 DEF Stages
  <2>3. Waiting' /\ Balanced'
    BY <1>3, <2>1
  <2>4. NoStrays' /\ Fresh'
    BY <2>1, <2>2 DEF NoStrays, Fresh, Over, Streams
  <2>. QED BY <2>1, <2>2, <2>3, <2>4 DEF ClientTyped
<1>10. CASE Cancel(c)
  <2>1. /\ Stage(c, "cancelled")
        /\ cancelling' = IF Streams(c) THEN cancelling ELSE cancelling \cup {c}
        /\ UNCHANGED <<evidence, task, permits, queue>>
    BY <1>10 DEF Cancel
  <2>2. /\ caller' \in [Calls -> Caller] /\ caller'[c].stage = "cancelled"
        /\ caller'[c].request = caller[c].request
        /\ \A d \in Calls \ {c} : caller'[d] = caller[d]
    BY <1>6, <2>1 DEF Stages
  <2>3. Waiting' /\ Balanced'
    BY <1>3, <2>1
  <2>4. NoStrays' /\ Fresh'
    BY <2>1, <2>2 DEF NoStrays, Fresh, Over, Streams
  <2>. QED BY <2>1, <2>2, <2>3, <2>4 DEF ClientTyped
<1>. QED BY <1>5, <1>7, <1>8, <1>9, <1>10

\* A step of a coroutine that leaves the callers alone and is not its end.
LEMMA StillCollects ==
  ASSUME Sound, NEW c \in Calls, ~Over(c), UNCHANGED caller,
         \/ cancelling' = cancelling
         \/ cancelling' = cancelling \ {c} /\ task'[c].at = "gone",
         \A d \in Calls \ {c} : task'[d].at = task[d].at \/ task[d].at = "queued"
  PROVE  NoStrays' /\ Fresh'
BY DEF Sound, NoStrays, Fresh, Over, Streams

\* The steps of a coroutine up to the provider's answer.
LEMMA AskingSound ==
  ASSUME Sound, NEW c \in Calls, Attempt(c) \/ Granted(c) \/ Wake(c)
  PROVE  Sound'
<1>. USE DEF Sound, Permitted
<1>0. /\ task \in [Calls -> Task] /\ task[c] \in Task /\ queue \in Seq(Calls)
  BY DEF ClientTyped
<1>1. /\ UNCHANGED <<caller, evidence, cancelling>>
      /\ task[c].at \in {"created", "backoff", "granted", "sleeping"} /\ ~Over(c)
  BY DEF Attempt, Granted, Wake, KeepCaller, Over
<1>2. CASE Granted(c) \/ Wake(c)
  <2>1. AskLimiter(c) /\ UNCHANGED <<permits, queue>> /\ task[c].at \in Holding
    BY <1>2 DEF Granted, Wake, Holding
  <2>2. /\ task' \in [Calls -> Task] /\ task'[c].at \in Holding
        /\ \A d \in Calls \ {c} : task'[d] = task[d]
    BY <2>1, <1>0, AskEffect
  <2>3. Waiting' /\ Balanced'
    BY <2>1, <2>2, SamePermits DEF Holding
  <2>4. NoStrays' /\ Fresh'
    BY <2>2, <1>1, StillCollects
  <2>. QED BY <1>1, <2>1, <2>2, <2>3, <2>4 DEF ClientTyped
<1>3. CASE Attempt(c)
  <2>1. task[c].at \notin Holding /\ task[c].at # "queued"
    BY <1>3 DEF Attempt, Holding
  <2>2. CASE permits > 0 /\ queue = << >>
    <3>1. permits' = permits - 1 /\ AskLimiter(c) /\ queue' = queue
      BY <1>3, <2>2 DEF Attempt
    <3>2. /\ task' \in [Calls -> Task] /\ task'[c].at \in Holding
          /\ \A d \in Calls \ {c} : task'[d] = task[d]
      BY <3>1, <1>0, AskEffect
    <3>3. permits' \in 0..Capacity /\ Waiting' /\ Balanced'
      BY <2>1, <2>2, <3>1, <3>2, AcquireKeeps
    <3>4. NoStrays' /\ Fresh'
      BY <3>2, <1>1, StillCollects
    <3>. QED BY <1>1, <3>1, <3>2, <3>3, <3>4 DEF ClientTyped
  <2>3. CASE ~(permits > 0 /\ queue = << >>)
    <3> DEFINE put == [task[c] EXCEPT !.at = "queued"]
    <3>1. /\ task' = [task EXCEPT ![c].at = "queued"]
          /\ queue' = Append(queue, c) /\ permits' = permits
      BY <1>3, <2>3 DEF Attempt
    <3>2. put \in Task /\ put.at = "queued"
      BY <1>0 DEF Task, Places
    <3>3. task' = [task EXCEPT ![c] = put]
      BY <3>1
    <3>. HIDE DEF put
    <3>4. /\ task' \in [Calls -> Task] /\ task'[c].at = "queued"
          /\ \A d \in Calls \ {c} : task'[d] = task[d]
      BY <3>2, <3>3, <1>0
    <3>5. queue' \in Seq(Calls) /\ Waiting' /\ Balanced'
      BY <2>1, <2>3, <3>1, <3>4, EnqueueKeeps
    <3>6. NoStrays' /\ Fresh'
      BY <3>4, <1>1, StillCollects
    <3>. QED BY <1>1, <3>1, <3>4, <3>5, <3>6 DEF ClientTyped
  <2>. QED BY <2>2, <2>3
<1>. QED BY <1>2, <1>3

\* The steps that end an attempt.
LEMMA EndingSound ==
  ASSUME Sound, NEW c \in Calls, NEW how \in {"ok", "transient", "permanent"},
         RequestEnds(c, how)
  PROVE  Sound'
<1>. USE DEF Sound, Permitted
<1>0. /\ task \in [Calls -> Task] /\ task[c] \in Task
      /\ task[c].at = "request" /\ ~Over(c) /\ c \in Holders /\ cancelling' = cancelling
  BY DEF ClientTyped, RequestEnds, Over, Holders
<1>1. ASSUME NEW x \in Task, x.at \notin Holding, x.at # "queued",
             Release([task EXCEPT ![c] = x])
      PROVE  /\ task' \in [Calls -> Task] /\ permits' \in 0..Capacity /\ queue' \in Seq(Calls)
             /\ Waiting' /\ Balanced' /\ task'[c] = x
             /\ \A d \in Calls \ {c} : task'[d].at = task[d].at \/ task[d].at = "queued"
  <2> DEFINE t == [task EXCEPT ![c] = x]
  <2>1. t \in [Calls -> Task] /\ t[c] = x /\ \A d \in Calls \ {c} : t[d] = task[d]
    BY <1>0
  <2>2. Release(t)
    BY <1>1
  <2>. HIDE DEF t
  <2>. QED BY <2>1, <2>2, <1>0, <1>1, ReleaseKeeps
<1>2. CASE how = "transient" /\ task[c].attempt < MaxAttempts
  <2> DEFINE again == [task[c] EXCEPT !.at = "backoff", !.attempt = @ + 1]
  <2>1. Release([task EXCEPT ![c].at = "backoff", ![c].attempt = @ + 1]) /\ UNCHANGED <<caller, evidence>>
    BY <1>2 DEF RequestEnds, KeepCaller
  <2>2. task[c].attempt + 1 \in 0..MaxAttempts /\ "backoff" \in Places
    BY <1>0, <1>2 DEF Task, Places, ClientAssumption
  <2>3. again \in Task /\ again.at = "backoff"
    BY <2>2, <1>0 DEF Task
  <2>4. [task EXCEPT ![c].at = "backoff", ![c].attempt = @ + 1] = [task EXCEPT ![c] = again]
    BY <1>0 DEF Task
  <2>. HIDE DEF again
  <2>5. /\ task' \in [Calls -> Task] /\ permits' \in 0..Capacity /\ queue' \in Seq(Calls)
        /\ Waiting' /\ Balanced'
        /\ \A d \in Calls \ {c} : task'[d].at = task[d].at \/ task[d].at = "queued"
    BY <1>1, <2>1, <2>3, <2>4 DEF Holding
  <2>6. NoStrays' /\ Fresh'
    BY <2>1, <2>5, <1>0, StillCollects
  <2>. QED BY <1>0, <2>1, <2>5, <2>6 DEF ClientTyped
<1>3. CASE ~(how = "transient" /\ task[c].attempt < MaxAttempts)
  <2> DEFINE over == Ended(IF Streams(c) THEN "done" ELSE "gone")
  <2>1. /\ Release([task EXCEPT ![c] = over])
        /\ \/ UNCHANGED <<caller, evidence>>
           \/ ~Streams(c) /\ Returns(c) /\ (UNCHANGED evidence \/ Answers(c))
    BY <1>3 DEF RequestEnds, KeepCaller, Answers
  <2>2. over \in Task /\ over.at \in {"done", "gone"}
    BY DEF Ended, Task, Places
  <2>. HIDE DEF over
  <2>3. /\ task' \in [Calls -> Task] /\ permits' \in 0..Capacity /\ queue' \in Seq(Calls)
        /\ Waiting' /\ Balanced' /\ task'[c].at \in {"done", "gone"}
        /\ \A d \in Calls \ {c} : task'[d].at = task[d].at \/ task[d].at = "queued"
    BY <1>1, <2>1, <2>2 DEF Holding
  <2>4. CASE UNCHANGED <<caller, evidence>>
    <3>1. NoStrays' /\ Fresh'
      BY <2>3, <2>4, <1>0, StillCollects
    <3>. QED BY <1>0, <2>3, <2>4, <3>1 DEF ClientTyped
  <2>5. CASE ~Streams(c) /\ Returns(c) /\ (UNCHANGED evidence \/ Answers(c))
    <3> DEFINE Caller == [stage : Stages, request : Requests \cup {NoRequest}]
               back == [stage |-> "returned", request |-> NoRequest]
    <3>1. caller \in [Calls -> Caller] /\ back \in Caller /\ back.stage = "returned"
      BY DEF ClientTyped, Stages
    <3>2. caller' = [caller EXCEPT ![c] = back]
      BY <2>5 DEF Returns
    <3>. HIDE DEF back
    <3>3. /\ caller' \in [Calls -> Caller] /\ caller'[c].stage = "returned"
          /\ \A d \in Calls \ {c} : caller'[d] = caller[d]
      BY <3>1, <3>2
    <3>4. NoStrays'
      <4>1. ASSUME NEW d \in Calls \ {c}, ~Over(d)' PROVE ~Over(d) /\ caller'[d] = caller[d]
        BY <2>3, <3>3, <4>1 DEF Over
      <4>2. Over(c)'
        BY <2>3 DEF Over
      <4>. QED BY <1>0, <4>1, <4>2 DEF NoStrays, Streams
    <3>5. Fresh'
      BY <1>0, <2>3, <3>3 DEF Fresh
    <3>6. evidence' \in Seq(Requests) /\ Len(evidence') <= MaxEntries
      <4>1. CASE UNCHANGED evidence
        BY <4>1 DEF ClientTyped
      <4>2. CASE Answers(c)
        <5> DEFINE e == Touched(caller[c].request)
        <5>1. caller[c].request \in Requests
          BY <2>5, <3>1 DEF Streams
        <5>2. e \in Seq(Requests) /\ Len(e) \in 1..(MaxEntries + 1)
          BY <5>1, TouchedBound DEF ClientTyped, ClientAssumption
        <5>3. evidence' = IF Len(e) > MaxEntries THEN Tail(e) ELSE e
          BY <4>2 DEF Answers
        <5>. HIDE DEF e
        <5>4. e # << >> /\ MaxEntries \in Nat
          BY <5>2 DEF ClientAssumption
        <5>5. Tail(e) \in Seq(Requests) /\ Len(Tail(e)) = Len(e) - 1
          BY <5>2, <5>4, Behead
        <5>. QED BY <5>2, <5>3, <5>4, <5>5
      <4>. QED BY <4>1, <4>2, <2>5
    <3>. QED BY <1>0, <2>3, <3>3, <3>4, <3>5, <3>6 DEF ClientTyped
  <2>. QED BY <2>1, <2>4, <2>5
<1>. QED BY <1>2, <1>3

\* A cancelled coroutine gives back what it holds and leaves the queue.
LEMMA UnwindSound ==
  ASSUME Sound, NEW c \in Calls, Unwind(c)
  PROVE  Sound'
<1> DEFINE over == Ended("gone")
           gone == [task EXCEPT ![c] = over]
<1>. USE DEF Sound, Permitted
<1>0. /\ task \in [Calls -> Task] /\ c \in cancelling /\ cancelling \subseteq Calls
      /\ cancelling' = cancelling \ {c} /\ UNCHANGED <<caller, evidence>>
  BY DEF ClientTyped, Unwind, KeepCaller
<1>1. over \in Task /\ over.at = "gone"
  BY DEF Ended, Task, Places
<1>2. IF task[c].at \in Holding THEN Release(gone)
      ELSE task' = gone /\ permits' = permits /\ queue' = RemoveFirst(queue, c)
  BY DEF Unwind, Holding
<1>. HIDE DEF over
<1>3. /\ gone \in [Calls -> Task] /\ gone[c] = over
      /\ \A d \in Calls \ {c} : gone[d] = task[d]
  BY <1>0, <1>1
<1>. HIDE DEF gone
<1>4. /\ task' \in [Calls -> Task] /\ permits' \in 0..Capacity /\ queue' \in Seq(Calls)
      /\ Waiting' /\ Balanced' /\ task'[c] = over
      /\ \A d \in Calls \ {c} : task'[d].at = task[d].at \/ task[d].at = "queued"
  <2>1. CASE task[c].at \in Holding
    <3>1. c \in Holders
      BY <2>1 DEF Holders, Holding
    <3>2. over.at \notin Holding /\ over.at # "queued"
      BY <1>1 DEF Holding
    <3>3. Release(gone)
      BY <1>2, <2>1
    <3>. QED BY <1>3, <3>1, <3>2, <3>3, ReleaseKeeps
  <2>2. CASE task[c].at \notin Holding
    <3>1. task' = gone /\ permits' = permits /\ queue' = RemoveFirst(queue, c)
      BY <1>2, <2>2
    <3>2. queue' \in Seq(Calls) /\ Waiting' /\ Balanced'
      BY <1>1, <1>3, <2>2, <3>1, LeaveKeeps
    <3>. QED BY <1>3, <3>1, <3>2 DEF ClientTyped
  <2>. QED BY <2>1, <2>2
<1>5. NoStrays' /\ Fresh'
  BY <1>0, <1>1, <1>4 DEF NoStrays, Fresh, Over, Streams
<1>. QED BY <1>0, <1>4, <1>5 DEF ClientTyped

\* Time passes for those who sleep.
LEMMA TickSound ==
  ASSUME Sound, Tick
  PROVE  Sound'
<1> DEFINE later(c) == [task[c] EXCEPT !.left = IF @ = 0 THEN 0 ELSE @ - 1]
<1>. USE DEF Sound, Permitted
<1>0. task \in [Calls -> Task] /\ UNCHANGED <<caller, cancelling, permits, queue, evidence>>
  BY DEF ClientTyped, Tick
<1>1. task' = [c \in Calls |-> later(c)]
  BY DEF Tick
<1>2. ASSUME NEW c \in Calls PROVE later(c) \in Task /\ later(c).at = task[c].at
  <2>1. (IF task[c].left = 0 THEN 0 ELSE task[c].left - 1) \in 0..Poll
    BY <1>0 DEF Task, ClientAssumption
  <2>. QED BY <1>0, <2>1 DEF Task
<1>. HIDE DEF later
<1>3. task' \in [Calls -> Task] /\ \A c \in Calls : task'[c].at = task[c].at
  BY <1>1, <1>2
<1>4. Waiting' /\ Balanced'
  BY <1>0, <1>3, SamePermits
<1>. QED BY <1>0, <1>3, <1>4 DEF ClientTyped, NoStrays, Fresh, Over, Streams

\* At the start every permit is free and nobody waits.
LEMMA InitSound == Init => Sound
<1>. SUFFICES ASSUME Init PROVE Sound
  OBVIOUS
<1>1. Holders = {}
  BY DEF Init, Holders
<1>2. Cardinality(Holders) = 0 /\ permits = Capacity /\ queue = << >> /\ evidence = << >>
  BY <1>1, FS_EmptySet DEF Init
<1>3. /\ caller \in [Calls -> [stage : Stages, request : Requests \cup {NoRequest}]]
      /\ task \in [Calls -> Task]
  <2>1. [at |-> "none", left |-> 0, attempt |-> 0] \in Task
    BY DEF Task, Places, ClientAssumption
  <2>2. [stage |-> "idle", request |-> NoRequest]
          \in [stage : Stages, request : Requests \cup {NoRequest}]
    BY DEF Stages
  <2>. QED BY <2>1, <2>2 DEF Init
<1>4. ClientTyped
  BY <1>2, <1>3 DEF Init, ClientTyped, ClientAssumption
<1>. QED BY <1>2, <1>4 DEF Sound, Permitted, Waiting, Balanced, NoStrays, Fresh, Over, Init

\* Every action conserves the permits, and queues calls with the waiters.
LEMMA NextSound == Sound /\ [Next]_vars => Sound'
<1>. SUFFICES ASSUME Sound, [Next]_vars PROVE Sound'
  OBVIOUS
<1>1. CASE UNCHANGED vars
  <2>1. UNCHANGED clientVars
    BY <1>1 DEF vars
  <2>. QED BY <2>1 DEF clientVars, Sound, Permitted, ClientTyped, Waiting, Balanced, Holders,
                        NoStrays, Fresh, Over, Streams
<1>2. CASE Next
  BY <1>2, CallerSound, AskingSound, EndingSound, UnwindSound, TickSound DEF Next
<1>. QED BY <1>1, <1>2

\* An orderly queue is no longer than the calls are many.
LEMMA QueueBound ==
  ASSUME queue \in Seq(Calls), Waiting
  PROVE  Len(queue) <= Cardinality(Calls)
<1> DEFINE D == 1..Len(queue)
<1>1. queue \in [D -> Calls] /\ \A i, j \in D : queue[i] = queue[j] => i = j
  BY DEF Waiting
<1>2. queue \in Injection(D, Calls)
  BY <1>1 DEF Injection, IsInjective
<1>3. Cardinality(D) <= Cardinality(Calls)
  BY <1>2, FS_Injection DEF ClientAssumption
<1>4. Cardinality(D) = Len(queue)
  <2>1. Len(queue) \in Nat
    OBVIOUS
  <2>2. \A n \in Nat : Cardinality(1..n) = n
    BY FS_Interval
  <2>. QED BY <2>1, <2>2
<1>. QED BY <1>3, <1>4

\* PermitsExact for the client, and that its queue is in order: a coroutine
\* that waits for a permit stands in the queue, where a release will find it.
THEOREM PermitsAreExact == Spec => [](PermitsExact /\ Waiting)
<1>1. Covered /\ Sound => PermitsExact /\ Waiting
  BY QueueBound DEF Covered, Sound, Permitted, ClientTyped, Balanced, PermitsExact, TypeOK, Task
<1>2. Spec => []Covered
  BY InitCovered, NextCovered, PTL DEF Spec
<1>. QED BY <1>1, <1>2, InitSound, NextSound, PTL DEF Spec

\* NoStrays for the client: cancelled and timed out callers leave no coroutine
\* behind that goes on collecting, but for the streams the code abandons.
THEOREM NobodyStrays == Spec => []NoStrays
<1>1. Sound => NoStrays
  BY DEF Sound
<1>. QED BY <1>1, InitSound, NextSound, PTL DEF Spec
=============================================================================
