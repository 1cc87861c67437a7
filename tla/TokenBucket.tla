---------------------------- MODULE TokenBucket -----------------------------
(***************************************************************************)
(* TokenBucket of dawn_kestrel/llm/rate_limiter.py, for one resource and   *)
(* for requests of one token, as every caller makes them.  Time is counted *)
(* in ticks; the refill rate is RateNum / RateDen tokens a tick.           *)
(*                                                                         *)
(* Two details decide what the bucket does: it refills only when it is     *)
(* empty, and a refill drops the fraction of a token that has accrued.     *)
(***************************************************************************)
EXTENDS Integers

CONSTANTS Capacity, RateNum, RateDen

ASSUME BucketAssumption ==
  /\ Capacity \in Nat \ {0} /\ RateNum \in Nat \ {0} /\ RateDen \in Nat \ {0}

VARIABLES
  tokens,  \* _tokens
  since,   \* ticks since _last_refill_time, until they fill the bucket
  ideal    \* level of a bucket of twice the capacity that loses nothing, in
           \* units of 1 / RateDen (observed)

bucketVars == <<tokens, since, ideal>>

BucketTypeOK ==
  /\ tokens \in 0..Capacity
  /\ since \in Nat
  /\ ideal \in Int

BucketInit == tokens = Capacity /\ since = 0 /\ ideal = 2 * Capacity * RateDen

AtMost(n, bound) == IF n < bound THEN n ELSE bound

Elapse ==
  /\ since' = IF since * RateNum < Capacity * RateDen THEN since + 1 ELSE since
  /\ ideal' = AtMost(ideal + RateNum, 2 * Capacity * RateDen)
  /\ UNCHANGED tokens

\* int(elapsed * refill_rate) tokens are added.
Refilled == AtMost(tokens + (since * RateNum) \div RateDen, Capacity)

\* A token is taken, after a refill if there is none.
Taken_Mutant ==
  /\ ideal' = ideal - RateDen
  /\ \/ tokens >= 1 /\ tokens' = tokens - 1 /\ UNCHANGED since
     \/ tokens = 0 /\ Refilled >= 1 /\ tokens' = Refilled - 1 /\ UNCHANGED since

Taken ==
  /\ ideal' = ideal - RateDen
  /\ \/ tokens >= 1 /\ tokens' = tokens - 1 /\ UNCHANGED since
     \/ tokens = 0 /\ Refilled >= 1 /\ tokens' = Refilled - 1 /\ since' = 0

\* RATE_LIMIT_EXCEEDED: the refill was too small, and what had accrued is gone.
Refused ==
  /\ tokens = 0 /\ Refilled = 0
  /\ since' = 0
  /\ UNCHANGED <<tokens, ideal>>

BucketNext == Elapse \/ Taken \/ Refused

BucketSpec == BucketInit /\ [][BucketNext]_bucketVars

-----------------------------------------------------------------------------
\* The limiter never lets a request through that a bucket of twice the capacity
\* and the same rate would refuse.  The factor two is needed: a bucket that was
\* idle while full hands out its tokens and is then refilled for the idle time.
RateBound == ideal >= 0
=============================================================================
