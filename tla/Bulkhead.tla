------------------------------ MODULE Bulkhead ------------------------------
(***************************************************************************)
(* BulkheadImpl of dawn_kestrel/llm/bulkhead.py: a semaphore per resource, *)
(* created on first use with the limit of that moment, and a set of the    *)
(* semaphores that somebody holds.  Coroutines run try_execute, which      *)
(* suspends in semaphore.acquire and in the function it protects.          *)
(***************************************************************************)
EXTENDS Integers, Sequences, FiniteSets

CONSTANTS
  Users,       \* coroutines that call try_execute
  Resources,
  Limit,       \* set_limit before the calls: resource -> limit
  Overrides,   \* values of max_concurrent that callers pass; 0 is None
  Unset        \* no semaphore has been created for the resource

ASSUME BulkheadAssumption ==
  /\ Limit \in [Resources -> Nat \ {0}]
  /\ Overrides \subseteq Nat
  /\ IsFiniteSet(Users)
  /\ Unset \notin Nat

VARIABLES
  limit,      \* self._limits
  capacity,   \* the limit each semaphore was created with, or Unset
  permits,    \* the value of self._semaphores[r]
  managed,    \* self._managed_semaphores, by resource
  active,     \* self._active_counts
  order,      \* the keys of self._active_counts in insertion order
  use         \* what each caller is doing in try_execute

bulkheadVars == <<limit, capacity, permits, managed, active, order, use>>

Phases == {"idle", "acquiring", "executing"}

\* orig is the limit to restore, override the max_concurrent passed.
Use == [phase : Phases, res : Resources, orig : Nat, override : Nat]

BulkheadTypeOK ==
  /\ limit \in [Resources -> Nat]
  /\ capacity \in [Resources -> Nat \cup {Unset}]
  /\ permits \in [Resources -> Nat]
  /\ managed \subseteq Resources
  /\ active \in [Resources -> Nat]
  /\ order \in Seq(Resources)
  /\ use \in [Users -> Use]

BulkheadInit ==
  /\ limit = Limit
  /\ capacity = [r \in Resources |-> Unset]
  /\ permits = [r \in Resources |-> 0]
  /\ managed = {}
  /\ active = [r \in Resources |-> 0]
  /\ order = << >>
  /\ use \in [Users -> [phase : {"idle"}, res : Resources,
                        orig : {0}, override : {0}]]

-----------------------------------------------------------------------------
\* The limit is overridden, then try_acquire creates the semaphore if there is
\* none and waits for it.
try_execute(c, r, o) ==
  /\ use[c].phase = "idle"
  /\ limit' = IF o = 0 THEN limit ELSE [limit EXCEPT ![r] = o]
  /\ \/ /\ capacity[r] = Unset
        /\ capacity' = [capacity EXCEPT ![r] = limit'[r]]
        /\ permits' = [permits EXCEPT ![r] = limit'[r]]
     \/ capacity[r] # Unset /\ UNCHANGED <<capacity, permits>>
  /\ use' = [use EXCEPT ![c] = [phase |-> "acquiring", res |-> r,
                                orig |-> limit[r], override |-> o]]
  /\ UNCHANGED <<managed, active, order>>

Acquired(c) ==
  LET r == use[c].res IN
  /\ use[c].phase = "acquiring"
  /\ permits[r] > 0
  /\ permits' = [permits EXCEPT ![r] = @ - 1]
  /\ managed' = managed \cup {r}
  /\ active' = [active EXCEPT ![r] = @ + 1]
  /\ order' = IF \E i \in DOMAIN order : order[i] = r THEN order ELSE Append(order, r)
  /\ use' = [use EXCEPT ![c].phase = "executing"]
  /\ UNCHANGED <<limit, capacity>>

\* The outer finally of try_execute: a passed override is undone.
Leave(c) ==
  /\ limit' = IF use[c].override = 0 THEN limit
              ELSE [limit EXCEPT ![use[c].res] = use[c].orig]
  /\ use' = [use EXCEPT ![c].phase = "idle", ![c].orig = 0,
                        ![c].override = 0]

\* wait_for gives up while the semaphore is taken, or the caller is cancelled.
AcquireFails(c) ==
  /\ use[c].phase = "acquiring"
  /\ Leave(c)
  /\ UNCHANGED <<capacity, permits, managed, active, order>>

\* The first resource, in insertion order, with a positive active count.
FirstActive == CHOOSE i \in DOMAIN order :
  active[order[i]] > 0 /\ \A j \in 1..(i - 1) : active[order[j]] = 0

\* The function returns, raises, times out or is cancelled; the inner finally
\* releases.  release refuses a semaphore that is not in the managed set, and
\* try_execute drops that answer.
Done_Mutant(c) ==
  LET r == use[c].res IN
  /\ use[c].phase = "executing"
  /\ permits' = [permits EXCEPT ![r] = @ + 1]
  /\ managed' = managed \ {r}
  /\ \/ Leave(c)
     \/ UNCHANGED <<limit, use>>
  /\ UNCHANGED <<capacity, active, order>>

DoneForgets_Mutant(c) ==
  /\ use[c].phase = "executing"
  /\ Leave(c)
  /\ UNCHANGED <<capacity, permits, managed, active, order>>

Done(c) ==
  LET r == use[c].res IN
  /\ use[c].phase = "executing"
  /\ \/ /\ r \in managed
        /\ permits' = [permits EXCEPT ![r] = @ + 1]
        /\ managed' = managed \ {r}
        /\ active' = IF \A i \in DOMAIN order : active[order[i]] = 0 THEN active
                     ELSE [active EXCEPT ![order[FirstActive]] = IF @ > 0 THEN @ - 1 ELSE 0]
     \/ /\ r \notin managed
        /\ UNCHANGED <<permits, managed, active>>
  /\ Leave(c)
  /\ UNCHANGED <<capacity, order>>

BulkheadNext ==
  \E c \in Users :
    \/ \E r \in Resources, o \in Overrides : try_execute(c, r, o)
    \/ Acquired(c)
    \/ AcquireFails(c)
    \/ Done(c)

BulkheadSpec == BulkheadInit /\ [][BulkheadNext]_bulkheadVars

-----------------------------------------------------------------------------
(* Properties. *)

Holders(r) == {c \in Users : use[c].phase = "executing" /\ use[c].res = r}

\* However callers overlap, override limits, time out or are cancelled, no
\* more of them are inside a resource than its semaphore was created for, and
\* no permit is returned twice.
NeverOverCapacity ==
  \A r \in Resources : capacity[r] # Unset =>
    permits[r] + Cardinality(Holders(r)) <= capacity[r]

\* A semaphore created with one permit, the default, gets it back whatever
\* times out, raises, is cancelled or overrides the limit meanwhile: the permit
\* is free or with a caller inside.
SinglePermitReturns ==
  \A r \in Resources : capacity[r] = 1 => permits[r] + Cardinality(Holders(r)) = 1
=============================================================================
