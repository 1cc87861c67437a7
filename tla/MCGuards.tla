------------------------------ MODULE MCGuards ------------------------------
(***************************************************************************)
(* The two guards that stand before an awaited function: ToolCache with    *)
(* two keys, of different tools, and Bulkhead with two resources, one of   *)
(* the default limit of one (self._default_limit) and one configured       *)
(* wider.  Neither calls the other or shares state with it, so a behaviour *)
(* goes through one of them only: whichever is used first.                 *)
(***************************************************************************)
EXTENDS ToolCache, Bulkhead, TLC

CONSTANTS k1, k2, r1, r2

Tools == [k \in {k1, k2} |-> IF k = k2 THEN "grep" ELSE "read"]

Limits == r1 :> 1 @@ r2 :> 2

BulkheadUnused == \A r \in Resources : capacity[r] = Unset

\* The size of a cache that is not used does not matter.
CacheUnused == Init /\ \A n \in Sizes : maxSize <= n

GuardsInit == Init /\ BulkheadInit /\ \A u \in Users : use[u].res = r1

GuardsNext ==
  \/ Next /\ BulkheadUnused /\ UNCHANGED bulkheadVars
  \/ BulkheadNext /\ CacheUnused /\ UNCHANGED vars

GuardsSpec == GuardsInit /\ [][GuardsNext]_<<vars, bulkheadVars>> /\ Fairness
=============================================================================
