---------------------------- MODULE MCDelegation ----------------------------
(***************************************************************************)
(* A tree of seven agents, four levels deep: the root has the children    *)
(* a1 to a4, a1 has b1, and b1 has c1.                                     *)
(***************************************************************************)
EXTENDS Delegation

CONSTANTS root, a1, a2, a3, a4, b1, c1

Tree == [x \in Agents |-> CASE x = root -> <<a1, a2, a3, a4>> [] x = a1 -> <<b1>>
                            [] x = b1 -> <<c1>> [] OTHER -> << >>]

Depth == [x \in Agents |-> CASE x = root -> 0 [] x = b1 -> 2 [] x = c1 -> 3 [] OTHER -> 1]
=============================================================================
