---------------------------- MODULE StateMachine ----------------------------
(***************************************************************************)
(* What dawn_kestrel/core/fsm.py promises of every FSM, whatever surrounds *)
(* a transition (hooks, persistence, events, observers): a current state   *)
(* that only ever moves along a declared transition.  "State machine       *)
(* manages state transitions with validation, ensuring only valid          *)
(* transitions are executed" (class FSM).                                  *)
(***************************************************************************)
CONSTANTS States, Initial, Transitions

VARIABLE current

Init == current = Initial

Move == \E to \in Transitions[current] : current' = to

Next == Move

Spec == Init /\ [][Next]_current
=============================================================================
