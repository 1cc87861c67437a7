------------------------------- MODULE MCFsm -------------------------------
(***************************************************************************)
(* Fsm with the states and transitions of WORKFLOW_STATES and              *)
(* WORKFLOW_TRANSITIONS (core/fsm.py), the machine every agent             *)
(* configuration builds.                                                   *)
(***************************************************************************)
EXTENDS Fsm

WorkflowStates == {"intake", "plan", "reason", "act", "synthesize", "check", "done"}

WorkflowTransitions == [s \in WorkflowStates |->
  CASE s = "intake"     -> {"plan", "reason"}
    [] s = "plan"       -> {"act", "reason"}
    [] s = "reason"     -> {"act", "synthesize", "check", "done"}
    [] s = "act"        -> {"synthesize"}
    [] s = "synthesize" -> {"check"}
    [] s = "check"      -> {"plan", "reason", "act", "done"}
    [] s = "done"       -> {}]

\* Hooks on the states an agent works in.
WorkStates == {"plan", "reason", "act", "check"}
=============================================================================
