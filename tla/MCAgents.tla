----------------------------- MODULE MCAgents ------------------------------
(***************************************************************************)
(* The two components that run several agents for one caller.              *)
(*                                                                         *)
(* Orchestrator with three calls: d1 on t1 through execute_task_via_task,  *)
(* d2 on t2 and d3 on t3.  MultiAgent with three agents and every          *)
(* dependency graph on them, circular ones included, and the same with a   *)
(* dependency of one agent that does not exist.                            *)
(*                                                                         *)
(* Neither calls the other or shares state with it, so a behaviour goes    *)
(* through one of them only: whichever is used first.                      *)
(***************************************************************************)
EXTENDS MultiAgent, Orchestrator

CONSTANTS t1, t2, t3, d1, d2, d3, a1, a2, a3, ghost

Owner == [d \in Calls |-> IF d = d1 THEN t1 ELSE IF d = d2 THEN t2 ELSE t3]

MCAgents == {a1, a2, a3}
MCModes == {"sequential", "parallel", "dag", "conditional"}

Known == [MCAgents -> SUBSET MCAgents]
MCGraphs == Known \cup {[g EXCEPT ![a1] = {ghost}] : g \in Known}

\* At most one condition that is not met.
MCContexts ==
  {[c \in MCAgents |-> IF c = a THEN answer ELSE "yes"] : a \in MCAgents, answer \in Answers}

\* The mode of a workflow that is not used does not matter.
WorkflowUnused == Init /\ mode = "parallel"

AgentsInit == Init /\ TasksInit

AgentsNext ==
  \/ TasksNext /\ WorkflowUnused /\ UNCHANGED vars
  \/ Next /\ TasksInit /\ UNCHANGED taskVars

AgentsSpec ==
  /\ AgentsInit
  /\ [][AgentsNext]_<<vars, taskVars>>
  /\ TasksFairness /\ Fairness
=============================================================================
