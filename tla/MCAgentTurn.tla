---------------------------- MODULE MCAgentTurn ----------------------------
(***************************************************************************)
(* Two executions of one session, the second by an agent without tools.    *)
(***************************************************************************)
EXTENDS AgentTurn, TLC

CONSTANTS r1, r2

MCAllowed == r1 :> Tools @@ r2 :> {}
=============================================================================
