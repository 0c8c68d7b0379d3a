---------------------------- MODULE MCAgentState ----------------------------
(***************************************************************************)
(* Instances of AgentState for TLC: two agents, interchangeable.           *)
(***************************************************************************)
EXTENDS AgentState, TLC

CONSTANTS first, second
=============================================================================
