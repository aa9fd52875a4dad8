----------------------------- MODULE MCAgentGroup -----------------------------
(***************************************************************************)
(* AgentGroup with a few instances on the heap; as they are never reused,  *)
(* they bound the ids and with them the whole state space.                 *)
(***************************************************************************)
EXTENDS AgentGroup

MCForeign == <<2, 1>>
=============================================================================
