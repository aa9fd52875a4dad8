---------------------------- MODULE MCAgentServer ----------------------------
(***************************************************************************)
(* AgentServer on small instances.  Clients and connections are model      *)
(* values; both are interchangeable when all groups expire or none does.   *)
(***************************************************************************)
EXTENDS AgentServer, TLC

Symmetric == Permutations(Clients) \cup Permutations(Conns)
=============================================================================
