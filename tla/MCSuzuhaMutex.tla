---------------------------- MODULE MCSuzuhaMutex ----------------------------
(***************************************************************************)
(* SuzuhaMutex with the null thread and three workers, one of which has a  *)
(* higher priority than the others.                                        *)
(***************************************************************************)
EXTENDS SuzuhaMutex

MCPriority == [t \in Workers |-> IF t = 1 THEN PRIORITY_MAX ELSE PRIORITY_MAX + 1]
=============================================================================
