---------------------------- MODULE MCSuzuhaKernel ----------------------------
(***************************************************************************)
(* SuzuhaKernel with the null thread and two others.  The priorities are   *)
(* one that create_thread clamps and one above PRIORITY_MAX.               *)
(***************************************************************************)
EXTENDS SuzuhaKernel

MCPriorities == {0, N + 1}
=============================================================================
