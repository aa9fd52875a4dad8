-------------------------- MODULE MCSuzuhaMessages --------------------------
(***************************************************************************)
(* SuzuhaMessages with two threads and fewer slots than messages.          *)
(***************************************************************************)
EXTENDS SuzuhaMessages

MCName == [t \in Threads |-> t + 1]
=============================================================================
