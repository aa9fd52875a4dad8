------------------------- MODULE MCUpdateGlobalState -------------------------
(***************************************************************************)
(* A group of up to four agents and one of one: every map over their ids,  *)
(* and every commit either can make.  Two values tell an entry that was    *)
(* updated from one that was left alone.                                   *)
(***************************************************************************)
EXTENDS UpdateGlobalState

MCIds == ({1} \X (1..4)) \cup {<<2, 1>>}
MCVals == {"old", "new"}
=============================================================================
