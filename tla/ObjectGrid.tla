----------------------------- MODULE ObjectGrid -----------------------------
(***************************************************************************)
(* The object01_track_agent plugin: the grid of TrackingGrid for walls that *)
(* people draw by touching the table, which do not fade but can be cleared *)
(* cell by cell or as a whole.  Touches of the corners that switch lie     *)
(* outside the grid of config.json.                                        *)
(***************************************************************************)
EXTENDS TrackingGrid

VARIABLE clearing   \* m_interface.value[0]: a touch clears instead of raising

objectVars == <<vars, clearing>>

InitObject == Init /\ clearing = FALSE

\* increase_object01_intensity
Raise(c) == ~clearing /\ Touch(c) /\ UNCHANGED clearing

Cleared(S) ==
  /\ pc = "touch"
  /\ level' = [c \in Cells |-> IF c \in S THEN 0 ELSE level[c]]
  /\ UNCHANGED <<alive, gridId, agents, pc, todo, later, unscanned, requests>>

\* clear_object01_intensity
Clear(c) == clearing /\ Cleared({c}) /\ UNCHANGED clearing

\* clear_grid_object01, a touch of the lower left corner.
ClearGrid == Cleared(Cells) /\ clearing' = FALSE

\* Touches of the upper corners.
Switch(on) ==
  /\ pc = "touch"
  /\ clearing' = on
  /\ UNCHANGED vars

TouchObject ==
  \/ \E c \in Cells : Raise(c) \/ Clear(c)
  \/ ClearGrid
  \/ \E on \in BOOLEAN : Switch(on)

NextObject ==
  \/ (Turn \/ Processed) /\ UNCHANGED clearing
  \/ TouchObject

SpecObject == InitObject /\ [][NextObject]_objectVars
=============================================================================
