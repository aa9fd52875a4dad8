---------------------------- MODULE AbstractMutex ----------------------------
(***************************************************************************)
(* What a mutex promises its threads: it has one holder or none, who has   *)
(* found it free and gives it back.  SuzuhaMutex implements it.            *)
(***************************************************************************)
CONSTANT Workers

VARIABLE holders

Init == holders = {}

Acquire(t) == holders = {} /\ holders' = {t}

Release(t) == holders = {t} /\ holders' = {}

Next == \E t \in Workers : Acquire(t) \/ Release(t)

Spec == Init /\ [][Next]_holders
=============================================================================
