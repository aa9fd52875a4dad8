--------------------------- MODULE PublishedState ---------------------------
(***************************************************************************)
(* What the server promises the groups: one map of agents, which a commit  *)
(* changes in a single step, as does the removal of the expired agents,    *)
(* and which is empty when the server starts again.  There are no threads, *)
(* no lock and no second buffer here; AgentServer implements it.           *)
(***************************************************************************)
EXTENDS GlobalState

CONSTANTS
  Ids,     \* agent ids that occur
  Values   \* interfaces that occur, records with a field expires

VARIABLE published   \* what a sync that starts now is answered from

SameGroup(K) == \A a, b \in K : a[1] = b[1]

\* The agents of one group, at least one.
Commits == UNION {[K -> Values] : K \in {K \in (SUBSET Ids) \ {{}} : SameGroup(K)}}

Init == published = <<>>

Commit == \E commit \in Commits : published' = Merge(published, commit)

\* Everything that has expired at some time t, and nothing else.
ExpiredAt(t) == {id \in DOMAIN published : published[id].expires \in 1..t - 1}

Expire == \E id \in DOMAIN published :
  published' = Drop(published, ExpiredAt(published[id].expires + 1))

Restart == published' = <<>>

Next == Commit \/ Expire \/ Restart

Spec == Init /\ [][Next]_published
=============================================================================
