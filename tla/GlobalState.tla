----------------------------- MODULE GlobalState -----------------------------
(***************************************************************************)
(* The server's m_global_state: a std::map from agent id to sAgentInterface *)
(* ordered by id.  An id carries its group in the upper 32 bits and the    *)
(* agent's number in the lower 32 (AgentGroup::generate_agent_id), so it   *)
(* is the pair <<group, number>> and the order of the map is the           *)
(* lexicographic one.  A map is a function whose domain is the set of ids. *)
(***************************************************************************)
EXTENDS Integers, Sequences

IdType == Nat \X Nat

\* The order of the uint64_t keys.
Less(a, b) == a[1] < b[1] \/ (a[1] = b[1] /\ a[2] < b[2])
Leq(a, b) == a = b \/ Less(a, b)

\* Mutant of GroupMask: the mask keeps the lower half instead of the upper.
NumberMask(id) == <<0, id[2]>>

\* id & 0xFFFFFFFF00000000
GroupMask(id) == <<id[1], 0>>

\* The past-the-end iterator of the map.
End == <<-1, -1>>

\* i is an iterator at the first key of the set S, End when S is empty.
FirstOf(S) ==
  IF S = {} THEN End ELSE CHOOSE a \in S : \A b \in S : Leq(a, b)

\* std::map::lower_bound, and the iterator that follows a key.
LowerBound(keys, id) == FirstOf({k \in keys : Leq(id, k)})

\* Mutant of NextAfter: the iterator stays where it is.
NotAdvanced(keys, id) == LowerBound(keys, id)
NextAfter(keys, id) == FirstOf({k \in keys : Less(id, k)})

Put(m, id, v) == [k \in DOMAIN m \cup {id} |-> IF k = id THEN v ELSE m[k]]
Drop(m, ids) == [k \in DOMAIN m \ ids |-> m[k]]

\* What update_global_state makes of the map m for a commit, given as a map
\* from the committed ids, all of one group, to their interfaces: the
\* committed entries are written, the group's other entries are erased up to
\* the greatest committed id, and everything else is kept.
Merge(m, commit) ==
  LET stale == {k \in DOMAIN m \ DOMAIN commit :
                  /\ \E a \in DOMAIN commit : Leq(GroupMask(a), k)
                  /\ \E a \in DOMAIN commit : Less(k, a)}
  IN [k \in (DOMAIN m \ stale) \cup DOMAIN commit |->
        IF k \in DOMAIN commit THEN commit[k] ELSE m[k]]
=============================================================================
