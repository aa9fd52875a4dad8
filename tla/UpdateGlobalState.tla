-------------------------- MODULE UpdateGlobalState --------------------------
(***************************************************************************)
(* Server::update_global_state, one step per turn of its loops: the merge  *)
(* of one group's commit into the ordered map, done with a single map      *)
(* iterator that is moved, erased at and inserted before.  The caller      *)
(* holds m_lock_global_state from the first step to the last, so no other  *)
(* thread is modelled here; AgentServer uses Merge for the whole of it.    *)
(***************************************************************************)
EXTENDS GlobalState

CONSTANTS
  Ids,   \* agent ids that occur
  Vals   \* interfaces that occur

ASSUME IdsAssumption == Ids \subseteq IdType

VARIABLES
  pc,        \* "enter", "append", "merge" or "done"
  state,     \* m_global_state
  agents,    \* the committed interfaces, a vector of [id, val]
  it,        \* index of the commit's iterator in agents
  group_it,  \* the map iterator: a key of state, or End
  old        \* m_global_state as the call found it (history)

vars == <<pc, state, agents, it, group_it, old>>

Interface == [id : Ids, val : Vals]
Maps == UNION {[K -> Vals] : K \in SUBSET Ids}

\* Ids of one group that grow along the vector, as NetAgentGroup::commit finds
\* them in m_agents (see AgentGroup).
Ordered(s) ==
  \A i, j \in DOMAIN s :
    i < j => s[i].id[1] = s[j].id[1] /\ Less(s[i].id, s[j].id)

Commits(max) == {s \in UNION {[1..n -> Interface] : n \in 0..max} : Ordered(s)}

\* The commit as a map.
CommitMap ==
  [k \in {agents[i].id : i \in DOMAIN agents} |->
     (CHOOSE a \in {agents[i] : i \in DOMAIN agents} : a.id = k).val]

CONSTANT MaxCommit   \* bound on the length of a commit

ASSUME MaxCommitAssumption == MaxCommit \in Nat

Init ==
  /\ pc = "enter"
  /\ old \in Maps
  /\ state = old
  /\ agents \in Commits(MaxCommit)
  /\ it = 1
  /\ group_it = End

\* An empty commit returns at once.
ReturnEmpty ==
  /\ pc = "enter"
  /\ agents = <<>>
  /\ pc' = "done"
  /\ UNCHANGED <<state, agents, it, group_it, old>>

\* group = agents[0].id & mask; group_it = m_global_state.lower_bound(group).
FindGroup ==
  /\ pc = "enter"
  /\ agents # <<>>
  /\ group_it' = LowerBound(DOMAIN state, GroupMask(agents[1].id))
  /\ pc' = IF group_it' = End THEN "append" ELSE "merge"
  /\ UNCHANGED <<state, agents, it, old>>

\* std::map::insert does not overwrite an entry that is there.
Insert(a) == IF a.id \in DOMAIN state THEN state ELSE Put(state, a.id, a.val)

AppendAgent ==
  /\ pc = "append"
  /\ it \in DOMAIN agents
  /\ state' = Insert(agents[it])
  /\ it' = it + 1
  /\ UNCHANGED <<pc, agents, group_it, old>>

\* The inner while: entries before the next committed id are erased.
EraseStale ==
  /\ pc = "merge"
  /\ it \in DOMAIN agents
  /\ group_it # End
  /\ Less(group_it, agents[it].id)
  /\ state' = Drop(state, {group_it})
  /\ group_it' = NextAfter(DOMAIN state, group_it)
  /\ UNCHANGED <<pc, agents, it, old>>

UpdateAgent ==
  /\ pc = "merge"
  /\ it \in DOMAIN agents
  /\ group_it = agents[it].id
  /\ state' = Put(state, group_it, agents[it].val)
  /\ it' = it + 1
  /\ group_it' = NextAfter(DOMAIN state, group_it)
  /\ UNCHANGED <<pc, agents, old>>

\* Mutant of InsertAgent: the commit's iterator is not advanced.
InsertAgentAgain ==
  /\ pc = "merge"
  /\ it \in DOMAIN agents
  /\ group_it = End \/ Less(agents[it].id, group_it)
  /\ state' = Insert(agents[it])
  /\ group_it' = NextAfter(DOMAIN state, agents[it].id)
  /\ UNCHANGED <<pc, agents, it, old>>

InsertAgent ==
  /\ pc = "merge"
  /\ it \in DOMAIN agents
  /\ group_it = End \/ Less(agents[it].id, group_it)
  /\ state' = Insert(agents[it])
  /\ it' = it + 1
  /\ group_it' = NextAfter(DOMAIN state, agents[it].id)
  /\ UNCHANGED <<pc, agents, old>>

\* Both branches end in update_read_buffer, which AgentServer models.
Finish ==
  /\ pc \in {"append", "merge"}
  /\ it \notin DOMAIN agents
  /\ pc' = "done"
  /\ UNCHANGED <<state, agents, it, group_it, old>>

Next ==
  \/ ReturnEmpty \/ FindGroup \/ AppendAgent
  \/ EraseStale \/ UpdateAgent \/ InsertAgent \/ Finish

Spec == Init /\ [][Next]_vars /\ WF_vars(Next)
-----------------------------------------------------------------------------
\* The variables keep their types.
TypeOK ==
  /\ pc \in {"enter", "append", "merge", "done"}
  /\ state \in Maps
  /\ old \in Maps
  /\ agents \in Seq(Interface)
  /\ it \in 1..Len(agents) + 1
  /\ group_it \in Ids \cup {End}

\* The map iterator is never left on an entry that has been erased, whatever
\* mix of erasures, updates and insertions came before.
IteratorValid == group_it # End => group_it \in DOMAIN state

\* At no point of the merge has an entry of another group been touched, also
\* when the committing group has no entry yet and lower_bound lands in the
\* entries of the next group.
OtherGroupsKept ==
  agents # <<>> =>
    \A k \in Ids :
      k[1] # agents[1].id[1] =>
        /\ k \in DOMAIN state <=> k \in DOMAIN old
        /\ k \in DOMAIN old => state[k] = old[k]

\* When the call returns, the map is the one the closed form Merge describes.
MergeCorrect ==
  pc = "done" /\ agents # <<>> => state = Merge(old, CommitMap)

\* The loop's invariant, the inductive strengthening of the three properties
\* above.  Committed holds the ids written so far, and Ahead(k) says that the
\* map iterator has not moved past k.
Committed == {agents[i].id : i \in 1..it - 1}
Ahead(k) == group_it # End /\ Leq(group_it, k)
Before(k) == Less(k, GroupMask(agents[1].id))

LoopInv ==
  /\ Ordered(agents)
  /\ pc = "enter" => state = old /\ it = 1 /\ group_it = End
  /\ pc = "append" => group_it = End
  /\ pc \in {"append", "merge"} => agents # <<>>
  /\ pc = "done" /\ agents # <<>> => it = Len(agents) + 1
  /\ agents = <<>> => group_it = End
  /\ pc # "enter" /\ agents # <<>> =>
       \* the map: what has been written, and what the iterator has yet to reach
       /\ DOMAIN state =
            Committed \cup {k \in DOMAIN old : Before(k) \/ Ahead(k)}
       /\ \A i \in 1..it - 1 : state[agents[i].id] = agents[i].val
       /\ \A k \in DOMAIN state \ Committed : state[k] = old[k]
       \* the iterator: an old entry, beyond all that has been written
       /\ group_it # End => group_it \in DOMAIN old /\ ~Before(group_it)
       /\ group_it # End => \A k \in Committed : Less(k, group_it)
       \* what it has passed lies before a committed id
       /\ \A k \in DOMAIN old :
            ~Before(k) /\ ~Ahead(k) => \E i \in DOMAIN agents : Leq(k, agents[i].id)

\* agent_server.h:91-97: an agent that "is in global state" and not "in
\* agents" is removed: after the call the group's entries are the commit's.
RemovesMissingAgents ==
  pc = "done" /\ agents # <<>> =>
    \A k \in DOMAIN state :
      k[1] = agents[1].id[1] => \E i \in DOMAIN agents : agents[i].id = k

\* The loops terminate.
Terminates == <>(pc = "done")
=============================================================================
