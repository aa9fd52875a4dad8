------------------------------ MODULE AgentGroup ------------------------------
(***************************************************************************)
(* An agent group by itself (agent_group.cpp): the vector m_agents, the    *)
(* ids its agents get, the threads that process ranges of it in parallel,  *)
(* and the application of what the agents asked for meanwhile.  The server *)
(* is the environment here: its replies may fail, and what it holds is not *)
(* looked at; AgentServer models the exchange.                             *)
(***************************************************************************)
EXTENDS GlobalState, FiniteSets

CONSTANTS
  Objects,   \* Agent instances on the heap
  Null,      \* nullptr
  Group,     \* the id the server gave to this group
  Foreign,   \* the id of an agent of another group
  NJobs      \* m_njobs

ASSUME GroupAssumption ==
  /\ Null \notin Objects
  /\ Group \in Nat \ {0}
  /\ Foreign \in IdType /\ Foreign[1] # Group /\ Foreign[1] # 0
  /\ NJobs \in Nat

VARIABLES
  pc,        \* where the main thread is
  running,   \* m_running
  heap,      \* the Agent instances: unborn, live or freed, and their ids
  agents,    \* m_agents
  counter,   \* m_agent_counter
  last,      \* process(): index of the last agent handed to a thread
  reminder,  \* process(): part_reminder
  jobs,      \* the threads of process_range with their Environments
  turn,      \* how often each agent was processed in this turn (history)
  sent       \* the ids of the last commit (history)

vars == <<pc, running, heap, agents, counter, last, reminder, jobs, turn, sent>>

NoId == <<0, 0>>
Object == [state : {"unborn", "live", "freed"}, id : IdType]
Unborn == [state |-> "unborn", id |-> NoId]
Live(id) == [state |-> "live", id |-> id]
Freed(id) == [state |-> "freed", id |-> id]

\* A thread works on agents next..end of the vector.
Job == [next : Nat, end : Nat, add : Seq(Objects \cup {Null}), del : Seq(IdType)]

\* Mutant of AgentId: the halves are swapped.
SwappedId(n) == <<n, Group>>

\* generate_agent_id, the counter having been incremented to n.
AgentId(n) == <<Group, n>>
Id(o) == heap[o].id
IdsOf(s) == [i \in DOMAIN s |-> Id(s[i])]

\* operator new: an instance that is not in use.
Unused == {o \in Objects : heap[o].state = "unborn"}
New == CHOOSE o \in Unused : TRUE

Init ==
  /\ pc = "spawn"
  /\ running = FALSE
  /\ heap = [o \in Objects |-> Unborn]
  /\ agents = <<>>
  /\ counter = 0
  /\ last = 0
  /\ reminder = 0
  /\ jobs = <<>>
  /\ turn = [o \in Objects |-> 0]
  /\ sent = <<>>

threadVars == <<last, reminder, jobs, turn>>

-----------------------------------------------------------------------------
(* Before the loop. *)

\* The plugins spawn the configured agents, and push_back takes them.
PushBack ==
  /\ pc = "spawn"
  /\ ~running
  /\ Unused # {}
  /\ heap' = [heap EXCEPT ![New] = Live(NoId)]
  /\ agents' = Append(agents, New)
  /\ UNCHANGED <<pc, running, counter, threadVars, sent>>

\* main: with a group id, every agent gets its own in the vector's order.
StartMain ==
  /\ pc = "spawn"
  /\ running' = TRUE
  /\ heap' = [o \in Objects |->
       IF \E i \in DOMAIN agents : agents[i] = o
       THEN Live(AgentId(counter + CHOOSE i \in DOMAIN agents : agents[i] = o))
       ELSE heap[o]]
  /\ counter' = counter + Len(agents)
  /\ pc' = "first_commit"
  /\ UNCHANGED <<agents, threadVars, sent>>

\* No group id, or any other operation with the server that fails: main
\* returns -1 and leaves m_running set.
Fail ==
  /\ pc \in {"spawn", "first_commit", "commit", "loop", "disconnect"}
  /\ running' = TRUE
  /\ pc' = "failed"
  /\ UNCHANGED <<heap, agents, counter, threadVars, sent>>

-----------------------------------------------------------------------------
(* The main loop: sync, process, commit, disconnect. *)

\* sync succeeds, and process starts: an empty group has nothing to do, one
\* thread or none requested means the main thread itself.
Sync ==
  /\ pc = "loop"
  /\ turn' = [o \in Objects |-> 0]
  /\ IF agents = <<>>
     THEN pc' = "commit" /\ UNCHANGED <<last, reminder, jobs>>
     ELSE IF NJobs <= 1
     THEN /\ pc' = "wait"
          /\ jobs' = <<[next |-> 1, end |-> Len(agents), add |-> <<>>, del |-> <<>>]>>
          /\ last' = Len(agents)
          /\ UNCHANGED reminder
     ELSE /\ pc' = "split"
          /\ jobs' = <<>>
          /\ last' = 0
          /\ reminder' = Len(agents) - (Len(agents) \div NJobs) * NJobs
  /\ UNCHANGED <<running, heap, agents, counter, sent>>

\* Mutant of StartJob: the reminder is decremented below zero.
StartJobUnderflow ==
  /\ pc = "split"
  /\ last # Len(agents)
  /\ LET size == Len(agents) \div NJobs
     IN /\ last' = last + size + IF reminder # 0 THEN 1 ELSE 0
        /\ reminder' = reminder - 1
        /\ jobs' = Append(jobs, [next |-> last + 1, end |-> last', add |-> <<>>, del |-> <<>>])
  /\ UNCHANGED <<pc, running, heap, agents, counter, turn, sent>>

\* Mutant of StartJob: the ranges do not get their share of the reminder.
StartJobShort ==
  /\ pc = "split"
  /\ last # Len(agents)
  /\ LET size == Len(agents) \div NJobs
     IN /\ last' = last + size + IF reminder # 0 THEN 1 ELSE 0
        /\ reminder' = IF reminder # 0 THEN reminder - 1 ELSE reminder
        /\ jobs' = Append(jobs, [next |-> last + 1, end |-> last + size,
                                 add |-> <<>>, del |-> <<>>])
  /\ UNCHANGED <<pc, running, heap, agents, counter, turn, sent>>

\* Mutant of StartJob: the reminder is ignored, and an empty part gets no thread.
StartJobEqual ==
  /\ pc = "split"
  /\ last # Len(agents)
  /\ last' = last + Len(agents) \div NJobs
  /\ jobs' = IF last' = last THEN jobs
             ELSE Append(jobs, [next |-> last + 1, end |-> last', add |-> <<>>, del |-> <<>>])
  /\ UNCHANGED <<pc, running, heap, agents, counter, reminder, turn, sent>>

\* A turn of the splitting loop starts a thread, which runs at once.
StartJob ==
  /\ pc = "split"
  /\ last # Len(agents)
  /\ LET size == Len(agents) \div NJobs
     IN /\ last' = last + size + IF reminder # 0 THEN 1 ELSE 0
        /\ reminder' = IF reminder # 0 THEN reminder - 1 ELSE reminder
        /\ jobs' = Append(jobs, [next |-> last + 1, end |-> last', add |-> <<>>, del |-> <<>>])
  /\ UNCHANGED <<pc, running, heap, agents, counter, turn, sent>>

AllStarted ==
  /\ pc = "split"
  /\ last = Len(agents)
  /\ pc' = "wait"
  /\ UNCHANGED <<running, heap, agents, counter, threadVars, sent>>

\* What an agent may hand to Environment::add_agent, which takes ownership:
\* nothing, nullptr, or an instance it has just made; that has no id unless the
\* agent has given it one, and without an id it may well be handed over twice.
MadeIds == {NoId, AgentId(counter), Foreign}
MayAdd(id) ==
  {<<>>, <<Null>>} \cup (IF Unused = {} THEN {}
                        ELSE IF id = NoId THEN {<<New>>, <<New, New>>} ELSE {<<New>>})

\* To Environment::del_agent: any id it has seen, one it has never learnt
\* included.
MayDelete == {<<>>} \cup {<<id>> : id \in {NoId, Foreign} \cup {AgentId(n) : n \in 1..counter}}

\* A thread lets its next agent process, which may make requests.
ProcessAgent(j) ==
  /\ j \in DOMAIN jobs
  /\ jobs[j].next <= jobs[j].end
  /\ \E id \in MadeIds, del \in MayDelete : \E add \in MayAdd(id) :
       /\ jobs' = [jobs EXCEPT ![j].next = @ + 1, ![j].add = @ \o add, ![j].del = @ \o del]
       /\ heap' = IF add \in {<<>>, <<Null>>} THEN heap ELSE [heap EXCEPT ![New] = Live(id)]
  /\ turn' = [turn EXCEPT ![agents[jobs[j].next]] = @ + 1]
  /\ UNCHANGED <<pc, running, agents, counter, last, reminder, sent>>

\* All futures are waited for before the first request is applied.
JobsDone ==
  /\ pc = "wait"
  /\ \A j \in DOMAIN jobs : jobs[j].next > jobs[j].end
  /\ pc' = "apply"
  /\ UNCHANGED <<running, heap, agents, counter, threadVars, sent>>

-----------------------------------------------------------------------------
(* apply_agent_requests, for the Environments in the order of the threads. *)

Registered(o) == \E i \in DOMAIN agents : agents[i] = o

Adding == pc = "apply" /\ jobs # <<>> /\ Head(jobs).add # <<>>
Requested == Head(Head(jobs).add)
AddDone == jobs' = <<[Head(jobs) EXCEPT !.add = Tail(@)]>> \o Tail(jobs)

\* Mutant of AdoptAgent: the id comes from the size of the vector.
AdoptAgentBySize ==
  /\ Adding
  /\ Requested # Null
  /\ Id(Requested) = NoId
  /\ counter' = Len(agents) + 1
  /\ heap' = [heap EXCEPT ![Requested] = Live(AgentId(counter'))]
  /\ agents' = Append(agents, Requested)
  /\ AddDone
  /\ UNCHANGED <<pc, running, last, reminder, turn, sent>>

\* An instance without an id becomes an agent of the group.
AdoptAgent ==
  /\ Adding
  /\ Requested # Null
  /\ Id(Requested) = NoId
  /\ counter' = counter + 1
  /\ heap' = [heap EXCEPT ![Requested] = Live(AgentId(counter'))]
  /\ agents' = Append(agents, Requested)
  /\ AddDone
  /\ UNCHANGED <<pc, running, last, reminder, turn, sent>>

\* Mutant of RefuseAgent: the instance is not deleted.
RefuseAgentLeak ==
  /\ Adding
  /\ Requested # Null
  /\ Id(Requested) # NoId
  /\ AddDone
  /\ UNCHANGED <<pc, running, heap, agents, counter, last, reminder, turn, sent>>

\* One with an id is deleted, unless it already is an agent of the group.
RefuseAgent ==
  /\ Adding
  /\ Requested # Null
  /\ Id(Requested) # NoId
  /\ heap' = IF Id(Requested)[1] = Group /\ Registered(Requested) THEN heap
             ELSE [heap EXCEPT ![Requested] = Freed(Id(Requested))]
  /\ AddDone
  /\ UNCHANGED <<pc, running, agents, counter, last, reminder, turn, sent>>

SkipNull ==
  /\ Adding
  /\ Requested = Null
  /\ AddDone
  /\ UNCHANGED <<pc, running, heap, agents, counter, last, reminder, turn, sent>>

Deleting == pc = "apply" /\ jobs # <<>> /\ Head(jobs).add = <<>> /\ Head(jobs).del # <<>>
Doomed == Head(Head(jobs).del)

\* Mutant of DeleteAgent: the instance is freed and stays in the vector.
DeleteAgentInPlace ==
  /\ Deleting
  /\ LET at == {i \in DOMAIN agents : Id(agents[i]) = Doomed}
     IN heap' = [o \in Objects |-> IF \E i \in at : agents[i] = o THEN Freed(Doomed) ELSE heap[o]]
  /\ jobs' = <<[Head(jobs) EXCEPT !.del = Tail(@)]>> \o Tail(jobs)
  /\ UNCHANGED <<pc, running, agents, counter, last, reminder, turn, sent>>

\* Mutant of DeleteAgent: the group of the id is not looked at.
DeleteAgentByNumber ==
  /\ Deleting
  /\ LET at == {i \in DOMAIN agents : Id(agents[i])[2] = Doomed[2]}
     IN IF at # {}
        THEN LET i == CHOOSE i \in at : \A k \in at : i <= k
             IN /\ agents' = SubSeq(agents, 1, i - 1) \o SubSeq(agents, i + 1, Len(agents))
                /\ heap' = [heap EXCEPT ![agents[i]] = Freed(Doomed)]
        ELSE UNCHANGED <<agents, heap>>
  /\ jobs' = <<[Head(jobs) EXCEPT !.del = Tail(@)]>> \o Tail(jobs)
  /\ UNCHANGED <<pc, running, counter, last, reminder, turn, sent>>

\* The first agent with the id leaves the vector and the heap; an id of another
\* group, or one that is not there, is ignored.
DeleteAgent ==
  /\ Deleting
  /\ LET at == {i \in DOMAIN agents : Id(agents[i]) = Doomed}
     IN IF Doomed[1] = Group /\ at # {}
        THEN LET i == CHOOSE i \in at : \A k \in at : i <= k
             IN /\ agents' = SubSeq(agents, 1, i - 1) \o SubSeq(agents, i + 1, Len(agents))
                /\ heap' = [heap EXCEPT ![agents[i]] = Freed(Doomed)]
        ELSE UNCHANGED <<agents, heap>>
  /\ jobs' = <<[Head(jobs) EXCEPT !.del = Tail(@)]>> \o Tail(jobs)
  /\ UNCHANGED <<pc, running, counter, last, reminder, turn, sent>>

NextEnvironment ==
  /\ pc = "apply"
  /\ IF jobs = <<>>
     THEN pc' = "commit" /\ UNCHANGED jobs
     ELSE Head(jobs).add = <<>> /\ Head(jobs).del = <<>> /\ jobs' = Tail(jobs) /\ UNCHANGED pc
  /\ UNCHANGED <<running, heap, agents, counter, last, reminder, turn, sent>>

-----------------------------------------------------------------------------
\* The interfaces of all agents are sent in the vector's order.  The first
\* commit precedes the loop; disconnect ends a turn of it.
Commit ==
  /\ pc \in {"first_commit", "commit"}
  /\ sent' = IdsOf(agents)
  /\ pc' = IF pc = "commit" THEN "disconnect" ELSE "loop"
  /\ UNCHANGED <<running, heap, agents, counter, threadVars>>

Disconnect ==
  /\ pc = "disconnect"
  /\ pc' = "loop"
  /\ UNCHANGED <<running, heap, agents, counter, threadVars, sent>>

\* The exit signal is seen at the loop's head.
Exit ==
  /\ pc = "loop"
  /\ running' = FALSE
  /\ pc' = "stopped"
  /\ UNCHANGED <<heap, agents, counter, threadVars, sent>>

\* ~AgentGroup, whatever main returned.
Destroy ==
  /\ pc \in {"stopped", "failed"}
  /\ heap' = [o \in Objects |-> IF Registered(o) THEN Freed(Id(o)) ELSE heap[o]]
  /\ agents' = <<>>
  /\ pc' = "gone"
  /\ UNCHANGED <<running, counter, threadVars, sent>>

Process ==
  \/ StartJob \/ AllStarted \/ \E j \in DOMAIN jobs : ProcessAgent(j)
  \/ JobsDone \/ AdoptAgent \/ RefuseAgent \/ SkipNull \/ DeleteAgent \/ NextEnvironment

Next ==
  \/ PushBack \/ StartMain \/ Sync \/ Process \/ Commit \/ Disconnect \/ Exit
  \/ Fail \/ Destroy

Spec == Init /\ [][Next]_vars /\ WF_vars(Process)
-----------------------------------------------------------------------------
\* The variables keep their types.
TypeOK ==
  /\ pc \in {"spawn", "first_commit", "commit", "loop", "split", "wait", "apply", "disconnect",
             "stopped", "failed", "gone"}
  /\ running \in BOOLEAN
  /\ heap \in [Objects -> Object]
  /\ agents \in Seq(Objects)
  /\ counter \in Nat
  /\ last \in Nat /\ reminder \in Nat
  /\ jobs \in Seq(Job)
  /\ turn \in [Objects -> Nat]
  /\ sent \in Seq(IdType)

\* The ids in m_agents are this group's, have been generated, and grow along
\* the vector, whatever was added and deleted in whichever threads: what
\* update_global_state relies on when it merges a commit.
Named == pc # "spawn" /\ ~(pc = "failed" /\ counter = 0)
IdsIncrease ==
  Named =>
    /\ \A i \in DOMAIN agents : Id(agents[i])[1] = Group /\ Id(agents[i])[2] \in 1..counter
    /\ \A i, j \in DOMAIN agents : i < j => Id(agents[i])[2] < Id(agents[j])[2]

\* A commit is a vector that update_global_state merges correctly.
SentOrdered ==
  \A i, j \in DOMAIN sent : i < j => sent[i][1] = sent[j][1] /\ Less(sent[i], sent[j])

\* An id that a new agent gets was never given before, also not to an agent
\* that has been deleted since.
FreshIds ==
  [][\A o \in Objects :
       heap'[o].id # heap[o].id /\ heap[o].state = "live" =>
         /\ heap'[o].id \in {AgentId(n) : n \in counter + 1..counter'}
         /\ \A p \in Objects : heap[p].id # heap'[o].id]_vars

\* When the requests are applied, every agent has been processed exactly once,
\* for every number of threads and every size of the vector.
EachProcessedOnce ==
  pc = "wait" /\ (\A j \in DOMAIN jobs : jobs[j].next > jobs[j].end) =>
    \A o \in Objects : turn[o] = IF Registered(o) THEN 1 ELSE 0

\* No freed instance is in the vector or among the requests still to apply:
\* nothing is deleted twice or used after it has been deleted.
NoDangling ==
  /\ \A i \in DOMAIN agents : heap[agents[i]].state = "live"
  /\ \A j \in DOMAIN jobs : \A i \in DOMAIN jobs[j].add :
       LET o == jobs[j].add[i] IN o # Null => heap[o].state = "live"

\* Nothing leaks: between the turns, exactly the group's agents are alive, and
\* none when the group is gone.
NoLeak ==
  pc \in {"first_commit", "commit", "loop", "disconnect", "gone"} =>
    \A o \in Objects : heap[o].state = "live" <=> Registered(o)

\* Agents of other groups are never affected, and an agent leaves the vector
\* only because some agent asked for it in this turn, or with the group.
OnlyRequested ==
  [][\A o \in Objects :
       Registered(o) /\ ~Registered(o)' =>
         pc' = "gone" \/ (pc = "apply" /\ Id(o) = Doomed)]_vars

\* process() comes to an end.
ProcessEnds == pc \in {"split", "wait", "apply"} ~> pc = "commit"
=============================================================================
