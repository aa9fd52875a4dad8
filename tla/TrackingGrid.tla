---------------------------- MODULE TrackingGrid ----------------------------
(***************************************************************************)
(* The tracking plugin (main/src/plugins/tracking): one TrackingAgent lays *)
(* pheromone on a grid where robots are, lets it fade, and asks the group  *)
(* to add an agent to every cell that has some and to delete that of every *)
(* cell that has none left.  A PheromoneAgent learns its id only when it   *)
(* is added, and tells the grid when it is first processed.  AgentGroup    *)
(* models the turns, threads and requests that are one action each here.   *)
(***************************************************************************)
EXTENDS Naturals, Functions

CONSTANTS
  Cells,      \* positions of the grid
  Ids,        \* agent ids; those that nothing refers to any more stand for new ones
  RiseFrom,   \* how many turns pheromone of intensity rise_from lasts
  MaxLevel,   \* how many turns the strongest pheromone lasts
  Fade,       \* 1, or 0 when fade_speed is 1.0
  OneJob      \* whether the group works with one thread only

NoId == 0   \* what PheromoneParams starts with

\* A threshold above 0 and a fade_speed above 0 and not above 1.0; the code reads the
\* configuration unchecked.  With the values of config.json RiseFrom is 169.
ASSUME GridAssumption ==
  /\ Cells # {} /\ NoId \notin Ids
  /\ RiseFrom \in Nat \ {0} /\ MaxLevel \in Nat /\ MaxLevel >= RiseFrom
  /\ Fade \in {0, 1} /\ OneJob \in BOOLEAN

VARIABLES
  level,      \* intensity: the number of turns until it is not above the threshold
  alive,      \* m_parameters.alive
  gridId,     \* m_parameters.id
  agents,     \* the PheromoneAgents of the group, each with its m_grid_position
  pc,         \* where in the turn the TrackingAgent is
  todo,       \* agents whose process is still to come in this turn
  later,      \* agents that the thread of the TrackingAgent processes after it
  unscanned,  \* cells process_pheromones has still to look at
  adds, dels  \* requests in the Environment: positions of new agents, ids

grid == <<level, alive, gridId>>
requests == <<adds, dels>>
vars == <<grid, agents, pc, todo, later, unscanned, requests>>

Agent == [id : Ids, cell : Cells]

Init ==
  /\ level = [c \in Cells |-> 0]
  /\ alive = [c \in Cells |-> FALSE]
  /\ gridId = [c \in Cells |-> NoId]
  /\ agents = {} /\ pc = "sync" /\ todo = {} /\ later = {}
  /\ unscanned = {} /\ adds = {} /\ dels = {}

\* AgentGroup::process: the vector is split among the threads.
StartTurn ==
  /\ pc = "sync"
  /\ pc' = "touch"
  /\ todo' = agents
  /\ later' \in IF OneJob THEN {agents} ELSE SUBSET agents
  /\ UNCHANGED <<grid, agents, unscanned, requests>>

\* increase_pheromon where a tracked agent is.  What is alive gets stronger by
\* rise_speed, however many turns that is worth.
Touch(c) ==
  /\ pc = "touch"
  /\ \E l \in IF alive[c] THEN level[c]..MaxLevel ELSE {RiseFrom} :
       level' = [level EXCEPT ![c] = l]
  /\ UNCHANGED <<alive, gridId, agents, pc, todo, later, unscanned, requests>>

\* Mutants of Faded: what is zero goes on falling; what has reached the threshold stays.
FadedBelow(l) == l - Fade
FadedToThreshold(l) == IF l <= 1 THEN l ELSE l - Fade

\* What is not above the threshold is set to zero, whatever fade_speed is.
Faded(l) == IF l <= 1 THEN 0 ELSE l - Fade

\* decrease_pheromons
Decrease ==
  /\ pc = "touch"
  /\ level' = [c \in Cells |-> Faded(level[c])]
  /\ pc' = "scan"
  /\ unscanned' = Cells
  /\ UNCHANGED <<alive, gridId, agents, todo, later, requests>>

\* Mutant of Create: the constructor leaves alive to process, as it does the id.
CreateQuietly(c) ==
  /\ ~alive[c] /\ level[c] > 0
  /\ adds' = adds \cup {c}
  /\ UNCHANGED <<alive, dels>>

\* add_pheromone_agent: the constructor sets alive, but cannot set the id yet.
Create(c) ==
  /\ ~alive[c] /\ level[c] > 0
  /\ alive' = [alive EXCEPT ![c] = TRUE]
  /\ adds' = adds \cup {c}
  /\ UNCHANGED dels

\* del_pheromone_agent
Delete(c) ==
  /\ alive[c] /\ level[c] = 0
  /\ alive' = [alive EXCEPT ![c] = FALSE]
  /\ dels' = dels \cup {gridId[c]}
  /\ UNCHANGED adds

\* One cell in the loops of process_pheromones, in any order.
Scan(c) ==
  /\ pc = "scan" /\ c \in unscanned
  /\ \/ Delete(c)
     \/ Create(c)
     \/ alive[c] = (level[c] > 0) /\ UNCHANGED <<alive, requests>>
  /\ unscanned' = unscanned \ {c}
  /\ pc' = IF unscanned' = {} THEN "wait" ELSE pc
  /\ UNCHANGED <<level, gridId, agents, todo, later>>

\* Mutant of AgentProcess: the id in the grid is what the constructor knew.
AgentProcessSilent(a) ==
  /\ a \in todo /\ (a \in later => pc = "wait")
  /\ todo' = todo \ {a}
  /\ UNCHANGED <<grid, agents, pc, later, unscanned, requests>>

\* PheromoneAgent::process, in another thread or after the TrackingAgent.
AgentProcess(a) ==
  /\ a \in todo /\ (a \in later => pc = "wait")
  /\ gridId' = [gridId EXCEPT ![a.cell] = a.id]
  /\ todo' = todo \ {a}
  /\ UNCHANGED <<level, alive, agents, pc, later, unscanned, requests>>

\* What nobody refers to; AgentGroup never gives an id twice.
FreshIds == {i \in Ids : i \notin Range(gridId) /\ \A a \in agents : a.id # i}

\* apply_agent_requests, when all threads have ended.
Apply ==
  /\ pc = "wait" /\ todo = {}
  /\ \E new \in [adds -> FreshIds] :
       /\ IsInjective(new)
       /\ agents' = {a \in agents : a.id \notin dels}
                      \cup {[id |-> new[c], cell |-> c] : c \in adds}
  /\ adds' = {} /\ dels' = {} /\ later' = {}
  /\ pc' = "sync"
  /\ UNCHANGED <<grid, todo, unscanned>>

Turn == StartTurn \/ Decrease \/ (\E c \in Cells : Scan(c)) \/ Apply

Touched == \E c \in Cells : Touch(c)

Processed == \E a \in todo : AgentProcess(a)

Next == Turn \/ Touched \/ Processed

Spec == Init /\ [][Next]_vars

\* The group makes turn after turn, and every thread comes to its end.
FairSpec == Spec /\ WF_vars(Turn) /\ WF_vars(Processed)
-----------------------------------------------------------------------------
\* The variables keep their types.
TypeOK ==
  /\ level \in [Cells -> 0..MaxLevel]
  /\ alive \in [Cells -> BOOLEAN]
  /\ gridId \in [Cells -> Ids \cup {NoId}]
  /\ agents \subseteq Agent
  /\ pc \in {"sync", "touch", "scan", "wait"}
  /\ todo \subseteq agents /\ later \subseteq agents
  /\ unscanned \subseteq Cells
  /\ adds \subseteq Cells /\ dels \subseteq Ids \cup {NoId}

AgentsAt(c) == {a \in agents : a.cell = c}

\* Between turns every cell with pheromone has exactly one agent and every other
\* cell none, although agents learn their ids late and are created and deleted by
\* way of requests, while other threads process them.  See CorrectId for RiseFrom = 2.
OneAgentPerCell ==
  pc = "sync" =>
    \A c \in Cells :
      /\ alive[c] = (AgentsAt(c) # {})
      /\ \A a, b \in AgentsAt(c) : a = b

\* "to have correct id on correct postion to be able kill" (pheromone.cpp:83) against
\* "TODO not working because of wrong ID!!!!!!!" (tracking.cpp:64): the id with which
\* the agent of a cell is deleted is its own.  It is, unless new pheromone outlasts
\* one fading and no second one: RiseFrom = 2, where the TODO is right.
CorrectId ==
  [][\A c \in Cells :
       alive[c] /\ ~alive'[c] => \E a \in AgentsAt(c) : dels' = dels \cup {a.id}]_vars

\* When the robots have left, all agents of the pheromone are gone in the end and
\* stay away.  See CorrectId for RiseFrom = 2.
FadesAway == <>[][~Touched]_vars => <>[](agents = {})
=============================================================================
