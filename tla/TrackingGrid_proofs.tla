------------------------- MODULE TrackingGrid_proofs -------------------------
(***************************************************************************)
(* Theorems about the grid of the tracking plugin, for any number of cells, *)
(* ids and threads.  The invariant follows an agent through its first two  *)
(* turns: until it has told the grid its id, the pheromone of its cell has *)
(* at least one turn to last, and an agent of the turn before last has     *)
(* been processed.  It fails of pheromone that outlasts one fading only,   *)
(* RiseFrom = 2: the theorems, but for that on types, exclude it.          *)
(***************************************************************************)
EXTENDS TrackingGrid, TLAPS

Informed(a) == gridId[a.cell] = a.id

\* Ids and cells belong to one agent, and the grid names no agent of another cell.
Distinct ==
  /\ \A a, b \in agents : a.id = b.id \/ a.cell = b.cell => a = b
  /\ \A a \in agents, c \in Cells : gridId[c] = a.id => a.cell = c

\* What is left over at the end of a phase.
Phases ==
  /\ pc \in {"sync", "touch"} => adds = {} /\ dels = {}
  /\ pc = "sync" => todo = {}
  /\ pc # "scan" => unscanned = {}
  /\ adds \cap unscanned = {}

\* What is alive has an agent or will get one; what is not has none or loses it.
Inhabited ==
  \A c \in Cells :
    /\ alive[c] => c \in adds \/ \E a \in agents : a.cell = c
    /\ c \in adds => alive[c] /\ level[c] >= 2 /\ \A a \in agents : a.cell # c

Leaving ==
  /\ \A a \in agents :
       ~alive[a.cell] => a.id \in dels /\ a.cell \notin unscanned /\ Informed(a)
  /\ \A i \in dels : \E a \in agents : a.id = i /\ ~alive[a.cell]

\* Where nothing is alive there is no pheromone, or it is new: gone before an agent
\* is made for it, or there for two turns more.
Bare ==
  \A c \in Cells :
    ~alive[c] => \/ level[c] = 0
                 \/ pc = "touch" /\ (level[c] = 1 \/ level[c] >= 3)
                 \/ c \in unscanned /\ level[c] >= 2

\* An agent has told its id when it is needed.
InTime ==
  /\ \A a \in agents :
       \/ Informed(a)
       \/ level[a.cell] >= 1 /\ (pc \in {"sync", "touch"} => level[a.cell] >= 2)
  /\ pc # "sync" => \A a \in agents \ todo : Informed(a)

IInv == TypeOK /\ Distinct /\ Phases /\ Inhabited /\ Leaving /\ Bare /\ InTime

\* The types need nothing else of the invariant.
LEMMA TypeStep == TypeOK /\ [Next]_vars => TypeOK'
<1> SUFFICES ASSUME TypeOK, [Next]_vars PROVE TypeOK'
  OBVIOUS
<1>1. CASE StartTurn
  BY <1>1 DEF StartTurn, grid, requests, TypeOK
<1>2. CASE Decrease
  <2>1. level' \in [Cells -> 0..MaxLevel]
    BY <1>2, GridAssumption DEF Decrease, Faded, TypeOK
  <2> QED BY <1>2, <2>1 DEF Decrease, requests, TypeOK
<1>3. ASSUME NEW c \in Cells, Scan(c) PROVE TypeOK'
  BY <1>3 DEF Scan, Delete, Create, requests, TypeOK
<1>4. CASE Apply
  <2>1. PICK new \in [adds -> FreshIds] :
          agents' = {a \in agents : a.id \notin dels}
                      \cup {[id |-> new[c], cell |-> c] : c \in adds}
    BY <1>4 DEF Apply
  <2>2. agents' \subseteq Agent
    BY <2>1 DEF FreshIds, TypeOK, Agent
  <2> QED BY <1>4, <2>2 DEF Apply, grid, TypeOK
<1>5. ASSUME NEW c \in Cells, Touch(c) PROVE TypeOK'
  <2>1. level' \in [Cells -> 0..MaxLevel]
    BY <1>5, GridAssumption DEF Touch, TypeOK
  <2> QED BY <1>5, <2>1 DEF Touch, requests, TypeOK
<1>6. ASSUME NEW a \in todo, AgentProcess(a) PROVE TypeOK'
  BY <1>6 DEF AgentProcess, requests, TypeOK, Agent
<1>7. CASE UNCHANGED vars
  BY <1>7 DEF vars, grid, requests, TypeOK
<1> QED BY <1>1, <1>2, <1>3, <1>4, <1>5, <1>6, <1>7 DEF Next, Turn, Touched, Processed

LEMMA InitInv == Init => IInv
BY GridAssumption DEF Init, IInv, TypeOK, Distinct, Phases, Inhabited, Leaving, Bare, InTime,
  NoId, Agent

LEMMA StartTurnInv == IInv /\ StartTurn => IInv'
BY DEF StartTurn, grid, requests, IInv, TypeOK, Distinct, Phases, Inhabited, Leaving, Bare,
  InTime, Informed

LEMMA TouchInv == ASSUME RiseFrom # 2, IInv, NEW c \in Cells, Touch(c) PROVE IInv'
<1>1. level \in [Cells -> Nat] /\ level' \in [Cells -> 0..MaxLevel]
  BY GridAssumption DEF Touch, IInv, TypeOK
<1>2. /\ \A d \in Cells \ {c} : level'[d] = level[d]
      /\ level'[c] >= level[c] \/ ~alive[c]
      /\ alive[c] \/ level'[c] = 1 \/ level'[c] >= 3
  BY GridAssumption DEF Touch, IInv, TypeOK
<1>3. \A a \in agents : alive[a.cell] /\ a.cell \in Cells
  BY DEF IInv, Phases, Leaving, Touch, TypeOK, Agent
<1>4. TypeOK'
  BY TypeStep DEF IInv, Next, Touched
<1>5. Distinct' /\ Phases' /\ Inhabited' /\ Leaving'
  BY <1>1, <1>3 DEF Touch, requests, IInv, Distinct, Phases, Inhabited, Leaving, Informed
<1>6. Bare'
  BY <1>1, <1>2 DEF Touch, IInv, Bare
<1>7. InTime'
  BY <1>1, <1>2, <1>3 DEF Touch, IInv, InTime, Informed
<1> QED BY <1>4, <1>5, <1>6, <1>7 DEF IInv

LEMMA DecreaseInv == IInv /\ Decrease => IInv'
<1> SUFFICES ASSUME IInv, Decrease PROVE IInv'
  OBVIOUS
<1>1. level \in [Cells -> Nat] /\ level' \in [Cells -> 0..MaxLevel]
  BY GridAssumption DEF Decrease, Faded, IInv, TypeOK
<1>2. \A c \in Cells : level'[c] <= level[c] /\ level'[c] + 1 >= level[c]
                         /\ (level[c] <= 1 => level'[c] = 0)
  BY GridAssumption DEF Decrease, Faded, IInv, TypeOK
<1>3. \A a \in agents : alive[a.cell] /\ a.cell \in Cells
  BY DEF IInv, Phases, Leaving, Decrease, TypeOK, Agent
<1>4. TypeOK'
  BY TypeStep DEF IInv, Next, Turn
<1>5. Distinct' /\ Phases' /\ Inhabited' /\ Leaving'
  BY <1>1, <1>3 DEF Decrease, requests, IInv, Distinct, Phases, Inhabited, Leaving, Informed
<1>6. Bare'
  BY <1>1, <1>2 DEF Decrease, IInv, Bare, Phases
<1>7. InTime'
  BY <1>1, <1>2, <1>3 DEF Decrease, IInv, InTime, Informed
<1> QED BY <1>4, <1>5, <1>6, <1>7 DEF IInv

\* Whom a deletion is meant for has told its id.
LEMMA DeleteNames ==
  ASSUME IInv, NEW c \in Cells, pc = "scan", c \in unscanned, Delete(c)
  PROVE  \E a \in agents : a.cell = c /\ Informed(a) /\ dels' = dels \cup {a.id}
<1>1. PICK a \in agents : a.cell = c
  BY DEF Delete, IInv, Phases, Inhabited
<1>2. Informed(a)
  BY <1>1 DEF Delete, IInv, InTime
<1> QED BY <1>1, <1>2 DEF Delete, Informed

LEMMA ScanInv == ASSUME IInv, NEW c \in Cells, Scan(c) PROVE IInv'
<1>1. /\ level \in [Cells -> Nat] /\ alive \in [Cells -> BOOLEAN]
      /\ \A a \in agents : a.cell \in Cells
  BY GridAssumption DEF IInv, TypeOK, Agent
<1>2. TypeOK' /\ Distinct' /\ Phases'
  <2>1. TypeOK'
    BY TypeStep DEF IInv, Next, Turn
  <2>2. Distinct'
    BY DEF Scan, IInv, Distinct
  <2>3. Phases'
    BY DEF Scan, Delete, Create, requests, IInv, Phases
  <2> QED BY <2>1, <2>2, <2>3
<1>3. InTime'
  BY DEF Scan, IInv, InTime, Informed
<1>4. CASE Delete(c)
  <2>1. PICK a \in agents : a.cell = c /\ Informed(a) /\ dels' = dels \cup {a.id}
    BY <1>4, DeleteNames DEF Scan
  <2>2. \A b \in agents : b.cell = c => b = a
    BY <2>1 DEF IInv, Distinct
  <2>3. /\ alive[c] /\ level[c] = 0 /\ c \notin adds /\ adds' = adds
        /\ alive' = [alive EXCEPT ![c] = FALSE]
    BY <1>4 DEF Delete, Scan, IInv, Phases
  <2>4. Inhabited'
    BY <1>1, <2>3 DEF Scan, IInv, Inhabited
  <2>5. Leaving'
    BY <1>1, <2>1, <2>2, <2>3 DEF Scan, IInv, Leaving, Informed
  <2>6. Bare'
    BY <1>1, <2>3 DEF Scan, IInv, Bare
  <2> QED BY <1>2, <1>3, <2>4, <2>5, <2>6 DEF IInv
<1>5. CASE Create(c)
  <2>1. level[c] >= 2 /\ \A a \in agents : a.cell # c
    BY <1>1, <1>5 DEF Create, Scan, IInv, Bare, Leaving
  <2>2. alive' = [alive EXCEPT ![c] = TRUE] /\ adds' = adds \cup {c} /\ dels' = dels
    BY <1>5 DEF Create
  <2>3. Inhabited'
    BY <1>1, <2>1, <2>2 DEF Scan, IInv, Inhabited
  <2>4. Leaving'
    BY <1>1, <2>1, <2>2 DEF Scan, IInv, Leaving, Informed
  <2>5. Bare'
    BY <1>1, <2>2 DEF Scan, IInv, Bare
  <2> QED BY <1>2, <1>3, <2>3, <2>4, <2>5 DEF IInv
<1>6. CASE alive[c] = (level[c] > 0) /\ UNCHANGED <<alive, requests>>
  <2>1. Inhabited' /\ Leaving'
    BY <1>6 DEF Scan, requests, IInv, Inhabited, Leaving, Informed
  <2>2. Bare'
    BY <1>1, <1>6 DEF Scan, requests, IInv, Bare
  <2> QED BY <1>2, <1>3, <2>1, <2>2 DEF IInv
<1> QED BY <1>4, <1>5, <1>6 DEF Scan

LEMMA AgentProcessInv == ASSUME IInv, NEW a \in todo, AgentProcess(a) PROVE IInv'
<1>1. /\ a \in agents /\ gridId \in [Cells -> Ids \cup {NoId}]
      /\ \A b \in agents : b.cell \in Cells /\ b.id \in Ids
  BY DEF IInv, TypeOK, Agent
<1>2. gridId' = [gridId EXCEPT ![a.cell] = a.id]
  BY DEF AgentProcess
<1>3. /\ Informed(a)'
      /\ \A b \in agents : b # a => (Informed(b)' <=> Informed(b))
  BY <1>1, <1>2 DEF AgentProcess, IInv, Distinct, Informed
<1>4. TypeOK'
  BY TypeStep DEF IInv, Next, Processed
<1>5. Distinct'
  BY <1>1, <1>2 DEF AgentProcess, IInv, Distinct
<1>6. Phases' /\ Inhabited' /\ Bare'
  BY DEF AgentProcess, requests, IInv, Phases, Inhabited, Bare
<1>7. Leaving' /\ InTime'
  BY <1>1, <1>3 DEF AgentProcess, requests, IInv, Leaving, InTime
<1> QED BY <1>4, <1>5, <1>6, <1>7 DEF IInv

LEMMA ApplyInv == IInv /\ Apply => IInv'
<1> SUFFICES ASSUME IInv, Apply PROVE IInv'
  OBVIOUS
<1>1. PICK new \in [adds -> FreshIds] :
        /\ IsInjective(new)
        /\ agents' = {a \in agents : a.id \notin dels}
                       \cup {[id |-> new[c], cell |-> c] : c \in adds}
  BY DEF Apply
<1> DEFINE Born == {[id |-> new[c], cell |-> c] : c \in adds}
<1>2. \A a \in agents : Informed(a)
  BY DEF Apply, IInv, InTime
<1>3. \A a \in agents' \ Born : a \in agents /\ a.id \notin dels
  BY <1>1
<1>4. \A a \in Born : /\ a.cell \in adds /\ a.id = new[a.cell] /\ a.id \in Ids
                      /\ a.id \notin Range(gridId) /\ \A b \in agents : b.id # a.id
  BY DEF FreshIds
<1>5. adds \subseteq Cells /\ gridId \in [Cells -> Ids \cup {NoId}] /\ level \in [Cells -> Nat]
  BY GridAssumption DEF IInv, TypeOK
<1>6. \A c \in Cells : gridId[c] \in Range(gridId)
  BY <1>5 DEF Range
<1>7. TypeOK'
  BY TypeStep DEF IInv, Next, Turn
<1>8. Distinct'
  <2>1. ASSUME NEW a \in agents', NEW b \in agents', a.id = b.id \/ a.cell = b.cell
        PROVE  a = b
    <3>1. CASE a \in Born /\ b \in Born
      <4>1. PICK c \in adds : a = [id |-> new[c], cell |-> c]
        BY <3>1
      <4>2. PICK d \in adds : b = [id |-> new[d], cell |-> d]
        BY <3>1
      <4>3. c = d
        BY <1>1, <2>1, <4>1, <4>2 DEF IsInjective
      <4> QED BY <4>1, <4>2, <4>3
    <3>2. CASE a \in Born /\ b \notin Born
      BY <1>3, <1>4, <1>5, <2>1, <3>2 DEF IInv, Inhabited
    <3>3. CASE a \notin Born /\ b \in Born
      BY <1>3, <1>4, <1>5, <2>1, <3>3 DEF IInv, Inhabited
    <3>4. CASE a \notin Born /\ b \notin Born
      BY <1>3, <2>1, <3>4 DEF IInv, Distinct
    <3> QED BY <3>1, <3>2, <3>3, <3>4
  <2>2. ASSUME NEW a \in agents', NEW c \in Cells, gridId'[c] = a.id PROVE a.cell = c
    BY <1>3, <1>4, <1>6, <2>2 DEF Apply, grid, IInv, Distinct
  <2> QED BY <2>1, <2>2 DEF Distinct
<1>9. Phases'
  BY DEF Apply, IInv, Phases
<1>10. Inhabited'
  <2>1. ASSUME NEW c \in Cells, alive[c] PROVE \E a \in agents' : a.cell = c
    <3>1. CASE c \in adds
      <4>1. [id |-> new[c], cell |-> c] \in agents'
        BY <1>1, <3>1
      <4> QED BY <4>1
    <3>2. CASE c \notin adds
      <4>1. PICK a \in agents : a.cell = c
        BY <2>1, <3>2 DEF IInv, Inhabited
      <4>2. a.id \notin dels
        BY <2>1, <4>1 DEF IInv, Leaving, Distinct
      <4> QED BY <1>1, <4>1, <4>2
    <3> QED BY <3>1, <3>2
  <2> QED BY <2>1 DEF Apply, grid, Inhabited
<1>11. \A a \in agents' : alive[a.cell] /\ (Informed(a) \/ level[a.cell] >= 2)
  BY <1>2, <1>3, <1>4, <1>5 DEF IInv, Leaving, Inhabited
<1>12. Leaving'
  BY <1>11 DEF Apply, grid, Leaving
<1>13. Bare'
  BY DEF Apply, grid, IInv, Bare, Phases
<1>14. InTime'
  <2>1. \A a \in agents' : a.cell \in Cells
    BY <1>7 DEF TypeOK, Agent
  <2> QED BY <1>5, <1>11, <2>1 DEF Apply, grid, InTime, Informed
<1> QED BY <1>7, <1>8, <1>9, <1>10, <1>12, <1>13, <1>14 DEF IInv

LEMMA NextInv == ASSUME RiseFrom # 2, IInv, [Next]_vars PROVE IInv'
<1>1. CASE UNCHANGED vars
  BY <1>1 DEF vars, grid, requests, IInv, TypeOK, Distinct, Phases, Inhabited, Leaving, Bare,
    InTime, Informed
<1>2. CASE Turn
  BY <1>2, StartTurnInv, DecreaseInv, ScanInv, ApplyInv DEF Turn
<1>3. CASE Touched
  BY <1>3, TouchInv DEF Touched
<1>4. CASE Processed
  BY <1>4, AgentProcessInv DEF Processed
<1> QED BY <1>1, <1>2, <1>3, <1>4 DEF Next

\* The invariant holds in every reachable state.
THEOREM Invariant == ASSUME RiseFrom # 2 PROVE Spec => []IInv
<1>1. IInv /\ [Next]_vars => IInv'
  BY NextInv
<1> QED BY <1>1, InitInv, PTL DEF Spec

\* All variables keep their types: no intensity leaves its range, the grid never
\* holds what is no id, and agents still to be processed are in the group.
THEOREM TypeCorrect == Spec => []TypeOK
<1>1. Init => TypeOK
  BY InitInv DEF IInv
<1> QED BY <1>1, TypeStep, PTL DEF Spec

\* Between turns every cell with pheromone has exactly one agent and every other
\* cell none: increase, decrease, process_pheromones and PheromoneAgent::process.
THEOREM OneAgent == ASSUME RiseFrom # 2 PROVE Spec => []OneAgentPerCell
<1>1. IInv => OneAgentPerCell
  <2> SUFFICES ASSUME IInv, pc = "sync", NEW c \in Cells
               PROVE  /\ alive[c] = (AgentsAt(c) # {})
                      /\ \A a, b \in AgentsAt(c) : a = b
    BY DEF OneAgentPerCell
  <2>1. AgentsAt(c) # {} => alive[c]
    BY DEF AgentsAt, IInv, Leaving, Phases
  <2>2. alive[c] => AgentsAt(c) # {}
    BY DEF AgentsAt, IInv, Inhabited, Phases
  <2>3. alive[c] \in BOOLEAN
    BY DEF IInv, TypeOK
  <2>4. \A a, b \in AgentsAt(c) : a = b
    BY DEF AgentsAt, IInv, Distinct
  <2> QED BY <2>1, <2>2, <2>3, <2>4
<1> QED BY <1>1, Invariant, PTL

\* A PheromoneAgent is deleted by its own id, which the grid has learnt in time:
\* for every configuration but those with which new pheromone outlasts one fading only.
THEOREM IdIsCorrect == ASSUME RiseFrom # 2 PROVE Spec => CorrectId
<1> DEFINE Right == \A c \in Cells :
      alive[c] /\ ~alive'[c] => \E a \in AgentsAt(c) : dels' = dels \cup {a.id}
<1>1. IInv /\ [Next]_vars => [Right]_vars
  <2> SUFFICES ASSUME IInv, Next, NEW c \in Cells, alive[c], ~alive'[c]
               PROVE  \E a \in AgentsAt(c) : dels' = dels \cup {a.id}
    OBVIOUS
  <2>1. alive \in [Cells -> BOOLEAN]
    BY DEF IInv, TypeOK
  <2>2. PICK d \in Cells : Scan(d)
    BY DEF Next, Turn, Touched, Processed, StartTurn, Decrease, Apply, Touch, AgentProcess, grid
  <2>3. d = c /\ Delete(c) /\ pc = "scan" /\ c \in unscanned
    BY <2>1, <2>2 DEF Scan, Delete, Create
  <2> QED BY <2>3, DeleteNames DEF AgentsAt
<1>2. Spec => [][Right]_vars
  BY <1>1, Invariant, PTL DEF Spec
<1> QED BY <1>2 DEF CorrectId
=============================================================================
