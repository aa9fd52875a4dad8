-------------------------- MODULE AgentGroup_proofs --------------------------
(***************************************************************************)
(* What holds of a group for any number of agents, threads and requests.   *)
(*                                                                         *)
(* The ids in m_agents increase, which Server::update_global_state relies  *)
(* on in every commit, and are never given out twice; deletion hits nobody *)
(* else.  The parts that process() cuts the vector into cover it: the      *)
(* invariant counts what is left to hand out against the parts to come.    *)
(* Every instance has one owner, the vector, a list of agents to add or a  *)
(* caller, so that none is used after its deletion and none is leaked.     *)
(***************************************************************************)
EXTENDS AgentGroup, SequenceTheorems, TLAPS

\* The quotient and the remainder that process() computes are natural numbers.
LEMMA DivNat ==
  ASSUME NEW n \in Nat, NEW d \in Nat, d > 1
  PROVE  n \div d \in Nat /\ n - (n \div d) * d \in Nat
  BY Z3

\* The inductive invariant: agents are distinct instances, no instance that is
\* yet to be made has an id, and the ids grow.
Distinct == \A i, j \in DOMAIN agents : agents[i] = agents[j] => i = j
UnbornNameless ==
  /\ \A o \in Objects : heap[o].state = "unborn" => heap[o].id = NoId
  /\ \A i \in DOMAIN agents : heap[agents[i]].state # "unborn"
Splitting == pc = "split" => NJobs > 1
IInv ==
  /\ TypeOK
  /\ Distinct
  /\ UnbornNameless
  /\ pc = "spawn" => counter = 0
  /\ Splitting
  /\ IdsIncrease
  /\ SentOrdered

\* A new instance is none of the group's.
LEMMA NewUnborn ==
  ASSUME Unused # {}
  PROVE  New \in Objects /\ heap[New].state = "unborn"
  BY DEF Unused, New

\* The ids and instances that a heap is made of have their types.
LEMMA HeapTypes ==
  /\ NoId \in IdType
  /\ Unborn \in Object
  /\ \A id \in IdType : Live(id) \in Object /\ Freed(id) \in Object
  /\ \A n \in Nat : AgentId(n) \in IdType
  BY GroupAssumption DEF IdType, NoId, Unborn, Live, Freed, Object, AgentId

\* The invariant holds when the group object has been made.
LEMMA InitInvariant == Init => IInv
<1>. SUFFICES ASSUME Init PROVE IInv
  OBVIOUS
<1>1. TypeOK
  <2>1. heap \in [Objects -> Object] /\ turn \in [Objects -> Nat]
    BY HeapTypes DEF Init
  <2>2. agents \in Seq(Objects) /\ jobs \in Seq(Job) /\ sent \in Seq(IdType)
    BY DEF Init
  <2>3. /\ pc = "spawn" /\ running \in BOOLEAN
        /\ counter \in Nat /\ last \in Nat /\ reminder \in Nat
    BY DEF Init
  <2>. QED  BY <2>1, <2>2, <2>3 DEF TypeOK
<1>2. DOMAIN agents = {} /\ DOMAIN sent = {}
  BY DEF Init
<1>3. UnbornNameless
  BY <1>2 DEF Init, UnbornNameless, Unborn
<1>. QED  BY <1>1, <1>2, <1>3 DEF Init, IInv, Distinct, Splitting, IdsIncrease, Named, SentOrdered

\* A step that leaves the agents, their ids and the last commit alone.
Quiet ==
  /\ pc # "spawn" /\ pc' # "spawn"
  /\ Named
  /\ UNCHANGED <<heap, agents, counter, sent>>

\* A step that changes none of what the invariant speaks of keeps it.
LEMMA QuietInvariant ==
  ASSUME IInv, Quiet, TypeOK', Splitting'
  PROVE  IInv'
  BY DEF IInv, Quiet, Distinct, UnbornNameless, IdsIncrease, SentOrdered, Id, Named

\* push_back keeps the invariant.
LEMMA PushBackInvariant == ASSUME IInv, PushBack PROVE IInv'
<1>1. New \in Objects /\ heap[New].state = "unborn"
  BY NewUnborn DEF PushBack
<1>2. TypeOK'
  BY <1>1, HeapTypes DEF IInv, TypeOK, PushBack, threadVars
<1>3. \A i \in DOMAIN agents : agents[i] # New
  BY <1>1 DEF IInv, UnbornNameless
<1>4. /\ DOMAIN agents' = 1..Len(agents) + 1
      /\ \A i \in DOMAIN agents : agents'[i] = agents[i]
      /\ agents'[Len(agents) + 1] = New
      /\ DOMAIN agents = 1..Len(agents)
  BY <1>1 DEF IInv, TypeOK, PushBack
<1>5. Distinct'
  BY <1>3, <1>4 DEF IInv, Distinct
<1>6. UnbornNameless'
  BY <1>1, <1>3, <1>4 DEF IInv, TypeOK, UnbornNameless, PushBack, Live
<1>7. IdsIncrease' /\ SentOrdered' /\ (pc' = "spawn" => counter' = 0)
  BY DEF PushBack, IInv, IdsIncrease, Named, SentOrdered
<1>. QED  BY <1>2, <1>5, <1>6, <1>7 DEF IInv, PushBack, Splitting

\* The ids of the first agents are their places in the vector.
LEMMA StartMainInvariant == ASSUME IInv, StartMain PROVE IInv'
<1>1. \A i \in DOMAIN agents : heap'[agents[i]] = Live(AgentId(i))
  <2>. TAKE i \in DOMAIN agents
  <2>1. agents[i] \in Objects
    BY DEF IInv, TypeOK
  <2>2. (CHOOSE k \in DOMAIN agents : agents[k] = agents[i]) = i
    BY DEF IInv, Distinct
  <2>3. counter + i = i
    BY DEF IInv, TypeOK, StartMain
  <2>. QED  BY <2>1, <2>2, <2>3 DEF StartMain
<1>2. \A o \in Objects : (\A i \in DOMAIN agents : agents[i] # o) => heap'[o] = heap[o]
  BY DEF StartMain
<1>3. /\ agents \in Seq(Objects) /\ DOMAIN agents = 1..Len(agents) /\ Len(agents) \in Nat
      /\ agents' = agents /\ counter' = Len(agents)
  BY DEF IInv, TypeOK, StartMain
<1>4. heap' \in [Objects -> Object]
  <2>1. \A o \in Objects : heap'[o] \in Object
    BY <1>1, <1>2, <1>3, HeapTypes DEF IInv, TypeOK
  <2>2. heap' = [o \in Objects |-> heap'[o]]
    BY DEF StartMain
  <2>. QED  BY <2>1, <2>2
<1>5. TypeOK'
  BY <1>3, <1>4 DEF IInv, TypeOK, StartMain, threadVars
<1>6. Distinct' /\ SentOrdered'
  BY DEF IInv, Distinct, SentOrdered, StartMain
<1>7. \A i \in DOMAIN agents :
        heap'[agents[i]].state = "live" /\ heap'[agents[i]].id = <<Group, i>>
  <2>. TAKE i \in DOMAIN agents
  <2>1. heap'[agents[i]] = [state |-> "live", id |-> <<Group, i>>]
    BY <1>1 DEF Live, AgentId
  <2>. QED  BY <2>1
<1>8. UnbornNameless'
  <2>1. ASSUME NEW o \in Objects, heap'[o].state = "unborn" PROVE heap'[o].id = NoId
    <3>1. \A i \in DOMAIN agents : agents[i] # o
      BY <1>7, <2>1
    <3>. QED  BY <1>2, <2>1, <3>1 DEF IInv, UnbornNameless
  <2>. QED  BY <1>3, <1>7, <2>1 DEF UnbornNameless
<1>9. IdsIncrease'
  BY <1>3, <1>7 DEF IdsIncrease, Id
<1>. QED  BY <1>5, <1>6, <1>8, <1>9 DEF IInv, StartMain, Splitting

\* A failure before the group has its id leaves nameless agents, a later one
\* leaves them as they are.
LEMMA FailInvariant == ASSUME IInv, Fail PROVE IInv'
<1>1. TypeOK'
  BY DEF Fail, IInv, TypeOK, threadVars
<1>. QED  BY <1>1 DEF Fail, IInv, Distinct, UnbornNameless, Splitting, IdsIncrease, Named, SentOrdered, Id

\* The environments' requests keep their types when one is taken off.
LEMMA JobTypes ==
  ASSUME jobs \in Seq(Job), jobs # <<>>
  PROVE  /\ Head(jobs) \in Job
         /\ Tail(jobs) \in Seq(Job)
         /\ Head(jobs).add # <<>> => <<[Head(jobs) EXCEPT !.add = Tail(@)]>> \o Tail(jobs) \in Seq(Job)
         /\ Head(jobs).del # <<>> => <<[Head(jobs) EXCEPT !.del = Tail(@)]>> \o Tail(jobs) \in Seq(Job)
<1>1. Head(jobs) \in Job /\ Tail(jobs) \in Seq(Job)
  OBVIOUS
<1>. DEFINE j == Head(jobs)
<1>2. j.add # <<>> => [j EXCEPT !.add = Tail(@)] \in Job
  <2>1. ASSUME j.add # <<>> PROVE Tail(j.add) \in Seq(Objects \cup {Null})
    BY <1>1, <2>1 DEF Job
  <2>. QED  BY <1>1, <2>1 DEF Job
<1>3. j.del # <<>> => [j EXCEPT !.del = Tail(@)] \in Job
  <2>1. ASSUME j.del # <<>> PROVE Tail(j.del) \in Seq(IdType)
    BY <1>1, <2>1 DEF Job
  <2>. QED  BY <1>1, <2>1 DEF Job
<1>4. \A k \in Job : <<k>> \o Tail(jobs) \in Seq(Job)
  BY <1>1
<1>. QED  BY <1>1, <1>2, <1>3, <1>4

\* A new thread has no requests yet.
LEMMA NewJobType ==
  ASSUME NEW a \in Nat, NEW b \in Nat
  PROVE  [next |-> a, end |-> b, add |-> <<>>, del |-> <<>>] \in Job
  BY DEF Job

\* Starting a turn and its threads.
LEMMA SplitInvariant ==
  ASSUME IInv, Sync \/ StartJob \/ AllStarted \/ JobsDone
  PROVE  IInv'
<1>. USE DEF IInv, TypeOK
<1>1. Quiet
  BY DEF Quiet, Named, Sync, StartJob, AllStarted, JobsDone, threadVars
<1>2. CASE Sync
  <2>1. Len(agents) \in Nat
    OBVIOUS
  <2>2. jobs' \in Seq(Job) /\ last' \in Nat
    <3>. DEFINE job == [next |-> 1, end |-> Len(agents), add |-> <<>>, del |-> <<>>]
    <3>1. <<job>> \in Seq(Job) /\ <<>> \in Seq(Job) /\ jobs \in Seq(Job)
      BY <2>1, NewJobType
    <3>2. jobs' \in {jobs, <<>>, <<job>>} /\ last' \in {last, 0, Len(agents)}
      BY <1>2 DEF Sync
    <3>. HIDE DEF job
    <3>3. jobs' \in Seq(Job)
      BY <3>1, <3>2
    <3>4. last' \in Nat
      BY <2>1, <3>2
    <3>. QED  BY <3>3, <3>4
  <2>3. reminder' \in Nat
    BY <1>2, <2>1, DivNat, GroupAssumption DEF Sync
  <2>4. turn' \in [Objects -> Nat] /\ pc' \in {"commit", "wait", "split"}
    BY <1>2 DEF Sync
  <2>5. TypeOK'
    BY <1>2, <2>2, <2>3, <2>4 DEF Sync
  <2>6. Splitting'
    BY <1>2, GroupAssumption DEF Sync, Splitting
  <2>. QED  BY <1>1, <2>5, <2>6, QuietInvariant
<1>3. CASE StartJob
  <2>. DEFINE size == Len(agents) \div NJobs
              job == [next |-> last + 1, end |-> last', add |-> <<>>, del |-> <<>>]
  <2>1. size \in Nat
    <3>1. Len(agents) \in Nat /\ NJobs \in Nat /\ NJobs > 1
      BY <1>3, GroupAssumption DEF StartJob, Splitting
    <3>. QED  BY <3>1, DivNat
  <2>2. last' \in Nat /\ reminder' \in Nat
    BY <1>3, <2>1 DEF StartJob
  <2>3. job \in Job
    BY <2>2, NewJobType
  <2>4. jobs' \in Seq(Job)
    BY <1>3, <2>3 DEF StartJob
  <2>5. TypeOK'
    BY <1>3, <2>2, <2>4 DEF StartJob
  <2>6. Splitting'
    BY <1>3 DEF StartJob, Splitting
  <2>. QED  BY <1>1, <2>5, <2>6, QuietInvariant
<1>4. CASE AllStarted \/ JobsDone
  <2>1. TypeOK' /\ Splitting'
    BY <1>4 DEF AllStarted, JobsDone, threadVars, Splitting
  <2>. QED  BY <1>1, <2>1, QuietInvariant
<1>. QED  BY <1>2, <1>3, <1>4

\* Sequences over a set S.
LEMMA ShortSeqs ==
  ASSUME NEW S, NEW s, s = <<>> \/ \E x \in S : s = <<x>> \/ s = <<x, x>>
  PROVE  s \in Seq(S)
<1>1. CASE s = <<>>
  BY <1>1
<1>2. ASSUME NEW x \in S PROVE <<x>> \in Seq(S)
  BY <1>2
<1>3. ASSUME NEW x \in S PROVE <<x, x>> \in Seq(S)
  BY <1>3
<1>. QED  BY <1>1, <1>2, <1>3

\* A job keeps its type when three of its fields are replaced by values of theirs.
LEMMA ReplacedInJob ==
  ASSUME NEW S, NEW T,
         NEW r \in [next : Nat, end : Nat, add : S, del : T],
         NEW n \in Nat, NEW add \in S, NEW del \in T
  PROVE  [r EXCEPT !.next = n, !.add = add, !.del = del] \in
           [next : Nat, end : Nat, add : S, del : T]
  OBVIOUS

\* An agent that processes may make an instance, which is none of the group's.
LEMMA ProcessAgentInvariant ==
  ASSUME IInv, NEW j \in DOMAIN jobs, ProcessAgent(j)
  PROVE  IInv'
<1>. PICK id \in MadeIds, del \in MayDelete : \E add \in MayAdd(id) :
       /\ jobs' = [jobs EXCEPT ![j].next = @ + 1, ![j].add = @ \o add, ![j].del = @ \o del]
       /\ heap' = IF add \in {<<>>, <<Null>>} THEN heap ELSE [heap EXCEPT ![New] = Live(id)]
  BY DEF ProcessAgent
<1>. PICK add \in MayAdd(id) :
       /\ jobs' = [jobs EXCEPT ![j].next = @ + 1, ![j].add = @ \o add, ![j].del = @ \o del]
       /\ heap' = IF add \in {<<>>, <<Null>>} THEN heap ELSE [heap EXCEPT ![New] = Live(id)]
  OBVIOUS
<1>0. TypeOK
  BY DEF IInv
<1>1. id \in IdType
  BY <1>0, HeapTypes, GroupAssumption DEF MadeIds, TypeOK
<1>2. del \in Seq(IdType)
  <2>1. \A n \in 1..counter : AgentId(n) \in IdType
    BY <1>0, HeapTypes DEF TypeOK
  <2>2. del = <<>> \/ \E i \in IdType : del = <<i>>
    BY <2>1, HeapTypes, GroupAssumption DEF MayDelete
  <2>. QED  BY <2>2, ShortSeqs
<1>3. add \notin {<<>>, <<Null>>} => New \in Objects /\ heap[New].state = "unborn"
  BY NewUnborn DEF MayAdd
<1>4. add \in Seq(Objects \cup {Null})
  <2>1. add = <<>> \/ \E x \in Objects \cup {Null} : add = <<x>> \/ add = <<x, x>>
    BY <1>3 DEF MayAdd
  <2>. QED  BY <2>1, ShortSeqs
<1>5. jobs' \in Seq(Job)
  <2>. DEFINE new == [jobs[j] EXCEPT !.next = @ + 1, !.add = @ \o add, !.del = @ \o del]
  <2>1. jobs[j] \in Job /\ jobs \in Seq(Job)
    BY <1>0 DEF TypeOK
  <2>2. jobs[j].add \o add \in Seq(Objects \cup {Null}) /\ jobs[j].del \o del \in Seq(IdType)
    BY <1>2, <1>4, <2>1 DEF Job
  <2>3. jobs[j].next + 1 \in Nat
    BY <2>1 DEF Job
  <2>4. new = [jobs[j] EXCEPT !.next = jobs[j].next + 1,
                 !.add = jobs[j].add \o add, !.del = jobs[j].del \o del]
    OBVIOUS
  <2>5. new \in Job
    BY <2>1, <2>2, <2>3, <2>4, ReplacedInJob DEF Job
  <2>6. jobs' = [jobs EXCEPT ![j] = new]
    OBVIOUS
  <2>. HIDE DEF new
  <2>7. [jobs EXCEPT ![j] = new] \in Seq(Job)
    BY <2>1, <2>5, ExceptSeq, j \in 1..Len(jobs)
  <2>. QED  BY <2>6, <2>7
<1>6. heap' \in [Objects -> Object]
  BY <1>0, <1>1, <1>3, HeapTypes DEF TypeOK
<1>7. turn' \in [Objects -> Nat]
  <2>1. \A o \in Objects : turn[o] \in Nat
    BY <1>0 DEF TypeOK
  <2>2. turn' = [o \in Objects |-> IF o = agents[jobs[j].next] THEN turn[o] + 1 ELSE turn[o]]
    BY <1>0 DEF TypeOK, ProcessAgent
  <2>. QED  BY <2>1, <2>2
<1>8. TypeOK'
  BY <1>0, <1>5, <1>6, <1>7 DEF TypeOK, ProcessAgent
<1>9. \A o \in Objects : heap'[o] # heap[o] => heap[o].state = "unborn" /\ heap'[o].state = "live"
  BY <1>0, <1>3 DEF TypeOK, Live
<1>10. \A i \in DOMAIN agents : agents[i] \in Objects /\ heap'[agents[i]] = heap[agents[i]]
  BY <1>0, <1>9 DEF TypeOK, IInv, UnbornNameless
<1>11. UNCHANGED <<pc, agents, counter, sent>>
  BY DEF ProcessAgent
<1>12. UnbornNameless'
  BY <1>9, <1>10, <1>11 DEF IInv, UnbornNameless
<1>13. IdsIncrease'
  BY <1>10, <1>11 DEF IInv, IdsIncrease, Named, Id
<1>. QED  BY <1>8, <1>11, <1>12, <1>13 DEF IInv, Distinct, Splitting, SentOrdered

\* A requested instance is on the heap.
LEMMA RequestedType ==
  ASSUME TypeOK, Adding, Requested # Null
  PROVE  Requested \in Objects
<1>1. Head(jobs).add \in Seq(Objects \cup {Null})
  BY JobTypes DEF TypeOK, Adding, Job
<1>. QED  BY <1>1 DEF Requested, Adding

\* Taking the first add request off leaves a sequence of jobs.
LEMMA AddDoneType ==
  ASSUME TypeOK, Adding, AddDone
  PROVE  jobs' \in Seq(Job)
  BY JobTypes DEF TypeOK, Adding, AddDone

\* The new agent's id is greater than all the others.
LEMMA AdoptInvariant == ASSUME IInv, AdoptAgent PROVE IInv'
<1>0. TypeOK /\ Adding /\ pc = "apply" /\ Named
  BY DEF IInv, AdoptAgent, Adding, Named
<1>1. Requested \in Objects
  BY <1>0, RequestedType DEF AdoptAgent
<1>. DEFINE o == Requested
            id == AgentId(counter + 1)
<1>2. /\ heap' = [heap EXCEPT ![o] = Live(id)]
      /\ agents' = Append(agents, o)
      /\ counter' = counter + 1
      /\ UNCHANGED <<pc, running, last, reminder, turn, sent>>
      /\ heap[o].id = NoId
  BY DEF AdoptAgent, Id
<1>3. counter \in Nat /\ agents \in Seq(Objects) /\ heap \in [Objects -> Object]
  BY <1>0 DEF TypeOK
<1>4. jobs' \in Seq(Job)
  BY <1>0, AddDoneType DEF AdoptAgent
<1>. HIDE DEF o, id
<1>5. id \in IdType /\ Live(id) \in Object
  BY <1>3, HeapTypes DEF id
<1>6. TypeOK'
  BY <1>0, <1>1, <1>2, <1>3, <1>4, <1>5 DEF TypeOK, o
<1>7. \A i \in DOMAIN agents :
        /\ agents[i] \in Objects /\ heap[agents[i]].id[1] = Group
        /\ heap[agents[i]].id[2] \in 1..counter
  BY <1>0, <1>3 DEF IInv, IdsIncrease, Id
<1>8. \A i \in DOMAIN agents : agents[i] # o
  BY <1>2, <1>7, GroupAssumption DEF NoId
<1>9. heap'[o].state = "live" /\ heap'[o].id = id
  BY <1>1, <1>2, <1>3 DEF Live, o
<1>10. /\ \A i \in DOMAIN agents : agents'[i] = agents[i] /\ heap'[agents'[i]] = heap[agents[i]]
       /\ agents'[Len(agents) + 1] = o
       /\ DOMAIN agents' = 1..Len(agents) + 1
       /\ DOMAIN agents = 1..Len(agents) /\ Len(agents) \in Nat
  BY <1>1, <1>2, <1>3, <1>7, <1>8 DEF o
<1>11. Distinct'
  BY <1>8, <1>10 DEF IInv, Distinct
<1>12. UnbornNameless'
  <2>1. \A p \in Objects : heap'[p].state = "unborn" => heap'[p].id = NoId
    BY <1>1, <1>2, <1>3, <1>9 DEF IInv, UnbornNameless
  <2>2. \A i \in DOMAIN agents' : heap'[agents'[i]].state # "unborn"
    BY <1>9, <1>10 DEF IInv, UnbornNameless
  <2>. QED  BY <2>1, <2>2 DEF UnbornNameless
<1>13. IdsIncrease'
  <2>1. \A i \in DOMAIN agents : Id(agents[i])' = Id(agents[i])
    BY <1>10 DEF Id
  <2>2. heap'[o].id = id
    BY <1>9
  <2>3. id[1] = Group /\ id[2] = counter + 1
    <3>1. id = <<Group, counter + 1>>
      BY DEF id, AgentId
    <3>. QED  BY <3>1
  <2>4. \A i \in DOMAIN agents' : i = Len(agents) + 1 \/ i \in DOMAIN agents
    BY <1>10
  <2>5. \A i \in DOMAIN agents' :
          Id(agents[i])'[1] = Group /\ Id(agents[i])'[2] \in 1..counter'
    <3>. TAKE i \in DOMAIN agents'
    <3>1. CASE i \in DOMAIN agents
      BY <1>2, <1>3, <1>7, <1>10, <3>1 DEF Id
    <3>2. CASE i = Len(agents) + 1
      BY <1>2, <1>3, <1>9, <1>10, <2>3, <3>2 DEF Id
    <3>. QED  BY <2>4, <3>1, <3>2
  <2>6. \A i, j \in DOMAIN agents' : i < j => Id(agents[i])'[2] < Id(agents[j])'[2]
    <3>. TAKE i, j \in DOMAIN agents'
    <3>. HAVE i < j
    <3>1. i \in DOMAIN agents
      BY <1>10
    <3>2. CASE j \in DOMAIN agents
      BY <1>0, <1>10, <3>1, <3>2 DEF IInv, IdsIncrease, Id
    <3>3. CASE j = Len(agents) + 1
      BY <1>3, <1>7, <1>9, <1>10, <2>3, <3>1, <3>3 DEF Id
    <3>. QED  BY <2>4, <3>2, <3>3
  <2>. QED  BY <2>5, <2>6 DEF IdsIncrease
<1>14. SentOrdered' /\ Splitting' /\ (pc' = "spawn" => counter' = 0)
  BY <1>0, <1>2 DEF IInv, SentOrdered, Splitting
<1>. QED  BY <1>6, <1>11, <1>12, <1>13, <1>14 DEF IInv

\* A refused instance is deleted or left alone; ids do not change.
LEMMA RefuseInvariant == ASSUME IInv, RefuseAgent \/ SkipNull PROVE IInv'
<1>0. TypeOK /\ Adding /\ pc = "apply" /\ Named
  BY DEF IInv, RefuseAgent, SkipNull, Adding, Named
<1>1. jobs' \in Seq(Job)
  BY <1>0, AddDoneType DEF RefuseAgent, SkipNull
<1>2. UNCHANGED <<pc, running, agents, counter, last, reminder, turn, sent>>
  BY DEF RefuseAgent, SkipNull
<1>3. /\ heap' \in [Objects -> Object]
      /\ \A o \in Objects :
           heap'[o].id = heap[o].id /\ (heap'[o].state = "unborn" => heap[o].state = "unborn")
  <2>1. CASE heap' = heap
    BY <1>0, <2>1 DEF TypeOK
  <2>2. CASE RefuseAgent /\ heap' = [heap EXCEPT ![Requested] = Freed(Id(Requested))]
    <3>1. Requested \in Objects
      BY <1>0, <2>2, RequestedType DEF RefuseAgent
    <3>2. heap[Requested].id \in IdType
      BY <1>0, <3>1 DEF TypeOK, Object
    <3>. QED  BY <1>0, <2>2, <3>1, <3>2, HeapTypes DEF TypeOK, Freed, Id
  <2>. QED  BY <2>1, <2>2 DEF RefuseAgent, SkipNull
<1>4. TypeOK'
  BY <1>0, <1>1, <1>2, <1>3 DEF TypeOK
<1>5. \A i \in DOMAIN agents : agents[i] \in Objects
  BY <1>0 DEF TypeOK
<1>6. UnbornNameless'
  BY <1>2, <1>3, <1>5 DEF IInv, UnbornNameless
<1>7. IdsIncrease'
  BY <1>0, <1>2, <1>3, <1>5 DEF IInv, IdsIncrease, Id
<1>. QED  BY <1>0, <1>2, <1>4, <1>6, <1>7 DEF IInv, Distinct, Splitting, SentOrdered

\* Taking one agent out of the vector keeps the order of the others.
LEMMA RemoveAt ==
  ASSUME NEW S, NEW s \in Seq(S), NEW i \in DOMAIN s
  PROVE  LET r == SubSeq(s, 1, i - 1) \o SubSeq(s, i + 1, Len(s))
         IN /\ r \in Seq(S)
            /\ DOMAIN r = 1..Len(s) - 1
            /\ \A k \in DOMAIN r : r[k] = IF k < i THEN s[k] ELSE s[k + 1]
<1>. DEFINE a == SubSeq(s, 1, i - 1)
            b == SubSeq(s, i + 1, Len(s))
<1>1. i \in 1..Len(s) /\ Len(s) \in Nat
  OBVIOUS
<1>2. a \in Seq(S) /\ Len(a) = i - 1 /\ \A k \in 1..i - 1 : a[k] = s[k]
  BY <1>1
<1>3. b \in Seq(S) /\ Len(b) = Len(s) - i /\ \A k \in 1..Len(s) - i : b[k] = s[k + i]
  BY <1>1
<1>. HIDE DEF a, b
<1>4. /\ a \o b \in Seq(S) /\ DOMAIN (a \o b) = 1..Len(s) - 1
      /\ \A k \in 1..Len(s) - 1 : (a \o b)[k] = IF k < i THEN s[k] ELSE s[k + 1]
  BY <1>1, <1>2, <1>3
<1>. QED  BY <1>4 DEF a, b

\* A deletion removes the one agent that has the id, or none.
LEMMA DeletedAgent ==
  ASSUME IInv, DeleteAgent
  PROVE  \/ UNCHANGED <<agents, heap>>
         \/ \E i \in DOMAIN agents :
              /\ Id(agents[i]) = Doomed
              /\ agents' = SubSeq(agents, 1, i - 1) \o SubSeq(agents, i + 1, Len(agents))
              /\ heap' = [heap EXCEPT ![agents[i]] = Freed(Doomed)]
<1>0. TypeOK /\ Named
  BY DEF IInv, DeleteAgent, Deleting, Named
<1>. DEFINE at == {i \in DOMAIN agents : Id(agents[i]) = Doomed}
            first == CHOOSE i \in at : \A k \in at : i <= k
<1>1. CASE Doomed[1] = Group /\ at # {}
  <2>1. PICK n \in at : TRUE
    BY <1>1
  <2>2. \A k \in at : k = n
    <3>. TAKE k \in at
    <3>1. k \in Nat /\ n \in Nat /\ counter \in Nat
      BY <1>0 DEF TypeOK
    <3>2. Id(agents[k]) = Id(agents[n]) /\ Id(agents[k])[2] \in 1..counter
      BY <1>0 DEF IInv, IdsIncrease
    <3>3. ~(k < n) /\ ~(n < k)
      BY <1>0, <3>1, <3>2 DEF IInv, IdsIncrease
    <3>. QED  BY <3>1, <3>3
  <2>3. first \in at
    <3>1. n \in Nat
      BY <1>0 DEF TypeOK
    <3>2. \A k \in at : n <= k
      BY <2>2, <3>1
    <3>. QED  BY <2>1, <3>2
  <2>4. /\ agents' = SubSeq(agents, 1, first - 1) \o SubSeq(agents, first + 1, Len(agents))
        /\ heap' = [heap EXCEPT ![agents[first]] = Freed(Doomed)]
    BY <1>1 DEF DeleteAgent
  <2>. QED  BY <2>3, <2>4
<1>2. CASE ~(Doomed[1] = Group /\ at # {})
  BY <1>2 DEF DeleteAgent
<1>. QED  BY <1>1, <1>2

\* Deleting an agent keeps the invariant: a subsequence stays increasing.
LEMMA DeleteInvariant == ASSUME IInv, DeleteAgent PROVE IInv'
<1>0. TypeOK /\ Deleting /\ pc = "apply" /\ Named
  BY DEF IInv, DeleteAgent, Deleting, Named
<1>1. jobs' \in Seq(Job)
  BY <1>0, JobTypes DEF TypeOK, DeleteAgent, Deleting
<1>2. UNCHANGED <<pc, running, counter, last, reminder, turn, sent>>
  BY DEF DeleteAgent
<1>3. CASE UNCHANGED <<agents, heap>>
  <2>1. TypeOK' /\ Quiet /\ Splitting'
    BY <1>0, <1>1, <1>2, <1>3 DEF TypeOK, Quiet, Splitting
  <2>. QED  BY <2>1, QuietInvariant
<1>4. ASSUME NEW i \in DOMAIN agents,
             agents' = SubSeq(agents, 1, i - 1) \o SubSeq(agents, i + 1, Len(agents)),
             heap' = [heap EXCEPT ![agents[i]] = Freed(Doomed)], Id(agents[i]) = Doomed
      PROVE  IInv'
  <2>1. /\ agents' \in Seq(Objects)
        /\ DOMAIN agents' = 1..Len(agents) - 1
        /\ \A k \in DOMAIN agents' : agents'[k] = IF k < i THEN agents[k] ELSE agents[k + 1]
    BY <1>0, <1>4, RemoveAt DEF TypeOK
  <2>2. agents \in Seq(Objects) /\ DOMAIN agents = 1..Len(agents) /\ Len(agents) \in Nat
    BY <1>0 DEF TypeOK
  <2>3. agents[i] \in Objects /\ heap \in [Objects -> Object] /\ Doomed \in IdType
    BY <1>0, <1>4 DEF TypeOK, Id, Object
  <2>4. /\ heap' \in [Objects -> Object]
        /\ \A o \in Objects :
             heap'[o].id = heap[o].id /\ (heap'[o].state = "unborn" => heap[o].state = "unborn")
    BY <1>4, <2>3, HeapTypes DEF Freed, Id
  <2>5. TypeOK'
    BY <1>0, <1>1, <1>2, <2>1, <2>4 DEF TypeOK
  \* where the k-th of the remaining agents was
  <2>. DEFINE was(k) == IF k < i THEN k ELSE k + 1
  <2>6. /\ \A k \in DOMAIN agents' : was(k) \in DOMAIN agents /\ agents'[k] = agents[was(k)]
        /\ \A k, l \in DOMAIN agents' : k < l => was(k) < was(l)
        /\ \A k, l \in DOMAIN agents' : was(k) = was(l) => k = l
    BY <2>1, <2>2
  <2>. HIDE DEF was
  <2>7. \A k \in DOMAIN agents' : agents'[k] \in Objects
    BY <2>1
  <2>8. Distinct'
    BY <2>6 DEF IInv, Distinct
  <2>9. UnbornNameless'
    BY <2>4, <2>6, <2>7 DEF IInv, UnbornNameless
  <2>10. \A k \in DOMAIN agents' : Id(agents[k])' = Id(agents[was(k)])
    BY <2>4, <2>6, <2>7 DEF Id
  <2>11. IdsIncrease'
    BY <1>0, <1>2, <2>6, <2>10 DEF IInv, IdsIncrease
  <2>. QED  BY <1>0, <1>2, <2>5, <2>8, <2>9, <2>11 DEF IInv, Splitting, SentOrdered
<1>. QED  BY <1>3, <1>4, DeletedAgent

\* What surrounds process(): nothing of it touches the agents until the end.
LEMMA CommitInvariant == ASSUME IInv, Commit PROVE IInv'
<1>0. TypeOK /\ Named
  BY DEF IInv, Commit, Named
<1>1. UNCHANGED <<running, heap, agents, counter, threadVars>> /\ pc' \in {"loop", "disconnect"}
  BY DEF Commit
<1>2. /\ agents \in Seq(Objects) /\ DOMAIN agents = 1..Len(agents) /\ Len(agents) \in Nat
      /\ \A i \in DOMAIN agents : heap[agents[i]].id \in IdType
  BY <1>0 DEF TypeOK, Object
<1>3. sent' = [i \in 1..Len(agents) |-> heap[agents[i]].id]
  BY <1>2 DEF Commit, IdsOf, Id
<1>4. sent' \in Seq(IdType)
  BY <1>2, <1>3
<1>5. TypeOK'
  BY <1>0, <1>1, <1>4 DEF TypeOK, threadVars
<1>6. SentOrdered'
  <2>. SUFFICES ASSUME NEW i \in DOMAIN sent', NEW j \in DOMAIN sent', i < j
                PROVE  sent'[i][1] = sent'[j][1] /\ Less(sent'[i], sent'[j])
    BY DEF SentOrdered
  <2>1. i \in DOMAIN agents /\ j \in DOMAIN agents
    BY <1>2, <1>3
  <2>2. sent'[i] = Id(agents[i]) /\ sent'[j] = Id(agents[j])
    BY <1>2, <1>3, <2>1 DEF Id
  <2>. QED  BY <1>0, <2>1, <2>2 DEF IInv, IdsIncrease, Less
<1>7. Distinct' /\ UnbornNameless' /\ IdsIncrease'
  BY <1>0, <1>1 DEF IInv, Distinct, UnbornNameless, IdsIncrease, Named, Id
<1>. QED  BY <1>1, <1>5, <1>6, <1>7 DEF IInv, Splitting

\* The steps that only move the main thread keep the invariant.
LEMMA OtherInvariant ==
  ASSUME IInv, NextEnvironment \/ Disconnect \/ Exit
  PROVE  IInv'
<1>1. Quiet /\ Splitting'
  BY DEF Quiet, Named, Splitting, NextEnvironment, Disconnect, Exit
<1>2. jobs' \in Seq(Job)
  <2>1. jobs \in Seq(Job)
    BY DEF IInv, TypeOK
  <2>2. jobs' = jobs \/ (jobs # <<>> /\ jobs' = Tail(jobs))
    BY DEF NextEnvironment, Disconnect, Exit, threadVars
  <2>. QED  BY <2>1, <2>2, JobTypes
<1>3. TypeOK'
  BY <1>2 DEF IInv, TypeOK, NextEnvironment, Disconnect, Exit, threadVars
<1>. QED  BY <1>1, <1>3, QuietInvariant

\* The destructor keeps the invariant.
LEMMA DestroyInvariant == ASSUME IInv, Destroy PROVE IInv'
<1>1. agents' = <<>> /\ DOMAIN agents' = {} /\ agents' \in Seq(Objects)
  BY DEF Destroy
<1>2. \A o \in Objects :
        /\ heap'[o] \in Object
        /\ heap'[o].state = "unborn" => heap'[o].id = NoId
  <2>. TAKE o \in Objects
  <2>1. heap[o] \in Object /\ heap[o].id \in IdType
    BY DEF IInv, TypeOK, Object
  <2>2. heap'[o] = Freed(heap[o].id) \/ heap'[o] = heap[o]
    BY DEF Destroy, Id
  <2>3. Freed(heap[o].id) \in Object /\ Freed(heap[o].id).state = "freed"
    BY <2>1, HeapTypes DEF Freed
  <2>. QED  BY <2>1, <2>2, <2>3 DEF IInv, UnbornNameless
<1>3. heap' \in [Objects -> Object]
  BY <1>2 DEF Destroy
<1>4. TypeOK'
  BY <1>1, <1>3 DEF IInv, TypeOK, Destroy, threadVars
<1>. QED  BY <1>1, <1>2, <1>4
          DEF IInv, Distinct, UnbornNameless, IdsIncrease, SentOrdered, Splitting, Destroy

-----------------------------------------------------------------------------
(* The theorems. *)

\* Every step keeps the invariant.
LEMMA NextInvariant == IInv /\ [Next]_vars => IInv'
<1>. SUFFICES ASSUME IInv, [Next]_vars PROVE IInv'
  OBVIOUS
<1>1. CASE PushBack \/ StartMain \/ Fail
  BY <1>1, PushBackInvariant, StartMainInvariant, FailInvariant
<1>2. CASE Sync \/ StartJob \/ AllStarted \/ JobsDone
  BY <1>2, SplitInvariant
<1>3. CASE \E j \in DOMAIN jobs : ProcessAgent(j)
  <2>. PICK j \in DOMAIN jobs : ProcessAgent(j)
    BY <1>3
  <2>. QED  BY ProcessAgentInvariant
<1>4. CASE AdoptAgent \/ RefuseAgent \/ SkipNull \/ DeleteAgent
  BY <1>4, AdoptInvariant, RefuseInvariant, DeleteInvariant
<1>5. CASE NextEnvironment \/ Disconnect \/ Exit
  BY <1>5, OtherInvariant
<1>6. CASE Commit \/ Destroy
  BY <1>6, CommitInvariant, DestroyInvariant
<1>7. CASE UNCHANGED vars
  BY <1>7 DEF vars, IInv, TypeOK, Distinct, UnbornNameless, Splitting, IdsIncrease, Named,
              SentOrdered, Id
<1>. QED  BY <1>1, <1>2, <1>3, <1>4, <1>5, <1>6, <1>7 DEF Next, Process

\* The group's invariant, from which the theorems below are read off.
THEOREM Invariant == Spec => []IInv
  BY InitInvariant, NextInvariant, PTL DEF Spec

\* The variables of a group keep their types.
THEOREM TypeCorrect == Spec => []TypeOK
  BY Invariant, PTL DEF IInv

\* The ids in m_agents grow along the vector, whatever the agents request and
\* however many threads process them.
THEOREM IdsAlwaysIncrease == Spec => []IdsIncrease
  BY Invariant, PTL DEF IInv

\* Every commit a group sends is one that update_global_state merges correctly:
\* the ids are of one group and strictly increasing.
THEOREM CommitsAreOrdered == Spec => []SentOrdered
  BY Invariant, PTL DEF IInv

-----------------------------------------------------------------------------
(* Ids are not given twice, and agents leave for a reason. *)

\* All but the one that is taken out stay in the vector.
LEMMA OthersStay ==
  ASSUME NEW S, NEW s \in Seq(S), NEW i \in DOMAIN s, NEW k \in DOMAIN s, k # i
  PROVE  LET r == SubSeq(s, 1, i - 1) \o SubSeq(s, i + 1, Len(s))
         IN \E l \in DOMAIN r : r[l] = s[k]
<1>. DEFINE r == SubSeq(s, 1, i - 1) \o SubSeq(s, i + 1, Len(s))
            l == IF k < i THEN k ELSE k - 1
<1>1. /\ DOMAIN r = 1..Len(s) - 1
      /\ \A m \in DOMAIN r : r[m] = IF m < i THEN s[m] ELSE s[m + 1]
  BY RemoveAt
<1>2. i \in 1..Len(s) /\ k \in 1..Len(s) /\ Len(s) \in Nat
  OBVIOUS
<1>. HIDE DEF r
<1>3. l \in 1..Len(s) - 1 /\ (IF l < i THEN l ELSE l + 1) = k
  BY <1>2
<1>4. r[l] = s[k]
  BY <1>1, <1>3
<1>. QED  BY <1>1, <1>3, <1>4 DEF r

\* Whom a step takes out of the vector.
LEMMA RemovedOnRequest ==
  ASSUME IInv, [Next]_vars, NEW o \in Objects, Registered(o), ~Registered(o)'
  PROVE  pc' = "gone" \/ (pc = "apply" /\ Id(o) = Doomed)
<1>1. agents \in Seq(Objects)
  BY DEF IInv, TypeOK
<1>2. agents' # agents
  BY DEF Registered
<1>3. ASSUME NEW q \in Objects, agents' = Append(agents, q)
      PROVE  FALSE
  <2>1. PICK i \in DOMAIN agents : agents[i] = o
    BY DEF Registered
  <2>2. i \in DOMAIN agents' /\ agents'[i] = o
    BY <1>1, <1>3, <2>1
  <2>. QED  BY <2>2 DEF Registered
<1>4. CASE PushBack
  BY <1>3, <1>4, NewUnborn DEF PushBack
<1>5. CASE AdoptAgent
  BY <1>3, <1>5, RequestedType DEF AdoptAgent, IInv
<1>6. CASE DeleteAgent
  <2>1. PICK i \in DOMAIN agents :
          /\ Id(agents[i]) = Doomed
          /\ agents' = SubSeq(agents, 1, i - 1) \o SubSeq(agents, i + 1, Len(agents))
    BY <1>2, <1>6, DeletedAgent
  <2>2. PICK k \in DOMAIN agents : agents[k] = o
    BY DEF Registered
  <2>3. k = i
    <3>1. SUFFICES ASSUME k # i PROVE FALSE
      OBVIOUS
    <3>2. \E l \in DOMAIN agents' : agents'[l] = agents[k]
      BY <1>1, <2>1, <3>1, OthersStay
    <3>. QED  BY <2>2, <3>2 DEF Registered
  <2>. QED  BY <1>6, <2>1, <2>2, <2>3 DEF DeleteAgent, Deleting
<1>7. CASE Destroy
  BY <1>7 DEF Destroy
<1>8. PushBack \/ AdoptAgent \/ DeleteAgent \/ Destroy
  BY <1>2 DEF Next, Process, StartMain, Fail, Sync, StartJob, AllStarted, ProcessAgent,
    JobsDone, RefuseAgent, SkipNull, NextEnvironment, Commit, Disconnect, Exit, vars
<1>. QED  BY <1>4, <1>5, <1>6, <1>7, <1>8

\* An agent leaves the vector only with the group or because its own id was
\* requested: no deletion hits another one.
THEOREM RemovalsAreRequested == Spec => OnlyRequested
<1>1. IInv /\ [Next]_vars =>
        [\A o \in Objects :
           Registered(o) /\ ~Registered(o)' =>
             pc' = "gone" \/ (pc = "apply" /\ Id(o) = Doomed)]_vars
  BY RemovedOnRequest
<1>. QED  BY <1>1, Invariant, PTL DEF Spec, OnlyRequested

\* No id of the group is in use that the counter has not passed.
IdsGiven == \A o \in Objects : Id(o)[1] = Group => Id(o)[2] <= counter
IdsInv == IInv /\ IdsGiven

\* The halves of the ids that are not taken from the counter.
LEMMA OtherIds == NoId[1] # Group /\ Foreign[1] # Group
BY GroupAssumption DEF NoId

\* StartMain numbers the agents from one on and leaves all others alone.
LEMMA StartMainIds ==
  ASSUME IInv, StartMain, NEW o \in Objects
  PROVE  \/ heap'[o] = heap[o]
         \/ \E n \in 1..counter' : heap'[o].id = <<Group, n>>
<1>1. /\ counter = 0 /\ counter' = Len(agents) /\ DOMAIN agents = 1..Len(agents)
      /\ Len(agents) \in Nat
  BY DEF IInv, TypeOK, StartMain
<1>2. CASE \E i \in DOMAIN agents : agents[i] = o
  <2>. DEFINE n == CHOOSE i \in DOMAIN agents : agents[i] = o
  <2>1. n \in DOMAIN agents
    BY <1>2
  <2>2. heap'[o] = Live(AgentId(counter + n))
    BY <1>2 DEF StartMain
  <2>. HIDE DEF n
  <2>3. heap'[o] = Live(<<Group, n>>)
    BY <1>1, <2>1, <2>2 DEF AgentId
  <2>. QED  BY <1>1, <2>1, <2>3 DEF Live
<1>3. CASE ~ \E i \in DOMAIN agents : agents[i] = o
  BY <1>3 DEF StartMain
<1>. QED  BY <1>2, <1>3

\* Where the ids of a step come from: most instances keep theirs, and one that
\* is made gets no new id of the group.
LEMMA StepIds ==
  ASSUME IInv, [Next]_vars, NEW o \in Objects
  PROVE  /\ counter' \in Nat /\ counter <= counter'
         /\ \/ Id(o)' = Id(o)
            \/ heap[o].state = "unborn" /\ Id(o)' \in MadeIds
            \/ \E n \in counter + 1..counter' : Id(o)' = <<Group, n>>
<1>. USE DEF Id
<1>0. TypeOK /\ counter \in Nat /\ heap \in [Objects -> Object]
  BY DEF IInv, TypeOK
<1>1. CASE PushBack
  BY <1>0, <1>1, NewUnborn DEF PushBack, Live, MadeIds
<1>2. CASE StartMain
  <2>1. counter = 0 /\ counter' \in Nat
    BY <1>2 DEF IInv, TypeOK, StartMain
  <2>. QED  BY <1>2, <2>1, StartMainIds
<1>3. CASE \E j \in DOMAIN jobs : ProcessAgent(j)
  <2>. PICK j \in DOMAIN jobs : ProcessAgent(j)
    BY <1>3
  <2>0. PICK id \in MadeIds : \E add \in MayAdd(id) :
          heap' = IF add \in {<<>>, <<Null>>} THEN heap ELSE [heap EXCEPT ![New] = Live(id)]
    BY DEF ProcessAgent
  <2>1. PICK add \in MayAdd(id) :
          heap' = IF add \in {<<>>, <<Null>>} THEN heap ELSE [heap EXCEPT ![New] = Live(id)]
    BY <2>0
  <2>2. add \notin {<<>>, <<Null>>} => New \in Objects /\ heap[New].state = "unborn"
    BY NewUnborn DEF MayAdd
  <2>3. counter' = counter
    BY DEF ProcessAgent
  <2>. QED  BY <1>0, <2>1, <2>2, <2>3 DEF Live
<1>4. CASE AdoptAgent
  <2>1. Requested \in Objects
    BY <1>0, <1>4, RequestedType DEF AdoptAgent
  <2>2. heap' = [heap EXCEPT ![Requested] = Live(<<Group, counter + 1>>)] /\ counter' = counter + 1
    BY <1>4 DEF AdoptAgent, AgentId
  <2>3. heap'[o] = heap[o] \/ heap'[o].id = <<Group, counter + 1>>
    BY <1>0, <2>1, <2>2 DEF Live
  <2>. QED  BY <1>0, <2>2, <2>3
<1>5. CASE RefuseAgent
  <2>1. Requested \in Objects
    BY <1>0, <1>5, RequestedType DEF RefuseAgent
  <2>. QED  BY <1>0, <1>5, <2>1 DEF RefuseAgent, Freed
<1>6. CASE DeleteAgent
  <2>1. counter' = counter
    BY <1>6 DEF DeleteAgent
  <2>2. CASE UNCHANGED <<agents, heap>>
    BY <1>0, <2>1, <2>2
  <2>3. ASSUME NEW i \in DOMAIN agents, heap[agents[i]].id = Doomed,
               heap' = [heap EXCEPT ![agents[i]] = Freed(Doomed)]
        PROVE  heap'[o].id = heap[o].id
    BY <1>0, <2>3 DEF Freed, TypeOK
  <2>. QED  BY <1>0, <1>6, <2>1, <2>2, <2>3, DeletedAgent
<1>7. CASE Destroy
  BY <1>0, <1>7 DEF Destroy, Freed
<1>8. CASE UNCHANGED <<heap, counter>>
  BY <1>0, <1>8
<1>9. \/ PushBack \/ StartMain \/ \E j \in DOMAIN jobs : ProcessAgent(j)
      \/ AdoptAgent \/ RefuseAgent \/ DeleteAgent \/ Destroy \/ UNCHANGED <<heap, counter>>
  BY DEF Next, Process, Fail, Sync, StartJob, AllStarted, JobsDone, SkipNull,
    NextEnvironment, Commit, Disconnect, Exit, vars
<1>. QED  BY <1>1, <1>2, <1>3, <1>4, <1>5, <1>6, <1>7, <1>8, <1>9

\* The counter stays ahead of the ids in use.
LEMMA NextIdsGiven == IdsInv /\ [Next]_vars => IdsInv'
<1>. SUFFICES ASSUME IdsInv, [Next]_vars, NEW o \in Objects, Id(o)'[1] = Group
              PROVE  Id(o)'[2] <= counter'
  BY NextInvariant DEF IdsInv, IdsGiven
<1>1. counter \in Nat /\ counter' \in Nat /\ counter <= counter'
  BY StepIds DEF IdsInv, IInv, TypeOK
<1>2. CASE Id(o)' = Id(o)
  <2>1. Id(o)[2] <= counter /\ Id(o)[2] \in Int
    <3>1. heap[o].id \in IdType
      BY DEF IdsInv, IInv, TypeOK, Object
    <3>. QED  BY <1>2, <3>1 DEF IdsInv, IdsGiven, Id, IdType
  <2>. QED  BY <1>1, <1>2, <2>1
<1>3. CASE Id(o)' \in MadeIds
  <2>1. Id(o)' = <<Group, counter>>
    BY <1>3, OtherIds DEF MadeIds, AgentId
  <2>. QED  BY <1>1, <2>1
<1>4. ASSUME NEW n \in counter + 1..counter', Id(o)' = <<Group, n>>
      PROVE  Id(o)'[2] <= counter'
  BY <1>1, <1>4
<1>. QED  BY <1>2, <1>3, <1>4, StepIds DEF IdsInv

\* At first nothing has an id.
LEMMA InitIdsGiven == Init => IdsInv
BY InitInvariant, OtherIds DEF Init, IdsInv, IdsGiven, Id, Unborn

\* A live agent only ever gets an id that the counter had not passed, and so one
\* that no instance has had, deleted ones included.
THEOREM IdsAreFresh == Spec => FreshIds
<1>. DEFINE Fresh == \A o \in Objects :
       heap'[o].id # heap[o].id /\ heap[o].state = "live" =>
         /\ heap'[o].id \in {AgentId(n) : n \in counter + 1..counter'}
         /\ \A p \in Objects : heap[p].id # heap'[o].id
<1>1. IdsInv /\ [Next]_vars => [Fresh]_vars
  <2>. SUFFICES ASSUME IdsInv, [Next]_vars, NEW o \in Objects,
                       heap'[o].id # heap[o].id, heap[o].state = "live"
                PROVE  /\ heap'[o].id \in {AgentId(n) : n \in counter + 1..counter'}
                       /\ \A p \in Objects : heap[p].id # heap'[o].id
    OBVIOUS
  <2>1. PICK n \in counter + 1..counter' : heap'[o].id = <<Group, n>>
    BY StepIds DEF IdsInv, Id
  <2>2. counter \in Nat /\ n \in Int /\ ~(n <= counter)
    BY <2>1, StepIds DEF IdsInv, IInv, TypeOK
  <2>3. ASSUME NEW p \in Objects, heap[p].id = <<Group, n>>
        PROVE  FALSE
    BY <2>2, <2>3 DEF IdsInv, IdsGiven, Id
  <2>. QED  BY <2>1, <2>3 DEF AgentId
<1>2. Spec => []IdsInv
  BY InitIdsGiven, NextIdsGiven, PTL DEF Spec
<1>. QED  BY <1>1, <1>2, PTL DEF Spec, FreshIds

-----------------------------------------------------------------------------
(* What is left of the threads when their requests are applied. *)

\* Replacing the first element of a sequence.
LEMMA HeadReplaced ==
  ASSUME NEW S, NEW s \in Seq(S), s # <<>>, NEW x \in S
  PROVE  LET r == <<x>> \o Tail(s)
         IN /\ 1 \in DOMAIN s /\ Head(s) = s[1]
            /\ r \in Seq(S) /\ DOMAIN r = DOMAIN s /\ r[1] = x
            /\ \A k \in DOMAIN s \ {1} : r[k] = s[k]
<1>1. /\ Len(s) \in Nat \ {0} /\ DOMAIN s = 1..Len(s) /\ Head(s) = s[1]
      /\ Tail(s) \in Seq(S) /\ Len(Tail(s)) = Len(s) - 1
      /\ \A k \in 1..Len(s) - 1 : Tail(s)[k] = s[k + 1]
  OBVIOUS
<1>2. /\ <<x>> \in Seq(S) /\ Len(<<x>>) = 1 /\ <<x>>[1] = x
  OBVIOUS
<1>. DEFINE r == <<x>> \o Tail(s)
<1>3. /\ r \in Seq(S) /\ Len(r) = Len(s) /\ r[1] = x
      /\ \A k \in 2..Len(s) : r[k] = Tail(s)[k - 1]
  BY <1>1, <1>2
<1>. HIDE DEF r
<1>4. \A k \in 2..Len(s) : Tail(s)[k - 1] = s[k]
  BY <1>1
<1>5. DOMAIN r = DOMAIN s
  BY <1>1, <1>3
<1>6. \A k \in DOMAIN s \ {1} : r[k] = s[k]
  BY <1>1, <1>3, <1>4
<1>. QED  BY <1>1, <1>3, <1>5, <1>6 DEF r

\* A job of which only the requests have changed.
LEMMA OneRequestLess ==
  ASSUME NEW S, NEW T, NEW r \in [next : Nat, end : Nat, add : S, del : T]
  PROVE  /\ \A a \in S : LET n == [r EXCEPT !.add = a]
                         IN /\ n \in [next : Nat, end : Nat, add : S, del : T]
                            /\ n.next = r.next /\ n.end = r.end /\ n.add = a
         /\ \A d \in T : LET n == [r EXCEPT !.del = d]
                         IN /\ n \in [next : Nat, end : Nat, add : S, del : T]
                            /\ n.next = r.next /\ n.end = r.end /\ n.add = r.add
OBVIOUS

\* The first thread's first request to add is taken off, and nothing else.
LEMMA AddDoneFacts ==
  ASSUME TypeOK, Adding, AddDone
  PROVE  /\ 1 \in DOMAIN jobs /\ DOMAIN jobs' = DOMAIN jobs
         /\ jobs[1].add \in Seq(Objects \cup {Null}) /\ jobs[1].add # <<>>
         /\ Requested = jobs[1].add[1]
         /\ jobs'[1].add = Tail(jobs[1].add)
         /\ \A j \in DOMAIN jobs \ {1} : jobs'[j] = jobs[j]
         /\ \A j \in DOMAIN jobs : jobs'[j].next = jobs[j].next /\ jobs'[j].end = jobs[j].end
<1>1. /\ jobs \in Seq(Job) /\ jobs # <<>> /\ Head(jobs) \in Job /\ Head(jobs).add # <<>>
      /\ Head(jobs).add \in Seq(Objects \cup {Null})
  BY JobTypes DEF TypeOK, Adding, Job
<1>. DEFINE new == [Head(jobs) EXCEPT !.add = Tail(@)]
<1>2. /\ new.next = Head(jobs).next /\ new.end = Head(jobs).end
      /\ new.add = Tail(Head(jobs).add) /\ new \in Job
  <2>1. Tail(Head(jobs).add) \in Seq(Objects \cup {Null})
    BY <1>1
  <2>2. new = [Head(jobs) EXCEPT !.add = Tail(Head(jobs).add)]
    OBVIOUS
  <2>. QED  BY <1>1, <2>1, <2>2, OneRequestLess DEF Job
<1>3. jobs' = <<new>> \o Tail(jobs)
  BY DEF AddDone
<1>. HIDE DEF new
<1>4. /\ 1 \in DOMAIN jobs /\ Head(jobs) = jobs[1] /\ DOMAIN jobs' = DOMAIN jobs
      /\ jobs'[1] = new /\ \A j \in DOMAIN jobs \ {1} : jobs'[j] = jobs[j]
  BY <1>1, <1>2, <1>3, HeadReplaced
<1>. QED  BY <1>1, <1>2, <1>4 DEF Requested

\* A request to delete is taken off, and nothing else.
LEMMA DeleteDoneFacts ==
  ASSUME TypeOK, DeleteAgent
  PROVE  /\ 1 \in DOMAIN jobs /\ DOMAIN jobs' = DOMAIN jobs /\ jobs[1].add = <<>>
         /\ \A j \in DOMAIN jobs : /\ jobs'[j].add = jobs[j].add
                                   /\ jobs'[j].next = jobs[j].next
                                   /\ jobs'[j].end = jobs[j].end
<1>1. /\ jobs \in Seq(Job) /\ jobs # <<>> /\ Head(jobs) \in Job /\ Head(jobs).del # <<>>
      /\ Head(jobs).del \in Seq(IdType) /\ Head(jobs).add = <<>>
  BY JobTypes DEF TypeOK, DeleteAgent, Deleting, Job
<1>. DEFINE new == [Head(jobs) EXCEPT !.del = Tail(@)]
<1>2. /\ new.next = Head(jobs).next /\ new.end = Head(jobs).end
      /\ new.add = Head(jobs).add /\ new \in Job
  <2>1. Tail(Head(jobs).del) \in Seq(IdType)
    BY <1>1
  <2>2. new = [Head(jobs) EXCEPT !.del = Tail(Head(jobs).del)]
    OBVIOUS
  <2>. QED  BY <1>1, <2>1, <2>2, OneRequestLess DEF Job
<1>3. jobs' = <<new>> \o Tail(jobs)
  BY DEF DeleteAgent
<1>. HIDE DEF new
<1>4. /\ 1 \in DOMAIN jobs /\ Head(jobs) = jobs[1] /\ DOMAIN jobs' = DOMAIN jobs
      /\ jobs'[1] = new /\ \A j \in DOMAIN jobs \ {1} : jobs'[j] = jobs[j]
  BY <1>1, <1>2, <1>3, HeadReplaced
<1>. QED  BY <1>1, <1>2, <1>4

\* The Environment of a thread that has nothing left is dropped.
LEMMA NextEnvironmentFacts ==
  ASSUME TypeOK, NextEnvironment
  PROVE  \/ jobs = <<>> /\ jobs' = jobs /\ pc' = "commit"
         \/ /\ pc' = pc /\ 1 \in DOMAIN jobs /\ jobs[1].add = <<>>
            /\ \A j \in DOMAIN jobs' : j + 1 \in DOMAIN jobs \ {1} /\ jobs'[j] = jobs[j + 1]
            /\ \A j \in DOMAIN jobs \ {1} : j - 1 \in DOMAIN jobs' /\ jobs'[j - 1] = jobs[j]
<1>1. CASE jobs = <<>>
  BY <1>1 DEF NextEnvironment
<1>2. CASE jobs # <<>>
  <2>1. /\ jobs \in Seq(Job) /\ jobs' = Tail(jobs) /\ pc' = pc /\ Head(jobs).add = <<>>
    BY <1>2 DEF NextEnvironment, TypeOK
  <2>2. /\ Len(jobs) \in Nat \ {0} /\ DOMAIN jobs = 1..Len(jobs) /\ Head(jobs) = jobs[1]
        /\ DOMAIN jobs' = 1..Len(jobs) - 1
        /\ \A j \in 1..Len(jobs) - 1 : jobs'[j] = jobs[j + 1]
    BY <1>2, <2>1
  <2>3. \A j \in 2..Len(jobs) : j - 1 \in 1..Len(jobs) - 1 /\ jobs'[j - 1] = jobs[j]
    BY <2>2
  <2>4. \A j \in 1..Len(jobs) - 1 : j + 1 \in DOMAIN jobs \ {1}
    BY <2>2
  <2>5. \A j \in DOMAIN jobs \ {1} : j \in 2..Len(jobs)
    BY <2>2
  <2>6. 1 \in DOMAIN jobs
    BY <2>2
  <2>. QED  BY <2>1, <2>2, <2>3, <2>4, <2>5, <2>6
<1>. QED  BY <1>1, <1>2

\* What an agent asks for is appended to the requests of its thread.
LEMMA ProcessAgentFacts ==
  ASSUME TypeOK, NEW j \in DOMAIN jobs, ProcessAgent(j)
  PROVE  /\ DOMAIN jobs' = DOMAIN jobs
         /\ \A k \in DOMAIN jobs \ {j} : jobs'[k] = jobs[k]
         /\ jobs'[j].next = jobs[j].next + 1 /\ jobs'[j].end = jobs[j].end
         /\ \E id \in MadeIds : \E add \in MayAdd(id) :
              /\ jobs'[j].add = jobs[j].add \o add
              /\ heap' = IF add \in {<<>>, <<Null>>} THEN heap
                         ELSE [heap EXCEPT ![New] = Live(id)]
<1>1. PICK id \in MadeIds, del \in MayDelete : \E add \in MayAdd(id) :
        /\ jobs' = [jobs EXCEPT ![j].next = @ + 1, ![j].add = @ \o add, ![j].del = @ \o del]
        /\ heap' = IF add \in {<<>>, <<Null>>} THEN heap ELSE [heap EXCEPT ![New] = Live(id)]
  BY DEF ProcessAgent
<1>2. PICK add \in MayAdd(id) :
        /\ jobs' = [jobs EXCEPT ![j].next = @ + 1, ![j].add = @ \o add, ![j].del = @ \o del]
        /\ heap' = IF add \in {<<>>, <<Null>>} THEN heap ELSE [heap EXCEPT ![New] = Live(id)]
  BY <1>1
<1>3. jobs \in Seq(Job) /\ jobs[j] \in Job
  BY DEF TypeOK
<1>. DEFINE new == [jobs[j] EXCEPT !.next = @ + 1, !.add = @ \o add, !.del = @ \o del]
<1>4. jobs' = [jobs EXCEPT ![j] = new]
  BY <1>2
<1>5. new.next = jobs[j].next + 1 /\ new.end = jobs[j].end /\ new.add = jobs[j].add \o add
  BY <1>3 DEF Job
<1>. HIDE DEF new
<1>6. /\ DOMAIN jobs' = DOMAIN jobs /\ jobs'[j] = new
      /\ \A k \in DOMAIN jobs \ {j} : jobs'[k] = jobs[k]
  BY <1>3, <1>4
<1>. QED  BY <1>2, <1>5, <1>6

\* No thread is left once its requests have been applied, and none processes an
\* agent any more while they are.
AllDone == \A j \in DOMAIN jobs : jobs[j].next > jobs[j].end
ThreadsWait ==
  /\ pc \in {"split", "wait", "apply"} \/ jobs = <<>>
  /\ pc = "apply" => AllDone

\* Only while process() splits the vector or waits do agents process.
LEMMA ProcessingTime ==
  ASSUME TypeOK, ThreadsWait, NEW j \in DOMAIN jobs, ProcessAgent(j)
  PROVE  pc \in {"split", "wait"}
<1>1. jobs # <<>> /\ jobs[j] \in Job
  BY DEF TypeOK
<1>2. ~AllDone
  BY <1>1 DEF ProcessAgent, AllDone, Job
<1>. QED  BY <1>1, <1>2 DEF ThreadsWait

\* All threads have ended whenever requests are applied.
LEMMA NextThreadsWait == IInv /\ ThreadsWait /\ [Next]_vars => ThreadsWait'
<1>. SUFFICES ASSUME IInv, ThreadsWait, [Next]_vars PROVE ThreadsWait'
  OBVIOUS
<1>0. TypeOK
  BY DEF IInv
<1>1. CASE UNCHANGED <<jobs>> /\ pc' = pc
  BY <1>1 DEF ThreadsWait, AllDone
<1>2. CASE PushBack \/ StartMain \/ Fail \/ Commit \/ Disconnect \/ Exit \/ Destroy
  BY <1>2 DEF PushBack, StartMain, Fail, Commit, Disconnect, Exit, Destroy, threadVars, ThreadsWait
<1>3. CASE Sync \/ StartJob \/ AllStarted \/ JobsDone
  BY <1>3 DEF Sync, StartJob, AllStarted, JobsDone, threadVars, ThreadsWait, AllDone
<1>4. CASE \E j \in DOMAIN jobs : ProcessAgent(j)
  BY <1>0, <1>4, ProcessingTime DEF ThreadsWait, ProcessAgent
<1>5. CASE AdoptAgent \/ RefuseAgent \/ SkipNull
  <2>1. Adding /\ AddDone /\ pc' = pc
    BY <1>5 DEF AdoptAgent, RefuseAgent, SkipNull
  <2>. QED  BY <1>0, <2>1, AddDoneFacts DEF ThreadsWait, AllDone, Adding
<1>6. CASE DeleteAgent
  <2>1. pc = "apply" /\ pc' = pc
    BY <1>6 DEF DeleteAgent, Deleting
  <2>. QED  BY <1>0, <1>6, <2>1, DeleteDoneFacts DEF ThreadsWait, AllDone
<1>7. CASE NextEnvironment
  BY <1>0, <1>7, NextEnvironmentFacts DEF ThreadsWait, AllDone, NextEnvironment
<1>. QED  BY <1>1, <1>2, <1>3, <1>4, <1>5, <1>6, <1>7 DEF Next, Process, vars

-----------------------------------------------------------------------------
(* process() processes every agent once. *)

\* The threads that still have agent i of the vector ahead of them.
Has(j, i) == i \in jobs[j].next..jobs[j].end
Waits(i) == \E j \in DOMAIN jobs : Has(j, i)

\* The ranges lie in the part of the vector that has been split, and apart; an
\* agent there has been processed unless a thread has it ahead.
RangesInside ==
  pc \in {"split", "wait"} =>
    /\ last <= Len(agents) /\ (pc = "wait" => last = Len(agents))
    /\ \A j \in DOMAIN jobs : 1 <= jobs[j].next /\ jobs[j].end <= last
    /\ \A j, k \in DOMAIN jobs : \A i \in DOMAIN agents : Has(j, i) /\ Has(k, i) => j = k
TurnCounted ==
  pc \in {"split", "wait"} =>
    /\ \A i \in DOMAIN agents : turn[agents[i]] = IF i <= last /\ ~Waits(i) THEN 1 ELSE 0
    /\ \A o \in Objects : ~Registered(o) => turn[o] = 0

\* What is left of the vector is split into m parts, of which the reminder says
\* how many get one agent more.
PartsLeft ==
  pc = "split" =>
    \E m \in Nat :
      /\ reminder <= m
      /\ Len(agents) = last + m * (Len(agents) \div NJobs) + reminder

TurnInv == IInv /\ ThreadsWait /\ RangesInside /\ TurnCounted /\ PartsLeft

\* The remainder is less than the number of threads.
LEMMA DivRemainder ==
  ASSUME NEW n \in Nat, NEW d \in Nat, d > 1
  PROVE  n - (n \div d) * d <= d /\ n = 0 + d * (n \div d) + (n - (n \div d) * d)
  BY Z3

\* One part taken off leaves one part less, and still fits.
LEMMA OnePartLess ==
  ASSUME NEW n \in Nat, NEW l \in Nat, NEW m \in Nat, NEW size \in Nat, NEW rem \in Nat,
         rem <= m, n = l + m * size + rem, l # n
  PROVE  LET more == IF rem # 0 THEN 1 ELSE 0
         IN /\ m - 1 \in Nat
            /\ rem - more \in Nat /\ rem - more <= m - 1
            /\ n = (l + size + more) + (m - 1) * size + (rem - more)
            /\ l + size + more <= n
<1>1. m * size \in Nat
  BY Z3
<1>2. m # 0
  <2>1. m = 0 => m * size = 0
    BY Z3
  <2>. QED  BY <2>1
<1>3. (m - 1) * size = m * size - size /\ (m - 1) * size \in Nat
  <2>1. m - 1 \in Nat
    BY <1>2
  <2>2. (m - 1) * size = m * size - size
    BY Z3
  <2>3. (m - 1) * size \in Nat
    BY <2>1, Z3
  <2>. QED  BY <2>2, <2>3
<1>. DEFINE more == IF rem # 0 THEN 1 ELSE 0
            p == m * size
            q == (m - 1) * size
<1>4. p \in Nat /\ q \in Nat /\ q = p - size /\ n = l + p + rem
  BY <1>1, <1>3
<1>. HIDE DEF p, q
<1>5. rem - more \in Nat /\ rem - more <= m - 1
  BY <1>2
<1>6. n = (l + size + more) + q + (rem - more)
  BY <1>4
<1>7. l + size + more <= n
  BY <1>4, <1>5, <1>6
<1>. QED  BY <1>2, <1>5, <1>6, <1>7 DEF q

\* A turn starts with nobody processed: everything is ahead of the one thread,
\* or still to be split.
LEMMA SyncTurns ==
  ASSUME TurnInv, Sync
  PROVE  RangesInside' /\ TurnCounted' /\ PartsLeft'
<1>0. /\ agents \in Seq(Objects) /\ Len(agents) \in Nat /\ DOMAIN agents = 1..Len(agents)
      /\ agents' = agents /\ turn' = [o \in Objects |-> 0]
      /\ \A i \in DOMAIN agents : agents[i] \in Objects
  BY DEF TurnInv, IInv, TypeOK, Sync
<1>1. CASE agents = <<>>
  BY <1>1 DEF Sync, RangesInside, TurnCounted, PartsLeft
<1>2. CASE agents # <<>> /\ NJobs <= 1
  <2>. DEFINE job == [next |-> 1, end |-> Len(agents), add |-> <<>>, del |-> <<>>]
  <2>1. jobs' = <<job>> /\ last' = Len(agents) /\ pc' = "wait"
    BY <1>2 DEF Sync
  <2>2. job.next = 1 /\ job.end = Len(agents)
    OBVIOUS
  <2>. HIDE DEF job
  <2>3. DOMAIN jobs' = {1} /\ jobs'[1] = job
    BY <2>1
  <2>4. \A i \in DOMAIN agents : Waits(i)'
    BY <1>0, <2>2, <2>3 DEF Waits, Has
  <2>5. TurnCounted'
    BY <1>0, <2>4 DEF TurnCounted
  <2>6. RangesInside'
    BY <1>0, <2>1, <2>2, <2>3 DEF RangesInside
  <2>. QED  BY <2>1, <2>5, <2>6 DEF PartsLeft
<1>3. CASE agents # <<>> /\ ~(NJobs <= 1)
  <2>1. /\ jobs' = <<>> /\ last' = 0 /\ pc' = "split"
        /\ reminder' = Len(agents) - (Len(agents) \div NJobs) * NJobs
    BY <1>3 DEF Sync
  <2>2. NJobs \in Nat /\ NJobs > 1
    BY <1>3, GroupAssumption
  <2>3. reminder' <= NJobs /\ Len(agents) = 0 + NJobs * (Len(agents) \div NJobs) + reminder'
    BY <1>0, <2>1, <2>2, DivRemainder
  <2>4. PartsLeft'
    BY <1>0, <2>1, <2>2, <2>3 DEF PartsLeft
  <2>5. DOMAIN jobs' = {} /\ \A i \in DOMAIN agents : ~(i <= 0)
    BY <1>0, <2>1
  <2>. QED  BY <1>0, <2>1, <2>4, <2>5 DEF RangesInside, TurnCounted
<1>. QED  BY <1>1, <1>2, <1>3

\* A new thread gets the next part of the vector, of which nobody has processed
\* anything, and the rest can still be split as before.
LEMMA StartJobTurns ==
  ASSUME TurnInv, StartJob
  PROVE  RangesInside' /\ TurnCounted' /\ PartsLeft'
<1>. DEFINE n == Len(agents)
            size == n \div NJobs
            more == IF reminder # 0 THEN 1 ELSE 0
            job == [next |-> last + 1, end |-> last', add |-> <<>>, del |-> <<>>]
<1>0. /\ agents \in Seq(Objects) /\ n \in Nat /\ DOMAIN agents = 1..n /\ jobs \in Seq(Job)
      /\ last \in Nat /\ reminder \in Nat /\ pc = "split" /\ pc' = "split" /\ last # n
      /\ \A i \in DOMAIN agents : agents[i] \in Objects
      /\ UNCHANGED <<agents, turn>>
  BY DEF TurnInv, IInv, TypeOK, StartJob
<1>t. last \in Nat /\ reminder \in Nat /\ n \in Nat
  BY <1>0
<1>d. \A i \in DOMAIN agents : i \in Nat
  <2>1. DOMAIN agents = 1..n
    BY <1>0
  <2>. HIDE DEF n
  <2>. QED  BY <1>t, <2>1
<1>j. jobs \in Seq(Job) /\ \A j \in DOMAIN jobs : jobs[j] \in Job
  BY DEF TurnInv, IInv, TypeOK
<1>k. PICK new : new = Len(jobs) + 1
  OBVIOUS
<1>1. size \in Nat
  BY <1>0, DivNat, GroupAssumption DEF TurnInv, IInv, Splitting
<1>2. /\ last' = last + size + more /\ reminder' = reminder - more
      /\ jobs' = Append(jobs, job)
  <2>1. last' = last + size + more
    BY DEF StartJob
  <2>2. reminder' = reminder - more
    <3>1. reminder' = IF reminder # 0 THEN reminder - 1 ELSE reminder
      BY DEF StartJob
    <3>. HIDE DEF n, size
    <3>. QED  BY <1>0, <3>1
  <2>3. jobs' = Append(jobs, job)
    BY DEF StartJob
  <2>. QED  BY <2>1, <2>2, <2>3
<1>3. PICK m \in Nat : reminder <= m /\ n = last + m * size + reminder
  BY <1>0 DEF TurnInv, PartsLeft
<1>4. /\ m - 1 \in Nat /\ reminder - more <= m - 1
      /\ n = last' + (m - 1) * size + (reminder - more) /\ last' <= n
  <2>. HIDE DEF n, size
  <2>1. /\ m - 1 \in Nat /\ reminder - more <= m - 1
        /\ n = (last + size + more) + (m - 1) * size + (reminder - more)
        /\ last + size + more <= n
    BY <1>0, <1>1, <1>3, OnePartLess
  <2>. HIDE DEF more
  <2>. QED  BY <1>2, <2>1
<1>5. PartsLeft'
  <2>1. pc' = "split" /\ Len(agents)' = n /\ reminder' = reminder - more
    BY <1>0, <1>2
  <2>2. /\ m - 1 \in Nat /\ reminder' <= m - 1
        /\ Len(agents)' = last' + (m - 1) * (Len(agents)' \div NJobs) + reminder'
    BY <1>4, <2>1
  <2>. QED  BY <2>2 DEF PartsLeft
<1>6. last' \in Nat /\ last <= last' /\ last' <= n
  <2>1. more \in {0, 1}
    OBVIOUS
  <2>. HIDE DEF n, size, more
  <2>. QED  BY <1>0, <1>1, <1>2, <1>4, <2>1
<1>7. job.next = last + 1 /\ job.end = last' /\ job \in Job
  <2>1. job.next = last + 1 /\ job.end = last'
    OBVIOUS
  <2>2. last + 1 \in Nat /\ last' \in Nat
    <3>. HIDE DEF n, size, more, job
    <3>. QED  BY <1>t, <1>6
  <2>. QED  BY <2>1, <2>2, NewJobType
<1>. HIDE DEF job, size, more
<1>8. /\ DOMAIN jobs = 1..Len(jobs) /\ Len(jobs) \in Nat /\ DOMAIN jobs' = 1..new
      /\ \A j \in DOMAIN jobs : jobs'[j] = jobs[j]
      /\ jobs'[new] = job /\ new \notin DOMAIN jobs
  <2>1. jobs \in Seq(Job) /\ job \in Job /\ jobs' = Append(jobs, job)
    BY <1>2, <1>7, <1>j
  <2>. QED  BY <1>k, <2>1
<1>9. \A j \in DOMAIN jobs : /\ 1 <= jobs[j].next /\ jobs[j].end <= last
                             /\ jobs[j].next \in Nat /\ jobs[j].end \in Nat
  <2>. TAKE j \in DOMAIN jobs
  <2>1. jobs[j] \in Job
    BY <1>j
  <2>2. 1 <= jobs[j].next /\ jobs[j].end <= last
    BY <1>0 DEF TurnInv, RangesInside
  <2>. QED  BY <2>1, <2>2 DEF Job
<1>10. \A j \in DOMAIN jobs' : \/ j \in DOMAIN jobs /\ jobs'[j] = jobs[j]
                               \/ j = new /\ jobs'[j] = job
  BY <1>8, <1>k
<1>11. \A j \in DOMAIN jobs' : 1 <= jobs'[j].next /\ jobs'[j].end <= last'
  <2>. TAKE j \in DOMAIN jobs'
  <2>1. CASE j \in DOMAIN jobs /\ jobs'[j] = jobs[j]
    <3>1. 1 <= jobs[j].next /\ jobs[j].end <= last /\ jobs[j].end \in Nat /\ last \in Nat
      BY <1>0, <1>9, <2>1
    <3>. QED  BY <1>6, <2>1, <3>1
  <2>2. CASE jobs'[j] = job
    <3>1. last \in Nat
      BY <1>0
    <3>. QED  BY <1>6, <1>7, <2>2, <3>1
  <2>. QED  BY <1>10, <2>1, <2>2
<1>12. \A i \in DOMAIN agents :
         /\ \A j \in DOMAIN jobs : Has(j, i)' <=> Has(j, i)
         /\ Has(new, i)' <=> (last < i /\ i <= last')
         /\ \A j \in DOMAIN jobs : Has(j, i) => i <= last
  <2>. TAKE i \in DOMAIN agents
  <2>1. i \in Nat /\ last \in Nat
    BY <1>t, <1>d
  <2>2. \A j \in DOMAIN jobs : Has(j, i)' <=> Has(j, i)
    BY <1>8 DEF Has
  <2>3. Has(new, i)' <=> i \in last + 1..last'
    <3>1. jobs'[new].next = last + 1 /\ jobs'[new].end = last'
      BY <1>7, <1>8
    <3>. QED  BY <3>1 DEF Has
  <2>4. \A j \in DOMAIN jobs : Has(j, i) => i <= last
    BY <1>9, <2>1 DEF Has
  <2>. QED  BY <1>6, <2>1, <2>2, <2>3, <2>4
<1>13. \A j, k \in DOMAIN jobs' : \A i \in DOMAIN agents : Has(j, i)' /\ Has(k, i)' => j = k
  <2>. TAKE j, k \in DOMAIN jobs'
  <2>. TAKE i \in DOMAIN agents
  <2>. HAVE Has(j, i)' /\ Has(k, i)'
  <2>0. i \in Nat /\ last \in Nat
    BY <1>t, <1>d
  <2>1. CASE j \in DOMAIN jobs /\ k \in DOMAIN jobs
    BY <1>0, <1>12, <2>1 DEF TurnInv, RangesInside
  <2>2. CASE j = new /\ k = new
    BY <2>2
  <2>3. CASE j \in DOMAIN jobs /\ k = new
    BY <1>12, <2>0, <2>3
  <2>4. CASE k \in DOMAIN jobs /\ j = new
    BY <1>12, <2>0, <2>4
  <2>. QED  BY <1>10, <2>1, <2>2, <2>3, <2>4
<1>14. RangesInside'
  <2>1. pc' = "split" /\ Len(agents)' = n /\ DOMAIN agents' = DOMAIN agents
    BY <1>0
  <2>. QED  BY <1>6, <1>11, <1>13, <2>1 DEF RangesInside
<1>15. ASSUME NEW i \in DOMAIN agents
       PROVE  (i <= last /\ ~Waits(i)) <=> (i <= last' /\ ~Waits(i)')
  <2>1. i \in Nat /\ last \in Nat /\ last' \in Nat /\ last <= last'
    BY <1>t, <1>d, <1>6
  <2>2. Waits(i)' <=> Waits(i) \/ (last < i /\ i <= last')
    <3>1. new \in DOMAIN jobs' /\ DOMAIN jobs \subseteq DOMAIN jobs'
      BY <1>8, <1>k
    <3>. QED  BY <1>10, <1>12, <1>15, <3>1 DEF Waits
  <2>. QED  BY <2>1, <2>2
<1>16. TurnCounted'
  <2>1. \A o \in Objects : Registered(o)' <=> Registered(o)
    BY <1>0 DEF Registered
  <2>. QED  BY <1>0, <1>15, <2>1 DEF TurnInv, TurnCounted
<1>. QED  BY <1>5, <1>14, <1>16

\* When everything has been split, nothing changes but the main thread's place.
LEMMA AllStartedTurns ==
  ASSUME TurnInv, AllStarted
  PROVE  RangesInside' /\ TurnCounted' /\ PartsLeft'
<1>1. pc = "split" /\ pc' = "wait" /\ last = Len(agents) /\ UNCHANGED <<agents, last, jobs, turn>>
  BY DEF AllStarted, threadVars
<1>2. \A i : (Waits(i)' <=> Waits(i)) /\ \A j : Has(j, i)' <=> Has(j, i)
  BY <1>1 DEF Waits, Has
<1>3. RangesInside'
  BY <1>1, <1>2 DEF TurnInv, RangesInside
<1>4. TurnCounted'
  BY <1>1, <1>2 DEF TurnInv, TurnCounted, Registered
<1>. QED  BY <1>1, <1>3, <1>4 DEF PartsLeft

\* The agent that a thread lets process was ahead of that thread alone.
LEMMA ProcessAgentTurns ==
  ASSUME TurnInv, NEW j \in DOMAIN jobs, ProcessAgent(j)
  PROVE  RangesInside' /\ TurnCounted' /\ PartsLeft'
<1>1. TypeOK /\ pc \in {"split", "wait"} /\ pc' = pc /\ UNCHANGED <<agents, last, reminder>>
  BY ProcessingTime DEF TurnInv, IInv, ProcessAgent
<1>2. /\ last \in Nat /\ Len(agents) \in Nat /\ DOMAIN agents = 1..Len(agents)
      /\ \A i \in DOMAIN agents : agents[i] \in Objects
  BY <1>1 DEF TypeOK
<1>3. \A k \in DOMAIN jobs : jobs[k].next \in Nat /\ jobs[k].end \in Nat
  <2>. TAKE k \in DOMAIN jobs
  <2>1. jobs[k] \in Job
    BY <1>1 DEF TypeOK
  <2>. QED  BY <2>1 DEF Job
<1>4. /\ last <= Len(agents)
      /\ \A k \in DOMAIN jobs : 1 <= jobs[k].next /\ jobs[k].end <= last
      /\ \A k, l \in DOMAIN jobs : \A i \in DOMAIN agents : Has(k, i) /\ Has(l, i) => k = l
  BY <1>1 DEF TurnInv, RangesInside
<1>5. PICK at : at = jobs[j].next
  OBVIOUS
<1>6. at \in Nat /\ 1 <= at /\ at <= last /\ at \in DOMAIN agents /\ Has(j, at)
  <2>1. at \in Nat /\ jobs[j].end \in Nat /\ at <= jobs[j].end /\ 1 <= at /\ jobs[j].end <= last
    BY <1>3, <1>4, <1>5 DEF ProcessAgent
  <2>2. Has(j, at)
    BY <1>5, <2>1 DEF Has
  <2>. QED  BY <1>2, <1>4, <2>1, <2>2
<1>7. /\ DOMAIN jobs' = DOMAIN jobs /\ \A k \in DOMAIN jobs \ {j} : jobs'[k] = jobs[k]
      /\ jobs'[j].next = at + 1 /\ jobs'[j].end = jobs[j].end
  BY <1>1, <1>5, ProcessAgentFacts
<1>8. \A i \in DOMAIN agents : \A k \in DOMAIN jobs :
        Has(k, i)' <=> Has(k, i) /\ ~(k = j /\ i = at)
  <2>. TAKE i \in DOMAIN agents
  <2>. TAKE k \in DOMAIN jobs
  <2>1. CASE k # j
    BY <1>7, <2>1 DEF Has
  <2>2. CASE k = j
    <3>1. i \in Nat /\ jobs[j].end \in Nat
      BY <1>2, <1>3
    <3>2. Has(j, i)' <=> i \in at + 1..jobs[j].end
      BY <1>7 DEF Has
    <3>3. Has(j, i) <=> i \in at..jobs[j].end
      BY <1>5 DEF Has
    <3>. QED  BY <1>6, <2>2, <3>1, <3>2, <3>3
  <2>. QED  BY <2>1, <2>2
<1>9. RangesInside'
  <2>1. \A k \in DOMAIN jobs' : 1 <= jobs'[k].next /\ jobs'[k].end <= last'
    BY <1>1, <1>4, <1>6, <1>7
  <2>2. \A k, l \in DOMAIN jobs' : \A i \in DOMAIN agents' : Has(k, i)' /\ Has(l, i)' => k = l
    BY <1>1, <1>4, <1>7, <1>8
  <2>3. pc' = "wait" => last' = Len(agents')
    BY <1>1 DEF TurnInv, RangesInside
  <2>. QED  BY <1>1, <1>4, <2>1, <2>2, <2>3 DEF RangesInside
<1>10. \A i \in DOMAIN agents : Waits(i)' <=> Waits(i) /\ i # at
  BY <1>4, <1>6, <1>7, <1>8 DEF Waits
<1>11. /\ turn \in [Objects -> Nat]
       /\ turn' = [turn EXCEPT ![agents[at]] = turn[agents[at]] + 1]
  BY <1>1, <1>5 DEF ProcessAgent, TypeOK
<1>12. \A i \in DOMAIN agents : turn[agents[i]] = IF i <= last /\ ~Waits(i) THEN 1 ELSE 0
  BY <1>1 DEF TurnInv, TurnCounted
<1>13. ASSUME NEW i \in DOMAIN agents
       PROVE  turn'[agents[i]] = IF i <= last /\ ~Waits(i)' THEN 1 ELSE 0
  <2>1. CASE i = at
    <3>1. Waits(at) /\ turn[agents[at]] = 0
      BY <1>6, <1>12 DEF Waits
    <3>. QED  BY <1>2, <1>6, <1>10, <1>11, <2>1, <3>1
  <2>2. CASE i # at
    <3>1. agents[i] # agents[at]
      BY <1>6, <2>2 DEF TurnInv, IInv, Distinct
    <3>2. turn'[agents[i]] = turn[agents[i]]
      BY <1>2, <1>6, <1>11, <3>1
    <3>. QED  BY <1>10, <1>12, <2>2, <3>2
  <2>. QED  BY <2>1, <2>2
<1>14. \A o \in Objects : ~Registered(o) => turn'[o] = 0
  BY <1>1, <1>2, <1>6, <1>11 DEF TurnInv, TurnCounted, Registered
<1>15. TurnCounted'
  BY <1>1, <1>13, <1>14 DEF TurnCounted, Registered
<1>. QED  BY <1>1, <1>9, <1>15 DEF TurnInv, PartsLeft

\* At other times nobody counts, or nothing changes.
LEMMA NextTurns == TurnInv /\ [Next]_vars => TurnInv'
<1>. SUFFICES ASSUME TurnInv, [Next]_vars PROVE TurnInv'
  OBVIOUS
<1>1. IInv' /\ ThreadsWait'
  BY NextInvariant, NextThreadsWait DEF TurnInv
<1>2. ASSUME pc' \notin {"split", "wait"} PROVE RangesInside' /\ TurnCounted' /\ PartsLeft'
  BY <1>2 DEF RangesInside, TurnCounted, PartsLeft
<1>3. CASE Sync
  BY <1>1, <1>3, SyncTurns DEF TurnInv
<1>4. CASE StartJob
  BY <1>1, <1>4, StartJobTurns DEF TurnInv
<1>5. CASE AllStarted
  BY <1>1, <1>5, AllStartedTurns DEF TurnInv
<1>6. CASE \E j \in DOMAIN jobs : ProcessAgent(j)
  BY <1>1, <1>6, ProcessAgentTurns DEF TurnInv
<1>7. CASE PushBack \/ StartMain \/ Fail \/ JobsDone \/ Commit \/ Disconnect \/ Exit \/ Destroy
  <2>1. pc' \notin {"split", "wait"}
    BY <1>7 DEF PushBack, StartMain, Fail, JobsDone, Commit, Disconnect, Exit, Destroy
  <2>. QED  BY <1>1, <1>2, <2>1 DEF TurnInv
<1>8. CASE AdoptAgent \/ RefuseAgent \/ SkipNull \/ DeleteAgent \/ NextEnvironment
  <2>1. pc' \notin {"split", "wait"}
    BY <1>8 DEF AdoptAgent, RefuseAgent, SkipNull, Adding, DeleteAgent, Deleting, NextEnvironment
  <2>. QED  BY <1>1, <1>2, <2>1 DEF TurnInv
<1>9. CASE UNCHANGED vars
  <2>1. UNCHANGED <<pc, agents, last, reminder, jobs, turn>>
    BY <1>9 DEF vars
  <2>2. \A i : (Waits(i)' <=> Waits(i)) /\ \A j : Has(j, i)' <=> Has(j, i)
    BY <2>1 DEF Waits, Has
  <2>3. RangesInside'
    BY <2>1, <2>2 DEF TurnInv, RangesInside
  <2>4. TurnCounted'
    BY <2>1, <2>2 DEF TurnInv, TurnCounted, Registered
  <2>. QED  BY <1>1, <2>1, <2>3, <2>4 DEF TurnInv, PartsLeft
<1>. QED  BY <1>3, <1>4, <1>5, <1>6, <1>7, <1>8, <1>9 DEF Next, Process

\* The group starts with no threads.
LEMMA InitTurns == Init => TurnInv
  BY InitInvariant DEF Init, TurnInv, ThreadsWait, RangesInside, TurnCounted, PartsLeft

\* When the requests of a turn are about to be applied, every agent of
\* the vector has been processed once, for every number of agents and threads:
\* process() neither skips an agent at the seam of two ranges nor splits past the
\* end, whatever part_reminder is.
THEOREM EveryAgentOnce == Spec => []EachProcessedOnce
<1>1. TurnInv => EachProcessedOnce
  <2>. SUFFICES ASSUME TurnInv, pc = "wait", AllDone
                PROVE  \A o \in Objects : turn[o] = IF Registered(o) THEN 1 ELSE 0
    BY DEF EachProcessedOnce, AllDone
  <2>1. TypeOK /\ last = Len(agents)
    BY DEF TurnInv, IInv, RangesInside
  <2>2. \A i \in DOMAIN agents : i <= last
    BY <2>1 DEF TypeOK
  <2>3. \A i \in DOMAIN agents : ~Waits(i)
    <3>1. ASSUME NEW i \in DOMAIN agents, NEW j \in DOMAIN jobs PROVE ~Has(j, i)
      <4>1. jobs[j] \in Job /\ jobs[j].next > jobs[j].end /\ i \in Nat
        BY <2>1 DEF TypeOK, AllDone
      <4>2. jobs[j].next \in Nat /\ jobs[j].end \in Nat
        BY <4>1 DEF Job
      <4>. QED  BY <4>1, <4>2 DEF Has
    <3>. QED  BY <3>1 DEF Waits
  <2>. QED  BY <2>2, <2>3 DEF TurnInv, TurnCounted, Registered
<1>2. TurnInv /\ [Next]_vars => TurnInv'
  BY NextTurns
<1>. QED  BY <1>1, <1>2, InitTurns, PTL DEF Spec

-----------------------------------------------------------------------------
(* Every instance has one owner. *)

\* Thread j has o as the i-th of its requests to add.
Asks(j, i, o) == j \in DOMAIN jobs /\ i \in DOMAIN jobs[j].add /\ jobs[j].add[i] = o

\* What the group or a request refers to is alive ...
LiveAgents == \A o \in Objects : Registered(o) => heap[o].state = "live"
LiveRequests == \A o \in Objects : \A j, i : Asks(j, i, o) => heap[o].state = "live"

\* ... what is alive belongs to one of them ...
Owned ==
  \A o \in Objects : heap[o].state = "live" => Registered(o) \/ \E j, i : Asks(j, i, o)

\* ... and to one only: whoever asks twice for an instance does so in one thread,
\* and it has no id before the first of the two requests is applied.
Twice ==
  \A o \in Objects : \A j, i, k, l :
    Asks(j, i, o) /\ Asks(k, l, o) /\ (j # k \/ i # l) =>
      j = k /\ (Id(o) = NoId \/ Registered(o))
Adopted ==
  \A o \in Objects : \A j, i : Asks(j, i, o) /\ Registered(o) => j = 1 /\ pc = "apply"

Ownership == LiveAgents /\ LiveRequests /\ Owned /\ Twice /\ Adopted
OwnInv == IInv /\ ThreadsWait /\ Ownership

\* Before and after process() nobody asks for anything: the group owns all.
LEMMA NobodyAsks ==
  ASSUME jobs = <<>>
  PROVE  /\ \A o, j, i : ~Asks(j, i, o)
         /\ LiveRequests /\ Twice /\ Adopted
         /\ Owned <=> \A o \in Objects : heap[o].state = "live" => Registered(o)
<1>1. \A o, j, i : ~Asks(j, i, o)
  BY DEF Asks
<1>. QED  BY <1>1 DEF LiveRequests, Twice, Adopted, Owned

\* The agents of the vector are the registered ones.
LEMMA RegisteredAgents ==
  ASSUME TypeOK
  PROVE  \A i \in DOMAIN agents : agents[i] \in Objects /\ Registered(agents[i])
  BY DEF TypeOK, Registered

\* push_back takes the new instance.
LEMMA PushBackOwnership == ASSUME OwnInv, PushBack PROVE Ownership'
<1>1. TypeOK /\ jobs = <<>> /\ jobs' = <<>>
  BY DEF OwnInv, IInv, ThreadsWait, PushBack, threadVars
<1>2. New \in Objects /\ heap' = [heap EXCEPT ![New] = Live(NoId)]
  BY NewUnborn DEF PushBack
<1>3. \A o \in Objects : heap'[o] = IF o = New THEN Live(NoId) ELSE heap[o]
  BY <1>1, <1>2 DEF TypeOK
<1>4. \A o \in Objects : Registered(o)' <=> Registered(o) \/ o = New
  <2>1. /\ DOMAIN agents' = 1..Len(agents) + 1 /\ DOMAIN agents = 1..Len(agents)
        /\ \A i \in DOMAIN agents : agents'[i] = agents[i]
        /\ agents'[Len(agents) + 1] = New /\ Len(agents) \in Nat
    BY <1>1, <1>2 DEF TypeOK, PushBack
  <2>2. \A i \in DOMAIN agents' : i = Len(agents) + 1 \/ i \in DOMAIN agents
    BY <2>1
  <2>3. Len(agents) + 1 \in DOMAIN agents' /\ DOMAIN agents \subseteq DOMAIN agents'
    BY <2>1
  <2>. QED  BY <2>1, <2>2, <2>3 DEF Registered
<1>5. Live(NoId).state = "live"
  BY DEF Live
<1>6. LiveAgents'
  BY <1>3, <1>4, <1>5 DEF OwnInv, Ownership, LiveAgents
<1>7. \A o \in Objects : heap'[o].state = "live" => Registered(o)'
  <2>1. \A o \in Objects : heap[o].state = "live" => Registered(o)
    BY <1>1, NobodyAsks DEF OwnInv, Ownership
  <2>. QED  BY <1>3, <1>4, <2>1
<1>8. \A o, j, i : ~Asks(j, i, o)'
  BY <1>1 DEF Asks
<1>. QED  BY <1>6, <1>7, <1>8 DEF Ownership, LiveRequests, Owned, Twice, Adopted

\* Outside process() only the destructor ends the life of anybody, of all agents.
LEMMA OutsideOwnership ==
  ASSUME OwnInv, StartMain \/ Sync \/ Fail \/ Commit \/ Disconnect \/ Exit \/ Destroy
  PROVE  Ownership'
<1>1. TypeOK /\ jobs = <<>>
  <2>1. pc \notin {"split", "wait", "apply"}
    BY DEF StartMain, Sync, Fail, Commit, Disconnect, Exit, Destroy
  <2>. QED  BY <2>1 DEF OwnInv, IInv, ThreadsWait
<1>2. \A o, j, i : ~Asks(j, i, o)'
  <2>1. CASE Sync
    <3>. DEFINE job == [next |-> 1, end |-> Len(agents), add |-> <<>>, del |-> <<>>]
    <3>1. jobs' \in {<<>>, <<job>>} /\ job.add = <<>>
      BY <1>1, <2>1 DEF Sync
    <3>. HIDE DEF job
    <3>2. \A j \in DOMAIN jobs' : jobs'[j].add = <<>>
      BY <3>1
    <3>. QED  BY <3>2 DEF Asks
  <2>2. CASE ~Sync
    <3>1. jobs' = <<>>
      BY <1>1, <2>2 DEF StartMain, Fail, Commit, Disconnect, Exit, Destroy, threadVars
    <3>. QED  BY <3>1 DEF Asks
  <2>. QED  BY <2>1, <2>2
<1>3. \A o \in Objects : heap[o].state = "live" <=> Registered(o)
  BY <1>1, NobodyAsks DEF OwnInv, Ownership, LiveAgents
<1>4. \A o \in Objects : heap'[o].state = "live" <=> Registered(o)'
  <2>1. CASE UNCHANGED <<heap, agents>>
    BY <1>3, <2>1 DEF Registered
  <2>2. CASE StartMain
    <3>1. agents' = agents
      BY <2>2 DEF StartMain
    <3>2. \A o \in Objects : heap'[o].state = "live" <=> Registered(o) \/ heap[o].state = "live"
      <4>. TAKE o \in Objects
      <4>1. CASE Registered(o)
        <5>1. \E id : heap'[o] = Live(id)
          BY <2>2, <4>1 DEF StartMain, Registered
        <5>. QED  BY <4>1, <5>1 DEF Live
      <4>2. CASE ~Registered(o)
        BY <2>2, <4>2 DEF StartMain, Registered
      <4>. QED  BY <4>1, <4>2
    <3>. QED  BY <1>3, <3>1, <3>2 DEF Registered
  <2>3. CASE Destroy
    <3>1. \A o \in Objects : ~Registered(o)'
      BY <2>3 DEF Destroy, Registered
    <3>2. \A o \in Objects : heap'[o].state # "live"
      BY <1>3, <2>3 DEF Destroy, Freed
    <3>. QED  BY <3>1, <3>2
  <2>. QED  BY <2>1, <2>2, <2>3 DEF Sync, Fail, Commit, Disconnect, Exit
<1>. QED  BY <1>2, <1>4 DEF Ownership, LiveAgents, LiveRequests, Owned, Twice, Adopted

\* A step that keeps the requests, the heap and the vector keeps the owners.
LEMMA SameOwners ==
  ASSUME OwnInv, UNCHANGED <<heap, agents>>, pc' = "apply" \/ pc # "apply",
         \A o \in Objects : \A j, i : Asks(j, i, o)' <=> Asks(j, i, o)
  PROVE  Ownership'
<1>1. \A o \in Objects : (Registered(o)' <=> Registered(o)) /\ Id(o)' = Id(o) /\ heap'[o] = heap[o]
  BY DEF Registered, Id
<1>2. LiveAgents' /\ LiveRequests' /\ Owned'
  BY <1>1 DEF OwnInv, Ownership, LiveAgents, LiveRequests, Owned
<1>3. Twice'
  BY <1>1 DEF OwnInv, Ownership, Twice
<1>4. Adopted'
  BY <1>1 DEF OwnInv, Ownership, Adopted
<1>. QED  BY <1>2, <1>3, <1>4 DEF Ownership

\* A new thread has asked for nothing yet; waiting for the threads asks nothing.
LEMMA SplitOwnership ==
  ASSUME OwnInv, StartJob \/ AllStarted \/ JobsDone
  PROVE  Ownership'
<1>1. UNCHANGED <<heap, agents>> /\ pc # "apply"
  BY DEF StartJob, AllStarted, JobsDone
<1>2. ASSUME StartJob PROVE \A o \in Objects : \A j, i : Asks(j, i, o)' <=> Asks(j, i, o)
  <2>. DEFINE job == [next |-> last + 1, end |-> last', add |-> <<>>, del |-> <<>>]
  <2>1. jobs' = Append(jobs, job) /\ job.add = <<>>
    BY <1>2 DEF StartJob
  <2>2. jobs \in Seq(Job)
    BY DEF OwnInv, IInv, TypeOK
  <2>. HIDE DEF job
  <2>3. /\ Len(jobs) \in Nat /\ DOMAIN jobs = 1..Len(jobs) /\ DOMAIN jobs' = 1..Len(jobs) + 1
        /\ jobs'[Len(jobs) + 1] = job /\ \A j \in DOMAIN jobs : jobs'[j] = jobs[j]
    BY <2>1, <2>2
  <2>4. \A j \in DOMAIN jobs' : j \in DOMAIN jobs \/ jobs'[j].add = <<>>
    BY <2>1, <2>3
  <2>5. DOMAIN jobs \subseteq DOMAIN jobs'
    BY <2>3
  <2>. QED  BY <2>3, <2>4, <2>5 DEF Asks
<1>3. ASSUME jobs' = jobs PROVE \A o \in Objects : \A j, i : Asks(j, i, o)' <=> Asks(j, i, o)
  BY <1>3 DEF Asks
<1>4. StartJob \/ jobs' = jobs
  BY DEF AllStarted, JobsDone, threadVars
<1>. QED  BY <1>1, <1>2, <1>3, <1>4, SameOwners

\* Where the request at <<j, i>> was before the first thread's first was taken.
Before(j, i) == IF j = 1 THEN i + 1 ELSE i

\* Taking the first request moves up the first thread's others and keeps the rest.
LEMMA AddDoneAsks ==
  ASSUME TypeOK, Adding, AddDone
  PROVE  /\ Asks(1, 1, Requested)
         /\ \A o, j, i : Asks(j, i, o)' => /\ Asks(j, Before(j, i), o)
                                           /\ j # 1 \/ Before(j, i) # 1
         /\ \A o, j, i, l : Asks(j, i, o)' /\ Asks(j, l, o)' /\ Before(j, i) = Before(j, l) => i = l
         /\ \A o, j, i : Asks(j, i, o) /\ (j # 1 \/ i # 1) => \E l : Asks(j, l, o)'
<1>1. /\ 1 \in DOMAIN jobs /\ DOMAIN jobs' = DOMAIN jobs
      /\ jobs[1].add \in Seq(Objects \cup {Null}) /\ jobs[1].add # <<>>
      /\ Requested = jobs[1].add[1]
      /\ jobs'[1].add = Tail(jobs[1].add)
      /\ \A j \in DOMAIN jobs \ {1} : jobs'[j] = jobs[j]
  BY AddDoneFacts
<1>. DEFINE s == jobs[1].add
            t == jobs'[1].add
<1>2. /\ Len(s) \in Nat \ {0} /\ DOMAIN s = 1..Len(s) /\ DOMAIN t = 1..Len(s) - 1
      /\ \A i \in 1..Len(s) - 1 : t[i] = s[i + 1]
  BY <1>1
<1>. HIDE DEF s, t
<1>3. \A o, i : i \in DOMAIN t /\ t[i] = o => i \in Nat /\ i + 1 \in DOMAIN s /\ s[i + 1] = o /\ i + 1 # 1
  BY <1>2
<1>4. \A o, i : i \in DOMAIN s /\ s[i] = o /\ i # 1 => i - 1 \in DOMAIN t /\ t[i - 1] = o
  <2>. TAKE o, i
  <2>. HAVE i \in DOMAIN s /\ s[i] = o /\ i # 1
  <2>1. i \in 2..Len(s)
    BY <1>2
  <2>2. i - 1 \in 1..Len(s) - 1 /\ (i - 1) + 1 = i
    BY <1>2, <2>1
  <2>. QED  BY <1>2, <2>2
<1>5. \A o, i : /\ Asks(1, i, o) <=> i \in DOMAIN s /\ s[i] = o
                /\ Asks(1, i, o)' <=> i \in DOMAIN t /\ t[i] = o
  BY <1>1 DEF Asks, s, t
<1>6. \A o, j, i : j # 1 => (Asks(j, i, o)' <=> Asks(j, i, o))
  BY <1>1 DEF Asks
<1>7. Asks(1, 1, Requested)
  BY <1>1, <1>2, <1>5 DEF s
<1>8. ASSUME NEW o, NEW j, NEW i, Asks(j, i, o)'
      PROVE  /\ Asks(j, Before(j, i), o)
             /\ j # 1 \/ Before(j, i) # 1
  BY <1>3, <1>5, <1>6, <1>8 DEF Before
<1>9. ASSUME NEW o, NEW j, NEW i, NEW l, Asks(j, i, o)', Asks(j, l, o)',
             Before(j, i) = Before(j, l)
      PROVE  i = l
  BY <1>3, <1>5, <1>9 DEF Before
<1>10. ASSUME NEW o, NEW j, NEW i, Asks(j, i, o), j # 1 \/ i # 1
       PROVE  \E l : Asks(j, l, o)'
  BY <1>4, <1>5, <1>6, <1>10
<1>. QED  BY <1>7, <1>8, <1>9, <1>10

\* Of two requests that are left, both were there before, at two places.
LEMMA TwoLeft ==
  ASSUME OwnInv, Adding, AddDone, NEW o \in Objects, NEW j, NEW i, NEW k, NEW l,
         Asks(j, i, o)', Asks(k, l, o)', j # k \/ i # l
  PROVE  j = k /\ (Id(o) = NoId \/ Registered(o))
<1>1. /\ Asks(j, Before(j, i), o) /\ Asks(k, Before(k, l), o)
      /\ j = k /\ i # l => Before(j, i) # Before(k, l)
  BY AddDoneAsks DEF OwnInv, IInv
<1>. QED  BY <1>1 DEF OwnInv, Ownership, Twice

\* The second request for an instance comes from the thread of the first.
LEMMA OneLeft ==
  ASSUME OwnInv, Adding, AddDone, NEW o \in Objects, o = Requested,
         NEW j, NEW i, Asks(j, i, o)'
  PROVE  j = 1 /\ (Id(o) = NoId \/ Registered(o))
<1>1. Asks(j, Before(j, i), o) /\ (j # 1 \/ Before(j, i) # 1) /\ Asks(1, 1, o)
  BY AddDoneAsks DEF OwnInv, IInv
<1>. QED  BY <1>1 DEF OwnInv, Ownership, Twice

\* While requests are applied, the registered agents have ids of the group.
LEMMA RegisteredIds ==
  ASSUME IInv, pc = "apply", NEW o \in Objects, Registered(o)
  PROVE  Id(o)[1] = Group /\ Id(o) # NoId
<1>1. Id(o)[1] = Group
  BY DEF IInv, IdsIncrease, Named, Registered
<1>2. NoId[1] # Group
  BY OtherIds
<1>. QED  BY <1>1, <1>2

\* The instance goes from its request to the vector.
LEMMA AdoptOwnership == ASSUME OwnInv, AdoptAgent PROVE Ownership'
<1>1. IInv /\ TypeOK /\ Adding /\ AddDone /\ pc = "apply" /\ pc' = "apply"
  BY DEF OwnInv, IInv, AdoptAgent, Adding
<1>2. Requested \in Objects /\ Id(Requested) = NoId
  BY <1>1, RequestedType DEF AdoptAgent
<1>3. ~Registered(Requested)
  BY <1>1, <1>2, RegisteredIds
<1>4. PICK new : new = Requested
  OBVIOUS
<1>5. /\ heap' = [heap EXCEPT ![new] = Live(AgentId(counter'))]
      /\ agents' = Append(agents, new)
  BY <1>4 DEF AdoptAgent
<1>6. /\ \A o \in Objects \ {new} : heap'[o] = heap[o] /\ Id(o)' = Id(o)
      /\ heap'[new].state = "live"
  BY <1>1, <1>2, <1>4, <1>5 DEF TypeOK, Live, Id
<1>7. \A o \in Objects : Registered(o)' <=> Registered(o) \/ o = new
  <2>1. /\ DOMAIN agents' = 1..Len(agents) + 1 /\ DOMAIN agents = 1..Len(agents)
        /\ \A i \in DOMAIN agents : agents'[i] = agents[i]
        /\ agents'[Len(agents) + 1] = new /\ Len(agents) \in Nat
    BY <1>1, <1>2, <1>4, <1>5 DEF TypeOK
  <2>2. \A i \in DOMAIN agents' : i = Len(agents) + 1 \/ i \in DOMAIN agents
    BY <2>1
  <2>3. Len(agents) + 1 \in DOMAIN agents' /\ DOMAIN agents \subseteq DOMAIN agents'
    BY <2>1
  <2>. QED  BY <2>1, <2>2, <2>3 DEF Registered
<1>8. \A o, j, i : Asks(j, i, o)' => Asks(j, Before(j, i), o)
  BY <1>1, AddDoneAsks
<1>9. LiveAgents' /\ LiveRequests'
  BY <1>6, <1>7, <1>8 DEF OwnInv, Ownership, LiveAgents, LiveRequests
<1>10. Owned'
  <2>1. ASSUME NEW o \in Objects, o # new, heap[o].state = "live"
        PROVE  Registered(o) \/ \E j, i : Asks(j, i, o)'
    <3>1. Asks(1, 1, new) /\ ~Asks(1, 1, o)
      BY <1>1, <1>4, <2>1, AddDoneAsks DEF Asks
    <3>. QED  BY <1>1, <2>1, <3>1, AddDoneAsks DEF OwnInv, Ownership, Owned
  <2>. QED  BY <1>6, <1>7, <2>1 DEF Owned
<1>11. Twice'
  <2>1. ASSUME NEW o \in Objects, NEW j, NEW i, NEW k, NEW l,
               Asks(j, i, o)', Asks(k, l, o)', j # k \/ i # l
        PROVE  j = k /\ (Id(o)' = NoId \/ Registered(o)')
    <3>1. j = k /\ (Id(o) = NoId \/ Registered(o))
      BY <1>1, <2>1, TwoLeft
    <3>. QED  BY <1>6, <1>7, <3>1
  <2>. QED  BY <2>1 DEF Twice
<1>12. Adopted'
  <2>1. ASSUME NEW o \in Objects, NEW j, NEW i, Asks(j, i, o)', Registered(o)'
        PROVE  j = 1
    <3>1. CASE o = new
      BY <1>1, <1>2, <1>4, <2>1, <3>1, OneLeft
    <3>2. CASE o # new
      BY <1>7, <1>8, <2>1, <3>2 DEF OwnInv, Ownership, Adopted
    <3>. QED  BY <3>1, <3>2
  <2>. QED  BY <1>1, <2>1 DEF Adopted
<1>. QED  BY <1>9, <1>10, <1>11, <1>12 DEF Ownership

\* A refused instance is nobody's but the request's, unless it is registered.
LEMMA RefuseOwnership == ASSUME OwnInv, RefuseAgent \/ SkipNull PROVE Ownership'
<1>1. /\ IInv /\ TypeOK /\ Adding /\ AddDone /\ pc = "apply" /\ pc' = "apply"
      /\ agents' = agents
  BY DEF OwnInv, IInv, RefuseAgent, SkipNull, Adding
<1>2. \A o \in Objects : Registered(o)' <=> Registered(o)
  BY <1>1 DEF Registered
<1>3. \A o, j, i : Asks(j, i, o)' => Asks(j, Before(j, i), o)
  BY <1>1, AddDoneAsks
<1>4. Adopted'
  BY <1>1, <1>2, <1>3 DEF OwnInv, Ownership, Adopted
<1>5. CASE heap' = heap /\ (Requested \in Objects => Registered(Requested))
  <2>1. LiveAgents' /\ LiveRequests'
    BY <1>2, <1>3, <1>5 DEF OwnInv, Ownership, LiveAgents, LiveRequests
  <2>2. Owned'
    <3>1. ASSUME NEW o \in Objects, ~Registered(o), heap[o].state = "live"
          PROVE  \E j, i : Asks(j, i, o)'
      <4>1. Asks(1, 1, Requested) /\ ~Asks(1, 1, o)
        BY <1>1, <1>5, <3>1, AddDoneAsks DEF Asks
      <4>. QED  BY <1>1, <3>1, <4>1, AddDoneAsks DEF OwnInv, Ownership, Owned
    <3>. QED  BY <1>2, <1>5, <3>1 DEF Owned
  <2>3. Twice'
    <3>1. \A o \in Objects : Id(o)' = Id(o)
      BY <1>5 DEF Id
    <3>. QED  BY <1>1, <1>2, <3>1, TwoLeft DEF Twice
  <2>. QED  BY <1>4, <2>1, <2>2, <2>3 DEF Ownership
<1>6. CASE /\ Requested \in Objects /\ Id(Requested) # NoId /\ ~Registered(Requested)
           /\ heap' = [heap EXCEPT ![Requested] = Freed(Id(Requested))]
  <2>1. PICK old : old = Requested
    OBVIOUS
  <2>2. /\ \A o \in Objects \ {old} : heap'[o] = heap[o] /\ Id(o)' = Id(o)
        /\ heap'[old].state # "live"
    BY <1>1, <1>6, <2>1 DEF TypeOK, Freed, Id
  <2>3. \A j, i : ~Asks(j, i, old)'
    BY <1>1, <1>6, <2>1, OneLeft
  <2>4. ~Registered(old) /\ old \in Objects
    BY <1>6, <2>1
  <2>5. LiveAgents' /\ LiveRequests'
    BY <1>2, <1>3, <2>2, <2>3, <2>4 DEF OwnInv, Ownership, LiveAgents, LiveRequests
  <2>6. Owned'
    <3>1. ASSUME NEW o \in Objects, o # old, heap[o].state = "live"
          PROVE  Registered(o) \/ \E j, i : Asks(j, i, o)'
      <4>1. Asks(1, 1, old) /\ ~Asks(1, 1, o)
        BY <1>1, <2>1, <3>1, AddDoneAsks DEF Asks
      <4>. QED  BY <1>1, <3>1, <4>1, AddDoneAsks DEF OwnInv, Ownership, Owned
    <3>. QED  BY <1>2, <2>2, <3>1 DEF Owned
  <2>7. Twice'
    <3>1. ASSUME NEW o \in Objects, NEW j, NEW i, NEW k, NEW l,
                 Asks(j, i, o)', Asks(k, l, o)', j # k \/ i # l
          PROVE  j = k /\ (Id(o)' = NoId \/ Registered(o)')
      BY <1>1, <1>2, <2>2, <2>3, <3>1, TwoLeft
    <3>. QED  BY <3>1 DEF Twice
  <2>. QED  BY <1>4, <2>5, <2>6, <2>7 DEF Ownership
<1>7. CASE RefuseAgent
  <2>1. Requested \in Objects /\ Id(Requested) # NoId
    BY <1>1, <1>7, RequestedType DEF RefuseAgent
  <2>2. Registered(Requested) => Id(Requested)[1] = Group
    BY <1>1, <2>1, RegisteredIds
  <2>. QED  BY <1>5, <1>6, <1>7, <2>1, <2>2 DEF RefuseAgent
<1>8. CASE SkipNull
  BY <1>5, <1>8, GroupAssumption DEF SkipNull
<1>. QED  BY <1>7, <1>8

\* The doomed agent is in no request: the thread's requests to add are done, and
\* the other threads cannot have asked for a registered agent.
LEMMA DeleteOwnership == ASSUME OwnInv, DeleteAgent PROVE Ownership'
<1>1. IInv /\ TypeOK /\ pc = "apply" /\ pc' = "apply"
  BY DEF OwnInv, IInv, DeleteAgent, Deleting
<1>2. \A o, j, i : Asks(j, i, o)' <=> Asks(j, i, o)
  BY <1>1, DeleteDoneFacts DEF Asks
<1>3. CASE UNCHANGED <<agents, heap>>
  BY <1>1, <1>2, <1>3, SameOwners
<1>4. CASE \E i \in DOMAIN agents :
             /\ agents' = SubSeq(agents, 1, i - 1) \o SubSeq(agents, i + 1, Len(agents))
             /\ heap' = [heap EXCEPT ![agents[i]] = Freed(Doomed)]
  <2>1. PICK at \in DOMAIN agents :
          /\ agents' = SubSeq(agents, 1, at - 1) \o SubSeq(agents, at + 1, Len(agents))
          /\ heap' = [heap EXCEPT ![agents[at]] = Freed(Doomed)]
    BY <1>4
  <2>2. PICK old : old = agents[at]
    OBVIOUS
  <2>3. old \in Objects /\ Registered(old)
    BY <1>1, <2>2, RegisteredAgents
  <2>4. /\ \A o \in Objects \ {old} : heap'[o] = heap[o] /\ Id(o)' = Id(o)
        /\ heap'[old].state # "live"
    BY <1>1, <2>1, <2>2, <2>3 DEF TypeOK, Freed, Id
  <2>5. \A o \in Objects : Registered(o)' <=> Registered(o) /\ o # old
    <3>1. agents \in Seq(Objects) /\ Distinct
      BY <1>1 DEF IInv, TypeOK
    <3>2. ASSUME NEW o \in Objects, Registered(o), o # old PROVE Registered(o)'
      <4>1. PICK k \in DOMAIN agents : agents[k] = o
        BY <3>2 DEF Registered
      <4>2. \E l \in DOMAIN agents' : agents'[l] = agents[k]
        BY <2>1, <2>2, <3>1, <3>2, <4>1, OthersStay
      <4>. QED  BY <4>1, <4>2 DEF Registered
    <3>3. /\ DOMAIN agents' = 1..Len(agents) - 1 /\ DOMAIN agents = 1..Len(agents)
          /\ at \in Nat /\ Len(agents) \in Nat
          /\ \A m \in DOMAIN agents' : agents'[m] = IF m < at THEN agents[m] ELSE agents[m + 1]
      <4>1. DOMAIN agents = 1..Len(agents) /\ at \in Nat /\ Len(agents) \in Nat
        BY <3>1
      <4>2. /\ DOMAIN agents' = 1..Len(agents) - 1
            /\ \A m \in DOMAIN agents' :
                 agents'[m] = IF m < at THEN agents[m] ELSE agents[m + 1]
        BY <2>1, <3>1, RemoveAt
      <4>. QED  BY <4>1, <4>2
    <3>4. ASSUME NEW m \in DOMAIN agents'
          PROVE  \E k \in DOMAIN agents : agents'[m] = agents[k] /\ k # at
      <4>1. CASE m < at
        BY <3>3, <4>1
      <4>2. CASE ~(m < at)
        <5>1. m + 1 \in DOMAIN agents /\ m + 1 # at
          BY <3>3, <4>2
        <5>. QED  BY <3>3, <4>2, <5>1
      <4>. QED  BY <4>1, <4>2
    <3>5. ASSUME NEW o \in Objects, Registered(o)' PROVE Registered(o) /\ o # old
      BY <2>2, <3>1, <3>4, <3>5 DEF Registered, Distinct
    <3>. QED  BY <3>2, <3>5
  <2>6. \A o \in Objects : \A j, i : Asks(j, i, o) => ~Registered(o)
    BY <1>1, DeleteDoneFacts DEF OwnInv, Ownership, Adopted, Asks
  <2>7. LiveAgents' /\ LiveRequests'
    BY <1>2, <2>3, <2>4, <2>5, <2>6 DEF OwnInv, Ownership, LiveAgents, LiveRequests
  <2>8. Owned'
    BY <1>2, <2>4, <2>5 DEF OwnInv, Ownership, Owned
  <2>9. Twice'
    BY <1>2, <2>3, <2>4, <2>6 DEF OwnInv, Ownership, Twice
  <2>10. Adopted'
    BY <1>2, <2>5, <2>6 DEF Adopted
  <2>. QED  BY <2>7, <2>8, <2>9, <2>10 DEF Ownership
<1>. QED  BY <1>1, <1>3, <1>4, DeletedAgent

\* An Environment is dropped when nothing is left in it.
LEMMA NextEnvironmentOwnership == ASSUME OwnInv, NextEnvironment PROVE Ownership'
<1>1. /\ TypeOK /\ pc = "apply" /\ UNCHANGED <<heap, agents>>
  BY DEF OwnInv, IInv, NextEnvironment
<1>2. \A o \in Objects : (Registered(o)' <=> Registered(o)) /\ Id(o)' = Id(o) /\ heap'[o] = heap[o]
  BY <1>1 DEF Registered, Id
<1>3. CASE jobs = <<>> /\ jobs' = jobs
  <2>1. \A o, j, i : ~Asks(j, i, o) /\ ~Asks(j, i, o)'
    BY <1>3 DEF Asks
  <2>. QED  BY <1>2, <2>1 DEF OwnInv, Ownership, LiveAgents, LiveRequests, Owned, Twice, Adopted
<1>4. CASE /\ pc' = pc /\ 1 \in DOMAIN jobs /\ jobs[1].add = <<>>
           /\ \A j \in DOMAIN jobs' : j + 1 \in DOMAIN jobs \ {1} /\ jobs'[j] = jobs[j + 1]
           /\ \A j \in DOMAIN jobs \ {1} : j - 1 \in DOMAIN jobs' /\ jobs'[j - 1] = jobs[j]
  <2>1. \A o, j, i : Asks(j, i, o)' => Asks(j + 1, i, o) /\ j + 1 # 1
    BY <1>4 DEF Asks
  <2>2. \A o, j, i : Asks(j, i, o) => Asks(j - 1, i, o)'
    BY <1>4 DEF Asks
  <2>3. \A o, j, i : Asks(j, i, o)' => j \in Nat
    <3>1. jobs' \in Seq(Job)
      BY NextInvariant DEF OwnInv, IInv, TypeOK, Next, Process
    <3>2. \A j \in DOMAIN jobs' : j \in Nat
      BY <3>1
    <3>. QED  BY <3>2 DEF Asks
  <2>4. LiveAgents' /\ LiveRequests'
    BY <1>2, <2>1 DEF OwnInv, Ownership, LiveAgents, LiveRequests
  <2>5. Owned'
    BY <1>2, <2>2 DEF OwnInv, Ownership, Owned
  <2>6. Twice'
    <3>1. ASSUME NEW o \in Objects, NEW j, NEW i, NEW k, NEW l,
                 Asks(j, i, o)', Asks(k, l, o)', j # k \/ i # l
          PROVE  j = k /\ (Id(o)' = NoId \/ Registered(o)')
      <4>1. j \in Nat /\ k \in Nat
        BY <2>3, <3>1
      <4>2. j + 1 = k + 1 => j = k
        BY <4>1
      <4>3. j + 1 = k + 1 /\ (Id(o) = NoId \/ Registered(o))
        BY <2>1, <3>1, <4>2 DEF OwnInv, Ownership, Twice
      <4>. QED  BY <1>2, <4>2, <4>3
    <3>. QED  BY <3>1 DEF Twice
  <2>7. Adopted'
    BY <1>2, <2>1 DEF OwnInv, Ownership, Adopted
  <2>. QED  BY <2>4, <2>5, <2>6, <2>7 DEF Ownership
<1>. QED  BY <1>1, <1>3, <1>4, NextEnvironmentFacts

\* An agent hands over what it has just made; only without an id twice.
LEMMA ProcessAgentOwnership ==
  ASSUME OwnInv, NEW at \in DOMAIN jobs, ProcessAgent(at)
  PROVE  Ownership'
<1>1. TypeOK /\ IInv /\ pc # "apply" /\ agents' = agents
  BY ProcessingTime DEF OwnInv, IInv, ProcessAgent
<1>2. /\ DOMAIN jobs' = DOMAIN jobs
      /\ \A k \in DOMAIN jobs \ {at} : jobs'[k] = jobs[k]
      /\ \E id \in MadeIds : \E add \in MayAdd(id) :
           /\ jobs'[at].add = jobs[at].add \o add
           /\ heap' = IF add \in {<<>>, <<Null>>} THEN heap
                      ELSE [heap EXCEPT ![New] = Live(id)]
  BY <1>1, ProcessAgentFacts
<1>3. PICK id \in MadeIds : \E add \in MayAdd(id) :
        /\ jobs'[at].add = jobs[at].add \o add
        /\ heap' = IF add \in {<<>>, <<Null>>} THEN heap ELSE [heap EXCEPT ![New] = Live(id)]
  BY <1>2
<1>4. PICK add \in MayAdd(id) :
        /\ jobs'[at].add = jobs[at].add \o add
        /\ heap' = IF add \in {<<>>, <<Null>>} THEN heap ELSE [heap EXCEPT ![New] = Live(id)]
  BY <1>3
<1>5. PICK new : new = New
  OBVIOUS
<1>. DEFINE s == jobs[at].add
            t == jobs'[at].add
            made == add \notin {<<>>, <<Null>>}
<1>6. s \in Seq(Objects \cup {Null})
  <2>1. jobs[at] \in Job
    BY <1>1 DEF TypeOK
  <2>. QED  BY <2>1 DEF Job
<1>7. \/ ~made /\ (add = <<>> \/ add = <<Null>>)
      \/ made /\ Unused # {} /\ (add = <<new>> \/ (add = <<new, new>> /\ id = NoId))
  BY <1>4, <1>5 DEF MayAdd
<1>8. made => new \in Objects /\ heap[new].state = "unborn"
  BY <1>5, <1>7, NewUnborn
<1>9. /\ \A i : i \in DOMAIN s => i \in DOMAIN t /\ t[i] = s[i]
      /\ \A i \in DOMAIN t \ DOMAIN s : t[i] \in {Null, new} /\ (t[i] = new => made \/ new = Null)
      /\ made => \E i \in DOMAIN t : t[i] = new
      /\ add = <<new>> => \A i, l \in DOMAIN t \ DOMAIN s : i = l
  <2>1. t = s \o add
    BY <1>4
  <2>2. add \in Seq(Objects \cup {Null}) /\ Len(add) \in Nat /\ DOMAIN add = 1..Len(add)
    <3>1. add = <<>> \/ \E x \in Objects \cup {Null} : add = <<x>> \/ add = <<x, x>>
      BY <1>7, <1>8
    <3>2. add \in Seq(Objects \cup {Null})
      BY <3>1, ShortSeqs
    <3>. QED  BY <3>2
  <2>3. /\ \A i \in DOMAIN add : add[i] \in {Null, new} /\ (add[i] = new => made \/ new = Null)
        /\ made => 1 \in DOMAIN add /\ add[1] = new
        /\ add = <<new>> => Len(add) = 1
    BY <1>7
  <2>. HIDE DEF s, t, made
  <2>4. /\ Len(s) \in Nat /\ DOMAIN s = 1..Len(s) /\ DOMAIN t = 1..Len(s) + Len(add)
        /\ \A i \in 1..Len(s) : t[i] = s[i]
        /\ \A i \in 1..Len(add) : t[Len(s) + i] = add[i]
    BY <1>6, <2>1, <2>2 DEF s
  <2>5. \A i \in DOMAIN t \ DOMAIN s : i - Len(s) \in DOMAIN add /\ t[i] = add[i - Len(s)]
    <3>. TAKE i \in DOMAIN t \ DOMAIN s
    <3>1. i - Len(s) \in 1..Len(add) /\ Len(s) + (i - Len(s)) = i
      BY <2>2, <2>4
    <3>. QED  BY <2>2, <2>4, <3>1
  <2>6. made => Len(s) + 1 \in DOMAIN t /\ t[Len(s) + 1] = new
    BY <2>2, <2>3, <2>4
  <2>7. add = <<new>> => \A i, l \in DOMAIN t \ DOMAIN s : i = l
    BY <2>2, <2>3, <2>4
  <2>8. \A i : i \in DOMAIN s => i \in DOMAIN t /\ t[i] = s[i]
    BY <2>2, <2>4
  <2>. QED  BY <2>3, <2>5, <2>6, <2>7, <2>8
<1>10. \A o \in Objects : Registered(o)' <=> Registered(o)
  BY <1>1 DEF Registered
<1>11. \A o \in Objects : ~(made /\ o = new) => heap'[o] = heap[o] /\ Id(o)' = Id(o)
  BY <1>1, <1>4, <1>5, <1>8 DEF TypeOK, Id
<1>12. made => heap'[new].state = "live" /\ Id(new)' = id
  BY <1>1, <1>4, <1>5, <1>8 DEF TypeOK, Live, Id
<1>. HIDE DEF made
<1>13. made => ~Registered(new) /\ \A j, i : ~Asks(j, i, new)
  BY <1>8 DEF OwnInv, Ownership, LiveAgents, LiveRequests
<1>14. \A o \in Objects : \A j, i :
         Asks(j, i, o)' <=> Asks(j, i, o) \/ (j = at /\ i \in DOMAIN t \ DOMAIN s /\ t[i] = o)
  <2>1. \A o, j, i : j # at => (Asks(j, i, o)' <=> Asks(j, i, o))
    BY <1>2 DEF Asks
  <2>2. \A o, i : /\ Asks(at, i, o) <=> i \in DOMAIN s /\ s[i] = o
                  /\ Asks(at, i, o)' <=> i \in DOMAIN t /\ t[i] = o
    BY <1>2 DEF Asks
  <2>. HIDE DEF s, t
  <2>. QED  BY <1>9, <2>1, <2>2
<1>. HIDE DEF s, t
<1>15. \A o \in Objects : \A j, i :
         Asks(j, i, o)' => Asks(j, i, o) \/ (made /\ o = new /\ j = at /\ i \in DOMAIN t \ DOMAIN s)
  BY <1>9, <1>14, GroupAssumption
<1>16. LiveAgents'
  BY <1>10, <1>11, <1>12 DEF OwnInv, Ownership, LiveAgents
<1>17. LiveRequests'
  BY <1>11, <1>12, <1>15 DEF OwnInv, Ownership, LiveRequests
<1>18. Owned'
  <2>1. made => \E i : Asks(at, i, new)'
    <3>1. ASSUME made PROVE \E i : Asks(at, i, new)'
      <4>1. PICK i \in DOMAIN t : t[i] = new
        BY <1>9, <3>1
      <4>2. Asks(at, i, new)'
        BY <1>2, <4>1 DEF Asks, t
      <4>. QED  BY <4>2
    <3>. QED  BY <3>1
  <2>. QED  BY <1>10, <1>11, <1>14, <2>1 DEF OwnInv, Ownership, Owned
<1>19. Twice'
  <2>1. ASSUME NEW o \in Objects, NEW j, NEW i, NEW k, NEW l,
               Asks(j, i, o)', Asks(k, l, o)', j # k \/ i # l
        PROVE  j = k /\ (Id(o)' = NoId \/ Registered(o)')
    <3>1. CASE made /\ o = new
      <4>1. j = at /\ k = at /\ i \in DOMAIN t \ DOMAIN s /\ l \in DOMAIN t \ DOMAIN s
        BY <1>13, <1>15, <2>1, <3>1
      <4>2. add # <<new>>
        BY <1>9, <2>1, <4>1
      <4>. QED  BY <1>7, <1>12, <3>1, <4>1, <4>2
    <3>2. CASE ~(made /\ o = new)
      <4>1. Asks(j, i, o) /\ Asks(k, l, o)
        BY <1>15, <2>1, <3>2
      <4>. QED  BY <1>10, <1>11, <2>1, <3>2, <4>1 DEF OwnInv, Ownership, Twice
    <3>. QED  BY <3>1, <3>2
  <2>. QED  BY <2>1 DEF Twice
<1>20. Adopted'
  BY <1>1, <1>10, <1>13, <1>15 DEF OwnInv, Ownership, Adopted
<1>. QED  BY <1>16, <1>17, <1>18, <1>19, <1>20 DEF Ownership

\* Every step keeps the owners.
LEMMA NextOwnership == OwnInv /\ [Next]_vars => OwnInv'
<1>. SUFFICES ASSUME OwnInv, [Next]_vars PROVE OwnInv'
  OBVIOUS
<1>1. IInv' /\ ThreadsWait'
  BY NextInvariant, NextThreadsWait DEF OwnInv
<1>2. CASE UNCHANGED vars
  <2>1. UNCHANGED <<heap, agents, pc, jobs>>
    BY <1>2 DEF vars
  <2>2. \A o, j, i : Asks(j, i, o)' <=> Asks(j, i, o)
    BY <2>1 DEF Asks
  <2>3. Ownership'
    BY <2>1, <2>2, SameOwners
  <2>. QED  BY <1>1, <2>3 DEF OwnInv
<1>3. CASE PushBack
  BY <1>1, <1>3, PushBackOwnership DEF OwnInv
<1>4. CASE StartMain \/ Sync \/ Fail \/ Commit \/ Disconnect \/ Exit \/ Destroy
  BY <1>1, <1>4, OutsideOwnership DEF OwnInv
<1>5. CASE StartJob \/ AllStarted \/ JobsDone
  BY <1>1, <1>5, SplitOwnership DEF OwnInv
<1>6. CASE \E j \in DOMAIN jobs : ProcessAgent(j)
  BY <1>1, <1>6, ProcessAgentOwnership DEF OwnInv
<1>7. CASE AdoptAgent
  BY <1>1, <1>7, AdoptOwnership DEF OwnInv
<1>8. CASE RefuseAgent \/ SkipNull
  BY <1>1, <1>8, RefuseOwnership DEF OwnInv
<1>9. CASE DeleteAgent
  BY <1>1, <1>9, DeleteOwnership DEF OwnInv
<1>10. CASE NextEnvironment
  BY <1>1, <1>10, NextEnvironmentOwnership DEF OwnInv
<1>. QED  BY <1>2, <1>3, <1>4, <1>5, <1>6, <1>7, <1>8, <1>9, <1>10 DEF Next, Process

\* At first nothing is alive.
LEMMA InitOwnership == Init => OwnInv
<1>. SUFFICES ASSUME Init PROVE OwnInv
  OBVIOUS
<1>1. IInv /\ ThreadsWait /\ jobs = <<>>
  BY InitInvariant DEF Init, ThreadsWait
<1>2. (\A o \in Objects : heap[o].state # "live") /\ \A o : ~Registered(o)
  BY DEF Init, Unborn, Registered
<1>. QED  BY <1>1, <1>2, NobodyAsks DEF OwnInv, Ownership, LiveAgents

\* The owners are an invariant.
LEMMA OwnersInvariant == Spec => []OwnInv
  BY InitOwnership, NextOwnership, PTL DEF Spec

\* Nothing in the vector and nothing that is still to be added has been
\* freed, whatever the agents of all threads asked for and in whatever order it is
\* applied: no instance is deleted twice or used after its deletion.
THEOREM NothingDangles == Spec => []NoDangling
<1>1. OwnInv => NoDangling
  <2>. SUFFICES ASSUME OwnInv PROVE NoDangling
    OBVIOUS
  <2>1. TypeOK
    BY DEF OwnInv, IInv
  <2>2. \A i \in DOMAIN agents : heap[agents[i]].state = "live"
    BY <2>1, RegisteredAgents DEF OwnInv, Ownership, LiveAgents
  <2>3. ASSUME NEW j \in DOMAIN jobs, NEW i \in DOMAIN jobs[j].add, jobs[j].add[i] # Null
        PROVE  heap[jobs[j].add[i]].state = "live"
    <3>1. jobs[j] \in Job
      BY <2>1 DEF TypeOK
    <3>2. jobs[j].add \in Seq(Objects \cup {Null})
      BY <3>1 DEF Job
    <3>3. jobs[j].add[i] \in Objects /\ Asks(j, i, jobs[j].add[i])
      BY <2>3, <3>2 DEF Asks
    <3>. QED  BY <3>3 DEF OwnInv, Ownership, LiveRequests
  <2>. QED  BY <2>2, <2>3 DEF NoDangling
<1>. QED  BY <1>1, OwnersInvariant, PTL

\* Between the turns exactly the agents of the vector are alive, and none
\* when the group is gone: whatever was handed over has been adopted or deleted.
THEOREM NothingLeaks == Spec => []NoLeak
<1>1. OwnInv => NoLeak
  <2>. SUFFICES ASSUME OwnInv, pc \in {"first_commit", "commit", "loop", "disconnect", "gone"}
                PROVE  \A o \in Objects : heap[o].state = "live" <=> Registered(o)
    BY DEF NoLeak
  <2>1. jobs = <<>>
    BY DEF OwnInv, ThreadsWait
  <2>. QED  BY <2>1, NobodyAsks DEF OwnInv, Ownership, LiveAgents
<1>. QED  BY <1>1, OwnersInvariant, PTL

=============================================================================
