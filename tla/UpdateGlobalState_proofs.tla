----------------------- MODULE UpdateGlobalState_proofs -----------------------
(***************************************************************************)
(* What update_global_state computes, for every map, every group and every *)
(* commit: the loop's invariant and what it leaves when the loop ends.     *)
(***************************************************************************)
EXTENDS UpdateGlobalState, TLAPS, WellFoundedInduction

-----------------------------------------------------------------------------
(* The order of the ids is a strict total order with least elements.       *)

\* Less is irreflexive, transitive and total.
LEMMA LessStrictOrder ==
  /\ \A a \in IdType : ~Less(a, a)
  /\ \A a, b, c \in IdType : Less(a, b) /\ Less(b, c) => Less(a, c)
  /\ \A a, b \in IdType : Less(a, b) \/ a = b \/ Less(b, a)
  BY DEF IdType, Less

\* Every nonempty set of ids has a least one: what makes lower_bound defined.
LEMMA LeastId ==
  ASSUME NEW S \in SUBSET IdType, S # {}
  PROVE  \E a \in S : \A b \in S : Leq(a, b)
<1> DEFINE N == OpToRel(<, Nat)
           R == LexPairOrdering(N, N, Nat, Nat)
<1>1. IsWellFoundedOn(R, Nat \X Nat)
  BY NatLessThanWellFounded, WFLexPairOrdering
<1>2. PICK a \in S : \A b \in S : <<b, a>> \notin R
  <2> HIDE DEF R
  <2>1. S \subseteq Nat \X Nat
    BY DEF IdType
  <2> QED BY <1>1, <2>1, WFMin
<1>3. \A b \in IdType : Less(b, a) => <<b, a>> \in R
  BY DEF IdType, Less, LexPairOrdering, OpToRel
<1> QED BY <1>2, <1>3, LessStrictOrder DEF Leq

\* What an iterator at the first key of a set is.
LEMMA FirstOfFacts ==
  ASSUME NEW S \in SUBSET IdType
  PROVE  /\ FirstOf(S) = End <=> S = {}
         /\ S # {} => FirstOf(S) \in S
         /\ \A b \in S : Leq(FirstOf(S), b)
<1>1. End \notin IdType
  BY DEF End, IdType
<1>2. CASE S = {}
  BY <1>2 DEF FirstOf
<1>3. CASE S # {}
  BY <1>1, <1>3, LeastId DEF FirstOf
<1> QED BY <1>2, <1>3

\* The masked id comes before every id of its group and after the groups below.
LEMMA MaskFacts ==
  ASSUME NEW a \in IdType
  PROVE  /\ GroupMask(a) \in IdType
         /\ \A b \in IdType : b[1] = a[1] => ~Less(b, GroupMask(a))
         /\ \A b \in IdType : b[1] < a[1] => Less(b, GroupMask(a))
         /\ \A b \in IdType : Less(b, GroupMask(a)) => b[1] < a[1]
  BY DEF GroupMask, IdType, Less

-----------------------------------------------------------------------------
(* Types. *)

\* Writing an entry and erasing entries gives a map again.
LEMMA PutDropType ==
  /\ \A m \in Maps, id \in Ids, v \in Vals : Put(m, id, v) \in Maps
  /\ \A m \in Maps : \A S : Drop(m, S) \in Maps
<1>1. ASSUME NEW m \in Maps, NEW id \in Ids, NEW v \in Vals
      PROVE  Put(m, id, v) \in [DOMAIN m \cup {id} -> Vals]
  BY DEF Maps, Put
<1>2. ASSUME NEW m \in Maps, NEW S
      PROVE  Drop(m, S) \in [DOMAIN m \ S -> Vals]
  BY DEF Maps, Drop
<1>3. \A m \in Maps : DOMAIN m \in SUBSET Ids
  BY DEF Maps
<1>4. ASSUME NEW K \in SUBSET Ids, NEW m \in [K -> Vals]
      PROVE  m \in Maps
  BY DEF Maps
<1>5. ASSUME NEW m \in Maps, NEW id \in Ids, NEW v \in Vals
      PROVE  Put(m, id, v) \in Maps
  BY <1>1, <1>3, <1>4
<1>6. ASSUME NEW m \in Maps, NEW S
      PROVE  Drop(m, S) \in Maps
  BY <1>2, <1>3, <1>4
<1> QED BY <1>5, <1>6

\* The variables keep their types: TypeOK is an invariant.
THEOREM TypeCorrect == Spec => []TypeOK
<1>1. Init => TypeOK
  <2> SUFFICES ASSUME Init PROVE TypeOK
    OBVIOUS
  <2>1. agents \in Seq(Interface)
    BY MaxCommitAssumption DEF Init, Commits
  <2> QED BY <2>1 DEF Init, TypeOK, Maps
<1>2. TypeOK /\ [Next]_vars => TypeOK'
  <2> SUFFICES ASSUME TypeOK, [Next]_vars PROVE TypeOK'
    OBVIOUS
  <2> USE DEF TypeOK
  <2>1. \A i \in DOMAIN agents : agents[i].id \in Ids /\ agents[i].val \in Vals
    <3>1. \A i \in DOMAIN agents : agents[i] \in Interface
      OBVIOUS
    <3> QED BY <3>1 DEF Interface
  <2>2. \A S \in SUBSET Ids : FirstOf(S) \in Ids \cup {End}
    BY FirstOfFacts, IdsAssumption
  <2>3. DOMAIN state \in SUBSET Ids
    BY DEF Maps
  <2>4. \A k : NextAfter(DOMAIN state, k) \in Ids \cup {End}
    BY <2>2, <2>3 DEF NextAfter
  <2>5. \A k : LowerBound(DOMAIN state, k) \in Ids \cup {End}
    BY <2>2, <2>3 DEF LowerBound
  <2>6. \A i \in DOMAIN agents : Insert(agents[i]) \in Maps
    BY <2>1, PutDropType DEF Insert
  <2>7. \A i \in DOMAIN agents : i + 1 \in 1..Len(agents) + 1
    OBVIOUS
  <2>8. CASE ReturnEmpty
    BY <2>8 DEF ReturnEmpty
  <2>9. CASE FindGroup
    BY <2>5, <2>9 DEF FindGroup
  <2>10. CASE AppendAgent
    BY <2>6, <2>7, <2>10 DEF AppendAgent
  <2>11. CASE EraseStale
    BY <2>4, <2>11, PutDropType DEF EraseStale
  <2>12. CASE UpdateAgent
    BY <2>1, <2>4, <2>7, <2>12, PutDropType DEF UpdateAgent
  <2>13. CASE InsertAgent
    BY <2>4, <2>6, <2>7, <2>13 DEF InsertAgent
  <2>14. CASE Finish
    BY <2>14 DEF Finish
  <2>15. CASE UNCHANGED vars
    BY <2>15 DEF vars
  <2> QED
    BY <2>8, <2>9, <2>10, <2>11, <2>12, <2>13, <2>14, <2>15 DEF Next
<1> QED BY <1>1, <1>2, PTL DEF Spec

-----------------------------------------------------------------------------
(* The loop's invariant. *)

\* The ids in a commit and the keys of the maps are ids.
LEMMA AgentIds ==
  ASSUME TypeOK
  PROVE  /\ \A i \in DOMAIN agents : agents[i].id \in IdType /\ agents[i].id \in Ids
         /\ DOMAIN agents = 1..Len(agents)
         /\ DOMAIN state \in SUBSET IdType
         /\ DOMAIN old \in SUBSET IdType
<1>1. \A i \in DOMAIN agents : agents[i] \in Interface
  BY DEF TypeOK
<1>2. \A i \in DOMAIN agents : agents[i].id \in Ids
  BY <1>1 DEF Interface
<1>3. DOMAIN state \in SUBSET Ids /\ DOMAIN old \in SUBSET Ids
  BY DEF TypeOK, Maps
<1> QED BY <1>2, <1>3, IdsAssumption DEF TypeOK

\* The next committed id lies in the group, beyond the ids written so far.
LEMMA NextCommitted ==
  ASSUME TypeOK, LoopInv, it \in DOMAIN agents
  PROVE  /\ agents[it].id \in IdType
         /\ ~Before(agents[it].id)
         /\ \A c \in Committed : Less(c, agents[it].id)
<1>1. agents[1].id[1] = agents[it].id[1]
  BY AgentIds DEF LoopInv, Ordered
<1>2. 1 \in DOMAIN agents
  BY AgentIds
<1>3. ~Before(agents[it].id)
  BY <1>1, <1>2, AgentIds, MaskFacts DEF Before
<1>4. \A i \in 1..it - 1 : Less(agents[i].id, agents[it].id)
  BY AgentIds DEF LoopInv, Ordered
<1> QED BY <1>3, <1>4, AgentIds DEF Committed

\* Where the map iterator lands when it moves beyond a position p that is
\* past everything written: at an old entry, leaving nothing out.
LEMMA Advance ==
  ASSUME TypeOK, LoopInv, agents # <<>>, pc # "enter",
         NEW p \in IdType, ~Before(p), \A c \in Committed : Less(c, p),
         NEW n, n = NextAfter(DOMAIN state, p)
  PROVE  /\ n # End => /\ n \in DOMAIN old
                        /\ ~Before(n)
                        /\ Less(p, n)
         /\ \A k \in DOMAIN old : ~Before(k) =>
              (n # End /\ Leq(n, k) <=> Less(p, k) /\ Ahead(k))
<1> DEFINE S == {k \in DOMAIN state : Less(p, k)}
<1>1. S \in SUBSET IdType /\ n = FirstOf(S)
  BY AgentIds DEF NextAfter
<1>2. GroupMask(agents[1].id) \in IdType
  <2>1. 1 \in DOMAIN agents
    BY DEF TypeOK
  <2> QED BY <2>1, AgentIds, MaskFacts
<1>3. \A k \in S : k \in DOMAIN old /\ ~Before(k) /\ Ahead(k)
  <2> SUFFICES ASSUME NEW k \in S PROVE k \in DOMAIN old /\ ~Before(k) /\ Ahead(k)
    OBVIOUS
  <2>1. k \notin Committed
    BY <1>1, LessStrictOrder
  <2>2. ~Before(k)
    BY <1>1, <1>2, LessStrictOrder DEF Before
  <2> QED BY <2>1, <2>2 DEF LoopInv
<1>4. \A k \in DOMAIN old : ~Before(k) /\ Less(p, k) /\ Ahead(k) => k \in S
  BY DEF LoopInv
<1>5. n # End => n \in S
  BY <1>1, FirstOfFacts
<1>6. \A k \in S : n # End /\ Leq(n, k)
  BY <1>1, FirstOfFacts
<1>7. ASSUME NEW k \in DOMAIN old, ~Before(k), n # End, Leq(n, k)
      PROVE  Less(p, k) /\ Ahead(k)
  <2>1. n \in S /\ n \in IdType /\ k \in IdType /\ Ahead(n)
    BY <1>1, <1>3, <1>5, <1>7, AgentIds
  <2>2. group_it \in IdType
    BY <2>1, AgentIds DEF Ahead, LoopInv
  <2> QED BY <1>7, <2>1, <2>2, LessStrictOrder DEF Ahead, Leq
<1> QED BY <1>3, <1>4, <1>5, <1>6, <1>7

\* Writing one committed entry, by insertion or by update, keeps the
\* invariant when the map iterator then stands at next.
LEMMA WriteKeepsLoopInv ==
  ASSUME TypeOK, LoopInv, it \in DOMAIN agents, pc \in {"append", "merge"},
         pc' = pc, agents' = agents, old' = old, it' = it + 1,
         state' = Put(state, agents[it].id, agents[it].val),
         group_it' # End =>
           group_it' \in DOMAIN old /\ ~Before(group_it') /\ Less(agents[it].id, group_it'),
         \A k \in DOMAIN old : ~Before(k) =>
           (group_it' # End /\ Leq(group_it', k) <=> Less(agents[it].id, k) /\ Ahead(k)),
         group_it = End => group_it' = End,
         group_it # End => Leq(agents[it].id, group_it)
  PROVE  LoopInv'
<1> DEFINE p == agents[it].id
<1>0. /\ DOMAIN state' = DOMAIN state \cup {p}
      /\ state'[p] = agents[it].val
      /\ \A k \in DOMAIN state : k # p => state'[k] = state[k]
  BY DEF Put
<1>1. /\ p \in IdType /\ ~Before(p)
      /\ \A c \in Committed : Less(c, p)
  BY NextCommitted
<1>2. Committed' = Committed \cup {p} /\ p \notin Committed
  <2>1. Committed' = Committed \cup {p}
    BY AgentIds DEF Committed, TypeOK
  <2> QED BY <2>1, <1>1, LessStrictOrder
<1>3. \A k : Before(k)' = Before(k)
  BY DEF Before
<1>4. \A k \in DOMAIN old : ~Before(k) => (Ahead(k)' <=> Ahead(k) /\ k # p)
  <2> SUFFICES ASSUME NEW k \in DOMAIN old, ~Before(k), Ahead(k), k # p
               PROVE  Less(p, k)
    BY <1>1, LessStrictOrder DEF Ahead
  <2>1. group_it \in IdType /\ k \in IdType
    BY AgentIds DEF Ahead, LoopInv
  <2> QED BY <1>1, <2>1, LessStrictOrder DEF Ahead, Leq
<1>5. DOMAIN state' =
        Committed' \cup {k \in DOMAIN old' : Before(k)' \/ Ahead(k)'}
  BY <1>0, <1>2, <1>3, <1>4, <1>1 DEF LoopInv
<1>6. \A i \in 1..it' - 1 : state'[agents'[i].id] = agents'[i].val
  <2>1. state'[p] = agents[it].val
    BY <1>0
  <2>2. ASSUME NEW i \in 1..it - 1
        PROVE  state'[agents[i].id] = agents[i].val
    <3>1. agents[i].id \in Committed /\ agents[i].id \in DOMAIN state /\ agents[i].id # p
      BY <1>2 DEF Committed, LoopInv
    <3> QED BY <3>1, <1>0 DEF LoopInv
  <2>3. \A i \in 1..it' - 1 : i \in 1..it - 1 \/ i = it
    BY DEF TypeOK
  <2> QED BY <2>1, <2>2, <2>3
<1>7. \A k \in DOMAIN state' \ Committed' : state'[k] = old'[k]
  <2>1. \A k \in DOMAIN state' \ Committed' : k \in DOMAIN state \ Committed /\ k # p
    BY <1>2, <1>0
  <2>2. \A k \in DOMAIN state \ Committed : state[k] = old[k]
    BY DEF LoopInv
  <2> QED BY <2>1, <2>2, <1>0
<1>8. group_it' # End => \A k \in Committed' : Less(k, group_it')
  <2> SUFFICES ASSUME group_it' # End, NEW k \in Committed'
               PROVE  Less(k, group_it')
    OBVIOUS
  <2>1. Less(p, group_it') /\ group_it' \in IdType
    BY AgentIds
  <2>2. CASE k = p
    BY <2>1, <2>2
  <2>3. CASE k \in Committed
    <3>1. k \in IdType /\ Less(k, p)
      BY <1>1, <2>3, AgentIds DEF LoopInv
    <3> QED BY <1>1, <2>1, <3>1, LessStrictOrder
  <2> QED BY <1>2, <2>2, <2>3
<1>9. \A k \in DOMAIN old' :
        ~Before(k)' /\ ~Ahead(k)' => \E i \in DOMAIN agents' : Leq(k, agents'[i].id)
  BY <1>3, <1>4 DEF LoopInv, Leq
<1>10. Ordered(agents)'
  BY DEF LoopInv, Ordered
<1>11. group_it' # End => (group_it \in DOMAIN old /\ ~Before(group_it))'
  BY DEF Before
<1>12. (pc = "append" => group_it = End)' /\ pc' # "enter" /\ pc' # "done"
  BY DEF LoopInv
<1>13. agents' # <<>>
  BY DEF LoopInv
<1> QED
  BY <1>5, <1>6, <1>7, <1>8, <1>9, <1>10, <1>11, <1>12, <1>13 DEF LoopInv

\* lower_bound finds the group's first entry, or the position it would have.
LEMMA FindGroupKeepsLoopInv == TypeOK /\ LoopInv /\ FindGroup => LoopInv'
<1> SUFFICES ASSUME TypeOK, LoopInv, FindGroup PROVE LoopInv'
  OBVIOUS
<1> DEFINE mask == GroupMask(agents[1].id)
           S == {k \in DOMAIN old : Leq(mask, k)}
<1>1. 1 \in DOMAIN agents /\ mask \in IdType
  <2>1. 1 \in DOMAIN agents
    BY AgentIds DEF FindGroup, TypeOK
  <2> QED BY <2>1, AgentIds, MaskFacts
<1>2. it = 1 /\ state = old /\ Committed' = {}
  BY DEF FindGroup, LoopInv, Committed
<1>3. S \in SUBSET IdType /\ group_it' = FirstOf(S)
  BY <1>2, AgentIds DEF FindGroup, LowerBound
<1>4. /\ group_it' # End => group_it' \in S
      /\ \A k \in S : group_it' # End /\ Leq(group_it', k)
  BY <1>3, FirstOfFacts
<1>5. \A k \in DOMAIN old : ~Before(k) <=> k \in S
  BY <1>1, AgentIds, LessStrictOrder DEF Before, Leq
<1>6. \A k : Before(k)' = Before(k)
  BY DEF Before, FindGroup
<1>7. \A k \in S : Ahead(k)'
  BY <1>4 DEF Ahead
<1>8. DOMAIN state' = Committed' \cup {k \in DOMAIN old' : Before(k)' \/ Ahead(k)'}
  BY <1>2, <1>5, <1>6, <1>7 DEF FindGroup
<1>9. \A k \in DOMAIN state' \ Committed' : state'[k] = old'[k]
  BY <1>2 DEF FindGroup
<1>10. (group_it # End => group_it \in DOMAIN old /\ ~Before(group_it))'
  BY <1>4, <1>5 DEF FindGroup, Before
<1>11. \A k \in DOMAIN old' : ~(~Before(k)' /\ ~Ahead(k)')
  BY <1>5, <1>6, <1>7 DEF FindGroup
<1>12. Ordered(agents)'
  BY DEF FindGroup, LoopInv
<1>13. /\ pc' \in {"append", "merge"} /\ agents' # <<>> /\ it' = 1
       /\ pc' = "append" => group_it' = End
  BY <1>2 DEF FindGroup
<1> QED BY <1>2, <1>8, <1>9, <1>10, <1>11, <1>12, <1>13 DEF LoopInv

\* Erasing the entry under the iterator only ever drops an old entry that
\* lies before the id to be written next.
LEMMA EraseStaleKeepsLoopInv == TypeOK /\ LoopInv /\ EraseStale => LoopInv'
<1> SUFFICES ASSUME TypeOK, LoopInv, EraseStale PROVE LoopInv'
  OBVIOUS
<1> USE DEF EraseStale
<1>1. /\ agents # <<>> /\ pc # "enter"
      /\ group_it \in DOMAIN old /\ group_it \in IdType
      /\ ~Before(group_it)
      /\ \A c \in Committed : Less(c, group_it)
  BY AgentIds DEF LoopInv
<1>2. /\ group_it' # End => /\ group_it' \in DOMAIN old
                             /\ ~Before(group_it')
                             /\ Less(group_it, group_it')
      /\ \A k \in DOMAIN old : ~Before(k) =>
           (group_it' # End /\ Leq(group_it', k) <=> Less(group_it, k) /\ Ahead(k))
  BY <1>1, Advance
<1>3. Committed' = Committed /\ group_it \notin Committed
  BY <1>1, LessStrictOrder DEF Committed
<1>4. \A k : Before(k)' = Before(k)
  BY DEF Before
<1>5. \A k \in DOMAIN old : ~Before(k) => (Ahead(k)' <=> Ahead(k) /\ k # group_it)
  BY <1>1, <1>2, AgentIds, LessStrictOrder DEF Ahead, Leq
<1>6. /\ DOMAIN state' = DOMAIN state \ {group_it}
      /\ \A k \in DOMAIN state' : state'[k] = state[k]
  BY DEF Drop
<1>7. DOMAIN state' = Committed' \cup {k \in DOMAIN old' : Before(k)' \/ Ahead(k)'}
  BY <1>1, <1>3, <1>4, <1>5, <1>6 DEF LoopInv
<1>8. \A i \in 1..it' - 1 : state'[agents'[i].id] = agents'[i].val
  BY <1>1, <1>3, <1>6, <1>7 DEF LoopInv, Committed
<1>9. \A k \in DOMAIN state' \ Committed' : state'[k] = old'[k]
  BY <1>1, <1>3, <1>6 DEF LoopInv
<1>10. (group_it # End => group_it \in DOMAIN old /\ ~Before(group_it))'
  BY <1>2 DEF Before
<1>11. group_it' # End => \A k \in Committed' : Less(k, group_it')
  <2> SUFFICES ASSUME group_it' # End, NEW k \in Committed
               PROVE  Less(k, group_it')
    BY <1>3
  <2>1. k \in IdType /\ group_it' \in IdType
    BY <1>1, <1>2, AgentIds DEF LoopInv
  <2> QED BY <1>1, <1>2, <2>1, LessStrictOrder
<1>12. \A k \in DOMAIN old' :
         ~Before(k)' /\ ~Ahead(k)' => \E i \in DOMAIN agents' : Leq(k, agents'[i].id)
  BY <1>1, <1>4, <1>5 DEF LoopInv, Leq
<1>13. Ordered(agents)' /\ pc' = "merge" /\ agents' # <<>>
  BY <1>1 DEF LoopInv
<1> QED
  BY <1>7, <1>8, <1>9, <1>10, <1>11, <1>12, <1>13 DEF LoopInv

\* AppendAgent keeps the loop invariant.
LEMMA AppendAgentKeepsLoopInv == TypeOK /\ LoopInv /\ AppendAgent => LoopInv'
<1> SUFFICES ASSUME TypeOK, LoopInv, AppendAgent PROVE LoopInv'
  OBVIOUS
<1> USE DEF AppendAgent
<1>1. group_it = End /\ agents # <<>>
  BY DEF LoopInv
<1>2. agents[it].id \notin DOMAIN state
  <2>1. ~Before(agents[it].id) /\ agents[it].id \notin Committed
    BY NextCommitted, LessStrictOrder
  <2> QED BY <1>1, <2>1 DEF LoopInv, Ahead
<1>3. state' = Put(state, agents[it].id, agents[it].val)
  BY <1>2 DEF Insert
<1> QED BY <1>1, <1>3, WriteKeepsLoopInv DEF Ahead

\* UpdateAgent keeps the loop invariant.
LEMMA UpdateAgentKeepsLoopInv == TypeOK /\ LoopInv /\ UpdateAgent => LoopInv'
<1> SUFFICES ASSUME TypeOK, LoopInv, UpdateAgent PROVE LoopInv'
  OBVIOUS
<1> USE DEF UpdateAgent
<1>1. agents # <<>> /\ pc # "enter" /\ group_it # End
  <2>1. agents[it].id \in IdType
    BY AgentIds
  <2> QED BY <2>1 DEF LoopInv, End, IdType
<1>2. /\ agents[it].id \in IdType /\ ~Before(agents[it].id)
      /\ \A c \in Committed : Less(c, agents[it].id)
  BY NextCommitted
<1>3. /\ group_it' # End => /\ group_it' \in DOMAIN old
                             /\ ~Before(group_it')
                             /\ Less(agents[it].id, group_it')
      /\ \A k \in DOMAIN old : ~Before(k) =>
           (group_it' # End /\ Leq(group_it', k) <=> Less(agents[it].id, k) /\ Ahead(k))
  BY <1>1, <1>2, Advance
<1> QED BY <1>1, <1>3, WriteKeepsLoopInv DEF Leq

\* InsertAgent keeps the loop invariant.
LEMMA InsertAgentKeepsLoopInv == TypeOK /\ LoopInv /\ InsertAgent => LoopInv'
<1> SUFFICES ASSUME TypeOK, LoopInv, InsertAgent PROVE LoopInv'
  OBVIOUS
<1> USE DEF InsertAgent
<1>1. agents # <<>> /\ pc # "enter"
  BY DEF LoopInv
<1>2. /\ agents[it].id \in IdType /\ ~Before(agents[it].id)
      /\ \A c \in Committed : Less(c, agents[it].id)
  BY NextCommitted
<1>3. /\ group_it' # End => /\ group_it' \in DOMAIN old
                             /\ ~Before(group_it')
                             /\ Less(agents[it].id, group_it')
      /\ \A k \in DOMAIN old : ~Before(k) =>
           (group_it' # End /\ Leq(group_it', k) <=> Less(agents[it].id, k) /\ Ahead(k))
  BY <1>1, <1>2, Advance
<1>4. agents[it].id \notin DOMAIN state
  <2>1. agents[it].id \notin Committed
    BY <1>2, LessStrictOrder
  <2>2. ~Ahead(agents[it].id)
    <3> SUFFICES ASSUME group_it # End, Leq(group_it, agents[it].id) PROVE FALSE
      BY DEF Ahead
    <3>1. group_it \in IdType /\ Less(agents[it].id, group_it)
      BY <1>1, AgentIds DEF LoopInv
    <3> QED BY <1>2, <3>1, LessStrictOrder DEF Leq
  <2> QED BY <1>1, <1>2, <2>1, <2>2 DEF LoopInv
<1>5. state' = Put(state, agents[it].id, agents[it].val)
  BY <1>4 DEF Insert
<1>6. group_it = End => group_it' = End
  <2> SUFFICES ASSUME group_it = End, group_it' # End PROVE FALSE
    OBVIOUS
  <2>1. group_it' \in DOMAIN old /\ ~Before(group_it') /\ Leq(group_it', group_it')
    BY <1>3 DEF Leq
  <2> QED BY <1>3, <2>1 DEF Ahead
<1> QED BY <1>3, <1>5, <1>6, WriteKeepsLoopInv DEF Leq

\* LoopInv is an invariant.
THEOREM LoopInvariant == Spec => []LoopInv
<1>1. Init => LoopInv
  BY DEF Init, LoopInv, Commits
<1>2. TypeOK /\ LoopInv /\ [Next]_vars => LoopInv'
  <2> SUFFICES ASSUME TypeOK, LoopInv, [Next]_vars PROVE LoopInv'
    OBVIOUS
  <2>1. CASE ReturnEmpty
    BY <2>1 DEF ReturnEmpty, LoopInv, Ordered
  <2>2. CASE Finish
    <3>1. it = Len(agents) + 1 /\ agents # <<>>
      BY <2>2, AgentIds DEF Finish, TypeOK, LoopInv
    <3> QED BY <2>2, <3>1 DEF Finish, LoopInv, Ordered, Committed, Before, Ahead
  <2>3. CASE UNCHANGED vars
    BY <2>3 DEF vars, LoopInv, Ordered, Committed, Before, Ahead
  <2> QED
    BY <2>1, <2>2, <2>3, FindGroupKeepsLoopInv, AppendAgentKeepsLoopInv,
       EraseStaleKeepsLoopInv, UpdateAgentKeepsLoopInv, InsertAgentKeepsLoopInv
       DEF Next
<1> QED BY <1>1, <1>2, TypeCorrect, PTL DEF Spec

-----------------------------------------------------------------------------
(* What the invariant gives. *)

\* For every map and commit the iterator never dangles.
THEOREM IteratorNeverDangles == Spec => []IteratorValid
<1>1. TypeOK /\ LoopInv => IteratorValid
  <2> SUFFICES ASSUME TypeOK, LoopInv, group_it # End PROVE group_it \in DOMAIN state
    BY DEF IteratorValid
  <2>1. pc # "enter" /\ agents # <<>>
    BY DEF LoopInv
  <2> QED BY <2>1 DEF LoopInv, Ahead, Leq
<1> QED BY <1>1, TypeCorrect, LoopInvariant, PTL

\* For every map and commit no entry of another group is touched.
THEOREM OtherGroupsUntouched == Spec => []OtherGroupsKept
<1>1. TypeOK /\ LoopInv => OtherGroupsKept
  <2> SUFFICES ASSUME TypeOK, LoopInv, agents # <<>>,
                      NEW k \in Ids, k[1] # agents[1].id[1]
               PROVE  /\ k \in DOMAIN state <=> k \in DOMAIN old
                      /\ k \in DOMAIN old => state[k] = old[k]
    BY DEF OtherGroupsKept
  <2>1. CASE pc = "enter"
    BY <2>1 DEF LoopInv
  <2>2. CASE pc # "enter"
    <3>1. \A i \in DOMAIN agents : agents[i].id[1] = agents[1].id[1] /\ agents[i].id \in IdType
      BY AgentIds DEF LoopInv, Ordered
    <3>2. k \in IdType /\ 1 \in DOMAIN agents
      BY AgentIds, IdsAssumption DEF TypeOK
    <3>3. k \notin Committed
      <4>1. \A i \in 1..it - 1 : i \in DOMAIN agents
        BY AgentIds DEF TypeOK
      <4> QED BY <3>1, <4>1 DEF Committed
    <3>4. k \in DOMAIN old => Before(k) \/ Ahead(k)
      <4> SUFFICES ASSUME k \in DOMAIN old, ~Before(k), ~Ahead(k) PROVE FALSE
        OBVIOUS
      <4>1. PICK i \in DOMAIN agents : Leq(k, agents[i].id)
        BY <2>2 DEF LoopInv
      <4>2. k[1] < agents[1].id[1]
        BY <3>1, <3>2, <4>1 DEF Leq, Less, IdType
      <4> QED BY <3>1, <3>2, <4>2, MaskFacts DEF Before
    <3> QED BY <2>2, <3>3, <3>4 DEF LoopInv
  <2> QED BY <2>1, <2>2
<1> QED BY <1>1, TypeCorrect, LoopInvariant, PTL

\* The commit as a map: its domain and its values, the ids being distinct.
LEMMA CommitMapFacts ==
  ASSUME TypeOK, LoopInv
  PROVE  /\ DOMAIN CommitMap = {agents[i].id : i \in DOMAIN agents}
         /\ \A i \in DOMAIN agents : CommitMap[agents[i].id] = agents[i].val
<1>1. ASSUME NEW i \in DOMAIN agents, NEW j \in DOMAIN agents, agents[i].id = agents[j].id
      PROVE  agents[i] = agents[j]
  <2>1. i \in Int /\ j \in Int /\ ~(i < j) /\ ~(j < i)
    BY <1>1, AgentIds, LessStrictOrder DEF LoopInv, Ordered, TypeOK
  <2> QED BY <2>1
<1>2. ASSUME NEW i \in DOMAIN agents
      PROVE  (CHOOSE a \in {agents[j] : j \in DOMAIN agents} : a.id = agents[i].id) = agents[i]
  BY <1>1
<1> QED BY <1>2 DEF CommitMap

\* For every map and commit the loops compute Merge.
THEOREM MergeIsCorrect == Spec => []MergeCorrect
<1>1. TypeOK /\ LoopInv => MergeCorrect
  <2> SUFFICES ASSUME TypeOK, LoopInv, pc = "done", agents # <<>>
               PROVE  state = Merge(old, CommitMap)
    BY DEF MergeCorrect
  <2> DEFINE C == {agents[i].id : i \in DOMAIN agents}
             stale == {k \in DOMAIN old \ DOMAIN CommitMap :
                         /\ \E a \in DOMAIN CommitMap : Leq(GroupMask(a), k)
                         /\ \E a \in DOMAIN CommitMap : Less(k, a)}
  <2>1. DOMAIN CommitMap = C /\ Committed = C
    BY CommitMapFacts, AgentIds DEF LoopInv, Committed
  <2>2. 1 \in DOMAIN agents /\ C \subseteq IdType
    BY AgentIds DEF TypeOK
  <2>3. \A a \in C : GroupMask(a) = GroupMask(agents[1].id)
    BY <2>2, AgentIds DEF LoopInv, Ordered, GroupMask
  <2>4. \A k \in DOMAIN old : ~Before(k) <=> Leq(GroupMask(agents[1].id), k)
    BY <2>2, AgentIds, MaskFacts, LessStrictOrder DEF Before, Leq
  <2>5. \A k \in DOMAIN old \ C : k \in stale <=> ~Before(k) /\ ~Ahead(k)
    <3> SUFFICES ASSUME NEW k \in DOMAIN old \ C
                 PROVE  k \in stale <=> ~Before(k) /\ ~Ahead(k)
      OBVIOUS
    <3>1. k \in stale <=> ~Before(k) /\ \E a \in C : Less(k, a)
      <4>1. agents[1].id \in C
        BY <2>2
      <4> QED BY <2>1, <2>3, <2>4, <4>1
    <3>2. ASSUME ~Before(k), ~Ahead(k) PROVE \E a \in C : Less(k, a)
      <4>1. PICK i \in DOMAIN agents : Leq(k, agents[i].id)
        BY <3>2 DEF LoopInv
      <4> QED BY <4>1 DEF Leq
    <3>3. ASSUME NEW a \in C, Less(k, a), Ahead(k) PROVE FALSE
      <4>1. /\ group_it # End /\ Leq(group_it, k)
            /\ group_it \in IdType /\ Less(a, group_it)
        BY <2>1, <3>3, AgentIds DEF Ahead, LoopInv
      <4>2. a \in IdType /\ k \in IdType
        BY <2>2, AgentIds
      <4> QED BY <3>3, <4>1, <4>2, LessStrictOrder DEF Leq
    <3> QED BY <3>1, <3>2, <3>3
  <2>6. DOMAIN state = (DOMAIN old \ stale) \cup C
    BY <2>1, <2>5 DEF LoopInv
  <2>7. \A k \in DOMAIN state : state[k] = IF k \in C THEN CommitMap[k] ELSE old[k]
    <3>1. \A k \in DOMAIN state \ Committed : state[k] = old[k]
      BY DEF LoopInv
    <3>2. it = Len(agents) + 1 /\ \A i \in 1..it - 1 : state[agents[i].id] = agents[i].val
      BY DEF LoopInv
    <3>3. \A i \in DOMAIN agents : state[agents[i].id] = CommitMap[agents[i].id]
      BY <3>2, AgentIds, CommitMapFacts DEF TypeOK
    <3>4. \A k \in C : state[k] = CommitMap[k]
      BY <3>3
    <3> QED BY <2>1, <3>1, <3>4
  <2>8. state = [k \in DOMAIN state |-> state[k]]
    BY DEF TypeOK, Maps
  <2>9. Merge(old, CommitMap) =
          [k \in (DOMAIN old \ stale) \cup C |-> IF k \in C THEN CommitMap[k] ELSE old[k]]
    BY <2>1 DEF Merge
  <2> QED
    <3> HIDE DEF stale, C
    <3> QED BY <2>6, <2>7, <2>8, <2>9
<1> QED BY <1>1, TypeCorrect, LoopInvariant, PTL
=============================================================================
