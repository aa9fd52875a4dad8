----------------------- MODULE SuzuhaMessages_proofs -----------------------
(***************************************************************************)
(* Theorems about the message table, for any number of threads, slots and  *)
(* messages.  The invariant says what a thread on its way through a call   *)
(* may rely on: that its message is nobody else's and not stored yet, that *)
(* it is still registered while it searches, and that only it removes what *)
(* is addressed to it.                                                     *)
(***************************************************************************)
EXTENDS SuzuhaMessages, TLAPS

\* A name that is registered is the thread's own, and is while it searches.
Registered ==
  \A t \in Threads :
    /\ names[t] \in {Name[t], MSG_NULL}
    /\ pc[t] \in {"get", "check"} \/ res[t] => names[t] = Name[t]

\* What is being sent is new, and belongs to its sender.
Pending ==
  /\ \A t \in Threads :
       /\ pc[t] \in {"raise", "async", "wakeAndRetry"} => msg[t] # Empty
       /\ msg[t] # Empty =>
            msg[t].source = Name[t] /\ msg[t].data < sent /\ msg[t] \notin accepted
  /\ \A m \in accepted : m.data < sent

\* What msg_check has found so far is in the table.
Found ==
  \A t \in Threads :
    res[t] => pc[t] # "get" /\ \E i \in Slots : table[i].destination = Name[t]

IInv == TypeOK /\ Registered /\ Pending /\ Found /\ ExactlyOnce

LEMMA NamesFact ==
  /\ \A t \in Threads : Name[t] \in Names /\ Name[t] # MSG_NULL
  /\ \A n \in Names : n \in Nat /\ n # MSG_NULL
  /\ \A t, u \in Threads : Name[t] = Name[u] => t = u
BY MessagesAssumption DEF Names

LEMMA EmptyFact == Empty \notin Message /\ Empty.destination = MSG_NULL /\ Empty.source = MSG_NULL
BY NamesFact DEF Empty, Message

LEMMA InitInv == Init => IInv
BY NamesFact, MessagesAssumption
DEF Init, IInv, TypeOK, Registered, Pending, Found, ExactlyOnce, NotLost, TableInOrder, Addressed,
  Slots

\* Steps that leave the table and what was stored and received alone.
LEMMA Untouched ==
  ASSUME ExactlyOnce, UNCHANGED <<table, accepted, got>>
  PROVE  ExactlyOnce'
BY DEF ExactlyOnce, NotLost, TableInOrder, Addressed

LEMMA RegisterInv == ASSUME IInv, NEW t \in Threads, Register(t) \/ Unregister(t) \/ Sleep(t)
                     PROVE  IInv'
<1>1. ExactlyOnce'
  BY Untouched DEF IInv, Register, Unregister, Sleep, args, history
<1>2. TypeOK'
  BY NamesFact DEF IInv, TypeOK, Register, Unregister, Sleep, At, args, history
<1>3. Registered'
  BY DEF IInv, TypeOK, Registered, Register, Unregister, Sleep, At, args, history
<1>4. Pending' /\ Found'
  BY DEF IInv, TypeOK, Pending, Found, Register, Unregister, Sleep, At, args, history
<1> QED BY <1>1, <1>2, <1>3, <1>4 DEF IInv

LEMMA CallRaiseInv ==
  ASSUME IInv, NEW t \in Threads, NEW how \in {"raise", "async"}, NEW to \in Names,
         CallRaise(t, how, to)
  PROVE  IInv'
<1> DEFINE m == [source |-> Name[t], destination |-> to, data |-> sent]
<1>1. m \in Message /\ m # Empty /\ sent \in Nat /\ m \notin accepted
  BY NamesFact, EmptyFact DEF IInv, TypeOK, Message, Pending
<1>2. ExactlyOnce'
  BY Untouched DEF IInv, CallRaise
<1>3. TypeOK'
  BY <1>1 DEF IInv, TypeOK, CallRaise, Goto
<1>4. Registered' /\ Found'
  BY DEF IInv, TypeOK, Registered, Found, CallRaise, Goto, At
<1>5. Pending'
  <2>1. /\ msg' = [msg EXCEPT ![t] = m] /\ pc' = [pc EXCEPT ![t] = how]
        /\ sent' = sent + 1 /\ accepted' = accepted
    BY DEF CallRaise, Goto
  <2>2. \A u \in Threads : msg[u] # Empty => msg[u].data \in Nat
    BY DEF IInv, TypeOK, Message
  <2>3. \A x \in accepted : x.data \in Nat
    BY DEF IInv, TypeOK, Message
  <2> HIDE DEF m
  <2>4. m.source = Name[t] /\ m.data = sent
    BY DEF m
  <2> QED BY <1>1, <2>1, <2>2, <2>3, <2>4 DEF IInv, TypeOK, Pending
<1> QED BY <1>2, <1>3, <1>4, <1>5 DEF IInv

LEMMA CallSearchInv ==
  ASSUME IInv, NEW t \in Threads, NEW how \in {"get", "check"}, CallSearch(t, how)
  PROVE  IInv'
<1>1. ExactlyOnce'
  BY Untouched DEF IInv, CallSearch, history
<1>2. TypeOK'
  BY DEF IInv, TypeOK, CallSearch, Goto, history
<1>3. Registered' /\ Pending' /\ Found'
  BY DEF IInv, TypeOK, Registered, Pending, Found, CallSearch, Goto, At, history
<1> QED BY <1>1, <1>2, <1>3 DEF IInv

\* Steps of a sender that change nothing but its place, its message and who sleeps.
LEMMA SenderMoves ==
  ASSUME IInv, NEW t \in Threads,
         UNCHANGED <<names, table, index, res, history>>, waiting' \subseteq Threads,
         NEW l \in {"run", "raise", "wake", "wakeAndRetry"}, Goto(t, l),
         NEW x \in {Empty, msg[t]}, msg' = [msg EXCEPT ![t] = x],
         l \in {"raise", "wakeAndRetry"} => x # Empty
  PROVE  IInv'
<1>1. ExactlyOnce'
  BY Untouched DEF IInv, history
<1>2. TypeOK'
  BY DEF IInv, TypeOK, Goto, history
<1>3. Registered' /\ Found'
  BY DEF IInv, TypeOK, Registered, Found, Goto, history
<1>4. Pending'
  BY DEF IInv, TypeOK, Pending, Goto, history
<1> QED BY <1>1, <1>2, <1>3, <1>4 DEF IInv

\* The ends of msg_raise_async that store nothing, and the wake-up.
LEMMA RaiseEndsInv ==
  ASSUME IInv, NEW t \in Threads, RaiseRefused(t) \/ RaiseFull(t) \/ WakeUpThreads(t)
  PROVE  IInv'
<1>1. /\ msg \in [Threads -> Message \cup {Empty}] /\ waiting \subseteq Threads
      /\ msg = [msg EXCEPT ![t] = msg[t]]
  BY DEF IInv, TypeOK
<1>2. pc[t] \in {"raise", "async", "wakeAndRetry"} => msg[t] # Empty
  BY DEF IInv, Pending
<1>3. CASE RaiseRefused(t)
  BY <1>1, <1>3, SenderMoves DEF RaiseRefused
<1>4. CASE RaiseFull(t) /\ pc[t] = "raise"
  BY <1>1, <1>2, <1>4, SenderMoves DEF RaiseFull
<1>5. CASE RaiseFull(t) /\ pc[t] # "raise"
  BY <1>1, <1>5, SenderMoves DEF RaiseFull
<1>6. CASE WakeUpThreads(t)
  BY <1>1, <1>2, <1>6, SenderMoves DEF WakeUpThreads, At, args
<1> QED BY <1>3, <1>4, <1>5, <1>6

LEMMA RaiseStoredInv == ASSUME IInv, NEW t \in Threads, RaiseStored(t) PROVE IInv'
<1>1. PICK i \in Slots : Free(i) /\ table' = [table EXCEPT ![i] = msg[t]]
  BY DEF RaiseStored
<1>2. /\ table \in [Slots -> Message \cup {Empty}] /\ msg \in [Threads -> Message \cup {Empty}]
      /\ pc \in [Threads -> {"run", "raise", "async", "wake", "wakeAndRetry", "get", "check"}]
      /\ \A m \in accepted : m \in Message
  BY DEF IInv, TypeOK
<1>3. table[i] = Empty
  BY <1>1, <1>2, NamesFact DEF Free, Message
<1>4. msg[t] \in Message /\ msg[t] # Empty /\ msg[t].source = Name[t] /\ msg[t] \notin accepted
  BY <1>2, EmptyFact DEF IInv, Pending, RaiseStored, Raising, At
<1>5. /\ accepted' = accepted \cup {msg[t]} /\ msg' = [msg EXCEPT ![t] = Empty]
      /\ pc' = [pc EXCEPT ![t] = "wake"]
      /\ UNCHANGED <<names, index, res, waiting, sent, got>>
  BY DEF RaiseStored, Goto
<1>6. TypeOK'
  BY <1>1, <1>2, <1>4, <1>5 DEF IInv, TypeOK
<1>7. Registered'
  BY <1>2, <1>5 DEF IInv, Registered
<1>8. Pending'
  BY <1>2, <1>4, <1>5, NamesFact DEF IInv, Pending
<1>9. Found'
  <2>1. \A j \in Slots, u \in Threads :
          table[j].destination = Name[u] => table'[j].destination = Name[u]
    BY <1>1, <1>2, <1>3, EmptyFact, NamesFact
  <2> QED BY <1>2, <1>5, <2>1 DEF IInv, Found
<1>10. NotLost'
  <2>1. table'[i] = msg[t] /\ \A j \in Slots : table[j] # Empty => table'[j] = table[j]
    BY <1>1, <1>2, <1>3
  <2>2. Empty \notin accepted
    BY <1>2, EmptyFact
  <2> QED BY <1>5, <2>1, <2>2 DEF IInv, ExactlyOnce, NotLost
<1>11. TableInOrder'
  <2>1. /\ \A j \in Slots : table[j] # msg[t]
        /\ \A u \in Threads : \A k \in DOMAIN got[u] : got[u][k] # msg[t]
    BY <1>4 DEF IInv, ExactlyOnce, TableInOrder, Addressed
  <2> QED BY <1>1, <1>2, <1>5, <2>1 DEF IInv, ExactlyOnce, TableInOrder
<1>12. Addressed'
  BY <1>5 DEF IInv, ExactlyOnce, Addressed
<1> QED BY <1>6, <1>7, <1>8, <1>9, <1>10, <1>11, <1>12 DEF IInv, ExactlyOnce

LEMMA GetTakesInv == ASSUME IInv, NEW t \in Threads, GetTakes(t) PROVE IInv'
<1> DEFINE i == index[t]
           m == table[i]
<1>1. /\ table \in [Slots -> Message \cup {Empty}] /\ i \in Slots
      /\ pc \in [Threads -> {"run", "raise", "async", "wake", "wakeAndRetry", "get", "check"}]
      /\ got \in [Threads -> Seq(Message)]
  BY DEF IInv, TypeOK
<1>2. m \in Message /\ m # Empty /\ m.destination = Name[t] /\ pc[t] = "get" /\ ~res[t]
  BY <1>1, NamesFact, EmptyFact DEF IInv, TypeOK, Registered, Found, GetTakes, ForMe, At
<1>3. /\ got' = [got EXCEPT ![t] = Append(@, m)] /\ table' = [table EXCEPT ![i] = Empty]
      /\ pc' = [pc EXCEPT ![t] = "run"] /\ index' = [index EXCEPT ![t] = 0]
      /\ UNCHANGED <<names, msg, res, waiting, sent, accepted>>
  BY DEF GetTakes, Cleared, Goto
<1>4. TypeOK'
  <2>1. got' \in [Threads -> Seq(Message)]
    BY <1>1, <1>2, <1>3
  <2>2. index' \in [Threads -> Slots]
    BY <1>3, MessagesAssumption DEF IInv, TypeOK, Slots
  <2>3. table' \in [Slots -> Message \cup {Empty}]
    BY <1>1, <1>3
  <2> QED BY <1>1, <1>3, <2>1, <2>2, <2>3 DEF IInv, TypeOK
<1>5. Registered' /\ Pending'
  BY <1>1, <1>3 DEF IInv, Registered, Pending
<1>6. Found'
  <2>1. \A u \in Threads, j \in Slots : u # t /\ table[j].destination = Name[u] => table'[j] = table[j]
    BY <1>1, <1>2, <1>3, NamesFact
  <2> SUFFICES ASSUME NEW u \in Threads, res[u]
               PROVE  pc'[u] # "get" /\ \E j \in Slots : table'[j].destination = Name[u]
    BY <1>3 DEF Found
  <2>2. u # t /\ pc[u] # "get"
    BY <1>2 DEF IInv, Found
  <2>3. PICK j \in Slots : table[j].destination = Name[u]
    BY DEF IInv, Found
  <2>4. table'[j] = table[j] /\ pc'[u] = pc[u]
    BY <1>1, <1>3, <2>1, <2>2, <2>3
  <2> QED BY <2>2, <2>3, <2>4
<1>7. /\ m \in accepted
      /\ \A j \in Slots : table[j] = m => j = i
      /\ \A u \in Threads : \A k \in DOMAIN got[u] : got[u][k] # m
  BY <1>1, <1>2 DEF IInv, ExactlyOnce, TableInOrder
<1>8. /\ DOMAIN got'[t] = 1..Len(got[t]) + 1 /\ got'[t][Len(got[t]) + 1] = m
      /\ DOMAIN got[t] = 1..Len(got[t]) /\ Len(got[t]) \in Nat
      /\ \A k \in DOMAIN got[t] : got'[t][k] = got[t][k]
      /\ \A u \in Threads \ {t} : got'[u] = got[u]
  BY <1>1, <1>2, <1>3
<1> HIDE DEF m, i
<1>9. NotLost'
  <2> SUFFICES ASSUME NEW x \in accepted
               PROVE  \/ \E j \in Slots : table'[j] = x
                      \/ \E u \in Threads : \E k \in DOMAIN got'[u] : got'[u][k] = x
    BY <1>3 DEF NotLost
  <2>1. CASE x = m
    BY <1>8, <2>1
  <2>2. CASE x # m /\ \E j \in Slots : table[j] = x
    BY <1>1, <1>3, <2>2 DEF m
  <2>3. CASE \E u \in Threads : \E k \in DOMAIN got[u] : got[u][k] = x
    BY <1>8, <2>3
  <2> QED BY <2>1, <2>2, <2>3 DEF IInv, ExactlyOnce, NotLost
<1>10. TableInOrder'
  <2> SUFFICES ASSUME NEW j \in Slots, table'[j] # Empty
               PROVE  /\ table'[j] \in accepted
                      /\ \A l \in Slots : table'[l] = table'[j] => l = j
                      /\ \A u \in Threads : \A k \in DOMAIN got'[u] : got'[u][k] # table'[j]
    BY <1>3 DEF TableInOrder
  <2>1. j # i /\ table'[j] = table[j] /\ table[j] # m
    BY <1>1, <1>3, <1>7
  <2>2. /\ table[j] \in accepted
        /\ \A l \in Slots : table[l] = table[j] => l = j
        /\ \A u \in Threads : \A k \in DOMAIN got[u] : got[u][k] # table[j]
    BY <2>1 DEF IInv, ExactlyOnce, TableInOrder
  <2>3. \A l \in Slots : table'[l] = table'[j] => l = j
    BY <1>1, <1>3, <2>1, <2>2
  <2>4. ASSUME NEW u \in Threads, NEW k \in DOMAIN got'[u] PROVE got'[u][k] # table'[j]
    <3>1. CASE u = t
      BY <1>8, <2>1, <2>2, <3>1
    <3>2. CASE u # t
      BY <1>8, <2>1, <2>2, <3>2
    <3> QED BY <3>1, <3>2
  <2> QED BY <2>1, <2>2, <2>3, <2>4
<1>11. Addressed'
  <2> SUFFICES ASSUME NEW u \in Threads, NEW k \in DOMAIN got'[u]
               PROVE  /\ got'[u][k] \in accepted /\ got'[u][k].destination = Name[u]
                      /\ \A j \in DOMAIN got'[u] : got'[u][j] = got'[u][k] => j = k
    BY <1>3 DEF Addressed
  <2>1. CASE u # t
    BY <1>8, <2>1 DEF IInv, ExactlyOnce, Addressed
  <2>2. CASE u = t
    <3>1. \A j \in DOMAIN got[t] :
            /\ got[t][j] # m /\ got[t][j] \in accepted /\ got[t][j].destination = Name[t]
            /\ \A l \in DOMAIN got[t] : got[t][l] = got[t][j] => l = j
      BY <1>7 DEF IInv, ExactlyOnce, Addressed
    <3>2. m.destination = Name[t]
      BY <1>2 DEF m
    <3>3. CASE k = Len(got[t]) + 1
      BY <1>7, <1>8, <2>2, <3>1, <3>2, <3>3
    <3>4. CASE k # Len(got[t]) + 1
      <4>1. k \in DOMAIN got[t]
        BY <1>8, <2>2, <3>4
      <4>2. got'[t][k] = got[t][k]
        BY <1>8, <4>1
      <4>3. \A j \in DOMAIN got'[t] : j = Len(got[t]) + 1 \/ j \in DOMAIN got[t]
        BY <1>8
      <4> QED BY <1>8, <2>2, <3>1, <4>1, <4>2, <4>3
    <3> QED BY <3>3, <3>4
  <2> QED BY <2>1, <2>2
<1> QED BY <1>4, <1>5, <1>6, <1>9, <1>10, <1>11 DEF IInv, ExactlyOnce

LEMMA NextIndex == ASSUME NEW j \in Nat, NEW F \in Nat \ {0} PROVE (j + 1) % F \in 0..F - 1
OBVIOUS

LEMMA LooksInv == ASSUME IInv, NEW t \in Threads, GetLooksOn(t) \/ CheckLooks(t) PROVE IInv'
<1>1. ExactlyOnce'
  BY Untouched DEF IInv, GetLooksOn, CheckLooks, history
<1>2. index' \in [Threads -> Slots]
  <2>1. ASSUME NEW j \in Slots PROVE (j + 1) % Fifo \in Slots
    <3>1. j \in Nat /\ Fifo \in Nat \ {0}
      BY MessagesAssumption DEF Slots
    <3>2. (j + 1) % Fifo \in 0..Fifo - 1
      BY <3>1, NextIndex
    <3> QED BY <3>2 DEF Slots
  <2>2. index' = [index EXCEPT ![t] = (@ + 1) % Fifo] /\ index \in [Threads -> Slots]
    BY DEF IInv, TypeOK, GetLooksOn, CheckLooks
  <2>3. (index[t] + 1) % Fifo \in Slots
    BY <2>1, <2>2
  <2> QED BY <2>2, <2>3
<1>3. TypeOK'
  BY <1>2 DEF IInv, TypeOK, GetLooksOn, CheckLooks, ForMe, Goto, history
<1>4. CASE GetLooksOn(t)
  BY <1>1, <1>3, <1>4 DEF IInv, Registered, Pending, Found, GetLooksOn, history
<1>5. CASE CheckLooks(t)
  <2>1. /\ pc \in [Threads -> {"run", "raise", "async", "wake", "wakeAndRetry", "get", "check"}]
        /\ res \in [Threads -> BOOLEAN] /\ index[t] \in Slots
    BY DEF IInv, TypeOK
  <2>2. /\ pc[t] = "check" /\ (pc' = pc \/ pc' = [pc EXCEPT ![t] = "run"])
        /\ res' = [res EXCEPT ![t] = @ \/ ForMe(t)]
        /\ UNCHANGED <<names, table, msg, sent, accepted>>
    BY <1>5 DEF CheckLooks, At, Goto, history
  <2>3. Registered'
    BY <2>1, <2>2 DEF IInv, Registered
  <2>4. Pending'
    BY <2>1, <2>2 DEF IInv, Pending
  <2>5. names[t] = Name[t] /\ (ForMe(t) => table[index[t]].destination = Name[t])
    BY <2>2 DEF IInv, Registered, ForMe
  <2>6. Found'
    BY <2>1, <2>2, <2>5 DEF IInv, Found
  <2> QED BY <1>1, <1>3, <2>3, <2>4, <2>6 DEF IInv
<1> QED BY <1>4, <1>5

LEMMA NextInv == IInv /\ [Next]_vars => IInv'
<1> SUFFICES ASSUME IInv, [Next]_vars PROVE IInv'
  OBVIOUS
<1>1. CASE UNCHANGED vars
  <2>1. ExactlyOnce'
    BY <1>1, Untouched DEF IInv, vars, history
  <2> QED BY <1>1, <2>1 DEF vars, args, history, IInv, TypeOK, Registered, Pending, Found
<1>2. ASSUME NEW t \in Threads, Call(t) PROVE IInv'
  BY <1>2, RegisterInv, CallRaiseInv, CallSearchInv DEF Call
<1>3. ASSUME NEW t \in Threads, Send(t) PROVE IInv'
  BY <1>3, RaiseEndsInv, RaiseStoredInv DEF Send
<1>4. ASSUME NEW t \in Threads, Search(t) PROVE IInv'
  BY <1>4, GetTakesInv, LooksInv DEF Search
<1> QED BY <1>1, <1>2, <1>3, <1>4 DEF Next

\* The invariant holds in every reachable state.
THEOREM Invariant == Spec => []IInv
BY InitInv, NextInv, PTL DEF Spec

\* The variables keep their types.
THEOREM TypeCorrect == Spec => []TypeOK
<1>1. IInv => TypeOK
  BY DEF IInv
<1> QED BY <1>1, Invariant, PTL

\* msg_raise_async and msg_get neither lose a message nor hand it out twice or to a
\* thread it is not addressed to.
THEOREM MessagesExactlyOnce == Spec => []ExactlyOnce
<1>1. IInv => ExactlyOnce
  BY DEF IInv
<1> QED BY <1>1, Invariant, PTL

\* What msg_check has found is still there when the thread calls msg_get.
THEOREM CheckedStaysThere == Spec => []CheckedIsThere
<1>1. IInv => CheckedIsThere
  BY DEF IInv, Found, Registered, CheckedIsThere
<1> QED BY <1>1, Invariant, PTL
=============================================================================
