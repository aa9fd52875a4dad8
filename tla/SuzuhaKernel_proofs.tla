-------------------------- MODULE SuzuhaKernel_proofs --------------------------
(***************************************************************************)
(* The kernel calls of SuzuhaOS, for any number of threads and any          *)
(* priorities: the flags match the calls the threads are in, wake_up_threads *)
(* leaves nobody asleep, and no ready thread is passed over for longer than  *)
(* its priority and one tick for every other thread.                        *)
(*                                                                         *)
(* The deadline is the hard part.  A counter that has reached zero measures  *)
(* nothing any more, so the invariant counts the others: every tick that     *)
(* passes over a thread whose counter is zero reloads another one's counter, *)
(* which takes longer to run down again than the other threads need.         *)
(***************************************************************************)
EXTENDS SuzuhaKernel, SuzuhaScheduler_proofs, FiniteSetTheorems

-----------------------------------------------------------------------------
(* The inductive invariant. *)

\* A slot is free exactly while no thread of it is anywhere in its code.
SlotsMatch == \A t \in Threads : Created(t) <=> pc[t] # "none"

\* Whoever still sleeps in spite of a wake_up_threads is ahead of its loop.
AheadOfWake ==
  \A t \in Threads : pc[t] = "wake" => \A s \in asleep[t] : arg[t] <= s

\* A counter never exceeds its initial value, which is at least PRIORITY_MAX.
CountersBounded ==
  \A t \in Threads : PRIORITY_MAX <= icnt[t] /\ cnt[t] <= icnt[t]

\* By how much a thread's turn is later than its own counter says.
Overdue(t) == late[t] + cnt[t] - icnt[t]

\* The threads served while t was overdue: their counters are still so high.
Served(t) == {s \in Threads \ {t} : cnt[s] > N - Overdue(t)}

\* A thread is overdue for no more ticks than there are threads served since.
OverdueCounted ==
  \A t \in Threads :
    Overdue(t) > 0 => cnt[t] = 0 /\ Overdue(t) <= Cardinality(Served(t))

IInv ==
  TypeOK /\ WaitingInCall /\ SlotsMatch /\ AheadOfWake /\ CountersBounded /\ OverdueCounted

-----------------------------------------------------------------------------
(* Types. *)

\* The counter a new thread starts with is a number, and no less than PRIORITY_MAX.
LEMMA ClampedType ==
  ASSUME NEW p \in Nat
  PROVE  Clamped(p) \in Nat /\ PRIORITY_MAX <= Clamped(p)
BY SchedulerAssumption DEF Clamped, PRIORITY_MAX

\* The initial values have the types.
LEMMA InitTypes == Init => TypeOK
BY SchedulerAssumption
   DEF Init, SchedulerInit, TypeOK, Threads, PRIORITY_MAX, SYSTEM_INIT

\* The steps of the interrupts keep the types.
LEMMA InterruptTypes ==
  ASSUME TypeOK, Tick \/ WakeUpThreadsInt
  PROVE  TypeOK'
<1>1. CASE Tick
  <2>1. /\ current' \in Threads
        /\ cnt' \in [Threads -> Nat]
        /\ flag' = flag /\ icnt' = icnt
    BY <1>1, ChosenInThreads DEF Tick, SysTick, TypeOK, Decremented
  <2>2. late' \in [Threads -> Nat]
    BY <1>1 DEF Tick, TypeOK
  <2> QED BY <1>1, <2>1, <2>2 DEF Tick, TypeOK, callVars
<1>2. CASE WakeUpThreadsInt
  BY <1>2 DEF WakeUpThreadsInt, TypeOK, callVars
<1> QED BY <1>1, <1>2

\* A step that installs a thread in a slot keeps the types it has to do with.
LEMMA InstallTypes ==
  ASSUME TypeOK, NEW slot \in Threads, NEW p \in Nat, Install(slot, p)
  PROVE  /\ flag' \in [Threads -> SUBSET {"CREATED", "WAITING"}]
         /\ cnt' \in [Threads -> Nat] /\ icnt' \in [Threads -> Nat]
         /\ age' \in [Threads -> Nat] /\ late' \in [Threads -> Nat]
BY ClampedType DEF Install, TypeOK

\* Every call keeps the types.
LEMMA CallTypes ==
  ASSUME TypeOK, NEW t \in Threads, Call(t)
  PROVE  TypeOK'
<1> USE DEF TypeOK, Goto
<1>0. N \in Nat /\ Priorities \subseteq Nat
  BY SchedulerAssumption, KernelAssumption
<1>1. ASSUME NEW p \in Priorities, CallCreate(t, p) PROVE TypeOK'
  BY <1>0, <1>1 DEF CallCreate, schedulerVars, history
<1>2. CASE CreateHere(t)
  <2>1. Install(arg[t], prio[t]) /\ arg[t] \in Threads /\ prio[t] \in Nat
    BY <1>2 DEF CreateHere
  <2>2. pc' \in [Threads -> {"none", "run", "create", "wait", "wake", "join"}]
    BY <1>2 DEF CreateHere
  <2> QED BY <1>2, <2>1, <2>2, InstallTypes DEF CreateHere
<1>3. CASE CreateNext(t)
  <2>1. arg[t] + 1 \in 0..N
    <3>1. arg[t] \in 0..N - 1
      BY <1>3 DEF CreateNext, Threads
    <3> QED BY <1>0, <3>1
  <2>2. arg' \in [Threads -> 0..N]
    BY <1>3, <2>1 DEF CreateNext
  <2> QED BY <1>3, <2>2 DEF CreateNext, schedulerVars, history
<1>4. CASE SetWaitState(t)
  BY <1>4 DEF SetWaitState, SetWaiting
<1>5. CASE WaitEnds(t)
  BY <1>5 DEF WaitEnds, schedulerVars, history
<1>6. CASE CallWakeUp(t)
  BY <1>0, <1>6 DEF CallWakeUp, schedulerVars
<1>7. CASE WakeUp(t)
  <2>1. arg[t] + 1 \in 0..N /\ arg[t] \in Threads
    BY <1>0, <1>7 DEF WakeUp, Threads
  <2>2. arg' \in [Threads -> 0..N] /\ asleep' \in [Threads -> SUBSET Threads]
    BY <1>7, <2>1 DEF WakeUp
  <2> QED BY <1>7, <2>1, <2>2 DEF WakeUp, ClearWaiting
<1>8. CASE WakeUpReturns(t)
  BY <1>8 DEF WakeUpReturns, schedulerVars, history
<1>9. ASSUME NEW s \in Threads, CallJoin(t, s) PROVE TypeOK'
  <2>1. arg' \in [Threads -> 0..N]
    <3>1. s \in 0..N
      BY <1>0 DEF Threads
    <3> QED BY <1>9, <3>1 DEF CallJoin
  <2> QED BY <1>9, <2>1 DEF CallJoin, schedulerVars, history
<1>10. CASE JoinReturns(t)
  BY <1>10 DEF JoinReturns, schedulerVars, history
<1>11. CASE ThreadEnding(t)
  BY <1>11 DEF ThreadEnding
<1> QED BY <1>1, <1>2, <1>3, <1>4, <1>5, <1>6, <1>7, <1>8, <1>9, <1>10, <1>11 DEF Call

\* Every step keeps the types.
LEMMA NextTypes == TypeOK /\ [Next]_vars => TypeOK'
<1> SUFFICES ASSUME TypeOK, [Next]_vars PROVE TypeOK'
  OBVIOUS
<1>1. ASSUME NEW slot \in Threads, NEW p \in Priorities, BootCreate(slot, p)
      PROVE  TypeOK'
  BY <1>1, InstallTypes, KernelAssumption DEF BootCreate, TypeOK, Goto
<1>2. CASE UNCHANGED vars
  BY <1>2 DEF vars, schedulerVars, callVars, history, TypeOK
<1> QED BY <1>1, <1>2, CallTypes, InterruptTypes DEF Next

\* All variables keep their types: in particular the handler always switches
\* to a slot of the table and no loop over the slots leaves it.
THEOREM TypeCorrect == Spec => []TypeOK
BY InitTypes, NextTypes, PTL DEF Spec

-----------------------------------------------------------------------------
(* Flags and calls. *)

FlagsInv == TypeOK /\ WaitingInCall /\ SlotsMatch

\* A thread that is not waiting may move anywhere in its code: the flags, which
\* stay as they are, still match.
LEMMA MoveKeepsFlags ==
  ASSUME FlagsInv, NEW t \in Threads, pc[t] # "none", ~Waiting(t), flag' = flag,
         NEW l, l # "none", Goto(t, l) \/ pc' = pc
  PROVE  WaitingInCall' /\ SlotsMatch'
<1>1. \A u \in Threads : u # t => pc'[u] = pc[u]
  BY DEF Goto, FlagsInv, TypeOK
<1>2. pc'[t] # "none"
  BY DEF Goto, FlagsInv, TypeOK
<1>3. \A u \in Threads : (Created(u))' = Created(u) /\ (Waiting(u))' = Waiting(u)
  BY DEF Created, Waiting
<1> QED BY <1>1, <1>2, <1>3 DEF FlagsInv, WaitingInCall, SlotsMatch

\* A thread that appears in a free slot is not waiting, whatever the flags of
\* the thread before it were.
LEMMA InstallKeepsFlags ==
  ASSUME FlagsInv, NEW slot \in Threads, NEW p, Install(slot, p),
         NEW t \in Threads, t = slot \/ pc[t] = "create", ~Created(slot),
         pc' = [pc EXCEPT ![t] = "run", ![slot] = "run"]
  PROVE  WaitingInCall' /\ SlotsMatch'
<1> USE DEF FlagsInv, TypeOK
<1>1. /\ flag'[slot] = {"CREATED"} /\ pc'[slot] = "run"
      /\ \A u \in Threads \ {slot} : flag'[u] = flag[u]
  BY DEF Install
<1>2. \A u \in Threads \ {slot, t} : pc'[u] = pc[u]
  OBVIOUS
<1>3. t # slot => pc'[t] = "run" /\ pc[t] = "create"
  OBVIOUS
<1> QED BY <1>1, <1>2, <1>3 DEF WaitingInCall, SlotsMatch, Created, Waiting

\* The flags match after every call.
LEMMA CallFlags ==
  ASSUME FlagsInv, NEW t \in Threads, Call(t)
  PROVE  WaitingInCall' /\ SlotsMatch'
<1>0. pc[t] # "wait" => ~Waiting(t)
  BY DEF FlagsInv, WaitingInCall
<1>1. CASE \/ \E p \in Priorities : CallCreate(t, p)
           \/ CreateNext(t) \/ WaitEnds(t) \/ CallWakeUp(t) \/ WakeUpReturns(t)
           \/ \E s \in Threads : CallJoin(t, s)
           \/ JoinReturns(t)
  <2>1. /\ pc[t] # "none" /\ ~Waiting(t) /\ flag' = flag
        /\ pc' = pc \/ \E l \in {"run", "create", "wake", "join"} : Goto(t, l)
    BY <1>0, <1>1
       DEF CallCreate, CreateNext, WaitEnds, CallWakeUp, WakeUpReturns, CallJoin,
           JoinReturns, InCode, schedulerVars
  <2> QED BY <2>1, MoveKeepsFlags
<1>2. CASE CreateHere(t)
  <2>1. /\ arg[t] \in Threads /\ ~Created(arg[t]) /\ pc[t] = "create"
        /\ Install(arg[t], prio[t])
        /\ pc' = [pc EXCEPT ![t] = "run", ![arg[t]] = "run"]
    BY <1>2 DEF CreateHere
  <2> QED BY <2>1, InstallKeepsFlags
<1>3. CASE SetWaitState(t)
  BY <1>3 DEF SetWaitState, InCode, SetWaiting, Goto, FlagsInv, TypeOK, WaitingInCall,
     SlotsMatch, Created, Waiting
<1>4. CASE WakeUp(t)
  <2>1. \A u \in Threads : (Created(u))' = Created(u) /\ ((Waiting(u))' => Waiting(u))
    BY <1>4 DEF WakeUp, ClearWaiting, Created, Waiting, FlagsInv, TypeOK
  <2> QED BY <1>4, <2>1 DEF WakeUp, FlagsInv, WaitingInCall, SlotsMatch
<1>5. CASE ThreadEnding(t)
  BY <1>5 DEF ThreadEnding, Goto, FlagsInv, TypeOK, WaitingInCall, SlotsMatch, Created,
     Waiting
<1> QED BY <1>1, <1>2, <1>3, <1>4, <1>5 DEF Call

\* The flags match after every step.
LEMMA NextFlags == FlagsInv /\ [Next]_vars => FlagsInv'
<1> SUFFICES ASSUME FlagsInv, [Next]_vars PROVE WaitingInCall' /\ SlotsMatch'
  BY NextTypes DEF FlagsInv
<1>1. ASSUME NEW slot \in Threads, NEW p \in Priorities, BootCreate(slot, p)
      PROVE  WaitingInCall' /\ SlotsMatch'
  <2>1. pc' = [pc EXCEPT ![slot] = "run", ![slot] = "run"]
    BY <1>1 DEF BootCreate, Goto, FlagsInv, TypeOK
  <2> QED BY <1>1, <2>1, InstallKeepsFlags DEF BootCreate
<1>2. CASE Tick \/ UNCHANGED vars
  <2>1. flag' = flag /\ pc' = pc
    BY <1>2 DEF Tick, SysTick, callVars, vars, schedulerVars
  <2> QED BY <2>1 DEF FlagsInv, WaitingInCall, SlotsMatch, Created, Waiting
<1>3. CASE WakeUpThreadsInt
  BY <1>3 DEF WakeUpThreadsInt, callVars, FlagsInv, WaitingInCall, SlotsMatch, Created,
     Waiting
<1> QED BY <1>1, <1>2, <1>3, CallFlags DEF Next

\* In the initial state only the null thread has a slot.
LEMMA InitFlags == Init => FlagsInv
<1> SUFFICES ASSUME Init PROVE WaitingInCall /\ SlotsMatch
  BY InitTypes DEF FlagsInv
<1> QED BY DEF Init, SchedulerInit, WaitingInCall, SlotsMatch, Created, Waiting

\* The flags always match the calls.
THEOREM FlagsAlwaysMatch == Spec => []FlagsInv
BY InitFlags, NextFlags, PTL DEF Spec

\* A thread is never waiting unless it is inside set_wait_state, which is where
\* a wake_up_threads makes it go on: no slot hands its flag on to a new thread.
THEOREM OnlyCallersWait == Spec => []WaitingInCall
<1>1. FlagsInv => WaitingInCall
  BY DEF FlagsInv
<1> QED BY <1>1, FlagsAlwaysMatch, PTL

-----------------------------------------------------------------------------
(* wake_up_threads. *)

WakeInv == FlagsInv /\ AheadOfWake

\* A step that lets nobody into the loop of wake_up_threads, moves no index of
\* one and puts nobody to sleep keeps the sleepers ahead.
LEMMA AheadKept ==
  ASSUME WakeInv,
         \A u \in Threads : pc'[u] = "wake" =>
            pc[u] = "wake" /\ arg'[u] = arg[u] /\ asleep'[u] \subseteq asleep[u]
  PROVE  AheadOfWake'
BY DEF WakeInv, AheadOfWake

\* The sleepers stay ahead of the loop in every call.
LEMMA CallAhead ==
  ASSUME WakeInv, NEW t \in Threads, Call(t)
  PROVE  AheadOfWake'
<1> USE DEF Goto, WakeInv, FlagsInv, TypeOK
<1>1. CASE \/ \E p \in Priorities : CallCreate(t, p)
           \/ CreateNext(t) \/ WaitEnds(t) \/ WakeUpReturns(t)
           \/ \E s \in Threads : CallJoin(t, s)
           \/ JoinReturns(t)
  <2>1. /\ \A u \in Threads \ {t} : pc'[u] = pc[u] /\ arg'[u] = arg[u]
        /\ pc'[t] # "wake" /\ asleep' = asleep
    BY <1>1 DEF CallCreate, CreateNext, WaitEnds, WakeUpReturns, CallJoin, JoinReturns,
                history
  <2> QED BY <2>1, AheadKept
<1>2. CASE CreateHere(t)
  <2>1. /\ \A u \in Threads : pc'[u] = "wake" => pc[u] = "wake"
        /\ asleep' = asleep /\ arg' = arg
    BY <1>2 DEF CreateHere
  <2> QED BY <2>1, AheadKept
<1>3. CASE SetWaitState(t) \/ ThreadEnding(t)
  <2>1. /\ \A u \in Threads : pc'[u] = "wake" => pc[u] = "wake"
        /\ asleep' = asleep /\ arg' = arg
    BY <1>3 DEF SetWaitState, ThreadEnding
  <2> QED BY <2>1, AheadKept
<1>4. CASE CallWakeUp(t)
  <2>1. arg'[t] = 0 /\ asleep'[t] \subseteq Threads
    BY <1>4 DEF CallWakeUp
  <2>2. \A s \in Threads : 0 <= s
    BY DEF Threads
  <2>3. \A u \in Threads \ {t} :
          pc'[u] = pc[u] /\ arg'[u] = arg[u] /\ asleep'[u] = asleep[u]
    BY <1>4 DEF CallWakeUp
  <2> QED BY <2>1, <2>2, <2>3 DEF AheadOfWake
<1>5. CASE WakeUp(t)
  <2>1. /\ pc' = pc /\ arg'[t] = arg[t] + 1 /\ arg[t] \in Int
        /\ asleep'[t] = asleep[t] \ {arg[t]}
        /\ \A u \in Threads \ {t} : arg'[u] = arg[u] /\ asleep'[u] \subseteq asleep[u]
    BY <1>5, SchedulerAssumption DEF WakeUp
  <2>2. ASSUME NEW s \in asleep'[t], pc[t] = "wake"
        PROVE  arg'[t] <= s
    <3>1. s \in asleep[t] /\ s # arg[t] /\ s \in Int
      BY <2>1, <2>2 DEF Threads
    <3>2. arg[t] <= s
      BY <2>2, <3>1 DEF AheadOfWake
    <3> QED BY <2>1, <3>1, <3>2
  <2> QED BY <2>1, <2>2 DEF AheadOfWake
<1> QED BY <1>1, <1>2, <1>3, <1>4, <1>5 DEF Call

\* The sleepers stay ahead of the loop in every step.
LEMMA NextAhead == WakeInv /\ [Next]_vars => WakeInv'
<1> SUFFICES ASSUME WakeInv, [Next]_vars PROVE AheadOfWake'
  BY NextFlags DEF WakeInv
<1>1. ASSUME NEW slot \in Threads, NEW p \in Priorities, BootCreate(slot, p)
      PROVE  AheadOfWake'
  <2>1. /\ \A u \in Threads : pc'[u] = "wake" => pc[u] = "wake"
        /\ asleep' = asleep /\ arg' = arg
    BY <1>1 DEF BootCreate, Goto, WakeInv, FlagsInv, TypeOK
  <2> QED BY <2>1, AheadKept
<1>2. CASE Tick \/ WakeUpThreadsInt \/ UNCHANGED vars
  <2>1. pc' = pc /\ arg' = arg /\ \A u \in Threads : asleep'[u] \subseteq asleep[u]
    BY <1>2 DEF Tick, WakeUpThreadsInt, callVars, vars, history
  <2> QED BY <2>1, AheadKept
<1> QED BY <1>1, <1>2, CallAhead DEF Next

\* Only the return of wake_up_threads, after the last slot, takes a thread from
\* it back to its own code, and nobody sleeps ahead of the last slot.
LEMMA ReturnFindsNobody ==
  ASSUME WakeInv, [Next]_vars, NEW t \in Threads, pc[t] = "wake", pc'[t] = "run"
  PROVE  asleep[t] = {}
<1> USE DEF WakeInv, FlagsInv, TypeOK, Goto
<1>0. Created(t)
  BY DEF SlotsMatch
<1>1. ASSUME NEW slot \in Threads, NEW p \in Priorities, BootCreate(slot, p)
      PROVE  FALSE
  BY <1>0, <1>1 DEF BootCreate
<1>2. ASSUME NEW u \in Threads, Call(u)
      PROVE  u = t /\ WakeUpReturns(t)
  BY <1>0, <1>2
     DEF Call, CallCreate, CreateHere, CreateNext, SetWaitState, WaitEnds, CallWakeUp, WakeUp,
         WakeUpReturns, CallJoin, JoinReturns, ThreadEnding, InCode
<1>3. CASE WakeUpReturns(t)
  <2>1. arg[t] = N
    BY <1>3 DEF WakeUpReturns
  <2>2. \A s \in asleep[t] : N <= s /\ s \in 0..N - 1
    BY <2>1 DEF AheadOfWake, Threads
  <2> QED BY <2>2, SchedulerAssumption
<1>4. CASE Tick \/ WakeUpThreadsInt \/ UNCHANGED vars
  BY <1>4 DEF Tick, WakeUpThreadsInt, callVars, vars
<1> QED BY <1>1, <1>2, <1>3, <1>4 DEF Next

\* Nobody is in wake_up_threads at the start.
LEMMA InitAhead == Init => WakeInv
BY InitFlags DEF Init, WakeInv, AheadOfWake

\* When wake_up_threads returns, everybody has been woken who slept when it was
\* called, although other threads and the interrupts run between its sections.
THEOREM WakeUpWakesEverybody == Spec => EverybodyWoken
<1>1. WakeInv /\ [Next]_vars =>
        [\A t \in Threads : pc[t] = "wake" /\ pc'[t] = "run" => asleep[t] = {}]_vars
  BY ReturnFindsNobody
<1>2. Spec => []WakeInv
  BY InitAhead, NextAhead, PTL DEF Spec
<1> QED BY <1>1, <1>2, PTL DEF Spec, EverybodyWoken

-----------------------------------------------------------------------------
(* The deadline. *)

TurnInv == TypeOK /\ CountersBounded /\ OverdueCounted

\* At most all the other threads can have been served while one was overdue.
LEMMA ServedBounded ==
  ASSUME TypeOK, NEW t \in Threads
  PROVE  /\ IsFiniteSet(Served(t)) /\ Cardinality(Served(t)) \in Nat
         /\ Cardinality(Served(t)) <= N - 1
<1>1. N \in Nat /\ 0 <= N - 1
  BY SchedulerAssumption
<1>2. IsFiniteSet(Threads) /\ Cardinality(Threads) = N
  BY <1>1, FS_Interval DEF Threads
<1>3. IsFiniteSet(Threads \ {t}) /\ Cardinality(Threads \ {t}) = N - 1
  BY <1>2, FS_RemoveElement
<1>4. Served(t) \in SUBSET (Threads \ {t})
  BY DEF Served
<1> QED BY <1>3, <1>4, FS_Subset, FS_CardinalityType

\* So the invariant gives the deadline.
LEMMA TurnMeetsDeadline == TurnInv => Deadline
<1> SUFFICES ASSUME TurnInv, NEW t \in Threads PROVE late[t] <= icnt[t] + N - 1
  BY DEF Deadline
<1>1. late[t] \in Nat /\ cnt[t] \in Nat /\ icnt[t] \in Nat /\ N \in Nat \ {0}
  BY SchedulerAssumption DEF TurnInv, TypeOK
<1>2. CASE Overdue(t) > 0
  <2>1. cnt[t] = 0 /\ Overdue(t) <= Cardinality(Served(t))
    BY <1>2 DEF TurnInv, OverdueCounted
  <2>2. Cardinality(Served(t)) \in Nat /\ Cardinality(Served(t)) <= N - 1
    BY ServedBounded DEF TurnInv
  <2> QED BY <1>1, <2>1, <2>2 DEF Overdue
<1>3. CASE ~(Overdue(t) > 0)
  BY <1>1, <1>3 DEF Overdue
<1> QED BY <1>2, <1>3

\* A counter only changes by a tick, or with its initial value when a thread
\* is installed, and stays within its bounds.
LEMMA CountersStep ==
  ASSUME TypeOK, CountersBounded, [Next]_vars
  PROVE  CountersBounded'
<1> USE DEF TypeOK, CountersBounded
<1>1. CASE Tick
  <2>1. \A t \in Threads : Decremented(cnt[t]) <= cnt[t]
    BY DEF Decremented
  <2>2. \A t \in Threads : cnt'[t] = icnt[t] \/ cnt'[t] = Decremented(cnt[t])
    BY <1>1 DEF Tick, SysTick
  <2>3. \A t \in Threads : Decremented(cnt[t]) \in Nat
    BY DEF Decremented
  <2>4. icnt' = icnt
    BY <1>1 DEF Tick, SysTick
  <2>5. ASSUME NEW t \in Threads
        PROVE  PRIORITY_MAX <= icnt[t] /\ cnt'[t] <= icnt[t]
    BY <2>1, <2>2, <2>3
  <2> QED BY <2>4, <2>5
<1>2. ASSUME NEW slot \in Threads, NEW p \in Nat, Install(slot, p)
      PROVE  CountersBounded'
  <2>1. Clamped(p) \in Nat /\ PRIORITY_MAX <= Clamped(p)
    BY ClampedType
  <2>2. \A t \in Threads :
          \/ icnt'[t] = Clamped(p) /\ cnt'[t] = Clamped(p)
          \/ icnt'[t] = icnt[t] /\ cnt'[t] = cnt[t]
    BY <1>2 DEF Install
  <2> QED BY <2>1, <2>2
<1>3. ASSUME NEW slot \in Threads, NEW p \in Priorities, BootCreate(slot, p)
      PROVE  CountersBounded'
  BY <1>2, <1>3, KernelAssumption DEF BootCreate
<1>4. ASSUME NEW t \in Threads, CreateHere(t) PROVE CountersBounded'
  BY <1>2, <1>4 DEF CreateHere
<1>5. CASE UNCHANGED <<cnt, icnt>>
  BY <1>5
<1>6. ASSUME NEW t \in Threads, Call(t)
      PROVE  CreateHere(t) \/ UNCHANGED <<cnt, icnt>>
  BY <1>6
     DEF Call, CallCreate, CreateNext, SetWaitState, WaitEnds, CallWakeUp, WakeUp,
         WakeUpReturns, CallJoin, JoinReturns, ThreadEnding, schedulerVars
<1> QED BY <1>1, <1>3, <1>4, <1>5, <1>6 DEF Next, WakeUpThreadsInt, vars, schedulerVars

\* After any step the set of the threads served is finite again.
LEMMA ServedAfterwards ==
  ASSUME NEW t \in Threads
  PROVE  IsFiniteSet(Served(t)') /\ Cardinality(Served(t)') \in Nat
<1>1. IsFiniteSet(Threads)
  BY SchedulerAssumption, FS_Interval DEF Threads
<1>2. Served(t)' \in SUBSET Threads
  BY DEF Served
<1> QED BY <1>1, <1>2, FS_Subset, FS_CardinalityType

\* A thread whose delay starts anew is not overdue.
LEMMA FreshTurn ==
  ASSUME TypeOK', CountersBounded', NEW t \in Threads, late'[t] = 0
  PROVE  ~(Overdue(t)' > 0)
<1>1. cnt'[t] \in Nat /\ icnt'[t] \in Nat /\ cnt'[t] <= icnt'[t]
  BY DEF CountersBounded, TypeOK
<1> QED BY <1>1 DEF Overdue

\* Without a tick a thread's delay stays what it is or starts anew, and no
\* counter that is still high goes down.
LEMMA QuietTurn ==
  ASSUME TurnInv, TypeOK', CountersBounded', NEW t \in Threads,
         \A s \in Threads : cnt'[s] = cnt[s] \/ cnt'[s] >= PRIORITY_MAX,
         late'[t] = 0 \/ (late'[t] = late[t] /\ cnt'[t] = cnt[t] /\ icnt'[t] = icnt[t])
  PROVE  Overdue(t)' > 0 => cnt'[t] = 0 /\ Overdue(t)' <= Cardinality(Served(t)')
<1> USE DEF TurnInv, TypeOK
<1>0. N \in Nat /\ PRIORITY_MAX = N
  BY SchedulerAssumption DEF PRIORITY_MAX
<1>1. CASE late'[t] = 0
  BY <1>1, FreshTurn
<1>2. CASE late'[t] = late[t] /\ cnt'[t] = cnt[t] /\ icnt'[t] = icnt[t]
  <2>1. Overdue(t)' = Overdue(t) /\ Overdue(t) \in Int
    BY <1>2 DEF Overdue
  <2>2. ASSUME Overdue(t) > 0
        PROVE  Cardinality(Served(t)) <= Cardinality(Served(t)')
    <3>1. ASSUME NEW s \in Served(t) PROVE s \in Served(t)'
      <4>1. cnt[s] \in Nat /\ cnt'[s] \in Nat /\ s \in Threads \ {t}
        BY <3>1 DEF Served
      <4>2. cnt'[s] > N - Overdue(t)
        BY <1>0, <2>1, <2>2, <3>1, <4>1 DEF Served
      <4> QED BY <2>1, <4>1, <4>2 DEF Served
    <3> QED BY <3>1, ServedAfterwards, FS_Subset
  <2>3. Cardinality(Served(t)) \in Nat /\ Cardinality(Served(t)') \in Nat
    BY ServedBounded, ServedAfterwards
  <2>4. Overdue(t) > 0 => cnt[t] = 0 /\ Overdue(t) <= Cardinality(Served(t))
    BY DEF OverdueCounted
  <2> QED BY <1>2, <2>1, <2>2, <2>3, <2>4
<1> QED BY <1>1, <1>2

\* A tick that passes over a thread whose counter has run down serves another
\* one, which had not been served while the first was overdue: its counter was
\* as low, and is now at least PRIORITY_MAX.
LEMMA TickTurn ==
  ASSUME TurnInv, Tick, NEW t \in Threads, TypeOK', CountersBounded'
  PROVE  Overdue(t)' > 0 => cnt'[t] = 0 /\ Overdue(t)' <= Cardinality(Served(t)')
<1> DEFINE c == Chosen
           k == Overdue(t)
           W == IF k > 0 THEN Served(t) ELSE {}
<1>0. /\ N \in Nat /\ PRIORITY_MAX = N /\ c \in Threads
      /\ \A s \in Threads : cnt[s] \in Nat /\ icnt[s] \in Nat
      /\ late[t] \in Nat /\ k \in Int
  BY SchedulerAssumption, ChosenInThreads DEF PRIORITY_MAX, TurnInv, TypeOK, Overdue
<1>1. CASE ~(Ready(t) /\ t # c)
  BY <1>1, FreshTurn DEF Tick
<1>2. CASE Ready(t) /\ t # c
  <2>1. /\ late'[t] = late[t] + 1 /\ icnt' = icnt
        /\ \A s \in Threads : cnt'[s] = IF s = c THEN icnt[s] ELSE Decremented(cnt[s])
    BY <1>2 DEF Tick, SysTick
  <2>2. k > 0 => cnt[t] = 0 /\ k <= Cardinality(Served(t))
    BY DEF TurnInv, OverdueCounted
  <2>3. CASE cnt[t] # 0
    <3>1. Overdue(t)' = k
      BY <1>0, <1>2, <2>1, <2>3 DEF Overdue, Decremented
    <3> QED BY <1>0, <2>2, <2>3, <3>1
  <2>4. CASE cnt[t] = 0
    <3>1. Overdue(t)' = k + 1 /\ cnt'[t] = 0
      BY <1>0, <1>2, <2>1, <2>4 DEF Overdue, Decremented
    <3>2. cnt[c] <= 1
      <4>1. Decremented(cnt[c]) <= 0
        BY <1>2, <2>4, ChosenIsDue DEF TurnInv, TypeOK
      <4> QED BY <1>0, <4>1 DEF Decremented
    <3>3. IsFiniteSet(W) /\ Cardinality(W) \in Nat /\ (k > 0 => k <= Cardinality(W))
      BY <2>2, ServedBounded, FS_EmptySet DEF TurnInv
    <3>4. c \notin W
      <4>1. k > 0 => k <= N - 1
        BY <1>0, <2>2, ServedBounded DEF TurnInv
      <4> QED BY <1>0, <3>2, <4>1 DEF Served
    <3>5. ASSUME k >= 0, NEW s \in W \cup {c}
          PROVE  s \in Served(t)'
      <4>1. CASE s = c
        <5>1. cnt'[c] >= N
          BY <1>0, <2>1 DEF TurnInv, CountersBounded
        <5>2. cnt'[c] > N - (k + 1) /\ c \in Threads \ {t}
          BY <1>0, <1>2, <2>1, <3>5, <5>1
        <5> QED BY <3>1, <4>1, <5>2 DEF Served
      <4>2. CASE s \in W
        <5>1. s \in Threads \ {t} /\ cnt[s] > N - k /\ s # c /\ cnt[s] \in Nat
          BY <1>0, <3>4, <4>2 DEF Served
        <5>2. k <= N - 1
          BY <1>0, <2>2, <4>2, ServedBounded DEF TurnInv
        <5>3. cnt'[s] > N - (k + 1)
          BY <1>0, <2>1, <5>1, <5>2 DEF Decremented
        <5> QED BY <3>1, <5>1, <5>3 DEF Served
      <4> QED BY <3>5, <4>1, <4>2
    <3>6. Cardinality(W \cup {c}) = Cardinality(W) + 1
      BY <3>3, <3>4, FS_AddElement
    <3>7. k >= 0 => Cardinality(W \cup {c}) <= Cardinality(Served(t)')
      BY <3>5, ServedAfterwards, FS_Subset
    <3>8. Cardinality(Served(t)') \in Nat
      BY ServedAfterwards
    <3> HIDE DEF W, k
    <3> QED BY <1>0, <3>1, <3>3, <3>6, <3>7, <3>8
  <2> QED BY <2>3, <2>4
<1> QED BY <1>1, <1>2

\* What a step other than a tick does to the counters and the delays.
LEMMA QuietStep ==
  ASSUME TypeOK, [Next]_vars, ~Tick
  PROVE  /\ \A s \in Threads : cnt'[s] = cnt[s] \/ cnt'[s] >= PRIORITY_MAX
         /\ \A t \in Threads : \/ late'[t] = 0
                               \/ /\ late'[t] = late[t]
                                  /\ cnt'[t] = cnt[t] /\ icnt'[t] = icnt[t]
<1> USE DEF TypeOK
<1>1. ASSUME NEW slot \in Threads, NEW p \in Nat, Install(slot, p)
      PROVE  /\ \A s \in Threads : cnt'[s] = cnt[s] \/ cnt'[s] >= PRIORITY_MAX
             /\ \A t \in Threads : \/ late'[t] = 0
                                   \/ /\ late'[t] = late[t]
                                      /\ cnt'[t] = cnt[t] /\ icnt'[t] = icnt[t]
  <2>1. Clamped(p) \in Nat /\ PRIORITY_MAX <= Clamped(p)
    BY ClampedType
  <2>2. PRIORITY_MAX \in Nat
    BY SchedulerAssumption DEF PRIORITY_MAX
  <2>3. Clamped(p) >= PRIORITY_MAX
    BY <2>1, <2>2
  <2> QED BY <1>1, <2>3 DEF Install
<1>2. ASSUME NEW slot \in Threads, NEW p \in Priorities, BootCreate(slot, p)
      PROVE  Install(slot, p) /\ p \in Nat
  BY <1>2, KernelAssumption DEF BootCreate
<1>3. ASSUME NEW t \in Threads, CreateHere(t)
      PROVE  Install(arg[t], prio[t]) /\ arg[t] \in Threads /\ prio[t] \in Nat
  BY <1>3 DEF CreateHere
<1>4. ASSUME NEW t \in Threads, SetWaitState(t) \/ ThreadEnding(t)
      PROVE  late' = [late EXCEPT ![t] = 0] /\ cnt' = cnt /\ icnt' = icnt
  BY <1>4 DEF SetWaitState, ThreadEnding
<1>5. ASSUME NEW t \in Threads, Call(t)
      PROVE  \/ CreateHere(t) \/ SetWaitState(t) \/ ThreadEnding(t)
             \/ UNCHANGED <<cnt, icnt, late>>
  BY <1>5
     DEF Call, CallCreate, CreateNext, WaitEnds, CallWakeUp, WakeUp, WakeUpReturns,
         CallJoin, JoinReturns, schedulerVars, history
<1>6. CASE WakeUpThreadsInt \/ UNCHANGED vars
  BY <1>6 DEF WakeUpThreadsInt, vars, schedulerVars, history
<1> QED BY <1>1, <1>2, <1>3, <1>4, <1>5, <1>6 DEF Next

\* The counting invariant holds at the start and after every step.
LEMMA InitTurns == Init => TurnInv
<1> SUFFICES ASSUME Init PROVE CountersBounded /\ OverdueCounted
  BY InitTypes DEF TurnInv
<1>1. CountersBounded /\ \A t \in Threads : late[t] = 0 /\ cnt[t] = icnt[t] /\ icnt[t] \in Nat
  BY SchedulerAssumption DEF Init, SchedulerInit, CountersBounded, PRIORITY_MAX
<1> QED BY <1>1 DEF OverdueCounted, Overdue

LEMMA NextTurns == TurnInv /\ [Next]_vars => TurnInv'
<1> SUFFICES ASSUME TurnInv, [Next]_vars PROVE TurnInv'
  OBVIOUS
<1>1. TypeOK' /\ CountersBounded'
  BY NextTypes, CountersStep DEF TurnInv
<1>2. ASSUME NEW t \in Threads
      PROVE  Overdue(t)' > 0 => cnt'[t] = 0 /\ Overdue(t)' <= Cardinality(Served(t)')
  <2>1. CASE Tick
    BY <1>1, <2>1, TickTurn
  <2>2. CASE ~Tick
    BY <1>1, <2>2, QuietStep, QuietTurn DEF TurnInv
  <2> QED BY <2>1, <2>2
<1>3. OverdueCounted'
  BY <1>2 DEF OverdueCounted
<1> QED BY <1>1, <1>3 DEF TurnInv

\* No thread starves, and by when its turn comes is known: a ready thread is
\* passed over for no more ticks than its priority says and one for every other
\* thread, whatever the threads do in the meantime.
THEOREM DeadlineMet == Spec => []Deadline
BY InitTurns, NextTurns, TurnMeetsDeadline, PTL DEF Spec

=============================================================================
