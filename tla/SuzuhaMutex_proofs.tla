-------------------------- MODULE SuzuhaMutex_proofs --------------------------
(***************************************************************************)
(* Mutual exclusion of mutex_lock, for any number of threads and any       *)
(* priorities.  The inductive invariant says that the flag is set exactly  *)
(* while somebody is between lock and unlock; for that nothing about the   *)
(* scheduler is needed, because the deciding read and the write are one     *)
(* masked step.  The types need that it chooses one of the threads.         *)
(***************************************************************************)
EXTENDS SuzuhaMutex, SuzuhaScheduler_proofs

PcTypes == {"run", "look", "doze", "sleep", "take", "critical", "wake", "ended"}

IInv ==
  /\ mutex \in {"LOCK", "UNLOCK"}
  /\ pc \in [Workers -> PcTypes]
  /\ MutualExclusion
  /\ mutex = "LOCK" <=> Holders # {}

\* A step that moves one worker between two places outside the critical section
\* and leaves the mutex alone changes nothing that the invariant speaks of.
LEMMA MoveOutside ==
  ASSUME IInv, NEW t \in Workers, NEW l \in PcTypes \ {"critical"},
         pc[t] # "critical", Goto(t, l) \/ pc' = pc, mutex' = mutex
  PROVE  IInv'
<1>1. pc' \in [Workers -> PcTypes]
  BY DEF IInv, Goto
<1>2. \A u \in Workers : pc'[u] = "critical" <=> pc[u] = "critical"
  BY DEF IInv, Goto
<1>3. Holders' = Holders
  BY <1>2 DEF Holders
<1> QED BY <1>1, <1>3 DEF IInv, MutualExclusion

\* Take keeps the invariant: a worker that finds the mutex free is the only holder.
LEMMA TakeInvariant ==
  ASSUME IInv, NEW t \in Workers, Take(t)
  PROVE  IInv'
<1>1. CASE mutex = "UNLOCK"
  <2>1. mutex' = "LOCK" /\ pc' = [pc EXCEPT ![t] = "critical"]
    BY <1>1 DEF Take, Goto
  <2>2. Holders = {}
    BY <1>1 DEF IInv
  <2>3. pc' \in [Workers -> PcTypes]
    BY <2>1 DEF IInv, PcTypes
  <2>4. Holders' = {t}
    BY <2>1, <2>2 DEF Holders, IInv
  <2> QED BY <2>1, <2>3, <2>4 DEF IInv, MutualExclusion
<1>2. CASE mutex # "UNLOCK"
  <2>1. mutex' = mutex /\ Goto(t, "doze") /\ pc[t] # "critical"
    BY <1>2 DEF Take, IInv, At
  <2> QED BY <2>1, MoveOutside DEF PcTypes
<1> QED BY <1>1, <1>2

\* Unlock keeps the invariant: the holder that leaves was the only one.
LEMMA UnlockInvariant ==
  ASSUME IInv, NEW t \in Workers, Unlock(t)
  PROVE  IInv'
<1>1. mutex' = "UNLOCK" /\ pc' = [pc EXCEPT ![t] = "wake"] /\ t \in Holders
  BY DEF Unlock, Goto, At, Holders
<1>2. Holders = {t}
  BY <1>1 DEF IInv, MutualExclusion, Holders
<1>3. pc' \in [Workers -> PcTypes]
  BY <1>1 DEF IInv, PcTypes
<1>4. Holders' = {}
  BY <1>1, <1>2 DEF Holders, IInv
<1> QED BY <1>1, <1>3, <1>4 DEF IInv, MutualExclusion

\* Every step of a worker keeps the invariant.
LEMMA StepInvariant ==
  ASSUME IInv, NEW t \in Workers, Step(t)
  PROVE  IInv'
<1>1. CASE CallLock(t)
  BY <1>1, MoveOutside DEF CallLock, At, PcTypes
<1>2. CASE Look(t)
  <2>1. PICK l \in {"take", "doze"} : Goto(t, l)
    BY <1>2 DEF Look
  <2> QED BY <1>2, <2>1, MoveOutside DEF Look, At, PcTypes
<1>3. CASE Doze(t)
  BY <1>3, MoveOutside DEF Doze, At, PcTypes
<1>4. CASE Awake(t)
  BY <1>4, MoveOutside DEF Awake, At, PcTypes
<1>5. CASE Take(t)
  BY <1>5, TakeInvariant
<1>6. CASE Unlock(t)
  BY <1>6, UnlockInvariant
<1>7. CASE WakeUp(t)
  BY <1>7, MoveOutside DEF WakeUp, At, PcTypes
<1>8. CASE ThreadEnding(t)
  BY <1>8, MoveOutside DEF ThreadEnding, At, PcTypes
<1> QED BY <1>1, <1>2, <1>3, <1>4, <1>5, <1>6, <1>7, <1>8 DEF Step

LEMMA InitInvariant == Init => IInv
BY DEF Init, IInv, MutualExclusion, Holders, PcTypes

LEMMA NextInvariant == IInv /\ [Next]_vars => IInv'
<1> SUFFICES ASSUME IInv, [Next]_vars PROVE IInv'
  OBVIOUS
<1>1. CASE Tick
  BY <1>1 DEF Tick, IInv, MutualExclusion, Holders
<1>2. ASSUME NEW t \in Workers, Step(t) PROVE IInv'
  BY <1>2, StepInvariant
<1>3. CASE UNCHANGED vars
  BY <1>3 DEF vars, IInv, MutualExclusion, Holders
<1> QED BY <1>1, <1>2, <1>3 DEF Next

\* At most one thread is between mutex_lock and mutex_unlock.
THEOREM Exclusive == Spec => []MutualExclusion
<1>1. IInv => MutualExclusion
  BY DEF IInv
<1> QED BY <1>1, InitInvariant, NextInvariant, PTL DEF Spec

\* Places outside the critical section are the same to the abstract mutex.
LEMMA MoveOutsideStutters ==
  ASSUME IInv, NEW t \in Workers, NEW l \in PcTypes \ {"critical"},
         pc[t] # "critical", Goto(t, l) \/ pc' = pc
  PROVE  Holders' = Holders
<1>1. \A u \in Workers : pc'[u] = "critical" <=> pc[u] = "critical"
  BY DEF IInv, Goto
<1> QED BY <1>1 DEF Holders

\* A step of a worker is a step of the abstract mutex or none: Take with the flag
\* clear acquires, Unlock releases.
LEMMA StepRefines ==
  ASSUME IInv, NEW t \in Workers, Step(t)
  PROVE  Abstract!Next \/ Holders' = Holders
<1>1. CASE Take(t) /\ mutex = "UNLOCK"
  <2>1. pc' = [pc EXCEPT ![t] = "critical"] /\ Holders = {}
    BY <1>1 DEF Take, Goto, IInv
  <2>2. Holders' = {t}
    BY <2>1 DEF Holders, IInv
  <2> QED BY <2>1, <2>2 DEF Abstract!Next, Abstract!Acquire
<1>2. CASE Take(t) /\ mutex # "UNLOCK"
  BY <1>2, MoveOutsideStutters DEF Take, At, PcTypes
<1>3. CASE Unlock(t)
  <2>1. pc' = [pc EXCEPT ![t] = "wake"] /\ t \in Holders
    BY <1>3 DEF Unlock, Goto, At, Holders
  <2>2. Holders = {t}
    BY <2>1 DEF IInv, MutualExclusion, Holders
  <2>3. Holders' = {}
    BY <2>1, <2>2 DEF Holders, IInv
  <2> QED BY <2>2, <2>3 DEF Abstract!Next, Abstract!Release
<1>4. CASE Look(t)
  <2>1. PICK l \in {"take", "doze"} : Goto(t, l)
    BY <1>4 DEF Look
  <2> QED BY <1>4, <2>1, MoveOutsideStutters DEF Look, At, PcTypes
<1>5. CASE CallLock(t) \/ Doze(t) \/ Awake(t) \/ ThreadEnding(t)
  BY <1>5, MoveOutsideStutters DEF CallLock, Doze, Awake, ThreadEnding, At, PcTypes
<1>6. CASE WakeUp(t)
  BY <1>6, MoveOutsideStutters DEF WakeUp, At, PcTypes
<1> QED BY <1>1, <1>2, <1>3, <1>4, <1>5, <1>6 DEF Step

\* mutex_lock and mutex_unlock implement the abstract mutex: the initial states map
\* to its initial state and every step to one of its steps or none.
THEOREM MutexIsImplemented == Spec => ImplementsMutex
<1>1. Init => Abstract!Init
  BY DEF Init, Abstract!Init, Holders
<1>2. IInv /\ [Next]_vars => [Abstract!Next]_Holders
  <2> SUFFICES ASSUME IInv, [Next]_vars PROVE Abstract!Next \/ Holders' = Holders
    OBVIOUS
  <2>1. CASE Tick \/ UNCHANGED vars
    BY <2>1 DEF Tick, vars, Holders
  <2>2. ASSUME NEW t \in Workers, Step(t) PROVE Abstract!Next \/ Holders' = Holders
    BY <2>2, StepRefines
  <2> QED BY <2>1, <2>2 DEF Next
<1> QED BY <1>1, <1>2, InitInvariant, NextInvariant, PTL DEF Spec, ImplementsMutex, Abstract!Spec

\* Only a thread in set_wait_state waits, and while the mutex is free somebody is not
\* on the way there: Look and Take send nobody to sleep then.
AwakeInv ==
  /\ IInv
  /\ flag \in [Threads -> SUBSET {"CREATED", "WAITING"}]
  /\ \A t \in Workers : Waiting(t) => pc[t] = "sleep"
  /\ mutex = "UNLOCK" => \E t \in Workers : pc[t] \notin {"doze", "sleep"}

\* Every step of a worker keeps it.
LEMMA StepAwake ==
  ASSUME AwakeInv, NEW t \in Workers, Step(t)
  PROVE  AwakeInv'
<1>1. IInv'
  BY StepInvariant DEF AwakeInv
<1>2. /\ flag \in [Threads -> SUBSET {"CREATED", "WAITING"}] /\ Workers \subseteq Threads
      /\ pc \in [Workers -> PcTypes]
  BY DEF AwakeInv, IInv, Workers
<1>3. CASE CallLock(t)
  BY <1>1, <1>2, <1>3 DEF CallLock, At, Goto, AwakeInv, Waiting, schedulerVars
<1>4. CASE Look(t)
  BY <1>1, <1>2, <1>4 DEF Look, At, Goto, AwakeInv, Waiting, schedulerVars
<1>5. CASE Doze(t)
  BY <1>1, <1>2, <1>5 DEF Doze, At, Goto, AwakeInv, Waiting, SetWaiting
<1>6. CASE Awake(t)
  BY <1>1, <1>2, <1>6 DEF Awake, At, Goto, AwakeInv, Waiting, schedulerVars
<1>7. CASE Take(t)
  BY <1>1, <1>2, <1>7 DEF Take, At, Goto, AwakeInv, Waiting, schedulerVars
<1>8. CASE Unlock(t)
  BY <1>1, <1>2, <1>8 DEF Unlock, At, Goto, AwakeInv, Waiting, schedulerVars
<1>9. CASE WakeUp(t)
  <2>1. \A u \in Workers : Waiting(u)' => Waiting(u)
    BY <1>2, <1>9 DEF WakeUp, ClearWaiting, Waiting
  <2>2. flag' \in [Threads -> SUBSET {"CREATED", "WAITING"}]
    BY <1>2, <1>9 DEF WakeUp, ClearWaiting
  <2>3. \A u \in Workers : u # t => pc'[u] = pc[u]
    BY <1>2, <1>9 DEF WakeUp, Goto
  <2>4. pc[t] = "wake" /\ pc'[t] \in {"wake", "run"} /\ mutex' = mutex
    BY <1>2, <1>9 DEF WakeUp, At, Goto
  <2> QED BY <1>1, <2>1, <2>2, <2>3, <2>4 DEF AwakeInv
<1>10. CASE ThreadEnding(t)
  <2>1. flag' = [flag EXCEPT ![t] = {}] /\ pc' = [pc EXCEPT ![t] = "ended"] /\ mutex' = mutex
    BY <1>10 DEF ThreadEnding, Goto
  <2> QED BY <1>1, <1>2, <2>1 DEF AwakeInv, Waiting
<1> QED BY <1>3, <1>4, <1>5, <1>6, <1>7, <1>8, <1>9, <1>10 DEF Step

\* The threads that share a mutex are never all asleep in mutex_lock.
THEOREM SomebodyIsAwake == Spec => []SomebodyAwake
<1>1. Init => AwakeInv
  <2> SUFFICES ASSUME Init PROVE AwakeInv
    OBVIOUS
  <2>1. Workers # {} /\ Workers \subseteq Threads
    BY MutexAssumption DEF Workers
  <2> QED BY <2>1, InitInvariant DEF Init, AwakeInv, Waiting
<1>2. AwakeInv /\ [Next]_vars => AwakeInv'
  <2> SUFFICES ASSUME AwakeInv, [Next]_vars PROVE AwakeInv'
    OBVIOUS
  <2>1. IInv'
    BY NextInvariant DEF AwakeInv
  <2>2. CASE Tick \/ UNCHANGED vars
    BY <2>1, <2>2 DEF Tick, SysTick, vars, schedulerVars, AwakeInv, Waiting
  <2>3. ASSUME NEW t \in Workers, Step(t) PROVE AwakeInv'
    BY <2>3, StepAwake
  <2> QED BY <2>2, <2>3 DEF Next
<1>3. AwakeInv => SomebodyAwake
  BY DEF AwakeInv, IInv, SomebodyAwake, Holders
<1> QED BY <1>1, <1>2, <1>3, PTL DEF Spec

-----------------------------------------------------------------------------
(* Types. *)

\* The loop of wake_up_threads is at one of the slots while a thread is in it.
TypeInv == TypeOK /\ \A t \in Workers : pc[t] = "wake" => slot[t] \in Threads

\* A step of a worker that is not in wake_up_threads, nor ends in it.
LEMMA StepOutsideTypes ==
  ASSUME TypeInv, NEW t \in Workers, NEW l \in PcTypes \ {"wake"},
         Goto(t, l), slot' = slot, mutex' \in {"LOCK", "UNLOCK"},
         flag' \in [Threads -> SUBSET {"CREATED", "WAITING"}],
         UNCHANGED <<cnt, icnt, current>>
  PROVE  TypeInv'
BY DEF TypeInv, TypeOK, Goto, PcTypes

\* Every step of a worker keeps the types.
LEMMA StepTypes ==
  ASSUME TypeInv, NEW t \in Workers, Step(t)
  PROVE  TypeInv'
<1>0. t \in Threads /\ N \in Nat
  BY SchedulerAssumption DEF Workers
<1>1. CASE CallLock(t) \/ Look(t) \/ Awake(t) \/ Take(t)
  <2>1. /\ \E l \in PcTypes \ {"wake"} : Goto(t, l)
        /\ mutex' \in {"LOCK", "UNLOCK"} /\ slot' = slot
        /\ UNCHANGED schedulerVars
    BY <1>1 DEF CallLock, Look, Awake, Take, PcTypes, TypeInv, TypeOK
  <2>2. flag' \in [Threads -> SUBSET {"CREATED", "WAITING"}] /\ UNCHANGED <<cnt, icnt, current>>
    BY <2>1 DEF schedulerVars, TypeInv, TypeOK
  <2> QED BY <2>1, <2>2, StepOutsideTypes
<1>2. CASE Doze(t) \/ ThreadEnding(t)
  <2>1. /\ \E l \in PcTypes \ {"wake"} : Goto(t, l)
        /\ mutex' \in {"LOCK", "UNLOCK"} /\ slot' = slot
        /\ flag' \in [Threads -> SUBSET {"CREATED", "WAITING"}]
        /\ UNCHANGED <<cnt, icnt, current>>
    BY <1>0, <1>2 DEF Doze, SetWaiting, ThreadEnding, PcTypes, TypeInv, TypeOK
  <2> QED BY <2>1, StepOutsideTypes
<1>3. CASE Unlock(t)
  <2>1. 0 \in Threads /\ 0 \in 0..N
    BY SchedulerAssumption DEF Threads
  <2> QED BY <1>3, <2>1 DEF Unlock, Goto, schedulerVars, TypeInv, TypeOK
<1>4. CASE WakeUp(t)
  <2>1. slot[t] \in 0..N - 1 /\ slot[t] \in Threads
    BY <1>4 DEF WakeUp, At, TypeInv, Threads
  <2>2. slot[t] + 1 \in 0..N /\ (slot[t] + 1 # N => slot[t] + 1 \in Threads)
    BY <1>0, <2>1 DEF Threads
  <2>3. flag' \in [Threads -> SUBSET {"CREATED", "WAITING"}]
    BY <1>4, <2>1 DEF WakeUp, ClearWaiting, TypeInv, TypeOK
  <2>4. slot' = [slot EXCEPT ![t] = slot[t] + 1] /\ slot' \in [Workers -> 0..N]
    BY <1>4, <2>2 DEF WakeUp, TypeInv, TypeOK
  <2>5. pc' \in [Workers -> PcTypes] /\ (pc'[t] = "wake" => slot[t] + 1 # N)
        /\ \A u \in Workers \ {t} : pc'[u] = pc[u]
    BY <1>4 DEF WakeUp, Goto, TypeInv, TypeOK, PcTypes
  <2>6. \A u \in Workers : pc'[u] = "wake" => slot'[u] \in Threads
    BY <2>2, <2>4, <2>5 DEF TypeInv, TypeOK
  <2> QED BY <1>4, <2>3, <2>4, <2>5, <2>6 DEF WakeUp, TypeInv, TypeOK, PcTypes
<1> QED BY <1>1, <1>2, <1>3, <1>4 DEF Step

\* The types are right at first and after every step.
LEMMA InitTypes == Init => TypeInv
BY SchedulerAssumption, MutexAssumption
   DEF Init, TypeInv, TypeOK, Threads, Workers, SYSTEM_INIT

LEMMA NextTypes == TypeInv /\ [Next]_vars => TypeInv'
<1> SUFFICES ASSUME TypeInv, [Next]_vars PROVE TypeInv'
  OBVIOUS
<1>1. CASE Tick
  <2>1. current' \in Threads /\ cnt' \in [Threads -> Nat]
    BY <1>1, ChosenInThreads DEF Tick, SysTick, TypeInv, TypeOK, Decremented
  <2> QED BY <1>1, <2>1 DEF Tick, SysTick, TypeInv, TypeOK
<1>2. CASE UNCHANGED vars
  BY <1>2 DEF vars, schedulerVars, TypeInv, TypeOK
<1> QED BY <1>1, <1>2, StepTypes DEF Next

\* All variables keep their types: the loop of wake_up_threads and the scheduler
\* stay inside the thread table.
THEOREM TypeCorrect == Spec => []TypeOK
<1>1. TypeInv => TypeOK
  BY DEF TypeInv
<1> QED BY <1>1, InitTypes, NextTypes, PTL DEF Spec
=============================================================================
