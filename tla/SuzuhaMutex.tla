------------------------------ MODULE SuzuhaMutex ------------------------------
(***************************************************************************)
(* The mutex of SuzuhaOS (suzuha/lib/mutex.c): a flag, threads put to sleep *)
(* while it is set, and a wake-up of every thread when it is cleared, over *)
(* the scheduler that preempts them.                                       *)
(***************************************************************************)
EXTENDS SuzuhaScheduler

CONSTANT Priority   \* what create_thread made of the priority of each worker

Workers == Threads \ {0}

ASSUME MutexAssumption == Workers # {} /\ Priority \in [Workers -> Nat]

VARIABLES
  mutex,   \* the mutex_t
  pc,      \* where in mutex_lock or mutex_unlock each worker is
  slot     \* i of wake_up_threads

vars == <<schedulerVars, mutex, pc, slot>>

\* Every worker has been created when kernel_start enables the first SysTick.
Init ==
  /\ flag = [t \in Threads |-> {"CREATED"}]
  /\ icnt = [t \in Threads |-> IF t = 0 THEN PRIORITY_MIN ELSE Priority[t]]
  /\ cnt = icnt
  /\ current = SYSTEM_INIT
  /\ mutex = "UNLOCK"
  /\ pc = [t \in Workers |-> "run"]
  /\ slot = [t \in Workers |-> 0]

At(t, l) == current = t /\ pc[t] = l
Goto(t, l) == pc' = [pc EXCEPT ![t] = l]

Tick == SysTick /\ UNCHANGED <<mutex, pc, slot>>

CallLock(t) ==
  /\ At(t, "run")
  /\ Goto(t, "look")
  /\ UNCHANGED <<schedulerVars, mutex, slot>>

\* The first masked read: asleep if it is locked, otherwise on to take it.
Look(t) ==
  /\ At(t, "look")
  /\ Goto(t, IF mutex = "UNLOCK" THEN "take" ELSE "doze")
  /\ UNCHANGED <<schedulerVars, mutex, slot>>

\* set_wait_state, a masked section of its own ...
Doze(t) ==
  /\ At(t, "doze")
  /\ SetWaiting(t)
  /\ Goto(t, "sleep")
  /\ UNCHANGED <<cnt, icnt, current, mutex, slot>>

\* ... that polls the flag until it is clear.
Awake(t) ==
  /\ At(t, "sleep")
  /\ ~Waiting(t)
  /\ Goto(t, "look")
  /\ UNCHANGED <<schedulerVars, mutex, slot>>

\* Mutant of Take: the second read is left out.
TakeUnread(t) ==
  /\ At(t, "take")
  /\ Goto(t, "critical")
  /\ mutex' = "LOCK"
  /\ UNCHANGED <<schedulerVars, slot>>

\* The second read is masked together with the write.  When somebody was faster
\* the outer loop comes to the first read with the interrupts still off.
Take(t) ==
  /\ At(t, "take")
  /\ Goto(t, IF mutex = "UNLOCK" THEN "critical" ELSE "doze")
  /\ mutex' = "LOCK"
  /\ UNCHANGED <<schedulerVars, slot>>

\* Mutant of Unlock: the threads are woken, but the mutex stays locked.
UnlockWakeOnly(t) ==
  /\ At(t, "critical")
  /\ Goto(t, "wake")
  /\ slot' = [slot EXCEPT ![t] = 0]
  /\ UNCHANGED <<schedulerVars, mutex>>

\* mutex_unlock: mutex_init, then wake_up_threads slot by slot.
Unlock(t) ==
  /\ At(t, "critical")
  /\ mutex' = "UNLOCK"
  /\ Goto(t, "wake")
  /\ slot' = [slot EXCEPT ![t] = 0]
  /\ UNCHANGED schedulerVars

WakeUp(t) ==
  /\ At(t, "wake")
  /\ ClearWaiting(slot[t])
  /\ slot' = [slot EXCEPT ![t] = @ + 1]
  /\ IF slot[t] + 1 = N THEN Goto(t, "run") ELSE UNCHANGED pc
  /\ UNCHANGED <<cnt, icnt, current, mutex>>

\* thread_ending, of a thread that does not hold the mutex.
ThreadEnding(t) ==
  /\ At(t, "run")
  /\ flag' = [flag EXCEPT ![t] = {}]
  /\ Goto(t, "ended")
  /\ UNCHANGED <<cnt, icnt, current, mutex, slot>>

Step(t) ==
  \/ CallLock(t) \/ Look(t) \/ Doze(t) \/ Awake(t) \/ Take(t)
  \/ Unlock(t) \/ WakeUp(t) \/ ThreadEnding(t)

Next == Tick \/ \E t \in Workers : Step(t)

Spec == Init /\ [][Next]_vars

\* The timer never stops, and a thread that gets the processor again and again
\* executes its instructions: a tick lasts much longer than one of them.
FairSpec ==
  /\ Spec
  /\ WF_vars(Tick)
  /\ \A t \in Workers : SF_vars(Step(t))
-----------------------------------------------------------------------------
\* The variables keep their types.
TypeOK ==
  /\ flag \in [Threads -> SUBSET {"CREATED", "WAITING"}]
  /\ cnt \in [Threads -> Nat] /\ icnt \in [Threads -> Nat]
  /\ current \in Threads \cup {SYSTEM_INIT}
  /\ mutex \in {"LOCK", "UNLOCK"}
  /\ pc \in [Workers -> {"run", "look", "doze", "sleep", "take", "critical", "wake", "ended"}]
  /\ slot \in [Workers -> 0..N]

Holders == {t \in Workers : pc[t] = "critical"}

\* At most one thread is between mutex_lock and mutex_unlock, wherever SysTick
\* comes between the two reads and the write.
MutualExclusion == \A t, u \in Holders : t = u

Abstract == INSTANCE AbstractMutex WITH holders <- Holders

\* The flag, the two reads and the sleeping together are a mutex: whoever gets it
\* found nobody inside, and only the holder lets the next one in.
ImplementsMutex == Abstract!Spec

NobodyEnded == \A t \in Workers : pc[t] # "ended"

\* While no thread has ended, the threads are never all asleep in mutex_lock,
\* although the flag may be set after the unlock it waits for.
SomebodyAwake == NobodyEnded => \E t \in Workers : ~Waiting(t)

\* Threads that lock and unlock for ever go on doing so: one of them always gets
\* the mutex again.  It needs the scheduler to give every ready thread its turn.
GoesOn == []NobodyEnded => []<>(Holders # {})

\* "sleep thread, waiting for mutex_unlock in other threads": a sleeping thread
\* has an unlock ahead of it that will wake it.
SleepsForUnlock ==
  \A t \in Workers :
    pc[t] = "sleep" /\ Waiting(t) =>
      mutex = "LOCK" \/ \E u \in Workers : pc[u] = "wake" /\ slot[u] <= t
=============================================================================
