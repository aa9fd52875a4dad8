----------------------------- MODULE SuzuhaKernel -----------------------------
(***************************************************************************)
(* The kernel calls of SuzuhaOS under preemption: threads that create and  *)
(* join others, wait, wake everybody and end, in any order.                *)
(***************************************************************************)
EXTENDS SuzuhaScheduler

CONSTANTS
  Priorities,   \* what create_thread may be given
  MaxAge        \* bound on the threads a slot has, one after another

ASSUME KernelAssumption == Priorities \subseteq Nat /\ MaxAge \in Nat \ {0}

VARIABLES
  pc,       \* where in its call each thread is
  arg,      \* the call's loop index or, for join, the thread waited for
  prio,     \* the priority create_thread was given
  age,      \* how many threads each slot has had so far (history)
  late,     \* the ticks for which a ready thread has been passed over (history)
  asleep    \* per caller of wake_up_threads, who has slept ever since (history)

callVars == <<pc, arg, prio>>
history == <<age, late, asleep>>
vars == <<schedulerVars, callVars, history>>

Init ==
  /\ SchedulerInit
  /\ pc = [t \in Threads |-> IF t = 0 THEN "run" ELSE "none"]
  /\ arg = [t \in Threads |-> 0]
  /\ prio = [t \in Threads |-> 0]
  /\ age = [t \in Threads |-> IF t = 0 THEN 1 ELSE 0]
  /\ late = [t \in Threads |-> 0]
  /\ asleep = [t \in Threads |-> {}]

Goto(t, l) == pc' = [pc EXCEPT ![t] = l]

\* A thread in its own code: the null thread only loops.
InCode(t) == current = t /\ t # 0 /\ pc[t] = "run"

-----------------------------------------------------------------------------
\* The interrupt may come whenever no thread has the interrupts masked.
Tick ==
  /\ SysTick
  /\ late' = [t \in Threads |-> IF Ready(t) /\ t # Chosen THEN late[t] + 1 ELSE 0]
  /\ UNCHANGED <<callVars, age, asleep>>

\* wake_up_threads_int, from another interrupt's handler: nothing interrupts it.
WakeUpThreadsInt ==
  /\ \E t \in Threads : Waiting(t)
  /\ flag' = [t \in Threads |-> flag[t] \ {"WAITING"}]
  /\ asleep' = [t \in Threads |-> {}]
  /\ UNCHANGED <<cnt, icnt, current, callVars, age, late>>

-----------------------------------------------------------------------------
(* create_thread. *)

\* Mutant of Clamped: any priority is taken as it is.
NotClamped(p) == p
Clamped(p) == IF p < PRIORITY_MAX THEN PRIORITY_MAX ELSE p

\* A free slot gets its counters and the flag in one masked section.
Install(slot, p) ==
  /\ age[slot] < MaxAge
  /\ flag' = [flag EXCEPT ![slot] = {"CREATED"}]
  /\ icnt' = [icnt EXCEPT ![slot] = Clamped(p)]
  /\ cnt' = [cnt EXCEPT ![slot] = Clamped(p)]
  /\ age' = [age EXCEPT ![slot] = @ + 1]
  /\ late' = [late EXCEPT ![slot] = 0]

\* Before kernel_start there is no SysTick.
BootCreate(slot, p) ==
  /\ current = SYSTEM_INIT
  /\ ~Created(slot)
  /\ \A s \in Threads : s < slot => Created(s)
  /\ Install(slot, p)
  /\ Goto(slot, "run")
  /\ UNCHANGED <<current, arg, prio, asleep>>

CallCreate(t, p) ==
  /\ InCode(t)
  /\ Goto(t, "create")
  /\ arg' = [arg EXCEPT ![t] = 0]
  /\ prio' = [prio EXCEPT ![t] = p]
  /\ UNCHANGED <<schedulerVars, history>>

\* A turn of the loop over the slots finds one that is free ...
CreateHere(t) ==
  /\ current = t /\ pc[t] = "create"
  /\ arg[t] \in Threads /\ ~Created(arg[t])
  /\ Install(arg[t], prio[t])
  /\ pc' = [pc EXCEPT ![t] = "run", ![arg[t]] = "run"]
  /\ UNCHANGED <<current, arg, prio, asleep>>

\* ... or not, and ends without a thread after the last one.
CreateNext(t) ==
  /\ current = t /\ pc[t] = "create"
  /\ arg[t] \in Threads /\ Created(arg[t])
  /\ arg' = [arg EXCEPT ![t] = @ + 1]
  /\ IF arg[t] + 1 = N THEN Goto(t, "run") ELSE UNCHANGED pc
  /\ UNCHANGED <<schedulerVars, prio, history>>

-----------------------------------------------------------------------------
(* set_wait_state, wake_up_threads, join and the end of a thread. *)

\* The flag is set and first read in one masked section.
SetWaitState(t) ==
  /\ InCode(t)
  /\ SetWaiting(t)
  /\ Goto(t, "wait")
  /\ late' = [late EXCEPT ![t] = 0]
  /\ UNCHANGED <<cnt, icnt, current, arg, prio, age, asleep>>

\* Mutant of WaitEnds: the flag is not looked at.
WaitEndsAnyway(t) ==
  /\ current = t /\ pc[t] = "wait"
  /\ Goto(t, "run")
  /\ UNCHANGED <<schedulerVars, arg, prio, history>>

\* The loop around yield, which does nothing, ends when the flag is clear.
WaitEnds(t) ==
  /\ current = t /\ pc[t] = "wait"
  /\ ~Waiting(t)
  /\ Goto(t, "run")
  /\ UNCHANGED <<schedulerVars, arg, prio, history>>

CallWakeUp(t) ==
  /\ InCode(t)
  /\ Goto(t, "wake")
  /\ arg' = [arg EXCEPT ![t] = 0]
  /\ asleep' = [asleep EXCEPT ![t] = {s \in Threads : Waiting(s)}]
  /\ UNCHANGED <<schedulerVars, prio, age, late>>

\* One slot at a time.
WakeUp(t) ==
  /\ current = t /\ pc[t] = "wake"
  /\ arg[t] < N
  /\ ClearWaiting(arg[t])
  /\ arg' = [arg EXCEPT ![t] = @ + 1]
  /\ asleep' = [s \in Threads |-> asleep[s] \ {arg[t]}]
  /\ UNCHANGED <<cnt, icnt, current, pc, prio, age, late>>

\* Mutant of WakeUpReturns: the last slot is left out.
WakeUpReturnsEarly(t) ==
  /\ current = t /\ pc[t] = "wake"
  /\ arg[t] = N - 1
  /\ Goto(t, "run")
  /\ UNCHANGED <<schedulerVars, arg, prio, history>>

WakeUpReturns(t) ==
  /\ current = t /\ pc[t] = "wake"
  /\ arg[t] = N
  /\ Goto(t, "run")
  /\ UNCHANGED <<schedulerVars, arg, prio, history>>

\* join polls the flag of the slot whose number create_thread returned.
CallJoin(t, s) ==
  /\ InCode(t)
  /\ s # t /\ age[s] > 0
  /\ Goto(t, "join")
  /\ arg' = [arg EXCEPT ![t] = s]
  /\ UNCHANGED <<schedulerVars, prio, history>>

JoinReturns(t) ==
  /\ current = t /\ pc[t] = "join"
  /\ ~Created(arg[t])
  /\ Goto(t, "run")
  /\ UNCHANGED <<schedulerVars, arg, prio, history>>

\* thread_ending: the slot is free at once, and the thread loops until the
\* next SysTick takes the processor away for good.
ThreadEnding(t) ==
  /\ InCode(t)
  /\ flag' = [flag EXCEPT ![t] = {}]
  /\ Goto(t, "none")
  /\ late' = [late EXCEPT ![t] = 0]
  /\ UNCHANGED <<cnt, icnt, current, arg, prio, age, asleep>>

-----------------------------------------------------------------------------
Call(t) ==
  \/ \E p \in Priorities : CallCreate(t, p)
  \/ CreateHere(t) \/ CreateNext(t)
  \/ SetWaitState(t) \/ WaitEnds(t)
  \/ CallWakeUp(t) \/ WakeUp(t) \/ WakeUpReturns(t)
  \/ \E s \in Threads : CallJoin(t, s)
  \/ JoinReturns(t) \/ ThreadEnding(t)

Next ==
  \/ \E slot \in Threads, p \in Priorities : BootCreate(slot, p)
  \/ \E t \in Threads : Call(t)
  \/ Tick \/ WakeUpThreadsInt

Spec == Init /\ [][Next]_vars
-----------------------------------------------------------------------------
\* The variables keep their types.
TypeOK ==
  /\ flag \in [Threads -> SUBSET {"CREATED", "WAITING"}]
  /\ cnt \in [Threads -> Nat] /\ icnt \in [Threads -> Nat]
  /\ current \in Threads \cup {SYSTEM_INIT}
  /\ pc \in [Threads -> {"none", "run", "create", "wait", "wake", "join"}]
  /\ arg \in [Threads -> 0..N]
  /\ prio \in [Threads -> Nat]
  /\ age \in [Threads -> Nat] /\ late \in [Threads -> Nat]
  /\ asleep \in [Threads -> SUBSET Threads]

\* No starvation, and a deadline: a ready thread is passed over for no more
\* ticks than its priority says and one for every other thread, although the
\* counters of waiting threads run down too and equal ones favour low slots.
Deadline ==
  \A t \in Threads : late[t] <= icnt[t] + N - 1

\* When wake_up_threads returns, nobody sleeps who did when it was called,
\* whatever happened between its masked sections.
EverybodyWoken ==
  [][\A t \in Threads : pc[t] = "wake" /\ pc'[t] = "run" => asleep[t] = {}]_vars

\* A thread is never waiting unless it is inside set_wait_state: a slot that is
\* reused does not hand its flag on.
WaitingInCall ==
  \A t \in Threads : Waiting(t) => Created(t) /\ pc[t] = "wait"
=============================================================================
