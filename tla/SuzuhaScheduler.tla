--------------------------- MODULE SuzuhaScheduler ---------------------------
(***************************************************************************)
(* The thread table and the scheduler of SuzuhaOS (suzuha/kernel/kernel.c): *)
(* what the kernel calls and the libraries on top of them are built from.  *)
(* One processor: only the thread that `current` names takes steps, and a  *)
(* section between sched_off and sched_on is a single step, so that SysTick *)
(* comes between any two of them.                                          *)
(***************************************************************************)
EXTENDS Integers, FiniteSets

CONSTANTS
  N,             \* THREADS_MAX_COUNT
  PRIORITY_MIN   \* the null thread's priority, 0xff

ASSUME SchedulerAssumption == N \in Nat \ {0} /\ PRIORITY_MIN \in Nat /\ PRIORITY_MIN >= N

PRIORITY_MAX == N
Threads == 0..N - 1
SYSTEM_INIT == -1   \* __current_thread__ before the first SysTick

VARIABLES
  flag,      \* TF_CREATED and TF_WAITING of every slot of __thread__
  cnt,       \* the counter of every slot
  icnt,      \* its initial value, the priority
  current    \* __current_thread__

schedulerVars == <<flag, cnt, icnt, current>>

Created(t) == "CREATED" \in flag[t]
Waiting(t) == "WAITING" \in flag[t]

Ready(t) == Created(t) /\ ~Waiting(t)

\* kernel_init: only the null thread, in the first slot.
SchedulerInit ==
  /\ flag = [t \in Threads |-> IF t = 0 THEN {"CREATED"} ELSE {}]
  /\ icnt = [t \in Threads |-> IF t = 0 THEN PRIORITY_MIN ELSE PRIORITY_MAX]
  /\ cnt = icnt
  /\ current = SYSTEM_INIT

\* Mutant of Decremented: without the test for zero.
DecrementedBelow(n) == n - 1
Decremented(n) == IF n = 0 THEN 0 ELSE n - 1

\* scheduler(): thread i is compared with the best one so far, whose counter
\* has been decremented in the same pass, and is itself decremented after that;
\* the choice among the threads below i, and the value it is compared by.
Best[i \in 0..N] ==
  IF i = 0 THEN 0
  ELSE LET t == i - 1
           m == Best[i - 1]
           bar == IF m < t THEN Decremented(cnt[m]) ELSE cnt[m]
       IN IF Ready(t) /\ cnt[t] < bar THEN t ELSE m
Chosen == Best[N]

\* Mutant of SysTick: the chosen thread's counter is not set again.
SysTickNoReload ==
  /\ current' = Chosen
  /\ cnt' = [t \in Threads |-> Decremented(cnt[t])]
  /\ UNCHANGED <<flag, icnt>>

\* SysTick_Handler: the context is switched to the chosen thread.
SysTick ==
  /\ current' = Chosen
  /\ cnt' = [t \in Threads |-> IF t = Chosen THEN icnt[t] ELSE Decremented(cnt[t])]
  /\ UNCHANGED <<flag, icnt>>

\* The flag |= and flag &= ~ of set_wait_state and wake_up_threads.
SetWaiting(t) == flag' = [flag EXCEPT ![t] = @ \cup {"WAITING"}]
ClearWaiting(t) == flag' = [flag EXCEPT ![t] = @ \ {"WAITING"}]
=============================================================================
