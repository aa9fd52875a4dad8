------------------------ MODULE SuzuhaScheduler_proofs ------------------------
(***************************************************************************)
(* What the scheduler's pass over the threads computes, for any number of   *)
(* them.  The choice is a recursive function: its defining equation comes   *)
(* first, by induction over a set of numbers, and from the equation what    *)
(* the pass has found after each thread.                                    *)
(***************************************************************************)
EXTENDS SuzuhaScheduler, WellFoundedInduction, TLAPS

-----------------------------------------------------------------------------
(* Induction over the natural numbers, with a set in place of a predicate. *)

\* The numbers are well ordered by <, written as a set of pairs.
LEMMA NatWellOrdered == IsWellFoundedOn({p \in Nat \X Nat : p[1] < p[2]}, Nat)
BY NatLessThanWellFounded DEF OpToRel

\* A set with 0, and with n + 1 for each n in it, has every number.
LEMMA SetInduction ==
  ASSUME NEW S, 0 \in S, \A n \in Nat : n \in S => n + 1 \in S
  PROVE  Nat \subseteq S
<1> DEFINE T == Nat \ S
           R == {p \in Nat \X Nat : p[1] < p[2]}
<1>1. SUFFICES ASSUME T # {} PROVE FALSE
  OBVIOUS
<1>2. IsWellFoundedOn(R, Nat)
  BY NatWellOrdered
<1>3. T \subseteq Nat
  OBVIOUS
<1>4. \E x \in T : \A y \in T : <<y, x>> \notin R
  <2> HIDE DEF T, R
  <2> QED BY <1>1, <1>2, <1>3, WFMin
<1>5. PICK x \in T : \A y \in T : <<y, x>> \notin R
  BY <1>4
<1>6. x - 1 \in Nat
  BY <1>5
<1>7. x - 1 \in T
  BY <1>6, x - 1 + 1 = x
<1>8. <<x - 1, x>> \in R
  BY <1>6
<1> QED BY <1>5, <1>7, <1>8

\* The same from 0 up to n only.
LEMMA IntervalInduction ==
  ASSUME NEW n \in Nat, NEW S, 0 \in S, \A i \in 0..n - 1 : i \in S => i + 1 \in S
  PROVE  0..n \subseteq S
<1> DEFINE T == {i \in Nat : i \in 0..n => i \in S}
<1>1. 0 \in T
  OBVIOUS
<1>2. \A i \in Nat : i \in T => i + 1 \in T
  <2>1. \A i \in Nat : i + 1 \in 0..n => i \in 0..n - 1 /\ i \in 0..n
    OBVIOUS
  <2> QED BY <2>1
<1>3. Nat \subseteq T
  <2> HIDE DEF T
  <2> QED BY <1>1, <1>2, SetInduction
<1> QED BY <1>3

-----------------------------------------------------------------------------
(* The pass of scheduler(). *)

\* One turn of its loop: the choice m so far against thread t.
Turn(m, t) ==
  IF Ready(t) /\ cnt[t] < (IF m < t THEN Decremented(cnt[m]) ELSE cnt[m]) THEN t ELSE m

\* The choice is what its definition says: the recursion is well founded.
LEMMA BestEquation ==
  \A i \in 0..N : Best[i] = IF i = 0 THEN 0 ELSE Turn(Best[i - 1], i - 1)
<1> DEFINE Pass(g, n) == g = [i \in 0..n |-> IF i = 0 THEN 0 ELSE Turn(g[i - 1], i - 1)]
           Defined == {n \in Nat : \E g : Pass(g, n)}
<1>0. N \in Nat
  BY SchedulerAssumption
<1>1. 0 \in Defined
  <2>1. Pass([i \in 0..0 |-> 0], 0)
    OBVIOUS
  <2> QED BY <2>1
<1>2. ASSUME NEW n \in Nat, n \in Defined
      PROVE  n + 1 \in Defined
  <2> HIDE DEF Turn
  <2>1. PICK g : Pass(g, n)
    BY <1>2
  <2> DEFINE h == [i \in 0..n + 1 |-> IF i = n + 1 THEN Turn(g[n], n) ELSE g[i]]
  <2>2. \A i \in 0..n + 1 : h[i] = IF i = 0 THEN 0 ELSE Turn(h[i - 1], i - 1)
    <3> TAKE i \in 0..n + 1
    <3>1. CASE i = n + 1
      <4>1. i # 0 /\ i - 1 = n /\ h[i - 1] = g[n]
        BY <3>1
      <4> QED BY <3>1, <4>1
    <3>2. CASE i \in 0..n /\ i = 0
      BY <2>1, <3>2
    <3>3. CASE i \in 0..n /\ i # 0
      <4>1. h[i] = g[i] /\ h[i - 1] = g[i - 1]
        BY <3>3
      <4>2. g[i] = Turn(g[i - 1], i - 1)
        BY <2>1, <3>3
      <4> QED BY <3>3, <4>1, <4>2
    <3> QED BY <3>1, <3>2, <3>3
  <2>3. Pass(h, n + 1)
    BY <2>2
  <2>4. \E gg : Pass(gg, n + 1)
    <3> HIDE DEF Pass, h
    <3> QED BY <2>3
  <2> QED BY <2>4
<1>3. N \in Defined
  <2> HIDE DEF Defined
  <2> QED BY <1>0, <1>1, <1>2, SetInduction
<1>4. PICK g : Pass(g, N)
  BY <1>3
<1>5. Pass(Best, N)
  BY <1>4, <1>0 DEF Best, Turn
<1> QED BY <1>5

\* After the turn of thread i - 1 the choice is one of the threads below i.
LEMMA BestSoFar == \A i \in 1..N : Best[i] \in 0..i - 1
<1> DEFINE S == {i \in 0..N : i # 0 => Best[i] \in 0..i - 1}
<1>1. N \in Nat
  BY SchedulerAssumption
<1>2. 0 \in S
  BY <1>1
<1>3. ASSUME NEW i \in 0..N - 1, i \in S
      PROVE  i + 1 \in S
  <2>1. i + 1 \in 0..N /\ i + 1 # 0 /\ i + 1 - 1 = i /\ i \in 0..N
    BY <1>1
  <2>2. Best[i + 1] \in {Best[i], i}
    BY <2>1, BestEquation DEF Turn
  <2>3. i = 0 => Best[i] = 0
    BY <2>1, BestEquation
  <2> QED BY <1>3, <2>1, <2>2, <2>3
<1>4. 0..N \subseteq S
  <2> HIDE DEF S
  <2> QED BY <1>1, <1>2, <1>3, IntervalInduction
<1> QED BY <1>4, <1>1

\* In particular the handler switches to a slot of the table.
LEMMA ChosenInThreads == Chosen \in Threads
BY BestSoFar, SchedulerAssumption DEF Chosen, Threads

\* Among the threads that are ready none is due before the chosen one by more
\* than the one tick that its counter was decremented by in the same pass.
LEMMA ChosenIsDue ==
  ASSUME cnt \in [Threads -> Nat], NEW t \in Threads, Ready(t)
  PROVE  Decremented(cnt[Chosen]) <= cnt[t]
<1> DEFINE S == {i \in 0..N :
                   \A s \in 0..i - 1 : Ready(s) => Decremented(cnt[Best[i]]) <= cnt[s]}
<1>1. N \in Nat
  BY SchedulerAssumption
<1>2. 0 \in S
  BY <1>1
<1>3. ASSUME NEW i \in 0..N - 1, i \in S
      PROVE  i + 1 \in S
  <2> DEFINE m == Best[i]
             bar == IF m < i THEN Decremented(cnt[m]) ELSE cnt[m]
  <2>1. i + 1 \in 0..N /\ i + 1 # 0 /\ i + 1 - 1 = i /\ i \in 0..N /\ i \in Threads
    BY <1>1 DEF Threads
  <2>2. Best[i + 1] = IF Ready(i) /\ cnt[i] < bar THEN i ELSE m
    BY <2>1, BestEquation DEF Turn
  <2>3. m \in Threads /\ cnt[m] \in Nat /\ cnt[i] \in Nat
    <3>1. CASE i = 0
      BY <2>1, <3>1, BestEquation
    <3>2. CASE i # 0
      BY <1>1, <2>1, <3>2, BestSoFar DEF Threads
    <3> QED BY <3>1, <3>2
  <2>4. Decremented(cnt[m]) <= bar /\ bar \in Nat /\ bar <= cnt[m]
    BY <2>3 DEF Decremented
  <2>5. i # 0 => bar = Decremented(cnt[m])
    BY <2>1, BestSoFar
  <2>6. ASSUME NEW s \in 0..i, Ready(s)
        PROVE  Decremented(cnt[Best[i + 1]]) <= cnt[s]
    <3>1. cnt[s] \in Nat
      BY <1>1 DEF Threads
    <3>2. Decremented(cnt[i]) <= cnt[i]
      BY <2>3 DEF Decremented
    <3>3. CASE s = i
      BY <2>2, <2>3, <2>4, <2>6, <3>1, <3>2, <3>3 DEF Decremented
    <3>4. CASE s # i
      <4>1. Decremented(cnt[m]) <= cnt[s] /\ bar = Decremented(cnt[m])
        BY <1>3, <2>5, <2>6, <3>4
      <4> QED BY <2>2, <2>3, <3>1, <3>2, <4>1 DEF Decremented
    <3> QED BY <3>3, <3>4
  <2> QED BY <2>1, <2>6
<1>4. N \in S
  <2>1. 0..N \subseteq S
    <3> HIDE DEF S
    <3> QED BY <1>1, <1>2, <1>3, IntervalInduction
  <2> QED BY <1>1, <2>1
<1> QED BY <1>4 DEF Chosen, Threads

=============================================================================
