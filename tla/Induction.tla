----------------------------- MODULE Induction -----------------------------
(***************************************************************************)
(* Induction and recursion over the natural numbers, stated about sets and *)
(* functions and not about operators, so that a proof can use them for any *)
(* predicate and any step it can write as a set or a function.             *)
(***************************************************************************)
EXTENDS Integers, FiniteSetTheorems, TLAPS

\* A nonempty set of naturals has a least member: of the intervals 0..x, for
\* its members x, one is minimal by inclusion.
LEMMA LeastOf ==
  ASSUME NEW T, T \subseteq Nat, T # {}
  PROVE  \E x \in T : \A y \in T : x <= y
  <1> DEFINE Upto == {0..x : x \in T}
             R    == StrictSubsetOrdering(Nat)
  <1>1. IsWellFoundedOn(R, FiniteSubsetsOf(Nat))
    BY FS_StrictSubsetOrderingWellFounded
  <1>2. Upto \subseteq FiniteSubsetsOf(Nat)
    <2> SUFFICES ASSUME NEW x \in T PROVE 0..x \in FiniteSubsetsOf(Nat)
      OBVIOUS
    <2>1. 0 \in Int /\ x \in Int
      OBVIOUS
    <2>2. IsFiniteSet(0..x)
      BY <2>1, FS_Interval
    <2> QED BY <2>2 DEF FiniteSubsetsOf
  <1>3. Upto # {}
    OBVIOUS
  <1>4. \E m \in Upto : \A s \in Upto : ~(<<s, m>> \in R)
    <2> HIDE DEF Upto, R
    <2> QED BY <1>1, <1>2, <1>3, WFMin
  <1>5. PICK x \in T : \A y \in T : ~(<<0..y, 0..x>> \in R)
    BY <1>4
  <1>6. ASSUME NEW y \in T, y < x PROVE FALSE
    <2>1. 0..y \subseteq 0..x /\ x \in 0..x /\ x \notin 0..y
      BY <1>6
    <2>2. 0..y \in SUBSET Nat /\ 0..x \in SUBSET Nat
      OBVIOUS
    <2> QED BY <1>5, <2>1, <2>2 DEF StrictSubsetOrdering
  <1> QED BY <1>6

\* What holds of 0, and of n + 1 if of n, holds up to m.
LEMMA InductionUpTo ==
  ASSUME NEW m \in Nat, NEW S, 0 \in S,
         \A n \in 0..(m - 1) : n \in S => n + 1 \in S
  PROVE  0..m \subseteq S
  <1> DEFINE T == (0..m) \ S
  <1>1. SUFFICES ASSUME T # {} PROVE FALSE
    OBVIOUS
  <1>2. PICK x \in T : \A y \in T : x <= y
    <2> HIDE DEF T
    <2>1. T \subseteq Nat
      BY DEF T
    <2> QED BY <1>1, <2>1, LeastOf
  <1>3. x - 1 \in 0..(m - 1) /\ x - 1 \notin T
    BY <1>2
  <1> QED BY <1>3

\* first and step define a table over T on 0..m, and f is that table.  (The
\* lemma is stated by these names: the provers find its instances by them.)
Recursion(m, T, first, step) == m \in Nat /\ first \in T /\ \A t \in T : step[t] \in T

IsTable(f, m, T, first, step) ==
  /\ f \in [0..m -> T]
  /\ f[0] = first
  /\ \A n \in 1..m : f[n] = step[f[n - 1]]

\* A function may be defined on 0..m by its first value and a step.
LEMMA RecursionUpTo ==
  ASSUME NEW m, NEW T, NEW first, NEW step, Recursion(m, T, first, step)
  PROVE  \E f : IsTable(f, m, T, first, step)
  <1> USE DEF Recursion, IsTable
  <1> DEFINE Solves(f, k) == IsTable(f, k, T, first, step)
             S == {k \in 0..m : \E f \in [0..k -> T] : Solves(f, k)}
  <1>1. 0 \in S
    <2> DEFINE f == [n \in 0..0 |-> first]
    <2>1. f \in [0..0 -> T] /\ Solves(f, 0) /\ 0 \in 0..m
      OBVIOUS
    <2> HIDE DEF f, Solves
    <2> QED BY <2>1
  <1>2. ASSUME NEW k \in 0..(m - 1), k \in S PROVE k + 1 \in S
    <2>1. PICK f \in [0..k -> T] : Solves(f, k)
      BY <1>2
    <2> DEFINE g == [n \in 0..(k + 1) |-> IF n = k + 1 THEN step[f[k]] ELSE f[n]]
    <2>2. k \in 0..k /\ f[k] \in T /\ step[f[k]] \in T
      OBVIOUS
    <2>3. g \in [0..(k + 1) -> T] /\ g[0] = first
      BY <2>1, <2>2
    <2>4. ASSUME NEW n \in 1..(k + 1) PROVE g[n] = step[g[n - 1]]
      <3>1. n - 1 \in 0..(k + 1) /\ n - 1 # k + 1 /\ g[n - 1] = f[n - 1]
        OBVIOUS
      <3>2. CASE n = k + 1
        BY <3>1, <3>2
      <3>3. CASE n # k + 1
        <4>1. n \in 1..k
          BY <3>3
        <4>2. g[n] = f[n]
          BY <3>3
        <4> HIDE DEF g
        <4> QED BY <2>1, <3>1, <4>1, <4>2
      <3> QED BY <3>2, <3>3
    <2>5. k + 1 \in 0..m
      OBVIOUS
    <2> HIDE DEF g
    <2> QED BY <2>3, <2>4, <2>5
  <1>3. m \in S
    <2> HIDE DEF S
    <2> QED BY <1>1, <1>2, InductionUpTo
  <1> QED BY <1>3
=============================================================================
