---------------------------- MODULE SetInduction ----------------------------
(***************************************************************************)
(* Induction over the natural numbers, and definition by recursion over    *)
(* them, with sets and functions instead of the operators of               *)
(* NaturalsInduction, whose theorems need higher-order instantiation.      *)
(***************************************************************************)
EXTENDS Integers, WellFoundedInduction, TLAPS

\* A set with 0 and with the successors of its numbers has all numbers.
LEMMA Induction ==
  ASSUME NEW A, 0 \in A, \A n \in Nat : n \in A => n + 1 \in A
  PROVE  \A n \in Nat : n \in A
<1> DEFINE R == OpToRel(<, Nat)
           T == Nat \ A
<1>1. SUFFICES ASSUME T # {} PROVE FALSE
  OBVIOUS
<1>2. \A x, y \in Nat : x < y => <<x, y>> \in R
  BY DEF OpToRel
<1>3. IsWellFoundedOn(R, Nat)
  BY NatLessThanWellFounded
<1>4. T \subseteq Nat
  OBVIOUS
<1>5. PICK x \in T : \A y \in T : ~ (<<y, x>> \in R)
  <2> HIDE DEF T, R
  <2> QED BY <1>1, <1>3, <1>4, WFMin
<1>6. x \in Nat \ {0} /\ x - 1 \in Nat /\ x - 1 < x /\ (x - 1) + 1 = x
  OBVIOUS
<1>7. x - 1 \in A
  BY <1>2, <1>5, <1>6
<1> QED BY <1>6, <1>7

\* The same up to a bound.
LEMMA BoundedInduction ==
  ASSUME NEW m \in Nat, NEW A, 0 \in A, \A n \in Nat : n < m /\ n \in A => n + 1 \in A
  PROVE  \A n \in 0 .. m : n \in A
<1> DEFINE B == A \cup {n \in Nat : n > m}
<1>1. 0 \in B
  OBVIOUS
<1>2. \A n \in Nat : n \in B => n + 1 \in B
  OBVIOUS
<1>3. \A n \in Nat : n \in B
  <2> HIDE DEF B
  <2> QED BY <1>1, <1>2, Induction
<1> QED BY <1>3

(***************************************************************************)
(* A value for 0 and a function from n and the value for n to the value    *)
(* for n + 1 define a function on the natural numbers.                     *)
(***************************************************************************)
Recurs(f, S, base, step) ==
  /\ f \in [Nat -> S]
  /\ f[0] = base /\ \A n \in Nat : f[n + 1] = step[n][f[n]]

LEMMA Recursion ==
  ASSUME NEW S, NEW base, NEW step, base \in S, step \in [Nat -> [S -> S]]
  PROVE  \E f : Recurs(f, S, base, step)
<1> DEFINE Begins(h, n) == /\ h \in [0 .. n -> S] /\ h[0] = base
                           /\ \A k \in 0 .. n - 1 : h[k + 1] = step[k][h[k]]
           Has == {n \in Nat : \E h : Begins(h, n)}
<1>1. \A n \in Nat : n \in Has
  <2>1. 0 \in Has
    <3>1. Begins([k \in 0 .. 0 |-> base], 0)
      OBVIOUS
    <3> QED BY <3>1
  <2>2. ASSUME NEW n \in Nat, n \in Has PROVE n + 1 \in Has
    <3>1. PICK h : Begins(h, n)
      BY <2>2
    <3> DEFINE g == [k \in 0 .. n + 1 |-> IF k = n + 1 THEN step[n][h[n]] ELSE h[k]]
    <3>2. \A k \in 0 .. n : g[k] = h[k]
      OBVIOUS
    <3>3. g[n + 1] = step[n][h[n]] /\ h[n] \in S
      BY <3>1
    <3>4. g \in [0 .. n + 1 -> S]
      <4>1. \A k \in 0 .. n + 1 : k # n + 1 => k \in 0 .. n
        OBVIOUS
      <4> QED BY <3>1, <3>3, <4>1
    <3>5. \A k \in 0 .. n : g[k + 1] = step[k][g[k]]
      <4>1. ASSUME NEW k \in 0 .. n PROVE g[k + 1] = step[k][g[k]]
        <5>1. CASE k = n
          BY <3>2, <3>3, <5>1
        <5>2. CASE k # n
          <6>1. k \in 0 .. n - 1 /\ k + 1 \in 0 .. n
            BY <5>2
          <6> QED BY <3>1, <3>2, <6>1
        <5> QED BY <5>1, <5>2
      <4> QED BY <4>1
    <3>6. (n + 1) - 1 = n /\ 0 \in 0 .. n
      OBVIOUS
    <3> HIDE DEF g
    <3>7. Begins(g, n + 1)
      BY <3>1, <3>2, <3>4, <3>5, <3>6
    <3> QED BY <3>7
  <2> HIDE DEF Has
  <2> QED BY <2>1, <2>2, Induction
<1>2. ASSUME NEW n \in Nat, NEW m \in Nat, n <= m, NEW h, NEW g, Begins(h, n), Begins(g, m)
      PROVE  h[n] = g[n]
  <2> DEFINE Agree == {k \in Nat : h[k] = g[k]}
  <2>1. 0 \in Agree
    BY <1>2
  <2>2. \A k \in Nat : k < n /\ k \in Agree => k + 1 \in Agree
    BY <1>2
  <2>3. \A k \in 0 .. n : k \in Agree
    <3> HIDE DEF Agree
    <3> QED BY <2>1, <2>2, BoundedInduction
  <2> QED BY <2>3
<1> DEFINE Up(n) == CHOOSE h : Begins(h, n)
           f == [n \in Nat |-> Up(n)[n]]
<1>3. \A n \in Nat : Begins(Up(n), n)
  <2> HIDE DEF Begins
  <2> QED BY <1>1
<1>4. \A n \in Nat : \A h : Begins(h, n) => f[n] = h[n]
  <2> HIDE DEF Begins, Up
  <2>1. ASSUME NEW n \in Nat, NEW h, Begins(h, n) PROVE f[n] = h[n]
    <3>1. Begins(Up(n), n)
      BY <1>3
    <3>2. Up(n)[n] = h[n]
      BY <1>2, <2>1, <3>1
    <3> QED BY <3>2
  <2> QED BY <2>1
<1>5. f \in [Nat -> S]
  <2> HIDE DEF Up
  <2>1. \A n \in Nat : Up(n) \in [0 .. n -> S] /\ n \in 0 .. n
    BY <1>3
  <2> QED BY <2>1
<1>6. f[0] = base
  <2> HIDE DEF Up
  <2> QED BY <1>3
<1>7. ASSUME NEW n \in Nat PROVE f[n + 1] = step[n][f[n]]
  <2>1. PICK h : Begins(h, n + 1)
    <3>1. n + 1 \in Has
      <4>1. n + 1 \in Nat
        OBVIOUS
      <4> HIDE DEF Has
      <4> QED BY <1>1, <4>1
    <3> HIDE DEF Begins
    <3> QED BY <3>1
  <2>2. n \in 0 .. (n + 1) - 1
    OBVIOUS
  <2>3. h[n + 1] = step[n][h[n]]
    BY <2>1, <2>2
  <2> DEFINE g == [k \in 0 .. n |-> h[k]]
  <2>4. Begins(g, n)
    <3>1. \A k \in 0 .. n : k \in 0 .. n + 1 /\ g[k] = h[k]
      OBVIOUS
    <3>2. \A k \in 0 .. n - 1 : k \in 0 .. n /\ k + 1 \in 0 .. n /\ k \in 0 .. (n + 1) - 1
      OBVIOUS
    <3>3. g \in [0 .. n -> S] /\ 0 \in 0 .. n
      BY <2>1, <3>1
    <3> HIDE DEF g
    <3> QED BY <2>1, <3>1, <3>2, <3>3
  <2>5. f[n] = h[n]
    <3>1. g[n] = h[n]
      OBVIOUS
    <3> HIDE DEF f, g, Begins
    <3> QED BY <1>4, <2>4, <3>1
  <2>6. f[n + 1] = h[n + 1]
    <3> HIDE DEF f, Begins
    <3> QED BY <1>4, <2>1
  <2> HIDE DEF f, Begins
  <2> QED BY <2>3, <2>5, <2>6
<1> HIDE DEF f
<1> QED BY <1>5, <1>6, <1>7 DEF Recurs

\* The same on the numbers up to a bound, in the form of a definition.
RecursTo(f, m, S, base, step) ==
  /\ f \in [0 .. m -> S]
  /\ f = [n \in 0 .. m |-> IF n = 0 THEN base ELSE step[n - 1][f[n - 1]]]

LEMMA BoundedRecursion ==
  ASSUME NEW m \in Nat, NEW S, NEW base \in S, NEW step \in [Nat -> [S -> S]]
  PROVE  \E f : RecursTo(f, m, S, base, step)
<1>1. PICK f : Recurs(f, S, base, step)
  BY Recursion
<1> DEFINE g == [n \in 0 .. m |-> f[n]]
<1>2. g \in [0 .. m -> S]
  BY <1>1 DEF Recurs
<1>3. ASSUME NEW n \in 0 .. m PROVE g[n] = IF n = 0 THEN base ELSE step[n - 1][g[n - 1]]
  <2>1. CASE n = 0
    BY <1>1, <2>1 DEF Recurs
  <2>2. CASE n # 0
    <3>1. n - 1 \in Nat /\ n - 1 \in 0 .. m /\ (n - 1) + 1 = n
      BY <2>2
    <3>2. f[(n - 1) + 1] = step[n - 1][f[n - 1]]
      BY <1>1, <3>1 DEF Recurs
    <3> QED BY <2>2, <3>1, <3>2
  <2> QED BY <2>1, <2>2
<1>4. g = [n \in 0 .. m |-> g[n]]
  OBVIOUS
<1> HIDE DEF g
<1>5. g = [n \in 0 .. m |-> IF n = 0 THEN base ELSE step[n - 1][g[n - 1]]]
  BY <1>3, <1>4
<1> QED BY <1>2, <1>5 DEF RecursTo
=============================================================================
