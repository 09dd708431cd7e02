---------------------------- MODULE ValuesProofs ----------------------------
(***************************************************************************)
(* Proofs about Values: whatever an operation is given, it makes of values *)
(* and coherent objects values and coherent objects, and no function value *)
(* that was not there before; that every value has a text, to be read      *)
(* where tags are true; and what an operation is not given a way to, it    *)
(* does not reach.                                                         *)
(***************************************************************************)
EXTENDS Values, SetInduction, SequenceTheorems, FiniteSetTheorems, TLAPS

(***************************************************************************)
(* A value of a heap, in a program that F tells about: a function is one   *)
(* of F.functions, and a tag is that of what the value holds, but for      *)
(* differences of floats if there are F.differences.                       *)
(***************************************************************************)
Good(F, heap, x) ==
  /\ IsValue(heap, x)
  /\ x.type # x.is => IsDifference(x) /\ F.differences
  /\ x.is = "fun" => x.v \in F.functions

GoodObject(F, heap, o) ==
  /\ IsList(o) \/ (IsDict(o) /\ IsCoherent(o)) \/ IsObject(o)
  /\ \A x \in ValuesIn(o) : Good(F, heap, x)

GoodHeap(F, heap) ==
  /\ heap \in Seq(RangeOf(heap))
  /\ \A a \in DOMAIN heap : GoodObject(F, heap, heap[a])

\* The addresses of one heap are good in the other.
Grows(heap, later) ==
  \A a \in DOMAIN heap :
    /\ a \in DOMAIN later
    /\ IsList(heap[a]) => IsList(later[a])
    /\ IsDict(heap[a]) => IsDict(later[a])
    /\ IsObject(heap[a]) => IsObject(later[a])

\* What an instruction may do with the heap and its destination register.
Ends == {"crashed", "aborted", "mistaken", "undefined"}
GoodNews(F, heap, type, objects) ==
  /\ objects \in Seq(RangeOf(objects)) /\ Len(objects) > 0
  /\ \A i \in DOMAIN objects : GoodObject(F, heap \o objects, objects[i])
  /\ \/ type = "list" /\ IsList(objects[Len(objects)])
     \/ type = "dict" /\ IsDict(objects[Len(objects)])
GoodOutcome(F, heap, outcome) ==
  \/ outcome.how \in Ends
  \/ outcome.how = "value" /\ Good(F, heap, outcome.value)
  \/ /\ outcome.how = "store"
     /\ outcome.address \in DOMAIN heap
     /\ GoodObject(F, heap, outcome.object)
     /\ \/ IsList(heap[outcome.address]) /\ IsList(outcome.object)
        \/ IsDict(heap[outcome.address]) /\ IsDict(outcome.object)
        \/ IsObject(heap[outcome.address]) /\ IsObject(outcome.object)
  \/ outcome.how = "new" /\ GoodNews(F, heap, outcome.type, outcome.objects)

-----------------------------------------------------------------------------
\* Sequences and the set of their elements.

LEMMA RangeFacts ==
  ASSUME NEW S, NEW s \in Seq(S)
  PROVE  /\ Len(s) \in Nat /\ DOMAIN s = 1 .. Len(s)
         /\ RangeOf(s) \subseteq S
         /\ s \in Seq(RangeOf(s))
         /\ \A i \in 1 .. Len(s) : s[i] \in RangeOf(s)
<1>1. Range(s) = RangeOf(s)
  BY DEF Range, RangeOf
<1> QED BY <1>1, LenProperties, SeqOfRange, RangeOfSeq, ElementOfSeq DEF RangeOf

LEMMA AppendRange ==
  ASSUME NEW s, s \in Seq(RangeOf(s)), NEW y
  PROVE  /\ Append(s, y) \in Seq(RangeOf(Append(s, y)))
         /\ RangeOf(Append(s, y)) = RangeOf(s) \cup {y}
<1> DEFINE t == Append(s, y)
           S == RangeOf(s) \cup {y}
<1>1. s \in Seq(S)
  BY SeqMonotonic
<1>2. /\ t \in Seq(S) /\ Len(t) = Len(s) + 1
      /\ \A i \in 1 .. Len(s) : t[i] = s[i]
      /\ t[Len(s) + 1] = y
  BY <1>1, AppendProperties
<1>3. /\ Len(s) \in Nat /\ DOMAIN s = 1 .. Len(s)
      /\ DOMAIN t = 1 .. Len(t) /\ RangeOf(t) \subseteq S /\ t \in Seq(RangeOf(t))
  BY <1>1, <1>2, RangeFacts
<1>4. S \subseteq RangeOf(t)
  <2>1. ASSUME NEW x \in RangeOf(s) PROVE x \in RangeOf(t)
    <3>1. PICK i \in 1 .. Len(s) : x = s[i]
      BY <1>3 DEF RangeOf
    <3>2. i \in DOMAIN t /\ t[i] = x
      BY <1>2, <1>3, <3>1
    <3> QED BY <3>2 DEF RangeOf
  <2>2. y \in RangeOf(t)
    <3>1. Len(s) + 1 \in DOMAIN t
      BY <1>2, <1>3
    <3> QED BY <1>2, <3>1 DEF RangeOf
  <2> QED BY <2>1, <2>2
<1> QED BY <1>3, <1>4

LEMMA ConcatRange ==
  ASSUME NEW s, s \in Seq(RangeOf(s)), NEW t, t \in Seq(RangeOf(t))
  PROVE  /\ s \o t \in Seq(RangeOf(s \o t))
         /\ RangeOf(s \o t) = RangeOf(s) \cup RangeOf(t)
<1> DEFINE S == RangeOf(s) \cup RangeOf(t)
<1>1. s \in Seq(S) /\ t \in Seq(S)
  BY SeqMonotonic
<1>2. s \o t \in Seq(S)
  BY <1>1, ConcatProperties
<1>3. Range(s \o t) = Range(s) \cup Range(t)
  BY <1>1, RangeConcatenation
<1> QED BY <1>2, <1>3, RangeFacts DEF Range, RangeOf

LEMMA SubSeqRange ==
  ASSUME NEW s, s \in Seq(RangeOf(s)), NEW m \in Int, NEW n \in Int, m >= 1, n <= Len(s)
  PROVE  /\ SubSeq(s, m, n) \in Seq(RangeOf(s))
         /\ Len(SubSeq(s, m, n)) = (IF m <= n THEN n - m + 1 ELSE 0)
         /\ \A i \in 1 .. n - m + 1 : SubSeq(s, m, n)[i] = s[m + i - 1]
<1>1. \A i \in m .. n : s[i] \in RangeOf(s)
  BY RangeFacts
<1> QED BY <1>1, SubSeqProperties

\* A sequence given by its elements.
LEMMA MadeSequence ==
  ASSUME NEW n \in Nat, NEW s, NEW S, s \in [1 .. n -> S]
  PROVE  s \in Seq(S) /\ s \in Seq(RangeOf(s)) /\ Len(s) = n /\ RangeOf(s) \subseteq S
<1>1. s \in Seq(S)
  BY SeqDef
<1>2. Len(s) = n
  BY <1>1, RangeFacts
<1> QED BY <1>1, <1>2, RangeFacts

LEMMA FiniteRange ==
  ASSUME NEW S, NEW s \in Seq(S)
  PROVE  IsFiniteSet(RangeOf(s))
<1>1. Len(s) \in Nat /\ DOMAIN s = 1 .. Len(s) /\ s \in [1 .. Len(s) -> S]
  BY LenProperties
<1>2. IsFiniteSet(1 .. Len(s))
  BY <1>1, FS_Interval
<1>3. s \in Surjection(1 .. Len(s), RangeOf(s))
  BY <1>1 DEF Surjection, RangeOf
<1> QED BY <1>2, <1>3, FS_Surjection

-----------------------------------------------------------------------------
\* Values and objects.

LEMMA Scalars ==
  ASSUME NEW F, NEW heap
  PROVE  /\ \A n \in Int : Good(F, heap, IntV(n)) /\ Good(F, heap, FloatV(n))
         /\ \A b \in BOOLEAN : Good(F, heap, BoolV(b))
         /\ \A s \in Seq(Nat) : Good(F, heap, StrV(s))
BY DEF Good, IsValue, IsDifference, IntV, FloatV, BoolV, StrV, Make, Kinds

LEMMA References ==
  ASSUME NEW F, NEW heap, NEW a \in DOMAIN heap
  PROVE  /\ IsList(heap[a]) => Good(F, heap, Make("list", a))
         /\ IsDict(heap[a]) => Good(F, heap, Make("dict", a))
BY DEF Good, IsValue, IsDifference, Make, Kinds

\* An object is of one kind.
LEMMA OneKind ==
  ASSUME NEW o
  PROVE  /\ ~ (IsList(o) /\ IsDict(o))
         /\ ~ (IsList(o) /\ IsObject(o))
         /\ ~ (IsDict(o) /\ IsObject(o))
         /\ IsList(o) => ValuesIn(o) = RangeOf(o.items)
         /\ IsDict(o) => ValuesIn(o) = RangeOf(o.values)
         /\ IsObject(o) => ValuesIn(o) = RangeOf(o.registers)
BY DEF IsList, IsDict, IsObject, ValuesIn

\* What a good heap has at the address of a value.
LEMMA ListAt ==
  ASSUME NEW F, NEW heap, GoodHeap(F, heap), NEW x, Good(F, heap, x), x.is = "list"
  PROVE  /\ x.v \in DOMAIN heap /\ IsList(heap[x.v])
         /\ heap[x.v].items \in Seq(RangeOf(heap[x.v].items))
         /\ \A y \in RangeOf(heap[x.v].items) : Good(F, heap, y)
<1>1. x.v \in DOMAIN heap /\ IsList(heap[x.v])
  BY DEF Good, IsValue
<1>2. \A y \in ValuesIn(heap[x.v]) : Good(F, heap, y)
  BY <1>1 DEF GoodHeap, GoodObject
<1>3. heap[x.v].items \in Seq(RangeOf(heap[x.v].items))
  BY <1>1 DEF IsList
<1> QED BY <1>1, <1>2, <1>3, OneKind

LEMMA DictAt ==
  ASSUME NEW F, NEW heap, GoodHeap(F, heap), NEW x, Good(F, heap, x), x.is = "dict"
  PROVE  /\ x.v \in DOMAIN heap /\ IsDict(heap[x.v]) /\ IsCoherent(heap[x.v])
         /\ heap[x.v].key_order \in Seq(Seq(Nat))
         /\ \A y \in RangeOf(heap[x.v].values) : Good(F, heap, y)
<1>1. x.v \in DOMAIN heap /\ IsDict(heap[x.v])
  BY DEF Good, IsValue
<1>2. GoodObject(F, heap, heap[x.v])
  BY <1>1 DEF GoodHeap
<1>3. heap[x.v].key_order \in Seq(Seq(Nat))
  BY <1>1 DEF IsDict
<1> QED BY <1>1, <1>2, <1>3, OneKind DEF GoodObject

LEMMA ObjectAt ==
  ASSUME NEW F, NEW heap, GoodHeap(F, heap), NEW x, Good(F, heap, x), x.is = "object", x.v # 0
  PROVE  /\ x.v \in DOMAIN heap /\ IsObject(heap[x.v])
         /\ \A y \in RangeOf(heap[x.v].registers) : Good(F, heap, y)
<1>1. x.v \in DOMAIN heap /\ IsObject(heap[x.v])
  BY DEF Good, IsValue
<1>2. \A y \in ValuesIn(heap[x.v]) : Good(F, heap, y)
  BY <1>1 DEF GoodHeap, GoodObject
<1> QED BY <1>1, <1>2, OneKind

LEMMA GoodLists ==
  ASSUME NEW F, NEW heap, NEW s, s \in Seq(RangeOf(s)),
         \A x \in RangeOf(s) : Good(F, heap, x)
  PROVE  IsList(ListOf(s)) /\ GoodObject(F, heap, ListOf(s))
<1>1. IsList(ListOf(s)) /\ ListOf(s).items = s
  BY DEF ListOf, IsList
<1> QED BY <1>1, OneKind DEF GoodObject

LEMMA GoodDicts ==
  ASSUME NEW F, NEW heap, NEW order \in Seq(Seq(Nat)), NEW vals,
         DOMAIN vals = RangeOf(order),
         \A i, j \in DOMAIN order : i # j => order[i] # order[j],
         \A x \in RangeOf(vals) : Good(F, heap, x)
  PROVE  IsDict(DictOf(order, vals)) /\ GoodObject(F, heap, DictOf(order, vals))
<1>1. /\ IsDict(DictOf(order, vals)) /\ DictOf(order, vals).values = vals
      /\ DictOf(order, vals).key_order = order
  BY DEF DictOf, IsDict
<1> QED BY <1>1, OneKind DEF GoodObject, IsCoherent

\* A value of a heap is one of every heap it grows to.
LEMMA GoodStays ==
  ASSUME NEW F, NEW heap, NEW later, Grows(heap, later)
  PROVE  /\ \A x : Good(F, heap, x) => Good(F, later, x)
         /\ \A o : GoodObject(F, heap, o) => GoodObject(F, later, o)
<1>1. ASSUME NEW x, Good(F, heap, x) PROVE Good(F, later, x)
  BY <1>1 DEF Good, IsValue, Grows
<1> QED BY <1>1 DEF GoodObject

-----------------------------------------------------------------------------
(***************************************************************************)
(* The functions to_string descends with.  Each equation has a solution    *)
(* (Recursion), so that the one chosen satisfies it.                       *)
(***************************************************************************)

\* The digits of a number depend on those of a tenth of it.
LEMMA DigitsExist ==
  \E f \in [Nat -> Seq(Nat)] :
    f = [k \in Nat |-> IF k < 10 THEN <<48 + k>> ELSE f[k \div 10] \o <<48 + (k % 10)>>]
<1> DEFINE S == [Nat -> Seq(Nat)]
           base == [k \in Nat |-> <<>>]
           last(g, k) == IF k < 10 THEN <<48 + k>> ELSE g[k \div 10] \o <<48 + (k % 10)>>
           step == [n \in Nat |-> [g \in S |-> [g EXCEPT ![n] = last(g, n)]]]
<1>1. base \in S
  OBVIOUS
<1>2. ASSUME NEW k \in Nat PROVE k % 10 \in Nat /\ (k >= 10 => k \div 10 \in 0 .. k - 1)
  OBVIOUS
<1>3. ASSUME NEW g \in S, NEW k \in Nat PROVE last(g, k) \in Seq(Nat)
  <2>1. CASE k < 10
    BY <2>1
  <2>2. CASE ~ (k < 10)
    <3>1. g[k \div 10] \in Seq(Nat) /\ <<48 + (k % 10)>> \in Seq(Nat)
      BY <1>2, <2>2
    <3> QED BY <2>2, <3>1, ConcatProperties
  <2> QED BY <2>1, <2>2
<1>4. step \in [Nat -> [S -> S]]
  <2> HIDE DEF last
  <2> QED BY <1>3
<1>5. PICK f : Recurs(f, S, base, step)
  <2> HIDE DEF S, base, step
  <2> QED BY <1>1, <1>4, Recursion
<1>6. \A n \in Nat : f[n] \in S
  BY <1>5 DEF Recurs
<1>7. \A n \in Nat : f[n + 1] = [f[n] EXCEPT ![n] = last(f[n], n)]
  <2> HIDE DEF last
  <2> QED BY <1>5, <1>6 DEF Recurs
<1> HIDE DEF base, step
<1> DEFINE digits == [k \in Nat |-> f[k + 1][k]]
<1>8. ASSUME NEW k \in Nat, NEW m \in Nat, k < m PROVE f[m][k] = digits[k]
  <2> DEFINE A == {n \in Nat : n > k => f[n][k] = digits[k]}
  <2>1. 0 \in A
    OBVIOUS
  <2>2. ASSUME NEW n \in Nat, n \in A PROVE n + 1 \in A
    <3>1. CASE n < k
      BY <3>1
    <3>2. CASE n = k
      BY <3>2
    <3>3. CASE n > k
      <4>1. f[n] \in [Nat -> Seq(Nat)]
        BY <1>6
      <4>2. f[n + 1][k] = f[n][k]
        <5> HIDE DEF last, digits
        <5>1. f[n + 1] = [f[n] EXCEPT ![n] = last(f[n], n)]
          BY <1>7
        <5>2. k # n /\ k \in Nat
          BY <3>3
        <5>3. PICK g, x : g = f[n] /\ x = last(f[n], n)
          OBVIOUS
        <5>4. f[n + 1] = [g EXCEPT ![n] = x] /\ g \in [Nat -> Seq(Nat)]
          BY <4>1, <5>1, <5>3
        <5>5. DOMAIN g = Nat
          BY <5>4
        <5>6. [g EXCEPT ![n] = x][k] = g[k]
          BY <5>2, <5>5
        <5> QED BY <5>3, <5>4, <5>6
      <4> HIDE DEF digits
      <4> QED BY <2>2, <3>3, <4>2
    <3> QED BY <3>1, <3>2, <3>3
  <2>3. m \in A
    <3> HIDE DEF A
    <3> QED BY <2>1, <2>2, Induction
  <2> QED BY <1>8, <2>3
<1>9. ASSUME NEW k \in Nat PROVE digits[k] = last(digits, k) /\ digits[k] \in Seq(Nat)
  <2>1. f[k] \in [Nat -> Seq(Nat)]
    BY <1>6
  <2>2. f[k + 1][k] = last(f[k], k)
    <3> HIDE DEF last
    <3> QED BY <1>7, <2>1
  <2>3. digits[k] = last(f[k], k)
    <3> HIDE DEF last
    <3> QED BY <2>2
  <2>4. last(f[k], k) = last(digits, k)
    <3>1. CASE k < 10
      BY <3>1
    <3>2. CASE ~ (k < 10)
      <4>1. f[k][k \div 10] = digits[k \div 10]
        <5>1. k \div 10 \in Nat /\ k \div 10 < k
          BY <1>2, <3>2
        <5> HIDE DEF digits
        <5> QED BY <1>8, <5>1
      <4> HIDE DEF digits
      <4> QED BY <3>2, <4>1
    <3> QED BY <3>1, <3>2
  <2>5. last(f[k], k) \in Seq(Nat)
    <3> HIDE DEF last
    <3> QED BY <1>3, <1>6
  <2> HIDE DEF last, digits
  <2> QED BY <2>3, <2>4, <2>5
<1>10. digits = [k \in Nat |-> digits[k]]
  OBVIOUS
<1> HIDE DEF digits
<1>11. digits \in [Nat -> Seq(Nat)]
  <2> HIDE DEF last
  <2> QED BY <1>9, <1>10
<1>12. digits = [k \in Nat |-> last(digits, k)]
  <2> HIDE DEF last
  <2> QED BY <1>9, <1>10
<1> QED BY <1>11, <1>12

LEMMA DecimalIsText ==
  ASSUME NEW n \in Int
  PROVE  Decimal(n) \in Seq(Nat)
<1> DEFINE Satisfies(f) ==
             f = [k \in Nat |-> IF k < 10 THEN <<48 + k>> ELSE f[k \div 10] \o <<48 + (k % 10)>>]
           digits == CHOOSE f : Satisfies(f)
<1>1. Satisfies(digits)
  <2>1. \E f : Satisfies(f)
    BY DigitsExist
  <2> HIDE DEF Satisfies
  <2> QED BY <2>1
<1>2. Decimal(n) = IF n < 0 THEN <<45>> \o digits[-n] ELSE digits[n]
  BY Zenon DEF Decimal
<1>3. \A k \in Nat : digits[k] = IF k < 10 THEN <<48 + k>> ELSE digits[k \div 10] \o <<48 + (k % 10)>>
  <2> HIDE DEF digits
  <2> QED BY <1>1
<1> HIDE DEF digits, Satisfies
<1>4. \A k \in Nat : digits[k] \in Seq(Nat)
  <2> DEFINE A == {k \in Nat : \A j \in 0 .. k : digits[j] \in Seq(Nat)}
  <2>1. \A k \in Nat : k < 10 => digits[k] \in Seq(Nat)
    <3>1. ASSUME NEW k \in Nat, k < 10 PROVE digits[k] \in Seq(Nat)
      <4>1. digits[k] = <<48 + k>>
        BY <1>3, <3>1
      <4> QED BY <4>1
    <3> QED BY <3>1
  <2>2. 0 \in A
    <3>1. \A j \in 0 .. 0 : j = 0
      OBVIOUS
    <3>2. digits[0] \in Seq(Nat)
      BY <2>1
    <3> QED BY <3>1, <3>2
  <2>3. ASSUME NEW k \in Nat, k \in A PROVE k + 1 \in A
    <3>1. PICK m \in Nat : m = k + 1
      OBVIOUS
    <3>2. digits[m] \in Seq(Nat)
      <4>1. CASE m < 10
        BY <2>1, <4>1
      <4>2. CASE ~ (m < 10)
        <5>1. m \div 10 \in 0 .. k /\ m % 10 \in Nat
          BY <3>1, <4>2
        <5>2. digits[m \div 10] \in Seq(Nat) /\ <<48 + (m % 10)>> \in Seq(Nat)
          BY <2>3, <5>1
        <5>3. digits[m] = digits[m \div 10] \o <<48 + (m % 10)>>
          BY <1>3, <4>2
        <5> QED BY <5>2, <5>3, ConcatProperties
      <4> QED BY <4>1, <4>2
    <3>3. \A j \in 0 .. m : j = m \/ j \in 0 .. k
      BY <3>1
    <3>4. \A j \in 0 .. m : digits[j] \in Seq(Nat)
      BY <2>3, <3>2, <3>3
    <3> QED BY <3>1, <3>4
  <2>4. \A k \in Nat : k \in A
    <3> HIDE DEF A
    <3> QED BY <2>2, <2>3, Induction
  <2>5. \A k \in Nat : k \in 0 .. k
    OBVIOUS
  <2>6. ASSUME NEW k \in Nat PROVE digits[k] \in Seq(Nat)
    <3>1. \A j \in 0 .. k : digits[j] \in Seq(Nat)
      BY <2>4
    <3> QED BY <2>5, <3>1
  <2> QED BY <2>6
<1>5. CASE n < 0
  <2>1. digits[-n] \in Seq(Nat) /\ <<45>> \in Seq(Nat)
    BY <1>4, <1>5
  <2> QED BY <1>2, <1>5, <2>1, ConcatProperties
<1>6. CASE ~ (n < 0)
  BY <1>2, <1>4, <1>6
<1> QED BY <1>5, <1>6

\* The elements in between the brackets, with what separates them.
LEMMA EnclosedIsText ==
  ASSUME NEW open \in Nat, NEW close \in Nat, NEW texts, texts \in Seq(Seq(Nat))
  PROVE  Enclosed(open, texts, close) \in Seq(Nat)
<1> DEFINE m == Len(texts)
           S == Seq(Nat)
           more(i, s) == s \o (IF i = 1 THEN <<>> ELSE <<44, 32>>) \o texts[i]
           step == [n \in Nat |-> [s \in S |-> IF n + 1 \in 1 .. m THEN more(n + 1, s) ELSE s]]
           Satisfies(f) == f = [i \in 0 .. m |-> IF i = 0 THEN <<>> ELSE more(i, f[i - 1])]
           upto == CHOOSE f : Satisfies(f)
<1>1. m \in Nat /\ \A i \in 1 .. m : texts[i] \in S
  BY LenProperties, ElementOfSeq
<1>2. ASSUME NEW i \in 1 .. m, NEW s \in S PROVE more(i, s) \in S
  <2>1. PICK t : t = IF i = 1 THEN <<>> ELSE <<44, 32>>
    OBVIOUS
  <2>2. t \in S
    BY <2>1
  <2>3. more(i, s) = s \o t \o texts[i]
    BY <2>1
  <2> HIDE DEF more
  <2> QED BY <1>1, <2>2, <2>3, ConcatProperties
<1>3. step \in [Nat -> [S -> S]]
  <2> HIDE DEF m, more
  <2> QED BY <1>2
<1>4. PICK f \in [0 .. m -> S] : f = [n \in 0 .. m |-> IF n = 0 THEN <<>> ELSE step[n - 1][f[n - 1]]]
  <2>1. <<>> \in S
    OBVIOUS
  <2> HIDE DEF step, S, m
  <2>2. PICK T, base, g, k : T = S /\ base = <<>> /\ g = step /\ k = m
    OBVIOUS
  <2>3. k \in Nat /\ base \in T /\ g \in [Nat -> [T -> T]]
    BY <1>1, <1>3, <2>1, <2>2
  <2>4. \E f : RecursTo(f, k, T, base, g)
    BY <2>3, BoundedRecursion
  <2> QED BY <2>2, <2>4 DEF RecursTo
<1>5. ASSUME NEW n \in 1 .. m PROVE step[n - 1][f[n - 1]] = more(n, f[n - 1])
  <2>1. n - 1 \in Nat /\ n - 1 \in 0 .. m /\ (n - 1) + 1 = n
    BY <1>1
  <2> HIDE DEF m, more
  <2> QED BY <1>4, <2>1
<1>6. Satisfies(f)
  <2> HIDE DEF m, more, step
  <2>1. \A n \in 0 .. m : n = 0 \/ n \in 1 .. m
    BY <1>1
  <2> QED BY <1>4, <1>5, <2>1
<1>7. Satisfies(upto)
  <2> HIDE DEF Satisfies
  <2> QED BY <1>6
<1>8. Enclosed(open, texts, close) = <<open>> \o upto[m] \o <<close>>
  BY Zenon DEF Enclosed
<1>9. upto[0] = <<>> /\ \A i \in 1 .. m : upto[i] = more(i, upto[i - 1])
  <2>1. \A i \in 1 .. m : i \in 0 .. m /\ i # 0
    BY <1>1
  <2>2. 0 \in 0 .. m
    BY <1>1
  <2> HIDE DEF upto, more, m
  <2> QED BY <1>7, <2>1, <2>2
<1> HIDE DEF upto, Satisfies
<1>10. upto[m] \in S
  <2> DEFINE A == {n \in Nat : n <= m => upto[n] \in S}
  <2>1. 0 \in A
    <3>1. upto[0] \in S
      BY <1>9
    <3> QED BY <3>1
  <2>2. ASSUME NEW n \in Nat, n < m, n \in A PROVE n + 1 \in A
    <3>1. PICK i \in 1 .. m : i = n + 1 /\ i - 1 = n
      BY <1>1, <2>2
    <3>2. upto[n] \in S
      BY <2>2
    <3>3. more(i, upto[n]) \in S
      <4> HIDE DEF more, S, A
      <4> QED BY <1>2, <3>2
    <3>4. upto[i] \in S
      <4> HIDE DEF more, S, A
      <4> QED BY <1>9, <3>1, <3>3
    <3> QED BY <3>1, <3>4
  <2>3. \A n \in 0 .. m : n \in A
    <3> HIDE DEF A, m
    <3> QED BY <1>1, <2>1, <2>2, BoundedInduction
  <2> QED BY <1>1, <2>3
<1>11. <<open>> \in S /\ <<close>> \in S
  OBVIOUS
<1> HIDE DEF m
<1> QED BY <1>8, <1>10, <1>11, ConcatProperties

\* A value, given texts of the objects.
LEMMA TextWithIsText ==
  ASSUME NEW F, NEW heap, NEW x, Good(F, heap, x), NEW texts \in [DOMAIN heap -> Seq(Nat)]
  PROVE  TextWith(texts, x) \in Seq(Nat)
<1>1. CASE x.type = "int"
  <2>1. x.v \in Int
    BY <1>1 DEF Good, IsValue, IsDifference
  <2> QED BY <1>1, <2>1, DecimalIsText, ConcatProperties DEF TextWith
<1>2. CASE x.type = "float"
  <2>1. x.v \in Int /\ <<46, 48>> \in Seq(Nat)
    BY <1>2 DEF Good, IsValue, IsDifference
  <2> QED BY <1>2, <2>1, DecimalIsText, ConcatProperties DEF TextWith
<1>3. CASE x.type = "bool"
  <2>1. <<116>> \in Seq(Nat) /\ <<102>> \in Seq(Nat)
    OBVIOUS
  <2> QED BY <1>3, <2>1 DEF TextWith
<1>4. CASE x.type = "string"
  BY <1>4 DEF TextWith, Good, IsValue, IsDifference
<1>5. CASE x.type = "fun"
  <2>1. <<40, 41>> \in Seq(Nat)
    OBVIOUS
  <2> QED BY <1>5, <2>1 DEF TextWith
<1>6. CASE x.type = "object" /\ x.v = 0
  <2>1. <<60, 62>> \in Seq(Nat)
    OBVIOUS
  <2> QED BY <1>6, <2>1 DEF TextWith
<1>7. CASE x.type \in {"list", "dict", "object"} /\ ~ (x.type = "object" /\ x.v = 0)
  <2>1. x.v \in DOMAIN heap
    BY <1>7 DEF Good, IsValue, IsDifference
  <2> QED BY <1>7, <2>1 DEF TextWith
<1> QED BY <1>1, <1>2, <1>3, <1>4, <1>5, <1>6, <1>7 DEF Good, IsValue, Kinds

LEMMA ObjectTextIsText ==
  ASSUME NEW F, NEW heap, NEW o, GoodObject(F, heap, o), NEW texts \in [DOMAIN heap -> Seq(Nat)]
  PROVE  ObjectText(texts, o) \in Seq(Nat)
<1>1. ASSUME NEW x \in ValuesIn(o) PROVE TextWith(texts, x) \in Seq(Nat)
  BY TextWithIsText DEF GoodObject
<1>2. CASE IsList(o)
  <2> DEFINE parts == [i \in DOMAIN o.items |-> TextWith(texts, o.items[i])]
  <2>1. Len(o.items) \in Nat /\ DOMAIN o.items = 1 .. Len(o.items)
        /\ \A i \in DOMAIN o.items : o.items[i] \in ValuesIn(o)
    BY <1>2, OneKind, RangeFacts DEF IsList
  <2>2. parts \in [1 .. Len(o.items) -> Seq(Nat)]
    BY <1>1, <2>1
  <2>3. ObjectText(texts, o) = Enclosed(91, parts, 93)
    BY <1>2 DEF ObjectText, IsList
  <2> HIDE DEF parts
  <2>4. parts \in Seq(Seq(Nat))
    BY <2>1, <2>2, MadeSequence
  <2> QED BY <2>3, <2>4, EnclosedIsText
<1>3. CASE IsDict(o) /\ IsCoherent(o)
  <2> DEFINE order == o.key_order
             part(i) == order[i] \o <<58>> \o TextWith(texts, o.values[order[i]])
             parts == [i \in DOMAIN order |-> part(i)]
  <2>1. order \in Seq(Seq(Nat)) /\ Len(order) \in Nat /\ DOMAIN order = 1 .. Len(order)
    BY <1>3, LenProperties DEF IsDict
  <2>2. ASSUME NEW i \in DOMAIN order PROVE part(i) \in Seq(Nat)
    <3>1. order[i] \in Seq(Nat) /\ <<58>> \in Seq(Nat)
      BY <2>1, ElementOfSeq
    <3>2. order[i] \in DOMAIN o.values
      BY <1>3 DEF IsCoherent, RangeOf
    <3>3. o.values[order[i]] \in ValuesIn(o)
      BY <1>3, <3>2, OneKind DEF RangeOf
    <3>4. TextWith(texts, o.values[order[i]]) \in Seq(Nat)
      BY <1>1, <3>3
    <3> HIDE DEF order
    <3> QED BY <3>1, <3>4, ConcatProperties
  <2>3. parts \in [1 .. Len(order) -> Seq(Nat)]
    <3> HIDE DEF part, order
    <3> QED BY <2>1, <2>2
  <2>4. ObjectText(texts, o) = Enclosed(123, parts, 125)
    BY <1>3 DEF ObjectText, IsDict
  <2> HIDE DEF parts
  <2>5. parts \in Seq(Seq(Nat))
    BY <2>1, <2>3, MadeSequence
  <2> QED BY <2>4, <2>5, EnclosedIsText
<1>4. CASE IsObject(o)
  <2> DEFINE n == Cardinality(DOMAIN o.registers)
             parts == [i \in 1 .. n |-> TextWith(texts, o.registers[i - 1])]
  <2>1. DOMAIN o.registers = 0 .. n - 1
    BY <1>4 DEF IsObject
  <2>2. n \in Nat
    BY <1>4, FS_CardinalityType DEF IsObject
  <2>3. ASSUME NEW i \in 1 .. n PROVE TextWith(texts, o.registers[i - 1]) \in Seq(Nat)
    <3>1. i - 1 \in DOMAIN o.registers
      BY <2>1, <2>2
    <3>2. o.registers[i - 1] \in ValuesIn(o)
      BY <1>4, <3>1, OneKind DEF RangeOf
    <3> QED BY <1>1, <3>2
  <2>4. parts \in [1 .. n -> Seq(Nat)]
    <3> HIDE DEF n
    <3> QED BY <2>3
  <2>5. ObjectText(texts, o) = Enclosed(123, parts, 125)
    BY <1>4 DEF ObjectText, IsObject
  <2> HIDE DEF parts, n
  <2>6. parts \in Seq(Seq(Nat))
    BY <2>2, <2>4, MadeSequence
  <2> QED BY <2>5, <2>6, EnclosedIsText
<1> QED BY <1>2, <1>3, <1>4 DEF GoodObject

LEMMA TextIsText ==
  ASSUME NEW F, NEW heap, GoodHeap(F, heap), NEW x, Good(F, heap, x)
  PROVE  Text(heap, x) \in Seq(Nat)
<1> DEFINE m == Len(heap)
           S == [DOMAIN heap -> Seq(Nat)]
           none == [a \in DOMAIN heap |-> <<>>]
           descend(t) == [a \in DOMAIN heap |-> ObjectText(t, heap[a])]
           step == [n \in Nat |-> [t \in S |-> descend(t)]]
           Satisfies(f) ==
             f = [n \in 0 .. m |-> [a \in DOMAIN heap |->
                    IF n = 0 THEN <<>> ELSE ObjectText(f[n - 1], heap[a])]]
           texts == CHOOSE f : Satisfies(f)
<1>1. m \in Nat
  BY LenProperties DEF GoodHeap
<1>2. none \in S
  OBVIOUS
<1>3. ASSUME NEW t \in S PROVE descend(t) \in S
  BY ObjectTextIsText DEF GoodHeap
<1>4. step \in [Nat -> [S -> S]]
  <2> HIDE DEF S, descend
  <2> QED BY <1>3
<1>5. PICK f \in [0 .. m -> S] : f = [n \in 0 .. m |-> IF n = 0 THEN none ELSE step[n - 1][f[n - 1]]]
  <2> HIDE DEF S, m, none, step
  <2>1. PICK T, base, g, k : T = S /\ base = none /\ g = step /\ k = m
    OBVIOUS
  <2>2. k \in Nat /\ base \in T /\ g \in [Nat -> [T -> T]]
    BY <1>1, <1>2, <1>4, <2>1
  <2>3. \E f : RecursTo(f, k, T, base, g)
    BY <2>2, BoundedRecursion
  <2> QED BY <2>1, <2>3 DEF RecursTo
<1>6. Satisfies(f)
  <2>1. ASSUME NEW n \in 0 .. m
        PROVE  f[n] = [a \in DOMAIN heap |-> IF n = 0 THEN <<>> ELSE ObjectText(f[n - 1], heap[a])]
    <3>1. CASE n = 0
      <4>1. f[n] = none
        <5> HIDE DEF none, step, S, m
        <5> QED BY <1>5, <3>1
      <4> QED BY <3>1, <4>1
    <3>2. CASE n # 0
      <4>1. n - 1 \in Nat /\ n - 1 \in 0 .. m
        BY <1>1, <3>2
      <4>2. f[n - 1] \in S
        <5> HIDE DEF S, m
        <5> QED BY <1>5, <4>1
      <4>3. f[n] = descend(f[n - 1])
        <5> HIDE DEF descend, S, m, none
        <5> QED BY <1>5, <3>2, <4>1, <4>2
      <4> QED BY <3>2, <4>3
    <3> QED BY <3>1, <3>2
  <2>2. f = [n \in 0 .. m |-> f[n]]
    <3> HIDE DEF S, m, none, step
    <3> QED BY <1>5
  <2> HIDE DEF m
  <2> QED BY <2>1, <2>2
<1>7. Satisfies(texts)
  <2> HIDE DEF Satisfies
  <2> QED BY <1>6
<1>8. Text(heap, x) = TextWith(texts[m], x)
  BY Zenon DEF Text
<1>9. \A n \in 0 .. m : texts[n] = [a \in DOMAIN heap |-> IF n = 0 THEN <<>> ELSE ObjectText(texts[n - 1], heap[a])]
  <2> HIDE DEF texts, m
  <2> QED BY <1>7
<1> HIDE DEF texts, Satisfies
<1>10. texts[m] \in S
  <2> DEFINE A == {n \in Nat : n <= m => texts[n] \in S}
  <2>1. 0 \in A
    <3>1. texts[0] = none
      <4>1. 0 \in 0 .. m
        BY <1>1
      <4> HIDE DEF m
      <4> QED BY <1>9, <4>1
    <3> HIDE DEF none, S
    <3> QED BY <1>2, <3>1
  <2>2. ASSUME NEW n \in Nat, n < m, n \in A PROVE n + 1 \in A
    <3>1. PICK i \in 0 .. m : i = n + 1 /\ i - 1 = n /\ i # 0
      BY <1>1, <2>2
    <3>2. texts[n] \in S
      BY <2>2
    <3>3. texts[i] = descend(texts[n])
      BY <1>9, <3>1
    <3>4. texts[i] \in S
      <4> HIDE DEF S, descend, A
      <4> QED BY <1>3, <3>2, <3>3
    <3> QED BY <3>1, <3>4
  <2>3. \A n \in 0 .. m : n \in A
    <3> HIDE DEF A, m
    <3> QED BY <1>1, <2>1, <2>2, BoundedInduction
  <2> QED BY <1>1, <2>3
<1> HIDE DEF m
<1> QED BY <1>8, <1>10, TextWithIsText

\* Where every tag tells what the value holds, every value has a text.
LEMMA ReadableWhenTold ==
  ASSUME NEW F, ~ F.differences, NEW heap, GoodHeap(F, heap), NEW x, Good(F, heap, x)
  PROVE  IsReadable(heap, x)
<1> DEFINE m == Len(heap)
           Satisfies(f) ==
             f = [n \in 0 .. m |-> [a \in DOMAIN heap |->
                    n = 0 \/ \A y \in ValuesIn(heap[a]) : ReadableWith(f[n - 1], y)]]
           readable == CHOOSE f : Satisfies(f)
           yes == [n \in 0 .. m |-> [a \in DOMAIN heap |-> TRUE]]
           All(r) == \A a \in DOMAIN heap : r[a]
<1>1. m \in Nat
  BY LenProperties DEF GoodHeap
<1>2. ASSUME NEW y, Good(F, heap, y), NEW r, All(r) PROVE ReadableWith(r, y)
  BY <1>2 DEF ReadableWith, Good, IsValue
<1>3. ASSUME NEW a \in DOMAIN heap, NEW r, All(r)
      PROVE  \A y \in ValuesIn(heap[a]) : ReadableWith(r, y)
  <2> HIDE DEF All
  <2> QED BY <1>2, <1>3 DEF GoodHeap, GoodObject
<1>4. Satisfies(yes)
  <2>1. ASSUME NEW n \in 0 .. m, NEW a \in DOMAIN heap
        PROVE  n = 0 \/ \A y \in ValuesIn(heap[a]) : ReadableWith(yes[n - 1], y)
    <3>1. CASE n # 0
      <4>1. n - 1 \in 0 .. m
        BY <1>1, <3>1
      <4>2. All(yes[n - 1])
        BY <4>1
      <4> HIDE DEF All, yes
      <4> QED BY <1>3, <4>2
    <3> QED BY <3>1
  <2>2. PICK r : r = yes
    OBVIOUS
  <2>3. \A n \in 0 .. m, a \in DOMAIN heap :
           (n = 0 \/ \A y \in ValuesIn(heap[a]) : ReadableWith(r[n - 1], y)) = TRUE
    <3> HIDE DEF m, yes
    <3> QED BY <2>1, <2>2
  <2>4. yes = [n \in 0 .. m |-> [a \in DOMAIN heap |->
                    n = 0 \/ \A y \in ValuesIn(heap[a]) : ReadableWith(r[n - 1], y)]]
    <3> HIDE DEF m
    <3> QED BY <2>3
  <2> HIDE DEF yes
  <2> QED BY <2>2, <2>4
<1>5. Satisfies(readable)
  <2> HIDE DEF Satisfies
  <2> QED BY <1>4
<1>6. IsReadable(heap, x) = ReadableWith(readable[m], x)
  BY Zenon DEF IsReadable
<1>7. \A n \in 0 .. m, a \in DOMAIN heap :
         readable[n][a] = (n = 0 \/ \A y \in ValuesIn(heap[a]) : ReadableWith(readable[n - 1], y))
  <2>1. PICK r : r = readable
    OBVIOUS
  <2>2. r = [n \in 0 .. m |-> [a \in DOMAIN heap |->
                    n = 0 \/ \A y \in ValuesIn(heap[a]) : ReadableWith(r[n - 1], y)]]
    <3> HIDE DEF readable, m
    <3> QED BY <1>5, <2>1
  <2> HIDE DEF readable, m, Satisfies, yes
  <2>3. \A n \in 0 .. m : r[n] = [a \in DOMAIN heap |->
                    n = 0 \/ \A y \in ValuesIn(heap[a]) : ReadableWith(r[n - 1], y)]
    BY <2>2
  <2>4. \A n \in 0 .. m, a \in DOMAIN heap :
          r[n][a] = (n = 0 \/ \A y \in ValuesIn(heap[a]) : ReadableWith(r[n - 1], y))
    BY <2>3
  <2> QED BY <2>1, <2>4
<1> HIDE DEF readable, Satisfies, yes
<1>8. All(readable[m])
  <2> DEFINE A == {n \in Nat : n <= m => All(readable[n])}
  <2>1. 0 \in A
    <3>1. 0 \in 0 .. m
      BY <1>1
    <3>2. ASSUME NEW a \in DOMAIN heap PROVE readable[0][a]
      <4> HIDE DEF m
      <4>1. readable[0][a] = (0 = 0 \/ \A y \in ValuesIn(heap[a]) : ReadableWith(readable[0 - 1], y))
        BY <1>7, <3>1
      <4> QED BY <4>1
    <3> QED BY <3>2
  <2>2. ASSUME NEW n \in Nat, n < m, n \in A PROVE n + 1 \in A
    <3>1. PICK i \in 0 .. m : i = n + 1 /\ i - 1 = n
      BY <1>1, <2>2
    <3>2. All(readable[n])
      BY <2>2
    <3>3. ASSUME NEW a \in DOMAIN heap PROVE readable[i][a]
      <4>1. \A y \in ValuesIn(heap[a]) : ReadableWith(readable[n], y)
        <5> HIDE DEF All, A
        <5> QED BY <1>3, <3>2
      <4>2. readable[i][a] = (i = 0 \/ \A y \in ValuesIn(heap[a]) : ReadableWith(readable[i - 1], y))
        BY <1>7
      <4> QED BY <3>1, <4>1, <4>2
    <3> QED BY <3>1, <3>3
  <2>3. \A n \in 0 .. m : n \in A
    <3> HIDE DEF A, m
    <3> QED BY <1>1, <2>1, <2>2, BoundedInduction
  <2> QED BY <1>1, <2>3
<1> HIDE DEF m, All
<1> QED BY <1>2, <1>6, <1>8

-----------------------------------------------------------------------------
\* Numbers.

Countable == {"int", "float", "bool", "string", "list", "dict"}

LEMMA NumberIsInt ==
  ASSUME NEW F, NEW heap, GoodHeap(F, heap), NEW x, Good(F, heap, x), x.is \in Countable
  PROVE  Number(heap, x) \in Int
<1>1. CASE x.is \in {"int", "float"}
  BY <1>1 DEF Number, Good, IsValue
<1>2. CASE x.is = "bool"
  BY <1>2 DEF Number
<1>3. CASE x.is = "string"
  BY <1>3, LenProperties DEF Number, Good, IsValue
<1>4. CASE x.is = "list"
  BY <1>4, ListAt, LenProperties DEF Number
<1>5. CASE x.is = "dict"
  <2>1. IsFiniteSet(DOMAIN heap[x.v].values)
    BY <1>5, DictAt, FiniteRange DEF IsCoherent
  <2> QED BY <1>5, <2>1, FS_CardinalityType DEF Number
<1> QED BY <1>1, <1>2, <1>3, <1>4, <1>5 DEF Countable

LEMMA SimpleOutcomes ==
  ASSUME NEW F, NEW heap
  PROVE  /\ \A x : Good(F, heap, x) => GoodOutcome(F, heap, Gives(x))
         /\ GoodOutcome(F, heap, Crashes) /\ GoodOutcome(F, heap, Throws)
         /\ GoodOutcome(F, heap, Mistaken) /\ GoodOutcome(F, heap, Undefined)
BY DEF GoodOutcome, Gives, Crashes, Throws, Mistaken, Undefined, Ends

LEMMA CastIsGood ==
  ASSUME NEW F, NEW heap, GoodHeap(F, heap), NEW x, Good(F, heap, x), NEW op \in CastOps
  PROVE  GoodOutcome(F, heap, Cast(op, heap, x))
<1>1. CASE op[3] = "string"
  BY <1>1, TextIsText, Scalars, SimpleOutcomes DEF Cast, GivesText
<1>2. CASE op[3] # "string" /\ x.is # op[2]
  BY <1>2, SimpleOutcomes DEF Cast
<1>3. CASE op[3] # "string" /\ x.is = op[2]
  <2>1. op[2] \in Countable /\ op[3] \in {"int", "float", "bool", "string"}
    BY DEF CastOps, Countable
  <2>2. Number(heap, x) \in Int
    BY <1>3, <2>1, NumberIsInt
  <2>3. (Number(heap, x) # 0) \in BOOLEAN
    OBVIOUS
  <2> QED BY <1>3, <2>1, <2>2, <2>3, Scalars, SimpleOutcomes DEF Cast
<1> QED BY <1>1, <1>2, <1>3

LEMMA UnaryIsGood ==
  ASSUME NEW F, NEW heap, GoodHeap(F, heap), NEW x, Good(F, heap, x), NEW op \in UnaryOps
  PROVE  GoodOutcome(F, heap, Unary(op, heap, x))
<1>1. CASE x.is # op[2]
  BY <1>1, SimpleOutcomes DEF Unary
<1>2. CASE x.is = op[2]
  <2>1. x.is \in Countable
    BY <1>2 DEF UnaryOps, Countable
  <2>2. Number(heap, x) \in Int /\ - Number(heap, x) \in Int
    BY <2>1, NumberIsInt
  <2> DEFINE n == IF op[1] = "MINUS" THEN - Number(heap, x) ELSE Number(heap, x)
  <2>3. n \in Int
    BY <2>2
  <2>4. op[1] \in {"NEG", "MINUS", "PLUS"} /\ (op[1] = "NEG" => op[2] = "bool")
    BY DEF UnaryOps
  <2>5. CASE op[1] = "NEG"
    <3>1. (~ x.v) \in BOOLEAN
      OBVIOUS
    <3>2. Unary(op, heap, x) = Gives(BoolV(~ x.v))
      BY <1>2, <2>4, <2>5 DEF Unary
    <3> QED BY <3>1, <3>2, Scalars, SimpleOutcomes
  <2>6. CASE op[1] # "NEG" /\ op[2] = "float"
    <3>1. Unary(op, heap, x) = Gives(FloatV(n))
      BY <1>2, <2>6 DEF Unary
    <3> QED BY <2>3, <3>1, Scalars, SimpleOutcomes
  <2>7. CASE op[1] # "NEG" /\ op[2] # "float"
    <3>1. Unary(op, heap, x) = Gives(IntV(n))
      BY <1>2, <2>7 DEF Unary
    <3> QED BY <2>3, <3>1, Scalars, SimpleOutcomes
  <2> QED BY <2>5, <2>6, <2>7
<1> QED BY <1>1, <1>2

-----------------------------------------------------------------------------
\* Sequences that arithmetic makes.

LEMMA RepeatRange ==
  ASSUME NEW S, NEW s \in Seq(S), NEW n \in Int
  PROVE  Repeat(s, n) \in Seq(S)
<1> DEFINE k == IF n > 0 THEN n * Len(s) ELSE 0
<1>1. Len(s) \in Nat /\ DOMAIN s = 1 .. Len(s)
  BY LenProperties
<1>2. k \in Nat
  <2>1. n > 0 => n * Len(s) >= 0
    BY <1>1
  <2> QED BY <1>1, <2>1
<1>3. ASSUME NEW i \in 1 .. k PROVE s[((i - 1) % Len(s)) + 1] \in S
  <2>1. Len(s) > 0
    <3>1. SUFFICES ASSUME Len(s) = 0 PROVE FALSE
      BY <1>1
    <3> QED BY <3>1
  <2>2. (i - 1) % Len(s) \in 0 .. Len(s) - 1
    BY <1>1, <2>1
  <2>3. ((i - 1) % Len(s)) + 1 \in 1 .. Len(s)
    BY <1>1, <2>2
  <2> QED BY <2>3, ElementOfSeq
<1>4. Repeat(s, n) \in [1 .. k -> S]
  BY <1>3 DEF Repeat
<1> QED BY <1>2, <1>4, MadeSequence

LEMMA PiecesRange ==
  ASSUME NEW S, NEW s \in Seq(S), NEW n \in Int, n > 0
  PROVE  /\ \A i \in 1 .. n : Pieces(s, n)[i] \in Seq(S)
         /\ \A i \in 1 .. n : RangeOf(Pieces(s, n)[i]) \subseteq RangeOf(s)
         /\ \A i \in 1 .. n : Pieces(s, n)[i] \in Seq(RangeOf(Pieces(s, n)[i]))
<1> DEFINE per == (Len(s) + n - 1) \div n
           end(i) == IF i * per < Len(s) THEN i * per ELSE Len(s)
<1>1. Len(s) \in Nat /\ s \in Seq(RangeOf(s)) /\ RangeOf(s) \subseteq S
  BY RangeFacts
<1>2. per \in Nat
  <2>1. (Len(s) + n - 1) \in Nat
    BY <1>1
  <2> QED BY <2>1
<1>3. ASSUME NEW i \in 1 .. n PROVE Pieces(s, n)[i] \in Seq(RangeOf(s))
  <2>1. (i - 1) * per \in Int /\ (i - 1) * per >= 0 /\ i * per \in Int
    BY <1>2
  <2>2. (i - 1) * per + 1 \in Int /\ (i - 1) * per + 1 >= 1
    BY <2>1
  <2>3. end(i) \in Int /\ end(i) <= Len(s)
    BY <1>1, <2>1
  <2>4. Pieces(s, n)[i] = SubSeq(s, (i - 1) * per + 1, end(i))
    BY DEF Pieces
  <2> HIDE DEF end, per
  <2> QED BY <1>1, <2>2, <2>3, <2>4, SubSeqRange
<1>4. ASSUME NEW i \in 1 .. n
      PROVE  /\ Pieces(s, n)[i] \in Seq(S)
             /\ RangeOf(Pieces(s, n)[i]) \subseteq RangeOf(s)
             /\ Pieces(s, n)[i] \in Seq(RangeOf(Pieces(s, n)[i]))
  BY <1>1, <1>3, SeqMonotonic, RangeFacts
<1> QED BY <1>4

LEMMA QuotientIsInt ==
  ASSUME NEW m \in Int, NEW n \in Int, n # 0
  PROVE  Quotient(m, n) \in Int
<1>1. (IF m < 0 THEN -m ELSE m) \in Int /\ (IF n < 0 THEN -n ELSE n) \in Nat \ {0}
  OBVIOUS
<1>2. ((IF m < 0 THEN -m ELSE m) \div (IF n < 0 THEN -n ELSE n)) \in Int
  BY <1>1
<1> QED BY <1>2 DEF Quotient

\* Some order of a finite set has every element once.
LEMMA OrderExists ==
  ASSUME NEW S, IsFiniteSet(S)
  PROVE  /\ SomeOrder(S) \in Seq(S)
         /\ RangeOf(SomeOrder(S)) = S
         /\ \A i, j \in DOMAIN SomeOrder(S) : i # j => SomeOrder(S)[i] # SomeOrder(S)[j]
<1> DEFINE n == Cardinality(S)
           s == SomeOrder(S)
<1>1. n \in Nat /\ ExistsBijection(1 .. n, S)
  BY FS_CardinalityType
<1>2. PICK f \in Bijection(1 .. n, S) : TRUE
  BY <1>1 DEF ExistsBijection
<1>3. f \in [1 .. n -> S] /\ RangeOf(f) = S
  BY <1>2 DEF Bijection, Injection, Surjection, RangeOf
<1>4. s \in [1 .. n -> S] /\ RangeOf(s) = S
  BY <1>3 DEF SomeOrder
<1>5. s \in Surjection(1 .. n, S)
  BY <1>4 DEF Surjection, RangeOf
<1>6. IsFiniteSet(1 .. n) /\ Cardinality(1 .. n) = n
  BY <1>1, FS_Interval
<1>7. s \in Injection(1 .. n, S)
  BY <1>5, <1>6, FS_SurjSameCardinalityImpliesInj
<1>8. \A i, j \in 1 .. n : i # j => s[i] # s[j]
  BY <1>7 DEF Injection, IsInjective
<1> QED BY <1>1, <1>4, <1>8, MadeSequence

-----------------------------------------------------------------------------
\* New objects.

LEMMA GrowsBy ==
  ASSUME NEW heap, heap \in Seq(RangeOf(heap)), NEW objects, objects \in Seq(RangeOf(objects))
  PROVE  /\ Grows(heap, heap \o objects)
         /\ Len(heap \o objects) = Len(heap) + Len(objects)
         /\ Len(heap) \in Nat /\ DOMAIN heap = 1 .. Len(heap)
         /\ Len(objects) \in Nat /\ DOMAIN objects = 1 .. Len(objects)
         /\ DOMAIN (heap \o objects) = 1 .. Len(heap) + Len(objects)
         /\ \A i \in DOMAIN heap : (heap \o objects)[i] = heap[i]
         /\ \A i \in DOMAIN objects : (heap \o objects)[Len(heap) + i] = objects[i]
<1> DEFINE S == RangeOf(heap) \cup RangeOf(objects)
<1>1. heap \in Seq(S) /\ objects \in Seq(S)
  BY SeqMonotonic
<1>2. /\ Len(heap) \in Nat /\ DOMAIN heap = 1 .. Len(heap)
      /\ Len(objects) \in Nat /\ DOMAIN objects = 1 .. Len(objects)
  BY <1>1, LenProperties
<1>3. /\ heap \o objects \in Seq(S)
      /\ Len(heap \o objects) = Len(heap) + Len(objects)
      /\ \A i \in 1 .. Len(heap) + Len(objects) :
           (heap \o objects)[i] = IF i <= Len(heap) THEN heap[i] ELSE objects[i - Len(heap)]
  BY <1>1, ConcatProperties
<1>4. /\ \A i \in DOMAIN heap : (heap \o objects)[i] = heap[i]
      /\ \A i \in DOMAIN objects : (heap \o objects)[Len(heap) + i] = objects[i]
  BY <1>2, <1>3
<1>5. DOMAIN (heap \o objects) = 1 .. Len(heap) + Len(objects)
  BY <1>3, LenProperties
<1>6. Grows(heap, heap \o objects)
  BY <1>2, <1>4, <1>5 DEF Grows
<1> QED BY <1>2, <1>3, <1>4, <1>5, <1>6

LEMMA Single ==
  ASSUME NEW o
  PROVE  /\ <<o>> \in Seq(RangeOf(<<o>>)) /\ Len(<<o>>) = 1
         /\ DOMAIN <<o>> = {1} /\ <<o>>[1] = o
BY DEF RangeOf

LEMMA OneNew ==
  ASSUME NEW F, NEW heap, heap \in Seq(RangeOf(heap)), NEW o, GoodObject(F, heap, o)
  PROVE  /\ IsList(o) => GoodOutcome(F, heap, Creates("list", <<o>>))
         /\ IsDict(o) => GoodOutcome(F, heap, Creates("dict", <<o>>))
<1>1. GoodObject(F, heap \o <<o>>, o)
  BY Single, GrowsBy, GoodStays
<1>2. \A i \in DOMAIN <<o>> : GoodObject(F, heap \o <<o>>, <<o>>[i])
  BY <1>1, Single
<1>3. /\ IsList(o) => GoodNews(F, heap, "list", <<o>>)
      /\ IsDict(o) => GoodNews(F, heap, "dict", <<o>>)
  BY <1>2, Single DEF GoodNews
<1> QED BY <1>3 DEF GoodOutcome, Creates

LEMMA NewList ==
  ASSUME NEW F, NEW heap, GoodHeap(F, heap), NEW s, s \in Seq(RangeOf(s)),
         \A x \in RangeOf(s) : Good(F, heap, x)
  PROVE  GoodOutcome(F, heap, Creates("list", << ListOf(s) >>))
BY GoodLists, OneNew DEF GoodHeap

\* Two sequences that repeat and share nothing, one after the other.
LEMMA ConcatDistinct ==
  ASSUME NEW s, s \in Seq(RangeOf(s)), NEW t, t \in Seq(RangeOf(t)),
         RangeOf(s) \cap RangeOf(t) = {},
         \A i, j \in DOMAIN s : i # j => s[i] # s[j],
         \A i, j \in DOMAIN t : i # j => t[i] # t[j]
  PROVE  \A i, j \in DOMAIN (s \o t) : i # j => (s \o t)[i] # (s \o t)[j]
<1> DEFINE n == Len(s)
           m == Len(t)
           u == s \o t
<1>1. /\ DOMAIN s = 1 .. n /\ n \in Nat /\ DOMAIN t = 1 .. m /\ m \in Nat
      /\ DOMAIN u = 1 .. n + m
      /\ \A k \in 1 .. n : u[k] = s[k]
      /\ \A k \in 1 .. m : u[n + k] = t[k]
  BY GrowsBy
<1>2. /\ \A k \in 1 .. n : s[k] \in RangeOf(s)
      /\ \A k \in 1 .. m : t[k] \in RangeOf(t)
  BY <1>1 DEF RangeOf
<1> HIDE DEF n, m, u
<1>3. ASSUME NEW i \in 1 .. n + m PROVE i \in 1 .. n \/ (i - n \in 1 .. m /\ i = n + (i - n))
  BY <1>1
<1>4. SUFFICES ASSUME NEW i \in 1 .. n + m, NEW j \in 1 .. n + m, i # j PROVE u[i] # u[j]
  BY <1>1 DEF u
<1>5. CASE i \in 1 .. n /\ j \in 1 .. n
  BY <1>1, <1>4, <1>5
<1>6. CASE i \in 1 .. n /\ j \notin 1 .. n
  BY <1>1, <1>2, <1>3, <1>6
<1>7. CASE i \notin 1 .. n /\ j \in 1 .. n
  BY <1>1, <1>2, <1>3, <1>7
<1>8. CASE i \notin 1 .. n /\ j \notin 1 .. n
  <2>1. i - n # j - n
    BY <1>1, <1>4
  <2>2. i - n \in 1 .. m /\ j - n \in 1 .. m /\ u[i] = t[i - n] /\ u[j] = t[j - n]
    BY <1>1, <1>3, <1>8
  <2> QED BY SMTT(20), <1>1, <2>1, <2>2
<1> QED BY <1>5, <1>6, <1>7, <1>8

-----------------------------------------------------------------------------
\* Arithmetic, by operator.

LEMMA DictionarySum ==
  ASSUME NEW F, NEW heap, GoodHeap(F, heap), NEW x, Good(F, heap, x), NEW y, Good(F, heap, y),
         x.is = "dict", y.is = "dict"
  PROVE  GoodOutcome(F, heap, Arithmetic(<<"ADD", "dict">>, heap, x, y))
<1> DEFINE a == heap[x.v]
           b == heap[y.v]
           more == SomeOrder(RangeOf(b.key_order) \ RangeOf(a.key_order))
           order == a.key_order \o more
           vals == [k \in DOMAIN a.values \cup DOMAIN b.values |->
                      IF k \in DOMAIN b.values THEN b.values[k] ELSE a.values[k]]
<1>1. /\ IsCoherent(a) /\ a.key_order \in Seq(Seq(Nat))
      /\ \A z \in RangeOf(a.values) : Good(F, heap, z)
  BY DictAt
<1>2. /\ IsCoherent(b) /\ b.key_order \in Seq(Seq(Nat))
      /\ \A z \in RangeOf(b.values) : Good(F, heap, z)
  BY DictAt
<1>3. IsFiniteSet(RangeOf(b.key_order) \ RangeOf(a.key_order))
  BY <1>2, FiniteRange, FS_Subset
<1>4. /\ more \in Seq(RangeOf(b.key_order) \ RangeOf(a.key_order))
      /\ RangeOf(more) = RangeOf(b.key_order) \ RangeOf(a.key_order)
      /\ \A i, j \in DOMAIN more : i # j => more[i] # more[j]
  BY <1>3, OrderExists
<1>5. RangeOf(b.key_order) \subseteq Seq(Nat)
  BY <1>2, RangeFacts
<1>6. more \in Seq(Seq(Nat)) /\ order \in Seq(Seq(Nat))
  BY <1>1, <1>4, <1>5, SeqMonotonic, ConcatProperties
<1>7. a.key_order \in Seq(RangeOf(a.key_order)) /\ more \in Seq(RangeOf(more))
  BY <1>1, <1>4, RangeFacts
<1>8. RangeOf(order) = DOMAIN vals
  <2>1. RangeOf(order) = RangeOf(a.key_order) \cup RangeOf(more)
    BY <1>7, ConcatRange
  <2> QED BY <1>1, <1>2, <1>4, <2>1 DEF IsCoherent
<1>9. \A i, j \in DOMAIN order : i # j => order[i] # order[j]
  BY ZenonT(30), <1>1, <1>4, <1>7, ConcatDistinct DEF IsCoherent
<1>10. \A z \in RangeOf(vals) : Good(F, heap, z)
  BY <1>1, <1>2 DEF RangeOf
<1>11. Arithmetic(<<"ADD", "dict">>, heap, x, y) = Creates("dict", << DictOf(order, vals) >>)
  BY DEF Arithmetic
<1>12. IsDict(DictOf(order, vals)) /\ GoodObject(F, heap, DictOf(order, vals))
  <2> HIDE DEF order, vals
  <2> QED BY <1>6, <1>8, <1>9, <1>10, GoodDicts
<1> QED BY <1>11, <1>12, OneNew DEF GoodHeap

LEMMA NumberArithmetic ==
  ASSUME NEW F, NEW heap, NEW x, NEW y, Number(heap, x) \in Int, Number(heap, y) \in Int,
         NEW op \in {"ADD", "SUB", "MUL"} \X {"int", "float", "bool"},
         op = <<"SUB", "float">> => F.differences
  PROVE  GoodOutcome(F, heap, Arithmetic(op, heap, x, y))
<1> DEFINE m == Number(heap, x)
           n == Number(heap, y)
           product == IF op[1] = "ADD" THEN m + n
                      ELSE IF op[1] = "SUB" /\ op[2] # "bool" THEN m - n
                      ELSE m * n
<1>1. m + n \in Int /\ m - n \in Int /\ m * n \in Int
  OBVIOUS
<1>2. product \in Int
  BY <1>1
<1> HIDE DEF m, n, product
<1>3. CASE op[2] \in {"int", "bool"}
  <2>1. PICK a \in {"ADD", "SUB", "MUL"}, b \in {"int", "bool"} : op = <<a, b>>
    BY <1>3
  <2>2. Arithmetic(<<a, b>>, heap, x, y) =
          Gives(IntV(IF a = "ADD" THEN m + n
                     ELSE IF a = "SUB" /\ b # "bool" THEN m - n
                     ELSE m * n))
    BY DEF Arithmetic, m, n
  <2> QED BY <1>2, <2>1, <2>2, Scalars, SimpleOutcomes DEF product
<1>4. CASE op = <<"SUB", "float">>
  <2>0. /\ op \notin {"ADD", "SUB", "MUL"} \X {"int", "bool"}
        /\ op \notin {<<"ADD", "float">>, <<"MUL", "float">>}
    BY <1>4
  <2>1. Arithmetic(op, heap, x, y) = Gives([type |-> "int", is |-> "float", v |-> product])
    BY <1>4, <2>0 DEF Arithmetic, product, m, n
  <2>2. Good(F, heap, [type |-> "int", is |-> "float", v |-> product])
    BY <1>2, <1>4 DEF Good, IsValue, IsDifference, Kinds
  <2> QED BY <2>1, <2>2, SimpleOutcomes
<1>5. CASE op \in {<<"ADD", "float">>, <<"MUL", "float">>}
  <2>1. op \notin {"ADD", "SUB", "MUL"} \X {"int", "bool"}
    BY <1>5
  <2>2. Arithmetic(op, heap, x, y) = Gives(FloatV(product))
    BY <1>5, <2>1 DEF Arithmetic, product, m, n
  <2> QED BY <1>2, <2>2, Scalars, SimpleOutcomes
<1> QED BY <1>3, <1>4, <1>5

LEMMA RepeatedList ==
  ASSUME NEW F, NEW heap, GoodHeap(F, heap), NEW x, Good(F, heap, x), x.is = "list", NEW n \in Int
  PROVE  GoodOutcome(F, heap, Creates("list", << ListOf(Repeat(heap[x.v].items, n)) >>))
<1> DEFINE s == Repeat(heap[x.v].items, n)
<1>1. s \in Seq(RangeOf(heap[x.v].items))
  BY ListAt, RepeatRange
<1>2. s \in Seq(RangeOf(s)) /\ RangeOf(s) \subseteq RangeOf(heap[x.v].items)
  BY <1>1, RangeFacts
<1> QED BY <1>2, ListAt, NewList

LEMMA StringPieces ==
  ASSUME NEW F, NEW heap, GoodHeap(F, heap), NEW s \in Seq(Nat), NEW n \in Int, n > 0
  PROVE  GoodOutcome(F, heap,
           Creates("list", << ListOf([i \in 1 .. n |-> StrV(Pieces(s, n)[i])]) >>))
<1> DEFINE t == [i \in 1 .. n |-> StrV(Pieces(s, n)[i])]
<1>1. \A i \in 1 .. n : Good(F, heap, t[i])
  BY PiecesRange, Scalars
<1>2. t \in [1 .. n -> RangeOf(t)]
  BY DEF RangeOf
<1>3. t \in Seq(RangeOf(t))
  BY <1>2, MadeSequence
<1>4. \A y \in RangeOf(t) : Good(F, heap, y)
  BY <1>1 DEF RangeOf
<1> QED BY <1>3, <1>4, NewList

\* New lists and a list of them.
LEMMA ListOfNewLists ==
  ASSUME NEW F, NEW heap, NEW later, Grows(heap, later), Len(heap) \in Nat,
         NEW n \in Nat, NEW objects, DOMAIN later = 1 .. Len(heap) + (n + 1),
         NEW refs, refs \in Seq(RangeOf(refs)), DOMAIN refs = 1 .. n,
         \A i \in 1 .. n + 1 : later[Len(heap) + i] = objects[i],
         \A i \in 1 .. n : IsList(objects[i]) /\ GoodObject(F, heap, objects[i]),
         \A i \in 1 .. n : refs[i] = Make("list", Len(heap) + i),
         objects[n + 1] = ListOf(refs)
  PROVE  /\ IsList(objects[n + 1])
         /\ \A i \in 1 .. n + 1 : GoodObject(F, later, objects[i])
<1>1. ASSUME NEW i \in 1 .. n PROVE GoodObject(F, later, objects[i])
  BY GoodStays
<1>2. ASSUME NEW i \in 1 .. n PROVE Good(F, later, refs[i])
  <2>1. Len(heap) + i \in DOMAIN later /\ later[Len(heap) + i] = objects[i]
    OBVIOUS
  <2> QED BY <2>1, References
<1>3. \A y \in RangeOf(refs) : Good(F, later, y)
  BY <1>2 DEF RangeOf
<1>4. IsList(objects[n + 1]) /\ GoodObject(F, later, objects[n + 1])
  BY <1>3, GoodLists
<1>5. \A i \in 1 .. n + 1 : i \in 1 .. n \/ i = n + 1
  OBVIOUS
<1> QED BY <1>1, <1>4, <1>5

LEMMA Extended ==
  ASSUME NEW s, s \in Seq(RangeOf(s)), NEW o
  PROVE  /\ s \o <<o>> \in Seq(RangeOf(s \o <<o>>))
         /\ Len(s \o <<o>>) = Len(s) + 1
         /\ \A i \in 1 .. Len(s) : (s \o <<o>>)[i] = s[i]
         /\ (s \o <<o>>)[Len(s) + 1] = o
<1>1. PICK t : t = <<o>>
  OBVIOUS
<1>2. t \in Seq(RangeOf(t)) /\ Len(t) = 1 /\ DOMAIN t = {1} /\ t[1] = o
  BY <1>1, Single
<1>3. /\ s \o t \in Seq(RangeOf(s \o t)) /\ Len(s \o t) = Len(s) + 1
      /\ \A i \in 1 .. Len(s) : (s \o t)[i] = s[i]
      /\ (s \o t)[Len(s) + 1] = t[1]
  BY <1>2, ConcatRange, GrowsBy
<1> QED BY <1>1, <1>2, <1>3

LEMMA ListPieces ==
  ASSUME NEW F, NEW heap, GoodHeap(F, heap), NEW x, Good(F, heap, x), x.is = "list",
         NEW n \in Int, n > 0
  PROVE  GoodOutcome(F, heap,
           Creates("list",
             [i \in 1 .. n |-> ListOf(Pieces(heap[x.v].items, n)[i])]
               \o << ListOf([i \in 1 .. n |-> Make("list", Len(heap) + i)]) >>))
<1> DEFINE parts == [i \in 1 .. n |-> ListOf(Pieces(heap[x.v].items, n)[i])]
<1>1. ASSUME NEW i \in 1 .. n
      PROVE  IsList(parts[i]) /\ GoodObject(F, heap, parts[i])
  <2>1. /\ Pieces(heap[x.v].items, n)[i] \in Seq(RangeOf(Pieces(heap[x.v].items, n)[i]))
        /\ RangeOf(Pieces(heap[x.v].items, n)[i]) \subseteq RangeOf(heap[x.v].items)
    BY ListAt, PiecesRange
  <2>2. \A y \in RangeOf(Pieces(heap[x.v].items, n)[i]) : Good(F, heap, y)
    BY <2>1, ListAt
  <2> QED BY <2>1, <2>2, GoodLists
<1>2. parts \in Seq(RangeOf(parts)) /\ Len(parts) = n
  <2>1. parts \in [1 .. n -> RangeOf(parts)]
    BY DEF RangeOf
  <2> QED BY <2>1, MadeSequence
<1> HIDE DEF parts
<1>3. n \in Nat /\ heap \in Seq(RangeOf(heap))
  BY DEF GoodHeap
<1>4. PICK refs : refs = [i \in 1 .. n |-> Make("list", Len(heap) + i)]
  OBVIOUS
<1>5. /\ refs \in Seq(RangeOf(refs)) /\ DOMAIN refs = 1 .. n
      /\ \A i \in 1 .. n : refs[i] = Make("list", Len(heap) + i)
  <2>1. refs \in [1 .. n -> RangeOf(refs)]
    BY <1>4 DEF RangeOf
  <2> QED BY <1>3, <1>4, <2>1, MadeSequence
<1>6. PICK objects : objects = parts \o << ListOf(refs) >>
  OBVIOUS
<1>7. /\ objects \in Seq(RangeOf(objects)) /\ Len(objects) = n + 1
      /\ \A i \in 1 .. n : objects[i] = parts[i]
      /\ objects[n + 1] = ListOf(refs)
  BY <1>2, <1>6, Extended
<1>8. PICK later : later = heap \o objects
  OBVIOUS
<1>9. /\ Grows(heap, later) /\ Len(heap) \in Nat
      /\ DOMAIN objects = 1 .. n + 1
      /\ DOMAIN later = 1 .. Len(heap) + (n + 1)
      /\ \A i \in 1 .. n + 1 : later[Len(heap) + i] = objects[i]
  <2>1. /\ Grows(heap, heap \o objects) /\ Len(heap) \in Nat
        /\ DOMAIN objects = 1 .. Len(objects)
        /\ DOMAIN (heap \o objects) = 1 .. Len(heap) + Len(objects)
        /\ \A i \in DOMAIN objects : (heap \o objects)[Len(heap) + i] = objects[i]
    <3>1. heap \in Seq(RangeOf(heap)) /\ objects \in Seq(RangeOf(objects))
      BY <1>3, <1>7
    <3> QED BY <3>1, GrowsBy
  <2> QED BY <1>7, <1>8, <2>1
<1>10. \A i \in 1 .. n : IsList(objects[i]) /\ GoodObject(F, heap, objects[i])
  BY <1>1, <1>7
<1>11. /\ IsList(objects[n + 1])
       /\ \A i \in 1 .. n + 1 : GoodObject(F, later, objects[i])
  BY ZenonT(30), <1>3, <1>5, <1>7, <1>9, <1>10, ListOfNewLists
<1>12. GoodNews(F, heap, "list", objects)
  BY <1>3, <1>7, <1>8, <1>9, <1>11 DEF GoodNews
<1>13. GoodOutcome(F, heap, Creates("list", objects))
  BY <1>12 DEF GoodOutcome, Creates
<1> QED BY <1>4, <1>6, <1>13 DEF parts

LEMMA ArithmeticIsGood ==
  ASSUME NEW F, NEW heap, GoodHeap(F, heap), NEW x, Good(F, heap, x), NEW y, Good(F, heap, y),
         NEW op \in ArithmeticOps, op = <<"SUB", "float">> => F.differences,
         x.is = LeftType(op), y.is = RightType(op)
  PROVE  GoodOutcome(F, heap, Arithmetic(op, heap, x, y))
<1> DEFINE m == Number(heap, x)
           n == Number(heap, y)
<1>1. x.is \in Countable /\ y.is \in Countable
  BY DEF ArithmeticOps, LeftType, RightType, LogicalOps, Countable
<1>2. m \in Int /\ n \in Int
  BY <1>1, NumberIsInt
<1>3. /\ x.is = "string" => x.v \in Seq(Nat)
      /\ y.is = "string" => y.v \in Seq(Nat)
  BY DEF Good, IsValue
<1>4. CASE op \in {"ADD", "SUB", "MUL"} \X {"int", "float", "bool"}
  BY <1>2, <1>4, NumberArithmetic
<1>5. CASE op = <<"ADD", "string">>
  <2>1. x.v \o y.v \in Seq(Nat)
    BY <1>3, <1>5, ConcatProperties DEF LeftType, RightType, LogicalOps
  <2>2. Arithmetic(op, heap, x, y) = Gives(StrV(x.v \o y.v))
    BY <1>5 DEF Arithmetic
  <2> QED BY <2>1, <2>2, Scalars, SimpleOutcomes
<1>6. CASE op = <<"ADD", "list">>
  <2> DEFINE s == heap[x.v].items
             t == heap[y.v].items
  <2>1. x.is = "list" /\ y.is = "list"
    BY <1>6 DEF LeftType, RightType, LogicalOps
  <2>2. /\ s \in Seq(RangeOf(s)) /\ \A z \in RangeOf(s) : Good(F, heap, z)
        /\ t \in Seq(RangeOf(t)) /\ \A z \in RangeOf(t) : Good(F, heap, z)
    BY <2>1, ListAt
  <2>3. s \o t \in Seq(RangeOf(s \o t)) /\ \A z \in RangeOf(s \o t) : Good(F, heap, z)
    BY <2>2, ConcatRange
  <2>4. Arithmetic(op, heap, x, y) = Creates("list", << ListOf(s \o t) >>)
    BY <1>6 DEF Arithmetic
  <2> HIDE DEF s, t
  <2> QED BY <2>3, <2>4, NewList
<1>7. CASE op = <<"ADD", "dict">>
  <2>1. x.is = "dict" /\ y.is = "dict"
    BY <1>7 DEF LeftType, RightType, LogicalOps
  <2> QED BY <1>7, <2>1, DictionarySum
<1>8. CASE op = <<"MUL", "int", "string">>
  <2>1. Repeat(y.v, m) \in Seq(Nat)
    BY <1>2, <1>3, <1>8, RepeatRange DEF RightType
  <2>2. Arithmetic(op, heap, x, y) = Gives(StrV(Repeat(y.v, m)))
    BY <1>8 DEF Arithmetic
  <2> QED BY <2>1, <2>2, Scalars, SimpleOutcomes
<1>9. CASE op = <<"MUL", "string", "int">>
  <2>1. Repeat(x.v, n) \in Seq(Nat)
    BY <1>2, <1>3, <1>9, RepeatRange DEF LeftType, LogicalOps
  <2>2. Arithmetic(op, heap, x, y) = Gives(StrV(Repeat(x.v, n)))
    BY <1>9 DEF Arithmetic
  <2> QED BY <2>1, <2>2, Scalars, SimpleOutcomes
<1>10. CASE op = <<"MUL", "int", "list">>
  <2>1. y.is = "list"
    BY <1>10 DEF RightType
  <2>2. Arithmetic(op, heap, x, y) =
          Creates("list", << ListOf(Repeat(heap[y.v].items, m)) >>)
    BY <1>10 DEF Arithmetic
  <2> QED BY <1>2, <2>1, <2>2, RepeatedList
<1>11. CASE op = <<"MUL", "list", "int">>
  <2>1. x.is = "list"
    BY <1>11 DEF LeftType, LogicalOps
  <2>2. Arithmetic(op, heap, x, y) =
          Creates("list", << ListOf(Repeat(heap[x.v].items, n)) >>)
    BY <1>11 DEF Arithmetic
  <2> QED BY <1>2, <2>1, <2>2, RepeatedList
<1>12. CASE op = <<"DIV", "int">>
  <2>1. Arithmetic(op, heap, x, y) =
          IF n = 0 THEN Crashes ELSE Gives(FloatV(Quotient(m, n)))
    BY <1>12 DEF Arithmetic
  <2> HIDE DEF m, n
  <2>2. CASE n = 0
    BY <2>1, <2>2, SimpleOutcomes
  <2>3. CASE n # 0
    <3>1. Good(F, heap, FloatV(Quotient(m, n)))
      BY <1>2, <2>3, QuotientIsInt, Scalars
    <3> QED BY <2>1, <2>3, <3>1, SimpleOutcomes
  <2> QED BY <2>2, <2>3
<1>13. CASE op = <<"DIV", "string", "int">>
  <2>1. x.v \in Seq(Nat)
    BY <1>3, <1>13 DEF LeftType, LogicalOps
  <2>2. Arithmetic(op, heap, x, y) =
          IF n <= 0 THEN Crashes
          ELSE Creates("list", << ListOf([i \in 1 .. n |-> StrV(Pieces(x.v, n)[i])]) >>)
    BY <1>13 DEF Arithmetic
  <2> HIDE DEF m, n
  <2>3. n > 0 \/ n <= 0
    BY <1>2
  <2> QED BY <1>2, <2>1, <2>2, <2>3, StringPieces, SimpleOutcomes
<1>14. CASE op = <<"DIV", "list", "int">>
  <2>1. x.is = "list"
    BY <1>14 DEF LeftType, LogicalOps
  <2>2. Arithmetic(op, heap, x, y) =
          IF n <= 0 THEN Crashes
          ELSE Creates("list",
                 [i \in 1 .. n |-> ListOf(Pieces(heap[x.v].items, n)[i])]
                   \o << ListOf([i \in 1 .. n |-> Make("list", Len(heap) + i)]) >>)
    BY <1>14 DEF Arithmetic
  <2> HIDE DEF m, n
  <2>3. n > 0 \/ n <= 0
    BY <1>2
  <2> QED BY <1>2, <2>1, <2>2, <2>3, ListPieces, SimpleOutcomes
<1> HIDE DEF m, n
<1> QED BY <1>4, <1>5, <1>6, <1>7, <1>8, <1>9, <1>10, <1>11, <1>12, <1>13, <1>14 DEF ArithmeticOps

LEMMA BinaryIsGood ==
  ASSUME NEW F, NEW heap, GoodHeap(F, heap), NEW x, Good(F, heap, x), NEW y, Good(F, heap, y),
         NEW op \in BinaryOps, op = <<"SUB", "float">> => F.differences
  PROVE  GoodOutcome(F, heap, Binary(op, heap, x, y))
<1>1. ASSUME NEW b \in BOOLEAN PROVE GoodOutcome(F, heap, Gives(BoolV(b)))
  BY Scalars, SimpleOutcomes
<1>2. CASE op \in EqualityOps /\ op[2] \in {"list", "dict"}
  <2> DEFINE found == SameAs(heap, x, y)
             b == (found = "same") = (op[1] = "EQ")
  <2>1. Binary(op, heap, x, y) \in { Undefined, Mistaken, Gives(BoolV(b)) }
    BY <1>2 DEF Binary, Equality
  <2> HIDE DEF found
  <2>2. b \in BOOLEAN
    OBVIOUS
  <2> HIDE DEF b
  <2> QED BY <1>1, <2>1, <2>2, SimpleOutcomes
<1>3. CASE ~ (op \in EqualityOps /\ op[2] \in {"list", "dict"})
           /\ (x.is # LeftType(op) \/ y.is # RightType(op))
  BY <1>3, SimpleOutcomes DEF Binary
<1>4. CASE ~ (op \in EqualityOps /\ op[2] \in {"list", "dict"})
           /\ x.is = LeftType(op) /\ y.is = RightType(op) /\ op \in ArithmeticOps
  BY <1>4, ArithmeticIsGood DEF Binary
<1>5. CASE ~ (op \in EqualityOps /\ op[2] \in {"list", "dict"})
           /\ x.is = LeftType(op) /\ y.is = RightType(op) /\ op \notin ArithmeticOps
  <2> DEFINE b == CASE op[1] = "EQ" -> x.v = y.v
                    [] op[1] = "NEQ" -> x.v # y.v
                    [] op[1] = "LT" -> Less(heap, x, y)
                    [] op[1] = "HT" -> Less(heap, y, x)
                    [] op[1] = "LTE" -> ~ Less(heap, y, x)
                    [] op[1] = "HTE" -> ~ Less(heap, x, y)
                    [] op[1] = "OR" -> x.v \/ y.v
                    [] op[1] = "AND" -> x.v /\ y.v
  <2>1. Binary(op, heap, x, y) = Gives(BoolV(b))
    BY <1>5 DEF Binary
  <2>2. op[1] \in {"EQ", "NEQ", "LT", "HT", "LTE", "HTE", "OR", "AND"}
    BY <1>5 DEF BinaryOps, EqualityOps, OrderOps, LogicalOps
  <2>3. /\ (x.v = y.v) \in BOOLEAN /\ (x.v # y.v) \in BOOLEAN
        /\ (x.v \/ y.v) \in BOOLEAN /\ (x.v /\ y.v) \in BOOLEAN
    OBVIOUS
  <2>4. op[1] \in {"LT", "HT", "LTE", "HTE"}
          => Less(heap, x, y) \in BOOLEAN /\ Less(heap, y, x) \in BOOLEAN
    <3> SUFFICES ASSUME op[1] \in {"LT", "HT", "LTE", "HTE"}
                 PROVE  Less(heap, x, y) \in BOOLEAN /\ Less(heap, y, x) \in BOOLEAN
      OBVIOUS
    <3>1. op \in OrderOps
      BY <1>5 DEF BinaryOps, EqualityOps, OrderOps, LogicalOps
    <3>2. x.is = op[2] /\ y.is = op[2] /\ op[2] \in Countable
      BY <1>5, <3>1 DEF OrderOps, LeftType, RightType, LogicalOps, Countable
    <3>3. (Number(heap, x) < Number(heap, y)) \in BOOLEAN /\ (Number(heap, y) < Number(heap, x)) \in BOOLEAN
      BY <3>2, NumberIsInt
    <3>4. Precedes(x.v, y.v) \in BOOLEAN /\ Precedes(y.v, x.v) \in BOOLEAN
      BY Zenon DEF Precedes
    <3> QED BY <3>2, <3>3, <3>4 DEF Less
  <2>5. b \in BOOLEAN
    BY <2>2, <2>3, <2>4
  <2> HIDE DEF b
  <2> QED BY <1>1, <2>1, <2>5
<1> QED BY <1>2, <1>3, <1>4, <1>5

LEMMA RangeOfIntsIsGood ==
  ASSUME NEW F, NEW heap, GoodHeap(F, heap), NEW x, Good(F, heap, x), NEW y, Good(F, heap, y),
         NEW op
  PROVE  GoodOutcome(F, heap, RangeOfInts(op, x, y))
<1>1. CASE x.is # "int" \/ y.is # "int"
  BY <1>1, SimpleOutcomes DEF RangeOfInts
<1>2. CASE x.is = "int" /\ y.is = "int"
  <2> DEFINE last == IF op = <<"RANGEI">> THEN y.v ELSE y.v - 1
             s == Interval(x.v, last)
  <2>1. x.v \in Int /\ last \in Int
    BY <1>2 DEF Good, IsValue
  <2> HIDE DEF last
  <2> DEFINE k == IF x.v <= last THEN last - x.v + 1 ELSE 0
  <2>2. k \in Nat
    BY <2>1
  <2>3. \A i \in 1 .. k : s[i] = IntV(x.v + i - 1) /\ x.v + i - 1 \in Int
    BY <2>1 DEF Interval
  <2>4. s \in [1 .. k -> RangeOf(s)]
    BY DEF Interval, RangeOf
  <2>5. s \in Seq(RangeOf(s)) /\ Len(s) = k
    BY <2>2, <2>4, MadeSequence
  <2>6. \A z \in RangeOf(s) : Good(F, heap, z)
    BY <2>3, <2>4, Scalars DEF RangeOf
  <2>7. RangeOfInts(op, x, y) = Creates("list", << ListOf(s) >>)
    BY <1>2 DEF RangeOfInts, last
  <2> HIDE DEF s
  <2> QED BY <2>5, <2>6, <2>7, NewList
<1> QED BY <1>1, <1>2

-----------------------------------------------------------------------------
\* Access to elements.

LEMMA WithoutRange ==
  ASSUME NEW s, s \in Seq(RangeOf(s)), NEW i \in 0 .. Len(s)
  PROVE  /\ Without(s, i) \in Seq(RangeOf(s))
         /\ i < Len(s) => /\ DOMAIN Without(s, i) = 1 .. Len(s) - 1
                          /\ \A k \in 1 .. i : Without(s, i)[k] = s[k]
                          /\ \A k \in i + 1 .. Len(s) - 1 : Without(s, i)[k] = s[k + 1]
<1> DEFINE t == SubSeq(s, 1, i)
           u == SubSeq(s, i + 2, Len(s))
<1>1. Len(s) \in Nat
  BY RangeFacts
<1>2. /\ t \in Seq(RangeOf(s)) /\ Len(t) = i
      /\ \A k \in 1 .. i : t[k] = s[k]
  BY <1>1, SubSeqRange
<1>3. /\ u \in Seq(RangeOf(s))
      /\ i < Len(s) => /\ Len(u) = Len(s) - i - 1
                       /\ \A k \in 1 .. Len(s) - i - 1 : u[k] = s[k + i + 1]
  <2>1. /\ u \in Seq(RangeOf(s))
        /\ Len(u) = IF i + 2 <= Len(s) THEN Len(s) - (i + 2) + 1 ELSE 0
        /\ \A k \in 1 .. Len(s) - (i + 2) + 1 : u[k] = s[i + 2 + k - 1]
    BY <1>1, SubSeqRange
  <2> HIDE DEF u
  <2> QED BY <1>1, <2>1
<1> HIDE DEF t, u
<1>4. /\ t \o u \in Seq(RangeOf(s)) /\ Len(t \o u) = Len(t) + Len(u)
      /\ \A k \in 1 .. Len(t) + Len(u) : (t \o u)[k] = IF k <= Len(t) THEN t[k] ELSE u[k - Len(t)]
  <2>1. t \in Seq(RangeOf(s)) /\ u \in Seq(RangeOf(s))
    BY <1>2, <1>3
  <2> QED BY <2>1, ConcatProperties
<1>5. DOMAIN (t \o u) = 1 .. Len(t \o u)
  BY <1>4, LenProperties
<1>6. ASSUME i < Len(s)
      PROVE  /\ DOMAIN (t \o u) = 1 .. Len(s) - 1
             /\ \A k \in 1 .. i : (t \o u)[k] = s[k]
             /\ \A k \in i + 1 .. Len(s) - 1 : (t \o u)[k] = s[k + 1]
  <2>1. Len(t) + Len(u) = Len(s) - 1
    BY <1>1, <1>2, <1>3, <1>6
  <2>2. \A k \in 1 .. i : (t \o u)[k] = s[k]
    BY <1>1, <1>2, <1>4, <1>6, <2>1
  <2>3. ASSUME NEW k \in i + 1 .. Len(s) - 1 PROVE (t \o u)[k] = s[k + 1]
    <3>1. k \in 1 .. Len(t) + Len(u) /\ ~ (k <= Len(t)) /\ k - i \in 1 .. Len(s) - i - 1
      BY <1>1, <1>2, <2>1
    <3>2. (t \o u)[k] = u[k - i]
      BY <1>2, <1>4, <3>1
    <3>3. u[k - i] = s[(k - i) + i + 1] /\ (k - i) + i + 1 = k + 1
      BY <1>1, <1>3, <1>6, <3>1
    <3> QED BY <3>2, <3>3
  <2> QED BY <1>4, <1>5, <2>1, <2>2, <2>3
<1> QED BY <1>4, <1>6 DEF Without, t, u

\* The string of a value and its parts.
LEMMA StringAt ==
  ASSUME NEW F, NEW heap, NEW x, Good(F, heap, x), x.is = "string"
  PROVE  /\ x.v \in Seq(Nat) /\ Len(x.v) \in Nat /\ x.v \in Seq(RangeOf(x.v))
         /\ RangeOf(x.v) \subseteq Nat
         /\ \A k \in 1 .. Len(x.v) : x.v[k] \in Nat
         /\ \A s \in Seq(Nat) : Good(F, heap, [x EXCEPT !.v = s])
<1>1. x.v \in Seq(Nat)
  BY DEF Good, IsValue
<1>2. ASSUME NEW s \in Seq(Nat) PROVE Good(F, heap, [x EXCEPT !.v = s])
  <2>1. [x EXCEPT !.v = s] = [type |-> x.type, is |-> "string", v |-> s]
    <3>1. x = [type |-> x.type, is |-> "string", v |-> x.v]
      BY DEF Good, IsValue
    <3> QED BY <3>1
  <2> QED BY <2>1 DEF Good, IsValue, IsDifference
<1> QED BY <1>1, <1>2, RangeFacts

LEMMA IndexAt ==
  ASSUME NEW F, NEW heap, NEW i, Good(F, heap, i), i.is = "int"
  PROVE  i.v \in Int
BY DEF Good, IsValue

LEMMA StringGetIsGood ==
  ASSUME NEW F, NEW heap, NEW x, Good(F, heap, x), NEW i, Good(F, heap, i)
  PROVE  GoodOutcome(F, heap, StringGet(x, i))
<1>1. CASE x.is # "string" \/ i.is # "int"
  BY <1>1, SimpleOutcomes DEF StringGet
<1>2. CASE x.is = "string" /\ i.is = "int" /\ ~ InBounds(i.v, Len(x.v))
  BY <1>2, SimpleOutcomes DEF StringGet
<1>3. CASE x.is = "string" /\ i.is = "int" /\ InBounds(i.v, Len(x.v))
  <2> DEFINE char == IF i.v = Len(x.v) THEN 0 ELSE x.v[i.v + 1]
  <2>1. char \in Nat
    <3>1. i.v \in 0 .. Len(x.v) /\ Len(x.v) \in Nat
      BY <1>3, StringAt, IndexAt DEF InBounds
    <3>2. i.v # Len(x.v) => i.v + 1 \in 1 .. Len(x.v)
      BY <3>1
    <3> QED BY <1>3, <3>2, StringAt
  <2>2. StringGet(x, i) = Gives(StrV(<< char >>))
    BY <1>3 DEF StringGet
  <2> HIDE DEF char
  <2>3. << char >> \in Seq(Nat)
    BY <2>1
  <2> QED BY <2>2, <2>3, Scalars, SimpleOutcomes
<1> QED BY <1>1, <1>2, <1>3

LEMMA StringSetIsGood ==
  ASSUME NEW F, NEW heap, NEW x, Good(F, heap, x), NEW i, Good(F, heap, i),
         NEW y, Good(F, heap, y)
  PROVE  GoodOutcome(F, heap, StringSet(x, i, y))
<1> DEFINE char == IF y.v = <<>> THEN 0 ELSE y.v[1]
<1>1. CASE x.is # "string" \/ i.is # "int" \/ y.is # "string"
  BY <1>1, SimpleOutcomes DEF StringSet
<1>2. CASE x.is = "string" /\ i.is = "int" /\ y.is = "string" /\ ~ InBounds(i.v, Len(x.v))
  BY <1>2, SimpleOutcomes DEF StringSet
<1>3. CASE x.is = "string" /\ i.is = "int" /\ y.is = "string" /\ i.v = Len(x.v)
  BY <1>3, SimpleOutcomes DEF StringSet
<1>4. CASE x.is = "string" /\ i.is = "int" /\ y.is = "string" /\ InBounds(i.v, Len(x.v))
           /\ i.v # Len(x.v)
  <2>1. char \in Nat
    <3>1. y.v # <<>> => 1 \in 1 .. Len(y.v)
      BY <1>4, StringAt, EmptySeq
    <3> QED BY <1>4, <3>1, StringAt
  <2>2. i.v + 1 \in 1 .. Len(x.v)
    BY <1>4, StringAt, IndexAt DEF InBounds
  <2>3. StringSet(x, i, y) = Gives([x EXCEPT !.v = [x.v EXCEPT ![i.v + 1] = char]])
    BY <1>4 DEF StringSet
  <2> HIDE DEF char
  <2>4. [x.v EXCEPT ![i.v + 1] = char] \in Seq(Nat)
    BY <1>4, <2>1, <2>2, StringAt, ExceptSeq
  <2> QED BY <1>4, <2>3, <2>4, StringAt, SimpleOutcomes
<1> QED BY <1>1, <1>2, <1>3, <1>4

LEMMA StringDeleteIsGood ==
  ASSUME NEW F, NEW heap, NEW x, Good(F, heap, x), NEW i, Good(F, heap, i)
  PROVE  GoodOutcome(F, heap, StringDelete(x, i))
<1>1. CASE x.is # "string" \/ i.is # "int"
  BY <1>1, SimpleOutcomes DEF StringDelete
<1>2. CASE x.is = "string" /\ i.is = "int" /\ ~ InBounds(i.v, Len(x.v))
  BY <1>2, SimpleOutcomes DEF StringDelete
<1>3. CASE x.is = "string" /\ i.is = "int" /\ InBounds(i.v, Len(x.v))
  <2>1. i.v \in 0 .. Len(x.v)
    BY <1>3, StringAt, IndexAt DEF InBounds
  <2>2. Without(x.v, i.v) \in Seq(Nat)
    <3>1. x.v \in Seq(RangeOf(x.v)) /\ RangeOf(x.v) \subseteq Nat
      BY <1>3, StringAt
    <3>2. Without(x.v, i.v) \in Seq(RangeOf(x.v))
      BY <2>1, <3>1, WithoutRange
    <3> QED BY <3>1, <3>2, SeqMonotonic
  <2>3. StringDelete(x, i) = Gives([x EXCEPT !.v = Without(x.v, i.v)])
    BY <1>3 DEF StringDelete
  <2> QED BY <1>3, <2>2, <2>3, StringAt, SimpleOutcomes
<1> QED BY <1>1, <1>2, <1>3

LEMMA StoreList ==
  ASSUME NEW F, NEW heap, GoodHeap(F, heap), NEW x, Good(F, heap, x), x.is = "list",
         NEW s, s \in Seq(RangeOf(s)), \A z \in RangeOf(s) : Good(F, heap, z)
  PROVE  GoodOutcome(F, heap, Stores(x.v, ListOf(s)))
BY ListAt, GoodLists DEF GoodOutcome, Stores

LEMMA StoreDict ==
  ASSUME NEW F, NEW heap, GoodHeap(F, heap), NEW x, Good(F, heap, x), x.is = "dict",
         NEW order \in Seq(Seq(Nat)), NEW vals, DOMAIN vals = RangeOf(order),
         \A i, j \in DOMAIN order : i # j => order[i] # order[j],
         \A z \in RangeOf(vals) : Good(F, heap, z)
  PROVE  GoodOutcome(F, heap, Stores(x.v, DictOf(order, vals)))
BY DictAt, GoodDicts DEF GoodOutcome, Stores

LEMMA ListPushIsGood ==
  ASSUME NEW F, NEW heap, GoodHeap(F, heap), NEW x, Good(F, heap, x), NEW y, Good(F, heap, y)
  PROVE  GoodOutcome(F, heap, ListPush(heap, x, y))
<1>1. CASE x.is # "list"
  BY <1>1, SimpleOutcomes DEF ListPush
<1>2. CASE x.is = "list"
  <2> DEFINE s == Append(heap[x.v].items, y)
  <2>1. s \in Seq(RangeOf(s)) /\ \A z \in RangeOf(s) : Good(F, heap, z)
    BY <1>2, ListAt, AppendRange
  <2>2. ListPush(heap, x, y) = Stores(x.v, ListOf(s))
    BY <1>2 DEF ListPush
  <2> HIDE DEF s
  <2> QED BY <1>2, <2>1, <2>2, StoreList
<1> QED BY <1>1, <1>2

LEMMA ListGetIsGood ==
  ASSUME NEW F, NEW heap, GoodHeap(F, heap), NEW x, Good(F, heap, x), NEW i, Good(F, heap, i)
  PROVE  GoodOutcome(F, heap, ListGet(heap, x, i))
<1> DEFINE items == heap[x.v].items
<1>1. CASE \/ x.is # "list" \/ i.is # "int" \/ ~ InBounds(i.v, Len(items))
           \/ i.v = Len(items)
  BY <1>1, SimpleOutcomes DEF ListGet
<1>2. CASE /\ x.is = "list" /\ i.is = "int" /\ InBounds(i.v, Len(items))
           /\ i.v # Len(items)
  <2>1. items \in Seq(RangeOf(items)) /\ \A z \in RangeOf(items) : Good(F, heap, z)
    BY <1>2, ListAt
  <2>2. i.v + 1 \in 1 .. Len(items)
    BY <1>2, <2>1, IndexAt, LenProperties DEF InBounds
  <2>3. Good(F, heap, items[i.v + 1])
    BY <2>1, <2>2, RangeFacts
  <2>4. ListGet(heap, x, i) = Gives(items[i.v + 1])
    BY <1>2 DEF ListGet
  <2> QED BY <2>3, <2>4, SimpleOutcomes
<1> QED BY <1>1, <1>2

LEMMA ListSetIsGood ==
  ASSUME NEW F, NEW heap, GoodHeap(F, heap), NEW x, Good(F, heap, x), NEW i, Good(F, heap, i),
         NEW y, Good(F, heap, y)
  PROVE  GoodOutcome(F, heap, ListSet(heap, x, i, y))
<1> DEFINE items == heap[x.v].items
<1>1. CASE \/ x.is # "list" \/ i.is # "int" \/ ~ InBounds(i.v, Len(items))
           \/ i.v = Len(items)
  BY <1>1, SimpleOutcomes DEF ListSet
<1>2. CASE /\ x.is = "list" /\ i.is = "int" /\ InBounds(i.v, Len(items))
           /\ i.v # Len(items)
  <2> DEFINE s == [items EXCEPT ![i.v + 1] = y]
             S == RangeOf(items) \cup {y}
  <2>1. items \in Seq(RangeOf(items)) /\ \A z \in RangeOf(items) : Good(F, heap, z)
    BY <1>2, ListAt
  <2>2. i.v + 1 \in 1 .. Len(items)
    BY <1>2, <2>1, IndexAt, LenProperties DEF InBounds
  <2>3. items \in Seq(S)
    BY <2>1, SeqMonotonic
  <2>4. ListSet(heap, x, i, y) = Stores(x.v, ListOf(s))
    BY <1>2 DEF ListSet
  <2> HIDE DEF items
  <2>5. s \in Seq(S)
    BY <2>2, <2>3, ExceptSeq
  <2> HIDE DEF s
  <2>6. s \in Seq(RangeOf(s)) /\ \A z \in RangeOf(s) : Good(F, heap, z)
    BY <2>1, <2>5, RangeFacts
  <2> QED BY <1>2, <2>4, <2>6, StoreList
<1> QED BY <1>1, <1>2

LEMMA ListDeleteIsGood ==
  ASSUME NEW F, NEW heap, GoodHeap(F, heap), NEW x, Good(F, heap, x), NEW i, Good(F, heap, i)
  PROVE  GoodOutcome(F, heap, ListDelete(heap, x, i))
<1> DEFINE items == heap[x.v].items
<1>1. CASE \/ x.is # "list" \/ i.is # "int" \/ ~ InBounds(i.v, Len(items))
           \/ i.v = Len(items)
  BY <1>1, SimpleOutcomes DEF ListDelete
<1>2. CASE /\ x.is = "list" /\ i.is = "int" /\ InBounds(i.v, Len(items))
           /\ i.v # Len(items)
  <2> DEFINE s == Without(items, i.v)
  <2>1. items \in Seq(RangeOf(items)) /\ \A z \in RangeOf(items) : Good(F, heap, z)
    BY <1>2, ListAt
  <2>2. i.v \in 0 .. Len(items)
    BY <1>2, <2>1, IndexAt, LenProperties DEF InBounds
  <2>3. s \in Seq(RangeOf(items))
    BY <2>1, <2>2, WithoutRange
  <2>4. s \in Seq(RangeOf(s)) /\ \A z \in RangeOf(s) : Good(F, heap, z)
    BY <2>1, <2>3, RangeFacts
  <2>5. ListDelete(heap, x, i) = Stores(x.v, ListOf(s))
    BY <1>2 DEF ListDelete
  <2> HIDE DEF s
  <2> QED BY <1>2, <2>4, <2>5, StoreList
<1> QED BY <1>1, <1>2

LEMMA DictKeyIsGood ==
  ASSUME NEW F, NEW heap, GoodHeap(F, heap), NEW x, Good(F, heap, x), NEW i, Good(F, heap, i)
  PROVE  GoodOutcome(F, heap, DictKey(heap, x, i))
<1> DEFINE order == heap[x.v].key_order
<1>1. CASE \/ x.is # "dict" \/ i.is # "int" \/ ~ InBounds(i.v, Len(order))
           \/ i.v = Len(order)
  BY <1>1, SimpleOutcomes DEF DictKey
<1>2. CASE /\ x.is = "dict" /\ i.is = "int" /\ InBounds(i.v, Len(order))
           /\ i.v # Len(order)
  <2>1. order \in Seq(Seq(Nat))
    BY <1>2, DictAt
  <2>2. i.v + 1 \in 1 .. Len(order)
    BY <1>2, <2>1, IndexAt, LenProperties DEF InBounds
  <2>3. order[i.v + 1] \in Seq(Nat)
    BY <2>1, <2>2, ElementOfSeq
  <2>4. DictKey(heap, x, i) = Gives(StrV(order[i.v + 1]))
    BY <1>2 DEF DictKey
  <2> QED BY <2>3, <2>4, Scalars, SimpleOutcomes
<1> QED BY <1>1, <1>2

LEMMA DictGetIsGood ==
  ASSUME NEW F, NEW heap, GoodHeap(F, heap), NEW x, Good(F, heap, x), NEW k
  PROVE  GoodOutcome(F, heap, DictGet(heap, x, k))
<1>1. CASE \/ x.is # "dict" \/ k.is # "string" \/ k.v \notin RangeOf(heap[x.v].key_order)
           \/ k.v \notin DOMAIN heap[x.v].values
  BY <1>1, SimpleOutcomes DEF DictGet
<1>2. CASE /\ x.is = "dict" /\ k.is = "string" /\ k.v \in RangeOf(heap[x.v].key_order)
           /\ k.v \in DOMAIN heap[x.v].values
  <2>1. Good(F, heap, heap[x.v].values[k.v])
    BY <1>2, DictAt DEF RangeOf
  <2>2. DictGet(heap, x, k) = Gives(heap[x.v].values[k.v])
    BY <1>2 DEF DictGet
  <2> QED BY <2>1, <2>2, SimpleOutcomes
<1> QED BY <1>1, <1>2

LEMMA DictSetIsGood ==
  ASSUME NEW F, NEW heap, GoodHeap(F, heap), NEW x, Good(F, heap, x), NEW k, Good(F, heap, k),
         NEW y, Good(F, heap, y)
  PROVE  GoodOutcome(F, heap, DictSet(heap, x, k, y))
<1>1. CASE x.is # "dict" \/ k.is # "string"
  BY <1>1, SimpleOutcomes DEF DictSet
<1>2. CASE x.is = "dict" /\ k.is = "string"
  <2> DEFINE d == heap[x.v]
             order == IF k.v \in RangeOf(d.key_order)
                        THEN d.key_order ELSE Append(d.key_order, k.v)
             vals == [l \in DOMAIN d.values \cup {k.v} |->
                        IF l = k.v THEN y ELSE d.values[l]]
  <2>1. /\ DOMAIN d.values = RangeOf(d.key_order) /\ d.key_order \in Seq(Seq(Nat))
        /\ \A i, j \in DOMAIN d.key_order : i # j => d.key_order[i] # d.key_order[j]
        /\ \A z \in RangeOf(d.values) : Good(F, heap, z)
    BY <1>2, DictAt DEF IsCoherent
  <2>2. k.v \in Seq(Nat)
    BY <1>2, StringAt
  <2>3. DictSet(heap, x, k, y) = Stores(x.v, DictOf(order, vals))
    BY <1>2 DEF DictSet
  <2>4. \A z \in RangeOf(vals) : Good(F, heap, z)
    BY <2>1 DEF RangeOf
  <2>5. DOMAIN vals = RangeOf(d.key_order) \cup {k.v}
    BY <2>1
  <2> HIDE DEF vals, d
  <2>6. /\ order \in Seq(Seq(Nat)) /\ RangeOf(order) = RangeOf(d.key_order) \cup {k.v}
        /\ \A i, j \in DOMAIN order : i # j => order[i] # order[j]
    <3>1. CASE k.v \in RangeOf(d.key_order)
      BY <2>1, <3>1
    <3>2. CASE k.v \notin RangeOf(d.key_order)
      <4> DEFINE n == Len(d.key_order)
      <4>1. d.key_order \in Seq(RangeOf(d.key_order)) /\ n \in Nat /\ DOMAIN d.key_order = 1 .. n
        BY <2>1, RangeFacts
      <4>2. RangeOf(Append(d.key_order, k.v)) = RangeOf(d.key_order) \cup {k.v}
        BY <4>1, AppendRange
      <4>3. /\ Append(d.key_order, k.v) \in Seq(Seq(Nat))
            /\ Len(Append(d.key_order, k.v)) = n + 1
            /\ \A i \in 1 .. n : Append(d.key_order, k.v)[i] = d.key_order[i]
            /\ Append(d.key_order, k.v)[n + 1] = k.v
        BY <2>1, <2>2, AppendProperties
      <4>4. DOMAIN Append(d.key_order, k.v) = 1 .. n + 1
        BY <4>3, LenProperties
      <4>5. \A i \in 1 .. n : d.key_order[i] # k.v
        BY <3>2, <4>1 DEF RangeOf
      <4>6. \A i \in 1 .. n + 1 : i \in 1 .. n \/ i = n + 1
        BY <4>1
      <4> QED BY <2>1, <3>2, <4>1, <4>2, <4>3, <4>4, <4>5, <4>6
    <3> QED BY <3>1, <3>2
  <2> HIDE DEF order
  <2> QED BY <1>2, <2>3, <2>4, <2>5, <2>6, StoreDict
<1> QED BY <1>1, <1>2

LEMMA DictDeleteIsGood ==
  ASSUME NEW F, NEW heap, GoodHeap(F, heap), NEW x, Good(F, heap, x), NEW k
  PROVE  GoodOutcome(F, heap, DictDelete(heap, x, k))
<1> DEFINE d == heap[x.v]
           key_order == d.key_order
           at == IndexOf(key_order, k.v)
           order == Without(key_order, at)
           vals == [l \in DOMAIN d.values \ {k.v} |-> d.values[l]]
<1>1. CASE x.is # "dict" \/ k.is # "string" \/ k.v \notin RangeOf(key_order)
  BY <1>1, SimpleOutcomes DEF DictDelete
<1>2. CASE x.is = "dict" /\ k.is = "string" /\ k.v \in RangeOf(key_order)
  <2>1. /\ DOMAIN d.values = RangeOf(key_order) /\ key_order \in Seq(Seq(Nat))
        /\ \A i, j \in DOMAIN key_order : i # j => key_order[i] # key_order[j]
        /\ \A z \in RangeOf(d.values) : Good(F, heap, z)
    BY <1>2, DictAt DEF IsCoherent
  <2>2. DictDelete(heap, x, k) = Stores(x.v, DictOf(order, vals))
    BY <1>2 DEF DictDelete
  <2>3. \A z \in RangeOf(vals) : Good(F, heap, z)
    BY <2>1 DEF RangeOf
  <2>4. DOMAIN vals = RangeOf(key_order) \ {k.v}
    BY <2>1
  <2> HIDE DEF vals, d, key_order
  <2> DEFINE n == Len(key_order)
  <2>5. key_order \in Seq(RangeOf(key_order)) /\ n \in Nat /\ DOMAIN key_order = 1 .. n
    BY <2>1, RangeFacts
  <2>6. at + 1 \in 1 .. n /\ at \in 0 .. n - 1 /\ key_order[at + 1] = k.v
    <3>1. PICK j \in 1 .. n : key_order[j] = k.v
      BY <1>2, <2>5 DEF RangeOf
    <3> DEFINE c == CHOOSE i \in DOMAIN key_order : key_order[i] = k.v
    <3>2. c \in 1 .. n /\ key_order[c] = k.v
      BY <2>5, <3>1
    <3> HIDE DEF c
    <3>3. at = c - 1
      BY DEF IndexOf, c
    <3> QED BY <2>5, <3>2, <3>3
  <2> HIDE DEF at
  <2>7. /\ order \in Seq(RangeOf(key_order))
        /\ DOMAIN order = 1 .. n - 1
        /\ \A i \in 1 .. at : order[i] = key_order[i]
        /\ \A i \in at + 1 .. n - 1 : order[i] = key_order[i + 1]
    <3>1. at \in 0 .. n /\ at < n
      BY <2>5, <2>6
    <3> QED BY <2>5, <3>1, WithoutRange
  <2> HIDE DEF order, n
  <2>8. order \in Seq(Seq(Nat))
    BY <2>1, <2>7, RangeFacts, SeqMonotonic
  \* Where the keys of the new order were in the old one.
  <2> DEFINE was(i) == IF i <= at THEN i ELSE i + 1
  <2>9. ASSUME NEW i \in DOMAIN order
        PROVE  was(i) \in DOMAIN key_order /\ was(i) # at + 1 /\ order[i] = key_order[was(i)]
    BY <2>5, <2>6, <2>7
  <2>10. ASSUME NEW i \in DOMAIN order, NEW j \in DOMAIN order, i # j PROVE was(i) # was(j)
    BY <2>5, <2>6, <2>7, <2>10
  <2>11. ASSUME NEW j \in DOMAIN key_order, j # at + 1
         PROVE  \E i \in DOMAIN order : order[i] = key_order[j]
    <3>1. CASE j <= at
      <4>1. j \in 1 .. n - 1 /\ j \in 1 .. at
        BY <2>5, <2>6, <3>1
      <4> QED BY <2>7, <4>1
    <3>2. CASE ~ (j <= at)
      <4>1. j - 1 \in at + 1 .. n - 1 /\ j - 1 \in 1 .. n - 1 /\ (j - 1) + 1 = j
        BY <2>5, <2>6, <2>11, <3>2
      <4> QED BY <2>7, <4>1
    <3> QED BY <3>1, <3>2
  <2> HIDE DEF was
  <2>12. \A i, j \in DOMAIN order : i # j => order[i] # order[j]
    BY <2>1, <2>9, <2>10
  <2>13. RangeOf(order) = RangeOf(key_order) \ {k.v}
    <3>1. ASSUME NEW i \in DOMAIN order
          PROVE  order[i] \in RangeOf(key_order) /\ order[i] # k.v
      <4>1. key_order[was(i)] # key_order[at + 1]
        BY <2>1, <2>5, <2>6, <2>9
      <4> QED BY <2>6, <2>9, <4>1 DEF RangeOf
    <3>2. ASSUME NEW z \in RangeOf(key_order), z # k.v PROVE z \in RangeOf(order)
      <4>1. PICK j \in DOMAIN key_order : z = key_order[j]
        BY DEF RangeOf
      <4>2. j # at + 1
        BY <2>6, <3>2, <4>1
      <4> QED BY <2>11, <4>1, <4>2 DEF RangeOf
    <3> QED BY <3>1, <3>2 DEF RangeOf
  <2> QED BY <1>2, <2>2, <2>3, <2>4, <2>8, <2>12, <2>13, StoreDict
<1> QED BY <1>1, <1>2

LEMMA PropGetIsGood ==
  ASSUME NEW F, NEW heap, GoodHeap(F, heap), NEW x, Good(F, heap, x), NEW p
  PROVE  GoodOutcome(F, heap, PropGet(heap, x, p))
<1>1. CASE x.is # "object" \/ x.v = 0 \/ p \notin DOMAIN heap[x.v].registers
  BY <1>1, SimpleOutcomes DEF PropGet
<1>2. CASE x.is = "object" /\ x.v # 0 /\ p \in DOMAIN heap[x.v].registers
  <2>1. Good(F, heap, heap[x.v].registers[p])
    BY <1>2, ObjectAt DEF RangeOf
  <2>2. PropGet(heap, x, p) = Gives(heap[x.v].registers[p])
    BY <1>2 DEF PropGet
  <2> QED BY <2>1, <2>2, SimpleOutcomes
<1> QED BY <1>1, <1>2

LEMMA PropSetIsGood ==
  ASSUME NEW F, NEW heap, GoodHeap(F, heap), NEW x, Good(F, heap, x), NEW p,
         NEW y, Good(F, heap, y)
  PROVE  GoodOutcome(F, heap, PropSet(heap, p, x, y))
<1>1. CASE x.is # "object" \/ x.v = 0 \/ p \notin DOMAIN heap[x.v].registers
  BY <1>1, SimpleOutcomes DEF PropSet
<1>2. CASE x.is = "object" /\ x.v # 0 /\ p \in DOMAIN heap[x.v].registers
  <2> DEFINE registers == [heap[x.v].registers EXCEPT ![p] = y]
             o == [class |-> heap[x.v].class, registers |-> registers]
  <2>1. /\ x.v \in DOMAIN heap /\ IsObject(heap[x.v])
        /\ \A z \in RangeOf(heap[x.v].registers) : Good(F, heap, z)
    BY <1>2, ObjectAt
  <2>2. \A z \in RangeOf(registers) : Good(F, heap, z)
    BY <2>1 DEF RangeOf
  <2>3. PropSet(heap, p, x, y) = Stores(x.v, o)
    BY <1>2 DEF PropSet
  <2>6. DOMAIN registers = DOMAIN heap[x.v].registers
    OBVIOUS
  <2> HIDE DEF registers
  <2>4. IsObject(o) /\ o.registers = registers
    <3>1. /\ DOMAIN o = {"class", "registers"} /\ o.registers = registers
      OBVIOUS
    <3> HIDE DEF o
    <3> QED BY <2>1, <2>6, <3>1 DEF IsObject
  <2> HIDE DEF o
  <2>5. GoodObject(F, heap, o)
    BY <2>2, <2>4, OneKind DEF GoodObject
  <2> QED BY <2>1, <2>3, <2>4, <2>5 DEF GoodOutcome, Stores
<1> QED BY <1>1, <1>2

-----------------------------------------------------------------------------
\* The heap after an instruction.

LEMMA HeapAfterStore ==
  ASSUME NEW F, NEW heap, GoodHeap(F, heap), NEW outcome, outcome.how = "store",
         GoodOutcome(F, heap, outcome)
  PROVE  LET later == [heap EXCEPT ![outcome.address] = outcome.object]
         IN  GoodHeap(F, later) /\ Grows(heap, later)
<1> DEFINE a == outcome.address
           o == outcome.object
           later == [heap EXCEPT ![a] = o]
           S == RangeOf(heap) \cup {o}
<1>1. /\ a \in DOMAIN heap /\ GoodObject(F, heap, o)
      /\ \/ IsList(heap[a]) /\ IsList(o)
         \/ IsDict(heap[a]) /\ IsDict(o)
         \/ IsObject(heap[a]) /\ IsObject(o)
  BY DEF GoodOutcome, Ends
<1>2. heap \in Seq(S) /\ DOMAIN heap = 1 .. Len(heap)
  BY SeqMonotonic, LenProperties DEF GoodHeap
<1> HIDE DEF a, o
<1>3. later \in Seq(S)
  BY <1>1, <1>2, ExceptSeq
<1>4. later \in Seq(RangeOf(later))
  <2> HIDE DEF later
  <2> QED BY <1>3, RangeFacts
<1>5. DOMAIN later = DOMAIN heap /\ later[a] = o /\ \A b \in DOMAIN heap : b # a => later[b] = heap[b]
  BY <1>1
<1> HIDE DEF later
<1>6. Grows(heap, later)
  BY <1>1, <1>5, OneKind DEF Grows
<1>7. \A b \in DOMAIN later : GoodObject(F, heap, later[b])
  BY <1>1, <1>5 DEF GoodHeap
<1>8. GoodHeap(F, later)
  BY <1>4, <1>6, <1>7, GoodStays DEF GoodHeap
<1> QED BY <1>6, <1>8 DEF later, a, o

LEMMA HeapAfterNew ==
  ASSUME NEW F, NEW heap, GoodHeap(F, heap), NEW outcome, outcome.how = "new",
         GoodOutcome(F, heap, outcome)
  PROVE  LET later == heap \o outcome.objects
         IN  /\ GoodHeap(F, later) /\ Grows(heap, later)
             /\ Good(F, later, Make(outcome.type, Len(heap) + Len(outcome.objects)))
<1> DEFINE objects == outcome.objects
           type == outcome.type
           later == heap \o objects
<1>1. GoodNews(F, heap, type, objects)
  BY DEF GoodOutcome, Ends
<1>2. heap \in Seq(RangeOf(heap)) /\ objects \in Seq(RangeOf(objects))
  BY <1>1 DEF GoodNews, GoodHeap
<1> HIDE DEF objects, type
<1>3. /\ Grows(heap, heap \o objects)
      /\ Len(heap) \in Nat /\ DOMAIN heap = 1 .. Len(heap)
      /\ Len(objects) \in Nat /\ DOMAIN objects = 1 .. Len(objects)
      /\ DOMAIN (heap \o objects) = 1 .. Len(heap) + Len(objects)
      /\ \A i \in DOMAIN heap : (heap \o objects)[i] = heap[i]
      /\ \A i \in DOMAIN objects : (heap \o objects)[Len(heap) + i] = objects[i]
  BY <1>2, GrowsBy
<1>4. later \in Seq(RangeOf(later))
  BY <1>2, ConcatRange
<1>5. ASSUME NEW b \in DOMAIN later PROVE GoodObject(F, later, later[b])
  <2>1. CASE b \in DOMAIN heap
    BY <1>3, <2>1, GoodStays DEF GoodHeap
  <2>2. CASE b \notin DOMAIN heap
    <3>1. b - Len(heap) \in DOMAIN objects /\ Len(heap) + (b - Len(heap)) = b
      BY <1>3, <2>2
    <3>2. later[b] = objects[b - Len(heap)]
      BY <1>3, <3>1
    <3> QED BY <1>1, <3>1, <3>2 DEF GoodNews
  <2> QED BY <2>1, <2>2
<1>6. Good(F, later, Make(type, Len(heap) + Len(objects)))
  <2>1. Len(objects) \in DOMAIN objects
    BY <1>1, <1>3 DEF GoodNews
  <2>2. /\ Len(heap) + Len(objects) \in DOMAIN later
        /\ later[Len(heap) + Len(objects)] = objects[Len(objects)]
    BY <1>3, <2>1
  <2> HIDE DEF later
  <2> QED BY <1>1, <2>2, References DEF GoodNews
<1>7. GoodHeap(F, later)
  BY <1>4, <1>5 DEF GoodHeap
<1> QED BY <1>3, <1>6, <1>7 DEF objects, type
-----------------------------------------------------------------------------
(***************************************************************************)
(* What operations share.  Take any set of objects that nothing outside of *)
(* it refers to.  An operation on values that keep clear of it makes       *)
(* values that keep clear of it too, writes to no object of it, and leaves *)
(* an object with its class and properties.                                *)
(***************************************************************************)
Shared == {"list", "dict", "object"}
Avoids(B, x) == x.is \in Shared => x.v \notin B
AllAvoid(B, S) == \A x \in S : Avoids(B, x)

\* Nothing outside B refers to an object of B.
Fenced(F, B, heap) ==
  /\ GoodHeap(F, heap) /\ B \subseteq DOMAIN heap
  /\ \A a \in DOMAIN heap \ B : AllAvoid(B, ValuesIn(heap[a]))
Clear(F, B, heap, x) == Good(F, heap, x) /\ Avoids(B, x)

\* Objects keep their class and their properties.
Leaves(B, heap, outcome) ==
  \/ outcome.how \in Ends
  \/ outcome.how = "value" /\ Avoids(B, outcome.value)
  \/ /\ outcome.how = "store"
     /\ outcome.address \in DOMAIN heap \ B
     /\ IsObject(heap[outcome.address]) => SameShape(heap[outcome.address], outcome.object)
     /\ AllAvoid(B, ValuesIn(outcome.object))
  \/ /\ outcome.how = "new"
     /\ \A i \in DOMAIN outcome.objects : AllAvoid(B, ValuesIn(outcome.objects[i]))

LEMMA SimpleLeaves ==
  ASSUME NEW B, NEW heap
  PROVE  /\ \A x : Avoids(B, x) => Leaves(B, heap, Gives(x))
         /\ \A x : x.is \notin Shared => Leaves(B, heap, Gives(x))
         /\ Leaves(B, heap, Crashes) /\ Leaves(B, heap, Throws)
         /\ Leaves(B, heap, Mistaken) /\ Leaves(B, heap, Undefined)
BY DEF Leaves, Gives, Crashes, Throws, Mistaken, Undefined, Ends, Avoids

LEMMA ScalarsAvoid ==
  ASSUME NEW B
  PROVE  /\ \A n : Avoids(B, IntV(n)) /\ Avoids(B, FloatV(n)) /\ Avoids(B, BoolV(n))
                   /\ Avoids(B, StrV(n))
         /\ \A x : x.is \notin Shared => Avoids(B, x)
BY DEF Avoids, IntV, FloatV, BoolV, StrV, Make, Shared

LEMMA ListClear ==
  ASSUME NEW F, NEW B, NEW heap, Fenced(F, B, heap), NEW x, Clear(F, B, heap, x), x.is = "list"
  PROVE  /\ x.v \in DOMAIN heap \ B /\ IsList(heap[x.v])
         /\ AllAvoid(B, RangeOf(heap[x.v].items))
<1>1. x.v \in DOMAIN heap /\ IsList(heap[x.v])
  BY ListAt DEF Fenced, Clear
<1>2. x.v \notin B
  BY DEF Clear, Avoids, Shared
<1> QED BY <1>1, <1>2, OneKind DEF Fenced

LEMMA DictClear ==
  ASSUME NEW F, NEW B, NEW heap, Fenced(F, B, heap), NEW x, Clear(F, B, heap, x), x.is = "dict"
  PROVE  /\ x.v \in DOMAIN heap \ B /\ IsDict(heap[x.v])
         /\ AllAvoid(B, RangeOf(heap[x.v].values))
<1>1. x.v \in DOMAIN heap /\ IsDict(heap[x.v])
  BY DictAt DEF Fenced, Clear
<1>2. x.v \notin B
  BY DEF Clear, Avoids, Shared
<1> QED BY <1>1, <1>2, OneKind DEF Fenced

LEMMA ObjectClear ==
  ASSUME NEW F, NEW B, NEW heap, Fenced(F, B, heap), NEW x, Clear(F, B, heap, x),
         x.is = "object", x.v # 0
  PROVE  /\ x.v \in DOMAIN heap \ B /\ IsObject(heap[x.v])
         /\ AllAvoid(B, RangeOf(heap[x.v].registers))
<1>1. x.v \in DOMAIN heap /\ IsObject(heap[x.v])
  BY ObjectAt DEF Fenced, Clear
<1>2. x.v \notin B
  BY DEF Clear, Avoids, Shared
<1> QED BY <1>1, <1>2, OneKind DEF Fenced

\* A good object made as a list is one.
LEMMA MadeObjects ==
  ASSUME NEW F, NEW heap
  PROVE  /\ \A s : GoodObject(F, heap, ListOf(s))
                     => IsList(ListOf(s)) /\ ValuesIn(ListOf(s)) = RangeOf(s)
         /\ \A order, vals : GoodObject(F, heap, DictOf(order, vals))
                     => /\ IsDict(DictOf(order, vals))
                        /\ ValuesIn(DictOf(order, vals)) = RangeOf(vals)
<1>1. ASSUME NEW s, GoodObject(F, heap, ListOf(s))
      PROVE  IsList(ListOf(s)) /\ ValuesIn(ListOf(s)) = RangeOf(s)
  <2>1. DOMAIN ListOf(s) = {"items"} /\ ListOf(s).items = s
    BY DEF ListOf
  <2>2. "class" \notin DOMAIN ListOf(s) /\ "values" \notin DOMAIN ListOf(s)
    BY <2>1
  <2>3. IsList(ListOf(s))
    BY <1>1, <2>2 DEF GoodObject, IsDict, IsObject
  <2> QED BY <2>1, <2>3, OneKind
<1>2. ASSUME NEW order, NEW vals, GoodObject(F, heap, DictOf(order, vals))
      PROVE  IsDict(DictOf(order, vals)) /\ ValuesIn(DictOf(order, vals)) = RangeOf(vals)
  <2>1. DOMAIN DictOf(order, vals) = {"key_order", "values"} /\ DictOf(order, vals).values = vals
    BY DEF DictOf
  <2>2. "class" \notin DOMAIN DictOf(order, vals) /\ "items" \notin DOMAIN DictOf(order, vals)
    BY <2>1
  <2>3. IsDict(DictOf(order, vals))
    BY <1>1, <2>2, <1>2 DEF GoodObject, IsList, IsObject
  <2> QED BY <2>1, <2>3, OneKind
<1> QED BY <1>1, <1>2

LEMMA StoredObject ==
  ASSUME NEW F, NEW heap, NEW a, NEW o, GoodOutcome(F, heap, Stores(a, o))
  PROVE  /\ GoodObject(F, heap, o) /\ a \in DOMAIN heap
         /\ \/ IsList(heap[a]) /\ IsList(o)
            \/ IsDict(heap[a]) /\ IsDict(o)
            \/ IsObject(heap[a]) /\ IsObject(o)
BY DEF GoodOutcome, Stores, Ends

LEMMA StoredListLeaves ==
  ASSUME NEW F, NEW B, NEW heap, NEW a \in DOMAIN heap \ B, IsList(heap[a]), NEW s,
         GoodOutcome(F, heap, Stores(a, ListOf(s))), AllAvoid(B, RangeOf(s))
  PROVE  Leaves(B, heap, Stores(a, ListOf(s)))
<1>1. ValuesIn(ListOf(s)) = RangeOf(s)
  BY StoredObject, MadeObjects
<1>2. ~ IsObject(heap[a])
  BY OneKind
<1> QED BY <1>1, <1>2 DEF Leaves, Stores

LEMMA StoredDictLeaves ==
  ASSUME NEW F, NEW B, NEW heap, NEW a \in DOMAIN heap \ B, IsDict(heap[a]), NEW order, NEW vals,
         GoodOutcome(F, heap, Stores(a, DictOf(order, vals))), AllAvoid(B, RangeOf(vals))
  PROVE  Leaves(B, heap, Stores(a, DictOf(order, vals)))
<1>1. ValuesIn(DictOf(order, vals)) = RangeOf(vals)
  BY StoredObject, MadeObjects
<1>2. ~ IsObject(heap[a])
  BY OneKind
<1> QED BY <1>1, <1>2 DEF Leaves, Stores

LEMMA NewObjectLeaves ==
  ASSUME NEW B, NEW heap, NEW type, NEW o, AllAvoid(B, ValuesIn(o))
  PROVE  Leaves(B, heap, Creates(type, << o >>))
<1>1. DOMAIN << o >> = {1} /\ << o >>[1] = o
  BY Single
<1> QED BY <1>1 DEF Leaves, Creates

LEMMA NewListLeaves ==
  ASSUME NEW B, NEW heap, NEW s, s \in Seq(RangeOf(s)), AllAvoid(B, RangeOf(s))
  PROVE  Leaves(B, heap, Creates("list", << ListOf(s) >>))
<1>1. ValuesIn(ListOf(s)) = RangeOf(s)
  <2>1. IsList(ListOf(s)) /\ ListOf(s).items = s
    BY DEF IsList, ListOf
  <2> QED BY <2>1, OneKind
<1> QED BY <1>1, NewObjectLeaves

-----------------------------------------------------------------------------
\* The operations.

LEMMA CastLeaves ==
  ASSUME NEW B, NEW heap, NEW x, NEW op \in CastOps
  PROVE  Leaves(B, heap, Cast(op, heap, x))
<1>1. CASE op[3] = "string"
  BY <1>1, ScalarsAvoid, SimpleLeaves DEF Cast, GivesText
<1>2. CASE op[3] # "string"
  <2>1. op[3] \in {"int", "float", "bool"}
    BY <1>2 DEF CastOps
  <2>2. Cast(op, heap, x) \in { Mistaken, Gives(IntV(Number(heap, x))),
                               Gives(FloatV(Number(heap, x))), Gives(BoolV(Number(heap, x) # 0)) }
    BY <1>2, <2>1 DEF Cast
  <2> QED BY <2>2, ScalarsAvoid, SimpleLeaves
<1> QED BY <1>1, <1>2

LEMMA UnaryLeaves ==
  ASSUME NEW B, NEW heap, NEW x, NEW op
  PROVE  Leaves(B, heap, Unary(op, heap, x))
<1>1. \E n : Unary(op, heap, x) \in { Mistaken, Gives(BoolV(n)), Gives(FloatV(n)), Gives(IntV(n)) }
  BY DEF Unary
<1> QED BY <1>1, ScalarsAvoid, SimpleLeaves

LEMMA RangeOfIntsLeaves ==
  ASSUME NEW F, NEW B, NEW heap, GoodHeap(F, heap), NEW x, Good(F, heap, x),
         NEW y, Good(F, heap, y), NEW op
  PROVE  Leaves(B, heap, RangeOfInts(op, x, y))
<1>1. CASE x.is # "int" \/ y.is # "int"
  BY <1>1, SimpleLeaves DEF RangeOfInts
<1>2. CASE x.is = "int" /\ y.is = "int"
  <2> DEFINE s == Interval(x.v, IF op = <<"RANGEI">> THEN y.v ELSE y.v - 1)
  <2>1. RangeOfInts(op, x, y) = Creates("list", << ListOf(s) >>)
    BY <1>2 DEF RangeOfInts
  <2>2. \A z \in RangeOf(s) : Avoids(B, z)
    BY ScalarsAvoid DEF Interval, RangeOf
  <2>3. GoodOutcome(F, heap, RangeOfInts(op, x, y))
    BY RangeOfIntsIsGood
  <2> HIDE DEF s
  <2>4. GoodNews(F, heap, "list", << ListOf(s) >>)
    BY <2>1, <2>3 DEF GoodOutcome, Creates, Ends
  <2>5. DOMAIN << ListOf(s) >> = {1} /\ << ListOf(s) >>[1] = ListOf(s)
    BY Single
  <2>6. GoodObject(F, heap \o << ListOf(s) >>, ListOf(s))
    BY <2>4, <2>5 DEF GoodNews
  <2>7. AllAvoid(B, ValuesIn(ListOf(s)))
    BY <2>2, <2>6, MadeObjects DEF AllAvoid
  <2> QED BY <2>1, <2>7, NewObjectLeaves
<1> QED BY <1>1, <1>2

\* A string stays one, whatever is written into it.
LEMMA StringsAvoid ==
  ASSUME NEW F, NEW B, NEW heap, NEW x, Good(F, heap, x), x.is = "string"
  PROVE  \A s : Avoids(B, [x EXCEPT !.v = s])
<1>1. ASSUME NEW s PROVE [x EXCEPT !.v = s].is = "string"
  BY DEF Good, IsValue
<1> QED BY <1>1 DEF Avoids, Shared

LEMMA StringGetLeaves ==
  ASSUME NEW B, NEW heap, NEW x, NEW i
  PROVE  Leaves(B, heap, StringGet(x, i))
<1>1. \E s : StringGet(x, i) \in { Mistaken, Crashes, Gives(StrV(s)) }
  BY DEF StringGet
<1> QED BY <1>1, ScalarsAvoid, SimpleLeaves

LEMMA StringSetLeaves ==
  ASSUME NEW F, NEW B, NEW heap, NEW x, Good(F, heap, x), NEW i, NEW y
  PROVE  Leaves(B, heap, StringSet(x, i, y))
<1>1. CASE x.is # "string"
  BY <1>1, SimpleLeaves DEF StringSet
<1>2. CASE x.is = "string"
  <2>1. \E s : StringSet(x, i, y) \in
                 { Mistaken, Crashes, Undefined, Gives(x), Gives([x EXCEPT !.v = s]) }
    BY DEF StringSet
  <2>2. Avoids(B, x)
    BY <1>2 DEF Avoids, Shared
  <2> QED BY <1>2, <2>1, <2>2, StringsAvoid, SimpleLeaves
<1> QED BY <1>1, <1>2

LEMMA StringDeleteLeaves ==
  ASSUME NEW F, NEW B, NEW heap, NEW x, Good(F, heap, x), NEW i
  PROVE  Leaves(B, heap, StringDelete(x, i))
<1>1. CASE x.is # "string"
  BY <1>1, SimpleLeaves DEF StringDelete
<1>2. CASE x.is = "string"
  <2>1. \E s : StringDelete(x, i) \in { Mistaken, Throws, Gives([x EXCEPT !.v = s]) }
    BY DEF StringDelete
  <2> QED BY <1>2, <2>1, StringsAvoid, SimpleLeaves
<1> QED BY <1>1, <1>2

LEMMA ListPushLeaves ==
  ASSUME NEW F, NEW B, NEW heap, Fenced(F, B, heap), NEW x, Clear(F, B, heap, x),
         NEW y, Clear(F, B, heap, y)
  PROVE  Leaves(B, heap, ListPush(heap, x, y))
<1>1. CASE x.is # "list"
  BY <1>1, SimpleLeaves DEF ListPush
<1>2. CASE x.is = "list"
  <2> DEFINE s == Append(heap[x.v].items, y)
  <2>1. ListPush(heap, x, y) = Stores(x.v, ListOf(s))
    BY <1>2 DEF ListPush
  <2>2. GoodOutcome(F, heap, ListPush(heap, x, y))
    BY ListPushIsGood DEF Fenced, Clear
  <2>3. /\ x.v \in DOMAIN heap \ B /\ IsList(heap[x.v])
        /\ AllAvoid(B, RangeOf(heap[x.v].items))
    BY <1>2, ListClear
  <2>4. RangeOf(s) = RangeOf(heap[x.v].items) \cup {y}
    BY <2>3, AppendRange DEF IsList
  <2>5. AllAvoid(B, RangeOf(s))
    BY <2>3, <2>4 DEF AllAvoid, Clear
  <2> HIDE DEF s
  <2> QED BY <2>1, <2>2, <2>3, <2>5, StoredListLeaves
<1> QED BY <1>1, <1>2

LEMMA ListGetLeaves ==
  ASSUME NEW F, NEW B, NEW heap, Fenced(F, B, heap), NEW x, Clear(F, B, heap, x),
         NEW i, Clear(F, B, heap, i)
  PROVE  Leaves(B, heap, ListGet(heap, x, i))
<1> DEFINE items == heap[x.v].items
<1>1. CASE \/ x.is # "list" \/ i.is # "int" \/ ~ InBounds(i.v, Len(items))
           \/ i.v = Len(items)
  BY <1>1, SimpleLeaves DEF ListGet
<1>2. CASE /\ x.is = "list" /\ i.is = "int" /\ InBounds(i.v, Len(items))
           /\ i.v # Len(items)
  <2>1. items \in Seq(RangeOf(items)) /\ AllAvoid(B, RangeOf(items))
    BY <1>2, ListClear DEF IsList
  <2>2. i.v \in Int
    BY <1>2, IndexAt DEF Clear
  <2>3. i.v + 1 \in 1 .. Len(items)
    BY <1>2, <2>1, <2>2, LenProperties DEF InBounds
  <2>4. Avoids(B, items[i.v + 1])
    BY <2>1, <2>3, RangeFacts DEF AllAvoid
  <2>5. ListGet(heap, x, i) = Gives(items[i.v + 1])
    BY <1>2 DEF ListGet
  <2> QED BY <2>4, <2>5, SimpleLeaves
<1> QED BY <1>1, <1>2

LEMMA ListSetLeaves ==
  ASSUME NEW F, NEW B, NEW heap, Fenced(F, B, heap), NEW x, Clear(F, B, heap, x),
         NEW i, Clear(F, B, heap, i), NEW y, Clear(F, B, heap, y)
  PROVE  Leaves(B, heap, ListSet(heap, x, i, y))
<1> DEFINE items == heap[x.v].items
<1>1. CASE \/ x.is # "list" \/ i.is # "int" \/ ~ InBounds(i.v, Len(items))
           \/ i.v = Len(items)
  BY <1>1, SimpleLeaves DEF ListSet
<1>2. CASE /\ x.is = "list" /\ i.is = "int" /\ InBounds(i.v, Len(items))
           /\ i.v # Len(items)
  <2> DEFINE s == [items EXCEPT ![i.v + 1] = y]
  <2>1. ListSet(heap, x, i, y) = Stores(x.v, ListOf(s))
    BY <1>2 DEF ListSet
  <2>2. GoodOutcome(F, heap, ListSet(heap, x, i, y))
    BY ListSetIsGood DEF Fenced, Clear
  <2>3. /\ x.v \in DOMAIN heap \ B /\ IsList(heap[x.v]) /\ AllAvoid(B, RangeOf(items))
    BY <1>2, ListClear
  <2>4. RangeOf(s) \subseteq RangeOf(items) \cup {y}
    BY DEF RangeOf
  <2>5. AllAvoid(B, RangeOf(s))
    BY <2>3, <2>4 DEF AllAvoid, Clear
  <2> HIDE DEF s
  <2> QED BY <2>1, <2>2, <2>3, <2>5, StoredListLeaves
<1> QED BY <1>1, <1>2

LEMMA ListDeleteLeaves ==
  ASSUME NEW F, NEW B, NEW heap, Fenced(F, B, heap), NEW x, Clear(F, B, heap, x),
         NEW i, Clear(F, B, heap, i)
  PROVE  Leaves(B, heap, ListDelete(heap, x, i))
<1> DEFINE items == heap[x.v].items
<1>1. CASE \/ x.is # "list" \/ i.is # "int" \/ ~ InBounds(i.v, Len(items))
           \/ i.v = Len(items)
  BY <1>1, SimpleLeaves DEF ListDelete
<1>2. CASE /\ x.is = "list" /\ i.is = "int" /\ InBounds(i.v, Len(items))
           /\ i.v # Len(items)
  <2> DEFINE s == Without(items, i.v)
  <2>1. ListDelete(heap, x, i) = Stores(x.v, ListOf(s))
    BY <1>2 DEF ListDelete
  <2>2. GoodOutcome(F, heap, ListDelete(heap, x, i))
    BY ListDeleteIsGood DEF Fenced, Clear
  <2>3. x.v \in DOMAIN heap \ B /\ IsList(heap[x.v]) /\ AllAvoid(B, RangeOf(items))
    BY <1>2, ListClear
  <2>4. items \in Seq(RangeOf(items)) /\ i.v \in Int
    BY <1>2, <2>3, IndexAt DEF IsList, Clear
  <2>5. i.v \in 0 .. Len(items)
    BY <1>2, <2>4, LenProperties DEF InBounds
  <2>6. s \in Seq(RangeOf(items))
    BY <2>4, <2>5, WithoutRange
  <2> HIDE DEF s
  <2>7. RangeOf(s) \subseteq RangeOf(items)
    BY <2>6, RangeFacts
  <2>8. AllAvoid(B, RangeOf(s))
    BY <2>3, <2>7 DEF AllAvoid
  <2> QED BY <2>1, <2>2, <2>3, <2>8, StoredListLeaves
<1> QED BY <1>1, <1>2

LEMMA DictKeyLeaves ==
  ASSUME NEW B, NEW heap, NEW x, NEW i
  PROVE  Leaves(B, heap, DictKey(heap, x, i))
<1>1. \E s : DictKey(heap, x, i) \in { Mistaken, Crashes, Undefined, Gives(StrV(s)) }
  BY DEF DictKey
<1> QED BY <1>1, ScalarsAvoid, SimpleLeaves

LEMMA DictGetLeaves ==
  ASSUME NEW F, NEW B, NEW heap, Fenced(F, B, heap), NEW x, Clear(F, B, heap, x), NEW k
  PROVE  Leaves(B, heap, DictGet(heap, x, k))
<1>1. CASE \/ x.is # "dict" \/ k.is # "string" \/ k.v \notin RangeOf(heap[x.v].key_order)
           \/ k.v \notin DOMAIN heap[x.v].values
  BY <1>1, SimpleLeaves DEF DictGet
<1>2. CASE /\ x.is = "dict" /\ k.is = "string" /\ k.v \in RangeOf(heap[x.v].key_order)
           /\ k.v \in DOMAIN heap[x.v].values
  <2>1. Avoids(B, heap[x.v].values[k.v])
    BY <1>2, DictClear DEF AllAvoid, RangeOf
  <2>2. DictGet(heap, x, k) = Gives(heap[x.v].values[k.v])
    BY <1>2 DEF DictGet
  <2> QED BY <2>1, <2>2, SimpleLeaves
<1> QED BY <1>1, <1>2

LEMMA DictSetLeaves ==
  ASSUME NEW F, NEW B, NEW heap, Fenced(F, B, heap), NEW x, Clear(F, B, heap, x),
         NEW k, Clear(F, B, heap, k), NEW y, Clear(F, B, heap, y)
  PROVE  Leaves(B, heap, DictSet(heap, x, k, y))
<1>1. CASE x.is # "dict" \/ k.is # "string"
  BY <1>1, SimpleLeaves DEF DictSet
<1>2. CASE x.is = "dict" /\ k.is = "string"
  <2> DEFINE d == heap[x.v]
             order == IF k.v \in RangeOf(d.key_order)
                        THEN d.key_order ELSE Append(d.key_order, k.v)
             vals == [l \in DOMAIN d.values \cup {k.v} |->
                        IF l = k.v THEN y ELSE d.values[l]]
  <2>1. DictSet(heap, x, k, y) = Stores(x.v, DictOf(order, vals))
    BY <1>2 DEF DictSet
  <2>2. GoodOutcome(F, heap, DictSet(heap, x, k, y))
    BY DictSetIsGood DEF Fenced, Clear
  <2>3. x.v \in DOMAIN heap \ B /\ IsDict(d) /\ AllAvoid(B, RangeOf(d.values))
    BY <1>2, DictClear
  <2>4. RangeOf(vals) \subseteq RangeOf(d.values) \cup {y}
    BY DEF RangeOf
  <2>5. AllAvoid(B, RangeOf(vals))
    BY <2>3, <2>4 DEF AllAvoid, Clear
  <2> HIDE DEF order, vals
  <2> QED BY <2>1, <2>2, <2>3, <2>5, StoredDictLeaves
<1> QED BY <1>1, <1>2

LEMMA DictDeleteLeaves ==
  ASSUME NEW F, NEW B, NEW heap, Fenced(F, B, heap), NEW x, Clear(F, B, heap, x), NEW k
  PROVE  Leaves(B, heap, DictDelete(heap, x, k))
<1> DEFINE d == heap[x.v]
           order == Without(d.key_order, IndexOf(d.key_order, k.v))
           vals == [l \in DOMAIN d.values \ {k.v} |-> d.values[l]]
<1>1. CASE x.is # "dict" \/ k.is # "string" \/ k.v \notin RangeOf(d.key_order)
  BY <1>1, SimpleLeaves DEF DictDelete
<1>2. CASE x.is = "dict" /\ k.is = "string" /\ k.v \in RangeOf(d.key_order)
  <2>1. DictDelete(heap, x, k) = Stores(x.v, DictOf(order, vals))
    BY <1>2 DEF DictDelete
  <2>2. GoodOutcome(F, heap, DictDelete(heap, x, k))
    BY DictDeleteIsGood DEF Fenced, Clear
  <2>3. x.v \in DOMAIN heap \ B /\ IsDict(d) /\ AllAvoid(B, RangeOf(d.values))
    BY <1>2, DictClear
  <2>4. RangeOf(vals) \subseteq RangeOf(d.values)
    BY DEF RangeOf
  <2>5. AllAvoid(B, RangeOf(vals))
    BY <2>3, <2>4 DEF AllAvoid
  <2> HIDE DEF order, vals
  <2> QED BY <2>1, <2>2, <2>3, <2>5, StoredDictLeaves
<1> QED BY <1>1, <1>2

LEMMA PropGetLeaves ==
  ASSUME NEW F, NEW B, NEW heap, Fenced(F, B, heap), NEW x, Clear(F, B, heap, x), NEW p
  PROVE  Leaves(B, heap, PropGet(heap, x, p))
<1>1. CASE x.is # "object" \/ x.v = 0 \/ p \notin DOMAIN heap[x.v].registers
  BY <1>1, SimpleLeaves DEF PropGet
<1>2. CASE x.is = "object" /\ x.v # 0 /\ p \in DOMAIN heap[x.v].registers
  <2>1. Avoids(B, heap[x.v].registers[p])
    BY <1>2, ObjectClear DEF AllAvoid, RangeOf
  <2>2. PropGet(heap, x, p) = Gives(heap[x.v].registers[p])
    BY <1>2 DEF PropGet
  <2> QED BY <2>1, <2>2, SimpleLeaves
<1> QED BY <1>1, <1>2

LEMMA PropSetLeaves ==
  ASSUME NEW F, NEW B, NEW heap, Fenced(F, B, heap), NEW x, Clear(F, B, heap, x), NEW p,
         NEW y, Clear(F, B, heap, y)
  PROVE  Leaves(B, heap, PropSet(heap, p, x, y))
<1>1. CASE x.is # "object" \/ x.v = 0 \/ p \notin DOMAIN heap[x.v].registers
  BY <1>1, SimpleLeaves DEF PropSet
<1>2. CASE x.is = "object" /\ x.v # 0 /\ p \in DOMAIN heap[x.v].registers
  <2> DEFINE registers == [heap[x.v].registers EXCEPT ![p] = y]
             o == [class |-> heap[x.v].class, registers |-> registers]
  <2>1. /\ x.v \in DOMAIN heap \ B /\ IsObject(heap[x.v])
        /\ AllAvoid(B, RangeOf(heap[x.v].registers))
    BY <1>2, ObjectClear
  <2>2. RangeOf(registers) \subseteq RangeOf(heap[x.v].registers) \cup {y}
    BY DEF RangeOf
  <2>3. AllAvoid(B, RangeOf(registers))
    BY <2>1, <2>2 DEF AllAvoid, Clear
  <2>4. PropSet(heap, p, x, y) = Stores(x.v, o)
    BY <1>2 DEF PropSet
  <2>5. DOMAIN registers = DOMAIN heap[x.v].registers
    OBVIOUS
  <2> HIDE DEF registers
  <2>6. IsObject(o) /\ o.registers = registers /\ o.class = heap[x.v].class
    <3>1. /\ DOMAIN o = {"class", "registers"}
          /\ o.registers = registers /\ o.class = heap[x.v].class
      OBVIOUS
    <3> HIDE DEF o
    <3> QED BY <2>1, <2>5, <3>1 DEF IsObject
  <2> HIDE DEF o
  <2>7. SameShape(heap[x.v], o)
    BY <2>1, <2>5, <2>6 DEF SameShape
  <2>8. AllAvoid(B, ValuesIn(o))
    BY <2>3, <2>6, OneKind
  <2> QED BY <2>1, <2>4, <2>7, <2>8 DEF Leaves, Stores
<1> QED BY <1>1, <1>2

\* Arithmetic, by operator.

LEMMA NumberArithmeticLeaves ==
  ASSUME NEW B, NEW heap, NEW x, NEW y, NEW op \in {"ADD", "SUB", "MUL"} \X {"int", "float", "bool"}
  PROVE  Leaves(B, heap, Arithmetic(op, heap, x, y))
<1>1. CASE op \in {"ADD", "SUB", "MUL"} \X {"int", "bool"}
  <2>1. PICK a \in {"ADD", "SUB", "MUL"}, b \in {"int", "bool"} : op = <<a, b>>
    BY <1>1
  <2>2. Arithmetic(<<a, b>>, heap, x, y) =
          Gives(IntV(IF a = "ADD" THEN Number(heap, x) + Number(heap, y)
                     ELSE IF a = "SUB" /\ b # "bool" THEN Number(heap, x) - Number(heap, y)
                     ELSE Number(heap, x) * Number(heap, y)))
    BY DEF Arithmetic
  <2> QED BY <2>1, <2>2, ScalarsAvoid, SimpleLeaves
<1>2. CASE op \in {<<"ADD", "float">>, <<"MUL", "float">>}
  <2>1. op \notin {"ADD", "SUB", "MUL"} \X {"int", "bool"}
    BY <1>2
  <2>2. \E n : Arithmetic(op, heap, x, y) = Gives(FloatV(n))
    BY <1>2, <2>1 DEF Arithmetic
  <2> QED BY <2>2, ScalarsAvoid, SimpleLeaves
<1>3. CASE op = <<"SUB", "float">>
  <2>1. /\ op \notin {"ADD", "SUB", "MUL"} \X {"int", "bool"}
        /\ op \notin {<<"ADD", "float">>, <<"MUL", "float">>}
    BY <1>3
  <2>2. PICK n : Arithmetic(op, heap, x, y) = Gives([type |-> "int", is |-> "float", v |-> n])
    BY <1>3, <2>1 DEF Arithmetic
  <2>3. [type |-> "int", is |-> "float", v |-> n].is \notin Shared
    BY DEF Shared
  <2> QED BY <2>2, <2>3, SimpleLeaves
<1> QED BY <1>1, <1>2, <1>3

LEMMA DictionarySumLeaves ==
  ASSUME NEW F, NEW B, NEW heap, Fenced(F, B, heap), NEW x, Clear(F, B, heap, x),
         NEW y, Clear(F, B, heap, y), x.is = "dict", y.is = "dict"
  PROVE  Leaves(B, heap, Arithmetic(<<"ADD", "dict">>, heap, x, y))
<1> DEFINE a == heap[x.v]
           b == heap[y.v]
           order == a.key_order \o SomeOrder(RangeOf(b.key_order) \ RangeOf(a.key_order))
           vals == [k \in DOMAIN a.values \cup DOMAIN b.values |->
                      IF k \in DOMAIN b.values THEN b.values[k] ELSE a.values[k]]
<1>1. AllAvoid(B, RangeOf(a.values)) /\ AllAvoid(B, RangeOf(b.values))
  BY DictClear
<1>2. AllAvoid(B, RangeOf(vals))
  BY <1>1 DEF AllAvoid, RangeOf
<1>3. Arithmetic(<<"ADD", "dict">>, heap, x, y) = Creates("dict", << DictOf(order, vals) >>)
  BY DEF Arithmetic
<1>4. GoodOutcome(F, heap, Arithmetic(<<"ADD", "dict">>, heap, x, y))
  BY DictionarySum DEF Fenced, Clear
<1> HIDE DEF order, vals
<1>5. GoodNews(F, heap, "dict", << DictOf(order, vals) >>)
  BY <1>3, <1>4 DEF GoodOutcome, Creates, Ends
<1>6. DOMAIN << DictOf(order, vals) >> = {1} /\ << DictOf(order, vals) >>[1] = DictOf(order, vals)
  BY Single
<1>7. GoodObject(F, heap \o << DictOf(order, vals) >>, DictOf(order, vals))
  BY <1>5, <1>6 DEF GoodNews
<1>8. ValuesIn(DictOf(order, vals)) = RangeOf(vals)
  BY <1>7, MadeObjects
<1> QED BY <1>2, <1>3, <1>8, NewObjectLeaves

LEMMA RepeatedListLeaves ==
  ASSUME NEW F, NEW B, NEW heap, Fenced(F, B, heap), NEW x, Clear(F, B, heap, x),
         x.is = "list", NEW n \in Int
  PROVE  Leaves(B, heap, Creates("list", << ListOf(Repeat(heap[x.v].items, n)) >>))
<1> DEFINE s == Repeat(heap[x.v].items, n)
<1>1. heap[x.v].items \in Seq(RangeOf(heap[x.v].items)) /\ AllAvoid(B, RangeOf(heap[x.v].items))
  BY ListClear DEF IsList
<1>2. s \in Seq(RangeOf(heap[x.v].items))
  BY <1>1, RepeatRange
<1> HIDE DEF s
<1>3. s \in Seq(RangeOf(s)) /\ RangeOf(s) \subseteq RangeOf(heap[x.v].items)
  BY <1>2, RangeFacts
<1>4. AllAvoid(B, RangeOf(s))
  BY <1>1, <1>3 DEF AllAvoid
<1>5. Leaves(B, heap, Creates("list", << ListOf(s) >>))
  BY <1>3, <1>4, NewListLeaves
<1> QED BY <1>5 DEF s

LEMMA StringPiecesLeaves ==
  ASSUME NEW B, NEW heap, NEW s, NEW n \in Int, n > 0
  PROVE  Leaves(B, heap,
           Creates("list", << ListOf([i \in 1 .. n |-> StrV(Pieces(s, n)[i])]) >>))
<1> DEFINE t == [i \in 1 .. n |-> StrV(Pieces(s, n)[i])]
<1>1. t \in [1 .. n -> RangeOf(t)]
  BY DEF RangeOf
<1>2. \A z \in RangeOf(t) : Avoids(B, z)
  BY ScalarsAvoid DEF RangeOf
<1> HIDE DEF t
<1>3. t \in Seq(RangeOf(t))
  BY <1>1, MadeSequence
<1>4. Leaves(B, heap, Creates("list", << ListOf(t) >>))
  BY <1>2, <1>3, NewListLeaves DEF AllAvoid
<1> QED BY <1>4 DEF t

\* New lists clear of B, and a list of them.
LEMMA NewListsLeave ==
  ASSUME NEW B, NEW heap, Len(heap) \in Nat, B \subseteq 1 .. Len(heap), NEW n \in Nat,
         NEW refs, DOMAIN refs = 1 .. n, refs \in Seq(RangeOf(refs)),
         \A i \in 1 .. n : refs[i] = Make("list", Len(heap) + i),
         NEW objects, DOMAIN objects = 1 .. n + 1,
         \A i \in 1 .. n : AllAvoid(B, ValuesIn(objects[i])),
         objects[n + 1] = ListOf(refs)
  PROVE  Leaves(B, heap, Creates("list", objects))
<1>1. ASSUME NEW i \in 1 .. n PROVE Avoids(B, refs[i])
  <2>1. Len(heap) + i \notin B
    OBVIOUS
  <2> QED BY <2>1 DEF Avoids, Make
<1>2. AllAvoid(B, RangeOf(refs))
  BY <1>1 DEF AllAvoid, RangeOf
<1>3. IsList(ListOf(refs)) /\ ListOf(refs).items = refs
  BY DEF IsList, ListOf
<1>4. AllAvoid(B, ValuesIn(objects[n + 1]))
  BY <1>2, <1>3, OneKind
<1>5. \A i \in 1 .. n + 1 : i \in 1 .. n \/ i = n + 1
  OBVIOUS
<1>6. \A i \in DOMAIN objects : AllAvoid(B, ValuesIn(objects[i]))
  BY <1>4, <1>5
<1> QED BY <1>6 DEF Leaves, Creates

LEMMA ListPiecesLeave ==
  ASSUME NEW F, NEW B, NEW heap, Fenced(F, B, heap), NEW x, Clear(F, B, heap, x),
         x.is = "list", NEW n \in Int, n > 0
  PROVE  Leaves(B, heap,
           Creates("list",
             [i \in 1 .. n |-> ListOf(Pieces(heap[x.v].items, n)[i])]
               \o << ListOf([i \in 1 .. n |-> Make("list", Len(heap) + i)]) >>))
<1> DEFINE s == heap[x.v].items
           parts == [i \in 1 .. n |-> ListOf(Pieces(s, n)[i])]
<1>1. s \in Seq(RangeOf(s)) /\ AllAvoid(B, RangeOf(s))
  BY ListClear DEF IsList
<1> HIDE DEF s
<1>2. ASSUME NEW i \in 1 .. n PROVE AllAvoid(B, ValuesIn(parts[i]))
  <2>1. PICK t : t = Pieces(s, n)[i]
    OBVIOUS
  <2>2. t \in Seq(RangeOf(t)) /\ RangeOf(t) \subseteq RangeOf(s)
    BY <1>1, <2>1, PiecesRange
  <2>3. IsList(ListOf(t)) /\ ListOf(t).items = t
    BY <2>2 DEF IsList, ListOf
  <2>4. ValuesIn(ListOf(t)) = RangeOf(t)
    BY <2>3, OneKind
  <2>5. AllAvoid(B, ValuesIn(ListOf(t)))
    BY <1>1, <2>2, <2>4 DEF AllAvoid
  <2> QED BY <2>1, <2>5
<1>3. parts \in Seq(RangeOf(parts)) /\ Len(parts) = n
  <2>1. n \in Nat /\ parts \in [1 .. n -> RangeOf(parts)]
    BY DEF RangeOf
  <2> HIDE DEF parts
  <2> QED BY <2>1, MadeSequence
<1> HIDE DEF parts
<1>4. PICK refs : refs = [i \in 1 .. n |-> Make("list", Len(heap) + i)]
  OBVIOUS
<1>5. /\ refs \in Seq(RangeOf(refs)) /\ DOMAIN refs = 1 .. n
      /\ \A i \in 1 .. n : refs[i] = Make("list", Len(heap) + i)
  <2>1. n \in Nat /\ refs \in [1 .. n -> RangeOf(refs)]
    BY <1>4 DEF RangeOf
  <2> QED BY <1>4, <2>1, MadeSequence
<1>6. PICK objects : objects = parts \o << ListOf(refs) >>
  OBVIOUS
<1>7. /\ objects \in Seq(RangeOf(objects)) /\ Len(objects) = n + 1
      /\ \A i \in 1 .. n : objects[i] = parts[i]
      /\ objects[n + 1] = ListOf(refs)
  BY <1>3, <1>6, Extended
<1>8. DOMAIN objects = 1 .. n + 1
  BY <1>7, LenProperties
<1>9. Len(heap) \in Nat /\ B \subseteq 1 .. Len(heap)
  BY LenProperties DEF Fenced, GoodHeap
<1>10. Leaves(B, heap, Creates("list", objects))
  <2>1. n \in Nat /\ \A i \in 1 .. n : AllAvoid(B, ValuesIn(objects[i]))
    BY <1>2, <1>7
  <2> QED BY <1>5, <1>7, <1>8, <1>9, <2>1, NewListsLeave
<1> QED BY <1>4, <1>6, <1>10 DEF parts, s

LEMMA ArithmeticLeaves ==
  ASSUME NEW F, NEW B, NEW heap, Fenced(F, B, heap), NEW x, Clear(F, B, heap, x),
         NEW y, Clear(F, B, heap, y), NEW op \in ArithmeticOps,
         x.is = LeftType(op), y.is = RightType(op)
  PROVE  Leaves(B, heap, Arithmetic(op, heap, x, y))
<1> DEFINE m == Number(heap, x)
           n == Number(heap, y)
<1>1. m \in Int /\ n \in Int
  <2>1. x.is \in Countable /\ y.is \in Countable
    BY DEF ArithmeticOps, LeftType, RightType, LogicalOps, Countable
  <2> QED BY <2>1, NumberIsInt DEF Fenced, Clear
<1>2. CASE op \in {"ADD", "SUB", "MUL"} \X {"int", "float", "bool"}
  BY <1>2, NumberArithmeticLeaves
<1>3. CASE op \in { <<"ADD", "string">>, <<"MUL", "int", "string">>, <<"MUL", "string", "int">> }
  <2>1. \E s : Arithmetic(op, heap, x, y) = Gives(StrV(s))
    BY <1>3 DEF Arithmetic
  <2> QED BY <2>1, ScalarsAvoid, SimpleLeaves
<1>4. CASE op = <<"ADD", "list">>
  <2> DEFINE s == heap[x.v].items
             t == heap[y.v].items
  <2>1. x.is = "list" /\ y.is = "list"
    BY <1>4 DEF LeftType, RightType, LogicalOps
  <2>2. /\ s \in Seq(RangeOf(s)) /\ AllAvoid(B, RangeOf(s))
        /\ t \in Seq(RangeOf(t)) /\ AllAvoid(B, RangeOf(t))
    BY <2>1, ListClear DEF IsList
  <2>3. Arithmetic(op, heap, x, y) = Creates("list", << ListOf(s \o t) >>)
    BY <1>4 DEF Arithmetic
  <2> HIDE DEF s, t
  <2>4. s \o t \in Seq(RangeOf(s \o t)) /\ AllAvoid(B, RangeOf(s \o t))
    BY <2>2, ConcatRange DEF AllAvoid
  <2> QED BY <2>3, <2>4, NewListLeaves
<1>5. CASE op = <<"ADD", "dict">>
  <2>1. x.is = "dict" /\ y.is = "dict"
    BY <1>5 DEF LeftType, RightType, LogicalOps
  <2> QED BY <1>5, <2>1, DictionarySumLeaves
<1>6. CASE op = <<"MUL", "int", "list">>
  <2>1. y.is = "list"
    BY <1>6 DEF RightType
  <2>2. Arithmetic(op, heap, x, y) =
          Creates("list", << ListOf(Repeat(heap[y.v].items, m)) >>)
    BY <1>6 DEF Arithmetic
  <2> QED BY <1>1, <2>1, <2>2, RepeatedListLeaves
<1>7. CASE op = <<"MUL", "list", "int">>
  <2>1. x.is = "list"
    BY <1>7 DEF LeftType, LogicalOps
  <2>2. Arithmetic(op, heap, x, y) =
          Creates("list", << ListOf(Repeat(heap[x.v].items, n)) >>)
    BY <1>7 DEF Arithmetic
  <2> QED BY <1>1, <2>1, <2>2, RepeatedListLeaves
<1>8. CASE op = <<"DIV", "int">>
  <2>1. \E q : Arithmetic(op, heap, x, y) \in { Crashes, Gives(FloatV(q)) }
    BY <1>8 DEF Arithmetic
  <2> QED BY <2>1, ScalarsAvoid, SimpleLeaves
<1>9. CASE op = <<"DIV", "string", "int">>
  <2>1. Arithmetic(op, heap, x, y) =
          IF n <= 0 THEN Crashes
          ELSE Creates("list", << ListOf([i \in 1 .. n |-> StrV(Pieces(x.v, n)[i])]) >>)
    BY <1>9 DEF Arithmetic
  <2> HIDE DEF m, n
  <2>2. n > 0 \/ n <= 0
    BY <1>1
  <2> QED BY <1>1, <2>1, <2>2, StringPiecesLeaves, SimpleLeaves
<1>10. CASE op = <<"DIV", "list", "int">>
  <2>1. x.is = "list"
    BY <1>10 DEF LeftType, LogicalOps
  <2>2. Arithmetic(op, heap, x, y) =
          IF n <= 0 THEN Crashes
          ELSE Creates("list",
                 [i \in 1 .. n |-> ListOf(Pieces(heap[x.v].items, n)[i])]
                   \o << ListOf([i \in 1 .. n |-> Make("list", Len(heap) + i)]) >>)
    BY <1>10 DEF Arithmetic
  <2> HIDE DEF m, n
  <2>3. n > 0 \/ n <= 0
    BY <1>1
  <2> QED BY <1>1, <2>1, <2>2, <2>3, ListPiecesLeave, SimpleLeaves
<1> HIDE DEF m, n
<1> QED BY <1>2, <1>3, <1>4, <1>5, <1>6, <1>7, <1>8, <1>9, <1>10 DEF ArithmeticOps

LEMMA BinaryLeaves ==
  ASSUME NEW F, NEW B, NEW heap, Fenced(F, B, heap), NEW x, Clear(F, B, heap, x),
         NEW y, Clear(F, B, heap, y), NEW op \in BinaryOps
  PROVE  Leaves(B, heap, Binary(op, heap, x, y))
<1>1. CASE /\ ~ (op \in EqualityOps /\ op[2] \in {"list", "dict"})
           /\ x.is = LeftType(op) /\ y.is = RightType(op) /\ op \in ArithmeticOps
  BY <1>1, ArithmeticLeaves DEF Binary
<1>2. CASE ~ (/\ ~ (op \in EqualityOps /\ op[2] \in {"list", "dict"})
              /\ x.is = LeftType(op) /\ y.is = RightType(op) /\ op \in ArithmeticOps)
  <2>1. \E b : Binary(op, heap, x, y) \in { Mistaken, Undefined, Gives(BoolV(b)) }
    BY <1>2 DEF Binary, Equality
  <2> QED BY <2>1, ScalarsAvoid, SimpleLeaves
<1> QED BY <1>1, <1>2

-----------------------------------------------------------------------------
\* The heap after an instruction.

LEMMA ShapeStays ==
  ASSUME NEW F, NEW heap, GoodHeap(F, heap), NEW a \in DOMAIN heap
  PROVE  SameShape(heap[a], heap[a])
BY DEF GoodHeap, GoodObject, SameShape

\* What becomes of the objects, and of those in B.
Keeps(B, heap, later) ==
  /\ \A a \in DOMAIN heap : a \in DOMAIN later /\ SameShape(heap[a], later[a])
  /\ \A a \in B : later[a] = heap[a]
  /\ \A a \in DOMAIN later \ B : AllAvoid(B, ValuesIn(later[a]))

LEMMA SameHeapKeeps ==
  ASSUME NEW F, NEW B, NEW heap, Fenced(F, B, heap)
  PROVE  Keeps(B, heap, heap)
BY ShapeStays DEF Keeps, Fenced

LEMMA StoreKeeps ==
  ASSUME NEW F, NEW B, NEW heap, Fenced(F, B, heap), NEW outcome, outcome.how = "store",
         GoodOutcome(F, heap, outcome), Leaves(B, heap, outcome),
         NEW later, later = [heap EXCEPT ![outcome.address] = outcome.object]
  PROVE  Keeps(B, heap, later)
<1>1. PICK at, o : at = outcome.address /\ o = outcome.object
  OBVIOUS
<1>2. /\ at \in DOMAIN heap
      /\ \/ IsList(heap[at]) /\ IsList(o)
         \/ IsDict(heap[at]) /\ IsDict(o)
         \/ IsObject(heap[at]) /\ IsObject(o)
  BY <1>1 DEF GoodOutcome, Ends
<1>3. /\ at \notin B /\ AllAvoid(B, ValuesIn(o))
      /\ IsObject(heap[at]) => SameShape(heap[at], o)
  BY <1>1 DEF Leaves, Ends
<1>4. SameShape(heap[at], o)
  BY <1>2, <1>3 DEF SameShape
<1>5. /\ DOMAIN later = DOMAIN heap /\ later[at] = o
      /\ \A a \in DOMAIN heap : a # at => later[a] = heap[a]
  BY <1>1, <1>2
<1>6. \A a \in DOMAIN heap : SameShape(heap[a], later[a])
  BY <1>4, <1>5, ShapeStays DEF Fenced
<1>7. \A a \in DOMAIN later \ B : AllAvoid(B, ValuesIn(later[a]))
  BY <1>3, <1>5 DEF Fenced
<1> QED BY <1>3, <1>5, <1>6, <1>7 DEF Keeps, Fenced

LEMMA NewKeeps ==
  ASSUME NEW F, NEW B, NEW heap, Fenced(F, B, heap), NEW outcome, outcome.how = "new",
         GoodOutcome(F, heap, outcome), Leaves(B, heap, outcome),
         NEW later, later = heap \o outcome.objects
  PROVE  /\ Keeps(B, heap, later)
         /\ Avoids(B, Make(outcome.type, Len(heap) + Len(outcome.objects)))
<1>1. PICK objects : objects = outcome.objects
  OBVIOUS
<1>2. /\ heap \in Seq(RangeOf(heap)) /\ objects \in Seq(RangeOf(objects)) /\ Len(objects) > 0
      /\ \A i \in DOMAIN objects : AllAvoid(B, ValuesIn(objects[i]))
  BY <1>1 DEF GoodOutcome, GoodNews, Ends, Leaves, Fenced, GoodHeap
<1>3. /\ Len(heap) \in Nat /\ DOMAIN heap = 1 .. Len(heap)
      /\ Len(objects) \in Nat /\ DOMAIN objects = 1 .. Len(objects)
      /\ DOMAIN later = 1 .. Len(heap) + Len(objects)
      /\ \A i \in DOMAIN heap : later[i] = heap[i]
      /\ \A i \in DOMAIN objects : later[Len(heap) + i] = objects[i]
  BY <1>1, <1>2, GrowsBy
<1>4. Len(heap) + Len(objects) \notin B
  BY <1>2, <1>3 DEF Fenced
<1>5. \A a \in DOMAIN heap : a \in DOMAIN later /\ SameShape(heap[a], later[a])
  BY <1>3, ShapeStays DEF Fenced
<1>6. ASSUME NEW a \in DOMAIN later \ B PROVE AllAvoid(B, ValuesIn(later[a]))
  <2>1. CASE a \in DOMAIN heap
    BY <1>3, <2>1 DEF Fenced
  <2>2. CASE a \notin DOMAIN heap
    <3>1. a - Len(heap) \in DOMAIN objects /\ Len(heap) + (a - Len(heap)) = a
      BY <1>3, <2>2
    <3>2. later[a] = objects[a - Len(heap)]
      BY <1>3, <3>1
    <3> QED BY <1>2, <3>1, <3>2
  <2> QED BY <2>1, <2>2
<1>7. Keeps(B, heap, later)
  BY <1>3, <1>5, <1>6 DEF Keeps, Fenced
<1> QED BY <1>1, <1>4, <1>7 DEF Avoids, Make
-----------------------------------------------------------------------------
\* What a comparison finds.

LEMMA Least ==
  ASSUME NEW S \in SUBSET Nat, S # {}
  PROVE  \E m \in S : \A n \in S : m <= n
<1> DEFINE A == {n \in Nat : \A k \in S : n <= k}
<1>1. PICK s \in S : TRUE
  OBVIOUS
<1>2. 0 \in A
  OBVIOUS
<1>3. s + 1 \notin A
  OBVIOUS
<1>4. PICK m \in A : m + 1 \notin A
  <2>1. SUFFICES ASSUME \A n \in Nat : n \in A => n + 1 \in A PROVE FALSE
    OBVIOUS
  <2>2. \A n \in Nat : n \in A
    <3> HIDE DEF A
    <3> QED BY <1>2, <2>1, Induction
  <2> QED BY <1>3, <2>2
<1>5. PICK k \in S : ~ (m + 1 <= k)
  BY <1>4
<1>6. k = m
  BY <1>4, <1>5
<1> QED BY <1>4, <1>6

\* Nothing is found but what one of the elements gives, or that all are the same.
LEMMA FirstUnlikeFinds ==
  ASSUME NEW V, "same" \in V, NEW verdicts, DOMAIN verdicts \subseteq Nat,
         \A i \in DOMAIN verdicts : verdicts[i] \in V
  PROVE  FirstUnlike(verdicts) \in V
<1> DEFINE pairs == {<<i, verdicts[i]>> : i \in DOMAIN verdicts}
           unlike == {u \in pairs : u[2] # "same"}
           indices == {i \in DOMAIN verdicts : verdicts[i] # "same"}
           IsFirst(u) == \A w \in unlike : u[1] <= w[1]
<1>1. CASE unlike = {}
  BY <1>1 DEF FirstUnlike
<1>2. CASE unlike # {}
  <2>1. \A u \in unlike : u[1] \in indices /\ u = <<u[1], verdicts[u[1]]>>
    OBVIOUS
  <2>2. PICK m \in indices : \A n \in indices : m <= n
    <3>1. indices \in SUBSET Nat /\ indices # {}
      BY <1>2
    <3> HIDE DEF indices
    <3> QED BY <3>1, Least
  <2>3. <<m, verdicts[m]>> \in unlike
    OBVIOUS
  <2>4. IsFirst(<<m, verdicts[m]>>)
    BY <2>1, <2>2
  <2>5. (CHOOSE u \in unlike : IsFirst(u)) \in unlike
    <3> HIDE DEF unlike, IsFirst
    <3> QED BY <2>3, <2>4
  <2>6. FirstUnlike(verdicts) = (CHOOSE u \in unlike : IsFirst(u))[2]
    BY <1>2 DEF FirstUnlike
  <2>7. \A u \in unlike : u[2] \in V
    BY <2>1
  <2> HIDE DEF unlike, IsFirst
  <2> QED BY <2>5, <2>6, <2>7
<1> QED BY <1>1, <1>2

\* A value is read as what it is, unless it is a number.
LEMMA SameWithFinds ==
  ASSUME NEW F, NEW heap, NEW x, Good(F, heap, x), NEW y, Good(F, heap, y),
         NEW V, {"same", "different"} \subseteq V, NEW same,
         x.is \in Shared /\ y.is \in Shared =>
           IF x.v = 0 \/ y.v = 0 THEN "undefined" \in V ELSE same[x.v][y.v] \in V
  PROVE  SameWith(same, x, y) \in V
<1>1. \A b : Verdict(b) \in V
  BY DEF Verdict
<1>2. x.type # x.is => x.type = "int"
  BY DEF Good, IsDifference
<1>3. y.type # y.is => y.type = "int"
  BY DEF Good, IsDifference
<1>4. x.type \in Kinds
  BY DEF Good, IsValue
<1>5. CASE x.type # y.type \/ x.type \in {"int", "float", "bool", "string"}
  BY <1>1, <1>5 DEF SameWith
<1>6. CASE ~ (x.type # y.type \/ x.type \in {"int", "float", "bool", "string"})
  <2>1. x.type = y.type /\ x.is = x.type /\ y.is = x.type /\ x.type \in Shared \cup {"fun"}
    BY <1>2, <1>3, <1>4, <1>6 DEF Kinds, Shared
  <2> QED BY <1>1, <1>6, <2>1 DEF SameWith, Shared
<1> QED BY <1>5, <1>6

\* Objects of two kinds are not compared further, keys that are there are.
LEMMA SameObjectsFinds ==
  ASSUME NEW F, NEW heap, NEW o, GoodObject(F, heap, o), NEW p, GoodObject(F, heap, p),
         NEW V, {"same", "different"} \subseteq V, NEW same,
         \A x \in ValuesIn(o), y \in ValuesIn(p) : SameWith(same, x, y) \in V
  PROVE  SameObjects(same, o, p) \in V
<1>1. CASE DOMAIN o # DOMAIN p
  BY <1>1 DEF SameObjects
<1>2. CASE DOMAIN o = DOMAIN p /\ IsList(o)
  <2> DEFINE verdicts == [i \in DOMAIN o.items |-> SameWith(same, o.items[i], p.items[i])]
  <2>1. IsList(p)
    BY <1>2 DEF GoodObject, IsList, IsDict, IsObject
  <2>2. /\ DOMAIN o.items = 1 .. Len(o.items) /\ DOMAIN p.items = 1 .. Len(p.items)
        /\ Len(o.items) \in Nat
    BY <1>2, <2>1, RangeFacts DEF IsList
  <2>3. Len(o.items) = Len(p.items) => FirstUnlike(verdicts) \in V
    <3> SUFFICES ASSUME Len(o.items) = Len(p.items) PROVE FirstUnlike(verdicts) \in V
      OBVIOUS
    <3>1. \A i \in DOMAIN o.items : o.items[i] \in ValuesIn(o) /\ p.items[i] \in ValuesIn(p)
      BY <1>2, <2>1, <2>2, OneKind DEF RangeOf
    <3>2. DOMAIN verdicts \subseteq Nat /\ \A i \in DOMAIN verdicts : verdicts[i] \in V
      BY <2>2, <3>1
    <3> HIDE DEF verdicts
    <3> QED BY <3>2, FirstUnlikeFinds
  <2>4. SameObjects(same, o, p) = IF Len(o.items) # Len(p.items) THEN "different"
                                  ELSE FirstUnlike(verdicts)
    BY <1>2 DEF SameObjects, IsList
  <2> HIDE DEF verdicts
  <2> QED BY <2>3, <2>4
<1>3. CASE DOMAIN o = DOMAIN p /\ IsDict(o)
  <2> DEFINE order == o.key_order
             verdict(k) == IF k \notin DOMAIN p.values THEN "different"
                           ELSE SameWith(same, o.values[k], p.values[k])
             verdicts == [i \in DOMAIN order |-> verdict(order[i])]
  <2>1. IsDict(p) /\ IsCoherent(o)
    BY <1>3, OneKind DEF GoodObject, IsList, IsDict, IsObject
  <2>2. DOMAIN order \subseteq Nat
    BY <1>3, LenProperties DEF IsDict
  <2>3. ASSUME NEW i \in DOMAIN order PROVE verdict(order[i]) \in V
    <3>1. order[i] \in DOMAIN o.values
      BY <2>1 DEF IsCoherent, RangeOf
    <3>2. o.values[order[i]] \in ValuesIn(o)
      BY <1>3, <3>1, OneKind DEF RangeOf
    <3>3. order[i] \in DOMAIN p.values => p.values[order[i]] \in ValuesIn(p)
      BY <2>1, OneKind DEF RangeOf
    <3> HIDE DEF order
    <3> QED BY <3>2, <3>3
  <2>4. FirstUnlike(verdicts) \in V
    <3>1. DOMAIN verdicts \subseteq Nat /\ \A i \in DOMAIN verdicts : verdicts[i] \in V
      <4> HIDE DEF verdict, order
      <4> QED BY <2>2, <2>3
    <3> HIDE DEF verdicts
    <3> QED BY <3>1, FirstUnlikeFinds
  <2>5. SameObjects(same, o, p) \in {"different", FirstUnlike(verdicts)}
    BY <1>3 DEF SameObjects, IsDict
  <2> HIDE DEF verdicts
  <2> QED BY <2>4, <2>5
<1>4. CASE DOMAIN o = DOMAIN p /\ IsObject(o)
  <2> DEFINE n == Cardinality(DOMAIN o.registers)
             verdicts == [i \in 1 .. n |-> SameWith(same, o.registers[i - 1], p.registers[i - 1])]
  <2>1. IsObject(p)
    BY <1>4 DEF GoodObject, IsList, IsDict, IsObject
  <2>2. n \in Nat /\ DOMAIN o.registers = 0 .. n - 1
    BY <1>4, FS_CardinalityType DEF IsObject
  <2>3. DOMAIN o.registers = DOMAIN p.registers => FirstUnlike(verdicts) \in V
    <3> SUFFICES ASSUME DOMAIN o.registers = DOMAIN p.registers PROVE FirstUnlike(verdicts) \in V
      OBVIOUS
    <3> HIDE DEF n
    <3>1. ASSUME NEW i \in 1 .. n
          PROVE  o.registers[i - 1] \in ValuesIn(o) /\ p.registers[i - 1] \in ValuesIn(p)
      <4>1. i - 1 \in DOMAIN o.registers
        BY <2>2
      <4> QED BY <1>4, <2>1, <4>1, OneKind DEF RangeOf
    <3>2. DOMAIN verdicts \subseteq Nat /\ \A i \in DOMAIN verdicts : verdicts[i] \in V
      BY <2>2, <3>1
    <3> HIDE DEF verdicts
    <3> QED BY <3>2, FirstUnlikeFinds
  <2>4. SameObjects(same, o, p) =
          IF o.class # p.class \/ DOMAIN o.registers # DOMAIN p.registers THEN "different"
          ELSE FirstUnlike(verdicts)
    BY <1>4 DEF SameObjects, IsObject
  <2> HIDE DEF verdicts
  <2> QED BY <2>3, <2>4
<1> QED BY <1>1, <1>2, <1>3, <1>4 DEF GoodObject
\* What SameAs computes, pair by pair: fewer pairs are left at each step.
Comparing(heap, same) ==
  same = [met \in SUBSET ((DOMAIN heap) \X (DOMAIN heap)) |->
           [a \in DOMAIN heap |-> [b \in DOMAIN heap |->
              IF <<a, b>> \in met THEN "undefined"
              ELSE SameObjects(same[met \cup {<<a, b>>}], heap[a], heap[b])]]]

LEMMA ComparingEnds ==
  ASSUME NEW F, NEW heap, GoodHeap(F, heap)
  PROVE  \E same : Comparing(heap, same)
<1> DEFINE D == DOMAIN heap
           P == D \X D
           V == {"same", "different", "undefined"}
           T == [D -> [D -> V]]
           S == [SUBSET P -> T]
           none == [met \in SUBSET P |-> [a \in D |-> [b \in D |-> "undefined"]]]
           found(t, met, a, b) == IF <<a, b>> \in met THEN "undefined"
                                  ELSE SameObjects(t[met \cup {<<a, b>>}], heap[a], heap[b])
           further(t) == [met \in SUBSET P |-> [a \in D |-> [b \in D |-> found(t, met, a, b)]]]
           step == [n \in Nat |-> [t \in S |-> further(t)]]
           N == Cardinality(P)
<1>1. D = 1 .. Len(heap) /\ Len(heap) \in Nat
  BY RangeFacts DEF GoodHeap
<1>2. IsFiniteSet(P)
  <2>1. IsFiniteSet(D)
    BY <1>1, FS_Interval
  <2> QED BY <2>1, FS_Product
<1>3. ASSUME NEW t \in T, NEW a \in D, NEW b \in D
      PROVE  SameObjects(t, heap[a], heap[b]) \in V
  <2>1. GoodObject(F, heap, heap[a]) /\ GoodObject(F, heap, heap[b])
    BY DEF GoodHeap
  <2>2. ASSUME NEW x \in ValuesIn(heap[a]), NEW y \in ValuesIn(heap[b])
        PROVE  SameWith(t, x, y) \in V
    <3>1. Good(F, heap, x) /\ Good(F, heap, y)
      BY <2>1 DEF GoodObject
    <3>2. \A z : Good(F, heap, z) /\ z.is \in Shared => z.v = 0 \/ z.v \in D
      BY DEF Good, IsValue, Shared
    <3>3. x.is \in Shared /\ y.is \in Shared =>
            IF x.v = 0 \/ y.v = 0 THEN "undefined" \in V ELSE t[x.v][y.v] \in V
      BY <3>1, <3>2
    <3>4. {"same", "different"} \subseteq V
      OBVIOUS
    <3> HIDE DEF V, D, T
    <3> QED BY <3>1, <3>3, <3>4, SameWithFinds
  <2>3. {"same", "different"} \subseteq V
    OBVIOUS
  <2> HIDE DEF V, D, T
  <2> QED BY <2>1, <2>2, <2>3, SameObjectsFinds
<1>4. ASSUME NEW t \in S PROVE further(t) \in S
  <2>1. ASSUME NEW met \in SUBSET P, NEW a \in D, NEW b \in D PROVE found(t, met, a, b) \in V
    <3>1. met \cup {<<a, b>>} \in SUBSET P /\ "undefined" \in V
      OBVIOUS
    <3>2. t[met \cup {<<a, b>>}] \in T
      <4> HIDE DEF T, P
      <4> QED BY <3>1
    <3> HIDE DEF V, T, D
    <3> QED BY <1>3, <3>1, <3>2
  <2> HIDE DEF found, V, D, P
  <2> QED BY <2>1
<1>5. none \in S /\ step \in [Nat -> [S -> S]]
  <2>1. none \in S
    OBVIOUS
  <2> HIDE DEF S, further
  <2> QED BY <1>4, <2>1
<1>6. PICK h : Recurs(h, S, none, step)
  <2> HIDE DEF S, none, step
  <2> QED BY <1>5, Recursion
<1>7. /\ h \in [Nat -> S] /\ h[0] = none
      /\ \A n \in Nat : h[n + 1] = further(h[n])
  <2> HIDE DEF S, none, further
  <2> QED BY <1>6 DEF Recurs
<1> DEFINE same == [met \in SUBSET P |-> h[N - Cardinality(met)][met]]
<1>8. ASSUME NEW met \in SUBSET P
      PROVE  same[met] = [a \in D |-> [b \in D |->
               IF <<a, b>> \in met THEN "undefined"
               ELSE SameObjects(same[met \cup {<<a, b>>}], heap[a], heap[b])]]
  <2> DEFINE n == N - Cardinality(met)
  <2>1. /\ IsFiniteSet(met) /\ Cardinality(met) \in Nat /\ N \in Nat /\ n \in Nat
        /\ n = 0 => met = P
    <3> HIDE DEF P
    <3> QED BY <1>2, FS_CardinalityType, FS_Subset
  <2>2. same[met] = h[n][met]
    OBVIOUS
  <2>3. CASE n = 0
    <3>1. same[met] = [a \in D |-> [b \in D |-> "undefined"]]
      <4>1. h[n] = none
        <5> HIDE DEF none, n, S, further
        <5> QED BY <1>7, <2>3
      <4>2. none[met] = [a \in D |-> [b \in D |-> "undefined"]]
        OBVIOUS
      <4> HIDE DEF none, n, same
      <4> QED BY <2>2, <4>1, <4>2
    <3>2. \A a, b \in D : <<a, b>> \in met
      BY <2>1, <2>3
    <3> HIDE DEF D, n, same
    <3> QED BY <3>1, <3>2
  <2>4. CASE n # 0
    <3>1. n - 1 \in Nat /\ (n - 1) + 1 = n
      BY <2>1, <2>4
    <3>2. h[n] = further(h[n - 1])
      <4> HIDE DEF further, n, S, none
      <4> QED BY <1>7, <3>1
    <3>3. ASSUME NEW a \in D, NEW b \in D, <<a, b>> \notin met
          PROVE  same[met \cup {<<a, b>>}] = h[n - 1][met \cup {<<a, b>>}]
      <4>1. met \cup {<<a, b>>} \in SUBSET P
        OBVIOUS
      <4>2. Cardinality(met \cup {<<a, b>>}) = Cardinality(met) + 1
        BY <2>1, <3>3, FS_AddElement
      <4>3. N - (Cardinality(met) + 1) = n - 1
        BY <2>1
      <4> HIDE DEF P, N, n
      <4> QED BY <4>1, <4>2, <4>3
    <3>4. same[met] = [a \in D |-> [b \in D |-> found(h[n - 1], met, a, b)]]
      <4>1. further(h[n - 1])[met] = [a \in D |-> [b \in D |-> found(h[n - 1], met, a, b)]]
        <5> HIDE DEF found, D, n
        <5> QED OBVIOUS
      <4> HIDE DEF further, found, n, same, D
      <4> QED BY <2>2, <3>2, <4>1
    <3>5. ASSUME NEW a \in D, NEW b \in D
          PROVE  found(h[n - 1], met, a, b) =
                   IF <<a, b>> \in met THEN "undefined"
                   ELSE SameObjects(same[met \cup {<<a, b>>}], heap[a], heap[b])
      <4> HIDE DEF same, n, D
      <4> QED BY <3>3
    <3> HIDE DEF found, same, n, D
    <3> QED BY <3>4, <3>5, Zenon
  <2> HIDE DEF n
  <2> QED BY <2>3, <2>4
<1>9. Comparing(heap, same)
  <2>1. same = [met \in SUBSET P |-> same[met]]
    OBVIOUS
  <2> HIDE DEF same
  <2> QED BY <1>8, <2>1 DEF Comparing
<1> QED BY <1>9
(***************************************************************************)
(* A set A of objects, with every object that one of A holds; there are no *)
(* null objects in them, and rank says that none is part of itself.  There *)
(* are no functions either: Type::same_as compares their types, which      *)
(* Values does not keep, and follows the pointer to a result that only one *)
(* of the two has.                                                         *)
(***************************************************************************)
WellFounded(heap, A, rank) ==
  /\ A \subseteq DOMAIN heap /\ rank \in [A -> Nat]
  /\ \A a \in A : \A z \in ValuesIn(heap[a]) :
       /\ z.is # "fun"
       /\ z.is \in Shared => z.v \in A /\ rank[z.v] < rank[a]

\* Two values that a comparison can get to the end of.
Comparable(F, heap, x, y) ==
  /\ GoodHeap(F, heap) /\ Good(F, heap, x) /\ Good(F, heap, y)
  /\ x.is # "fun" /\ y.is # "fun"
  /\ \E A, rank :
       /\ WellFounded(heap, A, rank)
       /\ x.is \in Shared => x.v \in A
       /\ y.is \in Shared => y.v \in A

(***************************************************************************)
(* Value::same_as answers, whatever else the two values hold, if there is  *)
(* no null object, no function and no object that is part of itself in     *)
(* them: it takes no value for one of another type, follows no null        *)
(* pointer and ends.                                                       *)
(***************************************************************************)
THEOREM ComparisonsAnswer ==
  ASSUME NEW F, NEW heap, NEW x, NEW y, Comparable(F, heap, x, y)
  PROVE  SameAs(heap, x, y) \in {"same", "different"}
<1> DEFINE D == DOMAIN heap
           P == D \X D
           V == {"same", "different"}
           same == CHOOSE f : Comparing(heap, f)
<1>1. PICK A, rank : /\ WellFounded(heap, A, rank)
                     /\ x.is \in Shared => x.v \in A
                     /\ y.is \in Shared => y.v \in A
  BY DEF Comparable
<1>2. /\ GoodHeap(F, heap) /\ Good(F, heap, x) /\ Good(F, heap, y)
      /\ A \subseteq D /\ rank \in [A -> Nat]
  BY <1>1 DEF Comparable, WellFounded
<1>3. Comparing(heap, same)
  BY <1>2, ComparingEnds
<1>4. SameAs(heap, x, y) = SameWith(same[{}], x, y)
  BY Zenon DEF SameAs, Comparing
<1>5. \A met \in SUBSET P, a \in D, b \in D : <<a, b>> \notin met =>
         same[met][a][b] = SameObjects(same[met \cup {<<a, b>>}], heap[a], heap[b])
  <2> DEFINE found(f, met, a, b) == IF <<a, b>> \in met THEN "undefined"
                                    ELSE SameObjects(f[met \cup {<<a, b>>}], heap[a], heap[b])
  <2> HIDE DEF same
  <2>1. same = [met \in SUBSET P |-> [a \in D |-> [b \in D |-> found(same, met, a, b)]]]
    BY <1>3, Zenon DEF Comparing
  <2>2. \A met \in SUBSET P, a \in D, b \in D : same[met][a][b] = found(same, met, a, b)
    <3> HIDE DEF found, D, P
    <3> QED BY <2>1
  <2> HIDE DEF D, P
  <2> QED BY <2>2
<1> HIDE DEF same
<1>6. \A a \in A : a # 0
  BY <1>2, RangeFacts DEF GoodHeap
\* None of the pairs met so far is one that is still to come.
<1> DEFINE IsNew(met, a) == met \in SUBSET P /\ \A c \in A, d \in D : <<c, d>> \in met => rank[a] < rank[c]
           Answers(n) == \A a \in A, b \in A, met \in SUBSET P :
                           rank[a] < n /\ IsNew(met, a) => same[met][a][b] \in V
           Answered == {n \in Nat : Answers(n)}
<1>7. 0 \in Answered
  BY <1>2
<1>8. ASSUME NEW n \in Nat, n \in Answered PROVE n + 1 \in Answered
  <2>1. SUFFICES ASSUME NEW a \in A, NEW b \in A, NEW met \in SUBSET P,
                        rank[a] < n + 1, IsNew(met, a)
                 PROVE  same[met][a][b] \in V
    OBVIOUS
  <2> DEFINE more == met \cup {<<a, b>>}
  <2>2. /\ a \in D /\ b \in D /\ rank[a] \in Nat /\ more \in SUBSET P
        /\ GoodObject(F, heap, heap[a]) /\ GoodObject(F, heap, heap[b])
    BY <1>2 DEF GoodHeap
  <2>3. <<a, b>> \notin met
    BY <2>1, <2>2
  <2>4. same[met][a][b] = SameObjects(same[more], heap[a], heap[b])
    BY <1>5, <2>2, <2>3
  <2>5. ASSUME NEW z \in ValuesIn(heap[a]), NEW w \in ValuesIn(heap[b])
        PROVE  SameWith(same[more], z, w) \in V
    <3>1. Good(F, heap, z) /\ Good(F, heap, w)
      BY <2>2 DEF GoodObject
    <3>2. /\ z.is \in Shared => z.v \in A /\ rank[z.v] < rank[a]
          /\ w.is \in Shared => w.v \in A
      BY <1>1 DEF WellFounded
    <3>3. ASSUME z.is \in Shared, w.is \in Shared PROVE same[more][z.v][w.v] \in V
      <4>1. z.v \in A /\ w.v \in A /\ rank[z.v] \in Nat /\ rank[z.v] < rank[a]
        BY <1>2, <3>2, <3>3
      <4>2. rank[z.v] < n
        BY <2>1, <2>2, <4>1
      <4>3. ASSUME NEW c \in A, NEW d \in D, <<c, d>> \in more PROVE rank[z.v] < rank[c]
        <5>1. rank[c] \in Nat
          BY <1>2
        <5>2. c = a \/ <<c, d>> \in met
          BY <4>3
        <5>3. CASE c = a
          BY <4>1, <5>3
        <5>4. CASE <<c, d>> \in met
          <6>1. rank[a] < rank[c]
            BY <2>1, <5>4
          <6> QED BY <2>2, <4>1, <5>1, <6>1
        <5> QED BY <5>2, <5>3, <5>4
      <4>4. IsNew(more, z.v)
        BY <2>2, <4>3
      <4>5. Answers(n)
        BY <1>8
      <4> HIDE DEF IsNew, more, V, P
      <4> QED BY <2>2, <4>1, <4>2, <4>4, <4>5
    <3>4. {"same", "different"} \subseteq V
      OBVIOUS
    <3>5. z.is \in Shared /\ w.is \in Shared => z.v # 0 /\ w.v # 0
      BY <1>6, <3>2
    <3> HIDE DEF V, more
    <3> QED BY <3>1, <3>3, <3>4, <3>5, SameWithFinds
  <2>6. {"same", "different"} \subseteq V
    OBVIOUS
  <2>7. SameObjects(same[more], heap[a], heap[b]) \in V
    <3> HIDE DEF V, more
    <3> QED BY <2>2, <2>5, <2>6, SameObjectsFinds
  <2> QED BY <2>4, <2>7
<1>9. \A n \in Nat : Answers(n)
  <2>1. \A n \in Nat : n \in Answered
    <3> HIDE DEF Answered
    <3> QED BY <1>7, <1>8, Induction
  <2> HIDE DEF Answers
  <2> QED BY <2>1
<1>10. ASSUME x.is \in Shared, y.is \in Shared
       PROVE  x.v # 0 /\ y.v # 0 /\ same[{}][x.v][y.v] \in V
  <2>1. x.v \in A /\ y.v \in A /\ rank[x.v] \in Nat
    BY <1>1, <1>2, <1>10
  <2>2. IsNew({}, x.v) /\ {} \in SUBSET P
    OBVIOUS
  <2>3. rank[x.v] + 1 \in Nat /\ rank[x.v] < rank[x.v] + 1
    BY <2>1
  <2> HIDE DEF IsNew, V, P
  <2> QED BY <1>6, <1>9, <2>1, <2>2, <2>3
<1>11. {"same", "different"} \subseteq V
  OBVIOUS
<1>12. SameWith(same[{}], x, y) \in V
  <2> HIDE DEF V
  <2> QED BY <1>2, <1>10, <1>11, SameWithFinds
<1> QED BY <1>4, <1>12
=============================================================================
