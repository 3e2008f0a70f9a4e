---------------------------- MODULE InductionLemmas ----------------------------
(***************************************************************************)
(* Induction over the naturals without an operator as a parameter: the set *)
(* of the numbers that have the property stands for it.  The recursive     *)
(* functions of the models are defined over an interval; FiniteRecursion   *)
(* is the reason why they are what their definitions say.                  *)
(***************************************************************************)
EXTENDS Integers, FiniteSetTheorems, SequenceTheorems, TLAPS

\* Induction: a set with 0 that is closed under successor has every number.  Were
\* n the exception, the successor would map the members up to n one to one
\* into those of them that are not 0, which are fewer.
LEMMA NatInd ==
  ASSUME NEW T, 0 \in T, \A n \in Nat : n \in T => n + 1 \in T
  PROVE  Nat \subseteq T
<1> SUFFICES ASSUME NEW n \in Nat, n \notin T PROVE FALSE
  OBVIOUS
<1> DEFINE A == {k \in 0 .. n : k \in T}
           f == [k \in A |-> k + 1]
<1>1. IsFiniteSet(A) /\ 0 \in A
  <2>1. IsFiniteSet(0 .. n)
    BY FS_Interval
  <2>2. A \subseteq 0 .. n
    OBVIOUS
  <2>3. QED
    BY <2>1, <2>2, FS_Subset
<1>2. f \in Injection(A, A \ {0})
  BY DEF Injection, IsInjective
<1>3. /\ Cardinality(A) \in Nat /\ Cardinality(A \ {0}) = Cardinality(A) - 1
      /\ IsFiniteSet(A \ {0})
  <2> HIDE DEF A
  <2>1. QED
    BY <1>1, FS_RemoveElement, FS_CardinalityType
<1>4. Cardinality(A) <= Cardinality(A \ {0})
  <2> HIDE DEF A, f
  <2>1. QED
    BY <1>1, <1>2, <1>3, FS_Injection, Zenon
<1>5. QED
  BY <1>3, <1>4

\* A set of numbers that is not empty has a least one.
LEMMA LeastExists ==
  ASSUME NEW S \in SUBSET Nat, S # {}
  PROVE  \E k \in S : \A i \in S : k <= i
<1> DEFINE T == {n \in Nat : \A i \in S : n <= i}
<1>1. SUFFICES ASSUME \A k \in S : \E i \in S : i < k PROVE FALSE
  OBVIOUS
<1>2. 0 \in T
  OBVIOUS
<1>3. \A n \in Nat : n \in T => n + 1 \in T
  BY <1>1
<1>4. Nat \subseteq T
  <2> HIDE DEF T
  <2>1. QED
    BY <1>2, <1>3, NatInd
<1>5. PICK k \in S : TRUE
  OBVIOUS
<1>6. k + 1 \in T
  BY <1>4, <1>5
<1>7. QED
  BY <1>6

\* The step g[n] takes a value for n - 1 to a value for n.
IsStep(g, L, S) == \A n \in 1 .. L : \A x \in S : g[n][x] \in S

\* The function that starts with b and goes on with g.
Unfolds(f, b, g, L, S) ==
  f \in [0 .. L -> S] /\ f[0] = b /\ \A n \in 1 .. L : f[n] = g[n][f[n - 1]]

\* Recursion over an interval defines a function.
LEMMA FiniteRecursion ==
  ASSUME NEW L \in Nat, NEW S, NEW b \in S, NEW g, IsStep(g, L, S)
  PROVE  \E f : Unfolds(f, b, g, L, S)
<1> DEFINE Good(m, f) == f[0] = b /\ \A n \in 1 .. m : f[n] = g[n][f[n - 1]]
           T == {m \in Nat : m <= L => \E f \in [0 .. m -> S] : Good(m, f)}
<1>1. 0 \in T
  <2>1. Good(0, [n \in 0 .. 0 |-> b])
    OBVIOUS
  <2>2. [n \in 0 .. 0 |-> b] \in [0 .. 0 -> S]
    OBVIOUS
  <2>3. QED
    BY <2>1, <2>2
<1>2. \A m \in Nat : m \in T => m + 1 \in T
  <2>1. SUFFICES ASSUME NEW m \in Nat, m \in T, m + 1 <= L
                 PROVE  \E f \in [0 .. m + 1 -> S] : Good(m + 1, f)
    <3> HIDE DEF Good
    <3>1. QED
      OBVIOUS
  <2>2. PICK f \in [0 .. m -> S] : Good(m, f)
    BY <2>1
  <2> DEFINE h == [n \in 0 .. m + 1 |-> IF n = m + 1 THEN g[m + 1][f[m]] ELSE f[n]]
  <2>3. f[m] \in S /\ g[m + 1][f[m]] \in S
    BY <2>1, <2>2 DEF IsStep
  <2>4. h \in [0 .. m + 1 -> S]
    BY <2>2, <2>3
  <2>5. \A n \in 1 .. m + 1 : h[n] = g[n][h[n - 1]]
    <3>1. ASSUME NEW n \in 1 .. m + 1 PROVE h[n] = g[n][h[n - 1]]
      <4>1. CASE n = m + 1
        <5>1. h[n] = g[m + 1][f[m]] /\ h[n - 1] = f[m]
          BY <4>1
        <5>2. QED
          BY <4>1, <5>1
      <4>2. CASE n # m + 1
        <5>1. n \in 1 .. m /\ n - 1 \in 0 .. m + 1 /\ n - 1 # m + 1 /\ n \in 0 .. m + 1
          BY <4>2
        <5>2. h[n] = f[n] /\ h[n - 1] = f[n - 1]
          BY <5>1, <4>2
        <5>3. QED
          BY <5>1, <5>2, <2>2
      <4>3. QED
        BY <4>1, <4>2
    <3>2. QED
      BY <3>1
  <2>6. h[0] = b
    BY <2>2
  <2>7. QED
    BY <2>4, <2>5, <2>6
<1>3. L \in T
  <2> HIDE DEF T
  <2>1. QED
    BY <1>1, <1>2, NatInd
<1>4. QED
  BY <1>3 DEF Unfolds

\* Two recursions with the same start that take the same steps as far as the
\* first goes have the same values there.
LEMMA SameRecursion ==
  ASSUME NEW L \in Nat, NEW M \in Nat, L <= M, NEW S, NEW b, NEW g, NEW h, NEW f, NEW e,
         Unfolds(f, b, g, L, S), Unfolds(e, b, h, M, S),
         \A n \in 1 .. L : \A x \in S : h[n][x] = g[n][x]
  PROVE  \A n \in 0 .. L : e[n] = f[n]
<1> DEFINE T == {n \in Nat : n <= L => e[n] = f[n]}
<1>1. 0 \in T
  BY DEF Unfolds
<1>2. \A n \in Nat : n \in T => n + 1 \in T
  <2> SUFFICES ASSUME NEW n \in Nat, n \in T, n + 1 <= L PROVE e[n + 1] = f[n + 1]
    OBVIOUS
  <2>1. /\ n + 1 \in 1 .. L /\ n + 1 \in 1 .. M /\ n \in 0 .. L /\ (n + 1) - 1 = n
        /\ e[n] = f[n]
    OBVIOUS
  <2>2. f[n] \in S
    BY <2>1 DEF Unfolds
  <2>3. f[n + 1] = g[n + 1][f[n]] /\ e[n + 1] = h[n + 1][e[n]]
    BY <2>1 DEF Unfolds
  <2>4. QED
    BY <2>1, <2>2, <2>3
<1>3. Nat \subseteq T
  <2> HIDE DEF T
  <2>1. QED
    BY <1>1, <1>2, NatInd
<1>4. QED
  BY <1>3

\* Induction over the sequences of a set, from the left.
LEMMA SeqInd ==
  ASSUME NEW A, NEW T, <<>> \in T,
         \A s \in Seq(A) : \A a \in A : s \in T => Append(s, a) \in T
  PROVE  Seq(A) \subseteq T
<1> DEFINE N == {n \in Nat : \A s \in Seq(A) : Len(s) = n => s \in T}
<1>1. 0 \in N
  <2>1. \A s \in Seq(A) : Len(s) = 0 => s = <<>>
    OBVIOUS
  <2>2. QED
    BY <2>1
<1>2. \A n \in Nat : n \in N => n + 1 \in N
  <2> SUFFICES ASSUME NEW n \in Nat, n \in N, NEW s \in Seq(A), Len(s) = n + 1
               PROVE  s \in T
    OBVIOUS
  <2> DEFINE r == SubSeq(s, 1, n)
             a == s[n + 1]
  <2>1. r \in Seq(A) /\ Len(r) = n /\ a \in A
    OBVIOUS
  <2>2. \A i \in 1 .. n : r[i] = s[i]
    OBVIOUS
  <2>3. r \in T
    BY <2>1
  <2> HIDE DEF r
  <2>4. Append(r, a) = s
    <3>1. /\ Append(r, a) \in Seq(A) /\ Len(Append(r, a)) = n + 1
          /\ \A i \in 1 .. n : Append(r, a)[i] = r[i]
          /\ Append(r, a)[n + 1] = a
      BY <2>1
    <3>2. \A i \in 1 .. n + 1 : i \in 1 .. n \/ i = n + 1
      OBVIOUS
    <3>3. \A i \in 1 .. n + 1 : Append(r, a)[i] = s[i]
      BY <3>1, <3>2, <2>2
    <3>4. QED
      BY <3>1, <3>3, SeqEqual
  <2>5. QED
    BY <2>1, <2>3, <2>4
<1>3. Nat \subseteq N
  <2> HIDE DEF N
  <2>1. QED
    BY <1>1, <1>2, NatInd
<1>4. QED
  BY <1>3
=============================================================================
