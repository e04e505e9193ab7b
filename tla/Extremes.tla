------------------------------ MODULE Extremes ------------------------------
(***************************************************************************)
(* Least and greatest elements of sets of naturals, for proofs about       *)
(* operators that CHOOSE one.                                              *)
(***************************************************************************)
EXTENDS Integers, FiniteSetsExt, FiniteSetTheorems, TLAPS

\* Any non-empty set of naturals has a least element: were there none, the
\* finite set of its strict lower bounds would be mapped into itself by
\* adding one, injectively, and so onto itself, but 0 is no successor.
LEMMA LeastExists ==
    ASSUME NEW S, S \subseteq Nat, S # {}
    PROVE  \E x \in S : \A y \in S : x <= y
<1> SUFFICES ASSUME ~ \E x \in S : \A y \in S : x <= y
             PROVE  FALSE
  OBVIOUS
<1> DEFINE T == {n \in Nat : \A x \in S : n < x}
           succ == [n \in T |-> n + 1]
<1>1. ASSUME NEW x \in S PROVE \E y \in S : y < x
  <2>1. PICK y \in S : ~ (x <= y)
    OBVIOUS
  <2> QED  BY <2>1
<1>2. PICK s \in S : TRUE
  OBVIOUS
<1>3. IsFiniteSet(T)
  BY <1>2, FS_BoundedSetOfNaturals
<1>4. 0 \in T
  <2>1. ASSUME NEW x \in S PROVE 0 < x
    BY <1>1
  <2> QED  BY <2>1
<1>5. succ \in Injection(T, T)
  <2>1. ASSUME NEW n \in T, NEW x \in S PROVE n + 1 < x
    <3>1. PICK y \in S : y < x
      BY <1>1
    <3>2. n < y
      OBVIOUS
    <3> QED  BY <3>1, <3>2
  <2>2. succ \in [T -> T]
    BY <2>1
  <2>3. \A a, b \in T : succ[a] = succ[b] => a = b
    OBVIOUS
  <2> QED  BY <2>2, <2>3 DEF Injection, IsInjective
<1>6. succ \in Surjection(T, T)
  <2> HIDE DEF T, succ
  <2> QED  BY <1>3, <1>5, FS_Injection
<1>7. \E n \in T : succ[n] = 0
  BY <1>4, <1>6 DEF Surjection
<1> QED  BY <1>7

\* A non-empty set of naturals with an upper bound has a greatest element.
LEMMA GreatestExists ==
    ASSUME NEW m \in Nat, NEW S, S \subseteq 0 .. m, S # {}
    PROVE  \E x \in S : \A y \in S : y <= x
<1> DEFINE T == {t \in Nat : m - t \in S}
<1>1. T # {}
  <2>1. PICK j \in S : TRUE
    OBVIOUS
  <2>2. m - j \in Nat /\ m - (m - j) \in S
    BY <2>1
  <2> QED  BY <2>2
<1>2. PICK t \in T : \A u \in T : t <= u
  <2>1. T \subseteq Nat
    OBVIOUS
  <2> HIDE DEF T
  <2> QED  BY <1>1, <2>1, LeastExists
<1>3. \A j \in S : j <= m - t
  <2> TAKE j \in S
  <2>1. m - j \in Nat /\ m - (m - j) \in S
    OBVIOUS
  <2>2. t <= m - j
    BY <2>1, <1>2
  <2> QED  BY <2>2
<1> QED  BY <1>2, <1>3


\* A function from a non-empty finite set to the naturals is greatest
\* somewhere: enumerate the set, and take the first place in the enumeration
\* up to which it would be greatest nowhere.
LEMMA GreatestOfFinite ==
    ASSUME NEW S, IsFiniteSet(S), S # {}, NEW f, \A x \in S : f[x] \in Nat
    PROVE  \E x \in S : \A y \in S : f[y] <= f[x]
<1>0. PICK n \in Nat : Surjection(1 .. n, S) # {}
  BY FS_NatSurjection DEF ExistsSurjection
<1>1. PICK e \in Surjection(1 .. n, S) : TRUE
  BY <1>0
<1>2. /\ \A i \in 1 .. n : e[i] \in S
      /\ \A x \in S : \E i \in 1 .. n : e[i] = x
  BY <1>1 DEF Surjection
<1> DEFINE Tops(j, x) == \A i \in 1 .. j : f[e[i]] <= f[x]
           Bad == {j \in 0 .. n : ~ \E x \in S : Tops(j, x)}
<1>3. ASSUME Bad # {}
      PROVE  FALSE
  <2>1. PICK j \in Bad : \A k \in Bad : j <= k
    <3>1. Bad \subseteq Nat
      OBVIOUS
    <3> HIDE DEF Bad
    <3> QED  BY <1>3, <3>1, LeastExists
  <2>2. j \in 0 .. n /\ ~ \E x \in S : Tops(j, x)
    BY <2>1
  <2>3. j # 0
    <3>1. PICK x \in S : TRUE
      OBVIOUS
    <3>2. Tops(0, x)
      OBVIOUS
    <3> QED  BY <2>2, <3>2
  <2>4. j - 1 \in 0 .. n /\ ~ (j <= j - 1) /\ j \in 1 .. n
    BY <2>2, <2>3
  <2>5. PICK x \in S : Tops(j - 1, x)
    BY <2>1, <2>4
  <2>6. e[j] \in S /\ f[e[j]] \in Nat /\ f[x] \in Nat
    BY <1>2, <2>4
  <2>7. CASE f[e[j]] <= f[x]
    <3>1. ASSUME NEW i \in 1 .. j PROVE f[e[i]] <= f[x]
      <4>1. CASE i = j
        BY <2>7, <4>1
      <4>2. CASE i # j
        BY <2>2, <2>5, <4>2
      <4> QED  BY <4>1, <4>2
    <3> QED  BY <2>2, <3>1
  <2>8. CASE ~ (f[e[j]] <= f[x])
    <3>1. ASSUME NEW i \in 1 .. j PROVE f[e[i]] <= f[e[j]]
      <4>1. CASE i = j
        BY <2>6, <4>1
      <4>2. CASE i # j
        <5>1. i \in 1 .. j - 1 /\ i \in 1 .. n
          BY <2>2, <4>2
        <5>2. f[e[i]] <= f[x] /\ f[e[i]] \in Nat
          BY <1>2, <2>5, <5>1
        <5> QED  BY <2>6, <2>8, <5>2
      <4> QED  BY <4>1, <4>2
    <3> QED  BY <2>2, <2>6, <3>1
  <2> QED  BY <2>7, <2>8
<1>4. PICK x \in S : Tops(n, x)
  <2>1. n \in 0 .. n
    OBVIOUS
  <2> QED  BY <1>3, <2>1
<1> QED  BY <1>2, <1>4

\* Min, of the community modules, is what its name says.
LEMMA MinIsLeast ==
    ASSUME NEW S, S \subseteq Nat, S # {}
    PROVE  Min(S) \in S /\ \A j \in S : Min(S) <= j
BY LeastExists DEF Min
=============================================================================
