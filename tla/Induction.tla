----------------------------- MODULE Induction -----------------------------
(***************************************************************************)
(* Facts the proofs of several modules rest on: induction over the natural *)
(* numbers stated as a fact about a set, that what is defined from one     *)
(* number to the next is defined, and that finite sets of integers have a  *)
(* greatest element.                                                       *)
(***************************************************************************)
EXTENDS Integers, FiniteSets, FiniteSetTheorems, FunctionTheorems, TLAPS

(* Induction over the natural numbers, as a fact about a set: were n not in  *)
(* S, adding one would map the part of S up to n into the same part without  *)
(* 0, which has fewer elements.                                              *)
LEMMA SetInduction ==
  ASSUME NEW S \in SUBSET Nat, 0 \in S, \A n \in S : n + 1 \in S
  PROVE  S = Nat
<1> SUFFICES ASSUME NEW n \in Nat, n \notin S PROVE FALSE
  OBVIOUS
<1> DEFINE A == S \cap (0..n)
           f == [x \in A |-> x + 1]
<1>0. IsFiniteSet(0..n)
  BY FS_Interval
<1>1. IsFiniteSet(A)
  BY <1>0, FS_Subset
<1>2. Cardinality(A) \in Nat
  BY <1>1, FS_CardinalityType
<1>3. 0 \in A
  OBVIOUS
<1>4. IsFiniteSet(A \ {0}) /\ Cardinality(A \ {0}) = Cardinality(A) - 1
  <2> HIDE DEF A
  <2> QED
    BY <1>1, <1>3, FS_RemoveElement
<1>5. \A x \in A : x \in Nat /\ x + 1 \in A \ {0}
  <2>1. \A x \in A : x \in Nat /\ x <= n /\ x # n
    OBVIOUS
  <2>2. \A x \in A : x + 1 \in S /\ x + 1 \in 0..n
    BY <2>1
  <2> QED
    BY <2>1, <2>2
<1>6. f \in Injection(A, A \ {0})
  <2> HIDE DEF A
  <2> QED BY <1>5 DEF Injection, IsInjective
<1>7. Cardinality(A) <= Cardinality(A \ {0})
  <2> HIDE DEF A, f
  <2> QED BY <1>4, <1>6, FS_Injection
<1> QED
  BY <1>2, <1>4, <1>7

(* What is defined from one number to the next is defined.                   *)
Computable(n, T, first, next) ==
  \E f \in [0..n -> T] : f[0] = first /\ \A i \in 1..n : f[i] = next[<<i, f[i - 1]>>]
LEMMA RecursiveFunction ==
  ASSUME NEW n \in Nat, NEW T, NEW first \in T, NEW next \in [(1..n) \X T -> T]
  PROVE  Computable(n, T, first, next)
<1> DEFINE Computes(m, f) == f[0] = first /\ \A i \in 1..m : f[i] = next[<<i, f[i - 1]>>]
           S == {m \in Nat : m <= n => \E f \in [0..m -> T] : Computes(m, f)}
<1>1. 0 \in S
  <2> DEFINE f == [i \in 0..0 |-> first]
  <2>1. f \in [0..0 -> T] /\ Computes(0, f)
    OBVIOUS
  <2> QED
    BY <2>1
<1>2. ASSUME NEW m \in S PROVE m + 1 \in S
  <2> SUFFICES ASSUME m + 1 <= n PROVE \E f \in [0..(m + 1) -> T] : Computes(m + 1, f)
    OBVIOUS
  <2>1. PICK g \in [0..m -> T] : Computes(m, g)
    OBVIOUS
  <2> DEFINE f == [i \in 0..(m + 1) |-> IF i = m + 1 THEN next[<<m + 1, g[m]>>] ELSE g[i]]
  <2>2. f \in [0..(m + 1) -> T]
    <3>1. g[m] \in T /\ m + 1 \in 1..n
      OBVIOUS
    <3>2. next[<<m + 1, g[m]>>] \in T
      BY <3>1
    <3>3. \A i \in 0..(m + 1) : i = m + 1 \/ i \in 0..m
      OBVIOUS
    <3> QED
      BY <3>2, <3>3
  <2>3. Computes(m + 1, f)
    <3>1. f[0] = first
      BY <2>1
    <3>2. ASSUME NEW i \in 1..(m + 1) PROVE f[i] = next[<<i, f[i - 1]>>]
      <4>1. CASE i = m + 1
        <5>1. m \in 0..(m + 1) /\ m # m + 1 /\ i - 1 = m /\ i \in 0..(m + 1)
          BY <4>1
        <5>2. f[m] = g[m]
          BY <5>1
        <5>3. f[i] = next[<<m + 1, g[m]>>]
          BY <4>1, <5>1
        <5> QED
          BY <4>1, <5>1, <5>2, <5>3
      <4>2. CASE i # m + 1
        <5>1. i \in 1..m /\ i - 1 \in 0..m /\ i - 1 # m + 1
          BY <4>2
        <5> QED
          BY <2>1, <4>2, <5>1
      <4> QED
        BY <4>1, <4>2
    <3> QED
      BY <3>1, <3>2
  <2> QED
    BY <2>2, <2>3
<1> HIDE DEF Computes
<1>3. S = Nat
  <2>1. S \in SUBSET Nat
    OBVIOUS
  <2> HIDE DEF S
  <2> QED
    BY <1>1, <1>2, <2>1, SetInduction
<1>4. \E f \in [0..n -> T] : Computes(n, f)
  BY <1>3
<1> QED
  BY <1>4 DEF Computes, Computable

(* A finite set of integers has a greatest element.                          *)
HasGreatest(S) == \E m \in S : \A x \in S : m >= x
LEMMA GreatestElement ==
  ASSUME NEW S \in SUBSET Int, IsFiniteSet(S), S # {}
  PROVE  HasGreatest(S)
<1> DEFINE N == {n \in Nat : \A T \in SUBSET Int :
                    IsFiniteSet(T) /\ Cardinality(T) = n /\ T # {} => HasGreatest(T)}
<1>1. 0 \in N
  BY FS_EmptySet
<1>2. ASSUME NEW n \in N PROVE n + 1 \in N
  <2> SUFFICES ASSUME NEW T \in SUBSET Int, IsFiniteSet(T), Cardinality(T) = n + 1, T # {}
               PROVE  HasGreatest(T)
    OBVIOUS
  <2>1. PICK x \in T : TRUE
    OBVIOUS
  <2>2. IsFiniteSet(T \ {x}) /\ Cardinality(T \ {x}) = n
    <3> HIDE DEF N
    <3>1. n \in Nat
      BY DEF N
    <3>2. IsFiniteSet(T \ {x}) /\ Cardinality(T \ {x}) = Cardinality(T) - 1
      BY FS_RemoveElement
    <3> QED
      BY <3>1, <3>2
  <2>3. CASE T \ {x} = {}
    BY <2>3 DEF HasGreatest
  <2>4. CASE T \ {x} # {}
    <3>1. PICK m \in T \ {x} : \A y \in T \ {x} : m >= y
      BY <2>2, <2>4 DEF HasGreatest
    <3>2. CASE m >= x
      BY <3>1, <3>2 DEF HasGreatest
    <3>3. CASE ~(m >= x)
      <4>1. \A y \in T : x >= y
        BY <3>1, <3>3
      <4> QED
        BY <4>1 DEF HasGreatest
    <3> QED
      BY <3>2, <3>3
  <2> QED
    BY <2>3, <2>4
<1>3. N = Nat
  <2>1. N \in SUBSET Nat
    OBVIOUS
  <2> HIDE DEF N
  <2> QED
    BY <1>1, <1>2, <2>1, SetInduction
<1>4. Cardinality(S) \in Nat
  BY FS_CardinalityType
<1> QED
  BY <1>3, <1>4

(* What a function takes a finite set to is finite.                          *)
LEMMA FiniteImage ==
  ASSUME NEW S, IsFiniteSet(S), NEW f, f = [x \in S |-> f[x]], NEW T, T = {f[x] : x \in S}
  PROVE  IsFiniteSet(T)
<1>1. f \in Surjection(S, T)
  BY DEF Surjection
<1> QED
  BY <1>1, FS_Surjection

(* A set of natural numbers has a least element.                             *)
LEMMA LeastElement ==
  ASSUME NEW S \in SUBSET Nat, S # {}
  PROVE  \E m \in S : \A x \in S : m <= x
<1> SUFFICES ASSUME ~\E m \in S : \A x \in S : m <= x PROVE FALSE
  OBVIOUS
<1> DEFINE N == {n \in Nat : \A x \in S : n < x}
<1>1. 0 \in N
  OBVIOUS
<1>2. ASSUME NEW n \in N PROVE n + 1 \in N
  <2>1. \A x \in S : n + 1 <= x
    OBVIOUS
  <2>2. n + 1 \notin S
    BY <2>1
  <2> QED
    BY <2>1, <2>2
<1>3. N = Nat
  <2>1. N \in SUBSET Nat
    OBVIOUS
  <2> HIDE DEF N
  <2> QED
    BY <1>1, <1>2, <2>1, SetInduction
<1>4. PICK x \in S : TRUE
  OBVIOUS
<1>5. x \in N
  BY <1>3
<1> QED
  BY <1>4, <1>5

(* Induction up to n.                                                        *)
LEMMA BoundedInduction ==
  ASSUME NEW n \in Nat, NEW S, 0 \in S, \A i \in 1..n : i - 1 \in S => i \in S
  PROVE  0..n \subseteq S
<1> DEFINE N == {m \in Nat : m <= n => m \in S}
<1>1. 0 \in N
  OBVIOUS
<1>2. ASSUME NEW m \in N PROVE m + 1 \in N
  <2> SUFFICES ASSUME m + 1 <= n PROVE m + 1 \in S
    OBVIOUS
  <2>1. m \in S /\ m + 1 \in 1..n /\ (m + 1) - 1 = m
    OBVIOUS
  <2> QED
    BY <2>1
<1>3. N = Nat
  <2>1. N \in SUBSET Nat
    OBVIOUS
  <2> HIDE DEF N
  <2> QED
    BY <1>1, <1>2, <2>1, SetInduction
<1> QED
  BY <1>3
=============================================================================
