------------------------------ MODULE NatFacts ------------------------------
(***************************************************************************)
(* Induction and recursion over the natural numbers, stated about sets and *)
(* functions, so that they can be cited for one set or function: what the  *)
(* proofs about the loops of the code (a search over directories, the      *)
(* following of links, the sections of a document) rest on.                *)
(***************************************************************************)
EXTENDS Integers, WellFoundedInduction, TLAPS

(* A set of numbers that is not empty has a least element. *)
LEMMA LeastNumber ==
    ASSUME NEW T, T \subseteq Nat, T # {}
    PROVE  \E x \in T : \A y \in T : x <= y
<1> DEFINE R == {ss \in Nat \X Nat : ss[1] < ss[2]}
<1>1. OpToRel(<, Nat) = R
  BY DEF OpToRel
<1>2. IsWellFoundedOn(R, Nat)
  BY <1>1, NatLessThanWellFounded, Zenon
<1> HIDE DEF R
<1>3. PICK x \in T : \A y \in T : ~(<<y, x>> \in R)
  BY <1>2, WFMin, Zenon
<1>4. ASSUME NEW y \in T
      PROVE  x <= y
  <2>1. x \in Nat /\ y \in Nat
    OBVIOUS
  <2>2. ~(y < x)
    <3>1. ~(<<y, x>> \in R)
      BY <1>3
    <3> QED
      BY <2>1, <3>1 DEF R
  <2> QED
    BY <2>1, <2>2
<1> QED
  BY <1>4

(* A loop of n rounds: what holds of 0, and of the successor of each       *)
(* number below n that it holds of, holds up to n.                         *)
LEMMA UpTo ==
    ASSUME NEW n \in Nat, NEW T,
           0 \in T, \A k \in 0..(n - 1) : k \in T => k + 1 \in T
    PROVE  0..n \subseteq T
<1> DEFINE Missing == {k \in 0..n : k \notin T}
<1> SUFFICES ASSUME Missing # {} PROVE FALSE
  OBVIOUS
<1>1. PICK k \in Missing : \A m \in Missing : k <= m
  <2>1. Missing \subseteq Nat
    OBVIOUS
  <2> HIDE DEF Missing
  <2> QED
    BY <2>1, LeastNumber
<1>2. k \in 1..n
  <2>1. k \in 0..n /\ k # 0
    OBVIOUS
  <2> QED
    BY <2>1
<1>3. k - 1 \in 0..(n - 1) /\ k - 1 \in T
  <2>1. k - 1 \in 0..n /\ k - 1 \in 0..(n - 1) /\ ~(k <= k - 1)
    BY <1>2
  <2>2. k - 1 \notin Missing
    BY <1>1, <2>1
  <2> QED
    BY <2>1, <2>2
<1>4. (k - 1) + 1 \in T
  BY <1>3
<1> QED
  BY <1>2, <1>4

(* f[k] is what k steps of G make of b. *)
Iteration(f, n, b, G) == f[0] = b /\ \A k \in 1..n : f[k] = G[<<k, f[k - 1]>>]

(* A value that each of n steps computes from the one before exists. *)
LEMMA Iterates ==
    ASSUME NEW n \in Nat, NEW V, NEW b \in V, NEW G \in [(1..n) \X V -> V]
    PROVE  \E f \in [0..n -> V] : Iteration(f, n, b, G)
<1> DEFINE Good(f, m) == f[0] = b /\ \A k \in 1..m : f[k] = G[<<k, f[k - 1]>>]
           T == {m \in 0..n : \E f \in [0..m -> V] : Good(f, m)}
<1>1. 0 \in T
  <2>1. Good([k \in 0..0 |-> b], 0)
    OBVIOUS
  <2>2. [k \in 0..0 |-> b] \in [0..0 -> V]
    OBVIOUS
  <2> HIDE DEF Good
  <2> QED
    BY <2>1, <2>2
<1>2. ASSUME NEW m \in 0..(n - 1), m \in T
      PROVE  m + 1 \in T
  <2>1. PICK f \in [0..m -> V] : Good(f, m)
    BY <1>2
  <2> DEFINE v == G[<<m + 1, f[m]>>]
             g == [k \in 0..(m + 1) |-> IF k = m + 1 THEN v ELSE f[k]]
  <2>2. v \in V
    OBVIOUS
  <2>3. g \in [0..(m + 1) -> V]
    BY <2>2
  <2>4. Good(g, m + 1)
    <3>1. g[0] = b
      BY <2>1
    <3>2. ASSUME NEW k \in 1..(m + 1)
          PROVE  g[k] = G[<<k, g[k - 1]>>]
      <4>1. g[k - 1] = f[k - 1]
        <5>1. k - 1 \in 0..(m + 1) /\ k - 1 # m + 1
          BY <3>2
        <5> QED
          BY <5>1
      <4>2. CASE k = m + 1
        <5>1. g[k] = v /\ k - 1 = m
          BY <4>2
        <5> QED
          BY <4>1, <4>2, <5>1
      <4>3. CASE k # m + 1
        <5>1. k \in 1..m /\ g[k] = f[k]
          BY <4>3
        <5> QED
          BY <2>1, <4>1, <5>1
      <4> QED
        BY <4>2, <4>3
    <3> QED
      BY <3>1, <3>2
  <2> HIDE DEF Good
  <2> QED
    BY <2>3, <2>4
<1>3. n \in T
  <2> HIDE DEF T
  <2> QED
    BY <1>1, <1>2, UpTo
<1> QED
  BY <1>3 DEF Iteration
====
