----------------------------- MODULE Induction -----------------------------
(***************************************************************************)
(* Induction over data for the proofs of the components.  The induction    *)
(* theorems of the library take an operator as a parameter, which the      *)
(* provers cannot instantiate; its theorem of the least element takes a    *)
(* set, and a property of numbers is the set of the numbers that have it.  *)
(***************************************************************************)
EXTENDS Naturals, WellFoundedInduction, TLAPS

LEMMA SetInduction ==
    ASSUME NEW S \in SUBSET Nat, 0 \in S, \A n \in S : n + 1 \in S
    PROVE  \A n \in Nat : n \in S
<1> DEFINE R == OpToRel(<, Nat)
           T == Nat \ S
<1>1. IsWellFoundedOn(R, Nat)
  BY NatLessThanWellFounded
<1>2. \A a, b \in Nat : <<a, b>> \in R <=> a < b
  BY DEF OpToRel
<1> HIDE DEF R
<1>3. ASSUME T # {} PROVE FALSE
  <2>1. T \subseteq Nat
    OBVIOUS
  <2>2. PICK x \in T : \A y \in T : ~(<<y, x>> \in R)
    BY <1>1, <1>3, <2>1, WFMin
  <2>3. x \in Nat /\ x # 0 /\ x - 1 \in Nat /\ x - 1 + 1 = x /\ x - 1 < x
    OBVIOUS
  <2>4. x - 1 \in T
    BY <2>3
  <2> QED
    BY <1>2, <2>2, <2>3, <2>4
<1> QED
  BY <1>3

\* A set of numbers that is not empty has a least one.
LEMMA LeastNumber ==
    ASSUME NEW T \in SUBSET Nat, T # {}
    PROVE  \E x \in T : \A y \in T : x <= y
<1> DEFINE R == OpToRel(<, Nat)
<1>1. IsWellFoundedOn(R, Nat)
  BY NatLessThanWellFounded
<1>2. \A a, b \in Nat : <<a, b>> \in R <=> a < b
  BY DEF OpToRel
<1> HIDE DEF R
<1>3. T \subseteq Nat
  OBVIOUS
<1>4. PICK x \in T : \A y \in T : ~(<<y, x>> \in R)
  BY <1>1, <1>3, WFMin
<1>5. \A y \in T : ~(y < x)
  BY <1>2, <1>4
<1> QED
  BY <1>5

\* f is computed from d step by step: what a recursive function definition of the
\* form IF i = 0 THEN d ELSE ... f[i - 1] ... stands for.
IsStep(step, n, D) == step \in [1..n -> [D -> D]]
Computes(f, n, D, d, step) ==
    /\ f \in [0..n -> D] /\ f[0] = d
    /\ \A i \in 1..n : f[i] = step[i][f[i - 1]]

LEMMA StepByStep ==
    ASSUME NEW D, NEW d \in D, NEW n \in Nat, NEW step, IsStep(step, n, D)
    PROVE  \E f : Computes(f, n, D, d, step)
<1> USE DEF IsStep, Computes
<1> DEFINE Upto(m, f) == f[0] = d /\ \A i \in 1..m : f[i] = step[i][f[i - 1]]
           S == {m \in Nat : m <= n => \E f \in [0..m -> D] : Upto(m, f)}
<1>1. 0 \in S
  <2> DEFINE f == [i \in 0..0 |-> d]
  <2>1. f \in [0..0 -> D] /\ Upto(0, f)
    OBVIOUS
  <2> QED
    BY <2>1, Zenon
<1>2. ASSUME NEW m \in S PROVE m + 1 \in S
  <2> SUFFICES ASSUME m + 1 <= n PROVE \E f \in [0..m + 1 -> D] : Upto(m + 1, f)
    <3>1. m + 1 \in Nat
      OBVIOUS
    <3> QED
      BY <3>1, Zenon
  <2>1. PICK g \in [0..m -> D] : Upto(m, g)
    OBVIOUS
  <2> DEFINE f == [i \in 0..m + 1 |-> IF i <= m THEN g[i] ELSE step[m + 1][g[m]]]
  <2>2. m \in Nat /\ m + 1 \in 1..n /\ m \in 0..m /\ g[m] \in D
    OBVIOUS
  <2>3. step[m + 1][g[m]] \in D
    BY <2>2
  <2>4. f \in [0..m + 1 -> D]
    BY <2>2, <2>3
  <2>5. f[0] = d /\ f[m + 1] = step[m + 1][f[m + 1 - 1]]
    <3>1. 0 \in 0..m + 1 /\ m \in 0..m + 1 /\ m + 1 \in 0..m + 1 /\ 0 <= m /\ m <= m
          /\ ~(m + 1 <= m) /\ m + 1 - 1 = m
      BY <2>2
    <3>2. f[0] = g[0] /\ f[m] = g[m] /\ f[m + 1] = step[m + 1][g[m]]
      BY <3>1
    <3> QED
      BY <2>1, <3>1, <3>2
  <2>6. ASSUME NEW i \in 1..m PROVE f[i] = step[i][f[i - 1]]
    <3>1. i - 1 \in 0..m /\ i \in 0..m /\ i <= m /\ i - 1 <= m
      BY <2>2
    <3>2. f[i] = g[i] /\ f[i - 1] = g[i - 1]
      BY <2>2, <3>1
    <3> QED
      BY <2>1, <3>2
  <2> HIDE DEF f
  <2>7. \A i \in 1..m + 1 : i \in 1..m \/ i = m + 1
    BY <2>2
  <2>8. Upto(m + 1, f)
    BY <2>5, <2>6, <2>7
  <2> QED
    BY <2>4, <2>8
<1>3. n \in S
  <2> HIDE DEF S
  <2>1. S \in SUBSET Nat
    BY DEF S
  <2> QED
    BY <1>1, <1>2, <2>1, SetInduction
<1> QED
  BY <1>3
=============================================================================
