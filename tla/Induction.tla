------------------------------- MODULE Induction -------------------------------
(***************************************************************************)
(* Induction over the naturals and the functions it defines, stated of     *)
(* sets and functions: what the proofs about a minimum of pids and about   *)
(* loops over sequences rest on.                                           *)
(***************************************************************************)
EXTENDS Integers, WellFoundedInduction, TLAPS

LEMMA NatOrder ==
  \E R : IsWellFoundedOn(R, Nat) /\ \A x, y \in Nat : y < x => <<y, x>> \in R
<1> DEFINE R == OpToRel(<, Nat)
<1>1. IsWellFoundedOn(R, Nat)
  BY NatLessThanWellFounded
<1>2. \A x, y \in Nat : y < x => <<y, x>> \in R
  BY DEF OpToRel
<1> HIDE DEF R
<1> QED BY <1>1, <1>2

\* A set of naturals has a least element.
LEMMA LeastNumber ==
  ASSUME NEW T \in SUBSET Nat, T # {}
  PROVE  \E x \in T : \A y \in T : x <= y
<1>1. PICK R : IsWellFoundedOn(R, Nat) /\ \A x, y \in Nat : y < x => <<y, x>> \in R
  BY NatOrder
<1>2. PICK x \in T : \A y \in T : <<y, x>> \notin R
  BY <1>1, WFMin
<1>3. \A y \in T : x <= y
  <2> TAKE y \in T
  <2>1. x \in Nat /\ y \in Nat /\ ~(y < x)
    BY <1>1, <1>2
  <2> QED BY <2>1
<1> QED BY <1>3

\* A set that has 0, and with a number below m the next, has all up to m.
LEMMA IntervalInduction ==
  ASSUME NEW m \in Nat, NEW T, 0 \in T,
         \A n \in 0..m-1 : n \in T => n + 1 \in T
  PROVE  0..m \subseteq T
<1> SUFFICES ASSUME (0..m) \ T # {} PROVE FALSE
  OBVIOUS
<1> DEFINE Rest == (0..m) \ T
<1>1. PICK n \in Rest : \A k \in Rest : n <= k
  <2>1. Rest \in SUBSET Nat /\ Rest # {}
    OBVIOUS
  <2> HIDE DEF Rest
  <2> QED BY <2>1, LeastNumber
<1>2. n - 1 \in 0..m-1 /\ n - 1 \notin (0..m) \ T
  BY <1>1
<1> QED BY <1>1, <1>2

\* f has the values of a loop from a first one, after each of its m steps.
Loop(f, m, first, step) ==
  f[0] = first /\ \A i \in 1..m : f[i] = step[<<f[i - 1], i>>]

\* A loop that goes through m steps from a first value has a value after each of them.
LEMMA LoopExists ==
  ASSUME NEW A, NEW m \in Nat, NEW first \in A, NEW step \in [A \X (1..m) -> A]
  PROVE  \E f \in [0..m -> A] : Loop(f, m, first, step)
<1> DEFINE Upto(n, f) == Loop(f, n, first, step)
<1> USE DEF Loop
<1> DEFINE T == {n \in 0..m : \E f \in [0..n -> A] : Upto(n, f)}
<1>1. 0 \in T
  <2>1. [i \in 0..0 |-> first] \in [0..0 -> A] /\ Upto(0, [i \in 0..0 |-> first])
    OBVIOUS
  <2>2. \E f \in [0..0 -> A] : Upto(0, f)
    <3> HIDE DEF Upto
    <3> QED BY <2>1
  <2>3. 0 \in 0..m
    OBVIOUS
  <2> QED BY <2>2, <2>3
<1>2. ASSUME NEW n \in 0..m-1, n \in T PROVE n + 1 \in T
  <2>1. PICK f \in [0..n -> A] : Upto(n, f)
    BY <1>2
  <2> DEFINE g == [i \in 0..n+1 |-> IF i <= n THEN f[i] ELSE step[<<f[n], n + 1>>]]
  <2>2. step[<<f[n], n + 1>>] \in A
    OBVIOUS
  <2>3. g \in [0..n+1 -> A]
    BY <2>2
  <2>4. g[0] = first
    BY <2>1
  <2>5. ASSUME NEW i \in 1..n+1 PROVE g[i] = step[<<g[i - 1], i>>]
    <3>1. CASE i <= n
      BY <2>1, <3>1
    <3>2. CASE i = n + 1
      BY <3>2
    <3> QED BY <3>1, <3>2
  <2> HIDE DEF g
  <2>6. Upto(n + 1, g)
    BY <2>4, <2>5
  <2>7. n + 1 \in 0..m
    OBVIOUS
  <2> QED BY <2>3, <2>6, <2>7
<1>3. m \in T
  <2> HIDE DEF T
  <2> QED BY <1>1, <1>2, IntervalInduction
<1> QED BY <1>3
================================================================================
