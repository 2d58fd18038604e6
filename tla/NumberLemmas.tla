---------------------------- MODULE NumberLemmas ----------------------------
(***************************************************************************)
(* What the proofs about recursive functions need of the natural numbers.  *)
(***************************************************************************)
EXTENDS Integers, WellFoundedInduction, TLAPS

\* Induction over a set: a set that contains 0 and, with a number, the next one,
\* contains every number.
LEMMA Induction ==
    ASSUME NEW S, 0 \in S, \A n \in Nat : n \in S => n + 1 \in S
    PROVE  Nat \subseteq S
<1> DEFINE T == Nat \ S
<1> SUFFICES ASSUME T # {} PROVE FALSE
  OBVIOUS
<1>1. T \subseteq Nat
  OBVIOUS
<1>2. IsWellFoundedOn(OpToRel(<, Nat), Nat)
  BY NatLessThanWellFounded
<1> HIDE DEF T
<1>3. PICK n \in T : \A m \in T : ~(<<m, n>> \in OpToRel(<, Nat))
  BY ONLY <1>1, <1>2, WFMin, T # {}
<1>4. n \in Nat /\ n \notin S
  BY DEF T
<1>5. n # 0
  BY <1>4
<1>6. n - 1 \in Nat /\ n - 1 < n
  BY <1>4, <1>5
<1>7. <<n - 1, n>> \in OpToRel(<, Nat)
  BY <1>4, <1>6 DEF OpToRel
<1>8. n - 1 \in S
  BY <1>3, <1>6, <1>7 DEF T
<1>9. (n - 1) + 1 \in S
  BY <1>6, <1>8
<1> QED
  BY <1>4, <1>9
============================================================================
