--------------------------- MODULE NumberInduction ---------------------------
(***************************************************************************)
(* Induction over numbers, and so over lists, for the proofs.  The         *)
(* library's induction theorems are about a predicate; these are about the *)
(* set of the numbers it holds for, which the provers can instantiate.     *)
(***************************************************************************)
EXTENDS Integers, WellFoundedInduction, TLAPS

\* Every set of naturals has a least member.
LEMMA LeastNumber ==
    ASSUME NEW T, T \subseteq Nat, T # {}
    PROVE  \E m \in T : \A k \in T : m <= k
<1>1. PICK m \in T : \A k \in T : <<k, m>> \notin OpToRel(<, Nat)
  BY NatLessThanWellFounded, WFMin, Zenon
<1>2. \A k \in T : ~(k < m)
  BY <1>1 DEF OpToRel
<1> QED BY <1>2

\* A set with 0 and the successor of each member below n has all up to n.
LEMMA UpTo ==
    ASSUME NEW T, NEW n \in Nat, 0 \in T, \A m \in 0..(n - 1) : m \in T => m + 1 \in T
    PROVE  \A m \in 0..n : m \in T
<1> DEFINE Bad == {m \in 0..n : m \notin T}
<1>1. SUFFICES ASSUME Bad # {} PROVE FALSE
  OBVIOUS
<1>2. Bad \subseteq Nat
  OBVIOUS
<1>3. PICK m \in Bad : \A k \in Bad : m <= k
  <2> HIDE DEF Bad
  <2> QED BY <1>1, <1>2, LeastNumber
<1>4. m \in 1..n
  OBVIOUS
<1>5. m - 1 \in 0..(n - 1) /\ m - 1 \notin Bad
  BY <1>3, <1>4
<1> QED BY <1>5
=============================================================================
