------------------------------ MODULE Recursion ------------------------------
(***************************************************************************)
(* Induction on natural numbers, over a set instead of an operator, for    *)
(* the proofs about recursive functions.                                   *)
(***************************************************************************)
EXTENDS Integers, WellFoundedInduction, TLAPS

\* A set of natural numbers that is not empty has a least element.
LEMMA LeastNatural == ASSUME NEW T \in SUBSET Nat, NEW n \in T
                      PROVE  \E m \in T : \A k \in T : m <= k
<1> DEFINE R == OpToRel(<, Nat)
<1>1. \A x, y \in Nat : x < y => <<x, y>> \in R
  BY DEF OpToRel
<1>2. IsWellFoundedOn(R, Nat)
  BY NatLessThanWellFounded
<1> HIDE DEF R
<1>3. PICK m \in T : \A y \in T : <<y, m>> \notin R
  BY <1>2, WFMin, T # {}, T \subseteq Nat
<1>4. ASSUME NEW k \in T PROVE m <= k
  <2>1. m \in Nat /\ k \in Nat
    OBVIOUS
  <2>2. ~(k < m)
    BY <2>1, <1>1, <1>3
  <2> QED BY <2>1, <2>2
<1> QED BY <1>4

\* A set that holds 0, and with every number below N the next one, holds all
\* numbers up to N.
LEMMA Upwards == ASSUME NEW N \in Nat, NEW T, 0 \in T,
                        \A n \in 0..N : n \in T /\ n < N => n + 1 \in T
                 PROVE  \A n \in 0..N : n \in T
<1> SUFFICES ASSUME NEW n \in 0..N, n \notin T PROVE FALSE
  OBVIOUS
<1> DEFINE F == {k \in 0..N : k \notin T}
<1>1. F \in SUBSET Nat /\ n \in F
  OBVIOUS
<1>2. PICK m \in F : \A k \in F : m <= k
  <2> HIDE DEF F
  <2> QED BY <1>1, LeastNatural
<1>3. m \in 1..N /\ m - 1 \in 0..N /\ ~(m <= m - 1)
  OBVIOUS
<1>4. m - 1 \in T
  BY <1>2, <1>3
<1> QED BY <1>3, <1>4
=============================================================================
