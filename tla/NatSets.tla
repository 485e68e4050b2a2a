------------------------------- MODULE NatSets -------------------------------
(***************************************************************************)
(* A nonempty set of naturals has a least member, and a greatest one when  *)
(* it is bounded: what the choice of the first or last event of a batch    *)
(* rests on.                                                               *)
(***************************************************************************)
EXTENDS Integers, WellFoundedInduction, TLAPS

\* The well-ordering of the naturals.
LEMMA LeastNat ==
    ASSUME NEW I \in SUBSET Nat, I # {}
    PROVE  \E m \in I : \A i \in I : m <= i
<1> DEFINE Less == {ss \in Nat \X Nat : ss[1] < ss[2]}
<1>1. IsWellFoundedOn(Less, Nat)
  BY NatLessThanWellFounded DEF OpToRel
<1>2. PICK m \in I : \A i \in I : ~(<<i, m>> \in Less)
  BY <1>1, WFMin
<1>3. \A i \in I : m <= i
  <2> SUFFICES ASSUME NEW i \in I PROVE m <= i
    OBVIOUS
  <2>1. ~(i < m)
    BY <1>2
  <2> QED
    BY <2>1
<1> QED
  BY <1>3

\* The greatest of a bounded set is its bound minus the least distance to it.
LEMMA GreatestNat ==
    ASSUME NEW I \in SUBSET Nat, I # {},
           NEW n \in Nat, \A i \in I : i <= n
    PROVE  \E m \in I : \A i \in I : i <= m
<1> DEFINE D == {k \in Nat : n - k \in I}
<1>1. D \in SUBSET Nat /\ D # {}
  <2>1. PICK i \in I : TRUE
    OBVIOUS
  <2>2. n - i \in Nat /\ n - (n - i) = i
    BY <2>1
  <2> QED
    BY <2>1, <2>2
<1>2. PICK d \in D : \A k \in D : d <= k
  BY <1>1, LeastNat
<1>3. \A i \in I : n - i \in D
  <2> SUFFICES ASSUME NEW i \in I PROVE n - i \in D
    OBVIOUS
  <2>1. n - i \in Nat /\ n - (n - i) = i
    OBVIOUS
  <2> QED
    BY <2>1
<1>4. \A i \in I : i <= n - d
  BY <1>2, <1>3
<1> QED
  BY <1>2, <1>4
=============================================================================
