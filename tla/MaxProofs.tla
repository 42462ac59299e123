------------------------------ MODULE MaxProofs ------------------------------
(***************************************************************************)
(* Sets of naturals have their least element, and bounded ones their       *)
(* greatest: what the other proofs need to know of Max.                    *)
(***************************************************************************)
EXTENDS Naturals, FiniteSetsExt, WellFoundedInduction, TLAPS

\* Every set of naturals that is not empty has a least element.
LEMMA NatMin ==
    ASSUME NEW T \in SUBSET Nat, T # {}
    PROVE  \E x \in T : \A y \in T : x <= y
<1> DEFINE R == OpToRel(<, Nat)
<1>1. IsWellFoundedOn(R, Nat)
  BY NatLessThanWellFounded, Zenon
<1> HIDE DEF R
<1>2. PICK x \in T : \A y \in T : <<y, x>> \notin R
  BY <1>1, WFMin
<1>3. ASSUME NEW y \in T PROVE x <= y
  <2>1. ~(y < x)
    BY <1>2 DEF R, OpToRel
  <2>2. QED BY <2>1, <1>3
<1>4. QED BY <1>2, <1>3

\* Max is the greatest element of a bounded set of naturals.
LEMMA MaxOf ==
    ASSUME NEW n \in Nat, NEW T \in SUBSET (0..n), T # {}
    PROVE  Max(T) \in T /\ \A y \in T : y <= Max(T)
<1> DEFINE D == {d \in Nat : \E y \in T : d = n - y}
<1>1. ASSUME NEW y \in T PROVE n - y \in D
  <2>1. n - y \in Nat
    OBVIOUS
  <2>2. QED BY <2>1
<1>2. D \in SUBSET Nat /\ D # {}
  BY <1>1
<1>3. PICK d \in D : \A y \in D : d <= y
  BY <1>2, NatMin
<1>4. PICK x \in T : d = n - x
  OBVIOUS
<1>5. ASSUME NEW y \in T PROVE x >= y
  <2>1. d <= n - y
    BY <1>1, <1>3
  <2>2. x \in 0..n /\ y \in 0..n
    OBVIOUS
  <2>3. QED BY <1>4, <2>1, <2>2
<1>6. \E z \in T : \A y \in T : z >= y
  BY <1>5
<1>7. Max(T) \in T /\ \A y \in T : Max(T) >= y
  BY <1>6, Zenon DEF Max
<1>8. QED BY <1>7
=============================================================================
