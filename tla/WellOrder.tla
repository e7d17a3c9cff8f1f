------------------------------- MODULE WellOrder -------------------------------
(***************************************************************************)
(* The principle of the least number, in the form the other proofs use it: *)
(* the recursive functions of the models are shown to exist, and to return *)
(* what they should, by looking at the least argument where they do not.   *)
(***************************************************************************)
EXTENDS Naturals, WellFoundedInduction, TLAPS

\* A set of numbers that is not empty has a least member.
LEMMA LeastNumber ==
  ASSUME NEW T \in SUBSET Nat, T # {}
  PROVE  \E m \in T : \A k \in T : m <= k
<1> DEFINE R == {ss \in Nat \X Nat : ss[1] < ss[2]}
<1>1. IsWellFoundedOn(R, Nat)
  BY NatLessThanWellFounded DEF OpToRel
<1>2. PICK m \in T : \A k \in T : ~ (<<k, m>> \in R)
  BY <1>1, WFMin
<1>3. \A k \in T : <<k, m>> \in R <=> k < m
  OBVIOUS
<1>4. \A k \in T : ~ (k < m)
  BY <1>2, <1>3
<1>5. \A k \in T : k \in Nat /\ m \in Nat
  OBVIOUS
<1>6. QED BY <1>4, <1>5

===============================================================================
