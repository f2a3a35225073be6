---------------------------- MODULE OrderLemmas ----------------------------
(***************************************************************************)
(* Lemmas about versions, for any values.                                  *)
(***************************************************************************)
EXTENDS SeqMarked, WellFoundedInduction, TLAPS

\* What the provers need to know of a version.
LEMMA SeqMarkedFields ==
    ASSUME NEW m \in SeqMarkeds
    PROVE  m.seq \in Nat /\ m.mark \in {0, 1} /\ m.data \in Values \cup {NoValue}
BY DEF SeqMarkeds, Marks, Normal, TombStone

\* Versions a write makes are versions, and so is the not-found marker.
LEMMA NewMarkedType ==
    ASSUME NEW seq \in Nat, NEW value \in Values \cup {NoValue}
    PROVE  /\ NewMarked(seq, value) \in SeqMarkeds
           /\ NewMarked(seq, value).seq = seq
           /\ NewTombstone(seq) \in SeqMarkeds
           /\ OrderKey(NewMarked(seq, value)) \in OrderKeys
           /\ OrderKey(NewMarked(seq, value)).seq = seq
BY NoValueAssumption
   DEF NewMarked, NewNormal, NewTombstone, SeqMarkeds, OrderKeys, OrderKey,
       Marks, Normal, TombStone

\* A nonempty set of naturals has a least element.
LEMMA NonemptyNatSetHasMin ==
    ASSUME NEW S, S \subseteq Nat, S # {}
    PROVE  \E x \in S : \A y \in S : x <= y
<1>1. PICK x \in S : \A y \in S : ~(<<y, x>> \in OpToRel(<, Nat))
    BY NatLessThanWellFounded, WFMin
<1>2. \A y \in S : ~(y < x)
    BY <1>1 DEF OpToRel
<1> QED BY <1>2
=============================================================================
