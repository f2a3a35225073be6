--------------------------- MODULE MCConditional ---------------------------
(***************************************************************************)
(* Conditional on small instances.                                         *)
(***************************************************************************)
EXTENDS Conditional, TLC

\* Keys and values are interchangeable.
Symmetry == Permutations(Keys) \cup Permutations(Values)
=============================================================================
