------------------------------ MODULE MCLevels ------------------------------
(***************************************************************************)
(* Levels on small instances.                                              *)
(***************************************************************************)
EXTENDS Levels, TLC

\* Keys and values are interchangeable.
Symmetry == Permutations(Keys) \cup Permutations(Values)
=============================================================================
