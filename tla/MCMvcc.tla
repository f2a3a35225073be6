------------------------------- MODULE MCMvcc -------------------------------
(***************************************************************************)
(* Mvcc on small instances: two keys, two views, a few sequences.          *)
(***************************************************************************)
EXTENDS MvccIsolation, TLC

\* Nothing in the specification tells two keys, two writers or two values
\* apart, so invariants and action properties may be checked up to them.
Symmetry == Permutations(Keys) \cup Permutations(Writers) \cup Permutations(Values)
=============================================================================
