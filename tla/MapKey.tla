------------------------------- MODULE MapKey -------------------------------
(***************************************************************************)
(* The keys of a map, MapKey: ordered, and nothing else is known of them.  *)
(***************************************************************************)

CONSTANT Keys
=============================================================================
