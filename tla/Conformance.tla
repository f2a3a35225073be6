---------------------------- MODULE Conformance ----------------------------
(***************************************************************************)
(* The repository's unit tests, replayed assertion by assertion on the     *)
(* operators of the model: they must compute what the tests expect of the  *)
(* code.                                                                   *)
(***************************************************************************)
EXTENDS TableTests, ViewTests, LevelTests, UtilTests

Tests == TableTestCases \o ViewTestCases \o LevelTestCases \o UtilTestCases

VARIABLES
    test,    \* the test that runs
    step     \* its assertions so far

vars == <<test, step>>

Init ==
    /\ test = 1
    /\ step = 1

NextAssertion ==
    /\ step < Len(Tests[test])
    /\ step' = step + 1
    /\ UNCHANGED test

NextTest ==
    /\ step = Len(Tests[test])
    /\ test < Len(Tests)
    /\ test' = test + 1
    /\ step' = 1

Next == NextAssertion \/ NextTest

Spec == Init /\ [][Next]_vars

-----------------------------------------------------------------------------

\* Every assertion of the tests holds of the model (the test modules of
\* table/mod.rs, merge.rs, table_snapshot.rs, read_at_seq.rs, coalesce.rs,
\* view.rs, view_set.rs, compact.rs, immutable.rs, map_api_ro.rs, util.rs,
\* match_seq_ext.rs and change.rs).
AsAsserted ==
    LET assertion == Tests[test][step]
    IN assertion[1] = assertion[2]
=============================================================================
