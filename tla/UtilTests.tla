----------------------------- MODULE UtilTests -----------------------------
(***************************************************************************)
(* The unit tests of by_key_seq and merge_kv_results, of Coalesce, of      *)
(* MatchSeq and of Change.                                                 *)
(***************************************************************************)
EXTENDS TestKit

-----------------------------------------------------------------------------
(* by_key_seq (util.rs).                                                   *)

\* by_key_seq answers before, and does not panic.
Compares(r1, r2, before) == <<Holds(~Clash(r1, r2)), Is(PlacedBefore(r1, r2), before)>>
Ordered(r1, r2)          == Compares(r1, r2, TRUE) \o Compares(r2, r1, FALSE)

ByKeySeqDifferentKeys     == Ordered(E(k1, N(1, "v1")), E(k2, N(2, "v2")))
ByKeySeqSameKey           == Ordered(E(k1, N(1, "v1")), E(k1, N(2, "v2")))
ByKeySeqNormalVsTombstone == Ordered(E(k1, N(1, "v1")), E(k1, T(1)))

ByKeySeqBothTombstones ==
    Compares(E(k1, T(1)), E(k1, T(1)), TRUE) \o Compares(E(k1, T(1)), E(k1, T(1)), TRUE)

ByKeySeqPanic == <<Holds(Clash(E(k1, N(1, "v1")), E(k1, N(1, "v2"))))>>

ByKeySeqWithErrors ==
    LET ok == E(k1, N(1, "v1"))
    IN Compares(Failure, ok, TRUE) \o Compares(ok, Failure, TRUE)
           \o Compares(Failure, Failure, TRUE)

ByKeySeqOrdering == ByKeySeqSameKey

-----------------------------------------------------------------------------
(* merge_kv_results (util.rs).                                             *)

MergesTo(r1, r2, want) == <<Holds(CanMerge(r1, r2)), Is(Merge(r1, r2), want)>>

MergeSameKey == MergesTo(E(k1, N(1, "v1")), E(k1, N(2, "v2")), E(k1, N(2, "v2")))

MergeDifferentKeys == <<Holds(~CanMerge(E(k1, N(1, "v1")), E(k2, N(2, "v2"))))>>

MergeWithTombstone == MergesTo(E(k1, N(1, "v1")), E(k1, T(2)), E(k1, T(2)))

MergeWithErrors ==
    LET ok == E(k1, N(1, "v1"))
    IN <<Holds(~CanMerge(ok, Failure)), Holds(~CanMerge(Failure, ok)),
         Holds(~CanMerge(Failure, Failure))>>

MergeTombstoneSameSeq == MergesTo(E(k1, N(1, "v1")), E(k1, T(1)), E(k1, T(1)))

MergePreservesHigherSeq == MergesTo(E(k1, N(5, "v5")), E(k1, N(10, "v10")), E(k1, N(10, "v10")))

-----------------------------------------------------------------------------
(* Coalesce (coalesce.rs).                                                 *)

\* What coalesce answers for two entries that are in order.
Pair(ent1, ent2, min, absorbed) ==
    <<Holds(~OutOfOrder(ent1, ent2)), Is(Coalesces(ent1, ent2, min), absorbed)>>

CoalesceComprehensive ==
    Pair(E(k1, N(8, "v1")), E(k2, N(6, "v2")), 5, FALSE)
        \o Pair(E(k1, N(15, "v_new")), E(k1, N(12, "v_old")), 5, FALSE)
        \o Pair(E(k1, N(18, "v_new")), E(k1, N(10, "v_old")), 20, TRUE)
        \o Pair(E(k1, N(15, "v1")), E(k1, T(12)), 20, TRUE)
        \o Pair(E(k2, T(12)), E(k2, T(10)), 20, TRUE)
        \o Pair(E(k1, N(10, "v1")), E(k1, N(5, "v2")), 10, TRUE)

-----------------------------------------------------------------------------
(* MatchSeq (match_seq_ext.rs): None, and values at sequences 0 to 4.      *)

Refuses(want, m, got) == <<Holds(~Matches(want, RecordSeq(m))), Is(MatchOf(want, m), NotMatch(want, got))>>
Accepts(want, m)      == <<Is(MatchOf(want, m), "Ok")>>

MatchSeqValue ==
    Accepts(GE(0), N(0, "1")) \o Accepts(GE(0), N(1, "1"))
        \o Refuses(Exact(3), NotFound, 0) \o Refuses(Exact(3), N(0, "1"), 0)
        \o Refuses(Exact(3), N(2, "1"), 2) \o Accepts(Exact(3), N(3, "1"))
        \o Refuses(Exact(3), N(4, "1"), 4)
        \o Refuses(GE(3), NotFound, 0) \o Refuses(GE(3), N(0, "1"), 0)
        \o Refuses(GE(3), N(2, "1"), 2) \o Accepts(GE(3), N(3, "1"))
        \o Accepts(GE(3), N(4, "1"))
-----------------------------------------------------------------------------
(* Change (change.rs).                                                     *)

\* The fields of a change and its is_delete.
Records(before, after, deletes) ==
    LET change == Change(k1, before, after)
    IN <<Is(change.key, k1), Is(change.before, before), Is(change.after, after),
         Is(IsDelete(change), deletes)>>

ChangeNew           == Records(N(1, "old_value"), N(2, "new_value"), FALSE)
ChangeIsDeleteTrue  == Records(N(1, "value"), NotFound, TRUE)
ChangeIsDeleteFalse == Records(N(1, "old"), N(2, "new"), FALSE)
ChangeInsert        == Records(NotFound, N(1, "new_value"), FALSE)
ChangeUpdate        == Records(N(1, "old"), N(2, "new"), FALSE)

UtilTestCases ==
    <<ByKeySeqDifferentKeys, ByKeySeqSameKey, ByKeySeqNormalVsTombstone,
      ByKeySeqBothTombstones, ByKeySeqPanic, ByKeySeqWithErrors, ByKeySeqOrdering,
      MergeSameKey, MergeDifferentKeys, MergeWithTombstone, MergeWithErrors,
      MergeTombstoneSameSeq, MergePreservesHigherSeq, CoalesceComprehensive, MatchSeqValue,
      ChangeNew, ChangeIsDeleteTrue, ChangeIsDeleteFalse, ChangeInsert, ChangeUpdate>>
=============================================================================
