----------------------------- MODULE TableTests -----------------------------
(***************************************************************************)
(* The unit tests of mvcc::Table and of its compaction.                    *)
(***************************************************************************)
EXTENDS TestKit
LOCAL INSTANCE SequencesExt

-----------------------------------------------------------------------------
(* Reads: get, get_many.                                                   *)

GetEmptyTable == <<Holds(IsNotFound(Get(NewTable, k1, 1)))>>

GetSingleValue == <<Is(Get(Inner(<<E(k1, N(1, "v"))>>), k1, 1), N(1, "v"))>>

GetWithDifferentSequenceNumbers ==
    LET t == Inner(<<E(k1, N(5, "v"))>>)
    IN <<Is(Get(t, k1, 5), N(5, "v")),
         Is(Get(t, k1, 10), N(5, "v")),
         Holds(IsNotFound(Get(t, k1, 3)))>>

GetMultipleVersions ==
    LET t == Inner(<<E(k1, N(1, "v1")), E(k1, N(3, "v3")), E(k1, N(5, "v5"))>>)
    IN <<Is(Get(t, k1, 4), N(3, "v3")), Is(Get(t, k1, 5), N(5, "v5"))>>

GetDifferentKeys ==
    LET t == Inner(<<E(k1, N(1, "v1")), E(k2, N(3, "v2-3")), E(k2, N(2, "v2")),
                     E(k3, N(3, "v3"))>>)
    IN <<Is(Get(t, k1, 1), N(1, "v1")),
         Is(Get(t, k2, 3), N(3, "v2-3")),
         Is(Get(t, k2, 2), N(2, "v2")),
         Holds(IsNotFound(Get(t, k2, 1))),
         Holds(IsNotFound(Get(t, k3, 2)))>>

TombstoneRecords ==
    LET t == Inner(<<E(k1, N(1, "v1")), E(k2, T(4)), E(k2, N(3, "v2-3")),
                     E(k2, N(2, "v2")), E(k3, N(3, "v3"))>>)
    IN <<Is(Get(t, k2, 5), T(4)),
         Is(Get(t, k2, 4), T(4)),
         Is(Get(t, k2, 3), N(3, "v2-3")),
         Is(Get(t, k2, 2), N(2, "v2")),
         Is(Get(t, k2, 1), NotFound)>>

GetWithTombstoneSequence == <<Is(Get(Inner(<<E(k1, N(1, "v"))>>), k1, 2), N(1, "v"))>>

\* The table several tests read: values, a deletion above and one beside them.
Mixed ==
    Inner(<<E(k1, N(1, "v1")),
            E(k2, N(3, "v2-3")), E(k2, T(2)), E(k2, N(2, "v2")),
            E(k3, N(3, "v3-3")), E(k3, N(2, "v3-2")),
            E(k4, T(5)), E(k4, N(4, "v4")),
            E(k5, N(4, "v5"))>>)

Mget == <<Is(Get(Mixed, k2, 2), T(2)), Is(Get(Mixed, k3, 2), N(2, "v3-2"))>>

-----------------------------------------------------------------------------
(* Ranges.                                                                 *)

RangeFullUpto ==
    LET old == <<E(k1, N(1, "v1")), E(k2, N(3, "v2-3")), E(k3, N(3, "v3-3"))>>
    IN <<Is(Collect(Mixed, All, 0), << >>),
         Is(Collect(Mixed, All, 1), <<E(k1, N(1, "v1"))>>),
         Is(Collect(Mixed, All, 2),
            <<E(k1, N(1, "v1")), E(k2, T(2)), E(k3, N(2, "v3-2"))>>),
         Is(Collect(Mixed, All, 3), old),
         Is(Collect(Mixed, All, 4), old \o <<E(k4, N(4, "v4")), E(k5, N(4, "v5"))>>),
         Is(Collect(Mixed, All, 5), old \o <<E(k4, T(5)), E(k5, N(4, "v5"))>>)>>

RangeEmptyResult ==
    LET t == Inner(<<E(k1, T(1)), E(k2, N(3, "v2")), E(k3, N(3, "v3"))>>)
    IN <<Is(Collect(t, FromTill(k2, k2), 10), << >>)>>

RangeLeftBoundTombstone ==
    LET t == Inner(<<E(k1, T(1)), E(k2, N(3, "v2")), E(k3, N(3, "v3"))>>)
        above == <<E(k2, N(3, "v2")), E(k3, N(3, "v3"))>>
    IN <<Is(Collect(t, From(k1), 10), <<E(k1, T(1))>> \o above),
         Is(Collect(t, After(k1), 10), above)>>

RangeLeftBoundNormal ==
    LET t == Inner(<<E(k1, N(1, "v1")), E(k2, N(3, "v2")), E(k3, N(3, "v3"))>>)
        above == <<E(k2, N(3, "v2")), E(k3, N(3, "v3"))>>
    IN <<Is(Collect(t, From(k1), 10), <<E(k1, N(1, "v1"))>> \o above),
         Is(Collect(t, After(k1), 10), above)>>

RangeRightBoundTombstone ==
    LET t == Inner(<<E(k1, N(1, "v1")), E(k2, N(3, "v2-3")), E(k3, T(3))>>)
        below == <<E(k1, N(1, "v1")), E(k2, N(3, "v2-3"))>>
    IN <<Is(Collect(t, Till(k3), 10), below),
         Is(Collect(t, Through(k3), 10), below \o <<E(k3, T(3))>>)>>

RangeRightBoundNormal ==
    LET t == Inner(<<E(k1, N(1, "v1")), E(k2, N(3, "v2")), E(k3, N(3, "v3"))>>)
        below == <<E(k1, N(1, "v1")), E(k2, N(3, "v2"))>>
    IN <<Is(Collect(t, Till(k3), 10), below),
         Is(Collect(t, Through(k3), 10), below \o <<E(k3, N(3, "v3"))>>)>>

Ranges ==
    <<Is(Collect(Mixed, FromTill(k2, k4), 2), <<E(k2, T(2)), E(k3, N(2, "v3-2"))>>),
      Is(Collect(Mixed, FromThrough(k2, k4), 4),
         <<E(k2, N(3, "v2-3")), E(k3, N(3, "v3-3")), E(k4, N(4, "v4"))>>),
      Is(Collect(Mixed, FromThrough(k2, k4), 5),
         <<E(k2, N(3, "v2-3")), E(k3, N(3, "v3-3")), E(k4, T(5))>>)>>

-----------------------------------------------------------------------------
(* Writes: insert, insert_tombstone, apply, apply_changes.                 *)

InsertTest ==
    LET one == Inserted(<<E(k1, N(1, "v1"))>>)
        two == Insert(one, k1, T(1))
    IN <<Is(NewTable.last_seq, Zero),
         Holds(CanInsert(NewTable, N(1, "v1"))),
         Is(one.last_seq, OrderKey(N(1, "v1"))),
         Is(Get(one, k1, 1), N(1, "v1")),
         Holds(CanInsert(one, T(1))),
         Is(two.last_seq, OrderKey(T(1))),
         Is(Get(two, k1, 1), T(1)),
         Holds(~CanInsert(two, N(0, "v2"))),
         Holds(CanInsert(two, N(2, "v2")))>>

InsertTombstone ==
    LET t == Inserted(<<E(k1, T(2))>>)
    IN <<Is(NewTable.last_seq, Zero),
         Is(t.last_seq, OrderKey(T(2))),
         Is(Get(t, k1, 2), T(2)),
         Holds(IsNotFound(Get(t, k1, 1)))>>

InsertAndTombstoneMixed ==
    LET t == Inserted(<<E(k1, N(1, "v1")), E(k1, T(3)), E(k1, N(5, "v5"))>>)
    IN <<Is(Get(t, k1, 2), N(1, "v1")),
         Is(Get(t, k1, 4), T(3)),
         Is(Get(t, k1, 5), N(5, "v5"))>>

ApplyTest ==
    LET t == WithLast(Inserted(<<E(k1, N(1, "v1")), E(k1, N(2, "v1-2")), E(k1, T(3))>>), N(1, ""))
        other == WithLast(Inserted(<<E(k1, N(4, "v1-4"))>>), N(2, ""))
        applied == Apply(t, other)
    IN <<Holds(T(3) \in t.inner[k1]),
         Holds(CanApply(t, other)),
         Is(applied.last_seq, OrderKey(N(2, ""))),
         Holds({N(4, "v1-4"), T(3)} \subseteq applied.inner[k1])>>

\* apply_changes on a table without entries, and what it leaves.
ApplyChanges(last_seq, changes) ==
    LET t == WithLast(NewTable, last_seq)
        applied == Apply(t, changes)
    IN <<Holds(CanApply(t, changes)),
         Is(applied.last_seq, changes.last_seq),
         Is(Content(applied), Content(changes))>>

ApplyChangesBasic ==
    ApplyChanges(N(5, ""), WithLast(Inner(<<E(k1, N(7, "v1")), E(k2, N(8, "v2"))>>), N(10, "")))

ApplyChangesWithTombstones ==
    ApplyChanges(N(3, ""), WithLast(Inner(<<E(k1, N(5, "v1")), E(k2, T(6))>>), N(7, "")))

ApplyChangesEmpty == ApplyChanges(N(2, ""), WithLast(NewTable, N(5, "")))

ApplyChangesSameSeq == ApplyChanges(N(4, ""), Inserted(<<E(k1, N(4, "v1"))>>))

ApplyChangesInvalidSeq ==
    <<Holds(~CanApply(WithLast(NewTable, N(10, "")), Inserted(<<E(k1, N(5, "v1"))>>)))>>

\* Keys "another", "existing", "new_key".
ApplyChangesExtendsExisting ==
    LET t == Inserted(<<E(k2, N(1, "old_value"))>>)
        applied == Apply(t, WithLast(Inner(<<E(k3, N(2, "new_value")), E(k1, T(3))>>), N(3, "")))
    IN <<Is(applied.last_seq, OrderKey(N(3, ""))),
         Is(Content(applied), <<E(k1, T(3)), E(k2, N(1, "old_value")), E(k3, N(2, "new_value"))>>)>>

-----------------------------------------------------------------------------
(* from_stream.  A stream of one entry for each of the keys k1, k2, ... is *)
(* the sequence of the entries.                                            *)

FromStreamBasic ==
    LET t == FromStream(<<N(1, "v1"), N(3, "v2"), N(2, "v3")>>)
    IN <<Is(t.last_seq, OrderKey(N(3, "v2"))),
         Is(Content(t), <<E(k1, N(1, "v1")), E(k2, N(3, "v2")), E(k3, N(2, "v3"))>>)>>

FromStreamWithTombstones ==
    LET t == FromStream(<<N(1, "v1"), T(2), N(3, "v3")>>)
    IN <<Is(t.last_seq, OrderKey(N(3, "v3"))),
         Is(Content(t), <<E(k1, N(1, "v1")), E(k2, T(2)), E(k3, N(3, "v3"))>>)>>

FromStreamEmpty ==
    <<Is(FromStream(<< >>).last_seq, Zero), Holds(NoVersions(FromStream(<< >>)))>>

FromStreamError == <<Holds(StreamFails(<<E(k1, N(1, "v1")), Failure>>))>>

FromStreamSequenceOrdering ==
    LET t == FromStream(<<N(5, "v1"), N(2, "v2"), N(8, "v3"), N(3, "v4")>>)
    IN <<Is(t.last_seq, OrderKey(N(8, "v3"))),
         Is(Cardinality(Entries(t)), 4),
         Holds(N(8, "v3") \in t.inner[k3])>>

FromStreamDuplicateKeys ==
    LET t == TableOf(<<E(k1, N(1, "v1_old")), E(k1, N(3, "v1_new")), E(k1, T(2))>>)
    IN <<Is(t.last_seq, OrderKey(N(3, "v1_new"))),
         Is(Content(t), <<E(k1, N(3, "v1_new")), E(k1, T(2)), E(k1, N(1, "v1_old"))>>)>>

-----------------------------------------------------------------------------
(* Compaction.                                                             *)

\* Two tables, the minimum snapshot, and the content and last_seq expected.
Compacts(one, other, min, content, last_seq) ==
    LET a == TableOf(one)
        b == TableOf(other)
        coalesced == Coalesced(a, b, min)
    IN <<Holds(~CompactPanics(a, b, min)),
         Is(coalesced.out \o coalesced.held, content),
         Is(Content(Compact(a, b, min)), content),
         Is(Compact(a, b, min).last_seq, OrderKey(last_seq))>>

\* Keys "a" to "f".
CompactComprehensive ==
    FlattenSeq(<<
        Compacts(<<E(k1, N(10, "v1")), E(k3, N(15, "v3"))>>,
                 <<E(k2, N(12, "v2")), E(k4, N(18, "v4"))>>, 5,
                 <<E(k1, N(10, "v1")), E(k2, N(12, "v2")), E(k3, N(15, "v3")),
                   E(k4, N(18, "v4"))>>, N(18, "")),
        Compacts(<<E(k1, N(15, "v_new"))>>, <<E(k1, N(12, "v_old"))>>, 5,
                 <<E(k1, N(15, "v_new")), E(k1, N(12, "v_old"))>>, N(15, "")),
        Compacts(<<E(k1, N(18, "v_new"))>>, <<E(k1, N(10, "v_old"))>>, 20,
                 <<E(k1, N(18, "v_new"))>>, N(18, "")),
        Compacts(<<E(k1, N(15, "v1")), E(k2, T(12))>>, <<E(k1, T(12)), E(k2, T(10))>>, 20,
                 <<E(k1, N(15, "v1")), E(k2, T(12))>>, N(15, "")),
        Compacts(<<E(k1, N(20, "a_new")), E(k2, N(15, "b_new")), E(k3, T(25)),
                   E(k4, N(30, "d_only1")), E(k6, N(30, "f_new"))>>,
                 <<E(k1, N(10, "a_old")), E(k2, N(12, "b_old")), E(k3, N(8, "c_old")),
                   E(k5, N(35, "e_only2")), E(k6, N(28, "f_old"))>>, 25,
                 <<E(k1, N(20, "a_new")), E(k2, N(15, "b_new")), E(k3, T(25)),
                   E(k4, N(30, "d_only1")), E(k5, N(35, "e_only2")),
                   E(k6, N(30, "f_new")), E(k6, N(28, "f_old"))>>, N(35, "")),
        Compacts(<< >>, <<E(k1, N(5, "value"))>>, 1, <<E(k1, N(5, "value"))>>, N(5, "")),
        Compacts(<<E(k1, T(50))>>, <<E(k2, N(40, "value"))>>, 1,
                 <<E(k1, T(50)), E(k2, N(40, "value"))>>, T(50))>>)

TableTestCases ==
    <<GetEmptyTable, GetSingleValue, GetWithDifferentSequenceNumbers, GetMultipleVersions,
      GetDifferentKeys, TombstoneRecords, GetWithTombstoneSequence, Mget, RangeFullUpto,
      RangeEmptyResult, RangeLeftBoundTombstone, RangeLeftBoundNormal,
      RangeRightBoundTombstone, RangeRightBoundNormal, Ranges, InsertTest, InsertTombstone,
      InsertAndTombstoneMixed, ApplyTest, ApplyChangesBasic, ApplyChangesWithTombstones,
      ApplyChangesEmpty, ApplyChangesSameSeq, ApplyChangesInvalidSeq,
      ApplyChangesExtendsExisting, FromStreamBasic, FromStreamWithTombstones,
      FromStreamEmpty, FromStreamError, FromStreamSequenceOrdering,
      FromStreamDuplicateKeys, CompactComprehensive>>
=============================================================================
