----------------------------- MODULE ViewTests -----------------------------
(***************************************************************************)
(* The unit tests of Snapshot, of reads at a sequence, of View and of the  *)
(* provided fetch_and_set of the trait ViewSet.                            *)
(***************************************************************************)
EXTENDS TestKit
LOCAL INSTANCE SequencesExt

\* The answers of get for several keys, as get_many returns them.
Gets(t, keys, upto)     == [i \in DOMAIN keys |-> Get(t, keys[i], upto)]
ViewGets(t, view, keys) == [i \in DOMAIN keys |-> ViewGet(t, view, keys[i])]

-----------------------------------------------------------------------------
(* Reads at a sequence (read_at_seq.rs); keys "a" to "d".                  *)

ReadTable ==
    Inserted(<<E(k1, N(1, "a1")), E(k2, N(2, "b2")), E(k1, N(3, "a3")), E(k3, T(3)),
               E(k4, N(5, "d5"))>>)

GetAtSeqAndGetManyAtSeq ==
    <<Is(Get(ReadTable, k1, 2), N(1, "a1")),
      Is(Get(ReadTable, k3, 3), T(3)),
      Is(Gets(ReadTable, <<k1, k2, k3, k4>>, 3), <<N(3, "a3"), N(2, "b2"), T(3), NotFound>>)>>

RangeAtSeq ==
    <<Is(Collect(ReadTable, FromThrough(k1, k4), 3),
         <<E(k1, N(3, "a3")), E(k2, N(2, "b2")), E(k3, T(3))>>)>>

-----------------------------------------------------------------------------
(* Snapshots (table_snapshot.rs).                                          *)

SnapshotTable ==
    Inserted(<<E(k1, N(1, "v1")), E(k2, N(2, "v2")), E(k3, N(3, "v3")), E(k4, T(4)),
               E(k5, N(5, "v5")), E(k5, T(6)), E(k6, N(7, "v6")), E(k6, T(8))>>)

SixKeys == <<k1, k2, k3, k4, k5, k6>>
Older   == <<N(1, "v1"), N(2, "v2"), N(3, "v3"), T(4), T(6)>>

MgetExistingSpace == <<Is(Gets(SnapshotTable, SixKeys, 10), Append(Older, T(8)))>>

MgetBeforeLastKey == <<Is(Gets(SnapshotTable, SixKeys, 6), Append(Older, NotFound))>>

MgetAfterAllTombstones == <<Is(Gets(SnapshotTable, SixKeys, 8), Append(Older, T(8)))>>

RangeExistingSpace ==
    LET values == Append(Older, T(8))
    IN <<Is(Collect(SnapshotTable, FromThrough(k1, k6), 10),
            [i \in DOMAIN SixKeys |-> E(SixKeys[i], values[i])])>>

-----------------------------------------------------------------------------
(* View.  Keys are numbered per test, the base's key is k1.                *)

BaseTable == Inserted(<<E(k1, N(1, "base-value"))>>)
BaseView  == NewView(1, 1, FALSE)

\* A series of set, each a pair of key and value.
Sets(view, writes) == FoldLeft(LAMBDA v, w : Stage(v, w[1], w[2], TRUE), view, writes)

\* The order key the last write returned.
Returned(view) == view.changes.last_seq

\* fetch_and_set: what it returns and the view it leaves.
FetchAndSet(t, view, k, value, increase) ==
    LET old == ViewGet(t, view, k)
        missing == IsNotFound(old) /\ value = NoValue
        next == IF missing THEN view ELSE Stage(view, k, value, increase)
    IN [old |-> old, view |-> next,
        new |-> IF missing THEN NotFound ELSE NewMarked(next.last_seq, value)]

\* range, drained.
Ranged(t, view, range) ==
    Drained(<<Collect(t, range, view.snapshot_seq), Collect(view.changes, range, view.last_seq)>>)

StagedValueOverridesSnapshot ==
    <<Is(ViewGet(BaseTable, BaseView, k1), N(1, "base-value")),
      Is(ViewGet(BaseTable, Stage(BaseView, k1, "updated", TRUE), k1), N(2, "updated"))>>

SnapshotHidesFutureValues ==
    LET t == Insert(BaseTable, k2, N(2, "future-value"))
    IN <<Is(ViewGets(t, BaseView, <<k1, k2>>), <<N(1, "base-value"), NotFound>>)>>

\* Keys "primary", "secondary", "tertiary".
SecondaryChangeReusesSequence ==
    LET one == Stage(BaseView, k2, "p", TRUE)
        two == Stage(one, k3, "s", FALSE)
        three == FetchAndSet(BaseTable, two, k4, "t", FALSE)
    IN <<Is(Returned(one), OrderKey(N(2, "p"))),
         Is(Returned(two), OrderKey(N(2, "s"))),
         Is(two.last_seq, 2),
         Is(ViewGets(BaseTable, two, <<k2, k3>>), <<N(2, "p"), N(2, "s")>>),
         Is(<<three.old, three.new>>, <<NotFound, N(2, "t")>>),
         Is(three.view.last_seq, 2)>>

DeleteMissingKeyDoesNotStageTombstone ==
    LET fetched == FetchAndSet(BaseTable, BaseView, k2, NoValue, TRUE)
    IN <<Is(<<fetched.old, fetched.new>>, <<NotFound, NewTombstone(0)>>),
         Holds(NoVersions(fetched.view.changes))>>

RangeMergesSnapshotAndChanges ==
    <<Is(Ranged(BaseTable, Sets(BaseView, <<<<k1, NoValue>>, <<k2, "new-value">>>>), All),
         <<E(k1, T(1)), E(k2, N(2, "new-value"))>>)>>

TombstoneSequenceConfiguration ==
    LET stable == Stage(BaseView, k1, NoValue, TRUE)
        incrementing == Stage(NewView(1, 1, TRUE), k1, NoValue, TRUE)
    IN <<Is(Returned(stable), OrderKey(T(1))), Is(stable.last_seq, 1),
         Is(Returned(incrementing), OrderKey(T(2))), Is(incrementing.last_seq, 2),
         Is(ViewGet(BaseTable, incrementing, k1), T(2))>>

GetManyMergesSnapshotAndChanges ==
    LET v == Sets(BaseView, <<<<k1, "updated">>, <<k3, "new-value">>>>)
    IN <<Is(ViewGets(BaseTable, v, <<k1, k3, k2>>),
            <<N(2, "updated"), N(3, "new-value"), NotFound>>)>>

TombstoneResurrectionPreservesVersions ==
    LET v == Sets(BaseView, <<<<k1, NoValue>>, <<k1, "resurrected">>>>)
    IN <<Is(Get(v.changes, k1, 1), T(1)),
         Is(Get(v.changes, k1, 2), N(2, "resurrected")),
         Is(ViewGet(BaseTable, v, k1), N(2, "resurrected"))>>

\* Keys "a" to "d".
RangeRespectsBoundsAndTombstones ==
    LET t == Inserted(<<E(k1, N(1, "a-value")), E(k2, N(2, "b-value")), E(k3, N(3, "c-value"))>>)
        v == Sets(NewView(3, 3, FALSE), <<<<k2, NoValue>>, <<k4, "d-value">>>>)
    IN <<Is(Ranged(t, v, FromThrough(k2, k4)),
            <<E(k2, T(3)), E(k3, N(3, "c-value")), E(k4, N(4, "d-value"))>>)>>

FetchAndSetTransitions ==
    LET one == FetchAndSet(BaseTable, BaseView, k1, "updated", TRUE)
        two == FetchAndSet(BaseTable, one.view, k1, NoValue, TRUE)
        three == FetchAndSet(BaseTable, two.view, k1, "resurrected", TRUE)
    IN <<Is(<<one.old, one.new>>, <<N(1, "base-value"), N(2, "updated")>>),
         Is(<<two.old, two.new>>, <<N(2, "updated"), T(2)>>),
         Is(<<three.old, three.new>>, <<T(2), N(3, "resurrected")>>)>>

InitialSequenceIsRespected ==
    LET one == Stage(NewView(1, 10, FALSE), k2, "p", TRUE)
        two == Stage(one, k3, "s", FALSE)
    IN <<Is(Returned(one), OrderKey(N(11, "p"))),
         Is(Returned(two), OrderKey(N(11, "s"))),
         Is(two.last_seq, 11)>>

SequenceOrdering ==
    LET v == Sets(BaseView, <<<<k2, "v1">>, <<k3, "v2">>, <<k4, "v3">>>>)
    IN <<Is(v.last_seq, 4),
         Is(Gets(v.changes, <<k2, k3, k4>>, 4), <<N(2, "v1"), N(3, "v2"), N(4, "v3")>>)>>

EmptyBaseView ==
    LET v == Sets(NewView(1, 1, FALSE), <<<<k1, "v1">>, <<k2, NoValue>>>>)
    IN <<Is(ViewGets(NewTable, v, <<k1, k2>>), <<N(2, "v1"), T(2)>>),
         Is(Ranged(NewTable, v, All), <<E(k1, N(2, "v1")), E(k2, T(2))>>)>>

ZeroInitialSequence ==
    LET v == Sets(NewView(1, 0, FALSE), <<<<k2, "v1">>, <<k3, NoValue>>>>)
    IN <<Is(v.last_seq, 1), Is(ViewGets(BaseTable, v, <<k2, k3>>), <<N(1, "v1"), T(1)>>)>>

\* The third write panics.
MaxSequenceBoundary ==
    LET one == Stage(NewView(1, MaxU64 - 2, FALSE), k2, "v1", TRUE)
        two == Stage(one, k3, "v2", TRUE)
    IN <<Is(one.last_seq, MaxU64 - 1), Is(two.last_seq, MaxU64),
         Holds(NextSeq(two, "v3", TRUE) > MaxU64)>>

MultipleUpdatesSameKey ==
    LET v == Sets(BaseView, <<<<k2, "v1">>, <<k2, "v2">>, <<k2, "v3">>, <<k2, NoValue>>,
                              <<k2, "v4">>>>)
    IN <<Is(v.last_seq, 5),
         Is(Get(v.changes, k2, 2), N(2, "v1")),
         Is(Get(v.changes, k2, 3), N(3, "v2")),
         Is(Get(v.changes, k2, 4), T(4)),
         Is(ViewGet(BaseTable, v, k2), N(5, "v4"))>>

EmptyKeyLists == <<Is(ViewGets(BaseTable, BaseView, << >>), << >>)>>

RangeFromBaseOnly ==
    <<Is(Ranged(BaseTable, BaseView, All), <<E(k1, N(1, "base-value"))>>)>>

RangeWithAllTombstones ==
    LET v == Sets(BaseView, <<<<k1, NoValue>>, <<k2, NoValue>>, <<k3, NoValue>>>>)
    IN <<Is(Ranged(BaseTable, v, All), <<E(k1, T(1)), E(k2, T(1)), E(k3, T(1))>>)>>

RangeSingleKey ==
    <<Is(Ranged(BaseTable, BaseView, FromThrough(k1, k1)), <<E(k1, N(1, "base-value"))>>)>>

RangeOfMissingKey == <<Is(Ranged(BaseTable, BaseView, FromThrough(k2, k2)), << >>)>>

IntoPartsPreservesStagedChanges ==
    LET v == Stage(BaseView, k2, "new-value", TRUE)
    IN <<Is(v.last_seq, 2), Is(Get(v.changes, k2, 2), N(2, "new-value"))>>

-----------------------------------------------------------------------------
(* The provided fetch_and_set, over the tests' MockView: a map that writes *)
(* everything at sequence 2.  k1 is "initial_key", k2 any other.           *)

MockNew == [k \in {k1} |-> N(1, "initial_value")]
MockGet(data, k) == IF k \in DOMAIN data THEN data[k] ELSE NotFound
MockSet(data, k, value) ==
    [j \in DOMAIN data \cup {k} |-> IF j = k THEN NewMarked(2, value) ELSE data[j]]

MockFetchAndSet(data, k, value) ==
    LET old == MockGet(data, k)
    IN IF IsNotFound(old) /\ value = NoValue
       THEN [old |-> old, new |-> NewTombstone(0), data |-> data]
       ELSE [old |-> old, new |-> NewMarked(2, value), data |-> MockSet(data, k, value)]

\* One call: the pair it returns and what the key holds after it.
Fetches(data, k, value, old, new, after) ==
    LET fetched == MockFetchAndSet(data, k, value)
    IN <<Is(<<fetched.old, fetched.new>>, <<old, new>>), Is(MockGet(fetched.data, k), after)>>

ViewSetValue     == <<Is(MockGet(MockSet(MockNew, k2, "new_value"), k2), N(2, "new_value"))>>
ViewSetTombstone == <<Is(MockGet(MockSet(MockNew, k2, NoValue), k2), T(2))>>

ViewSetOverwriteExisting ==
    <<Is(MockGet(MockNew, k1), N(1, "initial_value")),
      Is(MockGet(MockSet(MockNew, k1, "updated_value"), k1), N(2, "updated_value"))>>

FetchAndSetNonexistent ==
    Fetches(MockNew, k2, "new_value", NotFound, N(2, "new_value"), N(2, "new_value"))

FetchAndSetExisting ==
    Fetches(MockNew, k1, "updated_value", N(1, "initial_value"), N(2, "updated_value"),
            N(2, "updated_value"))

FetchAndSetTombstone == Fetches(MockNew, k1, NoValue, N(1, "initial_value"), T(2), T(2))

FetchAndSetTombstoneToValue ==
    Fetches(MockSet(MockNew, k1, NoValue), k1, "resurrected", T(2), N(2, "resurrected"),
            N(2, "resurrected"))

FetchAndSetMultipleOperations ==
    Fetches(MockNew, k1, "version1", N(1, "initial_value"), N(2, "version1"), N(2, "version1"))
        \o Fetches(MockSet(MockNew, k1, "version1"), k1, "version2", N(2, "version1"),
                   N(2, "version2"), N(2, "version2"))

FetchAndSetDeleteNonexistent ==
    Append(Fetches(MockNew, k2, NoValue, NotFound, NewTombstone(0), NotFound),
           Holds(k2 \notin DOMAIN MockFetchAndSet(MockNew, k2, NoValue).data))

ViewTestCases ==
    <<GetAtSeqAndGetManyAtSeq, RangeAtSeq, MgetExistingSpace, MgetBeforeLastKey,
      MgetAfterAllTombstones, RangeExistingSpace, StagedValueOverridesSnapshot,
      SnapshotHidesFutureValues, SecondaryChangeReusesSequence,
      DeleteMissingKeyDoesNotStageTombstone, RangeMergesSnapshotAndChanges,
      TombstoneSequenceConfiguration, GetManyMergesSnapshotAndChanges,
      TombstoneResurrectionPreservesVersions, RangeRespectsBoundsAndTombstones,
      FetchAndSetTransitions, InitialSequenceIsRespected, SequenceOrdering, EmptyBaseView,
      ZeroInitialSequence, MaxSequenceBoundary, MultipleUpdatesSameKey, EmptyKeyLists,
      RangeFromBaseOnly, RangeWithAllTombstones, RangeSingleKey, RangeOfMissingKey,
      IntoPartsPreservesStagedChanges, ViewSetValue, ViewSetTombstone,
      ViewSetOverwriteExisting, FetchAndSetNonexistent, FetchAndSetExisting,
      FetchAndSetTombstone, FetchAndSetTombstoneToValue, FetchAndSetMultipleOperations,
      FetchAndSetDeleteNonexistent>>
=============================================================================
