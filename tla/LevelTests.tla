----------------------------- MODULE LevelTests -----------------------------
(***************************************************************************)
(* The unit tests of compacted_get and compacted_range, of Level and       *)
(* Immutable, of the implementations of MapApiRO for &T and (), and the    *)
(* example of the documentation.                                           *)
(***************************************************************************)
EXTENDS TestKit
LOCAL INSTANCE SequencesExt

L == INSTANCE Level

Default == [seq |-> 0, entries |-> << >>]

\* A series of set, each a pair of key and value.
SetAll(level, writes) == FoldLeft(LAMBDA l, w : L!LevelSet(l, w[1], w[2]), level, writes)
Above(level, writes)  == SetAll(L!NewLevel(level), writes)

EntriesOf(levels)        == [i \in DOMAIN levels |-> levels[i].entries]
GetFrom(levels, k)       == L!CompactedGet(EntriesOf(levels), k)
LevelRange(level, range) == AsSequence(level.entries, range)

\* compacted_range drained, as the merge of the streams does it and as Level
\* states its result.
RangesTo(levels, range, want) ==
    <<Holds(~L!CompactedRangePanics(EntriesOf(levels))),
      Is(Drained([i \in DOMAIN levels |-> LevelRange(levels[i], range)]), want),
      Is(AsSequence(L!CompactedRange(EntriesOf(levels)), range), want)>>

-----------------------------------------------------------------------------
(* compact.rs; keys "a" to "d", k6 the missing one.                        *)

CompactSeqMarkedPair ==
    <<Is(CompactPair(N(1, "a"), N(2, "b")), N(1, "a")),
      Is(CompactPair(N(1, "a"), T(2)), N(1, "a")),
      Is(CompactPair(T(1), N(2, "b")), T(1)),
      Is(CompactPair(T(0), T(2)), T(2))>>

CompactSeqMarkedPairEdgeCases ==
    <<Is(CompactPair(NotFound, N(5, "older")), N(5, "older")),
      Is(CompactPair(NotFound, T(3)), T(3)),
      Is(CompactPair(NotFound, NotFound), NotFound)>>

CompactedGet ==
    LET l0 == SetAll(Default, <<<<k1, "a">>>>)
        l1 == Above(l0, <<<<k1, NoValue>>>>)
        l2 == L!NewLevel(l1)
    IN <<Is(GetFrom(<<l0, l1, l2>>, k1), N(1, "a")),
         Is(GetFrom(<<l2, l1, l0>>, k1), T(1)),
         Is(GetFrom(<<l1, l0>>, k1), T(1)),
         Is(GetFrom(<<l2, l0>>, k1), N(1, "a"))>>

CompactedGetWithPersistedLevels ==
    LET l0 == SetAll(Default, <<<<k1, "a">>>>)
        l1 == Above(l0, <<<<k1, NoValue>>>>)
        l2 == L!NewLevel(l1)
        l3 == Above(l2, <<<<k1, "A">>>>)
    IN <<Is(GetFrom(<<l0, l1, l2>>, k1), N(1, "a")),
         Is(GetFrom(<<l2, l1, l0>>, k1), T(1)),
         Is(GetFrom(<<l2>> \o <<l3>>, k1), N(2, "A")),
         Is(GetFrom(<<l2>> \o <<l2, l3>>, k1), N(2, "A"))>>

CompactedGetEmptyLevels == <<Holds(IsNotFound(GetFrom(<< >>, k6)))>>

CompactedGetKeyNotFound ==
    LET l0 == SetAll(Default, <<<<k1, "a">>>>)
        l1 == Above(l0, <<<<k2, "b">>>>)
    IN <<Holds(IsNotFound(GetFrom(<<l0, l1>>, k6)))>>

CompactedGetOnlyTombstones ==
    LET l0 == SetAll(Default, <<<<k1, "a">>>>)
        l1 == Above(l0, <<<<k1, NoValue>>>>)
        l2 == Above(l1, <<<<k1, NoValue>>>>)
    IN <<Is(GetFrom(<<l2, l1>>, k1), T(1))>>

CompactedRange ==
    LET l0 == SetAll(Default, <<<<k1, "a">>, <<k2, "b">>>>)
        l1 == Above(l0, <<<<k1, NoValue>>, <<k3, NoValue>>>>)
        l2 == Above(l1, <<<<k2, "b2">>>>)
        with    == <<E(k2, N(3, "b2")), E(k3, T(2))>>
        without == <<E(k2, N(2, "b")), E(k3, T(2))>>
    IN FlattenSeq(<<RangesTo(<<l2, l1, l0>>, All, <<E(k1, T(2))>> \o with),
                    RangesTo(<<l2, l1, l0>>, From(k2), with),
                    RangesTo(<<l1, l0>>, All, <<E(k1, T(2))>> \o without),
                    RangesTo(<<l1, l0>>, From(k2), without)>>)

CompactedRangeEmptyLevels == RangesTo(<< >>, All, << >>)

TwoKeys == SetAll(Default, <<<<k1, "a">>, <<k2, "b">>>>)

CompactedRangeSingleLevel ==
    RangesTo(<<TwoKeys>>, All, <<E(k1, N(1, "a")), E(k2, N(2, "b"))>>)

CompactedRangeWithPersistedOnly ==
    RangesTo(<< >> \o <<TwoKeys>>, All, <<E(k1, N(1, "a")), E(k2, N(2, "b"))>>)

CompactedRangeOverlappingKeys ==
    LET l0 == SetAll(Default, <<<<k1, "old_a">>, <<k3, "c">>>>)
        l1 == Above(l0, <<<<k1, "new_a">>, <<k2, "b">>>>)
    IN RangesTo(<<l1, l0>>, All, <<E(k1, N(3, "new_a")), E(k2, N(4, "b")), E(k3, N(2, "c"))>>)

CompactedRangeBoundedRange ==
    LET l0 == SetAll(Default, <<<<k1, "a">>, <<k2, "b">>, <<k3, "c">>, <<k4, "d">>>>)
    IN RangesTo(<<l0>>, FromThrough(k2, k3), <<E(k2, N(2, "b")), E(k3, N(3, "c"))>>)

CompactedRangeAllTombstones ==
    RangesTo(<<Above(TwoKeys, <<<<k1, NoValue>>, <<k2, NoValue>>>>)>>, All,
             <<E(k1, T(2)), E(k2, T(2))>>)

-----------------------------------------------------------------------------
(* immutable.rs and map_api_ro.rs: Immutable and &T forward the read to    *)
(* the level, () holds nothing.                                            *)

TestLevel == SetAll(Default, <<<<k1, "test_value">>>>)
KeysLevel == SetAll(Default, <<<<k1, "value1">>, <<k2, "value2">>>>)

ImmutableGet            == <<Is(L!LevelGet(TestLevel.entries, k1), N(1, "test_value"))>>
ImmutableGetNonexistent == <<Holds(IsNotFound(L!LevelGet(Default.entries, k6)))>>

ImmutableRange ==
    LET items == LevelRange(KeysLevel, FromTill(k1, k3))
    IN <<Is([i \in DOMAIN items |-> items[i].key], <<k1, k2>>)>>

ImmutableEmptyRange == <<Is(LevelRange(Default, FromTill(k1, k6)), << >>)>>

ReferenceGet            == ImmutableGet
ReferenceGetNonexistent == ImmutableGetNonexistent
ReferenceRange          == ImmutableRange
ReferenceEmptyRange     == ImmutableEmptyRange

UnitImpl      == << >>
UnitGet       == <<Holds(IsNotFound(L!LevelGet(UnitImpl, k1)))>>
UnitRange     == <<Is(AsSequence(UnitImpl, FromTill(k1, k6)), << >>)>>
UnitFullRange == <<Is(AsSequence(UnitImpl, All), << >>)>>

\* basic_usage.rs: what the loop prints.
BasicUsage ==
    LET map == SetAll(Default, <<<<k1, "value1">>, <<k2, "value2">>, <<k1, NoValue>>>>)
    IN <<Is(L!LevelGet(map.entries, k2), N(2, "value2")),
         Is(LevelRange(map, All), <<E(k1, T(2)), E(k2, N(2, "value2"))>>)>>

LevelTestCases ==
    <<CompactSeqMarkedPair, CompactSeqMarkedPairEdgeCases, CompactedGet,
      CompactedGetWithPersistedLevels, CompactedGetEmptyLevels, CompactedGetKeyNotFound,
      CompactedGetOnlyTombstones, CompactedRange, CompactedRangeEmptyLevels,
      CompactedRangeSingleLevel, CompactedRangeWithPersistedOnly,
      CompactedRangeOverlappingKeys, CompactedRangeBoundedRange,
      CompactedRangeAllTombstones, ImmutableGet, ImmutableGetNonexistent, ImmutableRange,
      ImmutableEmptyRange, ReferenceGet, ReferenceGetNonexistent, ReferenceRange,
      ReferenceEmptyRange, UnitGet, UnitRange, UnitFullRange, BasicUsage>>
=============================================================================
