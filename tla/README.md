# A verification of map-api in TLA+

map-api (crate `map-api`, `src/src/`) is a Rust library of map-like storage for
Raft state machines: every value carries a sequence number and a
normal/tombstone mark, deletions are tombstones, and the `mvcc` module adds
multi-version tables, snapshots and transaction views. This project models that
library in TLA+, checks the models with TLC and proves the central results with
TLAPS.

## 1. Inventory

| Component | Source | State | Operations |
|---|---|---|---|
| Sequenced values | crate `seq_marked` (not in the repository) | – | `new_normal`, `new_tombstone`, `new_not_found`, order by (seq, mark) |
| `Table` | `mvcc/table/mod.rs` | `inner`: (key, reversed order key) → value; `last_seq` | `new`, `from_stream`, `apply`, `apply_changes`, `get`, `get_many`, `range`, `insert`, `insert_tombstone` |
| `RangeIter` | `mvcc/table/range_iter.rs` | cursor, `upto`, `last_seen_key` | `next` |
| Compaction of tables | `mvcc/table/merge.rs`, `mvcc/coalesce.rs` | – | `compact`, `coalesce` |
| `Snapshot`, `GetAtSeq`, `RangeAtSeq` | `mvcc/snapshot/mod.rs`, `mvcc/read_at_seq.rs` | a sequence over a shared reader | `get`, `get_many`, `range` |
| `View` | `mvcc/view.rs`, `mvcc/view_{get,set,range,api}.rs` | staged changes, `last_seq`, snapshot, tombstone flag | `set`, `set_without_seq_increment`, `get`, `get_many`, `fetch_and_set` (two variants), `range`, `into_parts` |
| Stream helpers | `util.rs` | – | `by_key_seq`, `merge_kv_results` |
| k-way merge of streams | crate `stream_more` (not in the repository) | heads, one held item | `KMerge`, `coalesce` |
| Multi-level reads | `compact.rs` | – | `compact_seq_marked_pair`, `compacted_get`, `compacted_range` |
| `Level`, `Immutable` | `impls/` | a counter and one entry per key | `get`, `range`, `set` |
| `MatchSeq` | `match_seq/` | – | `match_seq` |
| `Change` | `seq_value/` | – | `new`, `is_delete` |
| Traits, aliases | `map_api*.rs`, `map_key.rs`, `map_value.rs`, `lib.rs` | – | declarations; `MapApiRO` for `&T` and `()` |

How they interact. A store (an application, not in the repository) owns one
committed `Table`. It opens `Snapshot`s of it at a sequence, and `View`s over
such snapshots. A view stages writes in a `Table` of its own, with sequences
from its own counter that starts at the snapshot's sequence; its reads put the
staged entries over the base, by a shortcut in `get` and by a merge of two
streams in `range`. At the end the view is taken apart (`into_parts`) and the
store merges the change set into the table, with `apply` (fast) or `compact`
(which drops versions no reader can need). The low-level reader is an async
trait: a view's read can be suspended or fail, and other views go on meanwhile.
In the single-version half of the crate, a stack of `Level`s is read through
`compacted_get` and `compacted_range`. `MatchSeq` is the condition a client puts on a
record's sequence, and `Change` the event that tells a watcher of an update; both
are for the store's own code around a view.

What is hard. Nothing in the crate locks or schedules: its safety rests on
sequences. The hazards are (a) two views, compactions, commits and restarts in
any order over one table; (b) reads suspended between two commits; (c) two
write modes that reuse a sequence (deletions by default, and
`set_without_seq_increment`); (d) three assertions, in `apply_changes`,
`coalesce` and `by_key_seq`, whose truth depends on the whole history of calls;
(e) off-by-one bounds (`upto` as a tombstone key, `gr <= min_snapshot_seq`, key
bounds as bounds on (key, order key)); (f) streams whose items may be errors,
drained while the view goes on; (g) a counter that may reach the end of a `u64`.
`PROJECT.json` lists them one by one with the line where each bites.

What makes each component correct.
- `Table`: `last_seq` is its highest sequence; a committed version is not overwritten.
- Compaction: a pinned reader and a reader of the newest state see no difference, and a
  pinned reader cannot tell a commit by `compact` from one by `apply`.
- `Snapshot`: what it reads never changes.
- `View`: reads include staged changes; `get` and `range` agree; a
  `fetch_and_set` returns the value it replaces; a commit publishes exactly
  what the view read.
- Stream of a range, of a view or of levels: drained without an error it is the range
  at the call; an error reaches the consumer and nothing else is lost.
- `MatchSeq`: `Exact` is a compare-and-swap, `Exact(0)` and `GE(1)` tell whether a
  record exists; the published changes replay to the table.
- All: the assertions hold.
- Levels: `compacted_get`, `compacted_range` and a plain map agree; no deleted value
  comes back from a lower level.

## 2. Modules

| Module | Models | How |
|---|---|---|
| `SeqMarked` | `seq_marked` as the crate uses it | records `[seq, mark, data]`, their order |
| `MapKey` | `MapKey` | the keys, a constant |
| `Table` | `Table`, results of `range` and `compact` | operators on `[inner, last_seq]`; `inner[k]` is the set of versions of `k` |
| `RangeIter` | `Table::range`, `RangeIter::next` | bounds on positions [key, order key], a cursor that takes the entries one by one |
| `Coalesce` | `Table::compact`, `Coalesce` | the merged entries, coalesced pair by pair |
| `StreamMerge` | `by_key_seq`, `merge_kv_results`, `stream_more` | operators on queues of Ok and Err items |
| `View` | `View` | operators on view records; the base table is an argument, since it moves under the view |
| `Mvcc` | a store that shares one table among snapshots and views | the state machine; one action for each call |
| `SnapshotMap` | what the module documentation promises | an abstract map with frozen copies and private transactions |
| `MvccIsolation` | – | `Mvcc` mapped to `SnapshotMap` |
| `RangeStream` | `View::range` and its consumer | the state machine of one stream, from the call to its end |
| `SeqValue`, `MatchSeq` | `SeqV` as the crate uses it, `Change`; `MatchSeq`, `ConflictSeq` | operators |
| `Conditional` | a store of conditional updates over a `View` | the state machine; counters as wide as `MaxU64` |
| `Level` | `Level`, `Immutable`, `compacted_get`, `compacted_range` | operators |
| `Levels` | a stack of levels with a background merge | the state machine |
| `LevelStream` | the stream of `compacted_range` and its consumer | the state machine of one stream over any number of levels |
| `TestKit`, `TableTests`, `ViewTests`, `LevelTests`, `UtilTests`, `Conformance` | the unit tests and the example | each test as a sequence of pairs <computed, expected>; `Conformance` runs them |
| `MCMvcc`, `MCLevels`, `MCStreams`, `MCLevelStream`, `MCConditional` | – | instances for TLC |
| `OrderLemmas`, `TableLemmas`, `StreamLemmas` | – | lemmas about records, tables, views, cursors, compactions and merged streams |
| `MvccProofs`, `ConditionalProofs`, `LevelsProofs`, `RangeStreamProofs`, `LevelStreamProofs` | – | the theorems |

**Mvcc.** `table` is the committed `Table`, `snapshots` the sequences of
the open read snapshots, `views[w]` the fields of `View` (`changes`, `last_seq`,
`increase_seq_for_tombstone`, the snapshot's sequence), `fetches` the
`fetch_and_set` calls suspended in their read with the value they have read.
`OpenSnapshot` and `OpenView` are `Snapshot::new` at the table's `last_seq` and
`View::new` with the two builder calls; `Set` is `set` and
`set_without_seq_increment`; `FetchRead`, `FetchWrite` and `FetchFails` are the
two halves and the early return of `fetch_and_set` (it borrows its view
mutably, so the view takes no other call meanwhile: `Idle`); `CommitApplied`,
`CommitCompacted` and `CommitPanics` are `into_parts` followed by `apply`, by
`compact`, or by a failed assertion; `CompactTable` is `compact` with an empty
table; `Reload` is `from_stream` over the newest entries after a restart.
Reads change no state: they are the operators `Get`, `RangeUpto`, `ViewGet` and
`ViewRange`, which the properties compare at every state and across every step.

**RangeStream.** One view over one snapshot, started from any of the instance's
base tables and staged contents. `Open` is the call: it collects both sources
(`Collect`: the translated bounds, then `Advance` once for each entry) or panics on
its bounds; `Refuse` is the base reader's immediate error. `Take` is one poll of the
merged stream: a head goes that `by_key_seq` puts strictly behind no other, as a heap
pops it (`GoesFirst`), and the coalescing takes it over (`held`, `GivenOut`). Where
`by_key_seq` puts two heads before each other, an error and anything or two equal
tombstones, either may go, since that is up to `stream_more`'s heap. Some head always
goes, in `stream_more` and here. `Panic` is the
assertion, `Finish` the end. `Fail` puts an `Err` item at the head of the base
reader's stream, after which that stream goes on, skips records or ends: the trait
promises nothing more. `Write` is a `set` of the owner: the stream is `'static` and
does not borrow the view.

**Conditional.** `table` is committed, `view` the view of the open batch, `staged` and
`log` the changes of the batch and those published. `Upsert` reads through the view,
checks the `MatchSeq` and stages (`fetch_and_set`); `Commit` applies the batch and
publishes its changes; `CommitPanics` is the failed assertion; `Discard` loses the
batch; `CompactTable` and `Reload` are as in `Mvcc`. The counter is `% (MaxU64 + 1)`;
`overflow_checks` is chosen once, as a build does: with them the addition panics,
without them it wraps, and `insert().unwrap()` may then refuse the sequence
(`WritePanics`). The batch does not survive a panic. A wrapped batch still reads its
own writes, under reused numbers (`Wrapped`), but the assertion of `apply` stops its
commit. `compact` has no such assertion: a store that commits by `compact` alone is not
part of this module.

**Levels.** `top` is the writable `Level` (counter and entries), `immutables` the
`Immutable`s and `persisted` the levels on disk, newest first. `Set` is
`Level::set`, `Freeze` wraps the top in an `Immutable` and makes a `new_level`;
`StartMerge`, `FinishMerge` and `MergeFails` are a background merge that writes
what `compacted_range` yields for the oldest levels (without a top level, with or
without the persisted ones) to a persisted level. The crate has the levels and the
reads; freezing and merging are the store's, modelled from the arguments the reads
take. `new_level` is what makes levels go on counting. It is visible to the crate's
tests only; a store with level types of its own must do the same.

**LevelStream.** `levels` are the entries of the levels `compacted_range` is called with, the
top one first, `queues[i]` what the stream of level `i` has left, `held` and `yielded` as in
`RangeStream`. `Open` is the call; `Refuse` the error of one of its `range` calls; `Take`, `Panic`
and `Finish` are polls of the merged stream; `Fail` puts an `Err` item into the stream of a level,
as the persisted ones may. The heap of `KMerge` orders any number of heads as long as
`by_key_seq` does. An `Err` item in it is before and after everything, which is no order: then
and later any head may go (`MayGo`), an over-approximation of what a heap can do. In
`RangeStream`, with two heads, that case is exact.

**Conformance.** The tests of the repository say what the code computes on given
inputs; the same inputs are given to the operators of the models. Keys are numbers in
the order of a test's strings, values are its strings. `AsAsserted` holds at every
assertion: a translation that strays from the code where a test looks is noticed.

Abstractions. The `BTreeMap` order is the order `Lt` on a key's versions. `Mvcc` uses
the results of ranges and compactions (`RangeUpto`, `Survivors`: walking down a key's
versions, everything after the first one at or below `min_snapshot_seq` goes);
`RangeStream` checks those results against the algorithms (`CursorIsRange`,
`CompactIsCoalesce`, `StreamIsRange`), and `LevelStream` does so for the result of
`compacted_range` that `Levels` uses. The store is environment: which
calls it makes is in the constants `TombstoneModes`, `InitialSeqs`,
`SecondaryWrites`, `CommitOver`, `CommitModes` and `EmptyCommits`, from the most
liberal ("any") to the disciplined store that the documentation describes.
`min_snapshot_seq` is always at most every sequence a reader is pinned to (a
view's base included), as the parameter's documentation demands.

The operators named "mutation of" next to a definition are deliberately wrong
variants; each shows that a property notices that mistake. No specification uses them.

## 3. Runs

Bounds are constants: in `Mvcc` `MaxSeq` (highest sequence allocated),
`MaxStaged` (versions a view stages), `MaxFetches` (suspended calls); in `Levels`
`MaxSeq` and `MaxLevels` (levels below the top); in `RangeStream` `MaxSeq` and
`MaxFailures`; in `LevelStream` each stream fails at most once; in `Conditional` `MaxBatch` and `MaxChanges`, while `MaxU64` is the end of
the counter. Sequences and staged versions are what histories are made of; with
`MaxSeq` 2 there is room for a committed version and for its overwrite or deletion, in
one view or in two, and for a snapshot before, between and after them; that longer
histories bring nothing new is what the theorems of section 5 show. Keys, writers and values
are interchangeable in `Mvcc`, `Levels` and `Conditional`, so symmetry reduction is
sound; `RangeStream` and `LevelStream` have ordered keys, and no symmetry.
`CHECK_DEADLOCK FALSE`: a store may stop when the bounds are used up, a drained stream
and the last assertion of the tests are ends.

| Run | Instance | Shows |
|---|---|---|
| `isolated` | 2 keys, 1 value, 2 views, `MaxSeq` 2, 1 fetch | with deletions that take a sequence and commits over the base: `Mvcc` implements `SnapshotMap` (`Isolation`); `SnapshotStable`, `FetchedStillCurrent`, `WriteIsRead`, `GetRangeAgree`, and no assertion fails |
| `default` | 1 key, 2 values, 2 views, `MaxSeq` 2, 1 fetch | views as `View::new` makes them, started at the snapshot or above it and committed in any order: `SnapshotOnlyDeletes`, `WriteIsRead`, `CommitPublishesView`, `VersionsImmutable` |
| `unrestricted` | 1 key, 2 values, 2 views, `MaxSeq` 1 | any use of the interface, lost updates and failed assertions included: `TypeOK`, `LastSeqIsHighest`, `LatestKept`, `CompactionUnseen` |
| `levels` | 2 keys, 2 values, `MaxSeq` 2, 3 levels below the top | `TypeOK`, `ReadsFollowWrites`, `LevelReadsAgree`, `LevelsNeverPanic` |
| `streams` | 2 keys with 4 base and 4 staged contents each, 7 ranges, 1 failure, 1 later write | `CursorIsRange`, `CompactIsCoalesce`, `StreamIsRange`, `TrustedUntilError`, `NothingLost`, `ErrorSurfaces`, `StagedKeysCome` |
| `levelstream` | 2 keys, 3 levels, 75 stacks and the empty one, 3 ranges, any of the levels fails | `StreamIsRange`, `FinalUntilFailure`, `NothingLost` |
| `cas` | 2 keys, 2 values, `MaxU64` 3, batches of 2, 4 published changes | `TypeOK`, `ExactIsCompareAndSwap`, `ReplacedOnce`, `WantsTellExistence`, `WatcherFollows`, `CounterNeverGoesBack` |
| `conformance` | the repository's tests | `AsAsserted` |
| `tombstone_reuse` | 1 key, 1 view | violation of `SnapshotStable` |
| `lost_secondary` | 1 key, 1 view | violation of `WriteIsRead` |
| `range_assertion` | 1 key, 1 view | violation of `RangeNeverPanics` |
| `compact_assertion` | 1 key, 1 view | violation of `CompactNeverPanics` |

Most properties of `Mvcc` concern one key at a time, and other keys matter to them
only through the sequences they use up, which a view can also take on the same key.
`isolated` has two keys, for the properties that relate several: `Isolation`, and
`WriteIsRead`, by which a write leaves other keys alone. `default` has two views, so that
both stage from one base and commit one after the other, where the first took no new
sequence, and two values, which tell an overwritten
version from the one before; in `isolated` versions differ by their sequences and marks. In `streams` the
contents are chosen so that a key has versions below, at and above the snapshot, equal
tombstones on both sides, and a pair that trips the assertion; the ranges include an
empty one and two that panic. Two keys suffice: the merge compares two heads, and the
held item has one neighbour. In `levelstream` three levels put three entries of one key at
the heads, with equal deletions in up to three of them and equal values in up to three,
which trip the assertion; the third level has at most one key to keep the number of
failures in flight small. In `cas` the counter reaches its end within two batches.

Fairness. Only `RangeStream` states any: weak fairness of `Drain`, the consumer's own
steps. A stream moves only when it is polled; `try_collect` and the loops over `next`
poll it until it ends. Nothing is assumed of the reader (it need not fail, nor succeed)
or of the view's owner. `Mvcc`, `Conditional` and `Levels` have no liveness property: a
store may never commit, and the crate has no scheduler, retries or queue.

What a consumer of `View::range` may rely on after an error, from `streams`. The error
reaches it (`ErrorSurfaces`), and the staged entries still come (`StagedKeysCome`). But the
stream is then no longer a range: keys may repeat, base records may be missing below
an item, and the item right before the error may be a base record whose staged
successor only comes after it. `TrustedUntilError` states what is left. The comments of
`util.rs` leave errors to the caller, and `try_collect`, which discards everything, is
the right way to handle them.

Of `compacted_range`, with any number of levels, less can be said, since an error in a heap of
three spoils the order of all: until a level fails every item is final (`FinalUntilFailure`); after
that the entries of the other levels still come, but perhaps an older one of the same
key as well, out of order (`NothingLost`).

## 4. What was found

1. `tombstone_reuse`. By default a deletion takes the last used sequence, so it is
   visible to snapshots opened before it was committed; `mvcc/mod.rs` promises
   that each transaction sees consistent data from its start. The note on
   `Table::get` knows this and `with_tombstone_seq_increment(true)` cures it:
   under that setting stability is checked and proved. `SnapshotOnlyDeletes` says
   how far the default behaviour can go: a read stays or turns into a deletion at
   the snapshot's own sequence.
2. `lost_secondary`. `set_without_seq_increment` after a deletion of the key at the
   same sequence: the tombstone sorts after the value, so the view goes on reading the
   deletion. The run does it to a key that was never written, at sequence 0.
3. `range_assertion`. `set_without_seq_increment` on a key that the base holds at
   the current sequence: `get` works, `range` panics in `by_key_seq`.
4. `compact_assertion`. Deleting a key twice at one sequence, in two commits, is
   tolerated by `by_key_seq` (its comment explains why) but makes
   `Coalesce::coalesce` panic.

Three divergences of the documentation need no run. `compact.rs:40` says that
`compacted_get` "returns the first non-tombstone entry"; it returns the first entry
that is not not-found, tombstones included, and must: skipping tombstones would
bring deleted values back (the mutation of `CompactedGet` in `Level`). `errors.rs:22` says that normal
inserts must have strictly increasing sequences, while `internal_insert` accepts
an equal one and says so. `mvcc/mod.rs:17` announces read-committed isolation and
line 29 snapshot isolation; the models are about the latter.

## 5. What is proved

Every safety property of the runs `isolated`, `default`, `unrestricted`,
`levels`, `cas`, `streams` and `levelstream` is also a theorem, for all
keys, values, writers and bounds. Where a theorem says something of stores of one kind only, that is its `ASSUME`,
and the run it generalises has that kind of store.

**Lemmas.** `OrderLemmas` has the shared facts about records and minima.
`TableLemmas` is about the operators of `Table`: a set of versions below some sequence has
a newest one; `Put`, `Extend`, `Compact` and `FromStream` keep versions unique and
`last_seq` highest (`WellFormed`); a compaction below a sequence does not change reads at
it, and no compaction or restart changes the newest entry of a key. Of views it says that a write is what the view reads next and no
other key changes in it (`StageReads`), and that a table into which a view over it has been
merged reads as the view did (`UnionReads`). `StreamLemmas` is described with the streams.

**Tables and views** (`MvccProofs`). `WellFormedInv` holds for every store, with no
assumption but the types of the constants: each table (the committed one and every
change set) is well formed, and a view's changes are not ahead of its counter. `last_seq`
being highest is what makes it inductive: without a bound on the sequences "the newest
visible version" need not exist. From it: `TypeCorrect`, `LastSeqAlwaysHighest`,
`LatestAlwaysKept` and `CompactionAlwaysUnseen`. For the last, two lemmas on any two tables: a
compaction at or below a sequence leaves reads at it alone (`CompactAloneReads`), and what
it merges reads there as what `apply` merges (`CompactReadsAsApplied`): the version a read
finds after `apply` is shadowed by none, and a second one in its place would have tripped the
assertion of `coalesce`. So the two ways to commit differ for readers only where one of
them panics.

`IsolatedInv` holds for an isolated store (`IsolatedStore`: deletions take a
sequence, views start at or above their snapshot, secondary writes reuse only
sequences of their own view, commits go over the base): every staged version is
above the view's base, every pinned sequence is at most `last_seq`, and what a
fetch has read is what its view reads. The key lemma is that no step changes a
read at a pinned sequence: a commit adds versions above every pin, a compaction's
minimum is below every pin, a restart has no pins. From it: `SnapshotsStable`,
`FetchesStayCurrent`, `ViewReadsAgree`,
`RangesNeverPanic`, and, when empty change sets are not committed
(`EmptyCommits = FALSE`), `CommitsNeverPanic` and `CompactionsNeverPanic`.

**Reads with deletions that reuse a sequence** (`MvccProofs`). A `FreshStore` is a
weaker discipline, under which deletions may reuse the current sequence, as `View::new`
has them do. Its invariant `FreshInv`: staged values are above the base, staged deletions
not below it (`OverBase`), no value is committed at sequence 0, and snapshots are not
ahead of the table. The view may now have a tombstone at the very sequence of
its base, which is what makes the reads subtle: `Newer` then has to decide between a
tombstone and a record of one sequence. From it: `WritesAreRead` (wherever views are
committed) and, for commits over the base, `VersionsNeverOverwritten`, `CommitsPublish` and
`SnapshotsOnlyDelete`. The first needs that only another tombstone has the place of a reused
one, the last two that a tombstone at the base's sequence sorts after the record it deletes.

**Refinement** (`MvccProofs`). `ImplementsSnapshotMap` is `Spec => Isolation` for an
isolated store: initial states map to initial states (`MapsInit`), and each step is a step of
`SnapshotMap` or leaves the mapped variables alone (`IsolationStep`). A write is one write to
the private copy (`StagingIsWrite`), a commit installs the copy (`CommitIsCommit`),
opening and closing are those of the map, and fetches in flight, compactions and
restarts are stutters, because they change no pinned read (`FrozenKept`, `TxnKept`) and no
newest entry (`DbKept`). The map's snapshot identifiers are `0..MaxSeq`, so the invariant
also bounds the sequences in use (`BoundInv`).

**Conditional updates** (`ConditionalProofs`). No assumption but
`ConditionalAssumption`. The invariant has three parts. `ShapeInv`: table and change
set are well formed, no sequence exceeds `MaxU64`, no value is committed at 0, and
`last_seq` is reached by an entry (`TopOK`). `BatchInv` says where the counter of an open batch
is: a counter can wrap only at the first change of a batch, over a table at the
maximum (`WrapsFirst`: later the staged table would refuse the smaller sequence); a wrapped
counter stays below the number of changes staged, hence below the base, so `CanApply`
refuses the batch (`WrappedRefused`). `HistoryInv` relates the changes made, published or
staged, to the records they leave: a record once replaced is older than the one now there,
no record is replaced twice, and applying the changes gives what reads return.
From it: `TypeCorrect`, `CounterNeverBack`, `WantsAreExact`, `ReplacedOnlyOnce`,
`ExactIsCompare` and `WatchersFollow`. `Replica` is a recursive function; that
it exists, and that one more change extends it, is proved by the least number for which it
would fail (`ReplicaExists`, `ReplicaGrows`).

The proof found an assumption the model had left out: `MaxBatch <= MaxU64`. A batch
of more changes than a `u64` counts could wrap its counter all the way round and commit
reused sequences, and `ExactIsCompareAndSwap` would fail. Such a batch
fits in no memory, so the bound is now assumed (`ConditionalAssumption`) instead of being
true of the checked instance by accident.

**Levels.** `LevelsProofs` proves everything the run `levels` checks, for any keys, values and bounds
and with no assumption but their types. Its invariant `StackInv` has three parts: every
level is well typed (`Typed`); the counter of the top level is at least every sequence in
the stack, and values have a sequence above 0 (`Bounded`); of one key, the entry of a
higher level is newer than that of a lower one, or it is the very same deletion
(`NewestFirst`). The last part is what the reads need and is not
inductive without the second: a write goes on top with a sequence the
counter has just passed (`SetKeeps`), a deletion with the counter's own, which may be the
sequence of a deletion below. Freezing pushes an empty level (`FreezeKeeps`). A
merge replaces adjacent levels by one that holds the greatest of their entries, so
everything above it and below it stays so (`Replaces`, `ReplacedIsSound`, `FinishKeeps`).
In such a stack the first level that has a key has its greatest entry (`FirstIsGreatest`):
hence `ReadsAlwaysAgree`, which is `compacted_get` against `compacted_range`, and
`MergesNeverPanic`. `LevelsAreOneMap` follows from the same facts
before and after a step: `WriteIsSeen`, `PushIsUnseen`, `MergeIsUnseen`.

**Streams.** `StreamLemmas` is, first, about `Table::range`. `InOrder`, the order of the `BTreeMap`,
is defined by ranks; it is the one ascending enumeration of the entries (`InOrderIs`,
`AscendingIsInOrder`). The cursor's loop is a recursive function: that it exists, and what it has
given after each number of entries (`Given`: of each key the first entry that is not too
new), is shown by the least number of entries for which it would fail (`WalkedIs`, `WalkGives`).
No order key is above `MaxValue` or below `Zero`, so the translated bounds select
just the keys inside (`BoundsSelectKeys`, `PanicsOnKeys`). Together: `CollectIs`.

`StreamLemmas` also follows `Table::compact` entry by entry. What `kmerge_by` gives is a
merge (`MergeOf`, `MergedIs`): no entry comes before one that precedes it, and only an
entry of each table can be at one place. The invariant of `coalesce` (`Kept`): held and
given out are, in order, just the entries with no newer one of their key at or below the
minimum snapshot; and once one such entry has come, the held one is at or below the minimum
too, which is why comparing neighbours is enough. Two entries at one place that
both remain meet in a comparison and trip its assertion (`CoalesceKeeps`). That is
`CoalescedIs`, and with it `CompactCoalesces`.

`RangeStreamProofs` has the invariant of the merge, in terms of what the two queues have left
and of what the consumer knows, the items yielded and the one held back. Each queue is an
ascending part of its source and errors come first in the base's (`QueuesOK`).
`TrustOK` holds until an error is known: keys ascend, no staged entry is lost,
and each item is right, except that the last may be a base record whose staged successor
is still queued. `CompleteOK` holds while no error is queued either: nothing is lost, and
each item is the merged entry of its key, or it is the last one and its other half is at
the head of the other queue (`Settled`). A step takes a staged entry (`TakeStaged`) or a base
entry or error (`TakeBase`), or an error joins the queue (`BaseFails`); the assertion of
`by_key_seq` is what makes the order of two entries of one key not matter
(`NewerCommutes`). `TrustedOK` remembers, past an error, what was right before it.
From it: `TypeCorrect`, `CursorGivesRange`, `CompactCoalesces`, `DrainedIsRange` and
`TrustHolds`, from `RangeStreamAssumption` alone: tables are finite and have one version for an order key
(as `WellFormedInv` has it of every table), and sequences fit a `u64`.

How much of the liveness is proved. `NothingEverLost` is about a second invariant, `KeptOK`: an
error met, and each staged key inside the range, is in a queue or known to the consumer. An
error leaves a queue only as its head (`ErrorStays`) and is never merged into an item
(`ErrorTaken`), and an item merged into another keeps its key (`KeysTaken`). With nothing left
in a queue, that is: they have come. What remains of `ErrorSurfaces` and `StagedKeysCome` is
that a consumer who goes on polling empties the queues, which TLC checks.

**Streams of levels** (`LevelStreamProofs`). The same for any number of levels, entries and
bounds, from `LevelStreamAssumption` alone: finitely many keys, each level with at most one
entry of a key. The invariant is about sources and queues of any number and has two parts.
`KeptOK` holds whatever fails: each queue is an ascending part of its level, each
entry of a level that has not failed is in its queue, or that entry or a newer one is known
(`Accounted`), and an error met is in a queue or known. `MergeOK` holds until a level fails: what
is known is entries of the levels in ascending order, nothing to come is before it, and of
two levels with an inadmissible pair neither has given it. The last is what makes the
result unique: the head that goes first has met, at the head of its own queue, every
other entry of its key that is still to come (`FirstIs`), so of equal entries only
deletions pass, and those are the same (`SameUnlessCollide`). With a key no longer queued
anywhere its item is the greatest entry and nothing before it is missing (`FinalIs`): hence
`ItemsAreFinal`, and at the end `DrainedIsRange` (`MergeEnds`). `NothingEverLost` is `KeptOK` read out. Together with `MergesNeverPanic` of `Levels`: a stream of a stack that set,
freeze and merge have built panics only for bounds that exclude each other.

Only model-checked: the liveness of the run `streams`, and `conformance`. Liveness under fairness is
out of the prover's reach. `AsAsserted` is about given inputs, for which evaluation is enough.

## 6. What is not modelled

Not modelled: the traits and type aliases (declarations; what their provided methods do is
part of the implementors), `Display` and `Debug` formatting, serialisation,
logging, and the conversions of `SeqV` in crate `seq_marked`. Not replayed among the
tests: those of formatting, cloning and serialisation,
`test_get_with_different_value_types` (values are opaque here), the constructors and
`Deref` of `Immutable`, and the mock of `snapshot/mod.rs` that counts calls.
