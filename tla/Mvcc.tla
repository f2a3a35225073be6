-------------------------------- MODULE Mvcc --------------------------------
(***************************************************************************)
(* The mvcc module at work: one committed Table shared by read snapshots   *)
(* and by Views that stage changes and commit them.                        *)
(*                                                                         *)
(* The crate supplies Table, Snapshot and View; which of them a store      *)
(* opens, when it commits and how it shares the table is the store's own   *)
(* code.  The constants below say what the store is assumed to do.         *)
(***************************************************************************)
EXTENDS View, FiniteSets

CONSTANTS
    Writers,           \* views that may be open at the same time
    MaxSeq,            \* bound: no sequence above it is allocated
    MaxStaged,         \* bound: versions a view stages before it ends
    MaxFetches,        \* bound: fetch_and_set calls suspended at once
    TombstoneModes,    \* values with_tombstone_seq_increment is called with
    InitialSeqs,       \* with_initial_seq: "snapshot", "from_snapshot", "any"
    SecondaryWrites,   \* when set_without_seq_increment is used: "fresh", "any"
    CommitOver,        \* the table a view commits over: "its_base", "any"
    CommitModes,       \* how a change set is merged in: "apply", "compact"
    EmptyCommits       \* whether a view that staged nothing is committed too

ASSUME StoreAssumption ==
    /\ MaxSeq \in Nat
    /\ MaxStaged \in Nat
    /\ MaxFetches \in Nat
    /\ TombstoneModes \subseteq BOOLEAN
    /\ InitialSeqs \in {"snapshot", "from_snapshot", "any"}
    /\ SecondaryWrites \in {"fresh", "any"}
    /\ CommitOver \in {"its_base", "any"}
    /\ CommitModes \subseteq {"apply", "compact"}
    /\ EmptyCommits \in BOOLEAN

VARIABLES
    table,       \* the committed table
    snapshots,   \* sequences of the open read snapshots
    open,        \* writers whose view is open
    views,       \* the view of each writer
    fetches      \* fetch_and_set calls suspended in their read

vars == <<table, snapshots, open, views, fetches>>

Closed == NewView(0, 0, FALSE)

Fetches == [writer : Writers, key : Keys, old : SeqMarkeds]

TypeOK ==
    /\ table \in Tables
    /\ snapshots \subseteq Nat
    /\ open \subseteq Writers
    /\ views \in [Writers -> Views]
    /\ fetches \subseteq Fetches

Init ==
    /\ table = NewTable
    /\ snapshots = {}
    /\ open = {}
    /\ views = [w \in Writers |-> Closed]
    /\ fetches = {}

-----------------------------------------------------------------------------
(* Snapshots.                                                              *)

\* A reader takes a snapshot of the table as it is.
OpenSnapshot ==
    /\ table.last_seq.seq \notin snapshots
    /\ snapshots' = snapshots \cup {table.last_seq.seq}
    /\ UNCHANGED <<table, open, views, fetches>>

DropSnapshot(s) ==
    /\ s \in snapshots
    /\ snapshots' = snapshots \ {s}
    /\ UNCHANGED <<table, open, views, fetches>>

-----------------------------------------------------------------------------
(* Views.  A fetch_and_set holds its view for the whole call, so a view    *)
(* with a suspended fetch takes no other call.                             *)

InitialSeq(seq) ==
    /\ InitialSeqs = "snapshot"      => seq = table.last_seq.seq
    /\ InitialSeqs = "from_snapshot" => seq >= table.last_seq.seq

OpenView(w, seq, increase) ==
    /\ w \notin open
    /\ InitialSeq(seq)
    /\ open' = open \cup {w}
    /\ views' = [views EXCEPT ![w] = NewView(table.last_seq.seq, seq, increase)]
    /\ UNCHANGED <<table, snapshots, fetches>>

Idle(w) == w \in open /\ \A f \in fetches : f.writer # w

\* "fresh": a write that reuses a sequence reuses one this view allocated, and
\* does not follow a deletion of the same key at that sequence.
SecondaryAllowed(view, k) ==
    SecondaryWrites = "fresh" =>
        /\ view.last_seq > view.snapshot_seq
        /\ NewTombstone(view.last_seq) \notin view.changes.inner[k]

Staged(view) == UNION {{<<k, m>> : m \in view.changes.inner[k]} : k \in Keys}

MayStage(view, k, value, increase) ==
    /\ Cardinality(Staged(view)) < MaxStaged
    /\ increase \/ value = NoValue \/ SecondaryAllowed(view, k)
    /\ NextSeq(view, value, increase) <= MaxSeq

Set(w, k, value, increase) ==
    /\ Idle(w)
    /\ MayStage(views[w], k, value, increase)
    /\ views' = [views EXCEPT ![w] = Stage(@, k, value, increase)]
    /\ UNCHANGED <<table, snapshots, open, fetches>>

\* fetch_and_set up to the await of its read, which the low-level reader may
\* leave suspended after it has looked at the table.
FetchRead(w, k) ==
    /\ Idle(w)
    /\ Cardinality(fetches) < MaxFetches
    /\ fetches' = fetches \cup
         {[writer |-> w, key |-> k, old |-> ViewGet(table, views[w], k)]}
    /\ UNCHANGED <<table, snapshots, open, views>>

\* The rest of the call: deleting what was not found stages nothing.
FetchWrite(f, value, increase) ==
    /\ f \in fetches
    /\ IF IsNotFound(f.old) /\ value = NoValue
         THEN UNCHANGED views
         ELSE /\ MayStage(views[f.writer], f.key, value, increase)
              /\ views' = [views EXCEPT ![f.writer] = Stage(@, f.key, value, increase)]
    /\ fetches' = fetches \ {f}
    /\ UNCHANGED <<table, snapshots, open>>

\* The read fails, or the caller drops the future: nothing is staged.
FetchFails(f) ==
    /\ f \in fetches
    /\ fetches' = fetches \ {f}
    /\ UNCHANGED <<table, snapshots, open, views>>

Close(w) ==
    /\ open' = open \ {w}
    /\ views' = [views EXCEPT ![w] = Closed]
    /\ UNCHANGED <<snapshots, fetches>>

Abort(w) ==
    /\ Idle(w)
    /\ Close(w)
    /\ UNCHANGED table

-----------------------------------------------------------------------------
(* Commits: into_parts hands the changes to the store, which merges them.  *)

MayCommit(w) ==
    /\ Idle(w)
    /\ CommitOver = "its_base" => table.last_seq.seq = views[w].snapshot_seq
    /\ EmptyCommits \/ ~NoVersions(views[w].changes)

CommitApplied(w) ==
    /\ "apply" \in CommitModes
    /\ MayCommit(w)
    /\ CanApply(table, views[w].changes)
    /\ table' = Apply(table, views[w].changes)
    /\ Close(w)

\* Sequences reads may still be pinned to.
Pinned(writers) == snapshots \cup {views[w].snapshot_seq : w \in writers}
MinSnapshotSeq(min, writers) == \A s \in Pinned(writers) : min <= s

CommitCompacted(w, min) ==
    /\ "compact" \in CommitModes
    /\ MayCommit(w)
    /\ MinSnapshotSeq(min, open \ {w})
    /\ ~CompactPanics(views[w].changes, table, min)
    /\ table' = Compact(views[w].changes, table, min)
    /\ Close(w)

\* An assertion fails before anything is merged: the view is lost.
CommitPanics(w) ==
    /\ MayCommit(w)
    /\ \/ "apply" \in CommitModes /\ ~CanApply(table, views[w].changes)
       \/ /\ "compact" \in CommitModes
          /\ \E min \in 0..MaxSeq :
                /\ MinSnapshotSeq(min, open \ {w})
                /\ CompactPanics(views[w].changes, table, min)
    /\ Close(w)
    /\ UNCHANGED table

-----------------------------------------------------------------------------
(* Maintenance of the table.                                               *)

CompactTable(min) ==
    /\ MinSnapshotSeq(min, open)
    /\ table' = Compact(table, NewTable, min)
    /\ UNCHANGED <<snapshots, open, views, fetches>>

\* A restart: the table is rebuilt from a stream of its newest entries.
Reload ==
    /\ snapshots = {} /\ open = {}
    /\ table' = FromStream(RangeUpto(table, table.last_seq.seq))
    /\ UNCHANGED <<snapshots, open, views, fetches>>

-----------------------------------------------------------------------------
Next ==
    \/ OpenSnapshot
    \/ \E s \in snapshots : DropSnapshot(s)
    \/ \E w \in Writers :
          \/ \E seq \in 0..MaxSeq, increase \in TombstoneModes :
                OpenView(w, seq, increase)
          \/ \E k \in Keys, value \in OptionalValues, increase \in BOOLEAN :
                Set(w, k, value, increase)
          \/ \E k \in Keys : FetchRead(w, k)
          \/ Abort(w)
          \/ CommitApplied(w)
          \/ \E min \in 0..MaxSeq : CommitCompacted(w, min)
          \/ CommitPanics(w)
    \/ \E f \in fetches :
          \/ \E value \in OptionalValues, increase \in BOOLEAN :
                FetchWrite(f, value, increase)
          \/ FetchFails(f)
    \/ \E min \in 0..MaxSeq : CompactTable(min)
    \/ Reload

Spec == Init /\ [][Next]_vars

-----------------------------------------------------------------------------
(* Properties that need no assumption on the store.                        *)

AllTables == {table} \cup {views[w].changes : w \in Writers}

\* last_seq of the committed table and of every change set is the highest
\* sequence in it, reached by some version, after every write, commit,
\* compaction and reload ("Tracks the highest sequence number in this table",
\* table/mod.rs).
LastSeqIsHighest == \A t \in AllTables : Highest(t)

\* The newest entry of a key survives every step but a commit that wrote the
\* key: compaction and reload drop only what a newer version hides.
LatestKept ==
    [][\A k \in Keys :
          (\A w \in open \ open' : views[w].changes.inner[k] = {}) =>
              Get(table', k, table'.last_seq.seq) = Get(table, k, table.last_seq.seq)]_vars

\* A reader pinned to a sequence cannot tell that anything was compacted. Unless
\* a view ends, its reads are what they were; if the view was committed by
\* compact, they are what they would be had its changes been applied (merge.rs,
\* coalesce.rs).
CompactionUnseen ==
    [][/\ open' = open =>
            \A s \in Pinned(open), k \in Keys : Get(table', k, s) = Get(table, k, s)
       /\ \A w \in open \ open', min \in 0..MaxSeq : CommitCompacted(w, min) =>
            \A s \in Pinned(open'), k \in Keys :
               Get(table', k, s) = Get(Apply(table, views[w].changes), k, s)]_vars

-----------------------------------------------------------------------------
(* Isolation.                                                              *)

\* What an open snapshot reads never changes, whatever commits, compactions
\* or reloads happen meanwhile (mvcc/mod.rs, Snapshot Isolation).
SnapshotStable ==
    [][\A s \in snapshots \cap snapshots', k \in Keys :
          Get(table', k, s) = Get(table, k, s)]_vars

\* With deletions that reuse the current sequence the promise shrinks: what a
\* snapshot reads stays, or turns into a deletion at the snapshot's own
\* sequence (the note on Table::get), and then stays deleted.
SnapshotOnlyDeletes ==
    [][\A s \in snapshots \cap snapshots', k \in Keys :
          Get(table', k, s) \in {Get(table, k, s), NewTombstone(s)}]_vars

\* fetch_and_set returns as the old value what the key still holds in its view
\* when the new one is staged ("atomically", view_set.rs), although the table
\* moved while the read was suspended.
FetchedStillCurrent ==
    \A f \in fetches : ViewGet(table, views[f.writer], f.key) = f.old

\* A staged write is what its view reads next, and no other key changes
\* (mvcc/mod.rs, "Read includes staged changes").
WriteIsRead ==
    [][\A w \in Writers, k \in Keys, value \in OptionalValues, increase \in BOOLEAN :
          Set(w, k, value, increase) =>
              \A j \in Keys :
                 ViewGet(table', views'[w], j).data =
                     IF j = k THEN value ELSE ViewGet(table, views[w], j).data]_vars

\* Whoever reads the table after a commit reads what the view read before it:
\* every staged change is in, and nothing else moved.
CommitPublishesView ==
    [][\A w \in Writers, k \in Keys :
          w \in open \ open' /\ table' # table =>
              Get(table', k, table'.last_seq.seq).data = ViewGet(table, views[w], k).data]_vars

\* A committed version is never overwritten by another under the same
\* (key, sequence) ("All versions of a key remain until compaction").
VersionsImmutable ==
    [][\A k \in Keys : \A m \in table.inner[k], n \in table'.inner[k] :
          SameOrder(m, n) => m = n]_vars

-----------------------------------------------------------------------------
(* The two ways to read a view, and the assertions on the way.             *)

\* get and range of a view give one answer for every key: get takes the staged
\* entry before the base one, range the greater of the two.
GetRangeAgree ==
    \A w \in open :
        LET range == ViewRange(table, views[w])
        IN \A k \in Keys :
              ViewGet(table, views[w], k) =
                  IF k \in DOMAIN range THEN range[k] ELSE NotFound

\* by_key_seq never meets two equal entries of one key (util.rs).
RangeNeverPanics == \A w \in open : ~RangePanics(table, views[w])

\* apply_changes never meets an older change set (table/mod.rs).
ApplyNeverPanics ==
    \A w \in Writers : MayCommit(w) => CanApply(table, views[w].changes)

\* coalesce never meets two equal entries (coalesce.rs).
CompactNeverPanics ==
    \A w \in Writers, min \in 0..MaxSeq :
        MayCommit(w) /\ MinSnapshotSeq(min, open \ {w}) =>
            ~CompactPanics(views[w].changes, table, min)
=============================================================================
