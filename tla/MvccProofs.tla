----------------------------- MODULE MvccProofs -----------------------------
(***************************************************************************)
(* What holds of Mvcc for every set of keys, values and writers and every  *)
(* bound.  First, for whatever a store may do: every table stays well      *)
(* formed.  Then, for a store that allocates a sequence to deletions and   *)
(* commits a view over its base only: snapshots are stable.  Last, what    *)
(* reads return before and after a step: the newest entry of a key         *)
(* survives whatever a store does; where views start at or above their     *)
(* base and reuse only sequences they allocated, a view reads its own      *)
(* writes and a commit publishes what its view read; and a store of the    *)
(* second kind implements the snapshot-isolated map.                       *)
(***************************************************************************)
EXTENDS MvccIsolation, TableLemmas

-----------------------------------------------------------------------------
(* Any store.                                                              *)

WellFormedInv ==
    /\ WellFormed(table)
    /\ snapshots \subseteq Nat
    /\ open \subseteq Writers
    /\ views \in [Writers -> Views]
    /\ \A w \in Writers : ViewOK(views[w])
    /\ fetches \subseteq Fetches

\* The invariant holds at the start.
LEMMA WellFormedInit == Init => WellFormedInv
<1> SUFFICES ASSUME Init PROVE WellFormedInv
    OBVIOUS
<1>1. ViewOK(Closed)
    BY NewViewOK DEF Closed
<1>2. Closed \in Views
    BY <1>1 DEF ViewOK
<1> QED BY <1>1, <1>2, NewTableWellFormed DEF Init, WellFormedInv

\* Ending a view leaves the others as they were.
LEMMA CloseWellFormed ==
    ASSUME WellFormedInv, NEW w \in Writers, Close(w), WellFormed(table')
    PROVE  WellFormedInv'
<1>1. ViewOK(Closed) /\ Closed \in Views
    BY NewViewOK DEF Closed, ViewOK
<1>2. \A x \in Writers : views'[x] = IF x = w THEN Closed ELSE views[x]
    BY DEF Close, WellFormedInv
<1>3. /\ views' \in [Writers -> Views]
      /\ \A x \in Writers : ViewOK(views'[x])
    BY <1>1, <1>2 DEF Close, WellFormedInv
<1>4. /\ snapshots' \subseteq Nat /\ open' \subseteq Writers /\ fetches' \subseteq Fetches
    BY DEF Close, WellFormedInv
<1> QED BY <1>3, <1>4 DEF WellFormedInv

\* Staging in one view, whether by set or by the second half of fetch_and_set.
LEMMA StageWellFormed ==
    ASSUME WellFormedInv, NEW w \in Writers, NEW k \in Keys,
           NEW value \in OptionalValues, NEW increase \in BOOLEAN,
           views' = [views EXCEPT ![w] = Stage(@, k, value, increase)],
           UNCHANGED <<table, snapshots, open>>, fetches' \subseteq Fetches
    PROVE  WellFormedInv'
<1>1. ViewOK(views[w])
    BY DEF WellFormedInv
<1>2. ViewOK(Stage(views[w], k, value, increase))
    BY <1>1, StageOK
<1>3. Stage(views[w], k, value, increase) \in Views
    BY <1>2 DEF ViewOK
<1>4. \A x \in Writers :
        views'[x] = IF x = w THEN Stage(views[w], k, value, increase) ELSE views[x]
    BY DEF WellFormedInv
<1>5. /\ views' \in [Writers -> Views]
      /\ \A x \in Writers : ViewOK(views'[x])
    BY <1>2, <1>3, <1>4 DEF WellFormedInv
<1> QED BY <1>5 DEF WellFormedInv

\* Every step keeps every table well formed, whatever the store does.
LEMMA WellFormedStep == WellFormedInv /\ [Next]_vars => WellFormedInv'
<1> SUFFICES ASSUME WellFormedInv, [Next]_vars PROVE WellFormedInv'
    OBVIOUS
<1>0. /\ table \in Tables /\ table.last_seq.seq \in Nat
    BY DEF WellFormedInv, WellFormed, Tables, OrderKeys
<1>1. CASE OpenSnapshot
    BY <1>0, <1>1 DEF OpenSnapshot, WellFormedInv
<1>2. ASSUME NEW s \in snapshots, DropSnapshot(s) PROVE WellFormedInv'
    BY <1>2 DEF DropSnapshot, WellFormedInv
<1>3. ASSUME NEW w \in Writers, NEW seq \in 0..MaxSeq, NEW increase \in TombstoneModes,
             OpenView(w, seq, increase)
      PROVE  WellFormedInv'
  <2> DEFINE new == NewView(table.last_seq.seq, seq, increase)
  <2>1. seq \in Nat /\ increase \in BOOLEAN
      BY StoreAssumption
  <2>2. ViewOK(new) /\ new \in Views
      BY <1>0, <2>1, NewViewOK DEF ViewOK
  <2>3. \A x \in Writers : views'[x] = IF x = w THEN new ELSE views[x]
      BY <1>3 DEF OpenView, WellFormedInv
  <2> HIDE DEF new
  <2>4. /\ views' \in [Writers -> Views]
        /\ \A x \in Writers : ViewOK(views'[x])
      BY <1>3, <2>2, <2>3 DEF OpenView, WellFormedInv
  <2> QED BY <1>3, <2>4 DEF OpenView, WellFormedInv
<1>4. ASSUME NEW w \in Writers, NEW k \in Keys, NEW value \in OptionalValues,
             NEW increase \in BOOLEAN, Set(w, k, value, increase)
      PROVE  WellFormedInv'
  <2>1. fetches' \subseteq Fetches
      BY <1>4 DEF Set, WellFormedInv
  <2> QED BY <1>4, <2>1, StageWellFormed DEF Set
<1>5. ASSUME NEW w \in Writers, NEW k \in Keys, FetchRead(w, k) PROVE WellFormedInv'
  <2>1. ViewGet(table, views[w], k) \in SeqMarkeds
      BY <1>0, ViewGetType DEF WellFormedInv
  <2>2. fetches' \subseteq Fetches
      BY <1>5, <2>1 DEF FetchRead, WellFormedInv, Fetches
  <2> QED BY <1>5, <2>2 DEF FetchRead, WellFormedInv
<1>6. ASSUME NEW w \in Writers, Abort(w) PROVE WellFormedInv'
  <2>1. WellFormed(table')
      BY <1>6 DEF Abort, WellFormedInv
  <2> QED BY <1>6, <2>1, CloseWellFormed DEF Abort
<1>7. ASSUME NEW w \in Writers, CommitApplied(w) PROVE WellFormedInv'
  <2>1. WellFormed(table')
      BY <1>7, ApplyWellFormed DEF CommitApplied, WellFormedInv, ViewOK
  <2> QED BY <1>7, <2>1, CloseWellFormed DEF CommitApplied
<1>8. ASSUME NEW w \in Writers, NEW min \in 0..MaxSeq, CommitCompacted(w, min)
      PROVE  WellFormedInv'
  <2>1. min \in Nat
      OBVIOUS
  <2>2. WellFormed(table')
      BY <1>8, <2>1, CompactWellFormed DEF CommitCompacted, WellFormedInv, ViewOK
  <2> QED BY <1>8, <2>2, CloseWellFormed DEF CommitCompacted
<1>9. ASSUME NEW w \in Writers, CommitPanics(w) PROVE WellFormedInv'
  <2>1. WellFormed(table')
      BY <1>9 DEF CommitPanics, WellFormedInv
  <2> QED BY <1>9, <2>1, CloseWellFormed DEF CommitPanics
<1>10. ASSUME NEW f \in fetches, NEW value \in OptionalValues, NEW increase \in BOOLEAN,
              FetchWrite(f, value, increase)
       PROVE  WellFormedInv'
  <2>1. /\ f.writer \in Writers /\ f.key \in Keys
        /\ fetches' \subseteq Fetches
      BY <1>10 DEF FetchWrite, WellFormedInv, Fetches
  <2>2. CASE UNCHANGED views
      BY <1>10, <2>1, <2>2 DEF FetchWrite, WellFormedInv
  <2>3. CASE views' = [views EXCEPT ![f.writer] = Stage(@, f.key, value, increase)]
      BY <1>10, <2>1, <2>3, StageWellFormed DEF FetchWrite
  <2> QED BY <1>10, <2>2, <2>3 DEF FetchWrite
<1>11. ASSUME NEW f \in fetches, FetchFails(f) PROVE WellFormedInv'
    BY <1>11 DEF FetchFails, WellFormedInv
<1>12. ASSUME NEW min \in 0..MaxSeq, CompactTable(min) PROVE WellFormedInv'
  <2>1. min \in Nat /\ WellFormed(NewTable) /\ ~CompactPanics(table, NewTable, min)
      BY NewTableWellFormed DEF CompactPanics, NewTable
  <2>2. WellFormed(table')
      BY <1>12, <2>1, CompactWellFormed DEF CompactTable, WellFormedInv
  <2> QED BY <1>12, <2>2 DEF CompactTable, WellFormedInv
<1>13. CASE Reload
  <2>1. WellFormed(table')
      BY <1>13, ReloadWellFormed DEF Reload, WellFormedInv
  <2> QED BY <1>13, <2>1 DEF Reload, WellFormedInv
<1>14. CASE UNCHANGED vars
    BY <1>14 DEF vars, WellFormedInv
<1> QED BY <1>1, <1>2, <1>3, <1>4, <1>5, <1>6, <1>7, <1>8, <1>9, <1>10, <1>11, <1>12,
           <1>13, <1>14 DEF Next

\* The invariant of every behaviour.
THEOREM AlwaysWellFormed == Spec => []WellFormedInv
BY WellFormedInit, WellFormedStep, PTL DEF Spec

\* Every variable keeps its type.
THEOREM TypeCorrect == Spec => []TypeOK
<1>1. WellFormedInv => TypeOK
    BY DEF WellFormedInv, WellFormed, TypeOK
<1> QED BY <1>1, AlwaysWellFormed, PTL

\* Table::last_seq is the highest sequence in its table, for any use of the
\* crate: whatever initial sequences, write modes and commits a store chooses.
THEOREM LastSeqAlwaysHighest == Spec => []LastSeqIsHighest
<1>1. WellFormedInv => LastSeqIsHighest
    BY DEF WellFormedInv, ViewOK, WellFormed, LastSeqIsHighest, AllTables
<1> QED BY <1>1, AlwaysWellFormed, PTL

-----------------------------------------------------------------------------
(* A store that isolates its views.                                        *)

IsolatedStore ==
    /\ TombstoneModes = {TRUE}
    /\ InitialSeqs # "any"
    /\ SecondaryWrites = "fresh"
    /\ CommitOver = "its_base"

\* Everything the view staged is above its base, and will be.
AboveBase(view) ==
    /\ view.increase_seq_for_tombstone = TRUE
    /\ view.snapshot_seq <= view.last_seq
    /\ \A k \in Keys : \A m \in view.changes.inner[k] : view.snapshot_seq < m.seq

IsolatedInv ==
    /\ \A s \in snapshots : s <= table.last_seq.seq
    /\ \A w \in open : /\ AboveBase(views[w])
                       /\ views[w].snapshot_seq <= table.last_seq.seq
    /\ \A f \in fetches : f.writer \in open
    /\ \A f, g \in fetches : f.writer = g.writer => f = g
    /\ FetchedStillCurrent

\* Sequences some open snapshot or view goes on reading at.
ReadSeqs == snapshots \cup {views[w].snapshot_seq : w \in open \cap open'}

ReadsUnchanged ==
    \A s \in ReadSeqs, k \in Keys : Get(table', k, s) = Get(table, k, s)

\* Staging under the isolated store takes a sequence above the base.
LEMMA StageAboveBase ==
    ASSUME IsolatedStore, NEW view, ViewOK(view), AboveBase(view), NEW k \in Keys,
           NEW value \in OptionalValues, NEW increase \in BOOLEAN,
           MayStage(view, k, value, increase)
    PROVE  AboveBase(Stage(view, k, value, increase))
<1> DEFINE seq == NextSeq(view, value, increase)
           m == NewMarked(seq, value)
           staged == Stage(view, k, value, increase)
<1>1. /\ view \in Views /\ view.last_seq \in Nat /\ view.snapshot_seq \in Nat
      /\ view.changes \in Tables
    BY DEF ViewOK, Views
<1>2. seq \in Nat /\ view.snapshot_seq < seq /\ view.snapshot_seq <= seq
    BY <1>1 DEF NextSeq, AboveBase, MayStage, SecondaryAllowed, IsolatedStore
<1>3. m.seq = seq
    BY <1>2, NewMarkedType DEF OptionalValues
<1>4. /\ staged.last_seq = seq
      /\ staged.snapshot_seq = view.snapshot_seq
      /\ staged.increase_seq_for_tombstone = view.increase_seq_for_tombstone
      /\ staged.changes.inner = [view.changes.inner EXCEPT ![k] = Put(@, m)]
    BY <1>1 DEF Stage, Insert, Views
<1> HIDE DEF seq, m, staged
<1>5. ASSUME NEW j \in Keys, NEW x \in staged.changes.inner[j]
      PROVE  x \in view.changes.inner[j] \/ x = m
    BY <1>1, <1>4 DEF Put, Tables
<1> QED BY <1>2, <1>3, <1>4, <1>5 DEF AboveBase, staged

\* What a commit over the base merges is above everything in the table.
LEMMA CommitAboveTable ==
    ASSUME IsolatedStore, WellFormedInv, IsolatedInv, NEW w \in Writers, MayCommit(w)
    PROVE  \A k \in Keys : \A m \in views[w].changes.inner[k] :
              /\ table.last_seq.seq < m.seq
              /\ \A n \in table.inner[k] : n.seq < m.seq
<1>1. w \in open /\ table.last_seq.seq = views[w].snapshot_seq
    BY DEF MayCommit, Idle, IsolatedStore
<1>2. \A k \in Keys : \A m \in views[w].changes.inner[k] : table.last_seq.seq < m.seq
    BY <1>1 DEF IsolatedInv, AboveBase
<1>3. ASSUME NEW k \in Keys, NEW m \in views[w].changes.inner[k], NEW n \in table.inner[k]
      PROVE  n.seq < m.seq
  <2>1. m \in SeqMarkeds /\ n \in SeqMarkeds /\ table.last_seq.seq \in Nat
      BY DEF WellFormedInv, ViewOK, WellFormed, Tables, OrderKeys
  <2>2. m.seq \in Nat /\ n.seq \in Nat
      BY <2>1, SeqMarkedFields
  <2>3. n.seq <= table.last_seq.seq
      BY DEF WellFormedInv, WellFormed, Highest
  <2> QED BY <1>2, <2>1, <2>2, <2>3
<1> QED BY <1>2, <1>3

\* Sequences pinned by snapshots and views are at most the table's last.
LEMMA ReadSeqsBelow ==
    ASSUME WellFormedInv, IsolatedInv, NEW s \in ReadSeqs
    PROVE  s \in Nat /\ s <= table.last_seq.seq
BY DEF ReadSeqs, IsolatedInv, WellFormedInv, Views

\* No step changes what is read at a pinned sequence, and but for a reload with
\* nothing open no step takes the table's sequence back.
LEMMA StepReads ==
    ASSUME IsolatedStore, WellFormedInv, IsolatedInv, Next
    PROVE  /\ ReadsUnchanged
           /\ \/ table.last_seq.seq <= table'.last_seq.seq
              \/ snapshots' = {} /\ open' = {}
<1>0. /\ table.last_seq.seq \in Nat /\ table.last_seq.mark \in {0, 1}
      /\ table \in Tables /\ WellFormed(table)
      /\ \A w \in Writers : /\ WellFormed(views[w].changes)
                            /\ views[w].changes \in Tables
                            /\ views[w].changes.last_seq.seq \in Nat
                            /\ views[w].changes.last_seq.mark \in {0, 1}
    BY DEF WellFormedInv, ViewOK, WellFormed, Tables, OrderKeys, Marks, Normal, TombStone
<1>1. CASE table' = table
    BY <1>0, <1>1 DEF ReadsUnchanged
<1>2. ASSUME NEW w \in Writers, CommitApplied(w)
      PROVE  ReadsUnchanged /\ table.last_seq.seq <= table'.last_seq.seq
  <2> DEFINE changes == views[w].changes
  <2>1. /\ MayCommit(w) /\ CanApply(table, changes)
        /\ table' = Apply(table, changes)
      BY <1>2 DEF CommitApplied
  <2>2. \A k \in Keys : \A m \in changes.inner[k] : table.last_seq.seq < m.seq
      BY <2>1, CommitAboveTable
  <2>3. table'.last_seq = changes.last_seq
      BY <2>1 DEF Apply
  <2>4. table.last_seq.seq <= table'.last_seq.seq
      BY <1>0, <2>1, <2>3 DEF CanApply, Leq, Lt, SameOrder
  <2>5. ASSUME NEW s \in ReadSeqs, NEW k \in Keys PROVE Get(table', k, s) = Get(table, k, s)
    <3>1. s \in Nat /\ s <= table.last_seq.seq
        BY ReadSeqsBelow
    <3>2. changes \in Tables /\ changes.inner[k] \in SUBSET SeqMarkeds
        BY <1>0 DEF Tables
    <3>3. \A m \in changes.inner[k] : m.seq \in Nat
        BY <3>2, SeqMarkedFields
    <3>4. \A m \in changes.inner[k] : s < m.seq
        BY <1>0, <2>2, <3>1, <3>3
    <3> HIDE DEF changes
    <3> QED BY <1>0, <2>1, <3>1, <3>2, <3>4, ApplyReadsBelow
  <2> QED BY <2>4, <2>5 DEF ReadsUnchanged
<1>3. ASSUME NEW w \in Writers, NEW min \in 0..MaxSeq, CommitCompacted(w, min)
      PROVE  ReadsUnchanged /\ table.last_seq.seq <= table'.last_seq.seq
  <2> DEFINE changes == views[w].changes
  <2>1. /\ MayCommit(w) /\ MinSnapshotSeq(min, open \ {w})
        /\ table' = Compact(changes, table, min)
        /\ open' = open \ {w}
      BY <1>3 DEF CommitCompacted, Close
  <2>2. \A k \in Keys : \A m \in changes.inner[k] :
           /\ table.last_seq.seq < m.seq
           /\ \A n \in table.inner[k] : n.seq < m.seq
      BY <2>1, CommitAboveTable
  <2>3. table.last_seq.seq <= table'.last_seq.seq
    <3>1. table'.last_seq = IF Lt(table.last_seq, changes.last_seq)
                              THEN changes.last_seq ELSE table.last_seq
        BY <2>1 DEF Compact
    <3> QED BY <1>0, <3>1 DEF Lt
  <2>4. ASSUME NEW s \in ReadSeqs, NEW k \in Keys PROVE Get(table', k, s) = Get(table, k, s)
    <3>1. s \in Nat /\ s <= table.last_seq.seq
        BY ReadSeqsBelow
    <3>2. min \in Nat /\ min <= s
        BY <2>1 DEF ReadSeqs, MinSnapshotSeq, Pinned
    <3>3. changes \in Tables /\ changes.inner[k] \in SUBSET SeqMarkeds
        BY <1>0 DEF Tables
    <3>4. \A m \in changes.inner[k] : m.seq \in Nat
        BY <3>3, SeqMarkedFields
    <3>5. \A m \in changes.inner[k] : s < m.seq
        BY <1>0, <2>2, <3>1, <3>4
    <3>6. Unique(changes) /\ Unique(table)
        BY <1>0 DEF WellFormed
    <3> HIDE DEF changes
    <3> QED BY <1>0, <2>1, <2>2, <3>1, <3>2, <3>3, <3>5, <3>6, CompactReadsBelow
  <2> QED BY <2>3, <2>4 DEF ReadsUnchanged
<1>4. ASSUME NEW min \in 0..MaxSeq, CompactTable(min)
      PROVE  ReadsUnchanged /\ table.last_seq.seq <= table'.last_seq.seq
  <2>1. table' = Compact(table, NewTable, min) /\ MinSnapshotSeq(min, open)
      BY <1>4 DEF CompactTable
  <2>2. table.last_seq.seq <= table'.last_seq.seq
    <3>1. table'.last_seq = IF Lt(Zero, table.last_seq) THEN table.last_seq ELSE Zero
        BY <2>1 DEF Compact, NewTable
    <3> QED BY <1>0, <3>1 DEF Lt, Zero, Normal
  <2>3. ASSUME NEW s \in ReadSeqs, NEW k \in Keys PROVE Get(table', k, s) = Get(table, k, s)
    <3>1. s \in Nat
        BY ReadSeqsBelow
    <3>2. min \in Nat /\ min <= s
        BY <2>1 DEF ReadSeqs, MinSnapshotSeq, Pinned
    <3>3. Unique(table)
        BY <1>0 DEF WellFormed
    <3> QED BY <1>0, <2>1, <3>1, <3>2, <3>3, CompactAloneReads
  <2> QED BY <2>2, <2>3 DEF ReadsUnchanged
<1>5. CASE Reload
  <2>1. snapshots = {} /\ open = {} /\ snapshots' = {} /\ open' = {}
      BY <1>5 DEF Reload
  <2> QED BY <2>1 DEF ReadsUnchanged, ReadSeqs
<1>6. \/ table' = table
      \/ \E w \in Writers : CommitApplied(w)
      \/ \E w \in Writers, min \in 0..MaxSeq : CommitCompacted(w, min)
      \/ \E min \in 0..MaxSeq : CompactTable(min)
      \/ Reload
    BY DEF Next, OpenSnapshot, DropSnapshot, OpenView, Set, FetchRead, FetchWrite,
           FetchFails, Abort, CommitPanics
<1> QED BY <1>1, <1>2, <1>3, <1>4, <1>5, <1>6

\* What the isolation invariant needs of a step that ends at most one view and
\* changes no other, and starts no fetch.
LEMMA KeepIsolated ==
    ASSUME WellFormedInv, IsolatedInv, WellFormedInv', ReadsUnchanged,
           open' \subseteq open, fetches' \subseteq fetches,
           \A w \in open' : views'[w] = views[w],
           \A f \in fetches' : f.writer \in open',
           \A s \in snapshots' : s <= table'.last_seq.seq,
           table.last_seq.seq <= table'.last_seq.seq
    PROVE  IsolatedInv'
<1>1. ASSUME NEW w \in open'
      PROVE  AboveBase(views'[w]) /\ views'[w].snapshot_seq <= table'.last_seq.seq
  <2>1. /\ views'[w] = views[w] /\ w \in open /\ w \in Writers
        /\ AboveBase(views[w]) /\ views[w].snapshot_seq <= table.last_seq.seq
      BY DEF IsolatedInv, WellFormedInv
  <2>2. /\ views[w].snapshot_seq \in Nat
        /\ table.last_seq.seq \in Nat /\ table'.last_seq.seq \in Nat
      BY <2>1 DEF WellFormedInv, Views, WellFormed, Tables, OrderKeys
  <2> QED BY <2>1, <2>2
<1>2. ASSUME NEW f \in fetches'
      PROVE  ViewGet(table', views'[f.writer], f.key) = f.old
  <2>1. /\ f \in fetches /\ f.writer \in open \cap open' /\ f.key \in Keys
        /\ views'[f.writer] = views[f.writer]
        /\ ViewGet(table, views[f.writer], f.key) = f.old
      BY DEF IsolatedInv, WellFormedInv, Fetches, FetchedStillCurrent
  <2>2. views[f.writer].snapshot_seq \in ReadSeqs
      BY <2>1 DEF ReadSeqs
  <2>3. Get(table', f.key, views[f.writer].snapshot_seq)
          = Get(table, f.key, views[f.writer].snapshot_seq)
      BY <2>1, <2>2 DEF ReadsUnchanged
  <2> QED BY <2>1, <2>3 DEF ViewGet
<1>3. \A f, g \in fetches' : f.writer = g.writer => f = g
    BY DEF IsolatedInv
<1> QED BY <1>1, <1>2, <1>3 DEF IsolatedInv, FetchedStillCurrent

\* What it needs of a step that stages in a view without a pending fetch.
LEMMA StageIsolated ==
    ASSUME IsolatedStore, WellFormedInv, IsolatedInv, NEW w \in open, NEW k \in Keys,
           NEW value \in OptionalValues, NEW increase \in BOOLEAN,
           MayStage(views[w], k, value, increase),
           views' = [views EXCEPT ![w] = Stage(@, k, value, increase)],
           UNCHANGED <<table, snapshots, open>>,
           fetches' \subseteq fetches, \A f \in fetches' : f.writer # w
    PROVE  IsolatedInv'
<1> DEFINE staged == Stage(views[w], k, value, increase)
<1>1. /\ w \in Writers /\ ViewOK(views[w]) /\ AboveBase(views[w])
      /\ views[w].snapshot_seq <= table.last_seq.seq
    BY DEF WellFormedInv, IsolatedInv
<1>2. AboveBase(staged) /\ staged.snapshot_seq = views[w].snapshot_seq
    BY <1>1, StageAboveBase, StageOK
<1> HIDE DEF staged
<1>3. \A x \in Writers : views'[x] = IF x = w THEN staged ELSE views[x]
    BY DEF WellFormedInv, staged
<1>4. \A x \in open' : /\ AboveBase(views'[x])
                       /\ views'[x].snapshot_seq <= table'.last_seq.seq
    BY <1>1, <1>2, <1>3 DEF IsolatedInv, WellFormedInv
<1>5. ASSUME NEW f \in fetches'
      PROVE  f.writer \in open' /\ ViewGet(table', views'[f.writer], f.key) = f.old
  <2>1. f \in fetches /\ f.writer \in Writers /\ views'[f.writer] = views[f.writer]
      BY <1>3 DEF WellFormedInv, Fetches
  <2> QED BY <2>1 DEF IsolatedInv, FetchedStillCurrent
<1> QED BY <1>4, <1>5 DEF IsolatedInv, FetchedStillCurrent

\* The isolation invariant at the start.
LEMMA IsolatedInit == Init => IsolatedInv
BY DEF Init, IsolatedInv, FetchedStillCurrent

\* Every step of an isolating store keeps the isolation invariant.
LEMMA IsolatedStep ==
    ASSUME IsolatedStore
    PROVE  WellFormedInv /\ IsolatedInv /\ [Next]_vars => IsolatedInv'
<1> SUFFICES ASSUME WellFormedInv, IsolatedInv, [Next]_vars PROVE IsolatedInv'
    OBVIOUS
<1>0. /\ WellFormedInv'
      /\ table.last_seq.seq \in Nat /\ table'.last_seq.seq \in Nat
  <2>1. WellFormedInv'
      BY WellFormedStep
  <2> QED BY <2>1 DEF WellFormedInv, WellFormed, Tables, OrderKeys
<1>1. ASSUME OpenSnapshot \/ \E s \in snapshots : DropSnapshot(s) PROVE IsolatedInv'
    BY <1>0, <1>1 DEF OpenSnapshot, DropSnapshot, IsolatedInv, FetchedStillCurrent
<1>2. ASSUME NEW w \in Writers, NEW seq \in 0..MaxSeq, NEW increase \in TombstoneModes,
             OpenView(w, seq, increase)
      PROVE  IsolatedInv'
  <2> DEFINE new == NewView(table.last_seq.seq, seq, increase)
  <2>1. /\ InitialSeq(seq) /\ w \notin open /\ open' = open \cup {w}
        /\ views' = [views EXCEPT ![w] = new]
        /\ UNCHANGED <<table, snapshots, fetches>>
      BY <1>2 DEF OpenView
  <2>2. table.last_seq.seq <= seq
    <3>1. InitialSeqs = "snapshot" \/ InitialSeqs = "from_snapshot"
        BY StoreAssumption DEF IsolatedStore
    <3> QED BY <1>0, <2>1, <3>1 DEF InitialSeq
  <2>3. AboveBase(new) /\ new.snapshot_seq = table.last_seq.seq
      BY <2>2 DEF AboveBase, NewView, NewTable, IsolatedStore
  <2> HIDE DEF new
  <2>4. \A x \in Writers : views'[x] = IF x = w THEN new ELSE views[x]
      BY <2>1 DEF WellFormedInv
  <2>5. \A x \in open' : /\ AboveBase(views'[x])
                         /\ views'[x].snapshot_seq <= table'.last_seq.seq
      BY <1>0, <2>1, <2>3, <2>4 DEF IsolatedInv, WellFormedInv
  <2>6. ASSUME NEW f \in fetches'
        PROVE  f.writer \in open' /\ ViewGet(table', views'[f.writer], f.key) = f.old
    <3>1. f \in fetches /\ f.writer \in open /\ f.writer # w /\ f.writer \in Writers
        BY <2>1 DEF IsolatedInv, WellFormedInv
    <3> QED BY <2>1, <2>4, <3>1 DEF IsolatedInv, FetchedStillCurrent
  <2> QED BY <2>1, <2>5, <2>6 DEF IsolatedInv, FetchedStillCurrent
<1>3. ASSUME NEW w \in Writers, NEW k \in Keys, NEW value \in OptionalValues,
             NEW increase \in BOOLEAN, Set(w, k, value, increase)
      PROVE  IsolatedInv'
    BY <1>3, StageIsolated DEF Set, Idle
<1>4. ASSUME NEW w \in Writers, NEW k \in Keys, FetchRead(w, k) PROVE IsolatedInv'
    BY <1>4 DEF FetchRead, Idle, IsolatedInv, FetchedStillCurrent
<1>5. ASSUME NEW w \in Writers, Idle(w), Close(w), ReadsUnchanged,
             table.last_seq.seq <= table'.last_seq.seq
      PROVE  IsolatedInv'
  <2>1. /\ open' = open \ {w} /\ snapshots' = snapshots /\ fetches' = fetches
        /\ \A x \in open' : views'[x] = views[x]
      BY <1>5 DEF Close, WellFormedInv
  <2>2. \A f \in fetches' : f.writer \in open'
      BY <1>5, <2>1 DEF Idle, IsolatedInv
  <2>3. \A s \in snapshots' : s <= table'.last_seq.seq
      BY <1>0, <1>5, <2>1 DEF IsolatedInv, WellFormedInv
  <2> QED BY <1>0, <1>5, <2>1, <2>2, <2>3, KeepIsolated
<1>6. ASSUME NEW w \in Writers, Abort(w) \/ CommitPanics(w) PROVE IsolatedInv'
  <2>1. Idle(w) /\ Close(w) /\ table' = table
      BY <1>6 DEF Abort, CommitPanics, MayCommit
  <2>2. ReadsUnchanged /\ table.last_seq.seq <= table'.last_seq.seq
      BY <1>0, <2>1 DEF ReadsUnchanged
  <2> QED BY <1>5, <2>1, <2>2
<1>7. ASSUME NEW w \in Writers,
             CommitApplied(w) \/ \E min \in 0..MaxSeq : CommitCompacted(w, min)
      PROVE  IsolatedInv'
  <2>1. Idle(w) /\ Close(w) /\ Next
      BY <1>7 DEF CommitApplied, CommitCompacted, MayCommit, Next
  <2>2. w \in open /\ open' = open \ {w} /\ snapshots' = snapshots
      BY <2>1 DEF Idle, Close
  <2>3. ReadsUnchanged
      BY <2>1, StepReads
  <2>4. CASE table.last_seq.seq <= table'.last_seq.seq
      BY <1>5, <2>1, <2>3, <2>4
  <2>5. CASE snapshots' = {} /\ open' = {}
    <3>1. \A f \in fetches' : FALSE
        BY <2>1, <2>2, <2>5 DEF Close, Idle, IsolatedInv
    <3> QED BY <2>5, <3>1 DEF IsolatedInv, FetchedStillCurrent
  <2> QED BY <2>1, <2>4, <2>5, StepReads
<1>8. ASSUME NEW f \in fetches, NEW value \in OptionalValues, NEW increase \in BOOLEAN,
             FetchWrite(f, value, increase)
      PROVE  IsolatedInv'
  <2>1. /\ f.writer \in open /\ f.key \in Keys
        /\ \A g \in fetches' : g \in fetches /\ g.writer # f.writer
      BY <1>8 DEF FetchWrite, IsolatedInv, WellFormedInv, Fetches
  <2>2. CASE UNCHANGED views
      BY <1>8, <2>1, <2>2 DEF FetchWrite, IsolatedInv, FetchedStillCurrent
  <2>3. CASE /\ MayStage(views[f.writer], f.key, value, increase)
             /\ views' = [views EXCEPT ![f.writer] = Stage(@, f.key, value, increase)]
    <3>1. UNCHANGED <<table, snapshots, open>> /\ fetches' \subseteq fetches
        BY <1>8 DEF FetchWrite
    <3>2. PICK w \in open : w = f.writer
        BY <2>1
    <3>3. /\ MayStage(views[w], f.key, value, increase)
          /\ views' = [views EXCEPT ![w] = Stage(@, f.key, value, increase)]
          /\ \A g \in fetches' : g.writer # w
        BY <2>1, <2>3, <3>2
    <3>4. f.key \in Keys
        BY <2>1
    <3> QED BY <3>1, <3>3, <3>4, StageIsolated
  <2> QED BY <1>8, <2>2, <2>3 DEF FetchWrite
<1>9. ASSUME NEW f \in fetches, FetchFails(f) PROVE IsolatedInv'
    BY <1>9 DEF FetchFails, IsolatedInv, FetchedStillCurrent
<1>10. ASSUME (\E min \in 0..MaxSeq : CompactTable(min)) \/ Reload PROVE IsolatedInv'
  <2>1. Next /\ UNCHANGED <<snapshots, open, views, fetches>>
      BY <1>10 DEF Next, CompactTable, Reload
  <2>2. ReadsUnchanged
      BY <2>1, StepReads
  <2>3. CASE table.last_seq.seq <= table'.last_seq.seq
    <3>1. \A s \in snapshots' : s <= table'.last_seq.seq
        BY <1>0, <2>1, <2>3 DEF IsolatedInv, WellFormedInv
    <3>2. \A g \in fetches' : g.writer \in open'
        BY <2>1 DEF IsolatedInv
    <3> QED BY <1>0, <2>1, <2>2, <2>3, <3>1, <3>2, KeepIsolated
  <2>4. CASE snapshots' = {} /\ open' = {}
    <3>1. \A f \in fetches' : FALSE
        BY <2>1, <2>4 DEF IsolatedInv
    <3> QED BY <2>4, <3>1 DEF IsolatedInv, FetchedStillCurrent
  <2> QED BY <2>1, <2>3, <2>4, StepReads
<1>11. CASE UNCHANGED vars
    BY <1>11 DEF vars, IsolatedInv, FetchedStillCurrent
<1> QED BY <1>1, <1>2, <1>3, <1>4, <1>6, <1>7, <1>8, <1>9, <1>10, <1>11 DEF Next

\* Both invariants of every behaviour of an isolating store.
LEMMA AlwaysIsolated ==
    ASSUME IsolatedStore
    PROVE  Spec => [](WellFormedInv /\ IsolatedInv)
<1>1. WellFormedInv /\ IsolatedInv /\ [Next]_vars => IsolatedInv'
    BY IsolatedStep
<1> QED BY <1>1, WellFormedInit, WellFormedStep, IsolatedInit, PTL DEF Spec

\* What an open snapshot reads never changes while the store commits, compacts
\* and reloads, if it gives deletions a sequence of their own, starts views at
\* or above their base, reuses only sequences the view allocated, and commits a
\* view over its base only.
THEOREM SnapshotsStable ==
    ASSUME IsolatedStore
    PROVE  Spec => SnapshotStable
<1>1. WellFormedInv /\ IsolatedInv /\ [Next]_vars =>
        [\A s \in snapshots \cap snapshots', k \in Keys :
            Get(table', k, s) = Get(table, k, s)]_vars
    BY StepReads DEF ReadsUnchanged, ReadSeqs
<1> QED BY <1>1, AlwaysIsolated, PTL DEF SnapshotStable, Spec

\* fetch_and_set returns, as the old value, what the key holds when the new
\* value is staged, however long its read was suspended.
THEOREM FetchesStayCurrent ==
    ASSUME IsolatedStore
    PROVE  Spec => []FetchedStillCurrent
<1>1. IsolatedInv => FetchedStillCurrent
    BY DEF IsolatedInv
<1> QED BY <1>1, AlwaysIsolated, PTL

\* No commit of an isolating store trips the assertion in apply_changes or the
\* one in coalesce.
THEOREM CommitsNeverPanic ==
    ASSUME IsolatedStore, EmptyCommits = FALSE
    PROVE  Spec => [](ApplyNeverPanics /\ CompactNeverPanics)
<1>1. ASSUME WellFormedInv, IsolatedInv, NEW w \in Writers, MayCommit(w)
      PROVE  CanApply(table, views[w].changes)
  <2>1. ~NoVersions(views[w].changes) /\ Highest(views[w].changes)
      BY <1>1 DEF MayCommit, WellFormedInv, ViewOK, WellFormed
  <2>2. PICK k \in Keys : \E m \in views[w].changes.inner[k] :
                              m.seq = views[w].changes.last_seq.seq
      BY <2>1 DEF Highest
  <2>3. table.last_seq.seq < views[w].changes.last_seq.seq
      BY <1>1, <2>2, CommitAboveTable
  <2> QED BY <2>3 DEF CanApply, Leq, Lt
<1>2. ASSUME WellFormedInv, IsolatedInv, NEW w \in Writers, MayCommit(w), NEW min \in 0..MaxSeq
      PROVE  ~CompactPanics(views[w].changes, table, min)
  <2>1. ASSUME NEW k \in Keys, NEW m \in views[w].changes.inner[k], NEW n \in table.inner[k]
        PROVE  ~SameOrder(m, n)
    <3>1. n.seq < m.seq
        BY <1>2, CommitAboveTable
    <3>2. n \in SeqMarkeds /\ m \in SeqMarkeds
        BY <1>2 DEF WellFormedInv, ViewOK, WellFormed, Tables
    <3>3. n.seq \in Nat /\ m.seq \in Nat
        BY <3>2, SeqMarkedFields
    <3> QED BY <3>1, <3>3 DEF SameOrder
  <2> QED BY <2>1 DEF CompactPanics
<1>3. WellFormedInv /\ IsolatedInv => ApplyNeverPanics /\ CompactNeverPanics
    BY <1>1, <1>2 DEF ApplyNeverPanics, CompactNeverPanics
<1> QED BY <1>3, AlwaysIsolated, PTL

\* Merging a view into the table with compact never trips the assertion of
\* Coalesce, whatever the minimum snapshot.
THEOREM CompactionsNeverPanic ==
    ASSUME IsolatedStore, EmptyCommits = FALSE
    PROVE  Spec => []CompactNeverPanics
<1>1. Spec => [](ApplyNeverPanics /\ CompactNeverPanics)
    BY CommitsNeverPanic
<1> QED BY <1>1, PTL

\* A staged entry of a view is newer than the base entry of its key, so range,
\* which takes the newer, answers like get, which takes the staged one; and the
\* merge never meets two equal entries.
LEMMA StagedOverBase ==
    ASSUME NEW t \in Tables, NEW view, ViewOK(view), AboveBase(view)
    PROVE  /\ ~RangePanics(t, view)
           /\ \A k \in Keys :
                ViewGet(t, view, k) = LET range == ViewRange(t, view)
                                      IN IF k \in DOMAIN range THEN range[k] ELSE NotFound
<1> DEFINE base == RangeUpto(t, view.snapshot_seq)
           updates == RangeUpto(view.changes, view.last_seq)
           range == ViewRange(t, view)
<1>0. /\ view.changes \in Tables /\ view.snapshot_seq \in Nat /\ view.last_seq \in Nat
      /\ \A k \in Keys : /\ t.inner[k] \in SUBSET SeqMarkeds
                         /\ view.changes.inner[k] \in SUBSET SeqMarkeds
    BY DEF ViewOK, Views, Tables
<1>1. /\ DOMAIN base = {k \in Keys : Visible(t.inner[k], view.snapshot_seq) # {}}
      /\ DOMAIN updates = {k \in Keys : Visible(view.changes.inner[k], view.last_seq) # {}}
      /\ \A k \in DOMAIN base : base[k] = Newest(Visible(t.inner[k], view.snapshot_seq))
      /\ \A k \in DOMAIN updates :
           updates[k] = Newest(Visible(view.changes.inner[k], view.last_seq))
    BY DEF RangeUpto
<1>2. /\ DOMAIN range = DOMAIN base \cup DOMAIN updates
      /\ \A k \in DOMAIN range :
           range[k] = IF k \notin DOMAIN updates THEN base[k]
                      ELSE IF k \notin DOMAIN base THEN updates[k]
                      ELSE Newer(base[k], updates[k])
    BY DEF ViewRange
<1> HIDE DEF base, updates, range
<1>3. ASSUME NEW k \in DOMAIN base
      PROVE  base[k] \in SeqMarkeds /\ base[k].seq \in Nat /\ base[k].seq <= view.snapshot_seq
    BY <1>0, RangeEntry DEF base
<1>4. ASSUME NEW k \in DOMAIN updates
      PROVE  updates[k] \in SeqMarkeds /\ updates[k].seq \in Nat /\ view.snapshot_seq < updates[k].seq
  <2>1. /\ k \in Keys /\ updates[k] \in view.changes.inner[k]
        /\ updates[k] \in SeqMarkeds /\ updates[k].seq \in Nat
      BY <1>0, RangeEntry DEF updates
  <2> QED BY <2>1 DEF AboveBase
<1>5. ASSUME NEW k \in DOMAIN base, k \in DOMAIN updates
      PROVE  ~SameOrder(base[k], updates[k]) /\ Newer(base[k], updates[k]) = updates[k]
  <2>1. base[k].seq < updates[k].seq
      BY <1>0, <1>3, <1>4, <1>5
  <2>2. base[k].seq # updates[k].seq
      BY <1>3, <1>4, <1>5, <2>1
  <2> QED BY <2>1, <2>2 DEF SameOrder, Newer, Leq, Lt
<1>6. ~RangePanics(t, view)
    BY <1>5 DEF RangePanics, base, updates
<1>7. ASSUME NEW k \in Keys
      PROVE  ViewGet(t, view, k) = IF k \in DOMAIN range THEN range[k] ELSE NotFound
  <2>1. /\ Get(view.changes, k, view.last_seq) =
              IF k \in DOMAIN updates THEN updates[k] ELSE NotFound
        /\ Get(t, k, view.snapshot_seq) = IF k \in DOMAIN base THEN base[k] ELSE NotFound
      BY <1>1 DEF Get
  <2>2. IsNotFound(NotFound)
      BY DEF IsNotFound, NotFound, NewTombstone
  <2>3. CASE k \in DOMAIN updates
    <3>1. ~IsNotFound(updates[k])
        BY <1>0, <1>4, <2>3 DEF IsNotFound
    <3>2. ViewGet(t, view, k) = updates[k]
        BY <2>1, <2>3, <3>1 DEF ViewGet, CompactPair
    <3> QED BY <1>2, <1>5, <2>3, <3>2
  <2>4. CASE k \notin DOMAIN updates
    <3>1. ViewGet(t, view, k) = IF k \in DOMAIN base THEN base[k] ELSE NotFound
        BY <2>1, <2>2, <2>4 DEF ViewGet, CompactPair
    <3> QED BY <1>2, <2>4, <3>1
  <2> QED BY <2>3, <2>4
<1> QED BY <1>6, <1>7 DEF range

\* get and range of an open view agree, and range never panics.
THEOREM ViewReadsAgree ==
    ASSUME IsolatedStore
    PROVE  Spec => [](GetRangeAgree /\ RangeNeverPanics)
<1>1. ASSUME WellFormedInv, IsolatedInv, NEW w \in open
      PROVE  table \in Tables /\ ViewOK(views[w]) /\ AboveBase(views[w])
    BY <1>1 DEF WellFormedInv, IsolatedInv, WellFormed
<1>2. WellFormedInv /\ IsolatedInv => GetRangeAgree /\ RangeNeverPanics
    BY <1>1, StagedOverBase DEF GetRangeAgree, RangeNeverPanics
<1> QED BY <1>2, AlwaysIsolated, PTL

\* The merge of a view's base and staged entries never trips the assertion of
\* by_key_seq.
THEOREM RangesNeverPanic ==
    ASSUME IsolatedStore
    PROVE  Spec => []RangeNeverPanics
<1>1. Spec => [](GetRangeAgree /\ RangeNeverPanics)
    BY ViewReadsAgree
<1> QED BY <1>1, PTL

-----------------------------------------------------------------------------
(* The newest entry of a key, in any store.                                *)

\* The steps that may change the table.
LEMMA TableChanges ==
    ASSUME Next
    PROVE  \/ UNCHANGED table
           \/ \E w \in Writers : CommitApplied(w)
           \/ \E w \in Writers, min \in 0..MaxSeq : CommitCompacted(w, min)
           \/ \E min \in 0..MaxSeq : CompactTable(min)
           \/ Reload
BY DEF Next, OpenSnapshot, DropSnapshot, OpenView, Set, FetchRead, FetchWrite,
       FetchFails, Abort, CommitPanics

\* The sequence of the table never goes back.
LEMMA SeqRises ==
    ASSUME WellFormedInv, [Next]_vars
    PROVE  table.last_seq.seq <= table'.last_seq.seq
<1>0. /\ table \in Tables /\ WellFormed(table) /\ table.last_seq.seq \in Nat
      /\ NewTable \in Tables
      /\ \A w \in Writers : views[w].changes \in Tables
    BY NewTableWellFormed DEF WellFormedInv, ViewOK, WellFormed, Tables, OrderKeys
<1>1. CASE UNCHANGED table
    BY <1>0, <1>1
<1>2. ASSUME NEW w \in Writers, CommitApplied(w)
      PROVE  table.last_seq.seq <= table'.last_seq.seq
    BY <1>0, <1>2, MergeSeqRises DEF CommitApplied
<1>3. ASSUME NEW w \in Writers, NEW min \in 0..MaxSeq, CommitCompacted(w, min)
      PROVE  table.last_seq.seq <= table'.last_seq.seq
    BY <1>0, <1>3, MergeSeqRises DEF CommitCompacted
<1>4. ASSUME NEW min \in 0..MaxSeq, CompactTable(min)
      PROVE  table.last_seq.seq <= table'.last_seq.seq
    BY <1>0, <1>4, MergeSeqRises DEF CompactTable
<1>5. CASE Reload
    BY <1>0, <1>5, ReloadSeq DEF Reload
<1> QED BY <1>1, <1>2, <1>3, <1>4, <1>5, TableChanges DEF vars

\* A step that ends no view with changes to a key keeps the key's newest entry.
LEMMA LatestSurvives ==
    ASSUME WellFormedInv, [Next]_vars, NEW k \in Keys,
           \A w \in open \ open' : views[w].changes.inner[k] = {}
    PROVE  Latest(table'.inner[k]) = Latest(table.inner[k])
<1>0. /\ table \in Tables /\ WellFormed(table) /\ table.last_seq.seq \in Nat
      /\ table.inner[k] \in SUBSET SeqMarkeds
      /\ \A m, n \in table.inner[k] : SameOrder(m, n) => m = n
      /\ \A m \in table.inner[k] : m.seq <= table.last_seq.seq
      /\ \A w \in Writers : views[w].changes \in Tables
    BY DEF WellFormedInv, ViewOK, WellFormed, Tables, OrderKeys, Unique, Highest
<1>1. CASE UNCHANGED table
    BY <1>1
<1>2. ASSUME NEW w \in Writers, Close(w), w \in open
      PROVE  views[w].changes.inner[k] = {}
    BY <1>2 DEF Close
<1>3. ASSUME NEW w \in Writers, CommitApplied(w)
      PROVE  Latest(table'.inner[k]) = Latest(table.inner[k])
    BY <1>0, <1>2, <1>3, ApplyUntouched DEF CommitApplied, MayCommit, Idle
<1>4. ASSUME NEW min \in 0..MaxSeq, table'.inner[k] = Survivors(table.inner[k], min)
      PROVE  Latest(table'.inner[k]) = Latest(table.inner[k])
  <2>1. min \in Nat
      OBVIOUS
  <2> QED BY <1>0, <1>4, <2>1, SurvivorsLatest
<1>5. ASSUME NEW w \in Writers, NEW min \in 0..MaxSeq, CommitCompacted(w, min)
      PROVE  Latest(table'.inner[k]) = Latest(table.inner[k])
  <2>1. views[w].changes.inner[k] = {}
      BY <1>2, <1>5 DEF CommitCompacted, MayCommit, Idle
  <2>2. table'.inner[k] = Survivors(table.inner[k], min)
      BY <1>5, <2>1 DEF CommitCompacted, Compact
  <2> QED BY <1>4, <2>2
<1>6. ASSUME NEW min \in 0..MaxSeq, CompactTable(min)
      PROVE  Latest(table'.inner[k]) = Latest(table.inner[k])
  <2>1. table'.inner[k] = Survivors(table.inner[k] \cup {}, min)
      BY <1>6 DEF CompactTable, Compact, NewTable
  <2>2. table.inner[k] \cup {} = table.inner[k]
      OBVIOUS
  <2> QED BY <1>4, <2>1, <2>2
<1>7. CASE Reload
    BY <1>0, <1>7, ReloadLatest DEF Reload
<1> QED BY <1>1, <1>3, <1>5, <1>6, <1>7, TableChanges DEF vars

\* Whatever initial sequences, write modes and commits a store chooses, a step
\* that merges no change to a key keeps what a read of the latest returns.
THEOREM LatestAlwaysKept == Spec => LatestKept
<1> DEFINE Kept == \A k \in Keys :
                     (\A w \in open \ open' : views[w].changes.inner[k] = {}) =>
                        Get(table', k, table'.last_seq.seq) = Get(table, k, table.last_seq.seq)
<1>1. ASSUME WellFormedInv, WellFormedInv', Next PROVE Kept
  <2>1. \A k \in Keys : Get(table, k, table.last_seq.seq) = Latest(table.inner[k])
    <3>1. WellFormed(table) /\ table.last_seq.seq \in Nat
        BY <1>1 DEF WellFormedInv, WellFormed, Tables, OrderKeys
    <3> QED BY <3>1, ReadLatest
  <2>2. \A k \in Keys : Get(table', k, table'.last_seq.seq) = Latest(table'.inner[k])
    <3>1. WellFormed(table') /\ table'.last_seq.seq \in Nat
        BY <1>1 DEF WellFormedInv, WellFormed, Tables, OrderKeys
    <3> QED BY <3>1, ReadLatest
  <2> QED BY <1>1, <2>1, <2>2, LatestSurvives
<1>2. WellFormedInv /\ WellFormedInv' /\ [Next]_vars => [Kept]_vars
    BY <1>1
<1> QED BY <1>2, AlwaysWellFormed, PTL DEF LatestKept, Spec

\* A step that ends no view leaves every pinned read alone.
LEMMA MaintenanceUnseen ==
    ASSUME WellFormedInv, [Next]_vars, open' = open,
           NEW s \in Pinned(open), NEW k \in Keys
    PROVE  Get(table', k, s) = Get(table, k, s)
<1>1. /\ table \in Tables /\ Unique(table) /\ open \subseteq Writers
      /\ s \in Nat
    BY DEF WellFormedInv, WellFormed, ViewOK, Views, Pinned
<1>2. CASE UNCHANGED table
    BY <1>2
<1>3. ASSUME NEW min \in 0..MaxSeq, CompactTable(min)
      PROVE  Get(table', k, s) = Get(table, k, s)
  <2>1. min \in Nat /\ min <= s
      BY <1>3 DEF CompactTable, MinSnapshotSeq
  <2> QED BY <1>1, <1>3, <2>1, CompactAloneReads DEF CompactTable
<1>4. ASSUME NEW w \in Writers, w \in open, Close(w) PROVE FALSE
    BY <1>4 DEF Close
<1>5. \A w \in Writers : ~CommitApplied(w) /\ \A min \in 0..MaxSeq : ~CommitCompacted(w, min)
    BY <1>4 DEF CommitApplied, CommitCompacted, MayCommit, Idle
<1>6. ~Reload
    BY DEF Reload, Pinned
<1> QED BY <1>2, <1>3, <1>5, <1>6, TableChanges DEF vars

\* A commit by compact reads, wherever a read stays pinned, as a commit by apply.
LEMMA CompactCommitUnseen ==
    ASSUME WellFormedInv, NEW w \in Writers, NEW min \in 0..MaxSeq, CommitCompacted(w, min),
           NEW s \in Pinned(open'), NEW k \in Keys
    PROVE  Get(table', k, s) = Get(Apply(table, views[w].changes), k, s)
<1>1. /\ table \in Tables /\ Unique(table)
      /\ views[w].changes \in Tables /\ Unique(views[w].changes)
      /\ min \in Nat
    BY DEF WellFormedInv, WellFormed, ViewOK
<1>2. open' = open \ {w} /\ open \subseteq Writers
    BY DEF CommitCompacted, Close, WellFormedInv
<1>3. s \in Nat
    BY <1>2 DEF WellFormedInv, ViewOK, Views, Pinned
<1>4. min <= s
    BY <1>2 DEF CommitCompacted, MinSnapshotSeq
<1> QED BY <1>1, <1>3, <1>4, CompactReadsAsApplied DEF CommitCompacted

\* Whatever a store chooses, no reader pinned at or above the minimum of a
\* compaction can tell what was compacted.
THEOREM CompactionAlwaysUnseen == Spec => CompactionUnseen
<1> DEFINE Unseen ==
             /\ open' = open =>
                  \A s \in Pinned(open), k \in Keys : Get(table', k, s) = Get(table, k, s)
             /\ \A w \in open \ open', min \in 0..MaxSeq : CommitCompacted(w, min) =>
                  \A s \in Pinned(open'), k \in Keys :
                     Get(table', k, s) = Get(Apply(table, views[w].changes), k, s)
<1>1. ASSUME WellFormedInv, Next PROVE Unseen
  <2>1. open \subseteq Writers
      BY <1>1 DEF WellFormedInv
  <2> QED BY <1>1, <2>1, MaintenanceUnseen, CompactCommitUnseen
<1>2. WellFormedInv /\ [Next]_vars => [Unseen]_vars
    BY <1>1
<1> QED BY <1>2, AlwaysWellFormed, PTL DEF CompactionUnseen, Spec

-----------------------------------------------------------------------------
(* A store that starts views at or above their base and, when it reuses a  *)
(* sequence, reuses one the view allocated.  Deletions may take either.    *)

FreshStore ==
    /\ InitialSeqs # "any"
    /\ SecondaryWrites = "fresh"

FreshInv ==
    /\ \A w \in Writers : OverBase(views[w])
    /\ ValuesAboveZero(table)
    /\ \A s \in snapshots : s <= table.last_seq.seq

\* The writes such a store makes.
LEMMA MayStageFresh ==
    ASSUME FreshStore, NEW view, NEW k, NEW value, NEW increase,
           MayStage(view, k, value, increase)
    PROVE  FreshWrite(view, k, value, increase)
BY DEF FreshStore, MayStage, SecondaryAllowed, FreshWrite

\* Every version a step puts into the table was in it, or in a view it commits.
LEMMA VersionsComeFrom ==
    ASSUME WellFormedInv, Next, NEW k \in Keys, NEW m \in table'.inner[k]
    PROVE  m \in table.inner[k] \/ \E w \in open : m \in views[w].changes.inner[k]
<1>0. table \in Tables
    BY DEF WellFormedInv, WellFormed
<1>1. ASSUME NEW w \in Writers, CommitApplied(w)
      PROVE  m \in table.inner[k] \/ m \in views[w].changes.inner[k]
    BY <1>1 DEF CommitApplied, Apply, Extend
<1>2. ASSUME NEW w \in Writers, NEW min \in 0..MaxSeq, CommitCompacted(w, min)
      PROVE  m \in table.inner[k] \/ m \in views[w].changes.inner[k]
    BY <1>2 DEF CommitCompacted, Compact, Survivors
<1>3. ASSUME NEW min \in 0..MaxSeq, CompactTable(min) PROVE m \in table.inner[k]
    BY <1>3 DEF CompactTable, Compact, Survivors, NewTable
<1>4. CASE Reload
  <2>1. table.last_seq.seq \in Nat
      BY <1>0 DEF Tables, OrderKeys
  <2> QED BY <1>0, <1>4, <2>1, ReloadKeeps DEF Reload
<1>5. \A w \in Writers : CommitApplied(w) => w \in open
    BY DEF CommitApplied, MayCommit, Idle
<1>6. \A w \in Writers, min \in 0..MaxSeq : CommitCompacted(w, min) => w \in open
    BY DEF CommitCompacted, MayCommit, Idle
<1> QED BY <1>1, <1>2, <1>3, <1>4, <1>5, <1>6, TableChanges

\* The invariant holds at the start.
LEMMA FreshInit == Init => FreshInv
BY DEF Init, FreshInv, OverBase, ValuesAboveZero, Closed, NewView, NewTable

\* Every step of a fresh store keeps it, wherever its views are committed.
LEMMA FreshStep ==
    ASSUME FreshStore, WellFormedInv, FreshInv, [Next]_vars
    PROVE  FreshInv'
<1>0. /\ table.last_seq.seq \in Nat /\ table'.last_seq.seq \in Nat
      /\ table.last_seq.seq <= table'.last_seq.seq
      /\ snapshots \subseteq Nat
  <2>1. WellFormedInv'
      BY WellFormedStep
  <2> QED BY <2>1, SeqRises DEF WellFormedInv, WellFormed, Tables, OrderKeys
<1>1. ValuesAboveZero(table')
  <2>1. ASSUME NEW k \in Keys, NEW m \in table'.inner[k], m.mark = Normal, Next
        PROVE  0 < m.seq
    <3>1. CASE m \in table.inner[k]
        BY <2>1, <3>1 DEF FreshInv, ValuesAboveZero
    <3>2. ASSUME NEW w \in open, m \in views[w].changes.inner[k] PROVE 0 < m.seq
      <4>1. w \in Writers /\ ViewOK(views[w]) /\ views[w].snapshot_seq \in Nat
          BY DEF WellFormedInv, ViewOK, Views
      <4>2. views[w].snapshot_seq < m.seq
          BY <2>1, <3>2, <4>1 DEF FreshInv, OverBase
      <4>3. m \in SeqMarkeds /\ m.seq \in Nat
          BY <3>2, <4>1, SeqMarkedFields DEF ViewOK, WellFormed, Tables
      <4> QED BY <4>1, <4>2, <4>3
    <3> QED BY <2>1, <3>1, <3>2, VersionsComeFrom
  <2>2. CASE UNCHANGED vars
      BY <2>2 DEF vars, FreshInv, ValuesAboveZero
  <2> QED BY <2>1, <2>2 DEF ValuesAboveZero
<1>2. \A s \in snapshots' : s <= table'.last_seq.seq
  <2>1. \A s \in snapshots' : s \in snapshots \/ s = table.last_seq.seq
      BY DEF vars, Next, OpenSnapshot, DropSnapshot, OpenView, Set, FetchRead, FetchWrite,
             FetchFails, Abort, Close, CommitApplied, CommitCompacted, CommitPanics,
             CompactTable, Reload
  <2>2. ASSUME NEW s \in snapshots' PROVE s <= table'.last_seq.seq
    <3>1. s \in snapshots => s \in Nat /\ s <= table.last_seq.seq
        BY <1>0 DEF FreshInv
    <3>2. CASE s \in snapshots
        BY <1>0, <3>1, <3>2
    <3>3. CASE s = table.last_seq.seq
        BY <1>0, <3>3
    <3> QED BY <2>1, <2>2, <3>2, <3>3
  <2> QED BY <2>2
<1>3. ASSUME NEW w \in Writers PROVE OverBase(views'[w])
  <2>0. ViewOK(views[w]) /\ OverBase(views[w]) /\ views \in [Writers -> Views]
      BY DEF WellFormedInv, FreshInv
  <2>1. ASSUME NEW base \in Nat, NEW seq \in Nat, NEW increase, base <= seq
        PROVE  OverBase(NewView(base, seq, increase))
      BY <2>1 DEF OverBase, NewView, NewTable
  <2>2. CASE UNCHANGED views
      BY <2>0, <2>2
  <2>3. ASSUME NEW v \in Writers, NEW seq \in 0..MaxSeq, NEW increase \in TombstoneModes,
               OpenView(v, seq, increase)
        PROVE  OverBase(views'[w])
    <3>1. /\ seq \in Nat /\ table.last_seq.seq <= seq
      <4>1. InitialSeqs \in {"snapshot", "from_snapshot"}
          BY StoreAssumption DEF FreshStore
      <4> QED BY <1>0, <2>3, <4>1 DEF OpenView, InitialSeq
    <3>2. OverBase(NewView(table.last_seq.seq, seq, increase))
        BY <1>0, <2>1, <3>1
    <3> QED BY <2>0, <2>3, <3>2 DEF OpenView
  <2>4. ASSUME NEW v \in Writers, NEW k \in Keys, NEW value \in OptionalValues,
               NEW increase \in BOOLEAN, MayStage(views[v], k, value, increase),
               views' = [views EXCEPT ![v] = Stage(@, k, value, increase)]
        PROVE  OverBase(views'[w])
    <3>1. OverBase(Stage(views[v], k, value, increase))
        BY <2>4, MayStageFresh, StageOverBase DEF WellFormedInv, FreshInv
    <3> QED BY <2>0, <2>4, <3>1
  <2>5. ASSUME NEW v \in Writers, Close(v) PROVE OverBase(views'[w])
    <3>1. OverBase(Closed)
        BY DEF Closed, OverBase, NewView, NewTable
    <3> QED BY <2>0, <2>5, <3>1 DEF Close
  <2>6. ASSUME NEW v \in Writers, NEW k \in Keys, NEW value \in OptionalValues,
               NEW increase \in BOOLEAN, Set(v, k, value, increase)
        PROVE  OverBase(views'[w])
      BY <2>4, <2>6 DEF Set
  <2>7. ASSUME NEW f \in fetches, NEW value \in OptionalValues, NEW increase \in BOOLEAN,
               FetchWrite(f, value, increase)
        PROVE  OverBase(views'[w])
    <3>1. f.writer \in Writers /\ f.key \in Keys
        BY DEF WellFormedInv, Fetches
    <3>2. \/ UNCHANGED views
          \/ /\ MayStage(views[f.writer], f.key, value, increase)
             /\ views' = [views EXCEPT ![f.writer] = Stage(@, f.key, value, increase)]
        BY <2>7 DEF FetchWrite
    <3> QED BY <2>2, <2>4, <3>1, <3>2
  <2>8. \/ UNCHANGED views
        \/ \E v \in Writers : Close(v)
        \/ \E v \in Writers, seq \in 0..MaxSeq, increase \in TombstoneModes :
              OpenView(v, seq, increase)
        \/ \E v \in Writers, k \in Keys, value \in OptionalValues, increase \in BOOLEAN :
              Set(v, k, value, increase)
        \/ \E f \in fetches, value \in OptionalValues, increase \in BOOLEAN :
              FetchWrite(f, value, increase)
      BY DEF vars, Next, OpenSnapshot, DropSnapshot, FetchRead, FetchFails, Abort,
             CommitApplied, CommitCompacted, CommitPanics, CompactTable, Reload
  <2> QED BY <2>2, <2>3, <2>5, <2>6, <2>7, <2>8
<1> QED BY <1>1, <1>2, <1>3 DEF FreshInv

\* Both invariants of every behaviour of a fresh store.
LEMMA AlwaysFresh ==
    ASSUME FreshStore
    PROVE  Spec => [](WellFormedInv /\ FreshInv)
<1>1. WellFormedInv /\ FreshInv /\ [Next]_vars => FreshInv'
    BY FreshStep
<1> QED BY <1>1, WellFormedInit, WellFormedStep, FreshInit, PTL DEF Spec

-----------------------------------------------------------------------------
(* Its views.                                                              *)

\* After a write, a view reads the new value under the key and what it read
\* before under the others.
LEMMA StageReadsData ==
    ASSUME NEW t \in Tables, ValuesAboveZero(t),
           NEW view, ViewOK(view), OverBase(view), NEW k \in Keys,
           NEW value \in OptionalValues, NEW increase \in BOOLEAN,
           FreshWrite(view, k, value, increase), NEW j \in Keys
    PROVE  ViewGet(t, Stage(view, k, value, increase), j).data =
              IF j = k THEN value ELSE ViewGet(t, view, j).data
<1> DEFINE staged == Stage(view, k, value, increase)
           new == NewMarked(staged.last_seq, value)
<1>1. ViewOK(staged) /\ new \in SeqMarkeds /\ new.data = value
  <2>1. ViewOK(staged)
      BY StageOK
  <2>2. staged.last_seq \in Nat
      BY <2>1 DEF ViewOK, Views
  <2>3. new \in SeqMarkeds /\ new.data = value
      BY <2>2, NewMarkedType DEF OptionalValues, NewMarked, NewTombstone, NewNormal
  <2> QED BY <2>1, <2>3
<1>2. ViewGet(t, staged, j) \in SeqMarkeds /\ ViewGet(t, view, j) \in SeqMarkeds
    BY <1>1, ViewGetType DEF ViewOK
<1>3. IF j = k THEN SameRecord(ViewGet(t, staged, j), new)
      ELSE \E m \in SeqMarkeds : /\ SameRecord(ViewGet(t, staged, j), m)
                                 /\ SameRecord(ViewGet(t, view, j), m)
    BY StageReads
<1> HIDE DEF staged, new
<1> QED BY <1>1, <1>2, <1>3, SameRecordSameData DEF staged

\* Every write of a fresh store is what its view reads next, and it changes no
\* other key, even where a deletion and a later value share a sequence.
THEOREM WritesAreRead ==
    ASSUME FreshStore
    PROVE  Spec => WriteIsRead
<1> DEFINE Read == \A w \in Writers, k \in Keys, value \in OptionalValues, increase \in BOOLEAN :
                      Set(w, k, value, increase) =>
                         \A j \in Keys :
                            ViewGet(table', views'[w], j).data =
                               IF j = k THEN value ELSE ViewGet(table, views[w], j).data
<1>1. ASSUME WellFormedInv, FreshInv PROVE Read
  <2> SUFFICES ASSUME NEW w \in Writers, NEW k \in Keys, NEW value \in OptionalValues,
                      NEW increase \in BOOLEAN, Set(w, k, value, increase), NEW j \in Keys
               PROVE  ViewGet(table', views'[w], j).data =
                         IF j = k THEN value ELSE ViewGet(table, views[w], j).data
      OBVIOUS
  <2>1. /\ table' = table /\ MayStage(views[w], k, value, increase)
        /\ views'[w] = Stage(views[w], k, value, increase)
      BY <1>1 DEF Set, WellFormedInv
  <2>2. /\ table \in Tables /\ ValuesAboveZero(table)
        /\ ViewOK(views[w]) /\ OverBase(views[w])
      BY <1>1 DEF WellFormedInv, WellFormed, FreshInv
  <2>3. FreshWrite(views[w], k, value, increase)
      BY <2>1, MayStageFresh
  <2> QED BY <2>1, <2>2, <2>3, StageReadsData
<1>2. WellFormedInv /\ FreshInv => [Read]_vars
    BY <1>1
<1> QED BY <1>2, AlwaysFresh, PTL DEF WriteIsRead, Spec

-----------------------------------------------------------------------------
(* Commits of a fresh store over the base of the view.                     *)

\* A view about to be committed, and the table it is over.
LEMMA CommittedView ==
    ASSUME CommitOver = "its_base", WellFormedInv, FreshInv, NEW w \in Writers, MayCommit(w)
    PROVE  /\ WellFormed(table) /\ ViewOK(views[w]) /\ OverBase(views[w])
           /\ ValuesAboveZero(table)
           /\ table.last_seq.seq = views[w].snapshot_seq
BY DEF WellFormedInv, FreshInv, MayCommit

\* Either way of merging leaves the versions of both sides, or those of them
\* that a compaction leaves.
LEMMA CommitIsUnion ==
    ASSUME CommitOver = "its_base", WellFormedInv, FreshInv,
           NEW w \in Writers, NEW k \in Keys
    PROVE  LET both == table.inner[k] \cup views[w].changes.inner[k]
           IN /\ CommitApplied(w) => table'.inner[k] = both
              /\ \A min \in 0..MaxSeq :
                    CommitCompacted(w, min) => table'.inner[k] = Survivors(both, min)
<1> DEFINE old == table.inner[k]
           new == views[w].changes.inner[k]
<1>1. ASSUME CommitApplied(w) PROVE table'.inner[k] = old \cup new
    BY <1>1, CommittedView, ApplyIsUnion DEF CommitApplied
<1>2. ASSUME NEW min \in 0..MaxSeq, CommitCompacted(w, min)
      PROVE  table'.inner[k] = Survivors(old \cup new, min)
  <2>1. table'.inner[k] = Survivors(new \cup old, min)
      BY <1>2 DEF CommitCompacted, Compact
  <2>2. new \cup old = old \cup new
      OBVIOUS
  <2> QED BY <2>1, <2>2
<1> QED BY <1>1, <1>2

\* After a commit the table reads as the view did before it.
LEMMA CommitPublishes ==
    ASSUME CommitOver = "its_base", WellFormedInv, FreshInv,
           NEW w \in Writers, NEW k \in Keys,
           CommitApplied(w) \/ \E min \in 0..MaxSeq : CommitCompacted(w, min)
    PROVE  Latest(table'.inner[k]).data = ViewGet(table, views[w], k).data
<1> DEFINE both == table.inner[k] \cup views[w].changes.inner[k]
<1>1. MayCommit(w)
    BY DEF CommitApplied, CommitCompacted
<1>2. /\ both \in SUBSET SeqMarkeds
      /\ \A m, n \in both : SameOrder(m, n) => m = n
      /\ \E bound \in Nat : \A m \in both : m.seq <= bound
    BY <1>1, CommittedView, StagedOverTable
<1>3. Latest(table'.inner[k]) = Latest(both)
  <2>1. CASE CommitApplied(w)
      BY <2>1, CommitIsUnion
  <2>2. ASSUME NEW min \in 0..MaxSeq, CommitCompacted(w, min)
        PROVE  Latest(table'.inner[k]) = Latest(both)
    <3>1. table'.inner[k] = Survivors(both, min)
        BY <2>2, CommitIsUnion
    <3>2. min \in Nat
        OBVIOUS
    <3> QED BY <1>2, <3>1, <3>2, SurvivorsLatest
  <2> QED BY <2>1, <2>2
<1>4. SameRecord(ViewGet(table, views[w], k), Latest(both))
    BY <1>1, CommittedView, UnionReads
<1>5. ViewGet(table, views[w], k) \in SeqMarkeds
    BY ViewGetType DEF WellFormedInv, WellFormed, ViewOK
<1>6. Latest(both) \in SeqMarkeds
  <2>1. NotFound \in SeqMarkeds
      BY DEF NotFound, NewTombstone, SeqMarkeds, Marks, TombStone
  <2>2. both # {} => Latest(both) \in both
      BY <1>2, LatestIsNewest
  <2> QED BY <1>2, <2>1, <2>2 DEF Latest
<1> QED BY <1>3, <1>4, <1>5, <1>6, SameRecordSameData

\* A fresh store that commits a view over its base installs, at once, exactly
\* what the view read: whether it applies or compacts the changes, and whether
\* deletions take a sequence of their own or reuse one.
THEOREM CommitsPublish ==
    ASSUME FreshStore, CommitOver = "its_base"
    PROVE  Spec => CommitPublishesView
<1> DEFINE Published == \A w \in Writers, k \in Keys :
              w \in open \ open' /\ table' # table =>
                 Get(table', k, table'.last_seq.seq).data = ViewGet(table, views[w], k).data
<1>1. ASSUME WellFormedInv, WellFormedInv', FreshInv, Next PROVE Published
  <2> SUFFICES ASSUME NEW w \in Writers, NEW k \in Keys, w \in open, w \notin open',
                      table' # table
               PROVE  Get(table', k, table'.last_seq.seq).data =
                         ViewGet(table, views[w], k).data
      OBVIOUS
  <2>1. Get(table', k, table'.last_seq.seq) = Latest(table'.inner[k])
    <3>1. WellFormed(table') /\ table'.last_seq.seq \in Nat
        BY <1>1 DEF WellFormedInv, WellFormed, Tables, OrderKeys
    <3> QED BY <3>1, ReadLatest
  <2>2. \A v \in Writers : Close(v) => v = w
      BY DEF Close
  <2>3. \/ \E v \in Writers : CommitApplied(v)
        \/ \E v \in Writers, min \in 0..MaxSeq : CommitCompacted(v, min)
      BY <1>1, TableChanges DEF CompactTable, Reload
  <2>4. CommitApplied(w) \/ \E min \in 0..MaxSeq : CommitCompacted(w, min)
      BY <2>2, <2>3 DEF CommitApplied, CommitCompacted
  <2> QED BY <1>1, <2>1, <2>4, CommitPublishes
<1>2. WellFormedInv /\ WellFormedInv' /\ FreshInv /\ [Next]_vars => [Published]_vars
    BY <1>1
<1> QED BY <1>2, AlwaysFresh, PTL DEF CommitPublishesView, Spec

\* A committed version is never overwritten by a commit over the base, although
\* a deletion may reuse the sequence of one: only another deletion has its order.
THEOREM VersionsNeverOverwritten ==
    ASSUME FreshStore, CommitOver = "its_base"
    PROVE  Spec => VersionsImmutable
<1> DEFINE Kept == \A k \in Keys : \A m \in table.inner[k], n \in table'.inner[k] :
                     SameOrder(m, n) => m = n
<1>1. ASSUME WellFormedInv, FreshInv, Next PROVE Kept
  <2> SUFFICES ASSUME NEW k \in Keys, NEW m \in table.inner[k], NEW n \in table'.inner[k],
                      SameOrder(m, n)
               PROVE  m = n
      OBVIOUS
  <2>0. table \in Tables /\ Unique(table)
      BY <1>1 DEF WellFormedInv, WellFormed
  <2>1. ASSUME NEW w \in Writers, MayCommit(w),
               n \in table.inner[k] \cup views[w].changes.inner[k]
        PROVE  m = n
    <3>1. \A a, b \in table.inner[k] \cup views[w].changes.inner[k] :
             SameOrder(a, b) => a = b
        BY <1>1, <2>1, CommittedView, StagedOverTable
    <3> QED BY <2>1, <3>1
  <2>2. ASSUME NEW w \in Writers, CommitApplied(w) PROVE m = n
      BY <1>1, <2>1, <2>2, CommitIsUnion DEF CommitApplied
  <2>3. ASSUME NEW w \in Writers, NEW min \in 0..MaxSeq, CommitCompacted(w, min)
        PROVE  m = n
    <3>1. MayCommit(w)
        BY <2>3 DEF CommitCompacted
    <3>2. n \in Survivors(table.inner[k] \cup views[w].changes.inner[k], min)
        BY <1>1, <2>3, CommitIsUnion
    <3>3. n \in table.inner[k] \cup views[w].changes.inner[k]
        BY <3>2 DEF Survivors
    <3> QED BY <2>1, <3>1, <3>3
  <2>4. ASSUME n \in table.inner[k] PROVE m = n
      BY <2>0, <2>4 DEF Unique
  <2>5. ASSUME NEW min \in 0..MaxSeq, CompactTable(min) PROVE n \in table.inner[k]
      BY <2>5 DEF CompactTable, Compact, Survivors, NewTable
  <2>6. CASE Reload
    <3>1. table.last_seq.seq \in Nat
        BY <2>0 DEF Tables, OrderKeys
    <3> QED BY <2>0, <2>4, <2>6, <3>1, ReloadKeeps DEF Reload
  <2> QED BY <1>1, <2>2, <2>3, <2>4, <2>5, <2>6, TableChanges
<1>2. WellFormedInv /\ FreshInv /\ [Next]_vars => [Kept]_vars
    BY <1>1
<1> QED BY <1>2, AlwaysFresh, PTL DEF VersionsImmutable, Spec

\* What a commit over the base lets a snapshot see of it: nothing, or, at the
\* snapshot's own sequence, a deletion.
LEMMA CommitSeenBySnapshot ==
    ASSUME CommitOver = "its_base", WellFormedInv, FreshInv,
           NEW w \in Writers, MayCommit(w), NEW k \in Keys,
           NEW s \in Nat, s <= table.last_seq.seq
    PROVE  LET both == table.inner[k] \cup views[w].changes.inner[k]
           IN  Latest(Visible(both, s)) \in
                  {Latest(Visible(table.inner[k], s)), NewTombstone(s)}
<1> DEFINE last == table.last_seq.seq
           old  == table.inner[k]
           new  == views[w].changes.inner[k]
           both == old \cup new
<1>1. /\ last \in Nat
      /\ old \in SUBSET SeqMarkeds /\ new \in SUBSET SeqMarkeds
      /\ \A m \in new : /\ m.seq \in Nat /\ m.mark \in {0, 1} /\ last <= m.seq
                        /\ m.mark = Normal => last < m.seq
      /\ \A m, n \in both : SameOrder(m, n) => m = n
    BY CommittedView, StagedOverTable
<1> HIDE DEF last, old, new
<1>2. CASE \A m \in new : s < m.seq
    BY <1>1, <1>2, ReadBelow DEF old, new
<1>3. ASSUME NEW m \in new, ~(s < m.seq) PROVE Latest(Visible(both, s)) = NewTombstone(s)
  <2>1. m.seq = s /\ last = s /\ m.mark = TombStone
      BY <1>1, <1>3 DEF last, Normal, TombStone
  <2>2. m = NewTombstone(s)
      BY <1>1, <2>1 DEF SeqMarkeds, NewTombstone
  <2>3. Visible(both, s) = {x \in both : x.seq <= s} /\ both \in SUBSET SeqMarkeds
      BY <1>1, VisibleIs
  <2>4. /\ Visible(both, s) \in SUBSET SeqMarkeds /\ m \in Visible(both, s)
        /\ \A a, b \in Visible(both, s) : SameOrder(a, b) => a = b
      BY <1>1, <2>1, <2>3
  <2>5. ASSUME NEW x \in Visible(both, s) PROVE Leq(x, m)
    <3>1. x.seq \in Nat /\ x.mark \in {0, 1} /\ x.seq <= s
        BY <2>3, <2>5, SeqMarkedFields
    <3> QED BY <2>1, <3>1 DEF Leq, Lt, SameOrder, TombStone
  <2>6. Newest(Visible(both, s)) = m
      BY <2>4, <2>5, NewestIs
  <2> QED BY <2>2, <2>4, <2>6 DEF Latest
<1> QED BY <1>2, <1>3 DEF old, new

\* With deletions that reuse the current sequence, all that can happen to what
\* an open snapshot reads is that it turns into a deletion at the snapshot's own
\* sequence.
THEOREM SnapshotsOnlyDelete ==
    ASSUME FreshStore, CommitOver = "its_base"
    PROVE  Spec => SnapshotOnlyDeletes
<1> DEFINE Seen == \A s \in snapshots \cap snapshots', k \in Keys :
                      Get(table', k, s) \in {Get(table, k, s), NewTombstone(s)}
<1>1. ASSUME WellFormedInv, FreshInv, Next PROVE Seen
  <2> SUFFICES ASSUME NEW s \in snapshots, s \in snapshots', NEW k \in Keys
               PROVE  Get(table', k, s) \in {Get(table, k, s), NewTombstone(s)}
      OBVIOUS
  <2>0. /\ s \in Nat /\ s <= table.last_seq.seq
        /\ WellFormed(table) /\ table \in Tables /\ Unique(table)
      BY <1>1 DEF WellFormedInv, WellFormed, FreshInv
  <2>1. /\ Get(table, k, s) = Latest(Visible(table.inner[k], s))
        /\ Get(table', k, s) = Latest(Visible(table'.inner[k], s))
      BY DEF Get, Latest
  <2>2. ASSUME NEW w \in Writers, CommitApplied(w)
        PROVE  Get(table', k, s) \in {Get(table, k, s), NewTombstone(s)}
    <3> DEFINE both == table.inner[k] \cup views[w].changes.inner[k]
    <3>1. table'.inner[k] = both /\ MayCommit(w)
        BY <1>1, <2>2, CommitIsUnion DEF CommitApplied
    <3>2. Latest(Visible(both, s)) \in {Latest(Visible(table.inner[k], s)), NewTombstone(s)}
        BY <1>1, <2>0, <3>1, CommitSeenBySnapshot
    <3> QED BY <2>1, <3>1, <3>2
  <2>3. ASSUME NEW w \in Writers, NEW min \in 0..MaxSeq, CommitCompacted(w, min)
        PROVE  Get(table', k, s) \in {Get(table, k, s), NewTombstone(s)}
    <3> DEFINE both == table.inner[k] \cup views[w].changes.inner[k]
    <3>1. table'.inner[k] = Survivors(both, min)
        BY <1>1, <2>3, CommitIsUnion
    <3>2. min \in Nat /\ min <= s /\ MayCommit(w)
        BY <2>3 DEF CommitCompacted, MinSnapshotSeq, Pinned
    <3>3. /\ both \in SUBSET SeqMarkeds
          /\ \A m, n \in both : SameOrder(m, n) => m = n
        BY <1>1, <3>2, CommittedView, StagedOverTable
    <3> HIDE DEF both
    <3>4. Latest(Visible(Survivors(both, min), s)) = Latest(Visible(both, s))
        BY <2>0, <3>2, <3>3, SurvivorsReadSame DEF Latest
    <3>5. Latest(Visible(both, s)) \in {Latest(Visible(table.inner[k], s)), NewTombstone(s)}
        BY <1>1, <2>0, <3>2, CommitSeenBySnapshot DEF both
    <3> QED BY <2>1, <3>1, <3>4, <3>5
  <2>4. ASSUME NEW min \in 0..MaxSeq, CompactTable(min)
        PROVE  Get(table', k, s) = Get(table, k, s)
    <3>1. min \in Nat /\ min <= s
        BY <2>4 DEF CompactTable, MinSnapshotSeq, Pinned
    <3> QED BY <2>0, <2>4, <3>1, CompactAloneReads DEF CompactTable
  <2>5. ~Reload
      BY DEF Reload
  <2>6. CASE UNCHANGED table
      BY <2>6
  <2> QED BY <1>1, <2>2, <2>3, <2>4, <2>5, <2>6, TableChanges
<1>2. WellFormedInv /\ FreshInv /\ [Next]_vars => [Seen]_vars
    BY <1>1
<1> QED BY <1>2, AlwaysFresh, PTL DEF SnapshotOnlyDeletes, Spec

-----------------------------------------------------------------------------
(* Refinement.  Tables, snapshots and views implement the snapshot-isolated *)
(* map, for every set of keys, values and writers, every bound and every    *)
(* store that allocates a sequence to deletions, reuses only sequences of   *)
(* the view, starts views at or above their base and commits over the base. *)

\* No sequence beyond the bound is in use.
BoundInv ==
    /\ table.last_seq.seq <= MaxSeq
    /\ \A w \in Writers : views[w].last_seq <= MaxSeq

IsolationInv == WellFormedInv /\ FreshInv /\ IsolatedInv /\ BoundInv

\* The stores of the first theorems are fresh ones.
LEMMA IsolatedIsFresh ==
    ASSUME IsolatedStore
    PROVE  FreshStore /\ CommitOver = "its_base"
BY DEF IsolatedStore, FreshStore

\* The bound holds at the start.
LEMMA BoundInit == Init => BoundInv
BY StoreAssumption DEF Init, BoundInv, Closed, NewView, NewTable, Zero

\* No step takes a sequence beyond the bound into use.
LEMMA BoundStep ==
    ASSUME WellFormedInv, BoundInv, [Next]_vars
    PROVE  BoundInv'
<1>0. /\ MaxSeq \in Nat
      /\ table \in Tables /\ WellFormed(table) /\ table.last_seq.seq \in Nat
      /\ \A w \in Writers : /\ views[w].last_seq \in Nat
                            /\ views[w].changes.last_seq.seq \in Nat
                            /\ views[w].changes.last_seq.seq <= views[w].last_seq
                            /\ views[w].changes \in Tables
      /\ views \in [Writers -> Views]
    BY StoreAssumption DEF WellFormedInv, WellFormed, ViewOK, Views, Tables, OrderKeys
<1>1. table'.last_seq.seq <= MaxSeq
  <2>1. CASE UNCHANGED table
      BY <2>1 DEF BoundInv
  <2>2. ASSUME NEW w \in Writers, CommitApplied(w) PROVE table'.last_seq.seq <= MaxSeq
    <3>1. table'.last_seq.seq = views[w].changes.last_seq.seq
        BY <2>2 DEF CommitApplied, Apply
    <3> QED BY <1>0, <3>1 DEF BoundInv
  <2>3. ASSUME NEW w \in Writers, NEW min \in 0..MaxSeq, CommitCompacted(w, min)
        PROVE  table'.last_seq.seq <= MaxSeq
    <3>1. \/ table'.last_seq.seq = views[w].changes.last_seq.seq
          \/ table'.last_seq.seq = table.last_seq.seq
        BY <2>3 DEF CommitCompacted, Compact
    <3> QED BY <1>0, <3>1 DEF BoundInv
  <2>4. ASSUME NEW min \in 0..MaxSeq, CompactTable(min) PROVE table'.last_seq.seq <= MaxSeq
    <3>1. table'.last_seq.seq = table.last_seq.seq \/ table'.last_seq.seq = 0
        BY <2>4 DEF CompactTable, Compact, NewTable, Zero
    <3> QED BY <1>0, <3>1 DEF BoundInv
  <2>5. CASE Reload
      BY <1>0, <2>5, ReloadSeq DEF Reload, BoundInv
  <2> QED BY <2>1, <2>2, <2>3, <2>4, <2>5, TableChanges DEF vars
<1>2. ASSUME NEW w \in Writers PROVE views'[w].last_seq <= MaxSeq
  <2>1. CASE UNCHANGED views
      BY <2>1 DEF BoundInv
  <2>2. ASSUME NEW v \in Writers, Close(v) PROVE views'[w].last_seq <= MaxSeq
      BY <1>0, <2>2 DEF Close, Closed, NewView, BoundInv
  <2>3. ASSUME NEW v \in Writers, NEW seq \in 0..MaxSeq, NEW increase \in TombstoneModes,
               OpenView(v, seq, increase)
        PROVE  views'[w].last_seq <= MaxSeq
    <3>1. views'[w].last_seq = seq \/ views'[w] = views[w]
        BY <1>0, <2>3 DEF OpenView, NewView
    <3> QED BY <1>0, <3>1 DEF BoundInv
  <2>4. ASSUME NEW v \in Writers, NEW k, NEW value, NEW increase,
               MayStage(views[v], k, value, increase),
               views' = [views EXCEPT ![v] = Stage(@, k, value, increase)]
        PROVE  views'[w].last_seq <= MaxSeq
    <3>1. views'[w] = IF w = v THEN Stage(views[v], k, value, increase) ELSE views[w]
        BY <1>0, <2>4
    <3>2. Stage(views[v], k, value, increase).last_seq = NextSeq(views[v], value, increase)
        BY <1>0 DEF Stage, Views
    <3> QED BY <2>4, <3>1, <3>2 DEF BoundInv, MayStage
  <2>5. ASSUME NEW f \in fetches, NEW value \in OptionalValues, NEW increase \in BOOLEAN,
               FetchWrite(f, value, increase)
        PROVE  views'[w].last_seq <= MaxSeq
    <3>1. f.writer \in Writers
        BY DEF WellFormedInv, Fetches
    <3> QED BY <2>1, <2>4, <2>5, <3>1 DEF FetchWrite
  <2>6. ASSUME NEW v \in Writers, NEW k \in Keys, NEW value \in OptionalValues,
               NEW increase \in BOOLEAN, Set(v, k, value, increase)
        PROVE  views'[w].last_seq <= MaxSeq
      BY <2>4, <2>6 DEF Set
  <2> QED
      BY <2>1, <2>2, <2>3, <2>5, <2>6
      DEF vars, Next, OpenSnapshot, DropSnapshot, FetchRead, FetchFails, Abort,
          CommitApplied, CommitCompacted, CommitPanics, CompactTable, Reload
<1> QED BY <1>1, <1>2 DEF BoundInv

\* The invariants of every behaviour of an isolating store.
LEMMA AlwaysIsolation ==
    ASSUME IsolatedStore
    PROVE  Spec => []IsolationInv
<1>1. FreshStore
    BY IsolatedIsFresh
<1>2. WellFormedInv /\ BoundInv /\ [Next]_vars => BoundInv'
    BY BoundStep
<1>3. Spec => []BoundInv
    BY <1>2, BoundInit, AlwaysWellFormed, PTL DEF Spec
<1>4. Spec => [](WellFormedInv /\ FreshInv)
    BY <1>1, AlwaysFresh
<1>5. Spec => [](WellFormedInv /\ IsolatedInv)
    BY AlwaysIsolated
<1> QED BY <1>3, <1>4, <1>5, PTL DEF IsolationInv

-----------------------------------------------------------------------------
(* What is mapped stays, where no step means to change it.                 *)

\* Before any write the map is empty.
LEMMA MapsInit == Init => Abstract!Init
<1> SUFFICES ASSUME Init PROVE Abstract!Init
    OBVIOUS
<1>1. Db = [k \in Keys |-> NoValue]
  <2>1. \A k \in Keys : Get(NewTable, k, 0).data = NoValue
    <3>1. NewTable \in Tables /\ ValuesAboveZero(NewTable)
        BY NewTableWellFormed DEF WellFormed, ValuesAboveZero, NewTable
    <3>2. \A k \in Keys : Get(NewTable, k, 0) \in SeqMarkeds
                         /\ Get(NewTable, k, 0).mark = TombStone
        BY <3>1, GetType, NothingAtZero
    <3> QED BY <3>2 DEF SeqMarkeds
  <2> QED BY <2>1 DEF Db, ReadAt, Init, NewTable, Zero
<1>2. Frozen = << >> /\ Txns = << >>
    BY DEF Init, Frozen, Txns
<1> QED BY <1>1, <1>2 DEF Abstract!Init

\* A step that keeps every read at a pinned sequence keeps the frozen copies of
\* the snapshots that stay open.
LEMMA FrozenKept ==
    ASSUME ReadsUnchanged, NEW s \in snapshots
    PROVE  ReadAt(table', s) = ReadAt(table, s)
BY DEF ReadsUnchanged, ReadSeqs, ReadAt

\* And the copies of the transactions whose views stay as they are.
LEMMA TxnKept ==
    ASSUME ReadsUnchanged, NEW w \in open, w \in open', views'[w] = views[w]
    PROVE  w \in DOMAIN Txns' /\ Txns'[w] = Txns[w]
<1>1. \A k \in Keys : Get(table', k, views[w].snapshot_seq) = Get(table, k, views[w].snapshot_seq)
    BY DEF ReadsUnchanged, ReadSeqs
<1>2. ReadAt(table', views'[w].snapshot_seq) = ReadAt(table, views[w].snapshot_seq)
    BY <1>1 DEF ReadAt
<1>3. \A k \in Keys : ViewGet(table', views'[w], k) = ViewGet(table, views[w], k)
    BY <1>1 DEF ViewGet
<1>4. Copy(views[w])' = Copy(views[w])
    BY <1>3 DEF Copy
<1> QED BY <1>2, <1>4 DEF Txns

\* The committed map is that of the latest entries, before a step and after it.
LEMMA DbIsLatest ==
    ASSUME WellFormedInv, WellFormedInv'
    PROVE  /\ Db = [k \in Keys |-> Latest(table.inner[k]).data]
           /\ Db' = [k \in Keys |-> Latest(table'.inner[k]).data]
<1>1. /\ WellFormed(table) /\ table.last_seq.seq \in Nat
      /\ WellFormed(table') /\ table'.last_seq.seq \in Nat
    BY DEF WellFormedInv, WellFormed, Tables, OrderKeys
<1>2. \A k \in Keys : Get(table, k, table.last_seq.seq) = Latest(table.inner[k])
    BY <1>1, ReadLatest
<1>3. \A k \in Keys : Get(table', k, table'.last_seq.seq) = Latest(table'.inner[k])
    BY <1>1, ReadLatest
<1> QED BY <1>2, <1>3 DEF Db, ReadAt

\* A step that ends no view keeps the committed map.
LEMMA DbKept ==
    ASSUME WellFormedInv, Next, open \subseteq open'
    PROVE  Db' = Db
<1>1. WellFormedInv'
    BY WellFormedStep
<1>2. \A k \in Keys : Latest(table'.inner[k]) = Latest(table.inner[k])
    BY LatestSurvives
<1> QED BY <1>1, <1>2, DbIsLatest

-----------------------------------------------------------------------------
(* Each step is a step of the map, or no step of it at all.                *)

\* The writes: a staged version is one write of the private copy.
LEMMA StagingIsWrite ==
    ASSUME IsolatedStore, IsolationInv, NEW w \in open, NEW k \in Keys,
           NEW value \in OptionalValues, NEW increase \in BOOLEAN,
           MayStage(views[w], k, value, increase),
           views' = [views EXCEPT ![w] = Stage(@, k, value, increase)],
           UNCHANGED <<table, snapshots, open>>
    PROVE  Abstract!Write(w, k, value)
<1>0. /\ w \in Writers /\ views \in [Writers -> Views] /\ open \subseteq Writers
      /\ table \in Tables /\ ViewOK(views[w]) /\ OverBase(views[w]) /\ ValuesAboveZero(table)
      /\ FreshWrite(views[w], k, value, increase)
    BY IsolatedIsFresh, MayStageFresh DEF IsolationInv, WellFormedInv, WellFormed, FreshInv
<1>1. UNCHANGED <<Db, Frozen>>
    BY DEF Db, Frozen, ReadAt
<1>2. /\ views'[w] = Stage(views[w], k, value, increase)
      /\ \A x \in open : x # w => views'[x] = views[x]
    BY <1>0
<1>3. views'[w].snapshot_seq = views[w].snapshot_seq
    BY <1>0, <1>2, StageOK
<1>4. \A j \in Keys : ViewGet(table, views'[w], j).data =
                         IF j = k THEN value ELSE ViewGet(table, views[w], j).data
    BY <1>0, <1>2, StageReadsData
<1>5. Copy(views[w])' = [Copy(views[w]) EXCEPT ![k] = value]
    BY <1>4 DEF Copy
<1>6. \A x \in open : x # w => Txns'[x] = Txns[x]
    BY <1>2 DEF Txns, Copy
<1>7. Txns'[w] = [Txns[w] EXCEPT !.local[k] = value]
    BY <1>3, <1>5 DEF Txns
<1>8. DOMAIN Txns' = open /\ DOMAIN Txns = open
    BY DEF Txns
<1>9. Txns' = [Txns EXCEPT ![w].local[k] = value]
  <2> DEFINE written == [Txns EXCEPT ![w].local[k] = value]
  <2>1. DOMAIN written = open /\ \A x \in open : written[x] = Txns'[x]
      BY <1>6, <1>7, <1>8
  <2>2. Txns' = [x \in open |-> Txns'[x]] /\ written = [x \in open |-> written[x]]
      BY <2>1 DEF Txns
  <2> QED BY <2>1, <2>2
<1> QED BY <1>1, <1>8, <1>9 DEF Abstract!Write

\* The commits: a private copy becomes the map at once.
LEMMA CommitIsCommit ==
    ASSUME IsolatedStore, IsolationInv, Next, NEW w \in Writers,
           CommitApplied(w) \/ \E min \in 0..MaxSeq : CommitCompacted(w, min)
    PROVE  Abstract!Commit(w)
<1>0. /\ w \in open /\ Close(w) /\ MayCommit(w)
      /\ views \in [Writers -> Views] /\ open \subseteq Writers
      /\ FreshStore /\ CommitOver = "its_base"
      /\ WellFormedInv /\ FreshInv /\ ReadsUnchanged
    BY StepReads, IsolatedIsFresh
    DEF CommitApplied, CommitCompacted, MayCommit, Idle, IsolationInv, WellFormedInv
<1>1. Db = Txns[w].base
    BY <1>0 DEF Db, Txns, MayCommit
<1>2. Db' = Txns[w].local
  <2>1. WellFormedInv'
      BY <1>0, WellFormedStep
  <2>2. \A k \in Keys : Latest(table'.inner[k]).data = ViewGet(table, views[w], k).data
      BY <1>0, CommitPublishes
  <2> QED BY <1>0, <2>1, <2>2, DbIsLatest DEF Txns, Copy
<1>3. Frozen' = Frozen
    BY <1>0, FrozenKept DEF Close, Frozen
<1>4. Txns' = Abstract!Without(Txns, w)
  <2>1. open' = open \ {w} /\ \A x \in open' : views'[x] = views[x]
      BY <1>0 DEF Close
  <2>2. \A x \in open' : Txns'[x] = Txns[x]
      BY <1>0, <2>1, TxnKept
  <2> QED BY <2>1, <2>2 DEF Txns, Abstract!Without
<1> QED BY <1>0, <1>1, <1>2, <1>3, <1>4 DEF Txns, Abstract!Commit

\* Begin, the snapshots and the ends of a view that commit nothing.
LEMMA OthersAreSteps ==
    ASSUME IsolationInv
    PROVE  /\ OpenSnapshot => \E s \in 0..MaxSeq : Abstract!OpenSnapshot(s)
           /\ \A s \in snapshots :
                 DropSnapshot(s) => s \in 0..MaxSeq /\ Abstract!DropSnapshot(s)
           /\ \A w \in Writers, seq \in Nat, increase \in BOOLEAN :
                 OpenView(w, seq, increase) => Abstract!Begin(w)
           /\ \A w \in Writers : w \in open /\ Close(w) /\ UNCHANGED table => Abstract!Abort(w)
<1>0. /\ views \in [Writers -> Views] /\ open \subseteq Writers /\ snapshots \subseteq Nat
      /\ table \in Tables /\ table.last_seq.seq \in Nat /\ MaxSeq \in Nat
      /\ table.last_seq.seq \in 0..MaxSeq
    BY StoreAssumption DEF IsolationInv, WellFormedInv, WellFormed, BoundInv, Tables, OrderKeys
<1>1. ASSUME OpenSnapshot PROVE Abstract!OpenSnapshot(table.last_seq.seq)
  <2>1. UNCHANGED <<Db, Txns>>
      BY <1>1 DEF OpenSnapshot, Db, Txns, ReadAt, Copy
  <2>2. Frozen' = Abstract!With(Frozen, table.last_seq.seq, Db)
      BY <1>1 DEF OpenSnapshot, Frozen, Db, Abstract!With, ReadAt
  <2> QED BY <1>1, <2>1, <2>2 DEF OpenSnapshot, Abstract!OpenSnapshot, Frozen
<1>2. ASSUME NEW s \in snapshots, DropSnapshot(s)
      PROVE  s \in 0..MaxSeq /\ Abstract!DropSnapshot(s)
  <2>1. UNCHANGED <<Db, Txns>>
      BY <1>2 DEF DropSnapshot, Db, Txns, ReadAt, Copy
  <2>2. Frozen' = Abstract!Without(Frozen, s)
      BY <1>2 DEF DropSnapshot, Frozen, Abstract!Without, ReadAt
  <2>3. s \in Nat /\ s <= table.last_seq.seq
      BY <1>0 DEF IsolationInv, FreshInv
  <2>4. s \in 0..MaxSeq
      BY <1>0, <2>3
  <2> QED BY <2>1, <2>2, <2>4 DEF Abstract!DropSnapshot, Frozen
<1>3. ASSUME NEW w \in Writers, NEW seq \in Nat, NEW increase \in BOOLEAN,
             OpenView(w, seq, increase)
      PROVE  Abstract!Begin(w)
  <2> DEFINE new == NewView(table.last_seq.seq, seq, increase)
  <2>1. UNCHANGED <<Db, Frozen>>
      BY <1>3 DEF OpenView, Db, Frozen, ReadAt
  <2>2. \A k \in Keys : ViewGet(table, new, k) = Get(table, k, table.last_seq.seq)
      BY DEF ViewGet, NewView, NewTable, Get, Visible, CompactPair, IsNotFound, NotFound,
             NewTombstone
  <2>3. views'[w] = new /\ \A x \in open : views'[x] = views[x]
      BY <1>0, <1>3 DEF OpenView
  <2>4. new.snapshot_seq = table.last_seq.seq
      BY DEF NewView
  <2> HIDE DEF new
  <2>5. Txns'[w] = [base |-> Db, local |-> Db]
      BY <1>3, <2>2, <2>3, <2>4 DEF OpenView, Txns, Copy, Db, ReadAt
  <2>6. \A x \in open : Txns'[x] = Txns[x]
      BY <1>3, <2>3 DEF OpenView, Txns, Copy
  <2>7. DOMAIN Txns = open /\ Txns' = [x \in open \cup {w} |-> Txns'[x]]
      BY <1>3 DEF OpenView, Txns
  <2>8. Txns' = Abstract!With(Txns, w, [base |-> Db, local |-> Db])
      BY <1>3, <2>5, <2>6, <2>7 DEF OpenView, Abstract!With
  <2> QED BY <1>3, <2>1, <2>7, <2>8 DEF OpenView, Abstract!Begin
<1>4. ASSUME NEW w \in Writers, w \in open, Close(w), UNCHANGED table
      PROVE  Abstract!Abort(w)
  <2>1. UNCHANGED <<Db, Frozen>>
      BY <1>4 DEF Close, Db, Frozen, ReadAt
  <2>2. open' = open \ {w} /\ \A x \in open' : views'[x] = views[x]
      BY <1>0, <1>4 DEF Close
  <2>3. Txns' = Abstract!Without(Txns, w)
      BY <1>4, <2>2 DEF Txns, Abstract!Without, Copy
  <2> QED BY <1>4, <2>1, <2>3 DEF Abstract!Abort, Txns
<1>5. OpenSnapshot => \E s \in 0..MaxSeq : Abstract!OpenSnapshot(s)
    BY <1>0, <1>1
<1> QED BY <1>2, <1>3, <1>4, <1>5

\* Every step maps to a step of the snapshot-isolated map or to none.
LEMMA IsolationStep ==
    ASSUME IsolatedStore, IsolationInv, [Next]_vars
    PROVE  [Abstract!Next]_<<Db, Frozen, Txns>>
<1> DEFINE Goal == [Abstract!Next]_<<Db, Frozen, Txns>>
<1>0. /\ WellFormedInv /\ IsolatedInv
      /\ open \subseteq Writers /\ fetches \subseteq Fetches
      /\ \A f \in fetches : f.writer \in open /\ f.key \in Keys
    BY DEF IsolationInv, WellFormedInv, IsolatedInv, Fetches
<1>1. CASE OpenSnapshot
    BY <1>1, OthersAreSteps DEF Abstract!Next
<1>2. ASSUME NEW s \in snapshots, DropSnapshot(s) PROVE Goal
    BY <1>2, OthersAreSteps DEF Abstract!Next
<1>3. ASSUME NEW w \in Writers, NEW seq \in 0..MaxSeq, NEW increase \in TombstoneModes,
             OpenView(w, seq, increase)
      PROVE  Goal
  <2>1. seq \in Nat /\ increase \in BOOLEAN
      BY StoreAssumption
  <2>2. Abstract!Begin(w)
      BY <1>3, <2>1, OthersAreSteps
  <2> QED BY <2>2 DEF Abstract!Next
<1>4. ASSUME NEW w \in open, NEW k \in Keys, NEW value \in OptionalValues,
             NEW increase \in BOOLEAN, MayStage(views[w], k, value, increase),
             views' = [views EXCEPT ![w] = Stage(@, k, value, increase)],
             UNCHANGED <<table, snapshots, open>>
      PROVE  Goal
  <2>1. Abstract!Write(w, k, value) /\ w \in Writers
      BY <1>0, <1>4, StagingIsWrite
  <2>2. value \in Values \cup {NoValue}
      BY DEF OptionalValues
  <2> QED BY <2>1, <2>2 DEF Abstract!Next
<1>5. ASSUME NEW w \in Writers, NEW k \in Keys, NEW value \in OptionalValues,
             NEW increase \in BOOLEAN, Set(w, k, value, increase)
      PROVE  Goal
    BY <1>4, <1>5 DEF Set, Idle
<1>6. CASE UNCHANGED <<table, snapshots, open, views>>
    BY <1>6 DEF Db, Frozen, Txns, ReadAt, Copy
<1>7. ASSUME NEW w \in Writers, Abort(w) \/ CommitPanics(w) PROVE Goal
  <2>1. w \in open /\ Close(w) /\ UNCHANGED table
      BY <1>7 DEF Abort, CommitPanics, MayCommit, Idle
  <2>2. Abstract!Abort(w)
      BY <2>1, OthersAreSteps
  <2> QED BY <2>2 DEF Abstract!Next
<1>8. ASSUME NEW w \in Writers,
             CommitApplied(w) \/ \E min \in 0..MaxSeq : CommitCompacted(w, min)
      PROVE  Goal
  <2>1. Next
      BY <1>8 DEF Next
  <2>2. Abstract!Commit(w)
      BY <1>8, <2>1, CommitIsCommit
  <2> QED BY <2>2 DEF Abstract!Next
<1>9. ASSUME NEW f \in fetches, NEW value \in OptionalValues, NEW increase \in BOOLEAN,
             FetchWrite(f, value, increase)
      PROVE  Goal
  <2>1. f.writer \in open /\ f.key \in Keys /\ UNCHANGED <<table, snapshots, open>>
      BY <1>0, <1>9 DEF FetchWrite
  <2>2. CASE UNCHANGED views
      BY <1>6, <2>1, <2>2
  <2>3. CASE /\ MayStage(views[f.writer], f.key, value, increase)
             /\ views' = [views EXCEPT ![f.writer] = Stage(@, f.key, value, increase)]
    <3>1. PICK w \in open, k \in Keys : w = f.writer /\ k = f.key
        BY <2>1
    <3>2. /\ MayStage(views[w], k, value, increase)
          /\ views' = [views EXCEPT ![w] = Stage(@, k, value, increase)]
        BY <2>3, <3>1
    <3> QED BY <1>4, <2>1, <3>2
  <2> QED BY <1>9, <2>2, <2>3 DEF FetchWrite
<1>10. ASSUME (\E min \in 0..MaxSeq : CompactTable(min)) \/ Reload PROVE Goal
  <2>1. Next /\ UNCHANGED <<snapshots, open, views>>
      BY <1>10 DEF Next, CompactTable, Reload
  <2>2. Db' = Db
      BY <1>0, <2>1, DbKept
  <2>3. ReadsUnchanged
      BY <1>0, <2>1, StepReads
  <2>4. Frozen' = Frozen
      BY <2>1, <2>3, FrozenKept DEF Frozen
  <2>5. \A w \in open : Txns'[w] = Txns[w]
      BY <2>1, <2>3, TxnKept
  <2>6. Txns' = Txns
      BY <2>1, <2>5 DEF Txns
  <2> QED BY <2>2, <2>4, <2>6
<1> QED
    BY <1>1, <1>2, <1>3, <1>5, <1>6, <1>7, <1>8, <1>9, <1>10
    DEF vars, Next, FetchRead, FetchFails

\* Tables, snapshots and views implement the snapshot-isolated map: whatever
\* interleaving of snapshots, views, suspended fetches, commits by either merge,
\* compactions, failures and restarts a store drives, its users see a map,
\* frozen copies of it and transactions that install their copy at once.
THEOREM ImplementsSnapshotMap ==
    ASSUME IsolatedStore
    PROVE  Spec => Isolation
<1>1. IsolationInv /\ [Next]_vars => [Abstract!Next]_<<Db, Frozen, Txns>>
    BY IsolationStep
<1> QED
    BY <1>1, MapsInit, AlwaysIsolation, PTL
    DEF Spec, Isolation, Abstract!Spec, Abstract!vars
=============================================================================
