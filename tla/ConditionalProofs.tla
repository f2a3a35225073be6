------------------------- MODULE ConditionalProofs -------------------------
(***************************************************************************)
(* What holds of Conditional for every set of keys and values, every width *)
(* of the counter and every bound: a sequence never comes back with        *)
(* another value, so a client that compares sequences compares records;    *)
(* and the published changes, applied in order, give the committed table.  *)
(***************************************************************************)
EXTENDS Conditional, TableLemmas

-----------------------------------------------------------------------------
(* The invariant: tables and counters.                                     *)

Changes == [key : Keys, before : SeqMarkeds, after : SeqMarkeds]

FlagsOK == overflow_checks \in BOOLEAN /\ open \in BOOLEAN

ShapeInv ==
    /\ WellFormed(table) /\ TopOK(table) /\ ValuesAboveZero(table)
    /\ table.last_seq.seq <= MaxU64
    /\ ViewOK(view) /\ TopOK(view.changes)
    /\ view.last_seq <= MaxU64
    /\ staged \in Seq(Changes) /\ log \in Seq(Changes)
    /\ Len(staged) <= MaxBatch

\* Where the counter of an open batch is.  It wraps only on the first change of
\* a batch, over a table at the maximum, and then it stays below the number of
\* changes staged: the batch is not one that can be committed.
BatchInv ==
    /\ ~open => staged = << >>
    /\ open => view.snapshot_seq = table.last_seq.seq
    /\ open /\ staged = << >> => NoVersions(view.changes) /\ view.last_seq = view.snapshot_seq
    /\ open /\ staged # << >> =>
          /\ ~NoVersions(view.changes)
          /\ view.changes.last_seq.seq = view.last_seq
    /\ Wrapped => view.snapshot_seq = MaxU64 /\ view.last_seq < Len(staged)
    /\ open /\ ~Wrapped => OverBase(view)

-----------------------------------------------------------------------------
(* The invariant: changes and the records they leave.                      *)

\* What a caller sees under a key: no record, or one whose sequence is above 0.
Records == {NotFound} \cup {m \in SeqMarkeds : m.mark = Normal /\ m.seq > 0}

\* The changes made so far and the records "now" they leave, by a counter that
\* has reached "last".
History(changes, now, last) ==
    /\ now \in [Keys -> Records]
    /\ \A k \in Keys : now[k].seq <= last
    /\ \A i \in DOMAIN changes :
          /\ changes[i].before \in Records /\ changes[i].before.seq <= last
          /\ changes[i].after \in Records /\ changes[i].after.seq <= last
    \* a record once replaced has an older sequence than the one now there
    /\ \A i \in DOMAIN changes :
          LET there == now[changes[i].key]
          IN /\ changes[i].before.seq > 0 /\ there.seq > 0 => changes[i].before.seq < there.seq
             /\ changes[i].after.seq > 0 /\ there.seq = changes[i].after.seq =>
                   there = changes[i].after
    /\ \A i, j \in DOMAIN changes :
          /\ changes[i].key = changes[j].key /\ changes[i].before = changes[j].before
          /\ changes[i].before.seq > 0
          => i = j
    \* who applies the changes has "now", and found each "before" in place
    /\ Replica(changes)[Len(changes)] = now
    /\ \A n \in DOMAIN changes : Replica(changes)[n - 1][changes[n].key] = changes[n].before

CommittedMap == [k \in Keys |-> Committed(k)]
ViewMap      == [k \in Keys |-> Option(ViewGet(table, view, k))]

HistoryInv ==
    /\ History(log, CommittedMap, table.last_seq.seq)
    /\ open /\ ~Wrapped => History(log \o staged, ViewMap, view.last_seq)

-----------------------------------------------------------------------------
(* The counter.                                                            *)

\* What the invariant says of a view as a member of its sets.
LEMMA ViewFields ==
    ASSUME ShapeInv
    PROVE  /\ view \in Views /\ view.last_seq \in Nat /\ view.snapshot_seq \in Nat
           /\ view.changes \in Tables /\ view.changes.last_seq.seq \in Nat
           /\ view.changes.last_seq.mark \in {0, 1}
           /\ view.changes.last_seq.seq <= view.last_seq
           /\ table \in Tables /\ table.last_seq.seq \in Nat
BY DEF ShapeInv, ViewOK, WellFormed, Views, Tables, OrderKeys, Marks, Normal, TombStone

\* The sequence a write takes: the counter does not wrap, or wraps to 0.
LEMMA NextIs ==
    ASSUME ShapeInv, NEW value \in OptionalValues
    PROVE  LET next == NextSeq(view, value, TRUE)
           IN /\ next \in Nat /\ view.last_seq <= next
              /\ value # NoValue => next = view.last_seq + 1
              /\ \/ next <= MaxU64 /\ NextU64(value) = next
                 \/ next = MaxU64 + 1 /\ view.last_seq = MaxU64 /\ NextU64(value) = 0
<1> DEFINE next == NextSeq(view, value, TRUE)
<1>1. view.last_seq \in Nat /\ view.last_seq <= MaxU64 /\ MaxU64 \in Nat
    BY ViewFields, ConditionalAssumption DEF ShapeInv
<1>2. /\ next = view.last_seq \/ next = view.last_seq + 1
      /\ value # NoValue => next = view.last_seq + 1
    BY DEF NextSeq
<1>3. NextU64(value) = next % (MaxU64 + 1)
    BY DEF NextU64
<1> HIDE DEF next
<1> DEFINE Goal == \/ next <= MaxU64 /\ NextU64(value) = next
                   \/ next = MaxU64 + 1 /\ view.last_seq = MaxU64 /\ NextU64(value) = 0
<1>4. ASSUME next <= MaxU64 PROVE Goal
  <2>1. next \in 0..MaxU64
      BY <1>1, <1>2, <1>4
  <2>2. next % (MaxU64 + 1) = next
      BY <1>1, <2>1
  <2>3. NextU64(value) = next
      BY <1>3, <2>2
  <2> QED BY <1>4, <2>3
<1>5. ASSUME ~(next <= MaxU64) PROVE Goal
  <2>1. next = MaxU64 + 1 /\ view.last_seq = MaxU64
      BY <1>1, <1>2, <1>5
  <2>2. (MaxU64 + 1) % (MaxU64 + 1) = 0
      BY <1>1
  <2>3. NextU64(value) = 0
      BY <1>3, <2>1, <2>2
  <2> QED BY <1>1, <1>2, <2>1, <2>3
<1>6. next \in Nat /\ view.last_seq <= next
    BY <1>1, <1>2
<1> QED BY <1>2, <1>4, <1>5, <1>6 DEF next

\* Only the first change of a batch can wrap the counter: a later one is
\* refused by the staged table.
LEMMA WrapsFirst ==
    ASSUME ShapeInv, BatchInv, open, Len(staged) < MaxBatch, NEW value \in OptionalValues,
           ~WritePanics(value), NextSeq(view, value, TRUE) > MaxU64
    PROVE  /\ staged = << >> /\ NoVersions(view.changes) /\ view.changes.last_seq = Zero
           /\ view.snapshot_seq = MaxU64 /\ 0 < MaxU64 /\ NextU64(value) = 0
<1>1. /\ MaxU64 \in Nat /\ MaxBatch \in Nat /\ MaxBatch <= MaxU64
      /\ Len(staged) \in Nat /\ Len(staged) < MaxBatch
    BY ConditionalAssumption DEF ShapeInv
<1> DEFINE next == NextSeq(view, value, TRUE)
<1>2. NextU64(value) = 0 /\ view.last_seq = MaxU64
  <2>1. /\ next \in Nat
        /\ \/ next <= MaxU64 /\ NextU64(value) = next
           \/ next = MaxU64 + 1 /\ view.last_seq = MaxU64 /\ NextU64(value) = 0
      BY NextIs
  <2>2. next > MaxU64
      OBVIOUS
  <2> HIDE DEF next
  <2> QED BY <1>1, <2>1, <2>2
<1>3. NewMarked(0, value).seq = 0
    BY DEF NewMarked, NewTombstone, NewNormal
<1>4. 0 >= view.changes.last_seq.seq
    BY <1>2, <1>3 DEF WritePanics, CanInsert
<1>5. staged = << >>
    BY <1>1, <1>2, <1>4 DEF BatchInv
<1>6. view.changes.last_seq = Zero
    BY <1>5 DEF ShapeInv, BatchInv, TopOK, NoVersions
<1> QED BY <1>1, <1>2, <1>5, <1>6 DEF BatchInv

\* A write that does not panic: the view stays well formed, at the sequence the
\* write took.
LEMMA WriteOK ==
    ASSUME ShapeInv, BatchInv, open, Len(staged) < MaxBatch,
           NEW k \in Keys, NEW value \in OptionalValues, ~WritePanics(value)
    PROVE  LET new == StageU64(k, value)
           IN /\ ViewOK(new) /\ TopOK(new.changes) /\ ~NoVersions(new.changes)
              /\ new.last_seq = NextU64(value) /\ new.last_seq <= MaxU64
              /\ new.changes.last_seq.seq = NextU64(value)
              /\ new.snapshot_seq = view.snapshot_seq
<1> DEFINE seq == NextU64(value)
           m == NewMarked(seq, value)
           changes == Insert(view.changes, k, m)
           new == StageU64(k, value)
           next == NextSeq(view, value, TRUE)
<1>1. /\ view \in Views /\ view.last_seq \in Nat /\ view.changes \in Tables
      /\ view.changes.last_seq.seq \in Nat /\ view.changes.last_seq.mark \in {0, 1}
      /\ view.changes.last_seq.seq <= view.last_seq
      /\ MaxU64 \in Nat
    BY ViewFields, ConditionalAssumption
<1>2. /\ next \in Nat /\ view.last_seq <= next
      /\ value # NoValue => next = view.last_seq + 1
      /\ \/ next <= MaxU64 /\ seq = next
         \/ next = MaxU64 + 1 /\ view.last_seq = MaxU64 /\ seq = 0
    BY NextIs
<1>3. next > MaxU64 => view.changes.last_seq = Zero
    BY WrapsFirst
<1> HIDE DEF next, seq
<1>4. seq \in Nat /\ seq <= MaxU64
    BY <1>1, <1>2
<1>5. /\ view.changes.last_seq.seq <= seq
      /\ value # NoValue => \/ view.changes.last_seq.seq < seq
                            \/ view.changes.last_seq = Zero
  <2>1. CASE next <= MaxU64
    <3>1. seq = next
        BY <1>1, <1>2, <2>1
    <3> QED BY <1>1, <1>2, <3>1
  <2>2. CASE next = MaxU64 + 1
    <3>1. seq = 0 /\ next > MaxU64
        BY <1>1, <1>2, <2>2
    <3> QED BY <1>3, <3>1 DEF Zero
  <2> QED BY <1>2, <2>1, <2>2
<1>6. /\ m \in SeqMarkeds /\ m.seq = seq
      /\ m.mark = IF value = NoValue THEN TombStone ELSE Normal
    BY <1>4, NewMarkedType DEF OptionalValues, NewMarked, NewTombstone, NewNormal
<1>7. Leq(view.changes.last_seq, m)
    BY <1>1, <1>4, <1>5, <1>6 DEF Leq, Lt, SameOrder, Zero, TombStone, Normal
<1>8. WellFormed(changes)
    BY <1>4, <1>5, InsertWellFormed DEF ShapeInv, ViewOK, OptionalValues
<1>9. TopOK(changes)
    BY <1>1, <1>6, <1>7, InsertTop DEF ShapeInv
<1>10. changes.last_seq.seq = seq
    BY <1>6 DEF Insert, OrderKey
<1>11. ~NoVersions(changes)
  <2>1. changes.inner[k] = {x \in view.changes.inner[k] : ~SameOrder(x, m)} \cup {m}
      BY <1>1 DEF Insert, Put, Tables
  <2> QED BY <2>1 DEF NoVersions
<1>12. new = [view EXCEPT !.last_seq = seq, !.changes = changes]
    BY DEF StageU64, seq
<1> HIDE DEF m, changes, new
<1>13. /\ new \in Views /\ new.last_seq = seq /\ new.changes = changes
       /\ new.snapshot_seq = view.snapshot_seq
    BY <1>1, <1>4, <1>8, <1>12 DEF Views, WellFormed
<1>14. ViewOK(new)
    BY <1>4, <1>8, <1>10, <1>13 DEF ViewOK
<1> QED BY <1>4, <1>9, <1>10, <1>11, <1>13, <1>14 DEF new, seq

\* A write without a wrap is View's own.
LEMMA WriteIsStage ==
    ASSUME ShapeInv, NEW k \in Keys, NEW value \in OptionalValues,
           ~(NextSeq(view, value, TRUE) > MaxU64)
    PROVE  StageU64(k, value) = Stage(view, k, value, TRUE)
<1> DEFINE next == NextSeq(view, value, TRUE)
<1>1. next \in Nat /\ \/ next <= MaxU64 /\ NextU64(value) = next
                      \/ next = MaxU64 + 1 /\ view.last_seq = MaxU64 /\ NextU64(value) = 0
    BY NextIs
<1>2. NextU64(value) = next
  <2>1. ~(next > MaxU64) /\ MaxU64 \in Nat
      BY ConditionalAssumption
  <2> HIDE DEF next
  <2> QED BY <1>1, <2>1
<1> QED BY <1>2 DEF StageU64, Stage

-----------------------------------------------------------------------------
(* The invariant is inductive: tables and counters.                        *)

\* The view that stands for no batch.
LEMMA NoBatch ==
    LET none == NewView(0, 0, FALSE)
    IN  ViewOK(none) /\ TopOK(none.changes) /\ none.last_seq = 0
<1>1. ViewOK(NewView(0, 0, FALSE))
    BY NewViewOK
<1>2. TopOK(NewTable)
    BY DEF TopOK, NewTable, NoVersions, Zero
<1>3. /\ NewView(0, 0, FALSE).changes = NewTable
      /\ NewView(0, 0, FALSE).last_seq = 0
    BY DEF NewView
<1> QED BY <1>1, <1>2, <1>3

\* The invariant holds at the start.
LEMMA ShapeInit == Init => FlagsOK /\ ShapeInv /\ BatchInv
<1> SUFFICES ASSUME Init PROVE FlagsOK /\ ShapeInv /\ BatchInv
    OBVIOUS
<1> DEFINE none == NewView(0, 0, FALSE)
<1>1. ViewOK(none) /\ TopOK(none.changes) /\ none.last_seq = 0
    BY NoBatch
<1>2. WellFormed(NewTable) /\ TopOK(NewTable) /\ ValuesAboveZero(NewTable)
      /\ NewTable.last_seq.seq = 0
    BY NewTableWellFormed DEF TopOK, ValuesAboveZero, NewTable, NoVersions, Zero
<1>3. << >> \in Seq(Changes) /\ Len(<< >>) = 0
    OBVIOUS
<1>4. view = none /\ table = NewTable /\ staged = << >> /\ log = << >>
    BY DEF Init
<1> HIDE DEF none
<1>5. ShapeInv
    BY <1>1, <1>2, <1>3, <1>4, ConditionalAssumption DEF ShapeInv
<1>6. FlagsOK /\ BatchInv
    BY DEF Init, FlagsOK, BatchInv, Wrapped
<1> QED BY <1>5, <1>6

\* The end of a batch leaves no view behind.
LEMMA CloseShape ==
    ASSUME FlagsOK, Close, UNCHANGED overflow_checks, log' \in Seq(Changes),
           WellFormed(table'), TopOK(table'), ValuesAboveZero(table'),
           table'.last_seq.seq <= MaxU64
    PROVE  FlagsOK' /\ ShapeInv' /\ BatchInv'
<1> DEFINE none == NewView(0, 0, FALSE)
<1>1. ViewOK(none) /\ TopOK(none.changes) /\ none.last_seq = 0
    BY NoBatch
<1>2. << >> \in Seq(Changes) /\ Len(<< >>) = 0
    OBVIOUS
<1>3. view' = none /\ staged' = << >>
    BY DEF Close
<1> HIDE DEF none
<1>4. ShapeInv'
    BY <1>1, <1>2, <1>3, ConditionalAssumption DEF ShapeInv
<1>5. FlagsOK' /\ BatchInv'
    BY DEF Close, FlagsOK, BatchInv, Wrapped
<1> QED BY <1>4, <1>5

\* A batch whose counter has wrapped is refused by the table.
LEMMA WrappedRefused ==
    ASSUME ShapeInv, BatchInv, open, staged # << >>, CanApply(table, view.changes)
    PROVE  ~Wrapped
<1>1. /\ view.snapshot_seq \in Nat /\ view.last_seq \in Nat /\ table.last_seq.seq \in Nat
      /\ view.changes.last_seq.seq \in Nat
    BY ViewFields
<1>2. view.snapshot_seq = table.last_seq.seq /\ view.changes.last_seq.seq = view.last_seq
    BY DEF BatchInv
<1>3. table.last_seq.seq <= view.changes.last_seq.seq
    BY <1>1 DEF CanApply, Leq, Lt, SameOrder
<1> QED BY <1>1, <1>2, <1>3 DEF Wrapped

\* The change an upsert stages.
LEMMA ChangeType ==
    ASSUME NEW k \in Keys, NEW before \in SeqMarkeds, NEW after \in SeqMarkeds
    PROVE  Change(k, before, after) \in Changes
<1>1. NotFound \in SeqMarkeds
    BY DEF NotFound, NewTombstone, SeqMarkeds, Marks, TombStone
<1> QED BY <1>1 DEF Change, Option, Changes

\* An upsert that does not panic.
LEMMA UpsertShape ==
    ASSUME ShapeInv, BatchInv, open, Len(staged) < MaxBatch,
           NEW k \in Keys, NEW value \in OptionalValues, ~WritePanics(value),
           view' = StageU64(k, value),
           NEW change \in Changes, staged' = Append(staged, change),
           UNCHANGED <<table, open, log>>
    PROVE  /\ ShapeInv' /\ BatchInv'
           /\ ~Wrapped' => ~Wrapped /\ ~(NextSeq(view, value, TRUE) > MaxU64)
<1> DEFINE next == NextSeq(view, value, TRUE)
<1>1. /\ ViewOK(view') /\ TopOK(view'.changes) /\ ~NoVersions(view'.changes)
      /\ view'.last_seq = NextU64(value) /\ view'.last_seq <= MaxU64
      /\ view'.changes.last_seq.seq = NextU64(value)
      /\ view'.snapshot_seq = view.snapshot_seq
    BY WriteOK
<1>2. /\ staged' \in Seq(Changes) /\ staged' # << >>
      /\ Len(staged) \in Nat /\ Len(staged') = Len(staged) + 1
    BY DEF ShapeInv
<1>3. /\ MaxU64 \in Nat /\ MaxBatch \in Nat /\ MaxBatch <= MaxU64
      /\ view.last_seq \in Nat /\ view.snapshot_seq \in Nat
    BY ViewFields, ConditionalAssumption
<1>4. ShapeInv'
  <2>1. Len(staged') <= MaxBatch
      BY <1>2, <1>3
  <2> QED BY <1>1, <1>2, <2>1 DEF ShapeInv
<1>5. next \in Nat /\ view.last_seq <= next /\ next <= view.last_seq + 1
  <2>1. next = view.last_seq \/ next = view.last_seq + 1
      BY DEF NextSeq
  <2> HIDE DEF next
  <2> QED BY <1>3, <2>1
<1> DEFINE Goal == /\ view'.last_seq < view'.snapshot_seq =>
                         view'.snapshot_seq = MaxU64 /\ view'.last_seq < Len(staged')
                   /\ ~(view'.last_seq < view'.snapshot_seq) =>
                         OverBase(view') /\ ~Wrapped /\ ~(next > MaxU64)
<1>6. ASSUME next > MaxU64 PROVE Goal
  <2>1. /\ staged = << >> /\ view.snapshot_seq = MaxU64 /\ 0 < MaxU64 /\ NextU64(value) = 0
      BY <1>6, WrapsFirst
  <2>2. /\ view'.last_seq < view'.snapshot_seq /\ view'.snapshot_seq = MaxU64
        /\ view'.last_seq < Len(staged')
      BY <1>1, <1>2, <2>1
  <2> HIDE DEF next
  <2> QED BY <2>2
<1>7. ASSUME ~(next > MaxU64), Wrapped PROVE Goal
  <2>1. /\ view.snapshot_seq = MaxU64 /\ view.last_seq < Len(staged)
      BY <1>7 DEF BatchInv
  <2>2. view'.last_seq = next
      BY <1>7, WriteIsStage DEF Stage, ShapeInv, ViewOK, Views
  <2> HIDE DEF next
  <2>3. view'.last_seq < Len(staged') /\ view'.last_seq < view'.snapshot_seq
      BY <1>1, <1>2, <1>3, <1>5, <2>1, <2>2
  <2> QED BY <1>1, <2>1, <2>3
<1>8. ASSUME ~(next > MaxU64), ~Wrapped PROVE Goal
  <2>1. ViewOK(view) /\ OverBase(view)
      BY <1>8 DEF ShapeInv, BatchInv
  <2>2. view' = Stage(view, k, value, TRUE)
      BY <1>8, WriteIsStage
  <2>3. FreshWrite(view, k, value, TRUE)
      BY DEF FreshWrite
  <2>4. OverBase(view')
      BY <2>1, <2>2, <2>3, StageOverBase
  <2>5. view'.last_seq = next
      BY <2>1, <2>2 DEF Stage, ViewOK, Views
  <2> HIDE DEF next
  <2>6. ~(view'.last_seq < view'.snapshot_seq)
      BY <1>1, <1>3, <1>5, <1>8, <2>5 DEF Wrapped
  <2> QED BY <1>8, <2>4, <2>6
<1>9. Goal
    BY <1>6, <1>7, <1>8
<1>10. BatchInv'
    BY <1>1, <1>2, <1>9 DEF BatchInv, Wrapped
<1>11. ~Wrapped' => ~Wrapped /\ ~(next > MaxU64)
  <2>1. open' /\ ~Wrapped' => ~(view'.last_seq < view'.snapshot_seq)
      BY DEF Wrapped
  <2> QED BY <1>9, <2>1
<1> QED BY <1>4, <1>10, <1>11

\* The table after a commit.
LEMMA CommitShape ==
    ASSUME ShapeInv, BatchInv, Commit
    PROVE  /\ ~Wrapped /\ WellFormed(table') /\ TopOK(table') /\ ValuesAboveZero(table')
           /\ table'.last_seq.seq = view.last_seq
<1>1. /\ open /\ staged # << >> /\ CanApply(table, view.changes)
      /\ table' = Apply(table, view.changes)
    BY DEF Commit
<1>2. ~Wrapped
    BY <1>1, WrappedRefused
<1>3. /\ OverBase(view) /\ ViewOK(view) /\ ~NoVersions(view.changes)
      /\ view.snapshot_seq = table.last_seq.seq
      /\ view.changes.last_seq.seq = view.last_seq
    BY <1>1, <1>2 DEF BatchInv, ShapeInv
<1>4. WellFormed(table')
    BY <1>1, ApplyWellFormed DEF ShapeInv, ViewOK
<1>5. TopOK(table')
    BY <1>1, <1>3, ViewFields, ApplyTop DEF ShapeInv
<1>6. table'.last_seq.seq = view.last_seq
    BY <1>1, <1>3 DEF Apply
<1>7. ASSUME NEW k \in Keys, NEW m \in table'.inner[k], m.mark = Normal PROVE 0 < m.seq
  <2>1. m \in table.inner[k] \/ m \in view.changes.inner[k]
      BY <1>1, <1>3, ApplyIsUnion DEF ShapeInv
  <2>2. CASE m \in table.inner[k]
      BY <1>7, <2>2 DEF ShapeInv, ValuesAboveZero
  <2>3. CASE m \in view.changes.inner[k]
    <3>1. m.seq \in Nat /\ view.snapshot_seq \in Nat
        BY <2>3, ViewFields, SeqMarkedFields DEF Tables
    <3>2. view.snapshot_seq < m.seq
        BY <1>3, <1>7, <2>3 DEF OverBase
    <3> QED BY <3>1, <3>2
  <2> QED BY <2>1, <2>2, <2>3
<1> QED BY <1>2, <1>4, <1>5, <1>6, <1>7 DEF ValuesAboveZero

\* The table after a compaction or a restart.
LEMMA TableShape ==
    ASSUME ShapeInv, (\E min \in 0..MaxU64 : CompactTable(min)) \/ Reload
    PROVE  /\ WellFormed(table') /\ TopOK(table') /\ ValuesAboveZero(table')
           /\ table'.last_seq = table.last_seq
           /\ \A k \in Keys : Latest(table'.inner[k]) = Latest(table.inner[k])
<1>1. WellFormed(table) /\ TopOK(table) /\ ValuesAboveZero(table) /\ table \in Tables
    BY ViewFields DEF ShapeInv
<1>2. ASSUME NEW min \in 0..MaxU64, CompactTable(min)
      PROVE  /\ WellFormed(table') /\ TopOK(table') /\ ValuesAboveZero(table')
             /\ table'.last_seq = table.last_seq
             /\ \A k \in Keys : Latest(table'.inner[k]) = Latest(table.inner[k])
  <2>1. min \in Nat /\ WellFormed(NewTable) /\ ~CompactPanics(table, NewTable, min)
      BY NewTableWellFormed DEF CompactPanics, NewTable
  <2>2. table' = Compact(table, NewTable, min)
      BY <1>2 DEF CompactTable
  <2>3. WellFormed(table')
      BY <1>1, <2>1, <2>2, CompactWellFormed
  <2>4. TopOK(table') /\ table'.last_seq = table.last_seq
      BY <1>1, <2>2, CompactTop
  <2>5. \A k \in Keys : table'.inner[k] = Survivors(table.inner[k], min)
    <3>1. \A k \in Keys : table.inner[k] \cup NewTable.inner[k] = table.inner[k]
        BY DEF NewTable
    <3> QED BY <2>2, <3>1 DEF Compact
  <2>6. ValuesAboveZero(table')
      BY <1>1, <2>5 DEF ValuesAboveZero, Survivors
  <2>7. ASSUME NEW k \in Keys PROVE Latest(table'.inner[k]) = Latest(table.inner[k])
    <3>1. /\ table.inner[k] \in SUBSET SeqMarkeds
          /\ \A m, n \in table.inner[k] : SameOrder(m, n) => m = n
          /\ table.last_seq.seq \in Nat
          /\ \A m \in table.inner[k] : m.seq <= table.last_seq.seq
        BY <1>1, ViewFields DEF Tables, WellFormed, Unique, Highest
    <3> QED BY <2>1, <2>5, <3>1, SurvivorsLatest
  <2> QED BY <2>3, <2>4, <2>6, <2>7
<1>3. ASSUME Reload
      PROVE  /\ WellFormed(table') /\ TopOK(table') /\ ValuesAboveZero(table')
             /\ table'.last_seq = table.last_seq
             /\ \A k \in Keys : Latest(table'.inner[k]) = Latest(table.inner[k])
  <2>1. table' = FromStream(RangeUpto(table, table.last_seq.seq))
      BY <1>3 DEF Reload
  <2>2. WellFormed(table')
      BY <1>1, <2>1, ReloadWellFormed
  <2>3. TopOK(table') /\ table'.last_seq = table.last_seq
      BY <1>1, <2>1, ReloadTop
  <2>4. \A k \in Keys : Latest(table'.inner[k]) = Latest(table.inner[k])
      BY <1>1, <2>1, ReloadLatest
  <2>5. \A k \in Keys : \A m \in table'.inner[k] : m \in table.inner[k]
      BY <1>1, <2>1, ViewFields, ReloadKeeps
  <2>6. ValuesAboveZero(table')
      BY <1>1, <2>5 DEF ValuesAboveZero
  <2> QED BY <2>2, <2>3, <2>4, <2>6
<1> QED BY <1>2, <1>3

\* What an upsert that takes effect does.
LEMMA UpsertIs ==
    ASSUME ShapeInv, NEW k \in Keys, NEW want \in Wants, NEW value \in OptionalValues,
           Upsert(k, want, value)
    PROVE  /\ open /\ Len(staged) < MaxBatch /\ UNCHANGED <<overflow_checks, table, log>>
           /\ \/ Close
              \/ LET before == ViewGet(table, view, k)
                     change == Change(k, before, NewMarked(NextU64(value), value))
                 IN /\ ~WritePanics(value)
                    /\ view' = StageU64(k, value)
                    /\ before \in SeqMarkeds /\ change \in Changes
                    /\ staged' = Append(staged, change)
                    /\ UNCHANGED open
<1> DEFINE before == ViewGet(table, view, k)
           after == NewMarked(NextU64(value), value)
<1>1. before \in SeqMarkeds
    BY ViewFields, ViewGetType
<1>2. NextU64(value) \in Nat
  <2> DEFINE next == NextSeq(view, value, TRUE)
  <2>1. next \in Nat /\ (NextU64(value) = next \/ NextU64(value) = 0)
      BY NextIs
  <2> HIDE DEF next
  <2> QED BY <2>1
<1>3. Change(k, before, after) \in Changes
    BY <1>1, <1>2, NewMarkedType, ChangeType DEF OptionalValues
<1> QED BY <1>1, <1>3 DEF Upsert

\* Every step keeps the first half of the invariant.
LEMMA ShapeStep ==
    ASSUME FlagsOK, ShapeInv, BatchInv, [Next]_vars
    PROVE  FlagsOK' /\ ShapeInv' /\ BatchInv'
<1>0. /\ WellFormed(table) /\ TopOK(table) /\ ValuesAboveZero(table)
      /\ table.last_seq.seq \in Nat /\ table.last_seq.seq <= MaxU64
      /\ ViewOK(view) /\ TopOK(view.changes) /\ view.last_seq <= MaxU64
      /\ staged \in Seq(Changes) /\ log \in Seq(Changes) /\ Len(staged) <= MaxBatch
    BY ViewFields DEF ShapeInv
<1>1. ASSUME NEW increase \in BOOLEAN, Open(increase)
      PROVE  FlagsOK' /\ ShapeInv' /\ BatchInv'
  <2> DEFINE new == NewView(table.last_seq.seq, table.last_seq.seq, increase)
  <2>1. /\ ViewOK(new) /\ TopOK(new.changes) /\ OverBase(new) /\ NoVersions(new.changes)
        /\ new.last_seq = table.last_seq.seq /\ new.snapshot_seq = table.last_seq.seq
    <3>1. ViewOK(new)
        BY <1>0, NewViewOK
    <3>2. /\ new.changes = NewTable /\ new.last_seq = table.last_seq.seq
          /\ new.snapshot_seq = table.last_seq.seq
        BY DEF NewView
    <3>3. TopOK(NewTable) /\ NoVersions(NewTable)
        BY DEF TopOK, NewTable, NoVersions, Zero
    <3> HIDE DEF new
    <3>4. OverBase(new)
        BY <1>0, <3>2 DEF OverBase, NewTable
    <3> QED BY <3>1, <3>2, <3>3, <3>4
  <2>2. /\ open' /\ view' = new /\ staged = << >>
        /\ UNCHANGED <<overflow_checks, table, staged, log>>
      BY <1>1 DEF Open, BatchInv
  <2>3. FlagsOK'
      BY <1>1 DEF Open, FlagsOK
  <2> HIDE DEF new
  <2>4. ShapeInv'
      BY <1>0, <2>1, <2>2 DEF ShapeInv
  <2>5. ~Wrapped'
      BY <1>0, <2>1, <2>2 DEF Wrapped
  <2>6. BatchInv'
      BY <2>1, <2>2, <2>5 DEF BatchInv
  <2> QED BY <2>3, <2>4, <2>6
<1>2. ASSUME Close, UNCHANGED <<overflow_checks, table, log>>
      PROVE  FlagsOK' /\ ShapeInv' /\ BatchInv'
    BY <1>0, <1>2, CloseShape
<1>3. ASSUME NEW k \in Keys, NEW want \in Wants, NEW value \in OptionalValues,
             Upsert(k, want, value)
      PROVE  FlagsOK' /\ ShapeInv' /\ BatchInv'
  <2>1. CASE Close
      BY <1>2, <1>3, <2>1, UpsertIs
  <2>2. CASE ~Close
    <3> DEFINE change == Change(k, ViewGet(table, view, k), NewMarked(NextU64(value), value))
    <3>1. /\ open /\ Len(staged) < MaxBatch /\ ~WritePanics(value)
          /\ view' = StageU64(k, value)
          /\ change \in Changes /\ staged' = Append(staged, change)
          /\ UNCHANGED <<overflow_checks, table, open, log>>
        BY <1>3, <2>2, UpsertIs
    <3> HIDE DEF change
    <3>2. ShapeInv' /\ BatchInv'
        BY <3>1, UpsertShape
    <3> QED BY <3>1, <3>2 DEF FlagsOK
  <2> QED BY <2>1, <2>2
<1>4. ASSUME Commit PROVE FlagsOK' /\ ShapeInv' /\ BatchInv'
  <2>1. /\ WellFormed(table') /\ TopOK(table') /\ ValuesAboveZero(table')
        /\ table'.last_seq.seq <= MaxU64
      BY <1>0, <1>4, CommitShape
  <2>2. Close /\ UNCHANGED overflow_checks /\ log' = log \o staged
      BY <1>4 DEF Commit
  <2>3. log' \in Seq(Changes)
      BY <1>0, <2>2
  <2> QED BY <2>1, <2>2, <2>3, CloseShape
<1>5. ASSUME CommitPanics \/ Discard PROVE FlagsOK' /\ ShapeInv' /\ BatchInv'
    BY <1>2, <1>5 DEF CommitPanics, Discard
<1>6. ASSUME (\E min \in 0..MaxU64 : CompactTable(min)) \/ Reload
      PROVE  FlagsOK' /\ ShapeInv' /\ BatchInv'
  <2>1. /\ WellFormed(table') /\ TopOK(table') /\ ValuesAboveZero(table')
        /\ table'.last_seq = table.last_seq
      BY <1>6, TableShape
  <2>2. UNCHANGED <<overflow_checks, open, view, staged, log>>
      BY <1>6 DEF CompactTable, Reload
  <2>3. ShapeInv'
      BY <1>0, <2>1, <2>2 DEF ShapeInv
  <2> QED BY <2>1, <2>2, <2>3 DEF FlagsOK, BatchInv, Wrapped
<1>7. CASE UNCHANGED vars
  <2>1. ShapeInv'
      BY <1>7 DEF vars, ShapeInv
  <2> QED BY <1>7, <2>1 DEF vars, FlagsOK, BatchInv, Wrapped
<1> QED BY <1>1, <1>3, <1>4, <1>5, <1>6, <1>7 DEF Next

\* It holds throughout.
LEMMA AlwaysShape == Spec => [](FlagsOK /\ ShapeInv /\ BatchInv)
<1>1. FlagsOK /\ ShapeInv /\ BatchInv /\ [Next]_vars => (FlagsOK /\ ShapeInv /\ BatchInv)'
    BY ShapeStep
<1> QED BY <1>1, ShapeInit, PTL DEF Spec

\* Tables, views and sequences keep their types, and no sequence exceeds the
\* width of the counter, whatever wraps or panics.
THEOREM TypeCorrect == Spec => []TypeOK
<1>1. ASSUME ShapeInv
      PROVE  /\ table \in Tables /\ view \in Views
             /\ table.last_seq.seq <= MaxU64 /\ view.last_seq <= MaxU64
             /\ {staged, log} \subseteq Seq(Changes)
    BY <1>1, ViewFields DEF ShapeInv
<1>2. FlagsOK /\ ShapeInv => TypeOK
    BY <1>1 DEF FlagsOK, TypeOK, Changes
<1> QED BY <1>2, AlwaysShape, PTL

\* No commit, compaction or restart takes the table's last_seq back, though the
\* counter of a view may wrap.
THEOREM CounterNeverBack == Spec => CounterNeverGoesBack
<1>1. ASSUME ShapeInv, BatchInv, Next PROVE Leq(table.last_seq, table'.last_seq)
  <2>1. CASE table' = table
      BY <2>1 DEF Leq, SameOrder
  <2>2. CASE Commit
      BY <2>2 DEF Commit, CanApply, Apply
  <2>3. CASE (\E min \in 0..MaxU64 : CompactTable(min)) \/ Reload
      BY <1>1, <2>3, TableShape DEF Leq, SameOrder
  <2>4. table' = table \/ Commit \/ (\E min \in 0..MaxU64 : CompactTable(min)) \/ Reload
      BY <1>1 DEF Next, Open, Upsert, CommitPanics, Discard
  <2> QED BY <2>1, <2>2, <2>3, <2>4
<1>2. ShapeInv /\ BatchInv /\ [Next]_vars => [Leq(table.last_seq, table'.last_seq)]_vars
    BY <1>1
<1> QED BY <1>2, AlwaysShape, PTL DEF CounterNeverGoesBack, Spec

\* Exact(0) and GE(1) tell a missing record from one there, because no value is
\* committed under sequence 0.
THEOREM WantsAreExact == Spec => []WantsTellExistence
<1>1. ASSUME ShapeInv, NEW k \in Keys
      PROVE  /\ Matches(Exact(0), RecordSeq(Committed(k))) <=> IsNotFound(Committed(k))
             /\ Matches(GE(1), RecordSeq(Committed(k))) <=> ~IsNotFound(Committed(k))
  <2> DEFINE found == Get(table, k, table.last_seq.seq)
  <2>1. found \in SeqMarkeds /\ found.seq \in Nat
      BY <1>1, ViewFields, GetType, SeqMarkedFields
  <2>2. found.mark = Normal => 0 < found.seq
    <3>1. found = NotFound \/ found \in table.inner[k]
      <4>1. table.inner[k] \in SUBSET SeqMarkeds /\ table.last_seq.seq \in Nat
          BY <1>1, ViewFields DEF Tables
      <4>2. CASE Visible(table.inner[k], table.last_seq.seq) = {}
          BY <4>2 DEF Get
      <4>3. CASE Visible(table.inner[k], table.last_seq.seq) # {}
          BY <4>1, <4>3, NewestVisible DEF Get
      <4> QED BY <4>2, <4>3
    <3> HIDE DEF found
    <3> QED BY <1>1, <3>1 DEF ShapeInv, ValuesAboveZero, NotFound, NewTombstone,
                              Normal, TombStone
  <2> HIDE DEF found
  <2>3. Committed(k) = Option(found)
      BY DEF Committed, found
  <2>4. CASE found.mark = Normal
    <3>1. Committed(k) = found /\ RecordSeq(Committed(k)) = found.seq
        BY <2>3, <2>4 DEF Option, RecordSeq
    <3> QED BY <2>1, <2>2, <2>4, <3>1
            DEF Matches, Exact, GE, IsNotFound, Normal, TombStone
  <2>5. CASE found.mark # Normal
    <3>1. Committed(k) = NotFound /\ RecordSeq(Committed(k)) = 0
        BY <2>3, <2>5 DEF Option, RecordSeq, NotFound, NewTombstone
    <3> QED BY <3>1 DEF Matches, Exact, GE, IsNotFound, NotFound, NewTombstone
  <2> QED BY <2>4, <2>5
<1>2. ShapeInv => WantsTellExistence
    BY <1>1 DEF WantsTellExistence
<1> QED BY <1>2, AlwaysShape, PTL

-----------------------------------------------------------------------------
(* Replicas.                                                               *)

\* One change applied.
Watch(map, change) ==
    [map EXCEPT ![change.key] = IF IsDelete(change) THEN NotFound ELSE change.after]

\* The replica after each of the first n changes.
IsReplica(f, changes, n) ==
    f = [i \in 0..n |-> IF i = 0 THEN [k \in Keys |-> NotFound]
                                 ELSE Watch(f[i - 1], changes[i])]

\* There is one for any number of changes: the first number without one would
\* extend the one before it.
LEMMA ReplicaExists ==
    ASSUME NEW changes, NEW len \in Nat
    PROVE  \E f : IsReplica(f, changes, len)
<1> DEFINE without == {n \in Nat : ~\E f : IsReplica(f, changes, n)}
<1>1. SUFFICES ASSUME without # {} PROVE FALSE
    OBVIOUS
<1>2. PICK n \in without : \A x \in without : n <= x
  <2>1. without \subseteq Nat
      OBVIOUS
  <2> QED BY <1>1, <2>1, NonemptyNatSetHasMin
<1>3. n \in Nat /\ ~\E f : IsReplica(f, changes, n)
    OBVIOUS
<1>4. CASE n = 0
  <2> DEFINE f == [i \in 0..0 |-> [k \in Keys |-> NotFound]]
  <2>1. IsReplica(f, changes, 0)
      BY DEF IsReplica
  <2> QED BY <1>3, <1>4, <2>1
<1>5. CASE n # 0
  <2>1. n - 1 \in Nat /\ ~(n <= n - 1)
      BY <1>3, <1>5
  <2>2. n - 1 \notin without
      BY <1>2, <2>1
  <2>3. PICK f : IsReplica(f, changes, n - 1)
      BY <2>1, <2>2
  <2> DEFINE g == [i \in 0..n |-> IF i = n THEN Watch(f[n - 1], changes[n]) ELSE f[i]]
  <2>4. ASSUME NEW i \in 0..n
        PROVE  g[i] = IF i = 0 THEN [k \in Keys |-> NotFound] ELSE Watch(g[i - 1], changes[i])
    <3>1. CASE i = n
      <4>1. g[i - 1] = f[n - 1] /\ g[i] = Watch(f[n - 1], changes[n])
          BY <1>3, <1>5, <3>1
      <4> QED BY <1>5, <3>1, <4>1
    <3>2. CASE i # n
      <4>1. /\ i \in 0..(n - 1) /\ g[i] = f[i]
            /\ i # 0 => i - 1 \in 0..n /\ i - 1 # n
          BY <1>3, <3>2
      <4>2. i # 0 => g[i - 1] = f[i - 1]
          BY <4>1
      <4>3. f[i] = IF i = 0 THEN [k \in Keys |-> NotFound] ELSE Watch(f[i - 1], changes[i])
          BY <2>3, <4>1 DEF IsReplica
      <4> QED BY <4>1, <4>2, <4>3
    <3> QED BY <3>1, <3>2
  <2>5. IsReplica(g, changes, n)
    <3>1. g = [i \in 0..n |-> g[i]]
        OBVIOUS
    <3> HIDE DEF g
    <3> QED BY <2>4, <3>1 DEF IsReplica
  <2> QED BY <1>3, <2>5
<1> QED BY <1>4, <1>5

\* So Replica is what its definition says.
LEMMA ReplicaIs ==
    ASSUME NEW changes \in Seq(Changes)
    PROVE  IsReplica(Replica(changes), changes, Len(changes))
<1> DEFINE P(f) == IsReplica(f, changes, Len(changes))
<1>1. \E f : P(f)
    BY ReplicaExists
<1>2. P(CHOOSE f : P(f))
    BY <1>1
<1>3. Replica(changes) = CHOOSE f : P(f)
    BY DEF Replica, IsReplica, Watch
<1> QED BY <1>2, <1>3

\* One more change leaves the replica as it was after the earlier ones.
LEMMA ReplicaGrows ==
    ASSUME NEW changes \in Seq(Changes), NEW change \in Changes
    PROVE  LET longer == Append(changes, change)
               len == Len(changes)
           IN /\ \A n \in 0..len : Replica(longer)[n] = Replica(changes)[n]
              /\ Replica(longer)[len + 1] = Watch(Replica(changes)[len], change)
<1> DEFINE longer == Append(changes, change)
           len == Len(changes)
           r == Replica(changes)
           s == Replica(longer)
<1>1. /\ len \in Nat /\ Len(longer) = len + 1 /\ longer \in Seq(Changes)
      /\ longer[len + 1] = change
      /\ \A i \in 1..len : longer[i] = changes[i]
    OBVIOUS
<1>2. /\ IsReplica(r, changes, len)
      /\ IsReplica(s, longer, len + 1)
    BY <1>1, ReplicaIs
<1> HIDE DEF longer, r, s, len
<1>3. /\ \A i \in 0..len : r[i] = IF i = 0 THEN [k \in Keys |-> NotFound]
                                         ELSE Watch(r[i - 1], changes[i])
      /\ \A i \in 0..(len + 1) : s[i] = IF i = 0 THEN [k \in Keys |-> NotFound]
                                               ELSE Watch(s[i - 1], longer[i])
    BY <1>2 DEF IsReplica
<1> DEFINE differ == {n \in 0..len : s[n] # r[n]}
<1>4. differ = {}
  <2>1. SUFFICES ASSUME differ # {} PROVE FALSE
      OBVIOUS
  <2>2. PICK n \in differ : \A x \in differ : n <= x
    <3>1. differ \subseteq Nat
        BY <1>1
    <3> QED BY <2>1, <3>1, NonemptyNatSetHasMin
  <2>3. n \in 0..len /\ s[n] # r[n] /\ n \in 0..(len + 1)
      BY <1>1
  <2>4. n # 0
      BY <1>3, <2>3
  <2>5. n - 1 \in 0..len /\ ~(n <= n - 1) /\ n \in 1..len
      BY <1>1, <2>3, <2>4
  <2>6. s[n - 1] = r[n - 1]
      BY <2>2, <2>5
  <2>7. longer[n] = changes[n]
      BY <1>1, <2>5
  <2> QED BY <1>3, <2>3, <2>4, <2>6, <2>7
<1>5. s[len + 1] = Watch(s[len], change)
  <2>1. len + 1 \in 0..(len + 1) /\ len + 1 # 0 /\ len + 1 - 1 = len
      BY <1>1
  <2> QED BY <1>1, <1>3, <2>1
<1>6. len \in 0..len
    BY <1>1
<1> QED BY <1>4, <1>5, <1>6 DEF longer, r, s, len

-----------------------------------------------------------------------------
(* The invariant is inductive: changes and records.                        *)

\* A change of the record now there, at a sequence above all before it.
LEMMA HistoryGrows ==
    ASSUME NEW changes \in Seq(Changes), NEW now, NEW last \in Nat,
           History(changes, now, last), NEW change \in Changes, NEW seq \in Nat, last <= seq,
           change.before = now[change.key],
           change.after \in Records, change.after.seq <= seq,
           change.after # NotFound => last < change.after.seq
    PROVE  History(Append(changes, change), [now EXCEPT ![change.key] = change.after], seq)
<1> DEFINE longer == Append(changes, change)
           then == [now EXCEPT ![change.key] = change.after]
           len == Len(changes)
<1>1. /\ len \in Nat /\ Len(longer) = len + 1 /\ DOMAIN longer = 1..(len + 1)
      /\ DOMAIN changes = 1..len
      /\ longer[len + 1] = change
      /\ \A i \in 1..len : longer[i] = changes[i]
    OBVIOUS
<1>2. change.key \in Keys
    BY DEF Changes
<1>3. /\ now \in [Keys -> Records]
      /\ \A k \in Keys : then[k] = IF k = change.key THEN change.after ELSE now[k]
      /\ then \in [Keys -> Records]
    BY <1>2 DEF History
<1>4. \A m \in Records : m.seq \in Nat /\ (m.seq > 0 <=> m # NotFound)
  <2>1. NotFound.seq = 0
      BY DEF NotFound, NewTombstone
  <2>2. \A m \in SeqMarkeds : m.seq \in Nat
      BY SeqMarkedFields
  <2> QED BY <2>1, <2>2 DEF Records
<1>5. \A i \in 1..(len + 1) : i \in 1..len \/ i = len + 1
    BY <1>1
<1>6. \A i \in 1..len : changes[i].key \in Keys
  <2>1. \A i \in 1..len : changes[i] \in Changes
      OBVIOUS
  <2> QED BY <2>1 DEF Changes
<1> HIDE DEF longer, then, len
<1>7. \A k \in Keys : then[k].seq <= seq
  <2>1. ASSUME NEW k \in Keys PROVE then[k].seq <= seq
    <3>1. now[k].seq \in Nat /\ now[k].seq <= last
        BY <1>3, <1>4 DEF History
    <3> QED BY <1>3, <3>1
  <2> QED BY <2>1
<1>8. ASSUME NEW i \in 1..(len + 1)
      PROVE  /\ longer[i].before \in Records /\ longer[i].before.seq <= seq
             /\ longer[i].after \in Records /\ longer[i].after.seq <= seq
  <2>1. CASE i = len + 1
    <3>1. now[change.key] \in Records /\ now[change.key].seq <= last
        BY <1>2, <1>3 DEF History
    <3> QED BY <1>1, <1>4, <2>1, <3>1
  <2>2. CASE i \in 1..len
    <3>1. /\ changes[i].before \in Records /\ changes[i].before.seq <= last
          /\ changes[i].after \in Records /\ changes[i].after.seq <= last
        BY <1>1, <2>2 DEF History
    <3>2. changes[i].before.seq \in Nat /\ changes[i].after.seq \in Nat
        BY <1>4, <3>1
    <3> QED BY <1>1, <2>2, <3>1, <3>2
  <2> QED BY <1>5, <2>1, <2>2
<1>9. ASSUME NEW i \in 1..(len + 1)
      PROVE  LET there == then[longer[i].key]
             IN /\ longer[i].before.seq > 0 /\ there.seq > 0 =>
                      longer[i].before.seq < there.seq
                /\ longer[i].after.seq > 0 /\ there.seq = longer[i].after.seq =>
                      there = longer[i].after
  <2>1. CASE i = len + 1
    <3>1. now[change.key] \in Records /\ now[change.key].seq <= last
        BY <1>2, <1>3 DEF History
    <3>2. longer[i] = change /\ then[change.key] = change.after
        BY <1>1, <1>2, <1>3, <2>1
    <3>3. change.after.seq > 0 => last < change.after.seq
        BY <1>4
    <3>4. now[change.key].seq \in Nat /\ change.after.seq \in Nat
        BY <1>4, <3>1
    <3> QED BY <3>1, <3>2, <3>3, <3>4
  <2>2. CASE i \in 1..len /\ changes[i].key # change.key
    <3>1. then[changes[i].key] = now[changes[i].key] /\ longer[i] = changes[i]
        BY <1>1, <1>3, <1>6, <2>2
    <3> QED BY <1>1, <2>2, <3>1 DEF History
  <2>3. CASE i \in 1..len /\ changes[i].key = change.key
    <3>1. then[changes[i].key] = change.after /\ longer[i] = changes[i]
        BY <1>1, <1>2, <1>3, <2>3
    <3>2. /\ changes[i].before \in Records /\ changes[i].before.seq <= last
          /\ changes[i].after \in Records /\ changes[i].after.seq <= last
        BY <1>1, <2>3 DEF History
    <3>3. change.after.seq > 0 => last < change.after.seq
        BY <1>4
    <3>4. changes[i].before.seq \in Nat /\ changes[i].after.seq \in Nat /\ change.after.seq \in Nat
        BY <1>4, <3>2
    <3>5. change.after.seq > 0 => /\ changes[i].before.seq < change.after.seq
                                  /\ changes[i].after.seq # change.after.seq
        BY <3>2, <3>3, <3>4
    <3>6. then[longer[i].key] = change.after
        BY <3>1
    <3> QED BY <3>1, <3>4, <3>5, <3>6
  <2> QED BY <1>5, <2>1, <2>2, <2>3
<1>10. ASSUME NEW i \in 1..len, changes[i].key = change.key, changes[i].before = change.before,
              changes[i].before.seq > 0
       PROVE  FALSE
  <2>1. /\ now[change.key].seq > 0 => changes[i].before.seq < now[change.key].seq
        /\ changes[i].before = now[change.key]
        /\ now[change.key] \in Records
      BY <1>1, <1>2, <1>3, <1>10 DEF History
  <2>2. now[change.key].seq \in Nat
      BY <1>4, <2>1
  <2> QED BY <1>10, <2>1, <2>2
<1>11. ASSUME NEW i \in 1..(len + 1), NEW j \in 1..(len + 1),
              longer[i].key = longer[j].key, longer[i].before = longer[j].before,
              longer[i].before.seq > 0
       PROVE  i = j
  <2>1. CASE i \in 1..len /\ j \in 1..len
      BY <1>1, <1>11, <2>1 DEF History
  <2>2. CASE i \in 1..len /\ j = len + 1
      BY <1>1, <1>10, <1>11, <2>2
  <2>3. CASE i = len + 1 /\ j \in 1..len
      BY <1>1, <1>10, <1>11, <2>3
  <2> QED BY <1>5, <2>1, <2>2, <2>3
<1>12. /\ Replica(longer)[len + 1] = then
       /\ \A n \in 1..(len + 1) : Replica(longer)[n - 1][longer[n].key] = longer[n].before
  <2>1. /\ \A n \in 0..len : Replica(longer)[n] = Replica(changes)[n]
        /\ Replica(longer)[len + 1] = Watch(Replica(changes)[len], change)
      BY ReplicaGrows DEF longer, len
  <2>2. /\ Replica(changes)[len] = now
        /\ \A n \in 1..len : Replica(changes)[n - 1][changes[n].key] = changes[n].before
      BY <1>1 DEF History, len
  <2>3. Watch(now, change) = then
    <3>1. IsDelete(change) => change.after = NotFound
        BY <1>4 DEF IsDelete, IsNotFound
    <3> QED BY <3>1 DEF Watch, then
  <2>4. \A n \in 1..len : n - 1 \in 0..len
      BY <1>1
  <2>5. \A n \in 1..len : Replica(longer)[n - 1][longer[n].key] = longer[n].before
      BY <1>1, <2>1, <2>2, <2>4
  <2>6. Replica(longer)[len] = now
      BY <1>1, <2>1, <2>2
  <2>7. \A n \in 1..(len + 1) : Replica(longer)[n - 1][longer[n].key] = longer[n].before
    <3>1. ASSUME NEW n \in 1..(len + 1), n = len + 1
          PROVE  Replica(longer)[n - 1][longer[n].key] = longer[n].before
      <4>1. n - 1 = len /\ longer[n] = change
          BY <1>1, <3>1
      <4> QED BY <2>6, <4>1
    <3> QED BY <1>5, <2>5, <3>1
  <2> QED BY <2>1, <2>2, <2>3, <2>7
<1>13. History(longer, then, seq)
    BY <1>1, <1>3, <1>7, <1>8, <1>9, <1>11, <1>12 DEF History
<1> QED BY <1>13 DEF longer, then

\* What a caller sees does not tell one deletion from another.
LEMMA SameOption ==
    ASSUME NEW a, NEW b, SameRecord(a, b)
    PROVE  Option(a) = Option(b)
BY DEF SameRecord, Option, Normal, TombStone

\* What is committed under a key is its newest version.
LEMMA CommittedIs ==
    ASSUME ShapeInv, NEW k \in Keys
    PROVE  Committed(k) = Option(Latest(table.inner[k]))
<1>1. WellFormed(table) /\ table.last_seq.seq \in Nat /\ table.last_seq.seq <= table.last_seq.seq
    BY ViewFields DEF ShapeInv
<1>2. Get(table, k, table.last_seq.seq) = Latest(table.inner[k])
    BY <1>1, ReadLatest
<1> QED BY <1>2 DEF Committed

\* Before any change there is no record.
LEMMA HistoryInit == Init => HistoryInv
<1> SUFFICES ASSUME Init PROVE HistoryInv
    OBVIOUS
<1>1. ~open /\ log = << >> /\ table = NewTable /\ table.last_seq.seq = 0
    BY DEF Init, NewTable, Zero
<1>2. NotFound \in Records /\ NotFound.seq = 0
    BY DEF Records, NotFound, NewTombstone
<1>3. CommittedMap = [k \in Keys |-> NotFound]
  <2>1. ASSUME NEW k \in Keys PROVE Committed(k) = NotFound
    <3>1. Latest(table.inner[k]) = NotFound
        BY <1>1 DEF NewTable, Latest
    <3>2. Option(NotFound) = NotFound
        BY DEF Option, NotFound, NewTombstone, Normal, TombStone
    <3> QED BY <3>1, <3>2, CommittedIs, ShapeInit
  <2> QED BY <2>1 DEF CommittedMap
<1>4. Replica(<< >>)[0] = [k \in Keys |-> NotFound]
  <2>1. << >> \in Seq(Changes) /\ Len(<< >>) = 0
      OBVIOUS
  <2>2. IsReplica(Replica(<< >>), << >>, 0)
      BY <2>1, ReplicaIs
  <2> HIDE DEF Replica
  <2>3. 0 \in 0..0
      OBVIOUS
  <2> QED BY <2>2, <2>3 DEF IsReplica
<1>5. History(<< >>, [k \in Keys |-> NotFound], 0)
    BY <1>2, <1>4 DEF History
<1> QED BY <1>1, <1>3, <1>5 DEF HistoryInv

\* A batch opens on the committed records.
LEMMA OpenHistory ==
    ASSUME ShapeInv, BatchInv, HistoryInv, NEW increase \in BOOLEAN, Open(increase), ShapeInv'
    PROVE  HistoryInv'
<1> DEFINE new == NewView(table.last_seq.seq, table.last_seq.seq, increase)
<1>1. view' = new /\ staged' = << >> /\ UNCHANGED <<table, log>>
    BY DEF Open, BatchInv
<1>2. /\ new.changes = NewTable /\ new.last_seq = table.last_seq.seq
      /\ new.snapshot_seq = table.last_seq.seq
    BY DEF NewView
<1>3. CommittedMap' = CommittedMap
    BY <1>1 DEF CommittedMap, Committed
<1>4. ASSUME NEW k \in Keys PROVE Option(ViewGet(table', view', k)) = Committed(k)
  <2>1. ViewOK(view') /\ OverBase(view') /\ table \in Tables /\ ValuesAboveZero(table)
        /\ table.last_seq.seq \in Nat
      BY <1>1, <1>2, ViewFields DEF ShapeInv, OverBase, NewTable
  <2> HIDE DEF new
  <2>2. view'.changes.inner[k] = {} /\ view'.snapshot_seq = table.last_seq.seq
      BY <1>1, <1>2 DEF NewTable
  <2>3. SameRecord(ViewGet(table, view', k), Get(table, k, table.last_seq.seq))
      BY <2>1, <2>2, ViewGetIs
  <2> QED BY <1>1, <2>3, SameOption DEF Committed
<1>5. ViewMap' = CommittedMap
    BY <1>4 DEF ViewMap, CommittedMap
<1>6. (log \o staged)' = log /\ view'.last_seq = table.last_seq.seq
    BY <1>1, <1>2 DEF ShapeInv
<1> QED BY <1>1, <1>3, <1>5, <1>6 DEF HistoryInv

\* An upsert replaces, in the batch, the record it read.
LEMMA UpsertHistory ==
    ASSUME ShapeInv, BatchInv, HistoryInv, open, Len(staged) < MaxBatch,
           NEW k \in Keys, NEW value \in OptionalValues, ~WritePanics(value),
           view' = StageU64(k, value),
           staged' = Append(staged, Change(k, ViewGet(table, view, k),
                                           NewMarked(NextU64(value), value))),
           Change(k, ViewGet(table, view, k), NewMarked(NextU64(value), value)) \in Changes,
           UNCHANGED <<table, open, log>>
    PROVE  HistoryInv'
<1> DEFINE next == NextSeq(view, value, TRUE)
           seq == NextU64(value)
           before == ViewGet(table, view, k)
           change == Change(k, before, NewMarked(seq, value))
<1>1. CommittedMap' = CommittedMap /\ log' = log /\ table' = table
    BY DEF CommittedMap, Committed
<1>2. CASE Wrapped'
    BY <1>1, <1>2 DEF HistoryInv
<1>3. CASE ~Wrapped'
  <2>1. ~Wrapped /\ ~(next > MaxU64)
      BY <1>3, UpsertShape
  <2>2. /\ view' = Stage(view, k, value, TRUE)
        /\ ViewOK(view) /\ OverBase(view) /\ FreshWrite(view, k, value, TRUE)
        /\ table \in Tables /\ ValuesAboveZero(table)
      BY <2>1, WriteIsStage, ViewFields DEF ShapeInv, BatchInv, FreshWrite
  <2>3. view'.last_seq = seq
      BY WriteOK
  <2>4. /\ view.last_seq \in Nat /\ view.last_seq <= seq /\ seq \in Nat
        /\ value # NoValue => seq = view.last_seq + 1
    <3>1. /\ next \in Nat /\ view.last_seq <= next
          /\ value # NoValue => next = view.last_seq + 1
          /\ \/ next <= MaxU64 /\ seq = next
             \/ next = MaxU64 + 1 /\ view.last_seq = MaxU64 /\ seq = 0
        BY NextIs
    <3> HIDE DEF next, seq
    <3> QED BY <2>1, <3>1, ViewFields, ConditionalAssumption
  <2>5. History(log \o staged, ViewMap, view.last_seq)
      BY <2>1 DEF HistoryInv
  <2>6. /\ change.key = k /\ change.before = ViewMap[k]
        /\ change.after = IF value = NoValue THEN NotFound ELSE NewNormal(seq, value)
    <3>1. Option(NewMarked(seq, value)) =
             IF value = NoValue THEN NotFound ELSE NewNormal(seq, value)
        BY DEF Option, NewMarked, NewTombstone, NewNormal, Normal, TombStone
    <3> QED BY <3>1 DEF Change, ViewMap
  <2>7. /\ change.after \in Records /\ change.after.seq <= seq
        /\ change.after # NotFound => view.last_seq < change.after.seq
    <3>1. CASE value = NoValue
        BY <2>4, <2>6, <3>1 DEF Records, NotFound, NewTombstone
    <3>2. CASE value # NoValue
      <4>1. change.after = NewNormal(seq, value) /\ seq > 0 /\ view.last_seq < seq
          BY <2>4, <2>6, <3>2
      <4>2. NewNormal(seq, value) \in SeqMarkeds
          BY <2>4, <3>2 DEF NewNormal, SeqMarkeds, Marks, Normal, TombStone, OptionalValues
      <4>3. NewNormal(seq, value).mark = Normal /\ NewNormal(seq, value).seq = seq
          BY DEF NewNormal
      <4> HIDE DEF seq
      <4> QED BY <2>4, <4>1, <4>2, <4>3 DEF Records
    <3> QED BY <3>1, <3>2
  <2>8. ASSUME NEW j \in Keys
        PROVE  Option(ViewGet(table', view', j)) = IF j = k THEN change.after ELSE ViewMap[j]
    <3>1. IF j = k THEN SameRecord(ViewGet(table, view', j), NewMarked(view'.last_seq, value))
          ELSE \E m \in SeqMarkeds : /\ SameRecord(ViewGet(table, view', j), m)
                                     /\ SameRecord(ViewGet(table, view, j), m)
        BY <2>2, StageReads
    <3>2. CASE j = k
      <4>1. Option(ViewGet(table, view', j)) = Option(NewMarked(seq, value))
          BY <2>3, <3>1, <3>2, SameOption
      <4> QED BY <1>1, <3>2, <4>1 DEF Change
    <3>3. CASE j # k
      <4>1. Option(ViewGet(table, view', j)) = Option(ViewGet(table, view, j))
          BY <3>1, <3>3, SameOption
      <4> QED BY <1>1, <3>3, <4>1 DEF ViewMap
    <3> QED BY <3>2, <3>3
  <2>9. ViewMap' = [ViewMap EXCEPT ![k] = change.after]
      BY <2>8 DEF ViewMap
  <2>10. log \o staged \in Seq(Changes) /\ change \in Changes
      BY DEF ShapeInv
  <2>11. (log \o staged)' = Append(log \o staged, change)
    <3>1. log \in Seq(Changes) /\ staged \in Seq(Changes) /\ staged' = Append(staged, change)
        BY DEF ShapeInv
    <3> HIDE DEF change
    <3> QED BY <1>1, <2>10, <3>1
  <2> HIDE DEF change, seq
  <2>12. History(Append(log \o staged, change), [ViewMap EXCEPT ![k] = change.after], seq)
      BY <2>4, <2>5, <2>6, <2>7, <2>10, HistoryGrows
  <2> QED BY <1>1, <2>3, <2>9, <2>11, <2>12 DEF HistoryInv
<1> QED BY <1>2, <1>3

\* A commit makes the records of the batch the committed ones.
LEMMA CommitHistory ==
    ASSUME ShapeInv, BatchInv, HistoryInv, Commit, ShapeInv'
    PROVE  HistoryInv'
<1>1. /\ open /\ staged # << >> /\ table' = Apply(table, view.changes)
      /\ log' = log \o staged /\ ~open'
    BY DEF Commit, Close
<1>2. ~Wrapped /\ table'.last_seq.seq = view.last_seq
    BY CommitShape
<1>3. History(log', ViewMap, view.last_seq)
    BY <1>1, <1>2 DEF HistoryInv
<1>4. ASSUME NEW k \in Keys PROVE Committed(k)' = ViewMap[k]
  <2>1. /\ WellFormed(table) /\ ValuesAboveZero(table) /\ ViewOK(view) /\ OverBase(view)
        /\ table.last_seq.seq = view.snapshot_seq
      BY <1>1, <1>2 DEF ShapeInv, BatchInv
  <2>2. table'.inner[k] = table.inner[k] \cup view.changes.inner[k]
      BY <1>1, <2>1, ApplyIsUnion
  <2>3. SameRecord(ViewGet(table, view, k), Latest(table'.inner[k]))
      BY <2>1, <2>2, UnionReads
  <2>4. Get(table', k, table'.last_seq.seq) = Latest(table'.inner[k])
    <3>1. /\ WellFormed(table') /\ table'.last_seq.seq \in Nat
          /\ table'.last_seq.seq <= table'.last_seq.seq
        BY <1>2, ViewFields DEF ShapeInv
    <3> QED BY <3>1, ReadLatest
  <2> QED BY <2>3, <2>4, SameOption DEF Committed, ViewMap
<1>5. CommittedMap' = ViewMap
    BY <1>4 DEF CommittedMap, ViewMap
<1> QED BY <1>1, <1>2, <1>3, <1>5 DEF HistoryInv

\* Compactions and restarts change no record.
LEMMA TableHistory ==
    ASSUME ShapeInv, BatchInv, HistoryInv, ShapeInv', BatchInv',
           (\E min \in 0..MaxU64 : CompactTable(min)) \/ Reload
    PROVE  HistoryInv'
<1>1. /\ table'.last_seq = table.last_seq
      /\ \A k \in Keys : Latest(table'.inner[k]) = Latest(table.inner[k])
    BY TableShape
<1>2. UNCHANGED <<open, view, staged, log>>
    BY DEF CompactTable, Reload
<1>3. WellFormed(table) /\ WellFormed(table') /\ table.last_seq.seq \in Nat
    BY ViewFields DEF ShapeInv
<1>4. ASSUME NEW k \in Keys
      PROVE  Get(table', k, table.last_seq.seq) = Get(table, k, table.last_seq.seq)
  <2>1. Get(table, k, table.last_seq.seq) = Latest(table.inner[k])
      BY <1>3, ReadLatest
  <2>2. Get(table', k, table.last_seq.seq) = Latest(table'.inner[k])
    <3>1. table'.last_seq.seq <= table.last_seq.seq
        BY <1>1, <1>3
    <3> QED BY <1>3, <3>1, ReadLatest
  <2> QED BY <1>1, <2>1, <2>2
<1>5. CommittedMap' = CommittedMap
    BY <1>1, <1>4 DEF CommittedMap, Committed
<1>6. CASE ~open \/ Wrapped
    BY <1>1, <1>2, <1>5, <1>6 DEF HistoryInv, Wrapped
<1>7. CASE open /\ ~Wrapped
  <2>1. view.snapshot_seq = table.last_seq.seq
      BY <1>7 DEF BatchInv
  <2>2. ViewMap' = ViewMap
      BY <1>2, <1>4, <2>1 DEF ViewMap, ViewGet
  <2> QED BY <1>1, <1>2, <1>5, <1>7, <2>2 DEF HistoryInv
<1> QED BY <1>6, <1>7

\* Every step keeps the second half of the invariant.
LEMMA HistoryStep ==
    ASSUME ShapeInv, BatchInv, HistoryInv, ShapeInv', BatchInv', [Next]_vars
    PROVE  HistoryInv'
<1>1. ASSUME Close, UNCHANGED <<table, log>> PROVE HistoryInv'
    BY <1>1 DEF Close, HistoryInv, CommittedMap, Committed
<1>2. ASSUME NEW increase \in BOOLEAN, Open(increase) PROVE HistoryInv'
    BY <1>2, OpenHistory
<1>3. ASSUME NEW k \in Keys, NEW want \in Wants, NEW value \in OptionalValues,
             Upsert(k, want, value)
      PROVE  HistoryInv'
  <2>1. CASE Close
      BY <1>1, <1>3, <2>1, UpsertIs
  <2>2. CASE ~Close
    <3>1. /\ open /\ Len(staged) < MaxBatch /\ ~WritePanics(value)
          /\ view' = StageU64(k, value)
          /\ Change(k, ViewGet(table, view, k), NewMarked(NextU64(value), value)) \in Changes
          /\ staged' = Append(staged, Change(k, ViewGet(table, view, k),
                                             NewMarked(NextU64(value), value)))
          /\ UNCHANGED <<table, open, log>>
        BY <1>3, <2>2, UpsertIs
    <3> QED BY <3>1, UpsertHistory
  <2> QED BY <2>1, <2>2
<1>4. CASE Commit
    BY <1>4, CommitHistory
<1>5. CASE CommitPanics \/ Discard
    BY <1>1, <1>5 DEF CommitPanics, Discard
<1>6. CASE (\E min \in 0..MaxU64 : CompactTable(min)) \/ Reload
    BY <1>6, TableHistory
<1>7. CASE UNCHANGED vars
    BY <1>7 DEF vars, HistoryInv, CommittedMap, Committed, ViewMap, Wrapped
<1> QED BY <1>2, <1>3, <1>4, <1>5, <1>6, <1>7 DEF Next

\* It holds throughout.
LEMMA AlwaysHistory == Spec => [](ShapeInv /\ BatchInv /\ HistoryInv)
<1> DEFINE Inv == FlagsOK /\ ShapeInv /\ BatchInv /\ HistoryInv
<1>1. Inv /\ [Next]_vars => Inv'
    BY ShapeStep, HistoryStep
<1>2. Init => Inv
    BY ShapeInit, HistoryInit
<1>3. Inv => ShapeInv /\ BatchInv /\ HistoryInv
    OBVIOUS
<1> QED BY <1>1, <1>2, <1>3, PTL DEF Spec

\* The history of whoever looks now: the open batch, or what is committed.
LEMMA CurrentHistory ==
    ASSUME HistoryInv
    PROVE  \E last : History(IF open /\ ~Wrapped THEN log \o staged ELSE log,
                             [k \in Keys |-> Current(k)], last)
<1>1. CASE open /\ ~Wrapped
  <2>1. [k \in Keys |-> Current(k)] = ViewMap
      BY <1>1 DEF Current, ViewMap
  <2> QED BY <1>1, <2>1 DEF HistoryInv
<1>2. CASE ~(open /\ ~Wrapped)
  <2>1. [k \in Keys |-> Current(k)] = CommittedMap
      BY <1>2 DEF Current, CommittedMap
  <2> QED BY <1>2, <2>1 DEF HistoryInv
<1> QED BY <1>1, <1>2

\* A record is replaced or deleted once: the change that did has a sequence
\* below that of whatever is there afterwards.
THEOREM ReplacedOnlyOnce == Spec => []ReplacedOnce
<1>1. HistoryInv => ReplacedOnce
    BY DEF HistoryInv, History, ReplacedOnce
<1> QED BY <1>1, AlwaysHistory, PTL

\* Equal sequences are equal records, for as long as the store runs, across
\* deletions that reuse a sequence, lost batches, compactions, restarts and
\* views whose counter wraps: comparing sequences is compare-and-swap.
THEOREM ExactIsCompare == Spec => []ExactIsCompareAndSwap
<1>1. ASSUME ShapeInv, HistoryInv, NEW k \in Keys, NEW seen \in Published(k)
      PROVE  Matches(Exact(RecordSeq(seen)), RecordSeq(Current(k))) <=> Current(k) = seen
  <2> DEFINE changes == IF open /\ ~Wrapped THEN log \o staged ELSE log
             now == [j \in Keys |-> Current(j)]
  <2>1. PICK last : History(changes, now, last)
      BY <1>1, CurrentHistory
  <2>2. now[k] = Current(k) /\ now[k] \in Records
      BY <2>1 DEF History
  <2>3. seen = NotFound \/ \E i \in DOMAIN log : log[i].key = k /\ log[i].after = seen
      BY DEF Published
  <2>4. \A i \in DOMAIN log : i \in DOMAIN changes /\ changes[i] = log[i]
    <3>1. log \in Seq(Changes) /\ staged \in Seq(Changes)
        BY <1>1 DEF ShapeInv
    <3> QED BY <3>1
  <2> HIDE DEF changes, now
  <2>5. seen = NotFound \/ \E i \in DOMAIN changes : changes[i].key = k /\ changes[i].after = seen
      BY <2>3, <2>4
  <2>6. /\ seen \in Records
        /\ seen.seq > 0 /\ now[k].seq = seen.seq => now[k] = seen
    <3>1. NotFound \in Records /\ NotFound.seq = 0
        BY DEF Records, NotFound, NewTombstone
    <3>2. CASE seen = NotFound
        BY <3>1, <3>2
    <3>3. ASSUME NEW i \in DOMAIN changes, changes[i].key = k, changes[i].after = seen
          PROVE  /\ seen \in Records
                 /\ seen.seq > 0 /\ now[k].seq = seen.seq => now[k] = seen
        BY <2>1, <3>3 DEF History
    <3> QED BY <2>5, <3>2, <3>3
  <2>7. ASSUME NEW m \in Records
        PROVE  RecordSeq(m) = m.seq /\ m.seq \in Nat /\ (m.seq > 0 <=> m # NotFound)
    <3>1. m = NotFound \/ (m \in SeqMarkeds /\ m.mark = Normal /\ m.seq > 0)
        BY DEF Records
    <3>2. NotFound.seq = 0 /\ NotFound.mark = TombStone
        BY DEF NotFound, NewTombstone
    <3>3. CASE m = NotFound
        BY <3>2, <3>3 DEF RecordSeq, Option
    <3>4. CASE m \in SeqMarkeds /\ m.mark = Normal /\ m.seq > 0
      <4>1. m.seq \in Nat
          BY <3>4, SeqMarkedFields
      <4> QED BY <3>2, <3>4, <4>1 DEF RecordSeq, Option
    <3> QED BY <3>1, <3>3, <3>4
  <2>8. RecordSeq(seen) = seen.seq /\ RecordSeq(now[k]) = now[k].seq
      BY <2>2, <2>6, <2>7
  <2>9. now[k].seq = seen.seq <=> now[k] = seen
    <3>1. /\ seen.seq \in Nat /\ now[k].seq \in Nat
          /\ seen.seq > 0 <=> seen # NotFound
          /\ now[k].seq > 0 <=> now[k] # NotFound
        BY <2>2, <2>6, <2>7
    <3> QED BY <2>6, <3>1
  <2>10. Matches(Exact(seen.seq), now[k].seq) <=> now[k].seq = seen.seq
      BY DEF Matches, Exact
  <2> QED BY <2>2, <2>8, <2>9, <2>10
<1>2. ShapeInv /\ HistoryInv => ExactIsCompareAndSwap
    BY <1>1 DEF ExactIsCompareAndSwap
<1> QED BY <1>2, AlwaysHistory, PTL

\* The published changes, applied in order, are the committed table, and every
\* "before" was in place when its change came; the same of the changes of an
\* open batch after them, and what its view reads.
THEOREM WatchersFollow == Spec => []WatcherFollows
<1>1. HistoryInv => WatcherFollows
    BY CurrentHistory DEF History, WatcherFollows
<1> QED BY <1>1, AlwaysHistory, PTL
=============================================================================
