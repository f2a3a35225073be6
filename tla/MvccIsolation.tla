--------------------------- MODULE MvccIsolation ---------------------------
(***************************************************************************)
(* Tables, snapshots and views implement the snapshot-isolated map of      *)
(* SnapshotMap, for a store that allocates a sequence to deletions and     *)
(* commits a view over its base only.                                      *)
(***************************************************************************)
EXTENDS Mvcc

\* A table read at a sequence, down to the user's values.
ReadAt(t, seq) == [k \in Keys |-> Get(t, k, seq).data]

Copy(view) == [k \in Keys |-> ViewGet(table, view, k).data]

\* The abstract map, its frozen copies and the copies transactions work on.
Db     == ReadAt(table, table.last_seq.seq)
Frozen == [s \in snapshots |-> ReadAt(table, s)]
Txns   == [w \in open |-> [base  |-> ReadAt(table, views[w].snapshot_seq),
                           local |-> Copy(views[w])]]

Abstract == INSTANCE SnapshotMap WITH
    SnapshotIds <- 0..MaxSeq, db <- Db, frozen <- Frozen, txns <- Txns

\* Every step of the versioned store is a step of the map, or no step at all:
\* snapshots are frozen, a view is a private copy with its own writes, a commit
\* installs it at once, and fetches, compactions and reloads are invisible.
Isolation == Abstract!Spec
=============================================================================
