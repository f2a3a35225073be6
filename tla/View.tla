-------------------------------- MODULE View --------------------------------
(***************************************************************************)
(* mvcc::View: changes staged over a snapshot of a table.  A view is the   *)
(* record [increase_seq_for_tombstone, changes, last_seq, snapshot_seq];   *)
(* the table its snapshot reads is passed to the operators, because it is  *)
(* shared with other views and moves under them.                           *)
(***************************************************************************)
EXTENDS Table

Views == [increase_seq_for_tombstone : BOOLEAN, changes : Tables,
          last_seq : Nat, snapshot_seq : Nat]

\* (mutation of NewView: the initial sequence is not taken over)
NewViewFromZero(snapshot_seq, initial_seq, increase) ==
    [increase_seq_for_tombstone |-> increase, changes |-> NewTable,
     last_seq |-> 0, snapshot_seq |-> snapshot_seq]

NewView(snapshot_seq, initial_seq, increase) ==
    [increase_seq_for_tombstone |-> increase, changes |-> NewTable,
     last_seq |-> initial_seq, snapshot_seq |-> snapshot_seq]

\* What a write takes: a value, or None to delete.
OptionalValues == Values \cup {NoValue}

\* (mutation of NextSeq: deletions ignore the view's own flag)
NextSeqReusing(view, value, increase) ==
    IF increase /\ value # NoValue THEN view.last_seq + 1 ELSE view.last_seq

\* The sequence a write takes: next_normal_seq, current_normal_seq or
\* next_tombstone_seq.  A deletion never looks at the caller's increase flag.
NextSeq(view, value, increase) ==
    LET increments == IF value = NoValue THEN view.increase_seq_for_tombstone
                                         ELSE increase
    IN IF increments THEN view.last_seq + 1 ELSE view.last_seq

\* (mutation of Stage: the write takes the sequence before the increment)
StagePostIncrement(view, k, value, increase) ==
    [view EXCEPT !.last_seq = NextSeq(view, value, increase),
                 !.changes = Insert(@, k, NewMarked(view.last_seq, value))]

\* set (increase) and set_without_seq_increment (~increase).
Stage(view, k, value, increase) ==
    LET seq == NextSeq(view, value, increase)
    IN [view EXCEPT !.last_seq = seq,
                    !.changes = Insert(@, k, NewMarked(seq, value))]

\* (mutations of CompactPair: arguments swapped; any staged deletion is skipped)
CompactPairSwapped(newer, older) == IF IsNotFound(older) THEN newer ELSE older
CompactPairValues(newer, older)  == IF newer.mark = TombStone THEN older ELSE newer

\* compact_seq_marked_pair
CompactPair(newer, older) == IF IsNotFound(newer) THEN older ELSE newer

\* (mutations of ViewGet: the base is read at its latest, not at the snapshot;
\* staged changes are not read)
ViewGetLatest(t, view, k) ==
    CompactPair(Get(view.changes, k, view.last_seq), Get(t, k, t.last_seq.seq))

ViewGetBase(t, view, k) == Get(t, k, view.snapshot_seq)

ViewGet(t, view, k) ==
    CompactPair(Get(view.changes, k, view.last_seq), Get(t, k, view.snapshot_seq))

-----------------------------------------------------------------------------
(* View::range merges two ordered streams, base and staged.                *)

\* by_key_seq asserts that entries of one key with one order key are both
\* tombstones.
RangePanics(t, view) ==
    LET base == RangeUpto(t, view.snapshot_seq)
        updates == RangeUpto(view.changes, view.last_seq)
    IN \E k \in DOMAIN base \cap DOMAIN updates :
          SameOrder(base[k], updates[k]) /\ base[k].mark = Normal

ViewRange(t, view) ==
    LET base == RangeUpto(t, view.snapshot_seq)
        updates == RangeUpto(view.changes, view.last_seq)
    IN [k \in DOMAIN base \cup DOMAIN updates |->
          CASE k \notin DOMAIN updates -> base[k]
            [] k \notin DOMAIN base    -> updates[k]
            [] OTHER                   -> Newer(base[k], updates[k])]
=============================================================================
