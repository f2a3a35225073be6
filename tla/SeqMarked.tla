----------------------------- MODULE SeqMarked -----------------------------
(***************************************************************************)
(* Values tagged with a sequence number and a normal/tombstone mark: what  *)
(* map-api takes from the external crate seq_marked.  The crate itself is  *)
(* not in the repository; these operators are read off its uses (src/lib.rs *)
(* re-exports, the ordering tests of util.rs, Table and View).             *)
(*                                                                         *)
(* A record [seq, mark, data] stands for SeqMarked<D>; a record [seq, mark] *)
(* for SeqMarked<()>, the order key.  Both are ordered by seq and, at one  *)
(* seq, a normal mark comes before a tombstone.                            *)
(***************************************************************************)
EXTENDS Naturals

CONSTANTS
    Values,    \* user values a key may hold
    NoValue    \* stands for Option::None: deleted, or never written

ASSUME NoValueAssumption == NoValue \notin Values

Normal    == 0
TombStone == 1
Marks     == {Normal, TombStone}

OrderKeys == [seq : Nat, mark : Marks]

\* Versions a store may hold: a tombstone carries no data, a normal one does.
SeqMarkeds ==
    {m \in [seq : Nat, mark : Marks, data : Values \cup {NoValue}] :
        m.mark = TombStone <=> m.data = NoValue}

NewNormal(seq, value) == [seq |-> seq, mark |-> Normal, data |-> value]
NewTombstone(seq)     == [seq |-> seq, mark |-> TombStone, data |-> NoValue]

\* (mutation of NewMarked: the mark is forgotten)
MarkForgotten(seq, value) == NewNormal(seq, value)

\* Some(value) is stored as a normal record, None as a tombstone.
NewMarked(seq, value) ==
    IF value = NoValue THEN NewTombstone(seq) ELSE NewNormal(seq, value)

\* A tombstone at sequence 0 doubles as "there is no such key".
NotFound      == NewTombstone(0)
IsNotFound(m) == m.seq = 0 /\ m.mark = TombStone

OrderKey(m) == [seq |-> m.seq, mark |-> m.mark]
Zero        == [seq |-> 0, mark |-> Normal]

Lt(a, b)        == a.seq < b.seq \/ (a.seq = b.seq /\ a.mark < b.mark)
SameOrder(a, b) == a.seq = b.seq /\ a.mark = b.mark
Leq(a, b)       == Lt(a, b) \/ SameOrder(a, b)
Newer(a, b)     == IF Leq(a, b) THEN b ELSE a
=============================================================================
