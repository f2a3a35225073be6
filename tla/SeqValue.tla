------------------------------ MODULE SeqValue ------------------------------
(***************************************************************************)
(* Records as a caller sees them, Option<SeqV>, and Change, the event that *)
(* tells of an update: seq_value.                                          *)
(***************************************************************************)
EXTENDS SeqMarked

\* A deleted record is None to a caller, as one that never was: NotFound here.
Option(m) == IF m.mark = Normal THEN m ELSE NotFound

\* The sequence a condition is checked against, 0 for None.
RecordSeq(m) == Option(m).seq

Change(key, before, after) ==
    [key |-> key, before |-> Option(before), after |-> Option(after)]

IsDelete(change) == IsNotFound(change.after)
=============================================================================
