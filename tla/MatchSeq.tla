------------------------------ MODULE MatchSeq ------------------------------
(***************************************************************************)
(* MatchSeq: what an operation requires of a record's sequence number.     *)
(***************************************************************************)
EXTENDS SeqValue

AnySeq   == [kind |-> "Any"]
Exact(s) == [kind |-> "Exact", seq |-> s]
GE(s)    == [kind |-> "GE", seq |-> s]

Matches(want, seq) ==
    \/ want.kind = "Any"
    \/ want.kind = "Exact" /\ seq = want.seq
    \/ want.kind = "GE" /\ seq >= want.seq

\* What match_seq returns for a record or None: Ok(()) or a ConflictSeq.
NotMatch(want, got) == [want |-> want, got |-> got]
MatchOf(want, m)    == IF Matches(want, RecordSeq(m)) THEN "Ok" ELSE NotMatch(want, RecordSeq(m))
=============================================================================
