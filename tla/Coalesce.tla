------------------------------ MODULE Coalesce ------------------------------
(***************************************************************************)
(* Table::compact the way it runs: the entries of both tables merged into  *)
(* one sorted sequence, and neighbours coalesced one pair after the other. *)
(* Table's Compact, Survivors and CompactPanics state what comes out.      *)
(***************************************************************************)
EXTENDS RangeIter

SamePlace(e, f) == e.key = f.key /\ SameOrder(e.sm, f.sm)

\* The assertion of coalesce: entries come in strict order.
OutOfOrder(ent1, ent2) == ~Before(ent1, ent2)

\* (mutation of Coalesces: the smaller one decides)
CoalescesOlder(ent1, ent2, min) == ent1.key = ent2.key /\ ent2.sm.seq <= min

\* coalesce: whether the first of two neighbours absorbs the second.
Coalesces(ent1, ent2, min) == ent1.key = ent2.key /\ ent1.sm.seq <= min

\* kmerge_by: both tables' entries in one order; of two at one place either
\* may come first.
Merged(t, other) ==
    LET both == ({1} \X Entries(t)) \cup ({2} \X Entries(other))
        first(p, q) == \/ Before(p[2], q[2])
                       \/ SamePlace(p[2], q[2]) /\ p[1] < q[1]
    IN [i \in 1..Cardinality(both) |->
           (CHOOSE p \in both : Cardinality({q \in both : first(q, p)}) = i - 1)[2]]

\* Itertools::coalesce: an item is held and compared with the next one.
CoalesceNext(s, ent, min) ==
    IF s.held = << >> THEN [s EXCEPT !.held = <<ent>>]
    ELSE IF OutOfOrder(s.held[1], ent) THEN [s EXCEPT !.panicked = TRUE]
    ELSE IF Coalesces(s.held[1], ent, min) THEN s
    ELSE [s EXCEPT !.out = @ \o s.held, !.held = <<ent>>]

\* compact after each number of entries; a failed assertion ends it.
CoalescedUpto(merged, min) ==
    LET coalesced[n \in 0..Len(merged)] ==
            IF n = 0 THEN [held |-> << >>, out |-> << >>, panicked |-> FALSE]
            ELSE IF coalesced[n - 1].panicked THEN coalesced[n - 1]
            ELSE CoalesceNext(coalesced[n - 1], merged[n], min)
    IN coalesced

\* compact up to the end, or to the first assertion that fails.
Coalesced(t, other, min) ==
    LET merged == Merged(t, other)
    IN CoalescedUpto(merged, min)[Len(merged)]
=============================================================================
