----------------------------- MODULE RangeIter -----------------------------
(***************************************************************************)
(* Table::range and its cursor RangeIter: bounds on keys are translated to *)
(* bounds on the BTreeMap's own keys, (key, reversed order key), and the   *)
(* cursor walks the entries between them once.  Keys are numbers, because  *)
(* their order matters here.                                               *)
(***************************************************************************)
EXTENDS Table, FiniteSets, Sequences

CONSTANT MaxU64    \* the greatest sequence number a u64 holds

ASSUME RangeIterAssumption == Keys \subseteq Nat /\ MaxU64 \in Nat

\* The greatest order key, SeqMarked::max_value().
MaxValue == OrderKey(NewTombstone(MaxU64))

-----------------------------------------------------------------------------
(* Bounds.  A position [key, sm] is a key of the BTreeMap; an entry is one *)
(* with its data.                                                          *)

Unbounded   == [kind |-> "Unbounded"]
Included(at) == [kind |-> "Included", at |-> at]
Excluded(at) == [kind |-> "Excluded", at |-> at]

\* Of one key the newest version comes first.
Before(p, q) == p.key < q.key \/ (p.key = q.key /\ Lt(q.sm, p.sm))

StartBound(bound) ==
    CASE bound.kind = "Unbounded" -> Unbounded
      [] bound.kind = "Included"  -> Included([key |-> bound.at, sm |-> MaxValue])
      [] bound.kind = "Excluded"  -> Excluded([key |-> bound.at, sm |-> Zero])

EndBound(bound) ==
    CASE bound.kind = "Unbounded" -> Unbounded
      [] bound.kind = "Included"  -> Included([key |-> bound.at, sm |-> Zero])
      [] bound.kind = "Excluded"  -> Excluded([key |-> bound.at, sm |-> MaxValue])

IsAfter(start, p) ==
    CASE start.kind = "Unbounded" -> TRUE
      [] start.kind = "Included"  -> ~Before(p, start.at)
      [] start.kind = "Excluded"  -> Before(start.at, p)

IsBefore(end, p) ==
    CASE end.kind = "Unbounded" -> TRUE
      [] end.kind = "Included"  -> ~Before(end.at, p)
      [] end.kind = "Excluded"  -> Before(p, end.at)

\* BTreeMap::range panics when the start is after the end, or at it and both
\* exclude it.
Inverted(start, end) ==
    /\ start.kind # "Unbounded"
    /\ end.kind # "Unbounded"
    /\ \/ Before(end.at, start.at)
       \/ start = end /\ start.kind = "Excluded"

\* The bounds of a range a caller can write.
IsBound(bound) ==
    bound = Unbounded \/ (bound.at \in Nat /\ bound \in {Included(bound.at), Excluded(bound.at)})

OpenPanics(range) == Inverted(StartBound(range.start), EndBound(range.end))

-----------------------------------------------------------------------------
(* The cursor.                                                             *)

Entries(t) == UNION {{[key |-> k, sm |-> m] : m \in t.inner[k]} : k \in Keys}

\* The entries in the order of the BTreeMap.
InOrder(entries) ==
    [i \in 1..Cardinality(entries) |->
        CHOOSE e \in entries : Cardinality({f \in entries : Before(f, e)}) = i - 1]

NewCursor == [last_seen |-> {}, out |-> << >>]

\* (mutation of Advance: a version that is too new counts as seen)
AdvanceSeenTooNew(cursor, e, upto) ==
    IF e.key \in cursor.last_seen THEN cursor
    ELSE [last_seen |-> {e.key},
          out |-> IF Lt(NewTombstone(upto), e.sm) THEN cursor.out ELSE Append(cursor.out, e)]

\* One turn of the loop in next: skip an older version of the key yielded last,
\* skip a version that is too new, or yield.
Advance(cursor, e, upto) ==
    IF e.key \in cursor.last_seen \/ Lt(NewTombstone(upto), e.sm) THEN cursor
    ELSE [last_seen |-> {e.key}, out |-> Append(cursor.out, e)]

\* The cursor after each number of entries.
Walked(entries, upto) ==
    LET cursor[n \in 0..Len(entries)] ==
            IF n = 0 THEN NewCursor ELSE Advance(cursor[n - 1], entries[n], upto)
    IN cursor

\* range(range, upto) collected: what range_at_seq and View::range do at once.
Collect(t, range, upto) ==
    LET start   == StartBound(range.start)
        end     == EndBound(range.end)
        between == {e \in Entries(t) : IsAfter(start, e) /\ IsBefore(end, e)}
        walk    == InOrder(between)
    IN Walked(walk, upto)[Len(walk)].out

-----------------------------------------------------------------------------
(* What a range over plain keys means.                                     *)

Inside(range, k) ==
    /\ CASE range.start.kind = "Unbounded" -> TRUE
         [] range.start.kind = "Included"  -> k >= range.start.at
         [] range.start.kind = "Excluded"  -> k > range.start.at
    /\ CASE range.end.kind = "Unbounded" -> TRUE
         [] range.end.kind = "Included"  -> k <= range.end.at
         [] range.end.kind = "Excluded"  -> k < range.end.at

\* Bounds that exclude each other: BTreeMap::range panics on them.
InvertedRange(range) ==
    LET start == range.start
        end == range.end
    IN /\ start.kind # "Unbounded" /\ end.kind # "Unbounded"
       /\ start.at > end.at \/ (start = end /\ start.kind = "Excluded")

\* A whole-table range given as a function, cut to the keys inside and put in
\* key order.
AsSequence(found, range) ==
    InOrder({[key |-> k, sm |-> found[k]] : k \in {j \in DOMAIN found : Inside(range, j)}})
=============================================================================
