------------------------------ MODULE TestKit ------------------------------
(***************************************************************************)
(* What the modules with the repository's unit tests share.  A test is the *)
(* sequence of its assertions, each a pair of what the model's operators   *)
(* compute and what the test expects.  Strings are kept as values; keys    *)
(* are numbers in the order of the test's strings.                         *)
(***************************************************************************)
EXTENDS View, Coalesce, StreamMerge, MatchSeq
LOCAL INSTANCE SequencesExt

Is(got, want) == <<got, want>>
Holds(got)    == <<got, TRUE>>

N(seq, value) == NewNormal(seq, value)
T(seq)        == NewTombstone(seq)
E(key, sm)    == [key |-> key, sm |-> sm]

k1 == 1
k2 == 2
k3 == 3
k4 == 4
k5 == 5
k6 == 6

All            == [start |-> Unbounded, end |-> Unbounded]
From(k)        == [start |-> Included(k), end |-> Unbounded]
After(k)       == [start |-> Excluded(k), end |-> Unbounded]
Till(k)        == [start |-> Unbounded, end |-> Excluded(k)]
Through(k)     == [start |-> Unbounded, end |-> Included(k)]
FromTill(k, j) == [start |-> Included(k), end |-> Excluded(j)]
FromThrough(k, j) == [start |-> Included(k), end |-> Included(j)]

\* table.inner.insert, which leaves last_seq alone.
Inner(entries) ==
    FoldLeft(LAMBDA t, e : [t EXCEPT !.inner[e.key] = Put(@, e.sm)], NewTable, entries)

\* A series of insert and insert_tombstone.
Inserted(entries) == FoldLeft(LAMBDA t, e : Insert(t, e.key, e.sm), NewTable, entries)

WithLast(t, last_seq) == [t EXCEPT !.last_seq = OrderKey(last_seq)]

\* The table with the highest order key of its entries as last_seq.
TableOf(entries) ==
    FoldLeft(LAMBDA t, e : IF Lt(t.last_seq, e.sm) THEN WithLast(t, e.sm) ELSE t,
             Inner(entries), entries)

\* The entries of a table in the order of its BTreeMap, collect_inner.
Content(t) == InOrder(Entries(t))

\* from_stream: the first Err item is returned instead of a table.
StreamFails(items) == \E i \in DOMAIN items : ~IsOk(items[i])

\* All of it: the streams merged by by_key_seq and coalesced by merge_kv_results,
\* drained to the end.
Drained(queues) ==
    LET total == Len(FlattenSeq(queues))
        after[n \in 0..total] ==
            IF n = 0 THEN [queues |-> queues, held |-> << >>, out |-> << >>]
            ELSE LET s == after[n - 1]
                     i == CHOOSE i \in DOMAIN queues : GoesFirst(s.queues, i)
                     r == Head(s.queues[i])
                 IN [queues |-> [s.queues EXCEPT ![i] = Tail(@)],
                     held   |-> HeldAfter(s.held, r),
                     out    |-> s.out \o GivenOut(s.held, r)]
    IN after[total].out \o after[total].held
=============================================================================
