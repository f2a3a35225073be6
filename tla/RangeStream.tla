---------------------------- MODULE RangeStream ----------------------------
(***************************************************************************)
(* View::range as its consumer meets it: a stream merged from the snapshot *)
(* and the staged changes, drained item by item, while the low-level       *)
(* reader under the snapshot may fail and the view is written further.     *)
(* The stream is 'static: it was collected by the call and does not borrow *)
(* the view.                                                               *)
(***************************************************************************)
EXTENDS View, Coalesce, StreamMerge

CONSTANTS
    SnapshotSeq,       \* the snapshot the view is over
    BaseVersions,      \* versions a key of the low-level reader may have
    StagedVersions,    \* versions a key of the view may have staged
    Ranges,            \* bounds the consumer may ask for
    MaxSeq,            \* bound: the view allocates no sequence above it
    MaxFailures        \* bound: errors of the low-level reader's stream

\* The keys that occur are finitely many, for tables are held in memory, and an
\* order key has one version, as in a BTreeMap; and sequences fit a u64.
ASSUME RangeStreamAssumption ==
    /\ IsFiniteSet(Keys)
    /\ MaxSeq \in 0..MaxU64 /\ SnapshotSeq \in 0..MaxSeq /\ MaxFailures \in Nat
    /\ \A versions \in BaseVersions \cup StagedVersions :
          /\ IsFiniteSet(versions)
          /\ \A m \in versions : m \in SeqMarkeds /\ m.seq <= MaxSeq
          /\ \A m, n \in versions : SameOrder(m, n) => m = n
    /\ \A asked \in Ranges :
          /\ asked = [start |-> asked.start, end |-> asked.end]
          /\ IsBound(asked.start) /\ IsBound(asked.end)

VARIABLES
    table,       \* the low-level reader's content
    view,
    range,       \* the bounds asked for
    opened,      \* the view as it was when range was called
    phase,       \* of the call: "idle", "open", or how it ended
    queues,      \* what the two merged streams have left: <<base, staged>>
    failures,
    held,        \* the item coalesce holds back
    yielded      \* the items the consumer has got

vars == <<table, view, range, opened, phase, queues, failures, held, yielded>>

TypeOK ==
    /\ table \in Tables
    /\ view \in Views /\ opened \in Views
    /\ range \in Ranges
    /\ phase \in {"idle", "open", "refused", "panicked", "done"}
    /\ \A i \in DOMAIN queues : queues[i] \in Seq(Item)
    /\ failures \in 0..MaxFailures
    /\ held \in Seq(Item) /\ Len(held) <= 1
    /\ yielded \in Seq(Item)

-----------------------------------------------------------------------------

StagedSeq(changes) ==
    LET seqs == {m.seq : m \in UNION {changes[k] : k \in Keys}} \cup {SnapshotSeq}
    IN CHOOSE s \in seqs : \A r \in seqs : r <= s

Init ==
    /\ \E inner \in [Keys -> BaseVersions] :
          table = [inner |-> inner, last_seq |-> OrderKey(NewTombstone(MaxSeq))]
    /\ \E staged \in [Keys -> StagedVersions] :
          view = [NewView(SnapshotSeq, StagedSeq(staged), FALSE) EXCEPT
                    !.changes = [inner    |-> staged,
                                 last_seq |-> OrderKey(NewTombstone(StagedSeq(staged)))]]
    /\ range \in Ranges
    /\ opened = view
    /\ phase = "idle"
    /\ queues = << << >>, << >> >>
    /\ failures = 0
    /\ held = << >>
    /\ yielded = << >>

\* range: both sources are collected in the call, or it panics on its bounds.
Open ==
    /\ phase = "idle"
    /\ IF OpenPanics(range)
       THEN phase' = "panicked" /\ UNCHANGED queues
       ELSE /\ phase' = "open"
            /\ queues' = <<Collect(table, range, view.snapshot_seq),
                           Collect(view.changes, range, view.last_seq)>>
    /\ opened' = view
    /\ UNCHANGED <<table, view, range, failures, held, yielded>>

\* The low-level reader's range_at_seq fails at once: the call returns Err.
Refuse ==
    /\ phase = "idle"
    /\ phase' = "refused"
    /\ opened' = view
    /\ UNCHANGED <<table, view, range, queues, failures, held, yielded>>

\* Its stream fails later: an Err item, after which it goes on, skips records
\* or ends.
Fail(skipped) ==
    /\ phase = "open"
    /\ failures < MaxFailures
    /\ queues' = [queues EXCEPT ![1] = <<Failure>> \o SubSeq(@, skipped + 1, Len(@))]
    /\ failures' = failures + 1
    /\ UNCHANGED <<table, view, range, opened, phase, held, yielded>>

\* The consumer's next: KMerge takes a head, coalesce takes it over.
Take(i) ==
    /\ phase = "open"
    /\ ~HeadsClash(queues)
    /\ GoesFirst(queues, i)
    /\ queues' = [queues EXCEPT ![i] = Tail(@)]
    /\ held' = HeldAfter(held, Head(queues[i]))
    /\ yielded' = yielded \o GivenOut(held, Head(queues[i]))
    /\ UNCHANGED <<table, view, range, opened, phase, failures>>

\* The comparison of two heads trips the assertion.
Panic ==
    /\ phase = "open"
    /\ HeadsClash(queues)
    /\ phase' = "panicked"
    /\ UNCHANGED <<table, view, range, opened, queues, failures, held, yielded>>

\* Both streams have ended.
Finish ==
    /\ phase = "open"
    /\ Heads(queues) = {}
    /\ phase' = "done"
    /\ yielded' = yielded \o held
    /\ held' = << >>
    /\ UNCHANGED <<table, view, range, opened, queues, failures>>

\* The owner of the view stages a write while the stream is drained (bound:
\* one write).
Write(k, value) ==
    /\ phase = "open"
    /\ view = opened
    /\ NextSeq(view, value, TRUE) <= MaxSeq
    /\ view' = Stage(view, k, value, TRUE)
    /\ UNCHANGED <<table, range, opened, phase, queues, failures, held, yielded>>

Drain == Open \/ Refuse \/ (\E i \in DOMAIN queues : Take(i)) \/ Panic \/ Finish

Next ==
    \/ Drain
    \/ \E skipped \in 0..Len(queues[1]) : Fail(skipped)
    \/ \E k \in Keys, value \in OptionalValues : Write(k, value)

\* The consumer goes on asking for the next item, as try_collect and the loops
\* over next do.  Nothing obliges the reader to fail or the owner to write.
Spec == Init /\ [][Next]_vars /\ WF_vars(Drain)

-----------------------------------------------------------------------------
(* Properties.                                                             *)

\* What the call asked for, from the definition of a range on whole tables.
Asked == AsSequence(ViewRange(table, opened), range)

\* The bounds on (key, reversed order key) and the two skips of the cursor
\* select, for every table and range, the newest version at or below upto of
\* each key inside the range, in key order; and they panic only for bounds
\* that exclude each other on plain keys too (table/mod.rs, range_iter.rs).
CursorIsRange ==
    phase = "idle" =>
    /\ OpenPanics(range) <=> InvertedRange(range)
    /\ Collect(table, range, view.snapshot_seq)
          = AsSequence(RangeUpto(table, view.snapshot_seq), range)
    /\ Collect(view.changes, range, view.last_seq)
          = AsSequence(RangeUpto(view.changes, view.last_seq), range)

\* Compacting two tables entry by entry keeps, for every minimum snapshot, the
\* versions Survivors states, and fails its assertion exactly where
\* CompactPanics says (merge.rs, coalesce.rs).
CompactIsCoalesce ==
    phase = "idle" =>
    \A min \in 0..MaxSeq :
        LET coalesced == Coalesced(table, view.changes, min)
        IN /\ coalesced.panicked <=> CompactPanics(table, view.changes, min)
           /\ ~coalesced.panicked =>
                 coalesced.out \o coalesced.held
                    = InOrder(Entries(Compact(table, view.changes, min)))

\* A stream drained without meeting an error has given exactly the range as it
\* was at the call: nothing is lost with an error nobody saw, no key comes
\* twice, and no later write of the view shows (view.rs, util.rs).  It panics
\* only where the range itself has an inadmissible pair.
StreamIsRange ==
    /\ phase = "done" /\ Failure \notin {yielded[i] : i \in DOMAIN yielded} => yielded = Asked
    /\ phase = "panicked" => InvertedRange(range) \/ RangePanics(table, opened)

\* Items the consumer has got, not after an error and not right before one.
Trusted ==
    LET known == yielded \o held
    IN {i \in DOMAIN yielded : \A j \in DOMAIN known : j <= i + 1 => IsOk(known[j])}

\* A consumer may trust an item once an Ok item follows it or the stream ends:
\* keys ascend, each item is the range's own or the staged write of its key, and
\* no staged write below an item is left out.  (A base record below it may be:
\* the error may stand for it.
\* And the item right before an error may be a base record whose staged
\* successor comes only after the error.)
TrustedUntilError ==
    \A i \in Trusted :
        LET k == yielded[i].key
            asked == ViewRange(table, opened)
            staged == RangeUpto(opened.changes, opened.last_seq)
        IN /\ i > 1 => yielded[i - 1].key < k
           /\ Inside(range, k) /\ k \in DOMAIN asked
           /\ yielded[i].sm = asked[k] \/ (k \in DOMAIN staged /\ yielded[i].sm = staged[k])
           /\ \A j \in DOMAIN staged : j < k /\ Inside(range, j) =>
                 \E h \in 1..i : yielded[h].key = j

\* Everything on its way to the consumer: left in a stream, held, or got.
Underway == UNION {{q[i] : i \in DOMAIN q} : q \in {queues[1], queues[2], yielded \o held}}

\* An error met, and each staged key inside the range, stay on their way until
\* the consumer has them, whatever is merged, coalesced or skipped meanwhile: at
\* the end of the stream they have come.
NothingLost ==
    phase \in {"open", "done"} =>
    /\ failures > 0 => Failure \in Underway
    /\ \A k \in Keys : Inside(range, k) /\ opened.changes.inner[k] # {} =>
          \E r \in Underway : IsOk(r) /\ r.key = k

\* An error of the low-level reader reaches the consumer: neither the merge nor
\* the coalescing swallows it, and the held item is not forgotten.
ErrorSurfaces ==
    (failures > 0) ~> (phase = "panicked" \/ \E i \in DOMAIN yielded : ~IsOk(yielded[i]))

\* Whatever the low-level reader does, each staged key inside the range comes.
StagedKeysCome ==
    \A k \in Keys :
        (phase = "open" /\ Inside(range, k) /\ opened.changes.inner[k] # {})
            ~> (phase = "panicked" \/ \E i \in DOMAIN yielded : IsOk(yielded[i]) /\ yielded[i].key = k)
=============================================================================
