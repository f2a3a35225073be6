---------------------------- MODULE LevelStream ----------------------------
(***************************************************************************)
(* compacted_range as its consumer meets it: the streams of any number of  *)
(* levels, merged and coalesced, drained item by item, while any of the    *)
(* levels may fail.  The top level is borrowed and the others are          *)
(* immutable until every stream is there, and the streams are 'static.     *)
(***************************************************************************)
EXTENDS Level, RangeIter, StreamMerge

CONSTANTS
    Stacks,    \* the entries of the levels a call may be given
    Ranges     \* bounds it may be given

\* Levels hold finitely many keys, in memory or on disk, and any entries: the
\* function is generic over them.
ASSUME LevelStreamAssumption ==
    /\ IsFiniteSet(Keys)
    /\ \A stack \in Stacks :
          /\ stack \in Seq({stack[i] : i \in DOMAIN stack})
          /\ \A i \in DOMAIN stack : IsEntries(stack[i])

VARIABLES
    levels,    \* top, immutable and persisted levels, in the order of the call
    range,
    phase,     \* of the call: "idle", "open", or how it ended
    queues,    \* what the stream of each level has left
    failed,    \* the levels whose stream has failed
    held,      \* the item coalesce holds back
    yielded    \* the items the consumer has got

vars == <<levels, range, phase, queues, failed, held, yielded>>

TypeOK ==
    /\ levels \in Stacks /\ range \in Ranges
    /\ phase \in {"idle", "open", "refused", "panicked", "done"}
    /\ queues \in [DOMAIN levels -> Seq(Item)]
    /\ failed \subseteq DOMAIN levels
    /\ held \in Seq(Item) /\ Len(held) <= 1
    /\ yielded \in Seq(Item)

-----------------------------------------------------------------------------

Init ==
    /\ levels \in Stacks /\ range \in Ranges
    /\ phase = "idle"
    /\ queues = [i \in DOMAIN levels |-> << >>]
    /\ failed = {}
    /\ held = << >>
    /\ yielded = << >>

\* Each level's range is called in turn, and each collects its entries.
Open ==
    /\ phase = "idle"
    /\ IF levels # << >> /\ InvertedRange(range)
       THEN phase' = "panicked" /\ UNCHANGED queues
       ELSE /\ phase' = "open"
            /\ queues' = [i \in DOMAIN levels |-> AsSequence(levels[i], range)]
    /\ UNCHANGED <<levels, range, failed, held, yielded>>

\* One of them returns Err, and so does the call.
Refuse ==
    /\ phase = "idle"
    /\ levels # << >>
    /\ phase' = "refused"
    /\ UNCHANGED <<levels, range, queues, failed, held, yielded>>

\* The stream of a level fails later: an Err item, after which it goes on, skips
\* records or ends (bound: each stream fails once).
Fail(i, skipped) ==
    /\ phase = "open"
    /\ i \notin failed
    /\ queues' = [queues EXCEPT ![i] = <<Failure>> \o SubSeq(@, skipped + 1, Len(@))]
    /\ failed' = failed \cup {i}
    /\ UNCHANGED <<levels, range, phase, held, yielded>>

\* The head goes first and is compared with the others without an assertion
\* failing.  An error in the heap leaves it without an order, for an error is
\* before and after everything: then and later any head may go.
MayGo(i) ==
    IF failed = {}
    THEN /\ GoesFirst(queues, i)
         /\ \A j \in Heads(queues) \ {i} : ~Clash(Head(queues[i]), Head(queues[j]))
    ELSE i \in Heads(queues)

\* The consumer's next: KMerge takes a head, coalesce takes it over.
Take(i) ==
    /\ phase = "open"
    /\ MayGo(i)
    /\ queues' = [queues EXCEPT ![i] = Tail(@)]
    /\ held' = HeldAfter(held, Head(queues[i]))
    /\ yielded' = yielded \o GivenOut(held, Head(queues[i]))
    /\ UNCHANGED <<levels, range, phase, failed>>

\* The heap compares two heads that trip the assertion; others may go before
\* it does.
Panic ==
    /\ phase = "open"
    /\ HeadsClash(queues)
    /\ phase' = "panicked"
    /\ UNCHANGED <<levels, range, queues, failed, held, yielded>>

\* All streams have ended.
Finish ==
    /\ phase = "open"
    /\ Heads(queues) = {}
    /\ phase' = "done"
    /\ yielded' = yielded \o held
    /\ held' = << >>
    /\ UNCHANGED <<levels, range, queues, failed>>

Next ==
    \/ Open \/ Refuse \/ Panic \/ Finish
    \/ \E i \in DOMAIN queues : Take(i)
    \/ \E i \in DOMAIN queues : \E skipped \in 0..Len(queues[i]) : Fail(i, skipped)

Spec == Init /\ [][Next]_vars

-----------------------------------------------------------------------------
(* Properties.                                                             *)

\* The levels, cut to the range.
Opened ==
    [i \in DOMAIN levels |->
        [k \in {j \in DOMAIN levels[i] : Inside(range, j)} |-> levels[i][k]]]

\* A stream drained without meeting an error has given exactly what Level states
\* of the range, and the assertion was not passed by: no two levels inside the
\* range had inadmissible entries.  It panics only where they have (compact.rs,
\* util.rs).
StreamIsRange ==
    /\ phase = "done" /\ Failure \notin {yielded[i] : i \in DOMAIN yielded} =>
          yielded = AsSequence(CompactedRange(levels), range) /\ ~CompactedRangePanics(Opened)
    /\ phase = "panicked" => InvertedRange(range) \/ CompactedRangePanics(Opened)

\* As long as no level has failed, each item the consumer has got is final: no
\* level has a newer entry of its key still to come, keys ascend, and no key
\* below it is left out.
FinalUntilFailure ==
    failed = {} =>
    \A i \in DOMAIN yielded :
        LET k == yielded[i].key
            asked == CompactedRange(levels)
        IN /\ i > 1 => yielded[i - 1].key < k
           /\ Inside(range, k) /\ k \in DOMAIN asked /\ yielded[i].sm = asked[k]
           /\ \A j \in DOMAIN asked : j < k /\ Inside(range, j) =>
                 \E h \in 1..i : yielded[h].key = j

\* Everything on its way to the consumer: left in a stream, held, or got.
Underway ==
    UNION ({{queues[i][j] : j \in DOMAIN queues[i]} : i \in DOMAIN queues}
           \cup {{held[j] : j \in DOMAIN held}, {yielded[j] : j \in DOMAIN yielded}})

\* Whichever levels fail and in whatever order items go then: an error met stays
\* on its way, and so does, for each entry of a level that has not failed, that
\* entry or a newer one of its key.  At the end of the stream they have come.
NothingLost ==
    phase \in {"open", "done"} =>
    /\ failed # {} => Failure \in Underway
    /\ \A i \in DOMAIN levels \ failed : \A k \in DOMAIN Opened[i] :
          \E r \in Underway : IsOk(r) /\ r.key = k /\ Leq(Opened[i][k], r.sm)
=============================================================================
