---------------------------- MODULE StreamMerge ----------------------------
(***************************************************************************)
(* Merging ordered streams of key-value results: the two functions of      *)
(* util.rs, and what stream_more (external) does with them.  An item is an *)
(* Ok record [key, sm] or Failure, an io::Error.                           *)
(***************************************************************************)
EXTENDS SeqMarked, MapKey, Sequences

CONSTANT Failure    \* an Err item: which error it is makes no difference

\* An Err is not an Ok.
ASSUME StreamMergeAssumption == Failure \notin [key : Keys, sm : SeqMarkeds]

Item == [key : Keys, sm : SeqMarkeds] \cup {Failure}

IsOk(r) == r # Failure

\* The assertion of by_key_seq: entries of one key with one order key are both
\* tombstones.
Clash(r1, r2) ==
    /\ IsOk(r1) /\ IsOk(r2)
    /\ r1.key = r2.key
    /\ SameOrder(r1.sm, r2.sm)
    /\ r1.sm.mark = Normal

\* (mutation of PlacedBefore: the key is not compared)
PlacedBeforeBySeq(r1, r2) ==
    IsOk(r1) /\ IsOk(r2) => Leq(r1.sm, r2.sm)

\* by_key_seq: by key, then by order key; an error compares as in order.
PlacedBefore(r1, r2) ==
    IsOk(r1) /\ IsOk(r2) =>
        r1.key < r2.key \/ (r1.key = r2.key /\ Leq(r1.sm, r2.sm))

\* (mutations of CanMerge: an error is merged into the item before it; any two
\* neighbours merge)
CanMergeErr(r1, r2) == IsOk(r1) /\ (~IsOk(r2) \/ r1.key = r2.key)
CanMergeAny(r1, r2) == IsOk(r1) /\ IsOk(r2)

\* merge_kv_results: when two neighbours become one, and which one.
CanMerge(r1, r2) == IsOk(r1) /\ IsOk(r2) /\ r1.key = r2.key

\* (mutation of Merge: the first of the two is kept)
MergeFirst(r1, r2) == r1

Merge(r1, r2) == IF IsOk(r2) THEN [key |-> r1.key, sm |-> Newer(r1.sm, r2.sm)] ELSE r1

-----------------------------------------------------------------------------
(* KMerge pops from a heap of the streams' heads one that by_key_seq puts  *)
(* strictly behind no other.  Between heads it does not order strictly (an *)
(* error and anything, two equal tombstones) either may go: the heap       *)
(* decides.                                                                *)

Heads(queues) == {i \in DOMAIN queues : queues[i] # << >>}

HeadsClash(queues) ==
    \E i, j \in Heads(queues) : i # j /\ Clash(Head(queues[i]), Head(queues[j]))

GoesFirst(queues, i) ==
    /\ i \in Heads(queues)
    /\ \A j \in Heads(queues) \ {i} :
          PlacedBefore(Head(queues[j]), Head(queues[i])) =>
              PlacedBefore(Head(queues[i]), Head(queues[j]))

(* StreamMore::coalesce: an item is held until the next one shows whether  *)
(* the two merge; the last is given out when the stream ends.  Held items  *)
(* are a sequence of at most one.                                          *)

HeldAfter(held, r) ==
    <<IF held # << >> /\ CanMerge(held[1], r) THEN Merge(held[1], r) ELSE r>>

GivenOut(held, r) ==
    IF held # << >> /\ ~CanMerge(held[1], r) THEN held ELSE << >>
=============================================================================
