------------------------------- MODULE Table -------------------------------
(***************************************************************************)
(* mvcc::Table: an ordered map from (key, reversed order key) to a value.  *)
(* Here a table is [inner, last_seq]: inner[k] is the set of versions kept *)
(* for k, at most one for each order key, and the BTreeMap's order is the  *)
(* order of Lt on them.  The operations are operators on tables, so that   *)
(* several tables (the store, a view's staged changes) can be composed.    *)
(***************************************************************************)
EXTENDS SeqMarked, MapKey

Tables == [inner : [Keys -> SUBSET SeqMarkeds], last_seq : OrderKeys]

NewTable == [inner |-> [k \in Keys |-> {}], last_seq |-> Zero]

NoVersions(t) == \A k \in Keys : t.inner[k] = {}

Newest(versions) == CHOOSE m \in versions : \A n \in versions : Leq(n, m)

-----------------------------------------------------------------------------
(* Writes.                                                                 *)

\* BTreeMap::insert: an entry with the same (key, order key) is replaced.
Put(versions, m) == {n \in versions : ~SameOrder(n, m)} \cup {m}

\* internal_insert refuses only a sequence below the last one.
CanInsert(t, m) == m.seq >= t.last_seq.seq

Insert(t, k, m) ==
    [inner |-> [t.inner EXCEPT ![k] = Put(@, m)], last_seq |-> OrderKey(m)]

\* (mutation of Extend: a changed key loses its older versions)
ExtendReplacing(inner, changes) ==
    [k \in Keys |-> IF changes[k] = {} THEN inner[k] ELSE changes[k]]

\* BTreeMap::extend, one Put for each changed version.
Extend(inner, changes) ==
    [k \in Keys |->
        {n \in inner[k] : \A m \in changes[k] : ~SameOrder(n, m)} \cup changes[k]]

\* (mutation of CanApply: the assertion is left out)
CanApplyAny(t, changes) == TRUE

\* The assertion of apply_changes, which apply calls with the change set's
\* own last_seq and content.
CanApply(t, changes) == Leq(t.last_seq, changes.last_seq)

\* (mutation of Apply: the table's last_seq is not moved)
ApplyContent(t, changes) == [t EXCEPT !.inner = Extend(@, changes.inner)]

Apply(t, changes) ==
    [inner |-> Extend(t.inner, changes.inner), last_seq |-> changes.last_seq]

\* (mutation of FromStream: deletions are left out)
FromStreamValues(entries) ==
    LET live == {k \in DOMAIN entries : entries[k].mark = Normal}
    IN [inner    |-> [k \in Keys |-> IF k \in live THEN {entries[k]} ELSE {}],
        last_seq |-> IF live = {} THEN Zero ELSE OrderKey(Newest({entries[k] : k \in live}))]

\* from_stream on a stream with at most one entry for each key of its domain.
FromStream(entries) ==
    LET streamed == {entries[k] : k \in DOMAIN entries}
    IN [inner    |-> [k \in Keys |-> IF k \in DOMAIN entries THEN {entries[k]} ELSE {}],
        last_seq |-> IF streamed = {} THEN Zero ELSE OrderKey(Newest(streamed))]

-----------------------------------------------------------------------------
(* Reads at a sequence number.                                             *)

\* (mutation of Visible: the bound is the normal order key of upto)
VisibleNormal(versions, upto) ==
    {m \in versions : Leq(m, [seq |-> upto, mark |-> Normal])}

\* The bound is a sequence, so a tombstone at exactly upto is visible.
Visible(versions, upto) == {m \in versions : Leq(m, NewTombstone(upto))}

Get(t, k, upto) ==
    LET seen == Visible(t.inner[k], upto)
    IN IF seen = {} THEN NotFound ELSE Newest(seen)

\* The whole-table range: one entry for each key with a visible version,
\* tombstones included.
RangeUpto(t, upto) ==
    [k \in {j \in Keys : Visible(t.inner[j], upto) # {}} |->
        Newest(Visible(t.inner[k], upto))]

-----------------------------------------------------------------------------
(* Compaction.                                                             *)

\* (mutations of Shadowed: a bound one too high; an entry that shadows itself)
ShadowedOneHigher(versions, m, min) == \E g \in versions : g.seq <= min + 1 /\ Lt(m, g)
ShadowedByItself(versions, m, min)  == \E g \in versions : g.seq <= min /\ Leq(m, g)

\* A version goes once a newer one of its key is at or below min.
Shadowed(versions, m, min) == \E g \in versions : g.seq <= min /\ Lt(m, g)
Survivors(versions, min)   == {m \in versions : ~Shadowed(versions, m, min)}

\* (mutation of Compact: the merged table takes the other's last_seq)
CompactLastOfOther(t, other, min) ==
    [inner    |-> [k \in Keys |-> Survivors(t.inner[k] \cup other.inner[k], min)],
     last_seq |-> other.last_seq]

Compact(t, other, min) ==
    [inner    |-> [k \in Keys |-> Survivors(t.inner[k] \cup other.inner[k], min)],
     last_seq |-> IF Lt(other.last_seq, t.last_seq) THEN t.last_seq ELSE other.last_seq]

\* coalesce asserts that entries come in strict order: an order key found in
\* both tables trips it, unless an already coalesced newer entry absorbs both.
CompactPanics(t, other, min) ==
    \E k \in Keys : \E m \in t.inner[k], n \in other.inner[k] :
        SameOrder(m, n) /\ ~Shadowed(t.inner[k] \cup other.inner[k], m, min)

-----------------------------------------------------------------------------
(* What every table should be.                                             *)

\* A key has at most one version for each order key, so that "the newest
\* visible version" is one record.
Unique(t) ==
    \A k \in Keys : \A m, n \in t.inner[k] : SameOrder(m, n) => m = n

\* last_seq bounds every sequence in the table and, unless the table is empty,
\* is the sequence of some version in it.
Highest(t) ==
    /\ \A k \in Keys : \A m \in t.inner[k] : m.seq <= t.last_seq.seq
    /\ \/ NoVersions(t) /\ t.last_seq = Zero
       \/ \E k \in Keys : \E m \in t.inner[k] : m.seq = t.last_seq.seq
=============================================================================
