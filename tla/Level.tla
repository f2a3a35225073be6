------------------------------- MODULE Level -------------------------------
(***************************************************************************)
(* The levels the crate supplies, impls::level::Level and Immutable, and   *)
(* the two reads of a stack of them, compacted_get and compacted_range of  *)
(* compact.rs.                                                             *)
(***************************************************************************)
EXTENDS SeqMarked, MapKey, Sequences

\* The entries of a level, at most one for each key, and a level: its sequence
\* counter and its entries.
IsEntries(e) == DOMAIN e \subseteq Keys /\ e \in [DOMAIN e -> SeqMarkeds]
IsLevel(l)   == l \in [seq : Nat, entries : {l.entries}] /\ IsEntries(l.entries)

-----------------------------------------------------------------------------
(* One level.                                                              *)

\* (mutation of NewLevel: the counter starts again)
LevelFromZero(level) == [seq |-> 0, entries |-> << >>]

\* new_level: an empty level that goes on counting.
NewLevel(level) == [seq |-> level.seq, entries |-> << >>]

\* (mutations of LevelSet: a value takes no sequence; the mark is forgotten)
LevelSetSameSeq(level, k, value) ==
    [level EXCEPT !.entries = [j \in DOMAIN @ \cup {k} |->
                                 IF j = k THEN NewMarked(level.seq, value) ELSE @[j]]]
LevelSetUnmarked(level, k, value) ==
    [level EXCEPT !.entries = [j \in DOMAIN @ \cup {k} |->
                                 IF j = k THEN NewNormal(level.seq, value) ELSE @[j]]]

\* A value takes the next sequence, a deletion the last one.
LevelSet(level, k, value) ==
    LET seq == IF value = NoValue THEN level.seq ELSE level.seq + 1
    IN [seq     |-> seq,
        entries |-> [j \in DOMAIN level.entries \cup {k} |->
                       IF j = k THEN NewMarked(seq, value) ELSE level.entries[j]]]

LevelGet(entries, k) == IF k \in DOMAIN entries THEN entries[k] ELSE NotFound

-----------------------------------------------------------------------------
(* Reads of a stack of levels, newest first.                               *)

\* (mutation of CompactedGet: a deletion does not end the search)
CompactedGetValue(levels, k) ==
    LET found == {i \in DOMAIN levels : LevelGet(levels[i], k).mark = Normal}
    IN IF found = {} THEN NotFound
       ELSE LevelGet(levels[CHOOSE i \in found : \A j \in found : i <= j], k)

\* The search ends at the first level that has the key, deleted or not.
CompactedGet(levels, k) ==
    LET found == {i \in DOMAIN levels : ~IsNotFound(LevelGet(levels[i], k))}
    IN IF found = {} THEN NotFound
       ELSE LevelGet(levels[CHOOSE i \in found : \A j \in found : i <= j], k)

EntriesFor(levels, k) ==
    {levels[i][k] : i \in {j \in DOMAIN levels : k \in DOMAIN levels[j]}}

Greatest(entries) == CHOOSE m \in entries : \A n \in entries : Leq(n, m)

\* The streams of all levels are merged, and of one key the greatest is kept.
CompactedRange(levels) ==
    [k \in UNION {DOMAIN levels[i] : i \in DOMAIN levels} |->
        Greatest(EntriesFor(levels, k))]

\* by_key_seq fails when it meets two equal entries of a key that are no tombstones.
CompactedRangePanics(levels) ==
    \E i, j \in DOMAIN levels : \E k \in DOMAIN levels[i] \cap DOMAIN levels[j] :
        /\ i < j
        /\ SameOrder(levels[i][k], levels[j][k])
        /\ levels[i][k].mark = Normal
=============================================================================
