------------------------------- MODULE Levels -------------------------------
(***************************************************************************)
(* A map kept in levels: a writable Level on top of immutable ones, on top *)
(* of persisted ones, read through compacted_get and compacted_range.      *)
(*                                                                         *)
(* The crate supplies the levels and the two reads.  Freezing the top and  *)
(* merging the lower levels in the background is the store's own code,     *)
(* modelled from what the two reads take as arguments.                     *)
(***************************************************************************)
EXTENDS Level

CONSTANTS
    MaxSeq,      \* bound: the top level allocates no sequence above it
    MaxLevels    \* bound: immutable and persisted levels together

ASSUME LevelsAssumption == MaxSeq \in Nat /\ MaxLevels \in Nat

VARIABLES
    top,          \* the writable level: its sequence counter and its entries
    immutables,   \* frozen levels, newest first
    persisted,    \* entries of the levels on disk, newest first
    merging       \* how many of the oldest immutable levels a background
                  \* merge has taken, 0 when there is none

vars == <<top, immutables, persisted, merging>>

Each(s) == {s[i] : i \in DOMAIN s}

TypeOK ==
    /\ IsLevel(top)
    /\ immutables \in Seq(Each(immutables)) /\ \A level \in Each(immutables) : IsLevel(level)
    /\ persisted \in Seq(Each(persisted)) /\ \A entries \in Each(persisted) : IsEntries(entries)
    /\ merging \in 0..Len(immutables)

-----------------------------------------------------------------------------
(* The store.                                                              *)

Frozen == [i \in DOMAIN immutables |-> immutables[i].entries]
Stack  == <<top.entries>> \o Frozen \o persisted

Init ==
    /\ top = [seq |-> 0, entries |-> << >>]
    /\ immutables = << >>
    /\ persisted = << >>
    /\ merging = 0

Set(k, value) ==
    /\ value # NoValue => top.seq < MaxSeq
    /\ top' = LevelSet(top, k, value)
    /\ UNCHANGED <<immutables, persisted, merging>>

Freeze ==
    /\ Len(immutables) + Len(persisted) < MaxLevels
    /\ immutables' = <<top>> \o immutables
    /\ top' = NewLevel(top)
    /\ UNCHANGED <<persisted, merging>>

\* A merge takes the oldest immutable levels; the top is written and frozen
\* while it runs.
StartMerge(count) ==
    /\ merging = 0
    /\ count \in 1..Len(immutables)
    /\ merging' = count
    /\ UNCHANGED <<top, immutables, persisted>>

Untouched    == Len(immutables) - merging
Merged(deep) == SubSeq(Frozen, Untouched + 1, Len(immutables))
                    \o (IF deep THEN persisted ELSE << >>)

Normals(entries) == [k \in {j \in DOMAIN entries : entries[j].mark = Normal} |-> entries[k]]

\* What compacted_range yields without a top level becomes a persisted level.
\* Only a merge with all levels below (deep) may drop the deletions (purge).
FinishMerge(deep, purge) ==
    /\ merging # 0
    /\ ~CompactedRangePanics(Merged(deep))
    /\ purge => deep
    /\ LET range == CompactedRange(Merged(deep))
       IN persisted' = <<IF purge THEN Normals(range) ELSE range>>
                         \o (IF deep THEN << >> ELSE persisted)
    /\ immutables' = SubSeq(immutables, 1, Untouched)
    /\ merging' = 0
    /\ UNCHANGED top

\* A level's read fails, or the assertion does: the levels stay as they are.
MergeFails ==
    /\ merging # 0
    /\ merging' = 0
    /\ UNCHANGED <<top, immutables, persisted>>

Next ==
    \/ \E k \in Keys, value \in Values \cup {NoValue} : Set(k, value)
    \/ Freeze
    \/ \E count \in 1..MaxLevels : StartMerge(count)
    \/ \E deep, purge \in BOOLEAN : FinishMerge(deep, purge)
    \/ MergeFails

Spec == Init /\ [][Next]_vars

-----------------------------------------------------------------------------
(* Properties.                                                             *)

Reads == [k \in Keys |-> CompactedGet(Stack, k).data]

\* To a reader of compacted_get the levels are one map: a write changes its key
\* and no other, and freezing, merging and purging change nothing, so that no
\* deleted value comes back from a lower level (compact.rs, level.rs).
ReadsFollowWrites ==
    [][/\ \A k \in Keys, value \in Values \cup {NoValue} :
             Set(k, value) => Reads' = [Reads EXCEPT ![k] = value]
       /\ top' \in {top, NewLevel(top)} => Reads' = Reads]_vars

\* compacted_get, which stops at the first level that has the key, and
\* compacted_range, which takes the greatest entry of all levels, agree.
LevelReadsAgree ==
    LET range == CompactedRange(Stack)
    IN \A k \in Keys : CompactedGet(Stack, k) = LevelGet(range, k)

\* The assertion of by_key_seq holds for every stack of levels: only deletions
\* share a sequence (util.rs).
LevelsNeverPanic == ~CompactedRangePanics(Stack)
=============================================================================
