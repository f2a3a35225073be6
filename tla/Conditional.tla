---------------------------- MODULE Conditional ----------------------------
(***************************************************************************)
(* Conditional updates: a store applies batches of upserts, each with a    *)
(* MatchSeq, through a View, commits the batch and publishes a Change for  *)
(* each upsert that took effect.  Sequences are as wide as the program's.  *)
(*                                                                         *)
(* The crate supplies the view, the table, MatchSeq and Change; reading,   *)
(* matching and staging in this order is the store's own code.             *)
(***************************************************************************)
EXTENDS View, MatchSeq, Sequences

CONSTANTS
    MaxU64,        \* the greatest sequence number a u64 holds
    MaxBatch,      \* bound: changes staged in one batch
    MaxChanges     \* bound: changes published

\* A batch is held in memory, so it has fewer changes than a u64 counts: a view
\* whose counter wraps does not come back to where it was.
ASSUME ConditionalAssumption ==
    /\ MaxU64 \in Nat /\ MaxBatch \in Nat /\ MaxChanges \in Nat
    /\ MaxBatch <= MaxU64

VARIABLES
    overflow_checks,   \* of the build: does an addition beyond MaxU64 panic?
    table,
    open,              \* whether a batch is open
    view,
    staged,            \* the changes of the open batch, in order
    log                \* the changes published

vars == <<overflow_checks, table, open, view, staged, log>>

Wants == {AnySeq} \cup {Exact(s) : s \in 0..MaxU64} \cup {GE(s) : s \in 0..MaxU64}

TypeOK ==
    /\ overflow_checks \in BOOLEAN /\ open \in BOOLEAN
    /\ table \in Tables /\ view \in Views
    /\ table.last_seq.seq <= MaxU64 /\ view.last_seq <= MaxU64
    /\ {staged, log} \subseteq Seq([key : Keys, before : SeqMarkeds, after : SeqMarkeds])

Init ==
    /\ overflow_checks \in BOOLEAN
    /\ table = NewTable
    /\ open = FALSE
    /\ view = NewView(0, 0, FALSE)
    /\ staged = << >>
    /\ log = << >>

-----------------------------------------------------------------------------
(* One write, with the width of the counter.                               *)

NextU64(value) == NextSeq(view, value, TRUE) % (MaxU64 + 1)

\* The addition overflows where that is checked, or the staged table refuses
\* the sequence it has wrapped to.
WritePanics(value) ==
    \/ overflow_checks /\ NextSeq(view, value, TRUE) > MaxU64
    \/ ~CanInsert(view.changes, NewMarked(NextU64(value), value))

\* (mutations of StageU64: the counter is wider than a u64; a value takes the
\* sequence before the increment)
StageWide(k, value) == Stage(view, k, value, TRUE)
StageOld(k, value)  == StagePostIncrement(view, k, value, TRUE)

StageU64(k, value) ==
    [view EXCEPT !.last_seq = NextU64(value),
                 !.changes = Insert(@, k, NewMarked(NextU64(value), value))]

-----------------------------------------------------------------------------
(* A batch.                                                                *)

Close ==
    /\ open' = FALSE
    /\ view' = NewView(0, 0, FALSE)
    /\ staged' = << >>

Open(increase) ==
    /\ ~open
    /\ open' = TRUE
    /\ view' = NewView(table.last_seq.seq, table.last_seq.seq, increase)
    /\ UNCHANGED <<overflow_checks, table, staged, log>>

\* fetch_and_set, once the record found satisfies the condition.  A conflict
\* and the deletion of what is not there change nothing.
Upsert(k, want, value) ==
    LET before == ViewGet(table, view, k)
    IN /\ open
       /\ Len(staged) < MaxBatch
       /\ Matches(want, RecordSeq(before))
       /\ ~(IsNotFound(before) /\ value = NoValue)
       /\ IF WritePanics(value)
          THEN Close
          ELSE /\ view' = StageU64(k, value)
               /\ staged' = Append(staged,
                     Change(k, before, NewMarked(NextU64(value), value)))
               /\ UNCHANGED open
       /\ UNCHANGED <<overflow_checks, table, log>>

Commit ==
    /\ open
    /\ staged # << >>
    /\ Len(log) + Len(staged) <= MaxChanges
    /\ CanApply(table, view.changes)
    /\ table' = Apply(table, view.changes)
    /\ log' = log \o staged
    /\ Close
    /\ UNCHANGED overflow_checks

\* The assertion of apply_changes fails: the batch is lost.
CommitPanics ==
    /\ open
    /\ staged # << >>
    /\ ~CanApply(table, view.changes)
    /\ Close
    /\ UNCHANGED <<overflow_checks, table, log>>

\* The batch is given up, or the process dies with it.
Discard ==
    /\ open
    /\ Close
    /\ UNCHANGED <<overflow_checks, table, log>>

-----------------------------------------------------------------------------
(* The table meanwhile.                                                    *)

CompactTable(min) ==
    /\ open => min <= view.snapshot_seq
    /\ table' = Compact(table, NewTable, min)
    /\ UNCHANGED <<overflow_checks, open, view, staged, log>>

\* A restart: the table is rebuilt from a stream of its newest entries.
Reload ==
    /\ ~open
    /\ table' = FromStream(RangeUpto(table, table.last_seq.seq))
    /\ UNCHANGED <<overflow_checks, open, view, staged, log>>

Next ==
    \/ \E increase \in BOOLEAN : Open(increase)
    \/ \E k \in Keys, want \in Wants, value \in OptionalValues : Upsert(k, want, value)
    \/ Commit
    \/ CommitPanics
    \/ Discard
    \/ \E min \in 0..MaxU64 : CompactTable(min)
    \/ Reload

Spec == Init /\ [][Next]_vars

-----------------------------------------------------------------------------
(* Properties.                                                             *)

Committed(k) == Option(Get(table, k, table.last_seq.seq))

\* A view whose counter has wrapped reads its own writes under reused numbers;
\* what it would decide is lost when its commit panics.
Wrapped == open /\ view.last_seq < view.snapshot_seq

Current(k) == IF open /\ ~Wrapped THEN Option(ViewGet(table, view, k)) ELSE Committed(k)

Published(k) ==
    {NotFound} \cup {log[i].after : i \in {j \in DOMAIN log : log[j].key = k}}

\* A client that read a record and asks for Exact(its sequence) succeeds only
\* if the key still holds that very record, however many writes, deletions that
\* reuse a sequence, compactions and restarts came between ("compare-and-swap",
\* match_seq.rs): a sequence never comes back with another value.
ExactIsCompareAndSwap ==
    \A k \in Keys : \A seen \in Published(k) :
        Matches(Exact(RecordSeq(seen)), RecordSeq(Current(k))) <=> Current(k) = seen

\* A record is replaced or deleted once: no two published changes of a key have
\* the same record before them, so a compare-and-swap that is sent again after
\* it took effect is refused (match_seq.rs, View::fetch_and_set).
ReplacedOnce ==
    \A i, j \in DOMAIN log :
        log[i].key = log[j].key /\ log[i].before = log[j].before /\ log[i].before.seq > 0
        => i = j

\* Exact(0) holds just where there is no record ("put-if-absent adds a value
\* only when seq is 0") and GE(1) just where there is one ("an update on any
\* existent value", match_seq.rs): no committed record has sequence 0, not even
\* after the counter has wrapped.
WantsTellExistence ==
    \A k \in Keys :
        /\ Matches(Exact(0), RecordSeq(Committed(k))) <=> IsNotFound(Committed(k))
        /\ Matches(GE(1), RecordSeq(Committed(k))) <=> ~IsNotFound(Committed(k))

\* What a watcher has after each of the changes: it stores the record of an
\* update and removes the key of a deletion.
Replica(changes) ==
    LET replica[n \in 0..Len(changes)] ==
            IF n = 0 THEN [k \in Keys |-> NotFound]
            ELSE [replica[n - 1] EXCEPT ![changes[n].key] =
                     IF IsDelete(changes[n]) THEN NotFound ELSE changes[n].after]
    IN  replica

\* Who applies the changes in the order they were published, removing the key
\* of a deletion, has the committed table, and finds each change's "before" in
\* place (change.rs); within an open batch the same holds of the view.
WatcherFollows ==
    LET changes == IF open /\ ~Wrapped THEN log \o staged ELSE log
        replica == Replica(changes)
    IN /\ replica[Len(changes)] = [k \in Keys |-> Current(k)]
       /\ \A n \in DOMAIN changes : replica[n - 1][changes[n].key] = changes[n].before

\* The table's last_seq never goes back, whatever is lost with a batch, dropped
\* by a compaction or rebuilt by a restart, and does not wrap with a view's
\* counter (view.rs, table/mod.rs).
CounterNeverGoesBack == [][Leq(table.last_seq, table'.last_seq)]_vars
=============================================================================
