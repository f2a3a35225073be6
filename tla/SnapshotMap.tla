---------------------------- MODULE SnapshotMap ----------------------------
(***************************************************************************)
(* What the mvcc module promises its users, without sequences, versions or *)
(* tombstones: a map, frozen copies of it, and transactions that work on a *)
(* private copy and install it at once.  (mvcc/mod.rs: "Snapshot           *)
(* Isolation" and "Atomic Commits" under Key Features.)                    *)
(***************************************************************************)
CONSTANTS Keys, Values, NoValue,
          SnapshotIds,   \* names a frozen copy may be given
          Writers        \* names of the transactions

Maps == [Keys -> Values \cup {NoValue}]

VARIABLES
    db,       \* the committed map
    frozen,   \* open snapshots: a function from their ids to maps
    txns      \* open transactions: a function from writers to their copies

vars == <<db, frozen, txns>>

TypeOK ==
    /\ db \in Maps
    /\ DOMAIN frozen \subseteq SnapshotIds
    /\ \A i \in DOMAIN frozen : frozen[i] \in Maps
    /\ DOMAIN txns \subseteq Writers
    /\ \A w \in DOMAIN txns : txns[w] \in [base : Maps, local : Maps]

With(f, x, v) == [y \in DOMAIN f \cup {x} |-> IF y = x THEN v ELSE f[y]]
Without(f, x) == [y \in DOMAIN f \ {x} |-> f[y]]

Init ==
    /\ db = [k \in Keys |-> NoValue]
    /\ frozen = << >>
    /\ txns = << >>

OpenSnapshot(i) ==
    /\ i \notin DOMAIN frozen
    /\ frozen' = With(frozen, i, db)
    /\ UNCHANGED <<db, txns>>

DropSnapshot(i) ==
    /\ i \in DOMAIN frozen
    /\ frozen' = Without(frozen, i)
    /\ UNCHANGED <<db, txns>>

Begin(w) ==
    /\ w \notin DOMAIN txns
    /\ txns' = With(txns, w, [base |-> db, local |-> db])
    /\ UNCHANGED <<db, frozen>>

Write(w, k, value) ==
    /\ w \in DOMAIN txns
    /\ txns' = [txns EXCEPT ![w].local[k] = value]
    /\ UNCHANGED <<db, frozen>>

\* A transaction commits only over the map it started from.
Commit(w) ==
    /\ w \in DOMAIN txns
    /\ db = txns[w].base
    /\ db' = txns[w].local
    /\ txns' = Without(txns, w)
    /\ UNCHANGED frozen

Abort(w) ==
    /\ w \in DOMAIN txns
    /\ txns' = Without(txns, w)
    /\ UNCHANGED <<db, frozen>>

Next ==
    \/ \E i \in SnapshotIds : OpenSnapshot(i) \/ DropSnapshot(i)
    \/ \E w \in Writers :
          \/ Begin(w) \/ Commit(w) \/ Abort(w)
          \/ \E k \in Keys, value \in Values \cup {NoValue} : Write(w, k, value)

Spec == Init /\ [][Next]_vars
=============================================================================
