--------------------------- MODULE MCLevelStream ---------------------------
(* Stacks and bounds for small instances of LevelStream.                   *)
EXTENDS LevelStream

CONSTANTS v1, v2

Two(sm)      == [k \in {2} |-> sm]
Both(m1, m2) == [k \in {1, 2} |-> IF k = 1 THEN m1 ELSE m2]

N(seq, value) == NewNormal(seq, value)
T(seq)        == NewTombstone(seq)

MCEntries ==
    {<< >>, Two(N(1, v1)), Both(N(1, v1), T(2)), Both(T(1), N(1, v2)), Both(N(2, v2), T(2))}

\* Two levels of two keys and a persisted one of at most one.
MCStacks ==
    {<< >>} \cup {<<a, b, c>> : a, b \in MCEntries, c \in {<< >>, Two(N(1, v1)), Two(T(2))}}

MCRanges ==
    {[start |-> Unbounded, end |-> Unbounded],
     [start |-> Excluded(1), end |-> Unbounded],
     [start |-> Included(2), end |-> Included(1)]}
=============================================================================
