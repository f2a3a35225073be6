----------------------------- MODULE MCStreams -----------------------------
(* Versions, staged changes and bounds for small instances of RangeStream. *)
EXTENDS RangeStream

CONSTANTS v1, v2

V(seq, value) == NewNormal(seq, value)
T(seq)        == NewTombstone(seq)

MCBaseVersions   == {{}, {V(1, v1)}, {V(2, v1), T(1)}, {T(3), T(2)}}
MCStagedVersions == {{}, {T(2)}, {V(2, v2)}, {V(3, v2), T(2)}}

From(k)      == [start |-> Included(k), end |-> Unbounded]
Only(k)      == [start |-> Included(k), end |-> Included(k)]
Empty(k)     == [start |-> Included(k), end |-> Excluded(k)]
None(k)      == [start |-> Excluded(k), end |-> Excluded(k)]
Below(k)     == [start |-> Unbounded, end |-> Excluded(k)]
Above(k)     == [start |-> Excluded(k), end |-> Included(k + 1)]
Backwards(k) == [start |-> Included(k + 1), end |-> Included(k)]

MCRanges == {From(1), Only(1), Empty(2), None(1), Below(2), Above(1), Backwards(1)}
=============================================================================
