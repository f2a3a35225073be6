\* Batches of conditional upserts, with a counter that reaches its maximum.
SPECIFICATION Spec
CONSTANTS
    Keys = {k1, k2}
    Values = {v1, v2}
    NoValue = NoValue
    MaxU64 = 3
    MaxBatch = 2
    MaxChanges = 4
SYMMETRY Symmetry
INVARIANTS TypeOK ExactIsCompareAndSwap ReplacedOnce WantsTellExistence WatcherFollows
PROPERTIES CounterNeverGoesBack
CHECK_DEADLOCK FALSE
