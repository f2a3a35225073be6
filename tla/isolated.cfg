\* Deletions take a sequence of their own and a view commits over its base:
\* transactions are isolated, as the abstract map has them.
SPECIFICATION Spec
CONSTANTS
    Keys = {k1, k2}
    Values = {v1}
    NoValue = NoValue
    Writers = {w1, w2}
    MaxSeq = 2
    MaxStaged = 2
    MaxFetches = 1
    TombstoneModes = {TRUE}
    InitialSeqs = "snapshot"
    SecondaryWrites = "fresh"
    CommitOver = "its_base"
    CommitModes = {"apply", "compact"}
    EmptyCommits = FALSE
SYMMETRY Symmetry
INVARIANTS FetchedStillCurrent GetRangeAgree RangeNeverPanics ApplyNeverPanics CompactNeverPanics
PROPERTIES SnapshotStable Isolation WriteIsRead
CHECK_DEADLOCK FALSE
