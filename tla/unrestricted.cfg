\* Everything the crate's interface allows a store to do.
SPECIFICATION Spec
CONSTANTS
    Keys = {k1}
    Values = {v1, v2}
    NoValue = NoValue
    Writers = {w1, w2}
    MaxSeq = 1
    MaxStaged = 2
    MaxFetches = 0
    TombstoneModes = {FALSE, TRUE}
    InitialSeqs = "any"
    SecondaryWrites = "any"
    CommitOver = "any"
    CommitModes = {"apply", "compact"}
    EmptyCommits = TRUE
SYMMETRY Symmetry
INVARIANTS TypeOK LastSeqIsHighest
PROPERTIES LatestKept CompactionUnseen
CHECK_DEADLOCK FALSE
