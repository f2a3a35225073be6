\* Rewriting a key of the base without sequence increment.
SPECIFICATION Spec
CONSTANTS
    Keys = {k1}
    Values = {v1}
    NoValue = NoValue
    Writers = {w1}
    MaxSeq = 2
    MaxStaged = 2
    MaxFetches = 2
    TombstoneModes = {FALSE}
    InitialSeqs = "snapshot"
    SecondaryWrites = "any"
    CommitOver = "its_base"
    CommitModes = {"apply"}
    EmptyCommits = FALSE
INVARIANT RangeNeverPanics
CHECK_DEADLOCK FALSE
