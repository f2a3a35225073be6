\* A key deleted twice at one sequence, merged by compact.
SPECIFICATION Spec
CONSTANTS
    Keys = {k1}
    Values = {v1}
    NoValue = NoValue
    Writers = {w1}
    MaxSeq = 2
    MaxStaged = 2
    MaxFetches = 2
    TombstoneModes = {FALSE}
    InitialSeqs = "snapshot"
    SecondaryWrites = "fresh"
    CommitOver = "its_base"
    CommitModes = {"compact"}
    EmptyCommits = FALSE
INVARIANT CompactNeverPanics
CHECK_DEADLOCK FALSE
