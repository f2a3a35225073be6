\* A deletion that reuses its sequence changes what a snapshot reads.
SPECIFICATION Spec
CONSTANTS
    Keys = {k1}
    Values = {v1}
    NoValue = NoValue
    Writers = {w1}
    MaxSeq = 2
    MaxStaged = 2
    MaxFetches = 2
    TombstoneModes = {FALSE}
    InitialSeqs = "snapshot"
    SecondaryWrites = "fresh"
    CommitOver = "its_base"
    CommitModes = {"apply"}
    EmptyCommits = FALSE
PROPERTY SnapshotStable
CHECK_DEADLOCK FALSE
