\* Two views that start at their snapshot or above it; a deletion reuses the
\* current sequence, as View::new has it.
SPECIFICATION Spec
CONSTANTS
    Keys = {k1}
    Values = {v1, v2}
    NoValue = NoValue
    Writers = {w1, w2}
    MaxSeq = 2
    MaxStaged = 2
    MaxFetches = 1
    TombstoneModes = {FALSE}
    InitialSeqs = "from_snapshot"
    SecondaryWrites = "fresh"
    CommitOver = "its_base"
    CommitModes = {"apply"}
    EmptyCommits = FALSE
SYMMETRY Symmetry
PROPERTIES SnapshotOnlyDeletes WriteIsRead CommitPublishesView VersionsImmutable
CHECK_DEADLOCK FALSE
