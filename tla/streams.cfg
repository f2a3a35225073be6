\* Draining View::range: two keys, a failing reader, one write meanwhile.
SPECIFICATION Spec
CONSTANTS
    v1 = v1
    v2 = v2
    Values = {v1, v2}
    NoValue = NoValue
    Failure = Failure
    Keys = {1, 2}
    MaxU64 = 9
    SnapshotSeq = 2
    BaseVersions <- MCBaseVersions
    StagedVersions <- MCStagedVersions
    Ranges <- MCRanges
    MaxSeq = 3
    MaxFailures = 1
INVARIANTS CursorIsRange CompactIsCoalesce StreamIsRange TrustedUntilError NothingLost
PROPERTIES ErrorSurfaces StagedKeysCome
CHECK_DEADLOCK FALSE
