\* Draining compacted_range over three levels and two keys, any of which may fail.
SPECIFICATION Spec
CONSTANTS
    v1 = v1
    v2 = v2
    Values = {v1, v2}
    NoValue = NoValue
    Failure = Failure
    Keys = {1, 2}
    MaxU64 = 3
    Stacks <- MCStacks
    Ranges <- MCRanges
INVARIANTS StreamIsRange FinalUntilFailure NothingLost
CHECK_DEADLOCK FALSE
