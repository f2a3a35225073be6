\* A top level, up to three levels below it, merged in the background.
SPECIFICATION Spec
CONSTANTS
    Keys = {k1, k2}
    Values = {v1, v2}
    NoValue = NoValue
    MaxSeq = 2
    MaxLevels = 3
SYMMETRY Symmetry
INVARIANTS TypeOK LevelReadsAgree LevelsNeverPanic
PROPERTIES ReadsFollowWrites
CHECK_DEADLOCK FALSE
