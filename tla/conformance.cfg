\* The unit tests; MaxU64 is above every sequence they use.
SPECIFICATION Spec
CONSTANTS
    Keys = {1, 2, 3, 4, 5, 6}
    Values = {"v"}
    NoValue = NoValue
    Failure = Failure
    MaxU64 = 60
INVARIANT AsAsserted
CHECK_DEADLOCK FALSE
