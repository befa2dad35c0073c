SPECIFICATION Spec
CONSTANTS
    Inputs <- MCInputs
    INSERTION_LIMIT = 3
    BUCKETS = 2
    MAX_PASSES = 3
    Weight <- MCWeight
    Junk = Junk
CHECK_DEADLOCK FALSE
INVARIANTS
    PassesKeepOrder
    SortsInPlace
