SPECIFICATION Spec
CONSTANTS
    a_rows = 3
    a_cols = 2
    b_cols = 3
    LeftRows <- MCLeftRows
    RightRows <- MCRightRows
    MaxNnz = 6
    Junk = Junk
CHECK_DEADLOCK FALSE
INVARIANTS
    ScratchMatchesRow
    PassesAgree
    ReturnsProduct
    LeavesZeroed
    HeapOnReturn
