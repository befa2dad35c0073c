SPECIFICATION Spec
CONSTANTS
    Matrices <- MCMatrices
    Junk <- MCJunk
INVARIANTS
    ValidIsRight
    VerdictIsRight
    FirstFault
    ReadsStayInside
CHECK_DEADLOCK FALSE
