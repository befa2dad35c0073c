SPECIFICATION Spec
CONSTANTS
    b_cols <- MCb_cols
    BRows <- MCBRows
    CONTIG_MIN = 3
    SCAN_AHEAD = 5
    GATHER_MIN = 3
    UNROLL = 2
    VLMAX_M2 = 2
    VLMAX_M4 = 3
    OFFSET_RANGE = 16
CHECK_DEADLOCK FALSE
INVARIANTS
    GatherCannotAlias
