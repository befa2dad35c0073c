SPECIFICATION Spec
CONSTANTS
    Kinds = {"scalar", "unroll4", "scalar_f64", "rvv_i8", "rvv_f32", "rvv_f64"}
    Policies = {0, 1, 2}
    a_rows = 2
    a_cols = 2
    b_cols = 3
    LeftRows <- SomeLeftRows
    RightRows <- SomeRightRows
    MaxNnz = 5
    MinRow = 2
    ContigMin = 2
    ScanMax = 2
    IndexedMin = 3
    MaxVl = 3
    Junk = 7
INVARIANTS TypeOK RowsFitTheirRoom ReturnsProduct RefusesWhatIsBroken HeapOnReturn
CHECK_DEADLOCK FALSE
