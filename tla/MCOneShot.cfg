SPECIFICATION Spec
CONSTANTS
    Mats = {m1, m2, m3}
    Null = Null
    Caller = Caller
    Inputs <- MCInputs
    Options <- MCOptions
    Blocks <- MCBlocks
    Malloc <- MCMalloc
    Counts <- MCCounts
    VectorBuild = FALSE
SYMMETRY Symmetric
INVARIANTS
    TypeOK
    EveryBlockOwned
    OnlyCChanges
    SuccessIsEarned
    ComputeCannotFail
