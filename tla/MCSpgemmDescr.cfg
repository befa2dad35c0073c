SPECIFICATION Spec
CONSTANTS
    d1 = d1
    d2 = d2
    C1 = C1
    C2 = C2
    X1 = X1
    X2 = X2
    Null = Null
    Garbage = Garbage
    Handles <- MCHandles
    Outs <- MCOuts
    Addr <- MCAddr
    Patterns <- MCPatterns
    Structures <- MCStructures
    Product <- MCProduct
    Nnz <- MCNnz
    MaxNnz <- MCMaxNnz
    LeftOperands <- MCLeft
    RightOperands <- MCRight
    Capacities <- MCCapacities
    OutShapes <- MCOutShapes
    CountLengths <- MCCountLengths
    VectorBuild = FALSE
    TracksSharing = TRUE
SYMMETRY Symmetric
INVARIANTS
    StructureComplete
    CacheSound
    ComputedProduct
    FillFitsStorage
    HeapBalanced
    BackendResolved
PROPERTY
    ImplementsApi
