----------------------------- MODULE MCSpgemmDescr -----------------------------
(***************************************************************************)
(* Two descriptors, two outputs and two addresses; operands of every kind  *)
(* check_operand tells apart, and three right-hand sides of one shape:     *)
(* B1 and B2 give products of equal length and different columns, B3 a     *)
(* longer one, and B4 one that does not fit MaxNnz.                        *)
(***************************************************************************)
EXTENDS SpgemmDescr, CsrPattern, TLC

CONSTANTS d1, d2, C1, C2, X1, X2

patA  == <<{1}, {1, 2}>>
patB1 == <<{1}, {2}>>
patB2 == <<{2}, {1}>>
patB3 == <<{1, 2}, {}>>
patB4 == <<{1, 2, 3}, {}>>

Matrix(rows, cols, pattern) ==
    [given |-> TRUE, dtype |-> "FP32", rows |-> rows, cols |-> cols,
     nnz |-> PatternNnz(pattern), pattern |-> pattern]

A  == Matrix(2, 2, patA)
B1 == Matrix(2, 2, patB1)
B2 == Matrix(2, 2, patB2)
B3 == Matrix(2, 2, patB3)
B4 == Matrix(2, 3, patB4)

MCHandles == {d1, d2}
MCOuts == {C1, C2}
MCAddr == {X1, X2}
MCPatterns == {patA, patB1, patB2, patB3, patB4}
MCProduct == [p \in Pairs |-> PatternProduct(p[1], p[2])]
MCStructures == {MCProduct[p] : p \in Pairs}
MCNnz == [s \in MCStructures |-> PatternNnz(s)]
MCMaxNnz == 4
MCLeft  == {A, [A EXCEPT !.given = FALSE]}
MCRight == {B1, B2, B3, B4, [B1 EXCEPT !.dtype = "FP64"]}
MCCapacities == {3, 4}
MCOutShapes == {<<2, 2, "FP32">>, <<2, 3, "FP32">>}
MCCountLengths == {1, 2}

Symmetric == Permutations(MCHandles) \cup Permutations(MCOuts) \cup Permutations(MCAddr)

===============================================================================
