------------------------------- MODULE MCOneShot -------------------------------
(***************************************************************************)
(* Three matrix variables that are operand and result in turn, inputs of   *)
(* every form and type the dispatch tells apart, and a heap large enough   *)
(* for three results and the descriptor of a call.  Which of the free      *)
(* blocks a malloc takes makes no difference.                              *)
(***************************************************************************)
EXTENDS OneShot, TLC

In(rows, cols, nnz, dtype, last, form, absent) ==
    [rows |-> rows, cols |-> cols, nnz |-> nnz, dtype |-> dtype, last |-> last, form |-> form,
     absent |-> absent]

\* Among them a count that row_ptr contradicts, an array that is missing and a
\* count below zero.
MCInputs ==
    {In(1, 2, 1, "FP32", 1, "canonical", {}), In(2, 1, 2, "FP32", 1, "canonical", {}),
     In(2, 1, 1, "FP32", 1, "unsorted", {}), In(2, 1, 1, "FP32", 1, "canonical", {"values"}),
     In(2, 1, -1, "FP32", 0, "canonical", {}),
     In(1, 1, 1, "INT8", 1, "canonical", {}), In(1, 1, 0, "INT8", 1, "canonical", {}),
     In(1, 1, 1, "INT8", 1, "broken", {}),
     In(1, 1, 1, "FP64", 1, "offset", {}), In(1, 1, 1, "FP64", 1, "broken", {})}
MCOptions ==
    {<<"SCALAR", "FP32", "FP32">>, <<"UNROLL4", "FP32", "FP32">>, <<"RVV", "FP32", "FP32">>,
     <<"SCALAR", "INT8", "INT32">>, <<"SCALAR", "FP64", "FP64">>, <<"SCALAR", "INT8", "INT8">>}
MCCounts == {1}

\* A block for each variable of a call, and three times the arrays of a matrix.
Scratch == {"descr", "workspace"} \cup EstimateNames
MCBlocks == {<<n, 0>> : n \in Scratch} \cup Fields \X (1 .. 3)

\* Any of the mallocs may fail; the others take their block, arrays the first
\* that is free.
FieldOf ==
    [n \in Fields |-> n] @@
    "c_row_ptr" :> "row_ptr" @@ "c_col_idx" :> "col_idx" @@ "c_values" :> "values"
Place(h, n) ==
    IF n \in Scratch THEN <<n, 0>>
    ELSE CHOOSE x \in {FieldOf[n]} \X (1 .. 3) :
            x \notin h /\ \A k \in 1 .. x[2] - 1 : <<x[1], k>> \in h
MCMalloc(h, names) ==
    LET CanHave(n) == \E x \in MCBlocks \ h : x[1] = n \/ (n \in DOMAIN FieldOf /\ x[1] = FieldOf[n])
    IN  {[n \in names |-> IF n \in granted THEN Place(h, n) ELSE Null] :
            granted \in SUBSET {n \in names : CanHave(n)}}
Symmetric == Permutations(Mats)

===============================================================================
