------------------------------ MODULE MCCsrCheck ------------------------------
(***************************************************************************)
(* Every matrix of up to two rows and up to three entries over up to two   *)
(* columns, well formed or not: columns range one beyond what is allowed   *)
(* on each side, and so do row pointers, up to two entries.  And matrices  *)
(* with arrays that are NULL or a size below zero.                         *)
(***************************************************************************)
EXTENDS CsrCheck

Of(r, c, n, low, absents) ==
    {[rows |-> r, cols |-> c, nnz |-> n, row_ptr |-> ptr, col_idx |-> idx, absent |-> a] :
        ptr \in [0 .. r -> low .. n + 1], idx \in [0 .. n - 1 -> -1 .. c], a \in absents}

MCMatrices ==
    UNION ({Of(r, c, n, IF n < 3 THEN -1 ELSE 0, {{}}) : r \in 0 .. 2, c \in {-1, 0, 2}, n \in 0 .. 3}
           \cup {Of(r, 2, n, 0, SUBSET Arrays) : r \in {-1, 1, 2}, n \in {-1, 0, 1}})
MCJunk == -1 .. 2

===============================================================================
