------------------------------ MODULE CsrPattern ------------------------------
(***************************************************************************)
(* Sparsity patterns as mathematical objects: row i of a pattern is the    *)
(* set of its column indices.  These definitions say what the product of   *)
(* two patterns is, without saying how the code finds it.                  *)
(***************************************************************************)
EXTENDS Integers, FiniteSets, FiniteSetsExt

\* Row i of A*B holds the columns of the rows of B that row i of A selects.
PatternProduct(A, B) ==
    [i \in DOMAIN A |-> UNION {B[k] : k \in A[i] \cap DOMAIN B}]

\* The number of stored entries.
PatternNnz(P) == MapThenSumSet(LAMBDA i : Cardinality(P[i]), DOMAIN P)

===============================================================================
