------------------------------- MODULE MCAccumRow -------------------------------
(***************************************************************************)
(* Every canonical row over eight columns, with the macros scaled down so   *)
(* that a row holds short runs, long runs and a scan that gives up.        *)
(***************************************************************************)
EXTENDS AccumRow

MCb_cols == 8
MCColumns == [k \in 1 .. MCb_cols |-> k - 1]
MCBRows == {SelectSeq(MCColumns, LAMBDA c : c \in S) : S \in SUBSET (0 .. MCb_cols - 1)}

===============================================================================
