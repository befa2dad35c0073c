------------------------------- MODULE Workspace -------------------------------
(***************************************************************************)
(* The layout of the scratch buffers (kernels/spgemm/rvsp_common.h): what  *)
(* the three *_bytes functions ask for, where the three *_bind functions   *)
(* put the arrays.  That the two agree for every b_cols is proved in       *)
(* ColumnSort_proofs.                                                      *)
(*                                                                         *)
(* A region is its offset in the buffer and its length in bytes.           *)
(***************************************************************************)
EXTENDS Integers

\* RVSP_ALIGN_UP(x, 64)
AlignUp(x) == ((x + 63) \div 64) * 64

\* The element count: at least one.
Count(b_cols) == IF b_cols > 0 THEN b_cols ELSE 1

\* rvsp_ws_bytes and rvsp_ws_bind
WsBytes(b_cols) ==
    LET n == Count(b_cols) IN AlignUp(n * 4) + AlignUp(n) + AlignUp(n * 4) + AlignUp(n * 4)
WsBind(b_cols) ==
    LET n == Count(b_cols) IN
    [acc     |-> [at |-> 0, len |-> n * 4],
     mark    |-> [at |-> AlignUp(n * 4), len |-> n],
     touched |-> [at |-> AlignUp(n * 4) + AlignUp(n), len |-> n * 4],
     scratch |-> [at |-> AlignUp(n * 4) + AlignUp(n) + AlignUp(n * 4), len |-> n * 4]]

\* rvsp_count_ws_bytes and rvsp_count_ws_bind: acc and scratch are NULL.
CountWsBytes(b_cols) == LET n == Count(b_cols) IN AlignUp(n) + AlignUp(n * 4)
CountWsBind(b_cols) ==
    LET n == Count(b_cols) IN
    [mark    |-> [at |-> 0, len |-> n],
     touched |-> [at |-> AlignUp(n), len |-> n * 4]]

\* rvsp_compute_ws_bytes and rvsp_compute_ws_bind: touched is NULL.
ComputeWsBytes(b_cols) ==
    LET n == Count(b_cols) IN AlignUp(n * 4) + AlignUp(n) + AlignUp(n * 4)
ComputeWsBind(b_cols) ==
    LET n == Count(b_cols) IN
    [acc     |-> [at |-> 0, len |-> n * 4],
     mark    |-> [at |-> AlignUp(n * 4), len |-> n],
     scratch |-> [at |-> AlignUp(n * 4) + AlignUp(n), len |-> n * 4]]

-------------------------------------------------------------------------------
(* Correctness *)

SIZE_MAX == 18446744073709551615        \* size_t has 64 bits
INT32_MAX == 2147483647

\* Each array of a layout starts on a 64-byte boundary and lies in the buffer,
\* and no two overlap.
FitsIn(layout, bytes) ==
    /\ \A f \in DOMAIN layout :
         /\ layout[f].at % 64 = 0 /\ layout[f].at >= 0
         /\ layout[f].at + layout[f].len <= bytes
    /\ \A f, g \in DOMAIN layout :
         f # g => \/ layout[f].at + layout[f].len <= layout[g].at
                  \/ layout[g].at + layout[g].len <= layout[f].at

===============================================================================
