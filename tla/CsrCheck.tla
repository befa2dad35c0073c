-------------------------------- MODULE CsrCheck --------------------------------
(***************************************************************************)
(* The two validations of a CSR matrix: rvsp_csr_validate, which           *)
(* rvsp_csr_create runs (core/matrix.c), and rvsp_csr_check, which the     *)
(* product runs before the kernels drop their own checks                   *)
(* (kernels/spgemm/rvsp_support.c).  A caller may ignore the first         *)
(* verdict, so the second runs after either.                               *)
(*                                                                         *)
(* rvsp_csr_check is not given the number of entries: with broken row      *)
(* pointers it may read past the column array, where memory holds anything.*)
(***************************************************************************)
EXTENDS Integers, RvStatus

CONSTANTS
    Matrices,       \* what may be passed
    Junk            \* what memory past the column array may hold

\* A matrix is its dimensions, its row pointers and its nnz columns; absent are
\* its arrays that are NULL.
Arrays == {"row_ptr", "col_idx", "values"}
ASSUME CsrCheckAssumption ==
    /\ Junk \subseteq Int
    /\ \A M \in Matrices :
         /\ M.rows \in Int /\ M.cols \in Int /\ M.nnz \in Int
         /\ M.row_ptr \in [0 .. M.rows -> Int]
         /\ M.col_idx \in [0 .. M.nnz - 1 -> Int]
         /\ M.absent \subseteq Arrays

Verdicts == {"none", "OK", "BAD_ROW_PTR", "COL_OUT_OF_RANGE", "DUPLICATE", "UNSORTED"}

VARIABLES
    csr,            \* the matrix
    pc,
    row, p, prev,   \* the loops' variables
    valid,          \* what rvsp_csr_validate returned
    verdict,        \* what rvsp_csr_check returned
    bad_row         \* and *bad_row_out

vars == <<csr, pc, row, p, prev, valid, verdict, bad_row>>

row_ptr == csr.row_ptr
start == row_ptr[row]
end == row_ptr[row + 1]

-------------------------------------------------------------------------------
(* rvsp_csr_validate *)

ValidateReturns(status) ==
    /\ valid' = status /\ pc' = "check" /\ row' = 0 /\ p' = 0
    /\ UNCHANGED <<csr, prev, verdict, bad_row>>

\* Slip: the number of entries is not compared with the last row pointer.
SlipNoEnd == Fail(row_ptr[0] # 0, "INVALID_CSR")
EndsMatch == Fail(row_ptr[0] # 0 \/ row_ptr[csr.rows] # csr.nnz, "INVALID_CSR")

Validate ==
    /\ pc = "validate"
    /\ LET status == Then(Fail(csr.absent # {}, "NULL_POINTER"),
                     Then(Fail(csr.rows <= 0 \/ csr.cols <= 0 \/ csr.nnz < 0, "INVALID_ARGUMENT"),
                          EndsMatch))
       IN  IF status # "SUCCESS" THEN ValidateReturns(status)
           ELSE /\ pc' = "row_ptr" /\ row' = 0
                /\ UNCHANGED <<csr, p, prev, valid, verdict, bad_row>>

ValidateRow ==
    /\ pc = "row_ptr"
    /\ IF row < csr.rows /\ start > end
         THEN ValidateReturns("INVALID_CSR")
         ELSE /\ IF row < csr.rows THEN row' = row + 1 /\ pc' = pc
                                   ELSE pc' = "columns" /\ row' = row
              /\ UNCHANGED <<csr, p, prev, valid, verdict, bad_row>>

InRange(c) == c >= 0 /\ c < csr.cols

ValidateColumn ==
    /\ pc = "columns"
    /\ IF p = csr.nnz THEN ValidateReturns("SUCCESS")
       ELSE IF ~InRange(csr.col_idx[p]) THEN ValidateReturns("INVALID_CSR")
       ELSE p' = p + 1 /\ UNCHANGED <<csr, pc, row, prev, valid, verdict, bad_row>>

-------------------------------------------------------------------------------
(* rvsp_csr_check *)

CheckReturns(status, bad) ==
    /\ verdict' = status /\ bad_row' = bad /\ pc' = "done"
    /\ UNCHANGED <<csr, row, p, prev, valid>>

Check ==
    /\ pc = "check"
    /\ IF csr.rows < 0 \/ csr.cols < 0 \/ "row_ptr" \in csr.absent THEN CheckReturns("BAD_ROW_PTR", -1)
       ELSE IF row_ptr[0] # 0 THEN CheckReturns("BAD_ROW_PTR", -1)
       ELSE pc' = "rows" /\ UNCHANGED <<csr, row, p, prev, valid, verdict, bad_row>>

Decreases == end < start

CheckRow ==
    /\ pc = "rows"
    /\ IF row = csr.rows THEN CheckReturns("OK", -1)
       ELSE IF Decreases THEN CheckReturns("BAD_ROW_PTR", row)
       ELSE IF end = start
         THEN row' = row + 1 /\ UNCHANGED <<csr, pc, p, prev, valid, verdict, bad_row>>
       ELSE IF "col_idx" \in csr.absent THEN CheckReturns("BAD_ROW_PTR", -1)
       ELSE /\ p' = start /\ prev' = -1 /\ pc' = "entries"
            /\ UNCHANGED <<csr, row, valid, verdict, bad_row>>

\* col_idx[p], or anything when p is past the array.
Columns == IF p < csr.nnz THEN {csr.col_idx[p]} ELSE Junk

\* Slip: prev is the column the row began with.
SlipPrevKept(col) == IF prev = -1 THEN col ELSE prev
NextPrev(col) == col

\* Slip: a repeated column passes.
SlipRepeats(col) ==
    IF ~InRange(col) THEN "COL_OUT_OF_RANGE"
    ELSE IF col < prev THEN "UNSORTED" ELSE "OK"
EntryVerdict(col) ==
    IF ~InRange(col) THEN "COL_OUT_OF_RANGE"
    ELSE IF col = prev THEN "DUPLICATE"
    ELSE IF col < prev THEN "UNSORTED" ELSE "OK"

CheckEntry ==
    /\ pc = "entries" /\ p < end
    /\ \E col \in Columns :
         IF EntryVerdict(col) # "OK" THEN CheckReturns(EntryVerdict(col), row)
         ELSE /\ prev' = NextPrev(col) /\ p' = p + 1
              /\ UNCHANGED <<csr, pc, row, valid, verdict, bad_row>>

CheckRowEnds ==
    /\ pc = "entries" /\ p = end
    /\ row' = row + 1 /\ pc' = "rows"
    /\ UNCHANGED <<csr, p, prev, valid, verdict, bad_row>>

-------------------------------------------------------------------------------

Init ==
    /\ csr \in Matrices /\ pc = "validate"
    /\ row = 0 /\ p = 0 /\ prev = -1
    /\ valid = "SUCCESS" /\ verdict = "none" /\ bad_row = -1

Next ==
    \/ Validate \/ ValidateRow \/ ValidateColumn
    \/ Check \/ CheckRow \/ CheckEntry \/ CheckRowEnds

Spec == Init /\ [][Next]_vars /\ WF_vars(Next)

-------------------------------------------------------------------------------
(* Correctness *)

\* What the two functions promise, from the matrix alone.
Monotone == \A i \in 0 .. csr.rows - 1 : row_ptr[i] <= row_ptr[i + 1]
WellFormed ==
    /\ csr.absent = {} /\ csr.rows > 0 /\ csr.cols > 0 /\ csr.nnz >= 0
    /\ row_ptr[0] = 0 /\ Monotone /\ row_ptr[csr.rows] = csr.nnz
    /\ \A k \in 0 .. csr.nnz - 1 : csr.col_idx[k] \in 0 .. csr.cols - 1

\* Row i names entries the column array has, in range and ascending.
CanonicalRow(i) ==
    /\ row_ptr[i] <= row_ptr[i + 1]
    /\ \A k \in row_ptr[i] .. row_ptr[i + 1] - 1 :
         /\ k \in 0 .. csr.nnz - 1 /\ "col_idx" \notin csr.absent
         /\ csr.col_idx[k] \in 0 .. csr.cols - 1
         /\ \A m \in row_ptr[i] .. k - 1 : csr.col_idx[m] < csr.col_idx[k]
Canonical ==
    /\ csr.rows >= 0 /\ csr.cols >= 0 /\ "row_ptr" \notin csr.absent
    /\ row_ptr[0] = 0 /\ \A i \in 0 .. csr.rows - 1 : CanonicalRow(i)

TypeOK ==
    /\ pc \in {"validate", "row_ptr", "columns", "check", "rows", "entries", "done"}
    /\ row = 0 \/ row \in 1 .. csr.rows
    /\ p \in Nat /\ prev \in Int /\ valid \in Status /\ verdict \in Verdicts
    /\ bad_row = -1 \/ bad_row \in 0 .. csr.rows - 1
    /\ pc = "entries" => row < csr.rows /\ start <= p /\ p <= end

\* rvsp_csr_validate accepts exactly the well-formed matrices: sorted or not,
\* with repeated columns or without.
ValidIsRight ==
    pc \in {"check", "rows", "entries", "done"} => (valid = "SUCCESS" <=> WellFormed)

\* rvsp_csr_check accepts every canonical matrix and, among those whose row
\* pointers stay within the column array, no other: broken row pointers are
\* refused whatever memory past the array holds.
VerdictIsRight ==
    pc = "done" =>
        /\ Canonical => verdict = "OK"
        /\ verdict = "OK" /\ row_ptr[csr.rows] <= csr.nnz => Canonical

\* The row it blames is the first that is not canonical, and the reason is
\* true of that row, unless the row reaches past the column array.
FirstFault ==
    pc = "done" /\ bad_row >= 0 =>
        LET K == row_ptr[bad_row] .. row_ptr[bad_row + 1] - 1 IN
        /\ \A i \in 0 .. bad_row - 1 : CanonicalRow(i) \/ row_ptr[i + 1] > csr.nnz
        /\ ~CanonicalRow(bad_row)
        /\ row_ptr[bad_row + 1] <= csr.nnz =>
             /\ verdict = "BAD_ROW_PTR" => row_ptr[bad_row + 1] < row_ptr[bad_row]
             /\ verdict = "COL_OUT_OF_RANGE" =>
                  \E i \in K : csr.col_idx[i] \notin 0 .. csr.cols - 1
             /\ verdict = "DUPLICATE" =>
                  \E i, j \in K : i < j /\ csr.col_idx[i] = csr.col_idx[j]
             /\ verdict = "UNSORTED" =>
                  \E i, j \in K : i < j /\ csr.col_idx[j] < csr.col_idx[i]

\* On a matrix that rvsp_csr_create accepted, rvsp_csr_check reads no entry
\* past the column array, although it is not told how long the array is.
ReadsStayInside ==
    pc = "entries" /\ p < end /\ valid = "SUCCESS" => p \in 0 .. csr.nnz - 1

===============================================================================
