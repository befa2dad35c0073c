---------------------------- MODULE CsrCheck_proofs ----------------------------
(***************************************************************************)
(* Proofs about the two validations, for every matrix of any size.         *)
(*                                                                         *)
(* The invariant carries, next to what each loop has checked so far, two   *)
(* facts that spare an induction over the rows: no row pointer met so far  *)
(* is negative, and none exceeds the one the loop stands at.               *)
(***************************************************************************)
EXTENDS CsrCheck, TLAPS

\* What a matrix is.
IsMatrix(M) ==
    /\ M.rows \in Int /\ M.cols \in Int /\ M.nnz \in Int
    /\ M.row_ptr \in [0 .. M.rows -> Int]
    /\ M.col_idx \in [0 .. M.nnz - 1 -> Int]
    /\ M.absent \subseteq Arrays

\* No row pointer up to the one of row r is negative or exceeds it.
Below(M, r) == \A i \in 0 .. r : 0 <= M.row_ptr[i] /\ M.row_ptr[i] <= M.row_ptr[r]

\* The row pointers up to row r do not decrease.
Rising(M, r) == \A i \in 0 .. r - 1 : M.row_ptr[i] <= M.row_ptr[i + 1]

\* The first k columns are in range.
Ranged(M, k) == \A i \in 0 .. k - 1 : M.col_idx[i] \in 0 .. M.cols - 1

\* Column k of the row that begins at s is in range and beyond those before it.
Follows(M, s, k) ==
    /\ M.col_idx[k] \in 0 .. M.cols - 1
    /\ \A m \in s .. k - 1 : M.col_idx[m] < M.col_idx[k]

\* Entries s .. e - 1, as far as the column array goes.
Ascends(M, s, e) == \A k \in s .. e - 1 : k < M.nnz => Follows(M, s, k)

\* The rows before r.
Scanned(M, r) ==
    \A i \in 0 .. r - 1 :
        /\ M.row_ptr[i] <= M.row_ptr[i + 1]
        /\ M.row_ptr[i] < M.row_ptr[i + 1] => "col_idx" \notin M.absent
        /\ Ascends(M, M.row_ptr[i], M.row_ptr[i + 1])

Types ==
    /\ IsMatrix(csr)
    /\ pc \in {"validate", "row_ptr", "columns", "check", "rows", "entries", "done"}
    /\ row = 0 \/ row \in 1 .. csr.rows
    /\ pc \in {"row_ptr", "columns", "rows", "entries"} => row \in 0 .. csr.rows
    /\ p \in Nat /\ prev \in Int /\ valid \in Status /\ verdict \in Verdicts
    /\ bad_row = -1 \/ bad_row \in 0 .. csr.rows - 1
    /\ pc = "entries" => row < csr.rows /\ start <= p /\ p <= end

ValidateInv ==
    /\ pc = "validate" => p = 0 /\ row = 0
    /\ pc \in {"row_ptr", "columns"} =>
         /\ csr.absent = {} /\ csr.rows > 0 /\ csr.cols > 0 /\ csr.nnz >= 0
         /\ row_ptr[0] = 0 /\ row_ptr[csr.rows] = csr.nnz
         /\ Rising(csr, row) /\ Below(csr, row)
    /\ pc = "row_ptr" => p = 0
    /\ pc = "columns" => row = csr.rows /\ p <= csr.nnz /\ Ranged(csr, p)

ValidInv ==
    pc \in {"check", "rows", "entries", "done"} =>
         /\ valid = "SUCCESS" <=> WellFormed
         /\ valid = "SUCCESS" => Below(csr, csr.rows)

CheckInv ==
    /\ pc \in {"validate", "row_ptr", "columns", "check"} => verdict = "none" /\ bad_row = -1
    /\ pc = "check" => row = 0
    /\ pc \in {"rows", "entries"} =>
         /\ bad_row = -1 /\ csr.rows >= 0 /\ csr.cols >= 0 /\ "row_ptr" \notin csr.absent
         /\ row_ptr[0] = 0
         /\ Below(csr, row) /\ Scanned(csr, row)
    /\ pc = "entries" =>
         /\ "col_idx" \notin csr.absent
         /\ p <= csr.nnz => prev = IF p = start THEN -1 ELSE csr.col_idx[p - 1]
         /\ Ascends(csr, start, p)

DoneInv == VerdictIsRight /\ FirstFault

Inv == Types /\ ValidateInv /\ ValidInv /\ CheckInv /\ DoneInv

-------------------------------------------------------------------------------

LEMMA InitInv ==
    ASSUME CsrCheckAssumption, Init
    PROVE  Inv
<1>1. Types
    BY DEF CsrCheckAssumption, Init, Types, IsMatrix, Verdicts, Status
<1>2. ValidateInv /\ ValidInv /\ CheckInv /\ DoneInv
    BY DEF Init, ValidateInv, ValidInv, CheckInv, DoneInv, VerdictIsRight, FirstFault
<1>. QED  BY <1>1, <1>2 DEF Inv

-------------------------------------------------------------------------------

\* A loop over the rows takes one more row whose pointers do not decrease.
LEMMA OneMoreRow ==
    ASSUME NEW M, IsMatrix(M), NEW r \in 0 .. M.rows, r < M.rows,
           Below(M, r), ~(M.row_ptr[r] > M.row_ptr[r + 1])
    PROVE  Below(M, r + 1) /\ (Rising(M, r) => Rising(M, r + 1))
<1>0. r + 1 \in 0 .. M.rows /\ \A i \in 0 .. M.rows : M.row_ptr[i] \in Int
    BY DEF IsMatrix
<1>1. \A i \in 0 .. r + 1 : M.row_ptr[i] \in Int
    BY <1>0 DEF IsMatrix
<1>2. M.row_ptr[r] <= M.row_ptr[r + 1]
    BY <1>1
<1>3. \A i \in 0 .. r + 1 : i \in 0 .. r \/ i = r + 1
    OBVIOUS
<1>4. Below(M, r + 1)
    BY <1>1, <1>2, <1>3 DEF Below
<1>5. Rising(M, r) => Rising(M, r + 1)
    BY <1>2 DEF Rising
<1>. QED  BY <1>4, <1>5

-------------------------------------------------------------------------------
(* rvsp_csr_validate *)

\* While it runs, the parts about rvsp_csr_check say nothing.
LEMMA NotYet ==
    ASSUME pc \in {"validate", "row_ptr", "columns"}, CheckInv,
           pc' \in {"row_ptr", "columns", "check"}, pc' = "check" => row' = 0,
           verdict' = verdict, bad_row' = bad_row
    PROVE  CheckInv' /\ DoneInv'
<1>1. pc' \notin {"rows", "entries", "done"}
    OBVIOUS
<1>. QED  BY <1>1 DEF CheckInv, DoneInv, VerdictIsRight, FirstFault

LEMMA ValidateKeeps ==
    ASSUME Inv, Validate
    PROVE  Inv'
<1>. USE DEF Inv
<1>1. /\ pc = "validate" /\ row' = 0 /\ p' = 0
      /\ UNCHANGED <<csr, prev, verdict, bad_row>>
      /\ \/ /\ pc' = "row_ptr" /\ valid' = valid
            /\ csr.absent = {} /\ csr.rows > 0 /\ csr.cols > 0 /\ csr.nnz >= 0
            /\ row_ptr[0] = 0 /\ row_ptr[csr.rows] = csr.nnz
         \/ /\ pc' = "check" /\ valid' \in Status /\ valid' # "SUCCESS"
            /\ ~WellFormed
    <2>1. /\ pc = "validate" /\ row' = 0 /\ p' = 0
          /\ UNCHANGED <<csr, prev, verdict, bad_row>>
        BY DEF Validate, ValidateReturns, ValidateInv
    <2>2. CASE csr.absent # {}
        BY <2>1, <2>2 DEF Validate, ValidateReturns, Then, Fail, Status, WellFormed
    <2>3. CASE csr.absent = {} /\ (csr.rows <= 0 \/ csr.cols <= 0 \/ csr.nnz < 0)
        <3>1. ~WellFormed
            BY <2>3 DEF WellFormed, Types, IsMatrix
        <3>. QED  BY <2>1, <2>3, <3>1 DEF Validate, ValidateReturns, Then, Fail, Status
    <2>4. CASE csr.absent = {} /\ ~(csr.rows <= 0 \/ csr.cols <= 0 \/ csr.nnz < 0)
        <3>1. csr.rows > 0 /\ csr.cols > 0 /\ csr.nnz >= 0
            BY <2>4 DEF Types, IsMatrix
        <3>2. CASE row_ptr[0] # 0 \/ row_ptr[csr.rows] # csr.nnz
            BY <2>1, <2>4, <3>2 DEF Validate, ValidateReturns, EndsMatch, Then, Fail, Status, WellFormed
        <3>3. CASE ~(row_ptr[0] # 0 \/ row_ptr[csr.rows] # csr.nnz)
            BY <2>1, <2>4, <3>1, <3>3 DEF Validate, EndsMatch, Then, Fail
        <3>. QED  BY <3>2, <3>3
    <2>. QED  BY <2>2, <2>3, <2>4
<1>2. Types'
    BY <1>1 DEF Types, IsMatrix
<1>3. ValidateInv'
    BY <1>1 DEF Types, IsMatrix, ValidateInv, Rising, Below, row_ptr
<1>4. ValidInv'
    BY <1>1 DEF ValidInv, WellFormed, Monotone, row_ptr
<1>5. CheckInv' /\ DoneInv'
    BY <1>1, NotYet
<1>. QED  BY <1>2, <1>3, <1>4, <1>5

LEMMA ValidateRowKeeps ==
    ASSUME Inv, ValidateRow
    PROVE  Inv'
<1>. USE DEF Inv
<1>1. /\ pc = "row_ptr" /\ p' = 0 /\ UNCHANGED <<csr, prev, verdict, bad_row>>
      /\ csr.absent = {} /\ csr.rows > 0 /\ csr.cols > 0 /\ csr.nnz >= 0
      /\ row_ptr[0] = 0 /\ row_ptr[csr.rows] = csr.nnz
      /\ Rising(csr, row) /\ Below(csr, row)
    BY DEF ValidateRow, ValidateReturns, ValidateInv
<1>2. CASE row < csr.rows /\ start > end
  <2>1. pc' = "check" /\ row' = 0 /\ valid' = "INVALID_CSR"
    BY <1>2 DEF ValidateRow, ValidateReturns
  <2>2. ~WellFormed
    <3>1. row \in 0 .. csr.rows - 1 /\ row_ptr[row] \in Int /\ row_ptr[row + 1] \in Int
      <4>1. csr.rows \in Int /\ row \in 0 .. csr.rows /\ csr.row_ptr \in [0 .. csr.rows -> Int]
        BY <1>1 DEF Types, IsMatrix
      <4>2. row \in 0 .. csr.rows - 1 /\ row \in 0 .. csr.rows /\ row + 1 \in 0 .. csr.rows
        BY ONLY <1>2, <4>1
      <4>. QED  BY ONLY <4>1, <4>2 DEF row_ptr
    <3>2. ~(row_ptr[row] <= row_ptr[row + 1])
      BY <1>2, <3>1 DEF start, end
    <3>. QED  BY <3>1, <3>2 DEF WellFormed, Monotone
  <2>3. Types' /\ ValidateInv' /\ ValidInv'
    BY <1>1, <2>1, <2>2 DEF Types, IsMatrix, Status, ValidateInv, ValidInv, WellFormed, Monotone, row_ptr
  <2>. QED  BY <1>1, <2>1, <2>3, NotYet
<1>3. CASE row < csr.rows /\ ~(start > end)
  <2>1. pc' = "row_ptr" /\ row' = row + 1 /\ valid' = valid
    BY <1>1, <1>3 DEF ValidateRow
  <2>2. Rising(csr, row + 1) /\ Below(csr, row + 1)
    BY <1>1, <1>3, OneMoreRow DEF Types, start, end, row_ptr
  <2>3. Types' /\ ValidateInv' /\ ValidInv'
    BY <1>1, <1>3, <2>1, <2>2 DEF Types, IsMatrix, ValidateInv, ValidInv, row_ptr
  <2>. QED  BY <1>1, <2>1, <2>3, NotYet
<1>4. CASE ~(row < csr.rows)
  <2>1. pc' = "columns" /\ row' = row /\ valid' = valid /\ row = csr.rows
    BY <1>1, <1>4 DEF ValidateRow, Types, IsMatrix
  <2>2. Ranged(csr, 0)
    BY DEF Ranged
  <2>3. Types' /\ ValidateInv' /\ ValidInv'
    BY <1>1, <2>1, <2>2 DEF Types, IsMatrix, ValidateInv, ValidInv, row_ptr
  <2>. QED  BY <1>1, <2>1, <2>3, NotYet
<1>. QED  BY <1>2, <1>3, <1>4

LEMMA ValidateColumnKeeps ==
    ASSUME Inv, ValidateColumn
    PROVE  Inv'
<1>. USE DEF Inv
<1>1. /\ pc = "columns" /\ UNCHANGED <<csr, prev, verdict, bad_row>>
      /\ csr.absent = {} /\ csr.rows > 0 /\ csr.cols > 0 /\ csr.nnz >= 0
      /\ row_ptr[0] = 0 /\ row_ptr[csr.rows] = csr.nnz
      /\ row = csr.rows /\ Rising(csr, csr.rows) /\ Below(csr, csr.rows)
      /\ p \in Nat /\ p <= csr.nnz /\ Ranged(csr, p)
    BY DEF ValidateColumn, ValidateReturns, ValidateInv, Types
<1>2. CASE p = csr.nnz
  <2>1. pc' = "check" /\ row' = 0 /\ p' = 0 /\ valid' = "SUCCESS"
    BY <1>2 DEF ValidateColumn, ValidateReturns
  <2>2. WellFormed
    BY <1>1, <1>2 DEF WellFormed, Monotone, Rising, Ranged, row_ptr
  <2>3. Types' /\ ValidateInv' /\ ValidInv'
    BY <1>1, <2>1, <2>2 DEF Types, IsMatrix, Status, ValidateInv, ValidInv, WellFormed, Monotone, row_ptr
  <2>. QED  BY <1>1, <2>1, <2>3, NotYet
<1>3. CASE p # csr.nnz /\ ~InRange(csr.col_idx[p])
  <2>1. pc' = "check" /\ row' = 0 /\ p' = 0 /\ valid' = "INVALID_CSR"
    BY <1>3 DEF ValidateColumn, ValidateReturns
  <2>2. ~WellFormed
    BY <1>1, <1>3 DEF WellFormed, InRange, Types, IsMatrix
  <2>3. Types' /\ ValidateInv' /\ ValidInv'
    BY <1>1, <2>1, <2>2 DEF Types, IsMatrix, Status, ValidateInv, ValidInv, WellFormed, Monotone, row_ptr
  <2>. QED  BY <1>1, <2>1, <2>3, NotYet
<1>4. CASE p # csr.nnz /\ InRange(csr.col_idx[p])
  <2>1. pc' = "columns" /\ p' = p + 1 /\ row' = row /\ valid' = valid
    BY <1>1, <1>4 DEF ValidateColumn
  <2>2. p + 1 <= csr.nnz /\ Ranged(csr, p + 1)
    <3>0. /\ csr.col_idx \in [0 .. csr.nnz - 1 -> Int] /\ csr.cols \in Int /\ csr.nnz \in Int
          /\ p \in Nat /\ p <= csr.nnz /\ p # csr.nnz
      BY <1>1, <1>4 DEF Types, IsMatrix
    <3>1. p \in 0 .. csr.nnz - 1 /\ csr.col_idx[p] \in Int /\ csr.cols \in Int /\ csr.nnz \in Int
      BY ONLY <3>0
    <3>2. csr.col_idx[p] \in 0 .. csr.cols - 1
      BY <1>4, <3>1 DEF InRange
    <3>3. \A i \in 0 .. p : i \in 0 .. p - 1 \/ i = p
      BY <1>1
    <3>4. p + 1 <= csr.nnz
      BY <1>1, <3>1
    <3>. QED  BY <1>1, <3>2, <3>3, <3>4 DEF Ranged
  <2>3. Types' /\ ValidateInv' /\ ValidInv'
    BY <1>1, <2>1, <2>2 DEF Types, IsMatrix, ValidateInv, ValidInv, row_ptr
  <2>. QED  BY <1>1, <2>1, <2>3, NotYet
<1>. QED  BY <1>2, <1>3, <1>4

-------------------------------------------------------------------------------
(* rvsp_csr_check *)

\* While it runs, what rvsp_csr_validate said stays right.
LEMMA StillValid ==
    ASSUME pc \in {"check", "rows", "entries"}, ValidInv,
           pc' \in {"rows", "entries", "done"}, valid' = valid, csr' = csr
    PROVE  ValidateInv' /\ ValidInv'
<1>1. ValidateInv'
    BY DEF ValidateInv
<1>2. ValidInv'
    BY DEF ValidInv, WellFormed, Monotone, row_ptr
<1>. QED  BY <1>1, <1>2

LEMMA OneMoreScanned ==
    ASSUME NEW M, IsMatrix(M), NEW r \in 0 .. M.rows, r < M.rows, Scanned(M, r),
           M.row_ptr[r] <= M.row_ptr[r + 1],
           M.row_ptr[r] < M.row_ptr[r + 1] => "col_idx" \notin M.absent,
           Ascends(M, M.row_ptr[r], M.row_ptr[r + 1])
    PROVE  Scanned(M, r + 1)
<1>1. \A i \in 0 .. r : i \in 0 .. r - 1 \/ i = r
    BY DEF IsMatrix
<1>. QED  BY <1>1 DEF Scanned

\* The rows scanned are canonical as far as the column array goes.
LEMMA ScannedRows ==
    ASSUME IsMatrix(csr), NEW r \in 0 .. csr.rows, Below(csr, r), Scanned(csr, r),
           NEW i \in 0 .. r - 1
    PROVE  CanonicalRow(i) \/ row_ptr[i + 1] > csr.nnz
<1>. SUFFICES ASSUME ~(row_ptr[i + 1] > csr.nnz)
              PROVE  CanonicalRow(i)
    OBVIOUS
<1>0. i \in 0 .. r /\ i \in 0 .. csr.rows /\ i + 1 \in 0 .. csr.rows
    BY DEF IsMatrix
<1>1. /\ row_ptr[i] \in Int /\ row_ptr[i + 1] \in Int /\ csr.nnz \in Int
      /\ 0 <= row_ptr[i] /\ row_ptr[i] <= row_ptr[i + 1]
    BY <1>0 DEF IsMatrix, Below, Scanned, row_ptr
<1>2. SUFFICES ASSUME NEW k \in row_ptr[i] .. row_ptr[i + 1] - 1
               PROVE  /\ k \in 0 .. csr.nnz - 1 /\ "col_idx" \notin csr.absent
                      /\ csr.col_idx[k] \in 0 .. csr.cols - 1
                      /\ \A m \in row_ptr[i] .. k - 1 : csr.col_idx[m] < csr.col_idx[k]
    BY <1>1 DEF CanonicalRow
<1>3. k \in 0 .. csr.nnz - 1 /\ row_ptr[i] < row_ptr[i + 1]
    BY <1>1
<1>4. "col_idx" \notin csr.absent /\ Follows(csr, row_ptr[i], k)
    BY <1>1, <1>3 DEF Scanned, Ascends, row_ptr
<1>. QED  BY <1>3, <1>4 DEF Follows

\* When it returns a fault of the row it stands at, that row is not canonical,
\* and the rows before it are.
LEMMA FaultReturned ==
    ASSUME Types, csr' = csr, pc' = "done", bad_row' = row, row < csr.rows,
           verdict' # "OK", Below(csr, row), Scanned(csr, row), ~CanonicalRow(row),
           row_ptr[row + 1] <= csr.nnz =>
             /\ verdict' = "BAD_ROW_PTR" => row_ptr[row + 1] < row_ptr[row]
             /\ verdict' = "COL_OUT_OF_RANGE" =>
                  \E i \in row_ptr[row] .. row_ptr[row + 1] - 1 :
                     csr.col_idx[i] \notin 0 .. csr.cols - 1
             /\ verdict' = "DUPLICATE" =>
                  \E i, j \in row_ptr[row] .. row_ptr[row + 1] - 1 :
                     i < j /\ csr.col_idx[i] = csr.col_idx[j]
             /\ verdict' = "UNSORTED" =>
                  \E i, j \in row_ptr[row] .. row_ptr[row + 1] - 1 :
                     i < j /\ csr.col_idx[j] < csr.col_idx[i]
    PROVE  DoneInv'
<1>1. row \in 0 .. csr.rows - 1 /\ row \in 0 .. csr.rows /\ IsMatrix(csr)
    BY DEF Types, IsMatrix
<1>2. VerdictIsRight'
    BY <1>1 DEF VerdictIsRight, Canonical, CanonicalRow, row_ptr
<1>3. \A i \in 0 .. row - 1 : CanonicalRow(i) \/ row_ptr[i + 1] > csr.nnz
    BY <1>1, ScannedRows
<1>4. FirstFault'
    BY <1>3 DEF FirstFault, CanonicalRow, row_ptr
<1>. QED  BY <1>2, <1>4 DEF DoneInv

\* And the rest of the invariant holds of it.
LEMMA FaultTypes ==
    ASSUME Types, pc' = "done", bad_row' = row, row \in 0 .. csr.rows - 1,
           verdict' \in Verdicts, UNCHANGED <<csr, row, p, prev, valid>>
    PROVE  Types' /\ CheckInv'
BY DEF Types, CheckInv

LEMMA CheckKeeps ==
    ASSUME Inv, Check
    PROVE  Inv'
<1>. USE DEF Inv
<1>1. /\ pc = "check" /\ row = 0 /\ bad_row = -1 /\ IsMatrix(csr)
      /\ UNCHANGED <<csr, row, p, prev, valid>>
    BY DEF Check, CheckReturns, CheckInv, Types
<1>2. CASE csr.rows < 0 \/ csr.cols < 0 \/ "row_ptr" \in csr.absent \/ row_ptr[0] # 0
  <2>1. verdict' = "BAD_ROW_PTR" /\ bad_row' = -1 /\ pc' = "done"
    BY <1>1, <1>2 DEF Check, CheckReturns
  <2>2. ~Canonical
    BY <1>1, <1>2 DEF Canonical, IsMatrix
  <2>3. DoneInv'
    BY <1>1, <2>1, <2>2 DEF DoneInv, VerdictIsRight, FirstFault, Canonical, CanonicalRow, row_ptr
  <2>4. Types' /\ CheckInv'
    BY <1>1, <2>1 DEF Types, IsMatrix, Verdicts, CheckInv
  <2>. QED  BY <1>1, <2>1, <2>3, <2>4, StillValid
<1>3. CASE ~(csr.rows < 0 \/ csr.cols < 0 \/ "row_ptr" \in csr.absent \/ row_ptr[0] # 0)
  <2>1. pc' = "rows" /\ verdict' = verdict /\ bad_row' = bad_row
    BY <1>1, <1>3 DEF Check
  <2>2. Below(csr, 0) /\ Scanned(csr, 0) /\ csr.cols >= 0
    BY <1>1, <1>3 DEF Below, Scanned, IsMatrix, row_ptr
  <2>3. Types' /\ CheckInv'
    BY <1>1, <1>3, <2>1, <2>2 DEF Types, IsMatrix, CheckInv, row_ptr
  <2>4. DoneInv'
    BY <1>1, <2>1 DEF DoneInv, VerdictIsRight, FirstFault
  <2>. QED  BY <1>1, <2>1, <2>3, <2>4, StillValid
<1>. QED  BY <1>2, <1>3

LEMMA CheckRowKeeps ==
    ASSUME Inv, CheckRow
    PROVE  Inv'
<1>. USE DEF Inv
<1>1. /\ pc = "rows" /\ UNCHANGED <<csr, valid>> /\ bad_row = -1
      /\ csr.rows >= 0 /\ csr.cols >= 0 /\ "row_ptr" \notin csr.absent /\ row_ptr[0] = 0 /\ Below(csr, row) /\ Scanned(csr, row)
      /\ IsMatrix(csr) /\ row \in 0 .. csr.rows
    BY DEF CheckRow, CheckReturns, CheckInv, Types
<1>2. CASE row = csr.rows
  <2>1. verdict' = "OK" /\ bad_row' = -1 /\ pc' = "done" /\ UNCHANGED <<row, p, prev>>
    BY <1>1, <1>2 DEF CheckRow, CheckReturns
  <2>2. \A i \in 0 .. csr.rows - 1 : CanonicalRow(i) \/ row_ptr[i + 1] > csr.nnz
    BY <1>1, <1>2, ScannedRows
  <2>3. row_ptr[csr.rows] <= csr.nnz => \A i \in 0 .. csr.rows - 1 : ~(row_ptr[i + 1] > csr.nnz)
    <3>1. \A i \in 0 .. csr.rows - 1 : i + 1 \in 0 .. csr.rows
      BY <1>1 DEF IsMatrix
    <3>2. \A i \in 0 .. csr.rows : row_ptr[i] <= row_ptr[csr.rows] /\ row_ptr[i] \in Int
      BY <1>1, <1>2 DEF Below, IsMatrix, row_ptr
    <3>3. csr.nnz \in Int /\ csr.rows \in 0 .. csr.rows
      BY <1>1 DEF IsMatrix
    <3>. QED
      <4>. SUFFICES ASSUME row_ptr[csr.rows] <= csr.nnz, NEW i \in 0 .. csr.rows - 1
                    PROVE  ~(row_ptr[i + 1] > csr.nnz)
        OBVIOUS
      <4>1. row_ptr[i + 1] <= row_ptr[csr.rows] /\ row_ptr[i + 1] \in Int /\ row_ptr[csr.rows] \in Int
        BY <3>1, <3>2, <3>3
      <4>. QED  BY <3>3, <4>1
  <2>4. DoneInv'
    BY <1>1, <2>1, <2>2, <2>3 DEF DoneInv, VerdictIsRight, FirstFault, Canonical, CanonicalRow, row_ptr
  <2>5. Types' /\ CheckInv'
    BY <1>1, <2>1 DEF Types, Verdicts, CheckInv
  <2>. QED  BY <1>1, <2>1, <2>4, <2>5, StillValid
<1>3. CASE row # csr.rows /\ Decreases
  <2>1. verdict' = "BAD_ROW_PTR" /\ bad_row' = row /\ pc' = "done" /\ UNCHANGED <<row, p, prev>>
    BY <1>1, <1>3 DEF CheckRow, CheckReturns
  <2>a. row < csr.rows /\ row \in 0 .. csr.rows - 1 /\ row + 1 \in 0 .. csr.rows
    BY <1>1, <1>3 DEF IsMatrix
  <2>2. /\ row < csr.rows /\ row \in 0 .. csr.rows - 1
        /\ row_ptr[row] \in Int /\ row_ptr[row + 1] \in Int /\ row_ptr[row + 1] < row_ptr[row]
    BY <1>1, <1>3, <2>a DEF IsMatrix, Decreases, start, end, row_ptr
  <2>3. ~CanonicalRow(row)
    BY <2>2 DEF CanonicalRow
  <2>4. DoneInv'
    BY <1>1, <2>1, <2>2, <2>3, FaultReturned
  <2>5. Types' /\ CheckInv'
    BY <1>1, <2>1, <2>2 DEF Types, Verdicts, CheckInv
  <2>. QED  BY <1>1, <2>1, <2>4, <2>5, StillValid
<1>4. ASSUME row # csr.rows, ~Decreases
      PROVE  Inv'
  <2>1. /\ row < csr.rows /\ row + 1 \in 0 .. csr.rows
        /\ start \in Nat /\ end \in Int /\ start <= end
    <3>1. /\ row \in 0 .. csr.rows /\ row # csr.rows /\ csr.rows \in Int
          /\ csr.row_ptr \in [0 .. csr.rows -> Int] /\ 0 <= csr.row_ptr[row]
      BY <1>1, <1>4 DEF IsMatrix, Below
    <3>2. /\ row < csr.rows /\ row + 1 \in 0 .. csr.rows
          /\ csr.row_ptr[row] \in Nat /\ csr.row_ptr[row + 1] \in Int
      BY ONLY <3>1
    <3>. QED  BY <1>4, <3>2 DEF Decreases, start, end, row_ptr
  <2>2. CASE end = start
    <3>1. pc' = "rows" /\ row' = row + 1 /\ UNCHANGED <<p, prev, verdict, bad_row>>
      BY <1>1, <1>4, <2>2 DEF CheckRow
    <3>2. Below(csr, row + 1)
      BY <1>1, <2>1, OneMoreRow DEF start, end, row_ptr
    <3>3. Scanned(csr, row + 1)
      BY <1>1, <2>1, <2>2, OneMoreScanned DEF Ascends, start, end, row_ptr
    <3>4. Types' /\ CheckInv' /\ DoneInv'
      BY <1>1, <2>1, <3>1, <3>2, <3>3 DEF Types, CheckInv, DoneInv, VerdictIsRight, FirstFault, row_ptr
    <3>. QED  BY <1>1, <3>1, <3>4, StillValid
  <2>3. CASE end # start /\ "col_idx" \in csr.absent
    <3>1. verdict' = "BAD_ROW_PTR" /\ bad_row' = -1 /\ pc' = "done" /\ UNCHANGED <<row, p, prev>>
      BY <1>1, <1>4, <2>3 DEF CheckRow, CheckReturns
    <3>2. ~CanonicalRow(row)
      <4>1. row_ptr[row] \in row_ptr[row] .. row_ptr[row + 1] - 1
        BY <2>1, <2>3 DEF start, end
      <4>. QED  BY <4>1, <2>3 DEF CanonicalRow
    <3>3. row \in 0 .. csr.rows - 1
      BY <1>1, <2>1 DEF IsMatrix
    <3>4. DoneInv'
      BY <1>1, <3>1, <3>2, <3>3 DEF DoneInv, VerdictIsRight, FirstFault, Canonical, CanonicalRow, row_ptr
    <3>5. Types' /\ CheckInv'
      BY <1>1, <3>1 DEF Types, Verdicts, CheckInv
    <3>. QED  BY <1>1, <3>1, <3>4, <3>5, StillValid
  <2>4. CASE end # start /\ "col_idx" \notin csr.absent
    <3>1. /\ p' = start /\ prev' = -1 /\ pc' = "entries" /\ UNCHANGED <<row, verdict, bad_row>>
      BY <1>1, <1>4, <2>4 DEF CheckRow
    <3>2. start' = start /\ end' = end
      BY <1>1, <3>1 DEF start, end, row_ptr
    <3>3. Ascends(csr, start, start)
      BY <2>1 DEF Ascends
    <3>4. Types'
      BY <1>1, <2>1, <3>1, <3>2 DEF Types
    <3>5. CheckInv' /\ DoneInv'
      BY <1>1, <2>4, <3>1, <3>2, <3>3 DEF CheckInv, DoneInv, VerdictIsRight, FirstFault, row_ptr
    <3>. QED  BY <1>1, <3>1, <3>4, <3>5, StillValid
  <2>. QED  BY <2>2, <2>3, <2>4
<1>. QED  BY <1>2, <1>3, <1>4

LEMMA CheckRowEndsKeeps ==
    ASSUME Inv, CheckRowEnds
    PROVE  Inv'
<1>. USE DEF Inv
<1>1. /\ pc = "entries" /\ p = end /\ pc' = "rows" /\ row' = row + 1
      /\ UNCHANGED <<csr, p, prev, valid, verdict, bad_row>>
      /\ csr.rows >= 0 /\ csr.cols >= 0 /\ "row_ptr" \notin csr.absent /\ row_ptr[0] = 0 /\ Below(csr, row) /\ Scanned(csr, row)
      /\ "col_idx" \notin csr.absent /\ Ascends(csr, start, p)
      /\ IsMatrix(csr) /\ row \in 0 .. csr.rows /\ row < csr.rows /\ start <= end
    BY DEF CheckRowEnds, CheckInv, Types
<1>2. /\ row + 1 \in 0 .. csr.rows /\ start \in Int /\ end \in Int
    BY <1>1 DEF IsMatrix, start, end, row_ptr
<1>3. Below(csr, row + 1)
    BY <1>1, <1>2, OneMoreRow DEF start, end, row_ptr
<1>4. Scanned(csr, row + 1)
    BY <1>1, <1>2, OneMoreScanned DEF start, end, row_ptr
<1>5. Types' /\ CheckInv' /\ DoneInv'
    BY <1>1, <1>2, <1>3, <1>4 DEF Types, CheckInv, DoneInv, VerdictIsRight, FirstFault, row_ptr
<1>. QED  BY <1>1, <1>5, StillValid

LEMMA CheckEntryKeeps ==
    ASSUME CsrCheckAssumption, Inv, CheckEntry
    PROVE  Inv'
<1>. USE DEF Inv
<1>1. /\ pc = "entries" /\ p < end /\ p \in Nat /\ bad_row = -1 /\ prev \in Int
      /\ UNCHANGED <<csr, row, valid>>
      /\ csr.rows >= 0 /\ csr.cols >= 0 /\ "row_ptr" \notin csr.absent /\ row_ptr[0] = 0 /\ Below(csr, row) /\ Scanned(csr, row)
      /\ "col_idx" \notin csr.absent /\ Ascends(csr, start, p)
      /\ IsMatrix(csr) /\ row \in 0 .. csr.rows /\ row < csr.rows /\ start <= p
      /\ p <= csr.nnz => prev = IF p = start THEN -1 ELSE csr.col_idx[p - 1]
    BY DEF CheckEntry, CheckReturns, CheckInv, Types
<1>2. /\ row + 1 \in 0 .. csr.rows /\ row \in 0 .. csr.rows - 1
      /\ start \in Nat /\ end \in Int /\ p \in start .. end - 1
      /\ csr.cols \in Int /\ csr.nnz \in Int
      /\ start = row_ptr[row] /\ end = row_ptr[row + 1]
  <2>1. row + 1 \in 0 .. csr.rows /\ row \in 0 .. csr.rows - 1 /\ row \in 0 .. row
    BY <1>1 DEF IsMatrix
  <2>2. start \in Nat /\ end \in Int
    <3>1. csr.row_ptr[row] \in Int /\ csr.row_ptr[row + 1] \in Int
      BY <1>1, <2>1 DEF IsMatrix
    <3>2. 0 <= csr.row_ptr[row]
      BY <1>1, <2>1 DEF Below
    <3>. QED  BY <3>1, <3>2 DEF start, end, row_ptr
  <2>. QED  BY <1>1, <2>1, <2>2 DEF IsMatrix, start, end
<1>3. PICK col \in Columns :
        IF EntryVerdict(col) # "OK" THEN CheckReturns(EntryVerdict(col), row)
        ELSE /\ prev' = NextPrev(col) /\ p' = p + 1
             /\ UNCHANGED <<csr, pc, row, valid, verdict, bad_row>>
    BY DEF CheckEntry
<1>4. p < csr.nnz => /\ col = csr.col_idx[p] /\ p \in 0 .. csr.nnz - 1
    BY <1>1, <1>2, <1>3 DEF Columns
<1>5. col \in Int
    BY <1>1, <1>3, <1>4 DEF Columns, CsrCheckAssumption, IsMatrix
\* The columns of this row before p are at most prev.
<1>6. ASSUME p <= csr.nnz, NEW m \in start .. p - 1
      PROVE  csr.col_idx[m] \in Int /\ csr.col_idx[m] <= prev /\ 0 <= prev /\ p - 1 \in start .. p - 1
             /\ csr.col_idx[p - 1] = prev
  <2>1. p - 1 \in start .. p - 1 /\ p - 1 < csr.nnz /\ p # start
    BY <1>1, <1>2, <1>6
  <2>2. prev = csr.col_idx[p - 1] /\ Follows(csr, start, p - 1)
    BY <1>1, <1>6, <2>1 DEF Ascends
  <2>a. m \in 0 .. csr.nnz - 1
    BY <1>1, <1>2, <1>6
  <2>3. m \in 0 .. csr.nnz - 1 /\ csr.col_idx[m] \in Int
    BY <1>1, <2>a DEF IsMatrix
  <2>4. m = p - 1 \/ m \in start .. (p - 1) - 1
    BY <1>1, <1>2
  <2>5. /\ csr.col_idx[p - 1] \in 0 .. csr.cols - 1
        /\ \A i \in start .. (p - 1) - 1 : csr.col_idx[i] < csr.col_idx[p - 1]
    BY <2>2 DEF Follows
  <2>6. csr.cols \in Int /\ 0 <= prev /\ csr.col_idx[m] <= prev
    <3>1. csr.cols \in Int /\ prev = csr.col_idx[p - 1]
      BY <1>1, <1>2, <2>2
    <3>2. csr.col_idx[p - 1] \in Nat
      BY ONLY <2>5, <3>1
    <3>3. csr.col_idx[m] <= csr.col_idx[p - 1]
      BY ONLY <2>3, <2>4, <2>5, <3>1
    <3>. QED  BY <3>1, <3>2, <3>3
  <2>. QED  BY <2>1, <2>2, <2>3, <2>6
<1>7. CASE EntryVerdict(col) # "OK"
  <2>1. /\ verdict' = EntryVerdict(col) /\ bad_row' = row /\ pc' = "done"
        /\ UNCHANGED <<csr, row, p, prev, valid>>
    BY <1>3, <1>7 DEF CheckReturns
  <2>2. \/ EntryVerdict(col) = "COL_OUT_OF_RANGE" /\ ~InRange(col)
        \/ EntryVerdict(col) = "DUPLICATE" /\ InRange(col) /\ col = prev
        \/ EntryVerdict(col) = "UNSORTED" /\ InRange(col) /\ col < prev
    BY <1>7 DEF EntryVerdict
  <2>a. verdict' \in Verdicts /\ verdict' # "OK" /\ bad_row' = row /\ csr' = csr /\ pc' = "done"
    BY <2>1, <2>2 DEF Verdicts
  <2>b. Types' /\ CheckInv' /\ ValidateInv' /\ ValidInv'
    BY <1>1, <1>2, <2>1, <2>a, StillValid, FaultTypes
  <2>3. CASE p >= csr.nnz
    <3>1. ~CanonicalRow(row)
      <4>1. p \notin 0 .. csr.nnz - 1
        BY <1>2, <2>3
      <4>. QED  BY <1>2, <4>1 DEF CanonicalRow
    <3>2. ~(row_ptr[row + 1] <= csr.nnz)
      BY <1>1, <1>2, <2>3
    <3>. QED  BY <1>1, <2>a, <2>b, <3>1, <3>2, FaultReturned
  <2>4. CASE p < csr.nnz
    <3>1. /\ col = csr.col_idx[p] /\ p <= csr.nnz /\ p \in row_ptr[row] .. row_ptr[row + 1] - 1
      BY <1>1, <1>2, <1>4, <2>4
    <3>2. CASE EntryVerdict(col) = "COL_OUT_OF_RANGE" /\ ~InRange(col)
      <4>1. csr.col_idx[p] \notin 0 .. csr.cols - 1
        BY <1>2, <1>5, <3>1, <3>2 DEF InRange
      <4>2. ~CanonicalRow(row)
        BY <3>1, <4>1 DEF CanonicalRow
      <4>3. \E i \in row_ptr[row] .. row_ptr[row + 1] - 1 : csr.col_idx[i] \notin 0 .. csr.cols - 1
        BY <3>1, <4>1
      <4>4. verdict' = "COL_OUT_OF_RANGE"
        BY <2>1, <3>2
      <4>. QED  BY <1>1, <2>a, <2>b, <4>2, <4>3, <4>4, FaultReturned
    <3>3. CASE InRange(col) /\ EntryVerdict(col) \in {"DUPLICATE", "UNSORTED"} /\ col <= prev
      <4>1. p # start /\ p - 1 \in start .. p - 1 /\ prev = csr.col_idx[p - 1]
        BY <1>1, <1>2, <1>5, <3>1, <3>3 DEF InRange
      <4>2. p - 1 \in row_ptr[row] .. row_ptr[row + 1] - 1 /\ p - 1 < p
        BY <1>2, <4>1
      <4>3. ~CanonicalRow(row)
        <5>1. ~(csr.col_idx[p - 1] < csr.col_idx[p])
          BY <1>1, <1>5, <3>1, <3>3, <4>1
        <5>. QED  BY <1>2, <3>1, <4>1, <5>1 DEF CanonicalRow
      <4>4. /\ EntryVerdict(col) = "DUPLICATE" => csr.col_idx[p - 1] = csr.col_idx[p]
            /\ EntryVerdict(col) = "UNSORTED" => csr.col_idx[p] < csr.col_idx[p - 1]
        BY <2>2, <3>1, <4>1
      <4>5. /\ verdict' = "DUPLICATE" =>
                 \E i, j \in row_ptr[row] .. row_ptr[row + 1] - 1 :
                    i < j /\ csr.col_idx[i] = csr.col_idx[j]
            /\ verdict' = "UNSORTED" =>
                 \E i, j \in row_ptr[row] .. row_ptr[row + 1] - 1 :
                    i < j /\ csr.col_idx[j] < csr.col_idx[i]
        BY <2>1, <3>1, <4>2, <4>4
      <4>6. verdict' \in {"DUPLICATE", "UNSORTED"}
        BY <2>1, <3>3
      <4>. QED  BY <1>1, <2>a, <2>b, <4>3, <4>5, <4>6, FaultReturned
    <3>. QED  BY <1>1, <1>5, <2>2, <3>2, <3>3
  <2>. QED  BY <1>1, <1>2, <2>3, <2>4
<1>8. CASE EntryVerdict(col) = "OK"
  <2>1. /\ prev' = col /\ p' = p + 1 /\ pc' = "entries" /\ UNCHANGED <<csr, row, valid, verdict, bad_row>>
    BY <1>1, <1>3, <1>8 DEF NextPrev
  <2>2. InRange(col) /\ prev < col
    BY <1>1, <1>5, <1>8 DEF EntryVerdict
  <2>3. start' = start /\ end' = end
    BY <2>1 DEF start, end, row_ptr
  <2>4. p < csr.nnz => Follows(csr, start, p)
    <3>. SUFFICES ASSUME p < csr.nnz  PROVE  Follows(csr, start, p)
      OBVIOUS
    <3>1. col = csr.col_idx[p] /\ col \in 0 .. csr.cols - 1 /\ p <= csr.nnz
      BY <1>1, <1>2, <1>4, <1>5, <2>2 DEF InRange
    <3>2. ASSUME NEW m \in start .. p - 1  PROVE  csr.col_idx[m] < col
      BY <1>1, <1>5, <1>6, <2>2, <3>1
    <3>. QED  BY <3>1, <3>2 DEF Follows
  <2>5. Ascends(csr, start, p + 1)
    <3>1. \A k \in start .. (p + 1) - 1 : k \in start .. p - 1 \/ k = p
      BY <1>1, <1>2
    <3>. QED  BY <1>1, <2>4, <3>1 DEF Ascends
  <2>6. p + 1 <= csr.nnz => col = csr.col_idx[(p + 1) - 1] /\ p + 1 # start
    BY <1>1, <1>2, <1>4
  <2>7. Types'
    BY <1>1, <1>2, <1>5, <2>1, <2>3 DEF Types
  <2>8. CheckInv' /\ DoneInv'
    BY <1>1, <2>1, <2>3, <2>5, <2>6 DEF CheckInv, DoneInv, VerdictIsRight, FirstFault, row_ptr
  <2>. QED  BY <1>1, <2>1, <2>7, <2>8, StillValid
<1>. QED  BY <1>7, <1>8

-------------------------------------------------------------------------------

THEOREM InvHolds == CsrCheckAssumption => (Spec => []Inv)
<1>. SUFFICES ASSUME CsrCheckAssumption  PROVE  Spec => []Inv
    OBVIOUS
<1>1. Init => Inv
    BY InitInv
<1>2. Inv /\ [Next]_vars => Inv'
  <2>. SUFFICES ASSUME Inv, [Next]_vars  PROVE  Inv'
    OBVIOUS
  <2>1. CASE UNCHANGED vars
    <3>1. UNCHANGED <<csr, pc, row, p, prev, valid, verdict, bad_row>>
      BY <2>1 DEF vars
    <3>2. UNCHANGED <<row_ptr, start, end>>
      BY <3>1 DEF row_ptr, start, end
    <3>3. Types' /\ ValidateInv'
      BY <3>1, <3>2 DEF Inv, Types, ValidateInv
    <3>4. WellFormed' <=> WellFormed
      BY <3>1, <3>2 DEF WellFormed, Monotone
    <3>5. ValidInv' /\ CheckInv'
      BY <3>1, <3>2, <3>4 DEF Inv, ValidInv, CheckInv
    <3>6. \A i : CanonicalRow(i)' <=> CanonicalRow(i)
      BY <3>1, <3>2 DEF CanonicalRow
    <3>7. VerdictIsRight'
      BY <3>1, <3>2, <3>6 DEF Inv, DoneInv, VerdictIsRight, Canonical
    <3>8. FirstFault'
      BY <3>1, <3>2, <3>6 DEF Inv, DoneInv, FirstFault
    <3>. QED  BY <3>3, <3>5, <3>7, <3>8 DEF Inv, DoneInv
  <2>2. CASE Next
    BY <2>2, ValidateKeeps, ValidateRowKeeps, ValidateColumnKeeps, CheckKeeps, CheckRowKeeps,
       CheckEntryKeeps, CheckRowEndsKeeps DEF Next
  <2>. QED  BY <2>1, <2>2
<1>. QED  BY <1>1, <1>2, PTL DEF Spec

\* The loops stay inside the matrix: no row is read past the last, and no entry
\* past the end of its row.
THEOREM TypeCorrect == CsrCheckAssumption => (Spec => []TypeOK)
<1>1. Inv => TypeOK
    BY DEF Inv, Types, TypeOK
<1>. QED  BY <1>1, InvHolds, PTL

\* rvsp_csr_validate accepts exactly the well-formed matrices.
THEOREM ValidationIsRight == CsrCheckAssumption => (Spec => []ValidIsRight)
<1>1. Inv => ValidIsRight
    BY DEF Inv, ValidInv, ValidIsRight
<1>. QED  BY <1>1, InvHolds, PTL

\* rvsp_csr_check accepts every canonical matrix and, among those whose row
\* pointers stay within the column array, no other.
THEOREM CheckIsRight == CsrCheckAssumption => (Spec => []VerdictIsRight)
<1>1. Inv => VerdictIsRight
    BY DEF Inv, DoneInv
<1>. QED  BY <1>1, InvHolds, PTL

\* The row that rvsp_csr_check reports is the first that is not canonical, and
\* the reason it gives is true of that row.
THEOREM BlamesTheFirstRow == CsrCheckAssumption => (Spec => []FirstFault)
<1>1. Inv => FirstFault
    BY DEF Inv, DoneInv
<1>. QED  BY <1>1, InvHolds, PTL

\* A matrix that rvsp_csr_create accepted is read inside its arrays.
THEOREM ChecksInside == CsrCheckAssumption => (Spec => []ReadsStayInside)
<1>1. Inv => ReadsStayInside
  <2>. SUFFICES ASSUME Inv, pc = "entries", p < end, valid = "SUCCESS"
                PROVE  p \in 0 .. csr.nnz - 1
    BY DEF ReadsStayInside
  <2>1. /\ IsMatrix(csr) /\ row \in 0 .. csr.rows /\ row < csr.rows /\ p \in Nat /\ start <= p
        /\ Below(csr, csr.rows) /\ row_ptr[csr.rows] = csr.nnz
    BY DEF Inv, Types, ValidInv, WellFormed
  <2>2. row + 1 \in 0 .. csr.rows /\ csr.nnz \in Int
    BY <2>1 DEF IsMatrix
  <2>3. end \in Int /\ end <= csr.nnz
    BY <2>1, <2>2 DEF IsMatrix, Below, end, row_ptr
  <2>. QED  BY <2>1, <2>2, <2>3
<1>. QED  BY <1>1, InvHolds, PTL

===============================================================================
