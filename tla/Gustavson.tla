------------------------------- MODULE Gustavson -------------------------------
(***************************************************************************)
(* One run of a SpGEMM kernel: the symbolic count, its prefix sum, the     *)
(* allocation of C, the symbolic fill and the numeric pass                 *)
(* (kernels/spgemm/rvsp_symbolic.c and gustavson_core_f32.inc), one entry  *)
(* of B at a time.  The arrays of the code are functions from 0; a row of  *)
(* an operand is the sequence of its columns, which may be unsorted or     *)
(* repeat a column, since the phases do not check.                         *)
(*                                                                         *)
(* A floating point number is the sequence of the products added to it, so *)
(* two sums are equal when they add the same products in the same order.   *)
(* What rvsp_sort_columns does is stated here and shown in ColumnSort.     *)
(***************************************************************************)
EXTENDS Integers, Sequences, FiniteSets, Functions, RvStatus

CONSTANTS
    a_rows, a_cols, b_cols,     \* the shape of the product
    LeftRows,                   \* rows an A can have
    RightRows,                  \* rows a B can have
    MaxNnz,                     \* INT32_MAX
    Junk                        \* the contents of malloc'd memory

Rows == 0 .. a_rows - 1
Cols == 0 .. b_cols - 1

ASSUME ShapeAssumption ==
    /\ a_rows \in Nat \ {0} /\ a_cols \in Nat \ {0} /\ b_cols \in Nat \ {0}
    /\ LeftRows \subseteq Seq(0 .. a_cols - 1)
    /\ RightRows \subseteq Seq(Cols)
    /\ MaxNnz \in Nat
    /\ Junk \notin Nat

VARIABLES
    A, B,               \* the operands, row by row
    pc,                 \* the phase
    row, ap, bp,        \* the loop counters; ap and bp are positions in a row
    ops,                \* products counted for the row
    mark, touched,      \* columns of C seen in this row
    op_counts, c_row_ptr, total, running,
    c_col_idx, c_values,
    acc,
    heap,               \* blocks allocated and not freed
    given               \* blocks the out parameters point to

operands == <<A, B>>
marks    == <<mark, touched>>
counts   == <<op_counts, c_row_ptr, total, running>>
columns  == c_col_idx
sums     == <<acc, c_values>>
memory   == <<heap, given>>
vars == <<operands, pc, row, ap, bp, ops, marks, counts, columns, sums, memory>>

-------------------------------------------------------------------------------

BRow == B[A[row][ap]]
InRow == row < a_rows
InA == InRow /\ ap <= Len(A[row])
InB == InA /\ bp <= Len(BRow)

\* The entries of C that row r owns.
Positions(r) == c_row_ptr[r] .. c_row_ptr[r + 1] - 1

\* Slip: a column is kept each time it is met.
SlipAlwaysFresh(col) == TRUE
Fresh(col) == mark[col] = 0

\* Slip: the marks of a row stay.
SlipStaysMarked(cols) == mark
\* mark without the columns of a row.
Unmarked(cols) == [c \in Cols |-> IF c \in Range(cols) THEN 0 ELSE mark[c]]

\* Slip: the total is compared one too late.
SlipLateOverflow(sum) == sum > MaxNnz + 1
Overflows(sum) == sum > MaxNnz

\* Slip: the prefix sum includes the row's own count.
SlipInclusive(r) == running + c_row_ptr[r]
\* The entries of the rows before r, once running has passed them.
Exclusive(r) == running

\* rvsp_sort_columns on distinct columns: position i gets the i-th smallest.
Ascending(cols) ==
    [i \in DOMAIN cols |->
        CHOOSE c \in Range(cols) : Cardinality({d \in Range(cols) : d < c}) = i - 1]

\* Slip: a sum that was drained stays in acc.
SlipStaysSummed(r) == acc
\* acc once the sums of row r are in C.
Drained(r) ==
    [c \in Cols |-> IF \E i \in Positions(r) : c_col_idx[i] = c THEN <<>> ELSE acc[c]]

\* What each failing return frees by hand.
FreedOnOverflow == {"c_row_ptr"}
\* Slip: the row pointers are forgotten when C's arrays cannot be allocated.
SlipKeepsRowPtr == {"c_col_idx", "c_values"}
FreedWithoutC == {"c_row_ptr", "c_col_idx", "c_values"}

\* C's own arrays, allocated one after the other before either is tested.
CArrays == {"c_col_idx", "c_values"}

NextRow(r) == r + 1

-------------------------------------------------------------------------------

Init ==
    /\ A \in [Rows -> LeftRows]
    /\ B \in [0 .. a_cols - 1 -> RightRows]
    /\ pc = "start"
    /\ row = 0 /\ ap = 1 /\ bp = 1 /\ ops = 0
    /\ mark = [c \in Cols |-> Junk] /\ touched = <<>>
    /\ op_counts = [r \in Rows |-> Junk]
    /\ c_row_ptr = [r \in 0 .. a_rows |-> 0]
    /\ total = 0 /\ running = 0
    /\ c_col_idx = <<>> /\ c_values = <<>>
    /\ acc = [c \in Cols |-> Junk]
    /\ heap = {} /\ given = {}

\* The workspace is the caller's: what it holds on entry is cleared.
ZeroWorkspace ==
    /\ mark' = [c \in Cols |-> 0]
    /\ acc' = [c \in Cols |-> <<>>]

\* The out parameters were set to NULL on entry and stay so.
Fails(left) == pc' = "failed" /\ heap' = left /\ UNCHANGED given

EnterPhase(name) == pc' = name /\ row' = 0 /\ ap' = 1 /\ bp' = 1
NewRow == row' = NextRow(row) /\ ap' = 1 /\ bp' = 1

\* c_row_ptr comes from calloc.
AllocateRowPtr ==
    /\ pc = "start"
    /\ ZeroWorkspace
    /\ EnterPhase("count")
    /\ heap' = {"c_row_ptr"}
    /\ UNCHANGED <<operands, ops, touched, counts, columns, c_values, given>>

AllocateRowPtrFails ==
    /\ pc = "start"
    /\ ZeroWorkspace
    /\ Fails(heap)
    /\ UNCHANGED <<operands, row, ap, bp, ops, touched, counts, columns, c_values>>

\* The next entry of B: a column not seen in this row is marked and kept.
Visit ==
    /\ LET col == BRow[bp] IN
       IF Fresh(col)
         THEN mark' = [mark EXCEPT ![col] = 1] /\ touched' = Append(touched, col)
         ELSE UNCHANGED marks
    /\ bp' = bp + 1
    /\ UNCHANGED <<operands, pc, row, ap, ops, counts, sums, memory>>

CountEntry ==
    /\ pc = "count" /\ InB
    /\ Visit
    /\ UNCHANGED columns

\* The fill keeps the column in C itself, at out[count].
FillEntry ==
    /\ pc = "fill" /\ InB
    /\ Visit
    /\ IF Fresh(BRow[bp])
         THEN c_col_idx' = [c_col_idx EXCEPT ![c_row_ptr[row] + Len(touched)] = BRow[bp]]
         ELSE UNCHANGED columns

\* acc[col] += a_val * b_values[p], an entry at a time as accum_scalar_f32.c has
\* it.  The vector strategies do the same when no row of B repeats a column
\* (AccumRow).
AccumEntry ==
    /\ pc = "numeric" /\ InB
    /\ acc' = [acc EXCEPT ![BRow[bp]] = Append(@, <<ap, bp>>)]
    /\ bp' = bp + 1
    /\ UNCHANGED <<operands, pc, row, ap, ops, marks, counts, columns, c_values, memory>>

\* The next entry of A; the count adds up the lengths of the rows of B.
NextEntryOfA ==
    /\ pc \in {"count", "fill", "numeric"} /\ InA /\ ~InB
    /\ ap' = ap + 1 /\ bp' = 1
    /\ ops' = IF pc = "count" THEN ops + Len(BRow) ELSE ops
    /\ UNCHANGED <<operands, pc, row, marks, counts, columns, sums, memory>>

CountRow ==
    /\ pc = "count" /\ InRow /\ ~InA
    /\ mark' = Unmarked(touched)
    /\ touched' = <<>>
    /\ op_counts' = [op_counts EXCEPT ![row] = ops]
    /\ ops' = 0
    /\ c_row_ptr' = [c_row_ptr EXCEPT ![row] = Len(touched)]
    /\ total' = total + Len(touched)
    /\ IF Overflows(total')
         THEN Fails(heap \ FreedOnOverflow) /\ UNCHANGED <<row, ap, bp>>
         ELSE NewRow /\ UNCHANGED <<pc, memory>>
    /\ UNCHANGED <<operands, running, columns, sums>>

StartPrefix ==
    /\ pc = "count" /\ ~InRow
    /\ EnterPhase("prefix")
    /\ UNCHANGED <<operands, ops, marks, counts, columns, sums, memory>>

PrefixRow ==
    /\ pc = "prefix" /\ InRow
    /\ c_row_ptr' = [c_row_ptr EXCEPT ![row] = Exclusive(row)]
    /\ running' = running + c_row_ptr[row]
    /\ NewRow
    /\ UNCHANGED <<operands, pc, ops, marks, op_counts, total, columns, sums, memory>>

\* The last row pointer, then C's arrays, at least one entry long.
AllocateC ==
    /\ pc = "prefix" /\ ~InRow
    /\ c_row_ptr' = [c_row_ptr EXCEPT ![a_rows] = running]
    /\ LET n == IF total > 0 THEN total ELSE 1 IN
       /\ c_col_idx' = [i \in 0 .. n - 1 |-> Junk]
       /\ c_values' = [i \in 0 .. n - 1 |-> Junk]
    /\ heap' = heap \cup CArrays
    /\ EnterPhase("fill")
    /\ UNCHANGED <<operands, ops, marks, op_counts, total, running, acc, given>>

\* One malloc or both return NULL.
AllocateCFails ==
    /\ pc = "prefix" /\ ~InRow
    /\ c_row_ptr' = [c_row_ptr EXCEPT ![a_rows] = running]
    /\ \E got \in SUBSET CArrays :
         got # CArrays /\ Fails((heap \cup got) \ FreedWithoutC)
    /\ UNCHANGED <<operands, row, ap, bp, ops, marks, op_counts, total, running, columns, sums>>

FillRow ==
    /\ pc = "fill" /\ InRow /\ ~InA
    /\ LET sorted == Ascending(touched) IN
       /\ c_col_idx' = [i \in DOMAIN c_col_idx |->
              IF i - c_row_ptr[row] \in 0 .. Len(touched) - 1
                THEN sorted[i - c_row_ptr[row] + 1] ELSE c_col_idx[i]]
       /\ mark' = Unmarked(sorted)
    /\ touched' = <<>>
    /\ NewRow
    /\ UNCHANGED <<operands, pc, ops, counts, sums, memory>>

StartNumeric ==
    /\ pc = "fill" /\ ~InRow
    /\ EnterPhase("numeric")
    /\ UNCHANGED <<operands, ops, marks, counts, columns, sums, memory>>

DrainRow ==
    /\ pc = "numeric" /\ InRow /\ ~InA
    /\ c_values' = [i \in DOMAIN c_values |->
                        IF i \in Positions(row) THEN acc[c_col_idx[i]] ELSE c_values[i]]
    /\ acc' = Drained(row)
    /\ NewRow
    /\ UNCHANGED <<operands, pc, ops, marks, counts, columns, memory>>

Return ==
    /\ pc = "numeric" /\ ~InRow
    /\ pc' = "done" /\ given' = heap
    /\ UNCHANGED <<operands, row, ap, bp, ops, marks, counts, columns, sums, heap>>

Next ==
    \/ AllocateRowPtr \/ AllocateRowPtrFails
    \/ CountEntry \/ FillEntry \/ AccumEntry \/ NextEntryOfA
    \/ CountRow \/ StartPrefix \/ PrefixRow \/ AllocateC \/ AllocateCFails
    \/ FillRow \/ StartNumeric \/ DrainRow \/ Return

\* A sequential function that is called runs.
Spec == Init /\ [][Next]_vars

-------------------------------------------------------------------------------
(* Correctness *)

\* What the product is, from the operands alone: the columns of row r of C,
\* how many entries the rows before r have, and the products that add up to
\* column c in row r, by their positions in A's row and in B's.
ProductRow(r) == UNION {Range(B[k]) : k \in Range(A[r])}
EntriesBefore(r) ==
    Cardinality({e \in Rows \X Cols : e[1] < r /\ e[2] \in ProductRow(e[1])})
Entries(r) == UNION {{p} \X DOMAIN B[A[r][p]] : p \in DOMAIN A[r]}
Products(r, c) == {e \in Entries(r) : B[A[r][e[1]]][e[2]] = c}

Earlier(e, f) == e[1] < f[1] \/ (e[1] = f[1] /\ e[2] < f[2])
InOrder(s, S) ==
    Range(s) = S /\ \A i, j \in DOMAIN s : i < j => Earlier(s[i], s[j])

\* The entries of B the loops have passed in this row.
Passed == {e \in Entries(row) : Earlier(e, <<ap, bp>>)}

\* Every index the loops use stays inside the array it indexes: the list of
\* touched columns never outgrows its b_cols slots, although a row of the
\* product may add up far more entries than that.
TypeOK ==
    /\ A \in [Rows -> LeftRows] /\ B \in [0 .. a_cols - 1 -> RightRows]
    /\ pc \in {"start", "count", "prefix", "fill", "numeric", "done", "failed"}
    /\ row \in 0 .. a_rows
    /\ ap \in Nat \ {0} /\ bp \in Nat \ {0} /\ ops \in Nat
    /\ mark \in [Cols -> {0, 1, Junk}]
    /\ touched \in Seq(Cols) /\ Len(touched) <= b_cols
    /\ op_counts \in [Rows -> Nat \cup {Junk}]
    /\ c_row_ptr \in [0 .. a_rows -> Nat]
    /\ total \in Nat /\ running \in Nat
    /\ c_col_idx \in [DOMAIN c_col_idx -> Cols \cup {Junk}]
    /\ c_values \in [DOMAIN c_values -> Seq((Nat \X Nat)) \cup {Junk}]
    /\ acc \in [Cols -> Seq((Nat \X Nat)) \cup {Junk}]
    /\ heap \subseteq {"c_row_ptr", "c_col_idx", "c_values"}
    /\ given \subseteq heap

\* In both symbolic passes the marked columns are exactly the distinct columns
\* met in this row, and no mark of an earlier row is left.
MarksMatchRow ==
    pc \in {"count", "fill"} =>
        /\ IsInjective(touched)
        /\ Range(touched) =
             IF InRow THEN {B[A[row][e[1]]][e[2]] : e \in Passed} ELSE {}
        /\ \A c \in Cols : mark[c] = IF c \in Range(touched) THEN 1 ELSE 0

\* The counts become row pointers without losing a row, and C is allocated
\* only when its number of entries fits an int32_t.
CountsRows ==
    /\ pc = "count" =>
         /\ total = EntriesBefore(row)
         /\ \A r \in 0 .. row - 1 :
              /\ c_row_ptr[r] = Cardinality(ProductRow(r))
              /\ op_counts[r] = Cardinality(Entries(r))
    /\ pc = "prefix" =>
         /\ running = EntriesBefore(row)
         /\ \A r \in Rows :
              c_row_ptr[r] = IF r < row THEN EntriesBefore(r) ELSE Cardinality(ProductRow(r))
    /\ pc \in {"fill", "numeric", "done"} =>
         \A r \in 0 .. a_rows : c_row_ptr[r] = EntriesBefore(r)
    /\ pc \in {"prefix", "fill", "numeric", "done"} =>
         total = EntriesBefore(a_rows) /\ total <= MaxNnz

RowFilled(r) ==
    /\ {c_col_idx[i] : i \in Positions(r)} = ProductRow(r)
    /\ \A i, j \in Positions(r) : i < j => c_col_idx[i] < c_col_idx[j]

\* The fill meets the columns the count met: it stays inside the entries that
\* the row pointers give the row, and leaves each row canonical.
FillsRows ==
    /\ pc \in {"numeric", "done"} => \A r \in Rows : RowFilled(r)
    /\ pc = "fill" =>
         /\ \A r \in 0 .. row - 1 : RowFilled(r)
         /\ \A n \in DOMAIN touched :
              /\ c_row_ptr[row] + n - 1 \in Positions(row)
              /\ c_col_idx[c_row_ptr[row] + n - 1] = touched[n]

RowSummed(r) ==
    \A i \in Positions(r) : InOrder(c_values[i], Products(r, c_col_idx[i]))

\* acc holds the products of this row so far, in the order of the entries, and
\* nothing an earlier row added to the same columns.
SumsRow ==
    pc = "numeric" =>
        /\ \A c \in Cols :
             InOrder(acc[c], IF InRow THEN Products(row, c) \cap Passed ELSE {})
        /\ \A r \in 0 .. row - 1 : RowSummed(r)

\* Everything the loops reuse from one row to the next is as this row alone made
\* it: the list of touched columns with its marks, and the sums.
ScratchMatchesRow == TypeOK /\ MarksMatchRow /\ SumsRow

\* The count and the fill agree on every row, to the last column.
PassesAgree == CountsRows /\ FillsRows

\* What the caller gets is A*B: its rows are canonical, its number of entries
\* is the last row pointer, and each value is the sum over the entries of A's
\* row from left to right, so that a kernel gives the same bits each time.  Rows
\* of B that repeat a column are included for entries added one at a time only:
\* a gather would lose one of two equal lanes.
ReturnsProduct ==
    pc = "done" =>
        /\ \A r \in Rows : RowFilled(r) /\ RowSummed(r)
        /\ c_row_ptr[0] = 0 /\ c_row_ptr[a_rows] = total

\* rvsp_spgemm.h on the phases: each leaves its array zeroed.
LeavesZeroed ==
    /\ (pc \in {"prefix", "numeric", "done", "failed"}) => \A c \in Cols : mark[c] = 0
    /\ (pc \in {"prefix", "fill", "done", "failed"}) => \A c \in Cols : acc[c] = <<>>

\* The caller owns all three arrays after a success and none after a failure,
\* and nothing else is left on the heap, whichever of the allocations failed.
HeapOnReturn ==
    /\ pc = "failed" => heap = {} /\ given = {}
    /\ pc = "done" => heap = {"c_row_ptr", "c_col_idx", "c_values"} /\ given = heap

===============================================================================
