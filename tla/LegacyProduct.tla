---------------------------- MODULE LegacyProduct ----------------------------
(***************************************************************************)
(* The older product kernels (kernels/spgemm/legacy), which INT8 and FP64  *)
(* products still use.  Each counts the columns every row of C can have,   *)
(* turns the counts into row starts, and then computes the rows one after  *)
(* the other, leaving out the sums that cancel: c_row_ptr goes from the    *)
(* starts of the rows that are still to come to the ends of those written. *)
(*                                                                         *)
(* Kernels are named after their files; "scalar" stands for csr_scalar_i8  *)
(* and csr_scalar_f32, which are the same code.  An entry is a pair of a   *)
(* column and an integer; no sum here is large enough to wrap or round.    *)
(***************************************************************************)
EXTENDS Integers, Sequences, FiniteSets, Functions, FiniteSetsExt, RvStatus

CONSTANTS
    Kinds, Policies,            \* the kernels, RVSP_RVV_F32_ACCUM_POLICY
    a_rows, a_cols, b_cols,     \* the shape of the product
    LeftRows,                   \* rows an A can have
    RightRows,                  \* rows a B can have
    MaxNnz,                     \* INT32_MAX
    MinRow,                     \* RVSP_RVV_F32_MIN_B_NNZ, RVSP_RVV_F64_MIN_B_NNZ
    ContigMin,                  \* RVSP_RVV_F32_CONTIG_MIN, RVSP_RVV_F64_CONTIG_MIN
    ScanMax, IndexedMin,        \* RVSP_RVV_F64_SCAN_AHEAD_MAX, .._INDEXED_MIN
    MaxVl,                      \* the longest vector
    Junk                        \* what malloc'd memory holds

Rows == 0 .. a_rows - 1
Cols == 0 .. b_cols - 1

ASSUME LegacyAssumption ==
    /\ Kinds \subseteq {"scalar", "unroll4", "scalar_f64", "rvv_i8", "rvv_f32", "rvv_f64"}
    /\ Policies \subseteq {0, 1, 2}
    /\ {a_rows, a_cols, b_cols, MaxNnz, MinRow, ScanMax, IndexedMin, MaxVl} \subseteq Nat \ {0}
    /\ ContigMin \in Nat \ {0, 1}
    /\ LeftRows \cup RightRows \subseteq Seq(Int \X Int)
    /\ Junk \in Int

VARIABLES
    kind, policy, A, B, \* the kernel and its operands, row by row
    pc,
    row, ap, bp,        \* loop counters; ap and bp are positions in a row
    upto,               \* the entries of B from bp to here are added next
    flags,              \* b_has_duplicates
    mark, touched, acc, \* the workspace
    total, running,
    c_row_ptr, c_col_idx, c_values,
    heap,               \* blocks allocated and not freed
    status              \* what the call returned

operands == <<kind, policy, A, B>>
loops == <<row, ap, bp, upto>>
work == <<mark, touched, acc>>
output == <<total, running, c_row_ptr, c_col_idx, c_values>>
vars == <<operands, pc, loops, flags, work, output, heap, status>>

-------------------------------------------------------------------------------

Vector == kind \in {"rvv_i8", "rvv_f32", "rvv_f64"}
\* The kernels that take the columns of B as they are.
Trusting == kind \in {"scalar", "unroll4"}
ColumnsOf(r) == [p \in DOMAIN r |-> r[p][1]]

InA == row < a_rows /\ ap <= Len(A[row])
a_col == A[row][ap][1]
a_val == A[row][ap][2]
BRow == B[a_col]
InB == bp <= Len(BRow)
Left == Len(BRow) - bp + 1

\* Slip: the last column is refused.
SlipRefusesLast(c, n) == c < 0 \/ c >= n - 1
OutOfRange(c, n) == c < 0 \/ c >= n
Broken(r) == \E p \in DOMAIN r : OutOfRange(r[p][1], b_cols)

\* Which rows of B build_b_duplicate_flags looks through.
Scanned(r) == kind = "rvv_i8" \/ Len(r) > 1

\* Slip: only neighbours are compared.
SlipNeighbours(r) == \E p \in 1 .. Len(r) - 1 : r[p][1] = r[p + 1][1]
HasDuplicates(r) == \E p, q \in DOMAIN r : p # q /\ r[p][1] = r[q][1]

\* Which rows of B go to the gathering loop.
UsesVector(k) ==
    /\ Vector /\ ~flags[k]
    /\ kind # "rvv_i8" => Len(B[k]) >= MinRow

\* Slip: a column is kept each time it is met.
SlipAlwaysFresh(c) == TRUE
Fresh(c) == mark[c] = 0

\* A column not seen in this row is marked and kept.
Visit(c) ==
    IF Fresh(c)
      THEN mark' = [mark EXCEPT ![c] = 1] /\ touched' = Append(touched, c)
      ELSE UNCHANGED <<mark, touched>>

Unmarked == [c \in Cols |-> IF c \in Range(touched) THEN 0 ELSE mark[c]]

\* Slip: the prefix sum includes the row's own count.
SlipInclusive(r) == running + c_row_ptr[r]
\* The entries of the rows before r, once running has passed them.
StartOf(r) == running

\* Position n gets the n-th smallest column.
Ascending(cols) ==
    [n \in 1 .. Cardinality(cols) |->
        CHOOSE c \in cols : Cardinality({d \in cols : d < c}) = n - 1]

RowBlocks == {"acc", "touched", "mark"}
FlagBlocks == IF Vector THEN {"flags"} ELSE {}
WorkBlocks == {"c_row_ptr"} \cup RowBlocks \cup FlagBlocks
OutBlocks == {"c_col_idx", "c_values"}
\* The arrays of build_b_duplicate_flags, and what each of its returns frees.
SeenBlocks == {"seen", "seen_touched"}
FreedByFlags == [no_memory |-> SeenBlocks, refused |-> SeenBlocks, done |-> SeenBlocks]

\* Slip: the list of the scalar kernel, which has no flags.
SlipScalarList == {"c_row_ptr"} \cup OutBlocks \cup RowBlocks
FreedWithoutC == {"c_row_ptr"} \cup OutBlocks \cup RowBlocks \cup FlagBlocks

\* What is freed at each return of an error.  The FP32 and FP64 vector kernels
\* have one list, behind a label; the others have a list at every return.
Freed ==
    LET early == {"c_row_ptr"} \cup RowBlocks
        later == {"c_row_ptr"} \cup RowBlocks \cup FlagBlocks
    IN  IF kind \in {"rvv_f32", "rvv_f64"}
          THEN [place \in {"no_row_ptr", "no_row", "no_flags", "flagging", "a_column", "b_column",
                           "overflow", "no_c", "numeric"} |-> WorkBlocks \cup OutBlocks]
          ELSE [no_row_ptr |-> {}, no_row |-> early, no_flags |-> early, flagging |-> later,
                a_column |-> later, b_column |-> later, overflow |-> later,
                no_c |-> FreedWithoutC, numeric |-> OutBlocks \cup later]

-------------------------------------------------------------------------------

\* A and B are whatever the caller passes, except that the callers of the
\* trusting kernels have validated their operands.
Init ==
    /\ kind \in Kinds
    /\ A \in [Rows -> LeftRows]
    /\ B \in [0 .. a_cols - 1 -> RightRows]
    /\ policy \in IF kind \in {"rvv_f32", "rvv_f64"} THEN Policies ELSE {0}
    /\ Trusting => \A k \in DOMAIN B : ~Broken(B[k])
    /\ pc = "start" /\ status = "running"
    /\ row = 0 /\ ap = 1 /\ bp = 1 /\ upto = 1
    /\ flags = [k \in DOMAIN B |-> FALSE]
    /\ mark = [c \in Cols |-> 0] /\ touched = <<>>
    /\ acc = [c \in Cols |-> Junk]
    /\ total = 0 /\ running = 0
    /\ c_row_ptr = [r \in 0 .. a_rows |-> 0]
    /\ c_col_idx = <<>> /\ c_values = <<>>
    /\ heap = {}

Goto(phase) ==
    pc' = phase /\ row' = 0 /\ ap' = 1 /\ bp' = 1 /\ upto' = 1 /\ UNCHANGED status
NextRow ==
    row' = row + 1 /\ ap' = 1 /\ bp' = 1 /\ upto' = 1 /\ UNCHANGED <<pc, status>>

Fails(held, place, error) ==
    /\ pc' = "returned" /\ status' = error
    /\ heap' = held \ Freed[place]
    /\ UNCHANGED <<operands, loops, flags, work, output>>

\* The trusting kernels ask for all before they look at any; the others look at
\* c_row_ptr first, at the arrays for a row together, and at the flags last.
AllocateWork ==
    /\ pc = "start"
    /\ \/ /\ heap' = WorkBlocks
          /\ Goto(IF Vector THEN "flags" ELSE "count")
          /\ UNCHANGED <<operands, flags, work, output>>
       \/ \E got \in (SUBSET WorkBlocks) \ {WorkBlocks} :
            Trusting /\ Fails(got, "no_row", "ALLOCATION_FAILED")
       \/ ~Trusting /\ Fails({}, "no_row_ptr", "ALLOCATION_FAILED")
       \/ \E got \in (SUBSET RowBlocks) \ {RowBlocks} :
            ~Trusting /\ Fails({"c_row_ptr"} \cup got, "no_row", "ALLOCATION_FAILED")
       \/ Vector /\ Fails({"c_row_ptr"} \cup RowBlocks, "no_flags", "ALLOCATION_FAILED")

\* build_b_duplicate_flags begins: both arrays are asked for, then looked at.
AllocateSeen ==
    /\ pc = "flags" /\ SeenBlocks \cap heap = {}
    /\ \E got \in SUBSET SeenBlocks :
        IF got = SeenBlocks
          THEN /\ heap' = heap \cup got
               /\ UNCHANGED <<operands, pc, loops, flags, work, output, status>>
          ELSE Fails((heap \cup got) \ FreedByFlags.no_memory, "flagging", "ALLOCATION_FAILED")

FlagRow ==
    /\ pc = "flags" /\ SeenBlocks \subseteq heap /\ row < a_cols
    /\ IF Scanned(B[row]) /\ Broken(B[row])
         THEN Fails(heap \ FreedByFlags.refused, "flagging", "INVALID_ARGUMENT")
         ELSE /\ flags' = [flags EXCEPT ![row] = Scanned(B[row]) /\ HasDuplicates(B[row])]
              /\ NextRow
              /\ UNCHANGED <<operands, work, output, heap>>

FlagsDone ==
    /\ pc = "flags" /\ row = a_cols
    /\ Goto("count")
    /\ heap' = heap \ FreedByFlags.done
    /\ UNCHANGED <<operands, flags, work, output>>

-------------------------------------------------------------------------------
(* The symbolic pass *)

\* The trusting kernels ask once, after the last row.
Overflows == total > MaxNnz /\ (Trusting => row = a_rows)
Counting == pc = "count" /\ ~Overflows

CountRefuses ==
    /\ Counting /\ InA /\ OutOfRange(a_col, a_cols)
    /\ Fails(heap, "a_column", IF Trusting THEN "INVALID_CSR" ELSE "INVALID_ARGUMENT")

CountEntry ==
    /\ Counting /\ InA /\ ~OutOfRange(a_col, a_cols) /\ InB
    /\ LET c == BRow[bp][1] IN
       IF ~Trusting /\ OutOfRange(c, b_cols)
         THEN Fails(heap, "b_column", "INVALID_ARGUMENT")
         ELSE /\ Visit(c)
              /\ bp' = bp + 1
              /\ UNCHANGED <<operands, pc, row, ap, upto, flags, acc, output, heap, status>>

NextEntry ==
    /\ ap' = ap + 1 /\ bp' = 1 /\ upto' = 1
    /\ UNCHANGED <<operands, row, flags, work, output, heap, status>>

CountNext ==
    /\ Counting /\ InA /\ ~OutOfRange(a_col, a_cols) /\ ~InB
    /\ NextEntry
    /\ UNCHANGED pc

\* The row is counted and its marks are cleared, in two kernels its sums too.
CountRow ==
    /\ Counting /\ row < a_rows /\ ~InA
    /\ c_row_ptr' = [c_row_ptr EXCEPT ![row] = Len(touched)]
    /\ total' = total + Len(touched)
    /\ mark' = Unmarked /\ touched' = <<>>
    /\ acc' = [c \in Cols |-> IF kind \in {"rvv_i8", "scalar_f64"} /\ c \in Range(touched)
                                THEN 0 ELSE acc[c]]
    /\ NextRow
    /\ UNCHANGED <<operands, flags, running, c_col_idx, c_values, heap>>

CountOverflows ==
    /\ pc = "count" /\ Overflows
    /\ Fails(heap, "overflow", "ALLOCATION_FAILED")

StartPrefix ==
    /\ Counting /\ row = a_rows
    /\ Goto("prefix")
    /\ UNCHANGED <<operands, flags, work, output, heap>>

PrefixRow ==
    /\ pc = "prefix" /\ row < a_rows
    /\ c_row_ptr' = [c_row_ptr EXCEPT ![row] = StartOf(row)]
    /\ running' = running + c_row_ptr[row]
    /\ NextRow
    /\ UNCHANGED <<operands, flags, work, total, c_col_idx, c_values, heap>>

\* The last row start, then the arrays of C, at least one entry long.
AllocateC ==
    /\ pc = "prefix" /\ row = a_rows
    /\ \E got \in SUBSET OutBlocks :
        IF got = OutBlocks
          THEN /\ c_row_ptr' = [c_row_ptr EXCEPT ![a_rows] = running]
               /\ LET n == IF total > 0 THEN total ELSE 1 IN
                  /\ c_col_idx' = [i \in 0 .. n - 1 |-> Junk]
                  /\ c_values' = [i \in 0 .. n - 1 |-> Junk]
               /\ heap' = heap \cup got
               /\ Goto("numeric")
               /\ UNCHANGED <<operands, flags, work, total, running>>
          ELSE Fails(heap \cup got, "no_c", "ALLOCATION_FAILED")

-------------------------------------------------------------------------------
(* The numeric pass *)

\* In FP64 a factor of zero leaves not even marks.
Skipped == kind = "rvv_f64" /\ a_val = 0

\* How many entries are marked before the first of them is added: the whole row
\* in the vector loops, four in the unrolled ones while there are four.
Group ==
    IF UsesVector(a_col) THEN Len(BRow)
    ELSE IF kind \in {"unroll4", "rvv_f32", "rvv_f64"} /\ Left >= 4 THEN 4 ELSE 1

\* The vector kernels look at the columns again, at all four at once.
Refused ==
    LET next == IF UsesVector(a_col) THEN {upto} ELSE bp .. bp + Group - 1
    IN  Vector /\ \E p \in next : OutOfRange(BRow[p][1], b_cols)

MarkEntry ==
    /\ pc = "numeric" /\ InA /\ InB /\ ~Skipped
    /\ IF Refused
         THEN Fails(heap, "numeric", "INVALID_ARGUMENT")
         ELSE LET c == BRow[upto][1] IN
              /\ Visit(c)
              /\ acc' = IF Fresh(c) THEN [acc EXCEPT ![c] = 0] ELSE acc
              /\ upto' = upto + 1
              /\ pc' = IF upto' < bp + Group THEN "numeric"
                       ELSE IF ~UsesVector(a_col) THEN "add"
                       ELSE IF kind = "rvv_i8" THEN "gather" ELSE "vector"
              /\ UNCHANGED <<operands, row, ap, bp, flags, output, heap, status>>

AddEntry ==
    /\ pc = "add"
    /\ acc' = [acc EXCEPT ![BRow[bp][1]] = @ + a_val * BRow[bp][2]]
    /\ bp' = bp + 1
    /\ pc' = IF bp' < upto THEN "add" ELSE IF UsesVector(a_col) THEN "vector" ELSE "numeric"
    /\ UNCHANGED <<operands, row, ap, upto, flags, mark, touched, output, heap, status>>

\* A factor of zero: the FP32 vector loops leave the row at its marks.
NumericNext ==
    /\ \/ pc = "numeric" /\ InA /\ (~InB \/ Skipped)
       \/ pc = "gather" /\ ~InB
       \/ pc = "vector" /\ (~InB \/ a_val = 0)
    /\ NextEntry
    /\ pc' = "numeric"

\* How many entries from i on have consecutive columns.
RunAt(i) ==
    Max({n \in 1 .. Len(BRow) - i + 1 : \A k \in 0 .. n - 1 : BRow[i + k][1] = BRow[i][1] + k})

\* rvsp_find_next_contig_run_bounded: how far the next long run is, or all
\* the entries it may look at.  It is never 0 without a run, so what policies
\* 1 and 2 do in that case is dead code.
Limit == IF Left < ScanMax THEN Left ELSE ScanMax
Runs == {n \in 0 .. Limit - ContigMin : RunAt(bp + n) >= ContigMin}
Offset == IF Runs = {} THEN Limit ELSE Min(Runs)

InVector == pc = "vector" /\ InB /\ a_val # 0

AddedTo(n) ==
    /\ bp' = bp + n
    /\ UNCHANGED <<operands, pc, row, ap, upto, flags, mark, touched, output, heap, status>>

\* A run is added to the sums from its first column on.
AddRun ==
    /\ InVector
    /\ IF policy = 0 THEN RunAt(bp) >= ContigMin ELSE Offset = 0
    /\ LET base == BRow[bp][1] IN
       acc' = [c \in Cols |->
                IF c \in base .. base + RunAt(bp) - 1
                  THEN acc[c] + a_val * BRow[bp + (c - base)][2] ELSE acc[c]]
    /\ AddedTo(RunAt(bp))

\* Gather, add, scatter: of two lanes with one column, either may come last.
AddGathered ==
    /\ \/ pc = "gather" /\ InB
       \/ InVector /\ policy = 0 /\ RunAt(bp) < ContigMin
    /\ \E vl \in 1 .. MaxVl :
        LET lanes == bp .. bp + vl - 1
            hit == {BRow[i][1] : i \in lanes}
            Sum(i) == acc[BRow[i][1]] + a_val * BRow[i][2]
        IN  /\ vl <= Left
            /\ \E last \in [hit -> lanes] :
                /\ \A c \in hit : BRow[last[c]][1] = c
                /\ acc' = [c \in Cols |-> IF c \in hit THEN Sum(last[c]) ELSE acc[c]]
            /\ AddedTo(vl)

\* Policy 2 in FP64: a long rest with no run in sight is gathered to its end.
GathersRest == policy = 2 /\ kind = "rvv_f64" /\ Runs = {} /\ Left >= IndexedMin
GatherRest ==
    /\ InVector /\ GathersRest
    /\ pc' = "gather"
    /\ UNCHANGED <<operands, loops, flags, work, output, heap, status>>

\* What precedes the next run is added one entry after the other.
AddSpan ==
    /\ InVector /\ policy # 0 /\ Offset > 0 /\ ~GathersRest
    /\ pc' = "add" /\ upto' = bp + Offset
    /\ UNCHANGED <<operands, row, ap, bp, flags, work, output, heap, status>>

\* The columns in order, without the sums that are zero.  The FP32 and FP64
\* vector kernels ask for room before they write.
EmitRow ==
    /\ pc = "numeric" /\ row < a_rows /\ ~InA
    /\ LET kept == Ascending({c \in Range(touched) : acc[c] # 0})
           start == c_row_ptr[row]
           end == start + Len(kept)
       IN  IF kind \in {"rvv_f32", "rvv_f64"} /\ end > c_row_ptr[row + 1]
             THEN Fails(heap, "numeric", "INVALID_ARGUMENT")
             ELSE /\ c_col_idx' = [i \in DOMAIN c_col_idx |->
                        IF i \in start .. end - 1 THEN kept[i - start + 1] ELSE c_col_idx[i]]
                  /\ c_values' = [i \in DOMAIN c_values |->
                        IF i \in start .. end - 1 THEN acc[kept[i - start + 1]] ELSE c_values[i]]
                  /\ c_row_ptr' = [c_row_ptr EXCEPT ![row + 1] = end]
                  /\ mark' = Unmarked /\ touched' = <<>>
                  /\ NextRow
                  /\ UNCHANGED <<operands, flags, acc, total, running, heap>>

Return ==
    /\ pc = "numeric" /\ row = a_rows
    /\ pc' = "returned" /\ status' = "SUCCESS"
    /\ heap' = heap \ (RowBlocks \cup FlagBlocks)
    /\ UNCHANGED <<operands, loops, flags, work, output>>

Next ==
    \/ AllocateWork \/ AllocateSeen \/ FlagRow \/ FlagsDone
    \/ CountRefuses \/ CountEntry \/ CountNext \/ CountRow \/ CountOverflows
    \/ StartPrefix \/ PrefixRow \/ AllocateC
    \/ MarkEntry \/ AddEntry \/ NumericNext
    \/ AddRun \/ AddGathered \/ GatherRest \/ AddSpan
    \/ EmitRow \/ Return

Spec == Init /\ [][Next]_vars

-------------------------------------------------------------------------------

\* The workspace holds what its arrays have room for: touched, of b_cols
\* entries, has each marked column once, and between rows nothing is marked.
TypeOK ==
    /\ pc \in {"start", "flags", "count", "prefix", "numeric", "add", "vector", "gather",
               "returned"}
    /\ status \in Status \cup {"running"}
    /\ row \in Nat /\ ap \in Nat \ {0} /\ bp \in Nat \ {0} /\ upto \in Nat \ {0}
    /\ flags \in [0 .. a_cols - 1 -> BOOLEAN]
    /\ mark \in [Cols -> {0, 1}] /\ acc \in [Cols -> Int]
    /\ touched \in Seq(Cols) /\ Len(touched) <= b_cols
    /\ \A c \in Cols : mark[c] = 1 <=> c \in Range(touched)
    /\ pc \in {"count", "numeric"} /\ ap = 1 /\ bp = 1 /\ upto = 1 => touched = <<>>

Numeric == pc \in {"numeric", "add", "vector", "gather"}

\* c_row_ptr serves two purposes at once.  A row never needs more room than
\* the symbolic pass found for it, so the ends written never pass the starts
\* still to be read, and the check for room before a write never fails.
RowsFitTheirRoom ==
    Numeric /\ row < a_rows =>
        /\ c_row_ptr[row] + Len(touched) <= c_row_ptr[row + 1]
        /\ \A r \in row + 1 .. a_rows - 1 : c_row_ptr[r] <= c_row_ptr[r + 1]
        /\ c_row_ptr[a_rows] <= total

\* The pairs of entries that meet in row r of the product, by their positions in
\* A's row and in B's, the column each goes to and what it adds there.
Entries(r) == UNION {{p} \X DOMAIN B[A[r][p][1]] : p \in DOMAIN A[r]}
Column(r, e) == B[A[r][e[1]][1]][e[2]][1]
Products(r) == [e \in Entries(r) |-> A[r][e[1]][2] * B[A[r][e[1]][1]][e[2]][2]]
ProductAt(r, c) == SumFunctionOnSet(Products(r), {e \in Entries(r) : Column(r, e) = c})

RowReturned(r) ==
    LET cols == Ascending({c \in Cols : ProductAt(r, c) # 0}) IN
    /\ c_row_ptr[r + 1] = c_row_ptr[r] + Len(cols)
    /\ \A n \in 1 .. Len(cols) :
        /\ c_col_idx[c_row_ptr[r] + n - 1] = cols[n]
        /\ c_values[c_row_ptr[r] + n - 1] = ProductAt(r, cols[n])

\* What a successful call returns is the product: every row in the order of
\* its columns, every sum right whichever loop added it, no zero stored.
ReturnsProduct ==
    status = "SUCCESS" => c_row_ptr[0] = 0 /\ \A r \in Rows : RowReturned(r)

\* The kernels look at the columns themselves: a call that gets past the count
\* met none out of range, and one that refuses its operands had a reason to.
RefusesWhatIsBroken ==
    LET left == \E i \in Rows : \E p \in DOMAIN A[i] : A[i][p][1] \notin 0 .. a_cols - 1
        Bad(k) == Range(ColumnsOf(B[k])) \ Cols # {}
        reached == {k \in DOMAIN B : \E i \in Rows : k \in Range(ColumnsOf(A[i]))}
    IN  /\ Numeric \/ status = "SUCCESS" => ~left /\ \A k \in reached : ~Bad(k)
        /\ status \in {"INVALID_ARGUMENT", "INVALID_CSR"} => left \/ \E k \in DOMAIN B : Bad(k)

\* On success the caller gets the three arrays of C and nothing else is left; at
\* a failing return the list written there covers whatever is allocated by then,
\* the arrays of the flags' function included.
HeapOnReturn ==
    pc = "returned" =>
        heap = IF status = "SUCCESS" THEN {"c_row_ptr", "c_col_idx", "c_values"} ELSE {}

===============================================================================
