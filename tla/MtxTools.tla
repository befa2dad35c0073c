-------------------------------- MODULE MtxTools --------------------------------
(***************************************************************************)
(* The tools together.  A matrix is generated (Genmat) and written to a    *)
(* Matrix Market file, or files are there already; the main program of     *)
(* bench/csr_check.c loads them one after the other (MtxLoader), infers    *)
(* the number of columns as bench.c does, asks rvsp_csr_check, and frees   *)
(* what it loaded.                                                         *)
(***************************************************************************)
EXTENDS MtxLoader, SequencesExt

CONSTANTS
    ArgLists,           \* what may be on the command line: sequences of files
    Requests            \* of Genmat

ASSUME ToolsAssumption == \A list \in ArgLists : \A n \in 1 .. Len(list) : list[n] \in Files

VARIABLES
    args,           \* the files that main has still to load
    failures,
    status,         \* how main ended: "ok" (exit status 0), "bad" (1), "usage" (2)
    req, gpc, loop, pending, indices, degrees, callocs, drawn, csr, grow

main == <<args, failures, status>>
generator == <<req, gpc, loop, pending, indices, degrees, callocs, drawn, csr, grow>>
all == <<vars, main, generator>>

Gen == INSTANCE Genmat WITH pc <- gpc, coo <- drawn, row <- grow

ASSUME RequestsAssumption == Gen!RequestsFit

NoFile == [opens |-> FALSE, sized |-> FALSE, banner |-> "missing", pattern |-> FALSE,
           M |-> 0, L |-> 0, entries |-> <<>>]

NoRequest == [rows |-> 0, cols |-> 0, symmetric |-> FALSE, column |-> FALSE,
              low |-> 0, up |-> 0, min |-> 0, max |-> 0]

\* The locals of assemble_csr_matrix when a call begins.
LocalsUnset ==
    /\ coo = <<>> /\ stored = 0 /\ k = 1 /\ row_count = <<>> /\ cursor = <<>>
    /\ row_ptr = <<>> /\ cells = <<>> /\ i = 0 /\ t = 0 /\ write = 0
    /\ buf = <<>> /\ acc = [col |-> 0, val |-> 0] /\ new_rp = <<>> /\ matrix = {}

ClearLocals ==
    /\ coo' = <<>> /\ stored' = 0 /\ k' = 1 /\ row_count' = <<>> /\ cursor' = <<>>
    /\ row_ptr' = <<>> /\ cells' = <<>> /\ i' = 0 /\ t' = 0 /\ write' = 0
    /\ buf' = <<>> /\ acc' = [col |-> 0, val |-> 0] /\ new_rp' = <<>> /\ matrix' = {}

\* Either the command line names files, or one is going to be generated.
ToolsInit ==
    /\ file = NoFile /\ pc = "idle" /\ LocalsUnset /\ live = {} /\ lost = {}
    /\ failures = 0 /\ status = "running"
    /\ \/ Gen!Init /\ args = <<>>
       \/ /\ args \in ArgLists
          /\ req = NoRequest /\ gpc = "unused" /\ loop = 0 /\ pending = {}
          /\ indices = <<>> /\ degrees = <<>> /\ callocs = 0
          /\ drawn = <<>> /\ csr = <<>> /\ grow = 0

-------------------------------------------------------------------------------
(* genmat_save_csr_to_mtx *)

\* Slip: columns are written as they are stored, from 0.
SlipZeroBased(r, cell) == [row |-> r + 1, col |-> IF cell.col = 0 THEN 1 ELSE cell.col, val |-> cell.val]
\* Indices from 1.  The digits that "%.16e" prints tell every double apart, so
\* the value in the file is the one in memory; the loader reads a float.
Line(r, cell) == [row |-> r + 1, col |-> cell.col + 1, val |-> cell.val]

Written ==
    LET lines == FlattenSeq([r \in 1 .. req.rows |->
                   [p \in 1 .. Len(csr[r - 1]) |-> Line(r - 1, csr[r - 1][p])]])
    IN  [opens |-> TRUE, sized |-> TRUE, banner |-> "general", pattern |-> FALSE,
         M |-> req.rows, L |-> Len(lines), entries |-> lines]

\* The file may not open, and nothing is written then.
Save ==
    /\ gpc = "made"
    /\ \/ gpc' = "saved" /\ args' = <<Written>>
       \/ gpc' = "unsaved" /\ UNCHANGED args
    /\ UNCHANGED <<vars, failures, status, req, loop, pending, indices, degrees, callocs,
                   drawn, csr, grow>>

Generate ==
    Gen!Next /\ UNCHANGED <<vars, main>>

-------------------------------------------------------------------------------
(* bench/csr_check.c *)

Running == status = "running" /\ gpc \in {"unused", "saved"}

Usage ==
    /\ Running /\ pc = "idle" /\ file = NoFile /\ args = <<>>
    /\ status' = "usage"
    /\ UNCHANGED <<vars, args, failures, generator>>

StartLoad ==
    /\ Running /\ pc = "idle" /\ args # <<>>
    /\ file' = Head(args) /\ args' = Tail(args) /\ pc' = "start"
    /\ ClearLocals
    /\ UNCHANGED <<live, lost, failures, status, generator>>

LoadStep ==
    Next /\ UNCHANGED <<main, generator>>

\* The number of columns is not kept by the loader: it is taken from the indices.
cols == Max({0} \cup {cells[p].col + 1 : p \in DOMAIN cells})

\* What is well formed and what is canonical, in the terms of CsrCheck.
Check(x) == INSTANCE CsrCheck WITH
    csr <- x, Matrices <- {}, Junk <- {}, pc <- pc, row <- 0, p <- 0, prev <- 0,
    valid <- "SUCCESS", verdict <- "none", bad_row <- 0
LoadedCsr == [rows |-> M, cols |-> cols, nnz |-> row_ptr[M], row_ptr |-> row_ptr,
              col_idx |-> [p \in DOMAIN cells |-> cells[p].col], absent |-> {}]

\* Slip: one column too many is let through.
SlipOneMore == cols > M + 1
\* With B = A a column past the last row would be read past row_ptr.
NotSquarable == cols > M

CheckLoaded ==
    /\ Running /\ pc = "done" /\ {"row_ptr", "col_ind"} \subseteq matrix
    /\ failures' = failures + (IF Check(LoadedCsr)!Canonical THEN 0 ELSE 1) + (IF NotSquarable THEN 1 ELSE 0)
    /\ live' = live \ Vectors
    /\ ClearLocals /\ pc' = "idle"
    /\ UNCHANGED <<file, lost, args, status, generator>>

\* "LOAD FAILED" is printed and counted, and each vector is handed to
\* vector_free, which reads through the one that is NULL: the program ends here.
LoadFailed ==
    /\ Running /\ pc = "done" /\ ~({"row_ptr", "col_ind"} \subseteq matrix)
    /\ failures' = failures + 1
    /\ status' = "crashed"
    /\ UNCHANGED <<vars, args, generator>>

Exit ==
    /\ Running /\ pc = "idle" /\ args = <<>> /\ file # NoFile
    /\ status' = IF failures > 0 THEN "bad" ELSE "ok"
    /\ UNCHANGED <<vars, args, failures, generator>>

-------------------------------------------------------------------------------

ToolsNext ==
    \/ Generate \/ Save
    \/ Usage \/ StartLoad \/ LoadStep \/ CheckLoaded \/ LoadFailed \/ Exit

ToolsSpec == ToolsInit /\ [][ToolsNext]_all

-------------------------------------------------------------------------------
(* Correctness *)

EveryRowDecided == Gen!EveryRowDecided
RowsDecidedOnce == Gen!RowsDecidedOnce
DrawsStayInside == Gen!DrawsStayInside
MakesWhatWasDrawn == Gen!MakesWhatWasDrawn
SymmetricWhenAsked == Gen!SymmetricWhenAsked

\* A matrix that is written and loaded is the one that was generated, row by row,
\* whatever ties qsort broke and whichever rows are empty, each value as the
\* float that "%f" reads for the double.  Its width is not kept: csr_check and
\* bench take the columns up to the last one in use, so the matrix comes back
\* narrower when its last column is empty.
RoundTrip ==
    gpc = "saved" /\ Loaded /\ file = Written =>
      /\ DOMAIN row_ptr = 0 .. req.rows
      /\ \A r \in 0 .. req.rows - 1 :
           /\ row_ptr[r + 1] - row_ptr[r] = Len(csr[r])
           /\ \A p \in 1 .. Len(csr[r]) :
                cells[row_ptr[r] + p - 1] = [csr[r][p] EXCEPT !.val = AsFloat(@)]
      /\ cols <= req.cols
      /\ cols = req.cols <=>
           \E r \in 0 .. req.rows - 1 : \E p \in 1 .. Len(csr[r]) : csr[r][p].col = req.cols - 1

===============================================================================
