-------------------------------- MODULE OneShot --------------------------------
(***************************************************************************)
(* Matrices and the one-shot product: rvsp_csr_create, rvsp_csr_destroy    *)
(* (core/matrix.c) and rvsp_spgemm_csr (core/spgemm.c) with its dispatch,  *)
(* the descriptor it drives for FP32, and every allocation that can fail   *)
(* on the way, whichever of its neighbours got through.  INT8 and FP64 go  *)
(* to the wrappers of the older kernels.                                   *)
(*                                                                         *)
(* The heap is the set of allocated blocks, a pointer the block it points  *)
(* to, Null, or Caller for an array of the caller's.                       *)
(***************************************************************************)
EXTENDS Integers, RvStatus

CONSTANTS
    Mats,           \* the caller's matrix variables
    Null, Caller,
    Inputs,         \* what the caller puts into a struct
    Options,        \* <<backend, input_dtype, output_dtype>> it asks for
    Blocks,         \* heap blocks
    Malloc(_, _),   \* what the mallocs into some variables may return, by the heap
    Counts,         \* numbers of entries a product may have
    VectorBuild     \* is __riscv_vector defined?

Fields == {"row_ptr", "col_idx", "values"}

\* What row_ptr and col_idx hold: canonical rows; unsorted, with columns out of
\* order or repeated; offset, with row_ptr[0] > 0; broken, with a row_ptr below
\* zero or decreasing, or a column out of range.
Forms == {"canonical", "unsorted", "offset", "broken"}

InputType ==
    [rows: Int, cols: Int, nnz: Int, dtype: Dtypes,
     last: Int,             \* row_ptr[rows], which nnz should be equal to
     form: Forms,
     absent: SUBSET Fields] \* the arrays that are NULL

ASSUME OneShotAssumption ==
    /\ Inputs \subseteq InputType
    /\ Null \notin Mats \cup Blocks /\ Caller \notin Blocks /\ Caller # Null
    /\ Counts \subseteq Nat
    /\ VectorBuild \in BOOLEAN

\* The variables that mallocs of one call fill together.
EstimateNames == {"count_ws", "structure", "op_counts"}
BufferNames == {"c_row_ptr", "c_col_idx", "c_values", "workspace"}

\* Each malloc returns a block that is free and no other's, or NULL.
ASSUME AllocatorAssumption ==
    \A h \in SUBSET Blocks, names \in {{"descr"}, EstimateNames, BufferNames, Fields} :
        \A got \in Malloc(h, names) :
            /\ got \in [names -> Blocks \cup {Null}]
            /\ \A n \in names : got[n] \notin h
            /\ \A n, k \in names : n # k /\ got[n] = got[k] => got[n] = Null

VARIABLES
    mats,       \* the struct behind each matrix variable
    heap,       \* the allocated blocks
    pc,         \* where the call is, "idle" between calls
    call,       \* its arguments, and the path the dispatch chose
    loc,        \* its local pointers and the fields of its descriptor
    ret,        \* the status of the last call
    before      \* ghost: mats when the call was made

vars == <<mats, heap, pc, call, loc, ret, before>>

\* What free releases when it is called on each of these variables of p.
Pointed(p, names) == {p[n] : n \in names} \ {Null}
Complete(got, names) == \A n \in names : got[n] # Null

Cleared ==
    [rows |-> 0, cols |-> 0, nnz |-> 0, dtype |-> "FP32",
     ptr |-> [f \in Fields |-> Null], last |-> 0, form |-> "canonical", owns |-> FALSE]

\* The blocks of the library that a struct points to.
Arrays(M) == {M.ptr[f] : f \in Fields} \cap Blocks

NoCall == [A |-> Null, B |-> Null, C |-> Null, path |-> Null]

\* structure and op_counts are the descriptor's.
LocalNames == {"descr", "structure", "op_counts"} \cup BufferNames
NoLocals ==
    [ptr |-> [n \in LocalNames |-> Null], estimated |-> FALSE, c_nnz |-> 0,
     dims |-> <<0, 0, 0, 0, 0, 0>>, algo |-> "DEFAULT"]
Locals == Pointed(loc.ptr, LocalNames)

-------------------------------------------------------------------------------
(* core/matrix.c *)

Missing(M) == \E f \in Fields : M.ptr[f] = Null

Validate(M) ==
    Then(Fail(Missing(M), "NULL_POINTER"),
    Then(Fail(M.rows <= 0 \/ M.cols <= 0 \/ M.nnz < 0, "INVALID_ARGUMENT"),
         Fail(M.form \in {"offset", "broken"} \/ M.last # M.nnz, "INVALID_CSR")))

CreateChecks(in) ==
    Then(Fail(in.absent # {}, "NULL_POINTER"),
         Fail(in.rows <= 0 \/ in.cols <= 0 \/ in.nnz < 0, "INVALID_ARGUMENT"))

Struct(in) ==
    [rows |-> in.rows, cols |-> in.cols, nnz |-> in.nnz, dtype |-> in.dtype,
     ptr |-> [f \in Fields |-> IF f \in in.absent THEN Null ELSE Caller],
     last |-> in.last, form |-> in.form, owns |-> FALSE]

\* The struct is filled in before it is validated, and stays filled in.
Create(m, in) ==
    /\ pc = "idle" /\ ~mats[m].owns
    /\ IF CreateChecks(in) # "SUCCESS"
         THEN mats' = mats /\ ret' = CreateChecks(in)
         ELSE mats' = [mats EXCEPT ![m] = Struct(in)] /\ ret' = Validate(Struct(in))
    /\ UNCHANGED <<heap, pc, loc>> /\ call' = NoCall /\ before' = mats'

\* The struct is public: the caller may as well set its fields by hand.
Build(m, in) ==
    /\ pc = "idle" /\ ~mats[m].owns
    /\ mats' = [mats EXCEPT ![m] = Struct(in)]
    /\ ret' = "SUCCESS" /\ call' = NoCall /\ before' = mats'
    /\ UNCHANGED <<heap, pc, loc>>

\* Slip: the struct is left pointing at the freed arrays, not owning them.
SlipDangling(m) == [mats[m] EXCEPT !.owns = FALSE]
AfterDestroy(m) == Cleared

Destroy(m) ==
    /\ pc = "idle"
    /\ heap' = IF mats[m].owns THEN heap \ Pointed(mats[m].ptr, Fields) ELSE heap
    /\ mats' = [mats EXCEPT ![m] = AfterDestroy(m)]
    /\ call' = NoCall /\ before' = mats' /\ ret' = "SUCCESS" /\ UNCHANGED <<pc, loc>>

-------------------------------------------------------------------------------
(* rvsp_spgemm_csr: the dispatch *)

\* rvsp_csr_check is not told nnz, nor given the values.
CsrCheck(M) ==
    /\ M.rows >= 0 /\ M.cols >= 0 /\ M.ptr["row_ptr"] # Null
    /\ M.form = "canonical"
    /\ M.last > 0 => M.ptr["col_idx"] # Null

\* Slip: canonical rows are not asked for.
SlipNoCheck(A, B) ==
    Then(Fail(A.dtype # "FP32" \/ B.dtype # "FP32", "UNSUPPORTED_DTYPE"),
         Fail(A.cols # B.rows, "INVALID_ARGUMENT"))

V2Checks(A, B) ==
    Then(Fail(A.dtype # "FP32" \/ B.dtype # "FP32", "UNSUPPORTED_DTYPE"),
    Then(Fail(A.cols # B.rows, "INVALID_ARGUMENT"),
         Fail(~CsrCheck(A) \/ ~CsrCheck(B), "INVALID_CSR")))

\* What the call of an older kernel may return: its wrapper's checks come
\* first, then the allocations, which may fail.
ScalarOutcomes(A, B) ==
    LET checks == Then(Validate(A),
                  Then(Validate(B),
                  Then(Fail(A.dtype # "INT8" \/ B.dtype # "INT8", "UNSUPPORTED_DTYPE"),
                       Fail(A.cols # B.rows, "INVALID_ARGUMENT"))))
    IN  IF checks = "SUCCESS" THEN {"SUCCESS", "ALLOCATION_FAILED"} ELSE {checks}

\* The other wrappers leave the arrays to the kernel, which looks neither at
\* nnz nor at row_ptr[0], and finds the rows and columns that are broken: those
\* of A, and those of B, which in FP64 may pass in a row that A does not reach.
RawOutcomes(A, B, dtype) ==
    IF \/ A.dtype # dtype \/ B.dtype # dtype \/ A.cols # B.rows
       \/ Missing(A) \/ Missing(B) \/ A.rows < 0 \/ A.cols < 0 \/ B.cols < 0
      THEN {"INVALID_ARGUMENT"}
      ELSE {"ALLOCATION_FAILED"}
           \cup (IF "broken" \in {A.form, B.form} THEN {"INVALID_ARGUMENT"} ELSE {})
           \cup (IF A.form = "broken" \/ (B.form = "broken" /\ dtype = "INT8")
                  THEN {} ELSE {"SUCCESS"})

\* Which path a call takes: the FP32 one with a strategy, the INT8 kernel with
\* its validation, or one of the raw kernels.
Path(A, B, o) ==
    CASE o[1] \in {"SCALAR", "UNROLL4"} /\ o[2] = "FP32" /\ o[3] = "FP32" ->
           [kind |-> "v2", dtype |-> "FP32", algo |-> "DEFAULT"]
      [] o[1] = "RVV" /\ A.dtype = "FP32" /\ B.dtype = "FP32" ->
           [kind |-> "v2", dtype |-> "FP32", algo |-> "RVV"]
      [] o[1] = "SCALAR" /\ o[2] = "INT8" /\ o[3] = "INT32" ->
           [kind |-> "scalar_i8", dtype |-> "INT8", algo |-> "DEFAULT"]
      [] o[1] = "SCALAR" /\ o[2] = "FP64" /\ o[3] = "FP64" ->
           [kind |-> "raw", dtype |-> "FP64", algo |-> "DEFAULT"]
      [] o[1] = "RVV" /\ A.dtype = "INT8" /\ B.dtype = "INT8" ->
           [kind |-> "raw", dtype |-> "INT8", algo |-> "DEFAULT"]
      [] o[1] = "RVV" /\ A.dtype = "FP64" /\ B.dtype = "FP64" ->
           [kind |-> "raw", dtype |-> "FP64", algo |-> "DEFAULT"]
      [] OTHER -> [kind |-> "none", dtype |-> "FP32", algo |-> "DEFAULT"]

OldOutcomes(A, B, path) ==
    IF path.kind = "scalar_i8" THEN ScalarOutcomes(A, B) ELSE RawOutcomes(A, B, path.dtype)

ResultType(dtype) == IF dtype = "INT8" THEN "INT32" ELSE dtype

\* The caller releases what C owns before it passes C again, and does not pass
\* an operand as C.
MayPass(a, b, c) == c \notin {a, b} /\ ~mats[c].owns

Arguments(a, b, c, o) ==
    [A |-> a, B |-> b, C |-> c, path |-> Path(mats[a], mats[b], o)]

Returns(status) ==
    /\ ret' = status /\ pc' = "idle" /\ loc' = NoLocals

\* A call that no path takes, or that the FP32 path refuses at once.
CallRejected(a, b, c, o) ==
    /\ pc = "idle" /\ MayPass(a, b, c)
    /\ LET path == Path(mats[a], mats[b], o)
           status == IF path.kind = "none" THEN "UNSUPPORTED_BACKEND"
                                           ELSE V2Checks(mats[a], mats[b])
       IN  path.kind \in {"none", "v2"} /\ status # "SUCCESS" /\ Returns(status)
    /\ call' = Arguments(a, b, c, o) /\ before' = mats
    /\ UNCHANGED <<mats, heap>>

\* Slip: C is filled in whatever the kernel returned.
SlipFillsAlways(status) == TRUE
FillsIn(status) == status = "SUCCESS"

OldResult(a, b, dtype, n, ptr) ==
    [rows |-> mats[a].rows, cols |-> mats[b].cols, nnz |-> n, dtype |-> ResultType(dtype),
     ptr |-> ptr, last |-> n, form |-> "canonical", owns |-> TRUE]

\* The arrays an older kernel leaves with its wrapper: three, or none.
OldArrays(status) ==
    IF status = "SUCCESS" THEN {got \in Malloc(heap, Fields) : Complete(got, Fields)}
                          ELSE {[f \in Fields |-> Null]}

\* An older kernel: its wrapper fills in C when the kernel returns arrays.
CallOld(a, b, c, o) ==
    /\ pc = "idle" /\ MayPass(a, b, c)
    /\ LET path == Path(mats[a], mats[b], o) IN
       /\ path.kind \in {"scalar_i8", "raw"}
       /\ \E status \in OldOutcomes(mats[a], mats[b], path) :
          \E got \in OldArrays(status), n \in Counts :
            /\ heap' = heap \cup Pointed(got, Fields)
            /\ mats' = IF FillsIn(status)
                         THEN [mats EXCEPT ![c] = OldResult(a, b, path.dtype, n, got)]
                         ELSE mats
            /\ Returns(status)
    /\ call' = Arguments(a, b, c, o) /\ before' = mats

CallV2(a, b, c, o) ==
    /\ pc = "idle" /\ MayPass(a, b, c)
    /\ Path(mats[a], mats[b], o).kind = "v2" /\ V2Checks(mats[a], mats[b]) = "SUCCESS"
    /\ call' = Arguments(a, b, c, o)
    /\ pc' = "create" /\ before' = mats
    /\ UNCHANGED <<mats, heap, loc, ret>>

-------------------------------------------------------------------------------
(* spgemm_csr_v2_oneshot, after its checks *)

A == mats[call.A]
B == mats[call.B]
C == mats[call.C]

\* loc.ptr once the pointers of got are in the variables of these names.
Assigned(got, names) == [n \in LocalNames |-> IF n \in names THEN got[n] ELSE loc.ptr[n]]

CreateDescr ==
    /\ pc = "create"
    /\ \E got \in Malloc(heap, {"descr"}) :
        IF Complete(got, {"descr"})
          THEN /\ loc' = [loc EXCEPT !.ptr = Assigned(got, {"descr"})]
               /\ heap' = heap \cup Pointed(got, {"descr"})
               /\ pc' = "set_algo" /\ UNCHANGED ret
          ELSE Returns("ALLOCATION_FAILED") /\ UNCHANGED heap
    /\ UNCHANGED <<mats, call, before>>

\* What rvsp_spgemm_descr_destroy frees.
FreesDescr == Pointed(loc.ptr, {"structure", "op_counts", "descr"})

HasNumeric(algo) == algo = "DEFAULT" \/ VectorBuild

SetAlgo ==
    /\ pc = "set_algo"
    /\ IF HasNumeric(call.path.algo)
         THEN /\ loc' = [loc EXCEPT !.algo = call.path.algo]
              /\ pc' = "estimate" /\ UNCHANGED <<heap, ret>>
         ELSE heap' = heap \ FreesDescr /\ Returns("UNSUPPORTED_BACKEND")
    /\ UNCHANGED <<mats, call, before>>

CheckOperand(M) ==
    Then(Fail(Missing(M), "NULL_POINTER"),
    Then(Fail(M.dtype # "FP32", "UNSUPPORTED_DTYPE"),
         Fail(M.rows <= 0 \/ M.cols <= 0 \/ M.nnz < 0, "INVALID_ARGUMENT")))

EstimateStatus ==
    Then(CheckOperand(A), Then(CheckOperand(B), Fail(A.cols # B.rows, "INVALID_ARGUMENT")))

EstimateRefused ==
    /\ pc = "estimate" /\ EstimateStatus # "SUCCESS"
    /\ heap' = heap \ FreesDescr /\ Returns(EstimateStatus)
    /\ UNCHANGED <<mats, call, before>>

\* What the two failing returns of work_estimation free by hand.
FreedOutOfMemory == {"count_ws", "structure", "op_counts"}
FreedOnOverflow == {"structure", "op_counts"}

\* The heap once the mallocs into these variables returned got.
With(got, names) == heap \cup Pointed(got, names)

EstimateFails ==
    /\ pc = "estimate" /\ EstimateStatus = "SUCCESS"
    /\ \E got \in Malloc(heap, EstimateNames) :
        LET all == With(got, EstimateNames) IN
        \/ /\ ~Complete(got, EstimateNames)
           /\ heap' = (all \ Pointed(got, FreedOutOfMemory)) \ FreesDescr
        \* The count passes INT32_MAX.
        \/ /\ Complete(got, EstimateNames)
           /\ heap' = ((all \ Pointed(got, {"count_ws"})) \ Pointed(got, FreedOnOverflow))
                        \ FreesDescr
    /\ Returns("ALLOCATION_FAILED")
    /\ UNCHANGED <<mats, call, before>>

Dims == <<A.rows, A.cols, A.nnz, B.rows, B.cols, B.nnz>>

\* The counting workspace lives only inside the call.
EstimateSucceeds ==
    /\ pc = "estimate" /\ EstimateStatus = "SUCCESS"
    /\ \E got \in Malloc(heap, EstimateNames), n \in Counts :
        /\ Complete(got, EstimateNames)
        /\ heap' = With(got, EstimateNames) \ Pointed(got, {"count_ws"})
        /\ loc' = [loc EXCEPT !.ptr = Assigned(got, {"structure", "op_counts"}),
                              !.estimated = TRUE, !.c_nnz = n, !.dims = Dims]
    /\ pc' = "allocate"
    /\ UNCHANGED <<mats, call, ret, before>>

\* Slip: the workspace is forgotten when one of the arrays is missing.
SlipForgetsWorkspace == {"c_row_ptr", "c_col_idx", "c_values"}
\* What the return after the four mallocs frees by hand.
FreedWithoutBuffers == {"c_row_ptr", "c_col_idx", "c_values", "workspace"}

\* Four mallocs, tested together.
Allocate ==
    /\ pc = "allocate"
    /\ \E got \in Malloc(heap, BufferNames) :
        IF Complete(got, BufferNames)
          THEN /\ loc' = [loc EXCEPT !.ptr = Assigned(got, BufferNames)]
               /\ heap' = With(got, BufferNames)
               /\ pc' = "publish" /\ UNCHANGED ret
          ELSE /\ heap' = (With(got, BufferNames) \ Pointed(got, FreedWithoutBuffers))
                           \ FreesDescr
               /\ Returns("ALLOCATION_FAILED")
    /\ UNCHANGED <<mats, call, before>>

\* Slip: C is not told its number of entries.
SlipForgetsCount ==
    [rows |-> A.rows, cols |-> B.cols, nnz |-> C.nnz, dtype |-> "FP32",
     ptr |-> [row_ptr |-> loc.ptr["c_row_ptr"], col_idx |-> loc.ptr["c_col_idx"],
              values |-> loc.ptr["c_values"]],
     last |-> loc.c_nnz, form |-> "canonical", owns |-> TRUE]
\* last and form are what compute is going to write into the arrays.
Published ==
    [rows |-> A.rows, cols |-> B.cols, nnz |-> loc.c_nnz, dtype |-> "FP32",
     ptr |-> [row_ptr |-> loc.ptr["c_row_ptr"], col_idx |-> loc.ptr["c_col_idx"],
              values |-> loc.ptr["c_values"]],
     last |-> loc.c_nnz, form |-> "canonical", owns |-> TRUE]

Publish ==
    /\ pc = "publish"
    /\ mats' = [mats EXCEPT ![call.C] = Published]
    /\ pc' = "compute"
    /\ UNCHANGED <<heap, call, loc, ret, before>>

\* What rvsp_spgemm_compute asks of its arguments, in its order.
ComputeStatus ==
    Then(Fail(loc.ptr["descr"] = Null \/ loc.ptr["workspace"] = Null, "NULL_POINTER"),
    Then(Fail(~loc.estimated, "INVALID_ARGUMENT"),
    Then(CheckOperand(A),
    Then(CheckOperand(B),
    Then(Fail(Dims # loc.dims, "INVALID_ARGUMENT"),
    Then(Fail(Missing(C), "NULL_POINTER"),
    Then(Fail(C.dtype # "FP32", "UNSUPPORTED_DTYPE"),
    Then(Fail(C.rows # loc.dims[1] \/ C.cols # loc.dims[5], "INVALID_ARGUMENT"),
    Then(Fail(C.nnz < loc.c_nnz, "INVALID_ARGUMENT"),
         Fail(~HasNumeric(loc.algo), "UNSUPPORTED_BACKEND"))))))))))

FreesAfterCompute == Pointed(loc.ptr, {"workspace"}) \cup FreesDescr

Compute ==
    /\ pc = "compute"
    /\ IF ComputeStatus = "SUCCESS"
         THEN heap' = heap \ FreesAfterCompute /\ UNCHANGED mats
         ELSE /\ heap' = (heap \ FreesAfterCompute)
                           \ Pointed(loc.ptr, {"c_row_ptr", "c_col_idx", "c_values"})
              /\ mats' = [mats EXCEPT ![call.C].ptr = Cleared.ptr, ![call.C].nnz = 0,
                                      ![call.C].owns = FALSE]
    /\ Returns(ComputeStatus)
    /\ UNCHANGED <<call, before>>

Init ==
    /\ mats = [m \in Mats |-> Cleared]
    /\ heap = {} /\ pc = "idle" /\ call = NoCall /\ loc = NoLocals /\ ret = "SUCCESS"
    /\ before = mats

Next ==
    \/ \E m \in Mats : Destroy(m) \/ \E in \in Inputs : Create(m, in) \/ Build(m, in)
    \/ \E a, b, c \in Mats, o \in Options :
         CallRejected(a, b, c, o) \/ CallOld(a, b, c, o) \/ CallV2(a, b, c, o)
    \/ CreateDescr \/ SetAlgo \/ EstimateRefused \/ EstimateFails \/ EstimateSucceeds
    \/ Allocate \/ Publish \/ Compute

\* Inside a call the code runs on; the caller need not call.
Spec == Init /\ [][Next]_vars /\ WF_vars(pc # "idle" /\ Next)

-------------------------------------------------------------------------------
(* Correctness *)

Pointers == Blocks \cup {Null, Caller}

MatrixType ==
    [rows: Int, cols: Int, nnz: Int, dtype: Dtypes, ptr: [Fields -> Pointers], last: Int,
     form: Forms, owns: BOOLEAN]

\* A struct points to library arrays exactly when it owns them, and then all
\* three of its pointers do.
TypeOK ==
    /\ mats \in [Mats -> MatrixType] /\ before \in [Mats -> MatrixType]
    /\ heap \subseteq Blocks
    /\ pc \in {"idle", "create", "set_algo", "estimate", "allocate", "publish", "compute"}
    /\ ret \in Status
    /\ \A m \in Mats, f \in Fields : mats[m].owns <=> mats[m].ptr[f] \in Blocks

\* Every block has one owner: a matrix or the running call.  None leaks on any
\* early return, whichever of its allocations succeeded, none is freed while a
\* matrix still names it, and no two pointers of matrices free the same block.
EveryBlockOwned ==
    /\ heap = Locals \cup UNION {Arrays(mats[m]) : m \in Mats}
    /\ \A m, o \in Mats, f, g \in Fields :
         mats[m].ptr[f] \in Blocks /\ mats[m].ptr[f] = mats[o].ptr[g] => m = o /\ f = g
    /\ pc # "compute" => \A m \in Mats : Arrays(mats[m]) \cap Locals = {}

\* A call that fails leaves all three matrices as they were; one that succeeds
\* changes only C.
OnlyCChanges ==
    pc = "idle" /\ call.C # Null =>
        \A m \in Mats : (m # call.C \/ ret # "SUCCESS") => mats[m] = before[m]

\* What each path has made sure of.  Only the INT8 wrapper asks for all that
\* rvsp_csr_validate does: FP32 never looks at the count a struct declares, the
\* raw kernels neither at that nor at row_ptr[0], and in FP64 a row of B that
\* A does not reach may be broken.
PathEarned(MA, MB, path) ==
    /\ path.kind = "v2" =>
         /\ CsrCheck(MA) /\ CsrCheck(MB)
         /\ CheckOperand(MA) = "SUCCESS" /\ CheckOperand(MB) = "SUCCESS"
    /\ path.kind = "scalar_i8" => Validate(MA) = "SUCCESS" /\ Validate(MB) = "SUCCESS"
    /\ path.kind = "raw" =>
         /\ ~Missing(MA) /\ ~Missing(MB) /\ MA.form # "broken"
         /\ MB.form = "broken" => MB.dtype = "FP64"

\* A successful product has the shape of A*B, owns its arrays and says how many
\* entries they hold; its operands fit together, have the type of the path, and
\* passed the checks of that path when the call was made: a struct that
\* rvsp_csr_create refused and left filled in gets no further than these allow.
SuccessIsEarned ==
    pc = "idle" /\ call.C # Null /\ ret = "SUCCESS" =>
        /\ A.cols = B.rows /\ C.rows = A.rows /\ C.cols = B.cols
        /\ C.owns /\ C.nnz = C.last
        /\ A.dtype = call.path.dtype /\ B.dtype = call.path.dtype
        /\ C.dtype = ResultType(call.path.dtype)
        /\ PathEarned(A, B, call.path)

\* The checks rvsp_spgemm_compute repeats cannot fail here, none of them: its
\* error path is dead code, and no call publishes arrays in C and then takes
\* them back.
ComputeCannotFail == pc = "compute" => ComputeStatus = "SUCCESS"

===============================================================================
