------------------------------ MODULE SpgemmDescr ------------------------------
(***************************************************************************)
(* The two-phase SpGEMM API (src/core/spgemm_descr.c) and the caller that  *)
(* drives it: several descriptors, several output matrices C, and the      *)
(* storage behind C->col_idx, which is named by its address because the    *)
(* code recognises a filled buffer by comparing addresses.                 *)
(*                                                                         *)
(* One action per call and outcome.  A sparsity pattern is an opaque value *)
(* and so is the structure of a product; what a buffer holds is the        *)
(* structure last written into it.                                         *)
(***************************************************************************)
EXTENDS Integers, RvStatus

CONSTANTS
    Handles,            \* the caller's descriptor variables
    Outs,               \* the caller's output matrix objects
    Addr,               \* addresses malloc can give to a col_idx array
    Null,               \* the NULL pointer
    Garbage,            \* the contents of freshly allocated storage
    LeftOperands,       \* the matrices the caller passes as A
    RightOperands,      \* and as B
    Patterns,           \* sparsity patterns of operands
    Structures,         \* structures of products
    Product,            \* the structure of A*B, for two patterns
    Nnz,                \* the number of entries of a structure
    MaxNnz,             \* INT32_MAX, the largest count c_nnz can hold
    Capacities,         \* sizes, in entries, of the storage the caller allocates
    OutShapes,          \* shapes and data types it gives C: <<rows, cols, dtype>>
    CountLengths,       \* lengths of the op_counts_out arrays it passes
    VectorBuild,        \* is __riscv_vector defined?
    TracksSharing       \* does the caller also call invalidate_structure when
                        \* another descriptor filled the buffer?

OperandType ==
    [given: BOOLEAN, dtype: Dtypes, rows: Int, cols: Int, nnz: Int,
     pattern: Patterns]

Pair(A, B) == <<A.pattern, B.pattern>>
Pairs == {Pair(A, B) : A \in LeftOperands, B \in RightOperands}

ASSUME ConstantsAssumption ==
    /\ Null \notin Addr /\ Null \notin Structures /\ Null \notin Pairs
    /\ Garbage \notin Structures
    /\ LeftOperands \cup RightOperands \subseteq OperandType
    /\ Product \in [Pairs -> Structures]
    /\ Nnz \in [Structures -> Nat]
    /\ MaxNnz \in Nat
    /\ Capacities \subseteq Nat
    /\ OutShapes \subseteq Int \X Int \X Dtypes
    /\ CountLengths \subseteq Int
    /\ VectorBuild \in BOOLEAN
    /\ TracksSharing \in BOOLEAN

VARIABLES
    descr,      \* the descriptor behind each handle
    live,       \* how many blocks of each name the calls on a handle allocated
                \* and did not free
    out,        \* the fields of each output matrix
    store,      \* what each col_idx array holds, and how many entries fit
    owed,       \* handles whose cache the caller must invalidate before compute
    ret         \* the last call: its status, and what the caller asked for

vars == <<descr, live, out, store, owed, ret>>

-------------------------------------------------------------------------------

NoDescr == [null |-> TRUE]

Dims(A, B) == <<A.rows, A.cols, A.nnz, B.rows, B.cols, B.nnz>>
DimsType == Int \X Int \X Int \X Int \X Int \X Int

DescrType ==
    [null: {FALSE},
     algo: Algos,
     estimated: BOOLEAN,
     c_row_ptr: Structures \cup {Null},
     c_nnz: Nat,
     op_counts: Pairs \cup {Null},
     filled_into: Addr \cup {Null},
     dims: DimsType]

OutType ==
    [rows: Int, cols: Int, nnz: Nat, dtype: Dtypes,
     row_ptr: Structures \cup {Garbage},
     col_idx: Addr \cup {Null}]

StoreType == [holds: Structures \cup {Garbage}, cap: Nat]

RetType ==
    [op: {"compute", "other"},
     status: Status,
     out: Outs \cup {Null},
     want: Structures \cup {Null}]

Calloced ==
    [null |-> FALSE, algo |-> "DEFAULT", estimated |-> FALSE,
     c_row_ptr |-> Null, c_nnz |-> 0, op_counts |-> Null,
     filled_into |-> Null, dims |-> <<0, 0, 0, 0, 0, 0>>]

Unattached ==
    [rows |-> 0, cols |-> 0, nnz |-> 0, dtype |-> "FP32",
     row_ptr |-> Garbage, col_idx |-> Null]

Returns(op, status) ==
    ret' = [op |-> op, status |-> status, out |-> Null, want |-> Null]

\* A block is named for the variable it is allocated into.
Blocks == {"descr", "count_ws", "c_row_ptr", "op_counts"}
NoBlocks == [b \in Blocks |-> 0]

Allocated(heap, S) == [b \in Blocks |-> heap[b] + (IF b \in S THEN 1 ELSE 0)]
Freed(heap, S) == [b \in Blocks |-> heap[b] - (IF b \in S THEN 1 ELSE 0)]

\* The blocks a free(c_row_ptr); free(op_counts) pair releases.
StructureBlocks(D) ==
    (IF D.c_row_ptr # Null THEN {"c_row_ptr"} ELSE {}) \cup
    (IF D.op_counts # Null THEN {"op_counts"} ELSE {})

\* numeric_for(algo) # NULL
HasNumeric(algo) == algo = "DEFAULT" \/ (VectorBuild /\ algo \in Algos)

CheckOperand(M) ==
    Then(Fail(~M.given, "NULL_POINTER"),
    Then(Fail(M.dtype # "FP32", "UNSUPPORTED_DTYPE"),
         Fail(M.rows <= 0 \/ M.cols <= 0 \/ M.nnz < 0, "INVALID_ARGUMENT")))

-------------------------------------------------------------------------------

Init ==
    /\ descr = [h \in Handles |-> NoDescr]
    /\ live = [h \in Handles |-> NoBlocks]
    /\ out = [c \in Outs |-> Unattached]
    /\ store = [a \in Addr |-> [holds |-> Garbage, cap |-> 0]]
    /\ owed = {}
    /\ ret = [op |-> "other", status |-> "SUCCESS", out |-> Null, want |-> Null]

\* The caller creates into a handle that holds no descriptor.
Create(h) ==
    /\ descr[h].null
    /\ descr' = [descr EXCEPT ![h] = Calloced]
    /\ live' = [live EXCEPT ![h] = Allocated(@, {"descr"})]
    /\ Returns("other", "SUCCESS")
    /\ UNCHANGED <<out, store, owed>>

CreateOutOfMemory(h) ==
    /\ descr[h].null
    /\ Returns("other", "ALLOCATION_FAILED")
    /\ UNCHANGED <<descr, live, out, store, owed>>

Destroy(h) ==
    /\ ~descr[h].null
    /\ live' = [live EXCEPT ![h] = Freed(@, StructureBlocks(descr[h]) \cup {"descr"})]
    /\ descr' = [descr EXCEPT ![h] = NoDescr]
    /\ owed' = owed \ {h}
    /\ Returns("other", "SUCCESS")
    /\ UNCHANGED <<out, store>>

\* Slip: the build is not asked whether it has the strategy.
SlipAlgoUnavailable(h, algo) ==
    Then(Fail(descr[h].null, "NULL_POINTER"),
         Fail(descr[h].estimated, "INVALID_ARGUMENT"))

SetAlgoChecks(h, algo) ==
    Then(Fail(descr[h].null, "NULL_POINTER"),
    Then(Fail(descr[h].estimated, "INVALID_ARGUMENT"),
         Fail(~HasNumeric(algo), "UNSUPPORTED_BACKEND")))

SetAlgo(h, algo) ==
    /\ Returns("other", SetAlgoChecks(h, algo))
    /\ IF SetAlgoChecks(h, algo) = "SUCCESS"
         THEN descr' = [descr EXCEPT ![h].algo = algo]
         ELSE UNCHANGED descr
    /\ UNCHANGED <<live, out, store, owed>>

InvalidateStructure(h) ==
    /\ descr' = IF descr[h].null THEN descr
                ELSE [descr EXCEPT ![h].filled_into = Null]
    /\ owed' = owed \ {h}
    /\ Returns("other", "SUCCESS")
    /\ UNCHANGED <<live, out, store>>

-------------------------------------------------------------------------------
(* rvsp_spgemm_work_estimation *)

EstimateChecks(h, A, B) ==
    Then(Fail(descr[h].null, "NULL_POINTER"),
    Then(CheckOperand(A),
    Then(CheckOperand(B),
         Fail(A.cols # B.rows, "INVALID_ARGUMENT"))))

\* An argument error returns before anything is discarded.
EstimateRejected(h, A, B) ==
    /\ EstimateChecks(h, A, B) # "SUCCESS"
    /\ Returns("other", EstimateChecks(h, A, B))
    /\ UNCHANGED <<descr, live, out, store, owed>>

\* Slips: one of the resets is forgotten.
SlipKeepsEstimated(D) ==
    [D EXCEPT !.c_row_ptr = Null, !.op_counts = Null, !.filled_into = Null, !.c_nnz = 0]
SlipKeepsFilled(D) ==
    [D EXCEPT !.c_row_ptr = Null, !.op_counts = Null, !.estimated = FALSE, !.c_nnz = 0]

\* The old structure is freed before the new one is allocated.
Discarded(D) ==
    [D EXCEPT !.c_row_ptr = Null, !.op_counts = Null, !.filled_into = Null,
              !.estimated = FALSE, !.c_nnz = 0]

\* The three blocks of the count, and what each of the returns frees by hand.
EstimateBlocks == {"count_ws", "c_row_ptr", "op_counts"}
FreedOutOfMemory == {"count_ws", "c_row_ptr", "op_counts"}
\* Slip: only the row pointers are freed when the count overflows.
SlipFreesRowPtrOnly == {"c_row_ptr"}
FreedOnOverflow == {"c_row_ptr", "op_counts"}

\* The blocks of h once the old structure is gone and those of got are there.
EstimateHeap(h, got) == Allocated(Freed(live[h], StructureBlocks(descr[h])), got)

Discards(h) ==
    /\ descr' = [descr EXCEPT ![h] = Discarded(@)]
    /\ owed' = owed \ {h}
    /\ Returns("other", "ALLOCATION_FAILED")
    /\ UNCHANGED <<out, store>>

\* All three allocations are made before any of them is tested.
EstimateOutOfMemory(h, A, B) ==
    /\ EstimateChecks(h, A, B) = "SUCCESS"
    /\ \E got \in SUBSET EstimateBlocks :
         /\ got # EstimateBlocks
         /\ live' = [live EXCEPT ![h] =
                        Freed(EstimateHeap(h, got), FreedOutOfMemory \cap got)]
    /\ Discards(h)

\* The count passes INT32_MAX; its workspace is freed on both outcomes.
EstimateOverflows(h, A, B) ==
    /\ EstimateChecks(h, A, B) = "SUCCESS"
    /\ Nnz[Product[Pair(A, B)]] > MaxNnz
    /\ live' = [live EXCEPT ![h] =
                   Freed(Freed(EstimateHeap(h, EstimateBlocks), {"count_ws"}), FreedOnOverflow)]
    /\ Discards(h)

EstimateFails(h, A, B) == EstimateOutOfMemory(h, A, B) \/ EstimateOverflows(h, A, B)

Analyzed(D, A, B) ==
    [Discarded(D) EXCEPT
        !.c_row_ptr = Product[Pair(A, B)],
        !.op_counts = Pair(A, B),
        !.c_nnz = Nnz[Product[Pair(A, B)]],
        !.dims = Dims(A, B),
        !.estimated = TRUE]

EstimateSucceeds(h, A, B) ==
    /\ EstimateChecks(h, A, B) = "SUCCESS"
    /\ Nnz[Product[Pair(A, B)]] <= MaxNnz
    /\ descr' = [descr EXCEPT ![h] = Analyzed(@, A, B)]
    /\ live' = [live EXCEPT ![h] =
                   Freed(EstimateHeap(h, EstimateBlocks), {"count_ws"})]
    /\ owed' = owed \ {h}
    /\ Returns("other", "SUCCESS")
    /\ UNCHANGED <<out, store>>

-------------------------------------------------------------------------------
(* rvsp_spgemm_compute *)

\* What the header asks of the caller: the pattern of the estimate, and an
\* invalidate_structure call after the storage was replaced.
MayCompute(h, A, B) ==
    /\ h \notin owed
    /\ (~descr[h].null /\ descr[h].estimated /\ Dims(A, B) = descr[h].dims)
          => Pair(A, B) = descr[h].op_counts

\* Slip: the room in C is not checked.
SlipNoRoomCheck(D, C) ==
    Then(Fail(C.col_idx = Null, "NULL_POINTER"),
    Then(Fail(C.dtype # "FP32", "UNSUPPORTED_DTYPE"),
         Fail(C.rows # D.dims[1] \/ C.cols # D.dims[5], "INVALID_ARGUMENT")))

OutChecks(D, C) ==
    Then(Fail(C.col_idx = Null, "NULL_POINTER"),
    Then(Fail(C.dtype # "FP32", "UNSUPPORTED_DTYPE"),
    Then(Fail(C.rows # D.dims[1] \/ C.cols # D.dims[5], "INVALID_ARGUMENT"),
         Fail(C.nnz < D.c_nnz, "INVALID_ARGUMENT"))))

ComputeChecks(h, A, B, C) ==
    Then(Fail(descr[h].null, "NULL_POINTER"),
    Then(Fail(~descr[h].estimated, "INVALID_ARGUMENT"),
    Then(CheckOperand(A),
    Then(CheckOperand(B),
    Then(Fail(Dims(A, B) # descr[h].dims, "INVALID_ARGUMENT"),
    Then(OutChecks(descr[h], C),
         Fail(~HasNumeric(descr[h].algo), "UNSUPPORTED_BACKEND")))))))

ComputeRejected(h, A, B, c) ==
    /\ MayCompute(h, A, B)
    /\ ComputeChecks(h, A, B, out[c]) # "SUCCESS"
    /\ Returns("compute", ComputeChecks(h, A, B, out[c]))
    /\ UNCHANGED <<descr, live, out, store, owed>>

\* Slip: the descriptor remembers that it filled, and not where.
SlipFillsOnce(D, C) == D.filled_into = Null

\* The fill is skipped when the descriptor filled this address before.
NeedsFill(D, C) == D.filled_into # C.col_idx

\* The handles whose cached buffer is the one at a, apart from h.
Sharing(h, a) ==
    {g \in Handles \ {h} : ~descr[g].null /\ descr[g].filled_into = a}

Fill(h, A, B, C) ==
    /\ store' = [store EXCEPT ![C.col_idx].holds = Product[Pair(A, B)]]
    /\ descr' = [descr EXCEPT ![h].filled_into = C.col_idx]
    /\ owed' = IF TracksSharing THEN owed \cup Sharing(h, C.col_idx) ELSE owed

ComputeSucceeds(h, A, B, c) ==
    /\ MayCompute(h, A, B)
    /\ ComputeChecks(h, A, B, out[c]) = "SUCCESS"
    /\ IF NeedsFill(descr[h], out[c])
         THEN Fill(h, A, B, out[c])
         ELSE UNCHANGED <<store, descr, owed>>
    /\ out' = [out EXCEPT ![c].row_ptr = descr[h].c_row_ptr,
                          ![c].nnz = descr[h].c_nnz]
    /\ ret' = [op |-> "compute", status |-> "SUCCESS", out |-> c,
               want |-> Product[Pair(A, B)]]
    /\ UNCHANGED live

-------------------------------------------------------------------------------

\* n is the length of the caller's op_counts_out array.
GetOpCounts(h, n) ==
    /\ LET D == descr[h] IN
       Returns("other", Then(Fail(D.null, "NULL_POINTER"),
           Then(Fail(~D.estimated \/ D.op_counts = Null, "INVALID_ARGUMENT"),
                Fail(n < D.dims[1], "INVALID_ARGUMENT"))))
    /\ UNCHANGED <<descr, live, out, store, owed>>

\* The caller frees c's arrays and allocates new ones, perhaps at an address
\* some array had before, and states their size in C->nnz.  It now owes an
\* invalidate_structure to every descriptor that filled that address.
ReplaceStorage(c, a, cap, shape) ==
    /\ \A o \in Outs \ {c} : out[o].col_idx # a
    /\ out' = [out EXCEPT ![c] =
                  [rows |-> shape[1], cols |-> shape[2], dtype |-> shape[3], nnz |-> cap,
                   row_ptr |-> Garbage, col_idx |-> a]]
    /\ store' = [store EXCEPT ![a] = [holds |-> Garbage, cap |-> cap]]
    /\ owed' = owed \cup {h \in Handles : ~descr[h].null /\ descr[h].filled_into = a}
    /\ Returns("other", "SUCCESS")
    /\ UNCHANGED <<descr, live>>

Call(h) ==
    \/ Create(h)
    \/ CreateOutOfMemory(h)
    \/ Destroy(h)
    \/ \E algo \in Algos : SetAlgo(h, algo)
    \/ InvalidateStructure(h)
    \/ \E A \in LeftOperands, B \in RightOperands :
         \/ EstimateRejected(h, A, B)
         \/ EstimateFails(h, A, B)
         \/ EstimateSucceeds(h, A, B)
         \/ \E c \in Outs : ComputeRejected(h, A, B, c) \/ ComputeSucceeds(h, A, B, c)
    \/ \E n \in CountLengths : GetOpCounts(h, n)

Next ==
    \/ \E h \in Handles : Call(h)
    \/ \E c \in Outs, a \in Addr, cap \in Capacities, shape \in OutShapes :
         ReplaceStorage(c, a, cap, shape)

Spec == Init /\ [][Next]_vars

-------------------------------------------------------------------------------
(* Correctness *)

\* Every variable keeps the fields and the ranges the structs declare.
TypeOK ==
    /\ descr \in [Handles -> DescrType \cup {NoDescr}]
    /\ live \in [Handles -> [Blocks -> Nat]]
    /\ out \in [Outs -> OutType]
    /\ store \in [Addr -> StoreType]
    /\ owed \subseteq Handles
    /\ ret \in RetType

\* A descriptor is estimated exactly when it holds a complete structure, the
\* one of the patterns it analysed: a work_estimation that fails halfway, at
\* any of its allocations, leaves neither half of it behind.
StructureComplete ==
    \A h \in Handles : ~descr[h].null =>
        LET D == descr[h] IN
        /\ D.estimated => /\ D.op_counts # Null
                          /\ D.c_row_ptr = Product[D.op_counts]
                          /\ D.c_nnz = Nnz[D.c_row_ptr]
                          /\ D.c_nnz <= MaxNnz
        /\ ~D.estimated => /\ D.c_row_ptr = Null
                           /\ D.op_counts = Null
                           /\ D.filled_into = Null

\* The cache is sound: the address a descriptor remembers holds the column
\* indices of its own structure, unless the caller still has to invalidate it.
CacheSound ==
    \A h \in Handles \ owed :
        (~descr[h].null /\ descr[h].filled_into # Null)
            => store[descr[h].filled_into].holds = descr[h].c_row_ptr

\* A compute that returned success left C with the structure of A*B in both
\* its row pointers and its column indices, whatever was reused on the way.
ComputedProduct ==
    (ret.op = "compute" /\ ret.status = "SUCCESS") =>
        LET C == out[ret.out] IN
        /\ C.row_ptr = ret.want
        /\ store[C.col_idx].holds = ret.want
        /\ C.nnz = Nnz[ret.want]

\* No fill writes past the storage the caller allocated: C->nnz, which the
\* code reads as a capacity, never exceeds the array, and no structure in an
\* array is longer than the array.
FillFitsStorage ==
    /\ \A c \in Outs : out[c].col_idx # Null => out[c].nnz <= store[out[c].col_idx].cap
    /\ \A a \in Addr : store[a].holds # Garbage => Nnz[store[a].holds] <= store[a].cap

\* The blocks a caller can still free through its handle.
Reached(D) == IF D.null THEN {} ELSE {"descr"} \cup StructureBlocks(D)

\* The heap holds exactly the blocks the descriptors reach, each once: nothing
\* leaks when a structure is replaced, when any of the allocations of a count
\* fails or when the count overflows, and nothing is freed twice.
HeapBalanced ==
    \A h \in Handles :
        live[h] = [b \in Blocks |-> IF b \in Reached(descr[h]) THEN 1 ELSE 0]

\* set_algo is the only gate: a descriptor never carries a strategy the build
\* lacks, so compute never fails for that reason after a successful estimate.
BackendResolved ==
    /\ \A h \in Handles : ~descr[h].null => HasNumeric(descr[h].algo)
    /\ ret.op = "compute" => ret.status # "UNSUPPORTED_BACKEND"

\* The structure a reader of C sees: its row pointers and its column indices
\* have to belong together.
Readable(c) ==
    LET C == out[c] IN
    IF C.col_idx # Null /\ store[C.col_idx].holds = C.row_ptr THEN C.row_ptr ELSE Garbage

Phase(D) ==
    IF D.null THEN "none" ELSE IF D.estimated THEN "estimated" ELSE "created"

Api == INSTANCE SpgemmApi WITH
    phase <- [h \in Handles |-> Phase(descr[h])],
    algo <- [h \in Handles |-> IF descr[h].null THEN Null ELSE descr[h].algo],
    pair <- [h \in Handles |-> IF descr[h].null THEN Null ELSE descr[h].op_counts],
    result <- [c \in Outs |-> Readable(c)],
    Unknown <- Garbage

\* The cache cannot be seen: with it, the code still does what the header
\* promises, a compute by one descriptor never disturbs another output, a
\* failed call changes none, and the strategy is frozen by the analysis.
ImplementsApi == Api!ApiSpec

\* What the header and docs/api_design.md ask of C is storage for the entries:
\* a compute on an estimated descriptor with the right operands, shape and room
\* succeeds.
EnoughStorageIsAccepted ==
    [][\A h \in Handles, A \in LeftOperands, B \in RightOperands, c \in Outs :
          (/\ ComputeRejected(h, A, B, c)
           /\ ~descr[h].null /\ descr[h].estimated
           /\ CheckOperand(A) = "SUCCESS" /\ CheckOperand(B) = "SUCCESS"
           /\ Dims(A, B) = descr[h].dims
           /\ out[c].col_idx # Null /\ out[c].dtype = "FP32"
           /\ out[c].rows = A.rows /\ out[c].cols = B.cols)
          => store[out[c].col_idx].cap < descr[h].c_nnz]_vars

===============================================================================
