----------------------------- MODULE OneShot_proofs -----------------------------
(***************************************************************************)
(* Proofs about matrices and the one-shot product, for any number of       *)
(* matrix variables and heap blocks, whatever the caller puts into a       *)
(* struct and asks for, and whichever of the mallocs fail.                 *)
(*                                                                         *)
(* The invariant says which of its pointers a running call has set at each *)
(* of its steps, and that what it frees on an early return is its own.     *)
(***************************************************************************)
EXTENDS OneShot, TLAPS

ArrayNames == {"c_row_ptr", "c_col_idx", "c_values"}
ScratchNames == {"descr", "structure", "op_counts", "workspace"}

LocalsType ==
    [ptr: [LocalNames -> Blocks \cup {Null}], estimated: BOOLEAN, c_nnz: Nat,
     dims: Int \X Int \X Int \X Int \X Int \X Int, algo: {"DEFAULT", "RVV"}]

Types ==
    /\ mats \in [Mats -> MatrixType] /\ before \in [Mats -> MatrixType]
    /\ heap \subseteq Blocks
    /\ pc \in {"idle", "create", "set_algo", "estimate", "allocate", "publish", "compute"}
    /\ ret \in Status
    /\ loc \in LocalsType

OwnsAll == \A m \in Mats, f \in Fields : mats[m].owns <=> mats[m].ptr[f] \in Blocks

\* What the call frees when it returns, whether C is published or not, and the
\* arrays it publishes.
Scratch == Pointed(loc.ptr, ScratchNames)
NewArrays == Pointed(loc.ptr, ArrayNames)

Held == UNION {Arrays(mats[m]) : m \in Mats}

\* No two fields name one block.
OneName(M) ==
    \A f, g \in Fields : M.ptr[f] \in Blocks /\ M.ptr[f] = M.ptr[g] => f = g
Injective ==
    /\ \A m \in Mats : OneName(mats[m])
    /\ \A m, o \in Mats : m # o => Arrays(mats[m]) \cap Arrays(mats[o]) = {}

HeapInv ==
    /\ heap = Scratch \cup NewArrays \cup Held
    /\ Held \cap Scratch = {}
    /\ NewArrays \cap Scratch = {}
    /\ pc # "compute" => Held \cap NewArrays = {}

LocInv ==
    /\ pc \in {"idle", "create"} => loc = NoLocals
    /\ pc \in {"set_algo", "estimate"} => \A n \in LocalNames \ {"descr"} : loc.ptr[n] = Null
    /\ pc = "allocate" => \A n \in BufferNames : loc.ptr[n] = Null
    /\ pc \notin {"idle", "create"} => loc.ptr["descr"] # Null
    /\ pc \in {"estimate", "allocate", "publish", "compute"} => HasNumeric(loc.algo)
    /\ pc \in {"allocate", "publish", "compute"} =>
         loc.estimated /\ loc.dims = Dims /\ EstimateStatus = "SUCCESS"
    /\ pc \in {"publish", "compute"} =>
         /\ \A n \in BufferNames : loc.ptr[n] \in Blocks
         /\ \A n, k \in ArrayNames : loc.ptr[n] = loc.ptr[k] => n = k

\* The arguments of a call that is past the checks of the FP32 path.
CallInv ==
    pc # "idle" =>
      /\ call.A \in Mats /\ call.B \in Mats /\ call.C \in Mats
      /\ call.C # call.A /\ call.C # call.B
      /\ call.path.kind = "v2" /\ call.path.dtype = "FP32"
      /\ call.path.algo \in {"DEFAULT", "RVV"}
      /\ V2Checks(A, B) = "SUCCESS"
      /\ \A m \in Mats : m # call.C => mats[m] = before[m]
      /\ pc # "compute" => mats[call.C] = before[call.C] /\ ~C.owns
      /\ pc = "compute" => C = Published

Inv ==
    /\ Types /\ OwnsAll /\ Injective /\ HeapInv /\ LocInv /\ CallInv
    /\ OnlyCChanges /\ SuccessIsEarned

\* What SuccessIsEarned asks of two operands.
Earned(MA, MB, path) ==
    /\ MA.cols = MB.rows /\ MA.dtype = path.dtype /\ MB.dtype = path.dtype
    /\ PathEarned(MA, MB, path)

-------------------------------------------------------------------------------

LEMMA NoLocalsMeans ==
    /\ NoLocals \in LocalsType
    /\ \A n \in LocalNames : NoLocals.ptr[n] = Null
    /\ Pointed(NoLocals.ptr, ScratchNames) = {} /\ Pointed(NoLocals.ptr, ArrayNames) = {}
  <1>1. NoLocals.ptr = [n \in LocalNames |-> Null]
    BY DEF NoLocals
  <1>2. NoLocals.ptr \in [LocalNames -> Blocks \cup {Null}]
    BY <1>1
  <1>3. NoLocals \in LocalsType
    BY <1>2 DEF NoLocals, LocalsType
  <1>4. QED
    BY <1>1, <1>3 DEF Pointed, LocalNames, BufferNames, ScratchNames, ArrayNames

LEMMA ClearedMeans ==
    /\ Cleared \in MatrixType /\ ~Cleared.owns
    /\ \A f \in Fields : Cleared.ptr[f] = Null
    /\ Arrays(Cleared) = {} /\ OneName(Cleared)
  <1>1. Cleared.ptr = [f \in Fields |-> Null] /\ Cleared.owns = FALSE
    BY DEF Cleared
  <1>2. Cleared.ptr \in [Fields -> Pointers]
    BY <1>1 DEF Pointers
  <1>3. Cleared \in MatrixType
    BY <1>2 DEF Cleared, MatrixType, Dtypes, Forms
  <1>4. QED
    BY <1>1, <1>3, OneShotAssumption DEF Arrays, OneName

LEMMA InitInv ==
    ASSUME Init
    PROVE  Inv
  <1>1. \A m \in Mats : mats[m] = Cleared
    BY DEF Init
  <1>2. Types
    BY ClearedMeans, NoLocalsMeans DEF Init, Types, Status
  <1>3. OwnsAll /\ Injective /\ Held = {}
    BY <1>1, ClearedMeans, OneShotAssumption DEF OwnsAll, Injective, Held
  <1>4. HeapInv
    BY <1>3, NoLocalsMeans DEF Init, HeapInv, Scratch, NewArrays
  <1>5. LocInv /\ CallInv
    BY DEF Init, LocInv, CallInv
  <1>6. OnlyCChanges /\ SuccessIsEarned
    BY DEF Init, NoCall, OnlyCChanges, SuccessIsEarned
  <1>7. QED
    BY <1>2, <1>3, <1>4, <1>5, <1>6 DEF Inv

\* What the matrices hold after one of them changes.
LEMMA HeldChange ==
    ASSUME Types, Injective, NEW c \in Mats, NEW M, OneName(M),
           Arrays(M) \cap (Held \ Arrays(mats[c])) = {},
           mats' = [mats EXCEPT ![c] = M]
    PROVE  /\ \A m \in Mats : m # c => mats'[m] = mats[m]
           /\ mats'[c] = M
           /\ Held' = (Held \ Arrays(mats[c])) \cup Arrays(M)
           /\ Injective'
  <1>1. /\ \A m \in Mats : m # c => mats'[m] = mats[m]
        /\ mats'[c] = M
    BY DEF Types
  <1>2. \A m \in Mats : m # c => Arrays(mats[m]) \cap Arrays(mats[c]) = {}
    BY DEF Injective
  <1>3. Held' = UNION {Arrays(mats'[m]) : m \in Mats}
    BY DEF Held, Arrays
  <1>4. \A m \in Mats : m # c => Arrays(mats[m]) \subseteq Held \ Arrays(mats[c])
    BY <1>2 DEF Held
  <1>5. Held \subseteq Arrays(mats[c]) \cup UNION {Arrays(mats[m]) : m \in Mats \ {c}}
    BY DEF Held
  <1>6. Held' = (Held \ Arrays(mats[c])) \cup Arrays(M)
    BY <1>1, <1>3, <1>4, <1>5
  <1>7. \A m \in Mats : OneName(mats'[m])
    BY <1>1 DEF Injective
  <1>8. \A m, o \in Mats : m # o => Arrays(mats'[m]) \cap Arrays(mats'[o]) = {}
    <2> SUFFICES ASSUME NEW m \in Mats, NEW o \in Mats, m # o
                 PROVE  Arrays(mats'[m]) \cap Arrays(mats'[o]) = {}
      OBVIOUS
    <2>1. CASE m # c /\ o # c
      BY <1>1, <2>1 DEF Injective
    <2>2. CASE m = c \/ o = c
      BY <1>1, <1>4, <2>2
    <2>3. QED
      BY <2>1, <2>2
  <1>9. QED
    BY <1>1, <1>6, <1>7, <1>8 DEF Injective, OneName, Arrays

LEMMA HeldSame ==
    ASSUME UNCHANGED mats
    PROVE  Held' = Held /\ (OwnsAll => OwnsAll') /\ (Injective => Injective')
  BY DEF Held, Arrays, OwnsAll, Injective, OneName

\* A struct owns its arrays exactly when it has any, and then free gets them.
LEMMA OwnsMeans ==
    ASSUME Types, OwnsAll, NEW m \in Mats
    PROVE  /\ mats[m].owns => Pointed(mats[m].ptr, Fields) = Arrays(mats[m])
           /\ ~mats[m].owns => Arrays(mats[m]) = {}
  BY OneShotAssumption DEF OwnsAll, Pointed, Arrays, Fields

\* The checks of the FP32 path, one by one.
LEMMA V2ChecksMean ==
    ASSUME NEW MA, NEW MB
    PROVE  /\ V2Checks(MA, MB) \in Status
           /\ V2Checks(MA, MB) = "SUCCESS" <=>
                /\ MA.dtype = "FP32" /\ MB.dtype = "FP32" /\ MA.cols = MB.rows
                /\ CsrCheck(MA) /\ CsrCheck(MB)
  BY DEF V2Checks, Then, Fail, Status

LEMMA ScalarMeans ==
    ASSUME NEW MA, NEW MB
    PROVE  /\ ScalarOutcomes(MA, MB) \subseteq Status
           /\ "SUCCESS" \in ScalarOutcomes(MA, MB) =>
                /\ MA.cols = MB.rows /\ MA.dtype = "INT8" /\ MB.dtype = "INT8"
                /\ Validate(MA) = "SUCCESS" /\ Validate(MB) = "SUCCESS"
  BY DEF ScalarOutcomes, Validate, Then, Fail, Status

LEMMA RawMeans ==
    ASSUME NEW MA, NEW MB, NEW dtype \in {"INT8", "FP64"}
    PROVE  /\ RawOutcomes(MA, MB, dtype) \subseteq Status
           /\ "SUCCESS" \in RawOutcomes(MA, MB, dtype) =>
                /\ MA.cols = MB.rows /\ MA.dtype = dtype /\ MB.dtype = dtype
                /\ ~Missing(MA) /\ ~Missing(MB) /\ MA.form # "broken"
                /\ MB.form = "broken" => dtype = "FP64"
  BY DEF RawOutcomes, Status

\* Every path is the FP32 one with a strategy, one of the older kernels, or none.
LEMMA PathMeans ==
    ASSUME NEW MA, NEW MB, NEW o
    PROVE  LET path == Path(MA, MB, o) IN
           /\ path.kind = "v2" => path.dtype = "FP32" /\ path.algo \in {"DEFAULT", "RVV"}
           /\ path.kind = "scalar_i8" => path.dtype = "INT8"
           /\ path.kind = "raw" => path.dtype \in {"INT8", "FP64"}
  BY DEF Path

LEMMA OldMeans ==
    ASSUME NEW MA, NEW MB, NEW path, path.kind \in {"scalar_i8", "raw"},
           path.kind = "scalar_i8" => path.dtype = "INT8",
           path.kind = "raw" => path.dtype \in {"INT8", "FP64"}
    PROVE  /\ OldOutcomes(MA, MB, path) \subseteq Status
           /\ "SUCCESS" \in OldOutcomes(MA, MB, path) => Earned(MA, MB, path)
  <1>1. CASE path.kind = "scalar_i8"
    BY <1>1, ScalarMeans DEF OldOutcomes, Earned, PathEarned
  <1>2. CASE path.kind = "raw"
    <2>1. OldOutcomes(MA, MB, path) = RawOutcomes(MA, MB, path.dtype)
      BY <1>2 DEF OldOutcomes
    <2>2. QED
      BY <1>2, <2>1, RawMeans DEF Earned, PathEarned
  <1>3. QED
    BY <1>1, <1>2

\* What the mallocs into some variables leave in the heap.
LEMMA Allocated ==
    ASSUME Inv, NEW names \in {{"descr"}, EstimateNames, BufferNames, Fields},
           NEW got \in Malloc(heap, names)
    PROVE  /\ got \in [names -> Blocks \cup {Null}]
           /\ Pointed(got, names) \subseteq Blocks
           /\ Pointed(got, names) \cap heap = {}
           /\ Pointed(got, names) \cap Held = {} /\ Pointed(got, names) \cap Scratch = {}
           /\ \A n, k \in names : n # k /\ got[n] = got[k] => got[n] = Null
  <1>1. heap \in SUBSET Blocks
    BY DEF Inv, Types
  <1>2. /\ got \in [names -> Blocks \cup {Null}]
        /\ \A n \in names : got[n] \notin heap
        /\ \A n, k \in names : n # k /\ got[n] = got[k] => got[n] = Null
    BY <1>1, AllocatorAssumption
  <1>3. Held \subseteq heap /\ Scratch \subseteq heap
    BY DEF Inv, HeapInv
  <1>4. QED
    BY <1>2, <1>3 DEF Pointed

-------------------------------------------------------------------------------
(* The caller's steps *)

\* Once no call runs, the parts of the invariant about a running one hold by
\* themselves.
LEMMA IdleAgain ==
    ASSUME pc' = "idle", loc' = NoLocals
    PROVE  LocInv' /\ CallInv' /\ loc' \in LocalsType /\ Scratch' = {} /\ NewArrays' = {}
  BY NoLocalsMeans DEF LocInv, CallInv, Scratch, NewArrays

\* Between calls the heap is what the matrices hold.
LEMMA IdleHeap ==
    ASSUME Inv, pc = "idle"
    PROVE  heap = Held /\ loc = NoLocals
  BY NoLocalsMeans DEF Inv, HeapInv, LocInv, Scratch, NewArrays

LEMMA ValidateIsStatus ==
    ASSUME NEW M
    PROVE  Validate(M) \in Status
  BY DEF Validate, Then, Fail, Status

\* The caller fills in a struct that owns nothing, by hand or through create.
LEMMA FilledIn ==
    ASSUME Inv, NEW m \in Mats, NEW in \in Inputs, pc = "idle", ~mats[m].owns,
           mats' = [mats EXCEPT ![m] = Struct(in)], ret' \in Status,
           UNCHANGED <<heap, pc, loc>>, call' = NoCall, before' = mats'
    PROVE  Inv'
  <1> DEFINE M == Struct(in)
  <1>1. in \in InputType
    BY OneShotAssumption
  <1>2. \A f \in Fields : M.ptr[f] \in {Null, Caller}
    BY DEF Struct
  <1>3. /\ M.owns = FALSE /\ Arrays(M) = {} /\ OneName(M)
        /\ \A f \in Fields : M.ptr[f] \notin Blocks
    BY <1>2, OneShotAssumption DEF Struct, Arrays, OneName
  <1>4. [f \in Fields |-> IF f \in in.absent THEN Null ELSE Caller] \in [Fields -> Pointers]
    BY DEF Pointers
  <1>5. M \in MatrixType
    BY <1>1, <1>4 DEF MatrixType, InputType, Struct
  <1> HIDE DEF M
  <1>6. loc' = NoLocals /\ pc' = "idle" /\ heap = Held /\ Arrays(mats[m]) = {}
    BY IdleHeap, OwnsMeans DEF Inv
  <1>7. Types'
    BY <1>5 DEF Inv, Types, M
  <1>8. /\ \A n \in Mats : n # m => mats'[n] = mats[n]
        /\ mats'[m] = M /\ Held' = Held /\ Injective'
    <2>1. mats' = [mats EXCEPT ![m] = M]
      BY DEF M
    <2>2. Arrays(M) \cap (Held \ Arrays(mats[m])) = {}
      BY <1>3
    <2>3. /\ \A n \in Mats : n # m => mats'[n] = mats[n]
          /\ mats'[m] = M /\ Held' = (Held \ Arrays(mats[m])) \cup Arrays(M)
          /\ Injective'
      BY <1>3, <2>1, <2>2, HeldChange DEF Inv
    <2>4. QED
      BY <1>3, <1>6, <2>3
  <1>9. OwnsAll'
    BY <1>3, <1>8 DEF Inv, OwnsAll
  <1>10. HeapInv'
    BY <1>6, <1>8, IdleAgain DEF HeapInv
  <1>11. OnlyCChanges' /\ SuccessIsEarned'
    BY DEF NoCall, OnlyCChanges, SuccessIsEarned
  <1>12. QED
    BY <1>6, <1>7, <1>8, <1>9, <1>10, <1>11, IdleAgain DEF Inv

\* A step that returns with the matrices as they were.
LEMMA NothingChanged ==
    ASSUME Inv, pc = "idle", pc' = "idle", loc' = NoLocals, UNCHANGED <<mats, heap>>,
           ret' \in Status, before' = mats,
           call' = NoCall \/ ret' # "SUCCESS"
    PROVE  Inv'
  <1>1. heap' = Held' /\ OwnsAll' /\ Injective'
    BY IdleHeap, HeldSame DEF Inv
  <1>2. Types'
    BY NoLocalsMeans DEF Inv, Types
  <1>3. HeapInv'
    BY <1>1, IdleAgain DEF HeapInv
  <1>4. OnlyCChanges' /\ SuccessIsEarned'
    BY DEF NoCall, OnlyCChanges, SuccessIsEarned
  <1>5. QED
    BY <1>1, <1>2, <1>3, <1>4, IdleAgain DEF Inv

LEMMA CreateStep ==
    ASSUME Inv, NEW m \in Mats, NEW in \in Inputs, Create(m, in)
    PROVE  Inv'
  <1>1. /\ pc = "idle" /\ ~mats[m].owns /\ UNCHANGED <<heap, pc, loc>>
        /\ call' = NoCall /\ before' = mats'
    BY DEF Create
  <1>2. CASE CreateChecks(in) # "SUCCESS"
    <2>1. mats' = mats /\ ret' = CreateChecks(in)
      BY <1>2 DEF Create
    <2>2. ret' \in Status
      BY <2>1 DEF CreateChecks, Then, Fail, Status
    <2>3. loc' = NoLocals
      BY <1>1, IdleHeap
    <2>4. QED
      BY <1>1, <2>1, <2>2, <2>3, NothingChanged
  <1>3. CASE CreateChecks(in) = "SUCCESS"
    <2>1. mats' = [mats EXCEPT ![m] = Struct(in)] /\ ret' = Validate(Struct(in))
      BY <1>3 DEF Create
    <2>2. QED
      BY <1>1, <2>1, ValidateIsStatus, FilledIn
  <1>4. QED
    BY <1>2, <1>3

LEMMA BuildStep ==
    ASSUME Inv, NEW m \in Mats, NEW in \in Inputs, Build(m, in)
    PROVE  Inv'
  <1>1. "SUCCESS" \in Status
    BY DEF Status
  <1>2. QED
    BY <1>1, FilledIn DEF Build

LEMMA DestroyStep ==
    ASSUME Inv, NEW m \in Mats, Destroy(m)
    PROVE  Inv'
  <1>1. /\ pc = "idle" /\ pc' = "idle" /\ loc' = NoLocals /\ loc = NoLocals
        /\ mats' = [mats EXCEPT ![m] = Cleared]
        /\ call' = NoCall /\ before' = mats' /\ ret' = "SUCCESS"
    BY IdleHeap DEF Destroy, AfterDestroy
  <1>2. heap' = heap \ Arrays(mats[m]) /\ heap = Held
    BY <1>1, IdleHeap, OwnsMeans DEF Destroy, Inv
  <1>3. /\ \A n \in Mats : n # m => mats'[n] = mats[n]
        /\ mats'[m] = Cleared /\ Held' = Held \ Arrays(mats[m]) /\ Injective'
    <2>1. Arrays(Cleared) \cap (Held \ Arrays(mats[m])) = {}
      BY ClearedMeans
    <2>2. /\ \A n \in Mats : n # m => mats'[n] = mats[n]
          /\ mats'[m] = Cleared /\ Held' = (Held \ Arrays(mats[m])) \cup Arrays(Cleared)
          /\ Injective'
      BY <1>1, <2>1, ClearedMeans, HeldChange DEF Inv
    <2>3. QED
      BY <2>2, ClearedMeans
  <1>4. Types'
    BY <1>1, <1>2, ClearedMeans, NoLocalsMeans DEF Inv, Types, Status
  <1>5. OwnsAll'
    BY <1>3, ClearedMeans, OneShotAssumption DEF Inv, OwnsAll
  <1>6. HeapInv'
    BY <1>1, <1>2, <1>3, IdleAgain DEF HeapInv
  <1>7. OnlyCChanges' /\ SuccessIsEarned'
    BY <1>1 DEF NoCall, OnlyCChanges, SuccessIsEarned
  <1>8. QED
    BY <1>1, <1>3, <1>4, <1>5, <1>6, <1>7, IdleAgain DEF Inv

LEMMA CallRejectedStep ==
    ASSUME Inv, NEW a \in Mats, NEW b \in Mats, NEW c \in Mats, NEW o,
           CallRejected(a, b, c, o)
    PROVE  Inv'
  <1>1. /\ pc = "idle" /\ pc' = "idle" /\ loc' = NoLocals
        /\ UNCHANGED <<mats, heap>> /\ before' = mats
        /\ ret' # "SUCCESS" /\ ret' \in Status
    BY V2ChecksMean DEF CallRejected, Returns, Status
  <1>2. QED
    BY <1>1, NothingChanged

LEMMA CallOldStep ==
    ASSUME Inv, NEW a \in Mats, NEW b \in Mats, NEW c \in Mats, NEW o,
           CallOld(a, b, c, o)
    PROVE  Inv'
  <1>0. PICK path : path = Path(mats[a], mats[b], o)
    OBVIOUS
  <1>1. PICK status \in OldOutcomes(mats[a], mats[b], path) :
          \E got \in OldArrays(status), n \in Counts :
            /\ heap' = heap \cup Pointed(got, Fields)
            /\ mats' = IF FillsIn(status)
                         THEN [mats EXCEPT ![c] = OldResult(a, b, path.dtype, n, got)]
                         ELSE mats
            /\ Returns(status)
    BY <1>0, Zenon DEF CallOld
  <1>2. PICK got \in OldArrays(status), n \in Counts :
            /\ heap' = heap \cup Pointed(got, Fields)
            /\ mats' = IF FillsIn(status)
                         THEN [mats EXCEPT ![c] = OldResult(a, b, path.dtype, n, got)]
                         ELSE mats
            /\ Returns(status)
    BY <1>1, Zenon
  <1>3. /\ pc = "idle" /\ pc' = "idle" /\ loc' = NoLocals
        /\ path.kind \in {"scalar_i8", "raw"} /\ ret' = status /\ before' = mats
        /\ call' = [A |-> a, B |-> b, C |-> c, path |-> path]
        /\ c # a /\ c # b /\ ~mats[c].owns
    BY <1>0, <1>2 DEF CallOld, MayPass, Returns, Arguments
  <1>4. /\ status \in Status
        /\ status = "SUCCESS" => Earned(mats[a], mats[b], path)
        /\ path.dtype \in {"INT8", "FP64"}
    BY <1>0, <1>3, PathMeans, OldMeans
  <1>5. CASE status # "SUCCESS"
    <2>1. got = [f \in Fields |-> Null]
      BY <1>5 DEF OldArrays
    <2>2. Pointed(got, Fields) = {}
      BY <2>1 DEF Pointed
    <2>3. UNCHANGED <<mats, heap>>
      BY <1>2, <1>5, <2>2 DEF FillsIn
    <2>4. QED
      BY <1>3, <1>4, <1>5, <2>3, NothingChanged
  <1>6. CASE status = "SUCCESS"
    <2> DEFINE M == OldResult(a, b, path.dtype, n, got)
    <2>1. mats' = [mats EXCEPT ![c] = M] /\ heap' = heap \cup Pointed(got, Fields)
      BY <1>2, <1>6 DEF FillsIn
    <2>2. got \in Malloc(heap, Fields) /\ Complete(got, Fields)
      BY <1>6 DEF OldArrays
    <2>3. /\ got \in [Fields -> Blocks \cup {Null}] /\ Pointed(got, Fields) \subseteq Blocks
          /\ Pointed(got, Fields) \cap Held = {}
          /\ \A f, g \in Fields : f # g /\ got[f] = got[g] => got[f] = Null
      BY <2>2, Allocated
    <2>4. \A f \in Fields : got[f] \in Blocks
      BY <2>2, <2>3 DEF Complete
    <2>5. /\ M.ptr = got /\ M.owns /\ M.nnz = M.last
          /\ M.rows = mats[a].rows /\ M.cols = mats[b].cols
          /\ M.dtype = ResultType(path.dtype)
      BY DEF OldResult
    <2>6. Arrays(M) = Pointed(got, Fields) /\ OneName(M)
      BY <2>3, <2>4, <2>5, OneShotAssumption DEF Arrays, Pointed, OneName
    <2>7. mats[a] \in MatrixType /\ mats[b] \in MatrixType /\ n \in Int
      BY OneShotAssumption DEF Inv, Types
    <2>8. ResultType(path.dtype) \in Dtypes
      BY <1>4 DEF ResultType, Dtypes
    <2>9. got \in [Fields -> Pointers]
      BY <2>3 DEF Pointers
    <2>10. M \in MatrixType
      BY <2>7, <2>8, <2>9 DEF OldResult, MatrixType, Forms
    <2> HIDE DEF M
    <2>11. heap = Held /\ Arrays(mats[c]) = {}
      BY <1>3, IdleHeap, OwnsMeans DEF Inv
    <2>12. /\ \A k \in Mats : k # c => mats'[k] = mats[k]
           /\ mats'[c] = M /\ Held' = Held \cup Arrays(M) /\ Injective'
      BY <2>1, <2>3, <2>6, <2>11, HeldChange DEF Inv
    <2>13. Types'
      BY <1>3, <1>4, <2>1, <2>3, <2>10, NoLocalsMeans DEF Inv, Types
    <2>14. OwnsAll'
      BY <2>4, <2>5, <2>12 DEF Inv, OwnsAll
    <2>15. HeapInv'
      BY <1>3, <2>1, <2>6, <2>11, <2>12, IdleAgain DEF HeapInv
    <2>16. OnlyCChanges'
      BY <1>3, <1>6, <2>12 DEF OnlyCChanges
    <2>17. SuccessIsEarned'
      <3>1. A' = mats[a] /\ B' = mats[b] /\ C' = M /\ call'.path = path
        BY <1>3, <2>12 DEF A, B, C
      <3>2. QED
        BY <1>4, <1>6, <2>5, <3>1 DEF SuccessIsEarned, Earned
    <2>18. QED
      BY <1>3, <2>12, <2>13, <2>14, <2>15, <2>16, <2>17, IdleAgain DEF Inv
  <1>7. QED
    BY <1>5, <1>6

LEMMA CallV2Step ==
    ASSUME Inv, NEW a \in Mats, NEW b \in Mats, NEW c \in Mats, NEW o,
           CallV2(a, b, c, o)
    PROVE  Inv'
  <1>0. PICK path : path = Path(mats[a], mats[b], o)
    OBVIOUS
  <1>1. /\ pc = "idle" /\ pc' = "create" /\ UNCHANGED <<mats, heap, loc, ret>>
        /\ before' = mats /\ call' = [A |-> a, B |-> b, C |-> c, path |-> path]
        /\ c # a /\ c # b /\ ~mats[c].owns
        /\ path.kind = "v2" /\ V2Checks(mats[a], mats[b]) = "SUCCESS"
    BY <1>0 DEF CallV2, MayPass, Arguments
  <1>2. heap' = Held' /\ OwnsAll' /\ Injective' /\ loc' = NoLocals
    BY <1>1, IdleHeap, HeldSame DEF Inv
  <1>3. Types'
    BY <1>1 DEF Inv, Types
  <1>4. HeapInv'
    BY <1>2, NoLocalsMeans DEF HeapInv, Scratch, NewArrays
  <1>5. LocInv'
    BY <1>1, <1>2 DEF LocInv
  <1>6. CallInv'
    <2>1. A' = mats[a] /\ B' = mats[b] /\ C' = mats[c]
      BY <1>1 DEF A, B, C
    <2>2. path.dtype = "FP32" /\ path.algo \in {"DEFAULT", "RVV"}
      BY <1>0, <1>1, PathMeans
    <2>3. QED
      BY <1>1, <2>1, <2>2 DEF CallInv
  <1>7. OnlyCChanges' /\ SuccessIsEarned'
    BY <1>1 DEF OnlyCChanges, SuccessIsEarned
  <1>8. QED
    BY <1>2, <1>3, <1>4, <1>5, <1>6, <1>7 DEF Inv

-------------------------------------------------------------------------------
(* The steps of spgemm_csr_v2_oneshot *)

\* An early return frees all the call has, and leaves C alone.
LEMMA EarlyReturn ==
    ASSUME Inv, pc \notin {"idle", "compute"}, NEW status \in Status, status # "SUCCESS",
           Returns(status), UNCHANGED <<mats, call, before>>,
           NewArrays = {}, heap' = heap \ Scratch
    PROVE  Inv'
  <1>1. pc' = "idle" /\ ret' = status /\ loc' = NoLocals
    BY DEF Returns
  <1>2. Types'
    BY <1>1, NoLocalsMeans DEF Inv, Types
  <1>3. heap' = Held'
    BY HeldSame DEF Inv, HeapInv
  <1>4. HeapInv'
    BY <1>1, <1>3, IdleAgain DEF HeapInv
  <1>5. \A m \in Mats : mats'[m] = before'[m]
    BY DEF Inv, CallInv
  <1>6. OnlyCChanges' /\ SuccessIsEarned'
    BY <1>1, <1>5 DEF OnlyCChanges, SuccessIsEarned
  <1>7. QED
    BY <1>1, <1>2, <1>4, <1>6, HeldSame, IdleAgain DEF Inv

\* Which pointers are set at each step, and what rvsp_spgemm_descr_destroy
\* frees then.
LEMMA PointersSet ==
    ASSUME Inv
    PROVE  /\ pc = "create" => Scratch = {} /\ NewArrays = {}
           /\ pc \in {"set_algo", "estimate", "allocate"} =>
                Scratch = FreesDescr /\ NewArrays = {}
           /\ pc \in {"set_algo", "estimate"} => Scratch = {loc.ptr["descr"]}
           /\ FreesAfterCompute = Scratch
  <1>1. pc = "create" => Scratch = {} /\ NewArrays = {}
    BY NoLocalsMeans DEF Inv, LocInv, Scratch, NewArrays
  <1>2. pc \in {"set_algo", "estimate", "allocate"} => \A n \in BufferNames : loc.ptr[n] = Null
    BY DEF Inv, LocInv, LocalNames, BufferNames
  <1>3. pc \in {"set_algo", "estimate", "allocate"} => Scratch = FreesDescr /\ NewArrays = {}
    BY <1>2 DEF Scratch, FreesDescr, NewArrays, Pointed, BufferNames, ArrayNames, ScratchNames
  <1>4. pc \in {"set_algo", "estimate"} => Scratch = {loc.ptr["descr"]}
    BY DEF Inv, LocInv, Scratch, Pointed, LocalNames, BufferNames, ScratchNames
  <1>5. FreesAfterCompute = Scratch
    BY DEF FreesAfterCompute, FreesDescr, Scratch, ScratchNames, Pointed
  <1>6. QED
    BY <1>1, <1>3, <1>4, <1>5

\* What stays true of the matrices and the arguments until C is filled in.
LEMMA StillRunning ==
    ASSUME Inv, pc # "idle", pc # "compute", pc' # "idle", pc' # "compute",
           UNCHANGED <<mats, call, ret, before>>
    PROVE  /\ OwnsAll' /\ Injective' /\ CallInv' /\ OnlyCChanges' /\ SuccessIsEarned'
           /\ Held' = Held /\ A' = A /\ B' = B /\ C' = C
  <1>1. A' = A /\ B' = B /\ C' = C
    BY DEF A, B, C
  <1>2. CallInv'
    BY <1>1 DEF Inv, CallInv
  <1>3. OnlyCChanges' /\ SuccessIsEarned'
    BY DEF OnlyCChanges, SuccessIsEarned
  <1>4. QED
    BY <1>1, <1>2, <1>3, HeldSame DEF Inv

\* The heap and the pointers after mallocs into some names of the call whose
\* variables were NULL.
LEMMA Stored ==
    ASSUME Inv, NEW names \in SUBSET LocalNames, NEW got \in [names -> Blocks \cup {Null}],
           loc'.ptr = Assigned(got, names), \A n \in names : loc.ptr[n] = Null
    PROVE  /\ loc'.ptr \in [LocalNames -> Blocks \cup {Null}]
           /\ \A n \in names : loc'.ptr[n] = got[n]
           /\ \A n \in LocalNames \ names : loc'.ptr[n] = loc.ptr[n]
           /\ Scratch' = Scratch \cup Pointed(got, names \cap ScratchNames)
           /\ NewArrays' = NewArrays \cup Pointed(got, names \cap ArrayNames)
  <1>1. loc.ptr \in [LocalNames -> Blocks \cup {Null}]
    BY DEF Inv, Types, LocalsType
  <1>2. /\ loc'.ptr \in [LocalNames -> Blocks \cup {Null}]
        /\ \A n \in names : loc'.ptr[n] = got[n]
        /\ \A n \in LocalNames \ names : loc'.ptr[n] = loc.ptr[n]
    BY <1>1 DEF Assigned
  <1>3. ScratchNames \subseteq LocalNames /\ ArrayNames \subseteq LocalNames
    BY DEF ScratchNames, ArrayNames, LocalNames, BufferNames
  <1>4. \A some \in SUBSET LocalNames :
            Pointed(loc'.ptr, some) = Pointed(loc.ptr, some) \cup Pointed(got, names \cap some)
    <2> SUFFICES ASSUME NEW some \in SUBSET LocalNames
                 PROVE  Pointed(loc'.ptr, some)
                          = Pointed(loc.ptr, some) \cup Pointed(got, names \cap some)
      OBVIOUS
    <2>1. Pointed(loc'.ptr, some) = {loc'.ptr[n] : n \in some} \ {Null}
      BY DEF Pointed
    <2>2. {loc'.ptr[n] : n \in some}
            = {loc'.ptr[n] : n \in some \ names} \cup {loc'.ptr[n] : n \in names \cap some}
      OBVIOUS
    <2>3. {loc'.ptr[n] : n \in names \cap some} = {got[n] : n \in names \cap some}
      BY <1>2
    <2>4. {loc'.ptr[n] : n \in some \ names} = {loc.ptr[n] : n \in some \ names}
      BY <1>2
    <2>5. {loc.ptr[n] : n \in some} \ {Null} = {loc.ptr[n] : n \in some \ names} \ {Null}
      OBVIOUS
    <2>6. QED
      BY <2>1, <2>2, <2>3, <2>4, <2>5 DEF Pointed
  <1>5. QED
    BY <1>2, <1>3, <1>4 DEF Scratch, NewArrays

LEMMA CreateDescrStep ==
    ASSUME Inv, CreateDescr
    PROVE  Inv'
  <1>1. pc = "create" /\ UNCHANGED <<mats, call, before>> /\ loc = NoLocals
        /\ Scratch = {} /\ NewArrays = {}
    BY PointersSet DEF CreateDescr, Inv, LocInv
  <1>2. PICK got \in Malloc(heap, {"descr"}) :
          IF Complete(got, {"descr"})
            THEN /\ loc' = [loc EXCEPT !.ptr = Assigned(got, {"descr"})]
                 /\ heap' = heap \cup Pointed(got, {"descr"})
                 /\ pc' = "set_algo" /\ UNCHANGED ret
            ELSE Returns("ALLOCATION_FAILED") /\ UNCHANGED heap
    BY DEF CreateDescr
  <1>3. CASE ~Complete(got, {"descr"})
    <2>1. Returns("ALLOCATION_FAILED") /\ heap' = heap \ Scratch
      BY <1>1, <1>2, <1>3
    <2>2. QED
      BY <1>1, <2>1, EarlyReturn DEF Status
  <1>4. CASE Complete(got, {"descr"})
    <2>1. /\ loc' = [loc EXCEPT !.ptr = Assigned(got, {"descr"})]
          /\ heap' = heap \cup Pointed(got, {"descr"})
          /\ pc' = "set_algo" /\ UNCHANGED ret
      BY <1>2, <1>4
    <2>2. /\ got \in [{"descr"} -> Blocks \cup {Null}]
          /\ Pointed(got, {"descr"}) \subseteq Blocks
          /\ Pointed(got, {"descr"}) \cap Held = {} /\ got["descr"] # Null
      BY <1>4, Allocated DEF Complete
    <2>3. {"descr"} \subseteq LocalNames /\ loc.ptr["descr"] = Null
          /\ {"descr"} \cap ScratchNames = {"descr"} /\ {"descr"} \cap ArrayNames = {}
      BY <1>1, NoLocalsMeans DEF LocalNames, ScratchNames, ArrayNames
    <2>4. loc'.ptr = Assigned(got, {"descr"})
      BY <1>1, <2>1 DEF NoLocals
    <2>5. /\ loc'.ptr \in [LocalNames -> Blocks \cup {Null}]
          /\ loc'.ptr["descr"] # Null
          /\ \A n \in LocalNames \ {"descr"} : loc'.ptr[n] = Null
          /\ Scratch' = Pointed(got, {"descr"}) /\ NewArrays' = {}
      <3>1. Pointed(got, {}) = {}
        BY DEF Pointed
      <3>2. QED
        BY <1>1, <2>2, <2>3, <2>4, <3>1, Stored, NoLocalsMeans
    <2>6. loc' \in LocalsType
      BY <1>1, <2>1, <2>4, <2>5, NoLocalsMeans DEF LocalsType
    <2>7. Types'
      BY <1>1, <2>1, <2>2, <2>6 DEF Inv, Types
    <2>8. HeapInv'
      BY <1>1, <2>1, <2>2, <2>5, StillRunning DEF Inv, HeapInv
    <2>9. LocInv'
      BY <2>1, <2>5 DEF LocInv
    <2>10. QED
      BY <1>1, <2>1, <2>7, <2>8, <2>9, StillRunning DEF Inv
  <1>5. QED
    BY <1>3, <1>4

LEMMA SetAlgoStep ==
    ASSUME Inv, SetAlgo
    PROVE  Inv'
  <1>1. pc = "set_algo" /\ UNCHANGED <<mats, call, before>>
    BY DEF SetAlgo
  <1>2. CASE HasNumeric(call.path.algo)
    <2>1. /\ loc' = [loc EXCEPT !.algo = call.path.algo]
          /\ pc' = "estimate" /\ UNCHANGED <<heap, ret>>
      BY <1>2 DEF SetAlgo
    <2>2. loc \in LocalsType /\ call.path.algo \in {"DEFAULT", "RVV"}
      BY <1>1 DEF Inv, Types, CallInv
    <2>3. /\ loc' \in LocalsType /\ loc'.ptr = loc.ptr /\ loc'.algo = call.path.algo
      BY <2>1, <2>2 DEF LocalsType
    <2>4. Types'
      BY <1>1, <2>1, <2>3 DEF Inv, Types
    <2>5. Scratch' = Scratch /\ NewArrays' = NewArrays
      BY <2>3 DEF Scratch, NewArrays
    <2>6. HeapInv'
      BY <1>1, <2>1, <2>5, StillRunning DEF Inv, HeapInv
    <2>7. LocInv'
      BY <1>1, <1>2, <2>1, <2>3 DEF Inv, LocInv, HasNumeric
    <2>8. QED
      BY <1>1, <2>1, <2>4, <2>6, <2>7, StillRunning DEF Inv
  <1>3. CASE ~HasNumeric(call.path.algo)
    <2>1. heap' = heap \ Scratch /\ NewArrays = {} /\ Returns("UNSUPPORTED_BACKEND")
      BY <1>1, <1>3, PointersSet DEF SetAlgo
    <2>2. QED
      BY <1>1, <2>1, EarlyReturn DEF Status
  <1>4. QED
    BY <1>2, <1>3

LEMMA EstimateRefusedStep ==
    ASSUME Inv, EstimateRefused
    PROVE  Inv'
  <1>1. pc = "estimate" /\ UNCHANGED <<mats, call, before>>
        /\ heap' = heap \ Scratch /\ NewArrays = {}
        /\ Returns(EstimateStatus) /\ EstimateStatus # "SUCCESS"
    BY PointersSet DEF EstimateRefused
  <1>2. EstimateStatus \in Status
    BY DEF EstimateStatus, CheckOperand, Then, Fail, Status
  <1>3. QED
    BY <1>1, <1>2, EarlyReturn

\* The return without memory frees what any of the three mallocs got, the one
\* on overflow all of it.
LEMMA EstimateFailsStep ==
    ASSUME Inv, EstimateFails
    PROVE  Inv'
  <1>1. pc = "estimate" /\ UNCHANGED <<mats, call, before>>
        /\ FreesDescr = Scratch /\ NewArrays = {} /\ Returns("ALLOCATION_FAILED")
    BY PointersSet DEF EstimateFails
  <1>2. PICK got \in Malloc(heap, EstimateNames) :
          \/ heap' = (With(got, EstimateNames) \ Pointed(got, FreedOutOfMemory)) \ FreesDescr
          \/ heap' = ((With(got, EstimateNames) \ Pointed(got, {"count_ws"}))
                        \ Pointed(got, FreedOnOverflow)) \ FreesDescr
    BY DEF EstimateFails
  <1>3. Pointed(got, EstimateNames) \cap heap = {}
    BY Allocated
  <1>4. /\ Pointed(got, FreedOutOfMemory) = Pointed(got, EstimateNames)
        /\ Pointed(got, {"count_ws"}) \cup Pointed(got, FreedOnOverflow)
             = Pointed(got, EstimateNames)
    BY DEF FreedOutOfMemory, FreedOnOverflow, EstimateNames, Pointed
  <1>5. heap' = heap \ Scratch
    BY <1>1, <1>2, <1>3, <1>4 DEF With
  <1>6. QED
    BY <1>1, <1>5, EarlyReturn DEF Status

LEMMA EstimateSucceedsStep ==
    ASSUME Inv, EstimateSucceeds
    PROVE  Inv'
  <1> DEFINE Kept == {"structure", "op_counts"}
  <1>1. pc = "estimate" /\ pc' = "allocate" /\ UNCHANGED <<mats, call, ret, before>>
        /\ EstimateStatus = "SUCCESS" /\ NewArrays = {}
    BY PointersSet DEF EstimateSucceeds
  <1>2. PICK got \in Malloc(heap, EstimateNames), n \in Counts :
          /\ Complete(got, EstimateNames)
          /\ heap' = With(got, EstimateNames) \ Pointed(got, {"count_ws"})
          /\ loc' = [loc EXCEPT !.ptr = Assigned(got, Kept),
                                !.estimated = TRUE, !.c_nnz = n, !.dims = Dims]
    BY DEF EstimateSucceeds
  <1>3. /\ got \in [EstimateNames -> Blocks \cup {Null}]
        /\ Pointed(got, EstimateNames) \subseteq Blocks
        /\ Pointed(got, EstimateNames) \cap heap = {}
        /\ Pointed(got, EstimateNames) \cap Held = {}
        /\ \A k, j \in EstimateNames : k # j /\ got[k] = got[j] => got[k] = Null
    BY Allocated
  <1>4. Pointed(got, EstimateNames) \ Pointed(got, {"count_ws"}) = Pointed(got, Kept)
    <2>1. \A k \in EstimateNames : got[k] # Null
      BY <1>2 DEF Complete
    <2>2. QED
      BY <1>3, <2>1 DEF Pointed, EstimateNames
  <1>5. heap' = heap \cup Pointed(got, Kept)
    <2>1. Pointed(got, {"count_ws"}) \subseteq Pointed(got, EstimateNames)
      BY DEF Pointed, EstimateNames
    <2>2. QED
      BY <1>2, <1>3, <1>4, <2>1 DEF With
  <1>6. PICK kept : kept = [k \in Kept |-> got[k]]
    OBVIOUS
  <1>7. /\ kept \in [Kept -> Blocks \cup {Null}] /\ Assigned(kept, Kept) = Assigned(got, Kept)
        /\ Pointed(kept, Kept) = Pointed(got, Kept)
    BY <1>3, <1>6 DEF Assigned, Pointed, EstimateNames
  <1>8. loc \in LocalsType /\ \A k \in LocalNames \ {"descr"} : loc.ptr[k] = Null
    BY <1>1 DEF Inv, Types, LocInv
  <1>9. /\ loc'.ptr = Assigned(kept, Kept) /\ loc'.estimated /\ loc'.c_nnz = n
        /\ loc'.dims = Dims /\ loc'.algo = loc.algo
    BY <1>2, <1>7, <1>8 DEF LocalsType
  <1>10. /\ Kept \subseteq LocalNames /\ "descr" \notin Kept
         /\ Kept \cap ScratchNames = Kept /\ Kept \cap ArrayNames = {}
         /\ BufferNames \subseteq LocalNames \ Kept /\ "descr" \in LocalNames \ Kept
         /\ "descr" \notin BufferNames
    BY DEF LocalNames, ScratchNames, ArrayNames, BufferNames
  <1>11. /\ loc'.ptr \in [LocalNames -> Blocks \cup {Null}]
         /\ \A k \in LocalNames \ Kept : loc'.ptr[k] = loc.ptr[k]
         /\ Scratch' = Scratch \cup Pointed(got, Kept) /\ NewArrays' = {}
    <2>1. \A k \in Kept : loc.ptr[k] = Null
      BY <1>8, <1>10
    <2>2. Pointed(kept, {}) = {}
      BY DEF Pointed
    <2> HIDE DEF Kept
    <2>3. Kept \in SUBSET LocalNames /\ kept \in [Kept -> Blocks \cup {Null}]
          /\ loc'.ptr = Assigned(kept, Kept)
      BY <1>7, <1>9, <1>10
    <2>4. /\ loc'.ptr \in [LocalNames -> Blocks \cup {Null}]
          /\ \A k \in LocalNames \ Kept : loc'.ptr[k] = loc.ptr[k]
          /\ Scratch' = Scratch \cup Pointed(kept, Kept \cap ScratchNames)
          /\ NewArrays' = NewArrays \cup Pointed(kept, Kept \cap ArrayNames)
      BY <2>1, <2>3, Stored
    <2>5. QED
      BY <1>1, <1>7, <1>10, <2>2, <2>4
  <1> HIDE DEF Kept
  <1>12. Dims \in Int \X Int \X Int \X Int \X Int \X Int
    <2>1. A \in MatrixType /\ B \in MatrixType
      BY <1>1 DEF Inv, Types, CallInv, A, B
    <2>2. QED
      BY <2>1 DEF Dims, MatrixType
  <1>13. loc' \in LocalsType
    BY <1>2, <1>8, <1>9, <1>11, <1>12, OneShotAssumption DEF LocalsType
  <1>14. Types'
    BY <1>1, <1>3, <1>4, <1>5, <1>13 DEF Inv, Types
  <1>15. HeapInv'
    BY <1>1, <1>3, <1>4, <1>5, <1>11, StillRunning DEF Inv, HeapInv
  <1>16. LocInv'
    <2>1. Dims' = Dims /\ EstimateStatus' = EstimateStatus
      BY <1>1, StillRunning DEF Dims, EstimateStatus
    <2>2. \A k \in BufferNames : loc'.ptr[k] = Null
      BY <1>8, <1>10, <1>11
    <2>3. loc'.ptr["descr"] # Null /\ HasNumeric(loc'.algo)
      BY <1>1, <1>9, <1>10, <1>11 DEF Inv, LocInv
    <2>4. QED
      BY <1>1, <1>9, <2>1, <2>2, <2>3 DEF LocInv, HasNumeric
  <1>17. QED
    BY <1>1, <1>14, <1>15, <1>16, StillRunning DEF Inv

LEMMA AllocateStep ==
    ASSUME Inv, Allocate
    PROVE  Inv'
  <1>1. pc = "allocate" /\ UNCHANGED <<mats, call, before>>
        /\ FreesDescr = Scratch /\ NewArrays = {}
    BY PointersSet DEF Allocate
  <1>2. PICK got \in Malloc(heap, BufferNames) :
        IF Complete(got, BufferNames)
          THEN /\ loc' = [loc EXCEPT !.ptr = Assigned(got, BufferNames)]
               /\ heap' = With(got, BufferNames)
               /\ pc' = "publish" /\ UNCHANGED ret
          ELSE /\ heap' = (With(got, BufferNames) \ Pointed(got, FreedWithoutBuffers))
                           \ FreesDescr
               /\ Returns("ALLOCATION_FAILED")
    BY DEF Allocate
  <1>3. /\ got \in [BufferNames -> Blocks \cup {Null}]
        /\ Pointed(got, BufferNames) \subseteq Blocks
        /\ Pointed(got, BufferNames) \cap heap = {}
        /\ Pointed(got, BufferNames) \cap Held = {} /\ Pointed(got, BufferNames) \cap Scratch = {}
        /\ \A k, j \in BufferNames : k # j /\ got[k] = got[j] => got[k] = Null
    BY Allocated
  <1>4. CASE ~Complete(got, BufferNames)
    <2>1. FreedWithoutBuffers = BufferNames
      BY DEF FreedWithoutBuffers, BufferNames
    <2>2. heap' = heap \ Scratch
      BY <1>1, <1>2, <1>3, <1>4, <2>1 DEF With
    <2>3. QED
      BY <1>1, <1>2, <1>4, <2>2, EarlyReturn DEF Status
  <1>5. CASE Complete(got, BufferNames)
    <2>1. /\ loc' = [loc EXCEPT !.ptr = Assigned(got, BufferNames)]
          /\ heap' = heap \cup Pointed(got, BufferNames)
          /\ pc' = "publish" /\ UNCHANGED ret
      BY <1>2, <1>5 DEF With
    <2>2. \A k \in BufferNames : got[k] \in Blocks
      BY <1>3, <1>5 DEF Complete
    <2>3. loc \in LocalsType /\ \A k \in BufferNames : loc.ptr[k] = Null
      BY <1>1 DEF Inv, Types, LocInv
    <2>4. /\ loc'.ptr = Assigned(got, BufferNames) /\ loc'.estimated = loc.estimated
          /\ loc'.c_nnz = loc.c_nnz /\ loc'.dims = loc.dims /\ loc'.algo = loc.algo
      BY <2>1, <2>3 DEF LocalsType
    <2>5. /\ BufferNames \in SUBSET LocalNames /\ "descr" \in LocalNames \ BufferNames
          /\ BufferNames \cap ScratchNames = {"workspace"}
          /\ BufferNames \cap ArrayNames = ArrayNames
      BY DEF LocalNames, ScratchNames, ArrayNames, BufferNames
    <2>6. /\ loc'.ptr \in [LocalNames -> Blocks \cup {Null}]
          /\ \A k \in BufferNames : loc'.ptr[k] = got[k]
          /\ \A k \in LocalNames \ BufferNames : loc'.ptr[k] = loc.ptr[k]
          /\ Scratch' = Scratch \cup Pointed(got, {"workspace"})
          /\ NewArrays' = Pointed(got, ArrayNames)
      <3>1. /\ loc'.ptr \in [LocalNames -> Blocks \cup {Null}]
            /\ \A k \in BufferNames : loc'.ptr[k] = got[k]
            /\ \A k \in LocalNames \ BufferNames : loc'.ptr[k] = loc.ptr[k]
            /\ Scratch' = Scratch \cup Pointed(got, BufferNames \cap ScratchNames)
            /\ NewArrays' = NewArrays \cup Pointed(got, BufferNames \cap ArrayNames)
        BY <1>3, <2>3, <2>4, <2>5, Stored
      <3>2. QED
        BY <1>1, <2>5, <3>1
    <2>7. loc' \in LocalsType
      BY <2>1, <2>3, <2>4, <2>6 DEF LocalsType
    <2>8. Types'
      BY <1>1, <1>3, <2>1, <2>7 DEF Inv, Types
    <2>9. HeapInv'
      <3>1. Pointed(got, BufferNames) = Pointed(got, {"workspace"}) \cup Pointed(got, ArrayNames)
        BY DEF Pointed, BufferNames, ArrayNames
      <3>2. Pointed(got, {"workspace"}) \cap Pointed(got, ArrayNames) = {}
        BY <1>3, <2>2 DEF Pointed, BufferNames, ArrayNames
      <3>3. heap = Scratch \cup Held /\ Held \cap Scratch = {}
        BY <1>1 DEF Inv, HeapInv
      <3>4. QED
        BY <1>1, <1>3, <2>1, <2>6, <3>1, <3>2, <3>3, StillRunning DEF HeapInv
    <2>10. LocInv'
      <3>1. Dims' = Dims /\ EstimateStatus' = EstimateStatus
        BY <1>1, <2>1, StillRunning DEF Dims, EstimateStatus
      <3>2. loc'.ptr["descr"] # Null /\ HasNumeric(loc'.algo)
        BY <1>1, <2>4, <2>5, <2>6 DEF Inv, LocInv
      <3>3. loc'.estimated /\ loc'.dims = Dims' /\ EstimateStatus' = "SUCCESS"
        BY <1>1, <2>4, <3>1 DEF Inv, LocInv
      <3>4. \A k \in BufferNames : loc'.ptr[k] \in Blocks
        BY <2>2, <2>6
      <3>5. \A k, j \in ArrayNames : loc'.ptr[k] = loc'.ptr[j] => k = j
        BY <1>3, <1>5, <2>5, <2>6 DEF Complete
      <3>6. QED
        BY <2>1, <3>2, <3>3, <3>4, <3>5 DEF LocInv, HasNumeric
    <2>11. QED
      BY <1>1, <2>1, <2>8, <2>9, <2>10, StillRunning DEF Inv
  <1>6. QED
    BY <1>4, <1>5

\* The struct that is published is well formed, and names the new arrays.
LEMMA PublishedMeans ==
    ASSUME Inv, pc \in {"publish", "compute"}
    PROVE  /\ Published \in MatrixType /\ Published.owns
           /\ \A f \in Fields : Published.ptr[f] \in Blocks
           /\ Arrays(Published) = NewArrays /\ OneName(Published)
           /\ Published.rows = A.rows /\ Published.cols = B.cols
           /\ Published.dtype = "FP32" /\ Published.nnz = loc.c_nnz
           /\ Published.last = loc.c_nnz
  <1> DEFINE ptr == [row_ptr |-> loc.ptr["c_row_ptr"], col_idx |-> loc.ptr["c_col_idx"],
                     values |-> loc.ptr["c_values"]]
  <1>1. /\ \A n \in ArrayNames : loc.ptr[n] \in Blocks
        /\ \A n, k \in ArrayNames : loc.ptr[n] = loc.ptr[k] => n = k
    BY DEF Inv, LocInv, ArrayNames, BufferNames
  <1>2. /\ Published.ptr = ptr /\ Published.owns = TRUE
        /\ Published.rows = A.rows /\ Published.cols = B.cols
        /\ Published.dtype = "FP32" /\ Published.nnz = loc.c_nnz
        /\ Published.last = loc.c_nnz /\ Published.form = "canonical"
    BY DEF Published
  <1>3. \A f \in Fields : ptr[f] \in Blocks
    BY <1>1 DEF Fields, ArrayNames
  <1>4. ptr \in [Fields -> Pointers]
    BY <1>3 DEF Fields, Pointers
  <1>5. A \in MatrixType /\ B \in MatrixType /\ loc.c_nnz \in Int
    BY DEF Inv, Types, CallInv, A, B, LocalsType
  <1>6. Published \in MatrixType
    BY <1>4, <1>5 DEF Published, MatrixType, Dtypes, Forms
  <1>7. Arrays(Published) = NewArrays
    BY <1>1, <1>2, OneShotAssumption DEF Arrays, NewArrays, Pointed, Fields, ArrayNames
  <1>8. OneName(Published)
    BY <1>1, <1>2 DEF OneName, Fields, ArrayNames
  <1>9. QED
    BY <1>2, <1>3, <1>6, <1>7, <1>8

LEMMA PublishStep ==
    ASSUME Inv, Publish
    PROVE  Inv'
  <1>1. /\ pc = "publish" /\ pc' = "compute" /\ UNCHANGED <<heap, call, loc, ret, before>>
        /\ mats' = [mats EXCEPT ![call.C] = Published]
    BY DEF Publish
  <1>2. /\ call.A \in Mats /\ call.B \in Mats /\ call.C \in Mats
        /\ call.C # call.A /\ call.C # call.B /\ ~mats[call.C].owns
    BY <1>1 DEF Inv, CallInv, C
  <1>3. /\ Published \in MatrixType /\ Published.owns
        /\ \A f \in Fields : Published.ptr[f] \in Blocks
        /\ Arrays(Published) = NewArrays /\ OneName(Published)
    BY <1>1, PublishedMeans
  <1>4. Arrays(mats[call.C]) = {} /\ Held \cap NewArrays = {}
    BY <1>1, <1>2, OwnsMeans DEF Inv, HeapInv
  <1>5. /\ \A m \in Mats : m # call.C => mats'[m] = mats[m]
        /\ mats'[call.C] = Published
        /\ Held' = Held \cup NewArrays /\ Injective'
    <2>1. Arrays(Published) \cap (Held \ Arrays(mats[call.C])) = {}
      BY <1>3, <1>4
    <2>2. /\ \A m \in Mats : m # call.C => mats'[m] = mats[m]
          /\ mats'[call.C] = Published
          /\ Held' = (Held \ Arrays(mats[call.C])) \cup Arrays(Published) /\ Injective'
      BY <1>1, <1>2, <1>3, <2>1, HeldChange DEF Inv
    <2>3. QED
      BY <1>3, <1>4, <2>2
  <1>6. A' = A /\ B' = B /\ C' = Published
    BY <1>1, <1>2, <1>5 DEF A, B, C
  <1>7. Published' = Published
    BY <1>1, <1>6 DEF Published
  <1>8. Types'
    BY <1>1, <1>2, <1>3 DEF Inv, Types
  <1>9. OwnsAll'
    BY <1>3, <1>5 DEF Inv, OwnsAll
  <1>10. HeapInv'
    <2>1. Scratch' = Scratch /\ NewArrays' = NewArrays
      BY <1>1 DEF Scratch, NewArrays
    <2>2. QED
      BY <1>1, <1>5, <2>1 DEF Inv, HeapInv
  <1>11. LocInv'
    <2>1. Dims' = Dims /\ EstimateStatus' = EstimateStatus
      BY <1>6 DEF Dims, EstimateStatus
    <2>2. QED
      BY <1>1, <2>1 DEF Inv, LocInv
  <1>12. CallInv'
    BY <1>1, <1>2, <1>5, <1>6, <1>7 DEF Inv, CallInv
  <1>13. OnlyCChanges' /\ SuccessIsEarned'
    BY <1>1 DEF OnlyCChanges, SuccessIsEarned
  <1>14. QED
    BY <1>5, <1>8, <1>9, <1>10, <1>11, <1>12, <1>13 DEF Inv

LEMMA ComputeSucceeds ==
    ASSUME Inv
    PROVE  ComputeCannotFail
  <1> SUFFICES ASSUME pc = "compute"
               PROVE  ComputeStatus = "SUCCESS"
    BY DEF ComputeCannotFail
  <1>1. /\ loc.ptr["descr"] # Null /\ loc.ptr["workspace"] # Null
        /\ loc.estimated /\ loc.dims = Dims /\ HasNumeric(loc.algo)
        /\ EstimateStatus = "SUCCESS"
    BY OneShotAssumption DEF Inv, LocInv, BufferNames
  <1>2. CheckOperand(A) = "SUCCESS" /\ CheckOperand(B) = "SUCCESS"
    BY <1>1 DEF EstimateStatus, Then
  <1>3. C = Published
    BY DEF Inv, CallInv
  <1>4. loc.dims[1] = A.rows /\ loc.dims[5] = B.cols
    BY <1>1 DEF Dims
  <1>5. /\ C.rows = A.rows /\ C.cols = B.cols /\ C.dtype = "FP32" /\ C.nnz = loc.c_nnz
        /\ \A f \in Fields : C.ptr[f] \in Blocks
    BY <1>3, PublishedMeans
  <1>6. ~Missing(C)
    BY <1>5, OneShotAssumption DEF Missing
  <1>7. ~(C.nnz < loc.c_nnz)
    BY <1>5 DEF Inv, Types, LocalsType
  <1>8. QED
    BY <1>1, <1>2, <1>4, <1>5, <1>6, <1>7 DEF ComputeStatus, Fail, Then

LEMMA ComputeStep ==
    ASSUME Inv, Compute
    PROVE  Inv'
  <1>1. ComputeStatus = "SUCCESS" /\ pc = "compute"
    BY ComputeSucceeds DEF ComputeCannotFail, Compute
  <1>2. /\ pc' = "idle" /\ loc' = NoLocals /\ ret' = "SUCCESS"
        /\ heap' = heap \ Scratch /\ UNCHANGED <<mats, call, before>>
    BY <1>1, PointersSet DEF Compute, Returns
  <1>3. Types'
    BY <1>2, NoLocalsMeans DEF Inv, Types, Status
  <1>4. C = Published /\ call.C \in Mats
    BY <1>1 DEF Inv, CallInv
  <1>5. HeapInv'
    <2>1. NewArrays \subseteq Held
      BY <1>1, <1>4, PublishedMeans DEF C, Held
    <2>2. heap' = Held'
      BY <1>2, <2>1, HeldSame DEF Inv, HeapInv
    <2>3. QED
      BY <1>2, <2>2, IdleAgain DEF HeapInv
  <1>6. OnlyCChanges'
    BY <1>1, <1>2 DEF Inv, CallInv, OnlyCChanges
  <1>7. SuccessIsEarned'
    <2>1. A' = A /\ B' = B /\ C' = C
      BY <1>2 DEF A, B, C
    <2>2. /\ V2Checks(A, B) = "SUCCESS" /\ EstimateStatus = "SUCCESS"
          /\ call.path.kind = "v2" /\ call.path.dtype = "FP32"
      BY <1>1 DEF Inv, CallInv, LocInv
    <2>3. CheckOperand(A) = "SUCCESS" /\ CheckOperand(B) = "SUCCESS"
      BY <2>2 DEF EstimateStatus, Then
    <2>4. /\ C.rows = A.rows /\ C.cols = B.cols /\ C.owns /\ C.dtype = "FP32"
          /\ C.nnz = C.last
      BY <1>1, <1>4, PublishedMeans
    <2>5. PathEarned(A, B, call.path)
      BY <2>2, <2>3, V2ChecksMean DEF PathEarned
    <2>6. ResultType(call.path.dtype) = "FP32"
      BY <2>2 DEF ResultType
    <2>7. QED
      BY <1>2, <2>1, <2>2, <2>4, <2>5, <2>6, V2ChecksMean DEF SuccessIsEarned
  <1>8. QED
    BY <1>2, <1>3, <1>5, <1>6, <1>7, HeldSame, IdleAgain DEF Inv

-------------------------------------------------------------------------------
(* The specification *)

LEMMA StepInv ==
    ASSUME Inv, [Next]_vars
    PROVE  Inv'
  <1>1. CASE Next
    BY <1>1, DestroyStep, CreateStep, BuildStep, CallRejectedStep, CallOldStep, CallV2Step,
       CreateDescrStep, SetAlgoStep, EstimateRefusedStep, EstimateFailsStep,
       EstimateSucceedsStep, AllocateStep, PublishStep, ComputeStep
    DEF Next
  <1>2. CASE UNCHANGED vars
    <2> USE <1>2 DEF vars
    <2>1. Types' /\ OwnsAll' /\ Injective' /\ Held' = Held
      BY HeldSame DEF Inv, Types
    <2>2. HeapInv'
      BY <2>1 DEF Inv, HeapInv, Scratch, NewArrays
    <2>3. A' = A /\ B' = B /\ C' = C /\ Published' = Published
          /\ Dims' = Dims /\ EstimateStatus' = EstimateStatus
      BY DEF A, B, C, Published, Dims, EstimateStatus
    <2>4. LocInv' /\ CallInv'
      BY <2>3 DEF Inv, LocInv, CallInv
    <2>5. OnlyCChanges' /\ SuccessIsEarned'
      BY <2>3 DEF Inv, OnlyCChanges, SuccessIsEarned
    <2>6. QED
      BY <2>1, <2>2, <2>4, <2>5 DEF Inv
  <1>3. QED
    BY <1>1, <1>2

\* Every state satisfies the invariant.
THEOREM SpecInv == Spec => []Inv
  BY InitInv, StepInv, PTL DEF Spec

\* rvsp_csr_create, rvsp_csr_destroy and rvsp_spgemm_csr keep every struct well
\* typed, and a struct names library arrays exactly when owns_data is set.
THEOREM Typed == Spec => []TypeOK
  <1>1. Inv => TypeOK
    BY DEF Inv, Types, OwnsAll, TypeOK
  <1>2. QED
    BY <1>1, SpecInv, PTL

\* Whichever of the mallocs fail and whatever the others return, each early
\* return frees by hand exactly what its call had: no block leaks, none is freed
\* while a matrix still names it, and no two pointers free the same one.
THEOREM BlocksOwned == Spec => []EveryBlockOwned
  <1>1. Inv => EveryBlockOwned
    <2> SUFFICES ASSUME Inv
                 PROVE  EveryBlockOwned
      OBVIOUS
    <2>1. Locals = Scratch \cup NewArrays
      BY DEF Locals, Scratch, NewArrays, Pointed, LocalNames, BufferNames, ScratchNames, ArrayNames
    <2>2. heap = Locals \cup Held
      BY <2>1 DEF Inv, HeapInv
    <2>3. \A m, o \in Mats, f, g \in Fields :
            mats[m].ptr[f] \in Blocks /\ mats[m].ptr[f] = mats[o].ptr[g] => m = o /\ f = g
      <3> SUFFICES ASSUME NEW m \in Mats, NEW o \in Mats, NEW f \in Fields, NEW g \in Fields,
                          mats[m].ptr[f] \in Blocks, mats[m].ptr[f] = mats[o].ptr[g]
                   PROVE  m = o /\ f = g
        OBVIOUS
      <3>1. mats[m].ptr[f] \in Arrays(mats[m]) /\ mats[m].ptr[f] \in Arrays(mats[o])
        BY DEF Arrays
      <3>2. m = o
        BY <3>1 DEF Inv, Injective
      <3>3. QED
        BY <3>2 DEF Inv, Injective, OneName
    <2>4. pc # "compute" => \A m \in Mats : Arrays(mats[m]) \cap Locals = {}
      BY <2>1 DEF Inv, HeapInv, Held
    <2>5. QED
      BY <2>2, <2>3, <2>4 DEF EveryBlockOwned, Held
  <1>2. QED
    BY <1>1, SpecInv, PTL

\* rvsp_spgemm_csr leaves all three matrices alone when it fails, and changes
\* only C when it succeeds.
THEOREM FailureChangesNothing == Spec => []OnlyCChanges
  <1>1. Inv => OnlyCChanges
    BY DEF Inv
  <1>2. QED
    BY <1>1, SpecInv, PTL

\* No path of the dispatch returns success without the checks of its own kind,
\* whatever the fields of the structs hold, those that rvsp_csr_validate would
\* refuse included: it says which of them each path still lets through.
THEOREM SuccessEarned == Spec => []SuccessIsEarned
  <1>1. Inv => SuccessIsEarned
    BY DEF Inv
  <1>2. QED
    BY <1>1, SpecInv, PTL

\* Every check of rvsp_spgemm_compute passes in the one-shot call, so that the
\* error path behind it is dead code.
THEOREM ComputeNeverFails == Spec => []ComputeCannotFail
  <1>1. Inv => ComputeCannotFail
    BY ComputeSucceeds
  <1>2. QED
    BY <1>1, SpecInv, PTL

===============================================================================
