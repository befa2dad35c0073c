-------------------------- MODULE SpgemmDescr_proofs --------------------------
(***************************************************************************)
(* Proofs about the two-phase API, for any number of descriptors, outputs, *)
(* addresses and operands.                                                 *)
(***************************************************************************)
EXTENDS SpgemmDescr, TLAPS

\* Two outputs never share a col_idx array.
OwnStorage ==
    \A c, o \in Outs : (out[c].col_idx # Null /\ out[c].col_idx = out[o].col_idx) => c = o

\* The inductive invariant.  TypeOK alone is not inductive: that live counts
\* with natural numbers needs HeapBalanced, and the room for a fill needs the count
\* in the descriptor to be the one of its structure.
IInv ==
    /\ TypeOK
    /\ HeapBalanced
    /\ StructureComplete
    /\ FillFitsStorage
    /\ OwnStorage

-------------------------------------------------------------------------------
(* Lemmas about the helpers *)

\* One block of each name in S.
Once(S) == [b \in Blocks |-> IF b \in S THEN 1 ELSE 0]

LEMMA OnceType ==
    ASSUME NEW S PROVE Once(S) \in [Blocks -> Nat]
  BY DEF Once, Blocks

\* Blocks that are not there yet can be allocated, those that are can be freed.
LEMMA AllocatedOnce ==
    ASSUME NEW S, NEW T, S \cap T = {} PROVE Allocated(Once(S), T) = Once(S \cup T)
  <1>. SUFFICES ASSUME NEW b \in Blocks
                PROVE  Once(S)[b] + (IF b \in T THEN 1 ELSE 0) = Once(S \cup T)[b]
    BY DEF Allocated, Once
  <1>. QED BY DEF Once

LEMMA FreedOnce ==
    ASSUME NEW S, NEW T, T \subseteq S PROVE Freed(Once(S), T) = Once(S \ T)
  <1>. SUFFICES ASSUME NEW b \in Blocks
                PROVE  Once(S)[b] - (IF b \in T THEN 1 ELSE 0) = Once(S \ T)[b]
    BY DEF Freed, Once
  <1>. QED BY DEF Once

LEMMA HeapOnce == HeapBalanced <=> \A h \in Handles : live[h] = Once(Reached(descr[h]))
  BY DEF HeapBalanced, Once

\* A step that gives one handle its blocks and leaves the others theirs.
LEMMA HeapOnceAfter ==
    ASSUME HeapBalanced, live \in [Handles -> [Blocks -> Nat]], NEW h \in Handles, NEW S,
           live' = [live EXCEPT ![h] = Once(S)],
           Reached(descr'[h]) = S,
           \A g \in Handles \ {h} : descr'[g] = descr[g]
    PROVE  HeapBalanced' /\ live' \in [Handles -> [Blocks -> Nat]]
  <1>1. \A g \in Handles : live'[g] = Once(Reached(descr'[g]))
    <2>. SUFFICES ASSUME NEW g \in Handles PROVE live'[g] = Once(Reached(descr'[g]))
      OBVIOUS
    <2>1. CASE g = h
      BY <2>1
    <2>2. CASE g # h
      BY <2>2, HeapOnce
    <2>. QED BY <2>1, <2>2
  <1>2. HeapBalanced'
    BY <1>1 DEF HeapBalanced, Once
  <1>. QED BY <1>2, OnceType

\* Once the old structure is freed and the new blocks are there.
LEMMA EstimateHeapOnce ==
    ASSUME HeapBalanced, NEW h \in Handles, ~descr[h].null,
           NEW got \in SUBSET EstimateBlocks
    PROVE  EstimateHeap(h, got) = Once({"descr"} \cup got)
  <1>1. live[h] = Once({"descr"} \cup StructureBlocks(descr[h]))
    BY DEF HeapBalanced, Once, Reached
  <1>2. Freed(live[h], StructureBlocks(descr[h])) = Once({"descr"})
    <2>1. ({"descr"} \cup StructureBlocks(descr[h])) \ StructureBlocks(descr[h]) = {"descr"}
      BY DEF StructureBlocks
    <2>. QED BY <1>1, <2>1, FreedOnce
  <1>3. {"descr"} \cap got = {}
    BY DEF EstimateBlocks
  <1>. QED BY <1>2, <1>3, AllocatedOnce DEF EstimateHeap

\* A chain of checks succeeds only when each of them does.
LEMMA ThenSucceeds ==
    ASSUME NEW s, NEW t, Then(s, t) = "SUCCESS" PROVE s = "SUCCESS" /\ t = "SUCCESS"
  BY DEF Then

LEMMA FailSucceeds ==
    ASSUME NEW b, NEW e, e # "SUCCESS", Fail(b, e) = "SUCCESS" PROVE ~b
  BY DEF Fail

LEMMA CheckOperandStatus ==
    ASSUME NEW M PROVE CheckOperand(M) \in Status
  BY DEF CheckOperand, Then, Fail, Status

\* What an analysis may rely on once its arguments passed.
LEMMA EstimateAccepted ==
    ASSUME NEW h, NEW A, NEW B, EstimateChecks(h, A, B) = "SUCCESS"
    PROVE  ~descr[h].null
  BY DEF EstimateChecks, Then, Fail

\* What compute may rely on once its arguments passed.
LEMMA ComputeAccepted ==
    ASSUME NEW h, NEW A, NEW B, NEW C, ComputeChecks(h, A, B, C) = "SUCCESS"
    PROVE  /\ ~descr[h].null /\ descr[h].estimated
           /\ Dims(A, B) = descr[h].dims
           /\ C.col_idx # Null
           /\ ~(C.nnz < descr[h].c_nnz)
  BY DEF ComputeChecks, OutChecks, Then, Fail

LEMMA ChecksStatus ==
    /\ \A h, algo : SetAlgoChecks(h, algo) \in Status
    /\ \A h, A, B : EstimateChecks(h, A, B) \in Status
    /\ \A h, A, B, C : ComputeChecks(h, A, B, C) \in Status
  <1>1. \A h, algo : SetAlgoChecks(h, algo) \in Status
    BY DEF SetAlgoChecks, Then, Fail, Status
  <1>2. \A h, A, B : EstimateChecks(h, A, B) \in Status
    BY CheckOperandStatus DEF EstimateChecks, Then, Fail, Status
  <1>3. \A D, C : OutChecks(D, C) \in Status
    BY DEF OutChecks, Then, Fail, Status
  <1>4. \A h, A, B, C : ComputeChecks(h, A, B, C) \in Status
    BY CheckOperandStatus, <1>3 DEF ComputeChecks, Then, Fail, Status
  <1>. QED BY <1>1, <1>2, <1>4

LEMMA PairProduct ==
    ASSUME NEW A \in LeftOperands, NEW B \in RightOperands
    PROVE  /\ Pair(A, B) \in Pairs
           /\ Pair(A, B) # Null
           /\ Product[Pair(A, B)] \in Structures
           /\ Product[Pair(A, B)] # Null
           /\ Nnz[Product[Pair(A, B)]] \in Nat
           /\ Dims(A, B) \in DimsType
  BY ConstantsAssumption DEF Pairs, Pair, Dims, DimsType, OperandType

LEMMA DiscardedFields ==
    ASSUME NEW D \in DescrType
    PROVE  /\ Discarded(D) \in DescrType
           /\ ~Discarded(D).null /\ ~Discarded(D).estimated
           /\ Discarded(D).c_row_ptr = Null
           /\ Discarded(D).op_counts = Null
           /\ Discarded(D).filled_into = Null
           /\ Discarded(D).algo = D.algo
  BY DEF Discarded, DescrType

LEMMA AnalyzedFields ==
    ASSUME NEW D \in DescrType, NEW A \in LeftOperands, NEW B \in RightOperands
    PROVE  /\ Analyzed(D, A, B) \in DescrType
           /\ ~Analyzed(D, A, B).null /\ Analyzed(D, A, B).estimated
           /\ Analyzed(D, A, B).op_counts = Pair(A, B)
           /\ Analyzed(D, A, B).c_row_ptr = Product[Pair(A, B)]
           /\ Analyzed(D, A, B).c_nnz = Nnz[Product[Pair(A, B)]]
           /\ Analyzed(D, A, B).filled_into = Null
           /\ Analyzed(D, A, B).algo = D.algo
  <1>. DEFINE d == Discarded(D)
  <1>. DEFINE p == Pair(A, B)
  <1>. DEFINE s == Product[p]
  <1>. DEFINE n == Nnz[s]
  <1>. DEFINE m == Dims(A, B)
  <1>1. d \in DescrType /\ ~d.null /\ d.filled_into = Null /\ d.algo = D.algo
    BY DiscardedFields
  <1>2. Analyzed(D, A, B) =
          [d EXCEPT !.c_row_ptr = s, !.op_counts = p, !.c_nnz = n, !.dims = m,
                    !.estimated = TRUE]
    BY DEF Analyzed
  <1>3. p \in Pairs /\ s \in Structures /\ n \in Nat /\ m \in DimsType
    BY PairProduct
  <1>. HIDE DEF d, p, s, n, m
  <1>4. Analyzed(D, A, B) =
          [null |-> d.null, algo |-> d.algo, estimated |-> TRUE, c_row_ptr |-> s,
           c_nnz |-> n, op_counts |-> p, filled_into |-> d.filled_into, dims |-> m]
    BY <1>1, <1>2 DEF DescrType
  <1>5. d.null \in {FALSE} /\ d.algo \in Algos /\ d.filled_into \in Addr \cup {Null}
    BY <1>1 DEF DescrType
  <1>6. \A x \in {FALSE}, y \in Algos, f \in Addr \cup {Null} :
            [null |-> x, algo |-> y, estimated |-> TRUE, c_row_ptr |-> s,
             c_nnz |-> n, op_counts |-> p, filled_into |-> f, dims |-> m] \in DescrType
    BY <1>3 DEF DescrType
  <1>7. Analyzed(D, A, B) \in DescrType
    BY <1>4, <1>5, <1>6
  <1>. QED BY <1>1, <1>4, <1>5, <1>7 DEF p, s, n

-------------------------------------------------------------------------------
(* Each action preserves IInv *)

LEMMA InitIInv == Init => IInv
  <1>. SUFFICES ASSUME Init PROVE IInv
    OBVIOUS
  <1>1. HeapBalanced
    BY DEF Init, HeapBalanced, NoBlocks, Reached, NoDescr
  <1>2. TypeOK
    BY ConstantsAssumption
       DEF Init, TypeOK, NoBlocks, Blocks, NoDescr, DescrType, OutType, StoreType, RetType,
           Unattached, Status, Dtypes
  <1>. QED BY <1>1, <1>2, ConstantsAssumption
           DEF Init, IInv, StructureComplete, FillFitsStorage, OwnStorage, NoDescr, Unattached

LEMMA CreateIInv ==
    ASSUME IInv, NEW h \in Handles, Create(h) PROVE IInv'
  <1>. USE DEF IInv
  <1>1. Calloced \in DescrType
    BY ConstantsAssumption DEF Calloced, DescrType, DimsType, Algos
  <1>a. live[h] = Once({})
    BY HeapOnce DEF Create, Reached
  <1>b. Allocated(live[h], {"descr"}) = Once({"descr"})
    <2>1. {} \cap {"descr"} = {} /\ {} \cup {"descr"} = {"descr"}
      OBVIOUS
    <2>. QED BY <1>a, <2>1, AllocatedOnce
  <1>c. Reached(Calloced) = {"descr"}
    BY DEF Reached, Calloced, StructureBlocks
  <1>d. /\ live' = [live EXCEPT ![h] = Once({"descr"})]
        /\ descr'[h] = Calloced
        /\ \A g \in Handles \ {h} : descr'[g] = descr[g]
    BY <1>b DEF Create, TypeOK
  <1>3. HeapBalanced' /\ live' \in [Handles -> [Blocks -> Nat]]
    BY <1>c, <1>d, HeapOnceAfter DEF TypeOK
  <1>2. TypeOK'
    BY <1>1, <1>3 DEF Create, TypeOK, NoDescr, Returns, RetType, Status
  <1>4. StructureComplete'
    BY DEF Create, TypeOK, StructureComplete, Calloced
  <1>5. FillFitsStorage' /\ OwnStorage'
    BY DEF Create, FillFitsStorage, OwnStorage
  <1>. QED BY <1>2, <1>3, <1>4, <1>5

LEMMA DestroyIInv ==
    ASSUME IInv, NEW h \in Handles, Destroy(h) PROVE IInv'
  <1>. USE DEF IInv
  <1>a. live[h] = Once({"descr"} \cup StructureBlocks(descr[h]))
    BY HeapOnce DEF Destroy, Reached
  <1>b. Freed(live[h], StructureBlocks(descr[h]) \cup {"descr"}) = Once({})
    <2>. DEFINE R == {"descr"} \cup StructureBlocks(descr[h])
    <2>1. StructureBlocks(descr[h]) \cup {"descr"} = R /\ R \subseteq R /\ R \ R = {}
      OBVIOUS
    <2>. QED BY <1>a, <2>1, FreedOnce
  <1>c. live' = [live EXCEPT ![h] = Once({})]
    BY <1>b DEF Destroy
  <1>d. /\ Reached(descr'[h]) = {}
        /\ \A g \in Handles \ {h} : descr'[g] = descr[g]
    BY DEF Destroy, TypeOK, NoDescr, Reached
  <1>2. HeapBalanced' /\ live' \in [Handles -> [Blocks -> Nat]]
    BY <1>c, <1>d, HeapOnceAfter DEF TypeOK
  <1>1. TypeOK'
    BY <1>2 DEF Destroy, TypeOK, NoDescr, Returns, RetType, Status
  <1>3. StructureComplete'
    BY DEF Destroy, TypeOK, StructureComplete, NoDescr
  <1>4. FillFitsStorage' /\ OwnStorage'
    BY DEF Destroy, FillFitsStorage, OwnStorage
  <1>. QED BY <1>1, <1>2, <1>3, <1>4

LEMMA SetAlgoIInv ==
    ASSUME IInv, NEW h \in Handles, NEW algo \in Algos, SetAlgo(h, algo) PROVE IInv'
  <1>. USE DEF IInv
  <1>1. ret' \in RetType
    BY ChecksStatus DEF SetAlgo, Returns, RetType
  <1>2. CASE descr' = descr
    BY <1>1, <1>2
       DEF SetAlgo, TypeOK, HeapBalanced, StructureComplete, FillFitsStorage, OwnStorage
  <1>3. CASE descr' # descr
    <2>. DEFINE D == [descr[h] EXCEPT !.algo = algo]
    <2>1. descr' = [descr EXCEPT ![h] = D] /\ ~descr[h].null
      BY <1>3 DEF SetAlgo, SetAlgoChecks, Then, Fail
    <2>a. descr[h] \in DescrType
      BY <2>1 DEF TypeOK, NoDescr
    <2>2. /\ descr[h] \in DescrType
          /\ descr'[h] = D
          /\ D \in DescrType
          /\ \A g \in Handles \ {h} : descr'[g] = descr[g]
      BY <2>1, <2>a DEF TypeOK, DescrType
    <2>3. TypeOK'
      BY <1>1, <2>1, <2>2 DEF SetAlgo, TypeOK
    <2>4. HeapBalanced' /\ StructureComplete'
      BY <2>2 DEF SetAlgo, HeapBalanced, Reached, StructureBlocks, StructureComplete, DescrType
    <2>. QED BY <2>3, <2>4 DEF SetAlgo, FillFitsStorage, OwnStorage
  <1>. QED BY <1>2, <1>3

LEMMA InvalidateIInv ==
    ASSUME IInv, NEW h \in Handles, InvalidateStructure(h) PROVE IInv'
  <1>. USE DEF IInv
  <1>1. ret' \in RetType
    BY DEF InvalidateStructure, Returns, RetType, Status
  <1>2. CASE descr[h].null
    BY <1>1, <1>2 DEF InvalidateStructure, TypeOK, HeapBalanced, StructureComplete,
                      FillFitsStorage, OwnStorage
  <1>3. CASE ~descr[h].null
    <2>. DEFINE D == [descr[h] EXCEPT !.filled_into = Null]
    <2>a. descr[h] \in DescrType
      BY <1>3 DEF TypeOK, NoDescr
    <2>b. descr' = [descr EXCEPT ![h] = D]
      BY <1>3 DEF InvalidateStructure
    <2>1. /\ descr[h] \in DescrType
          /\ descr'[h] = D
          /\ D \in DescrType
          /\ \A g \in Handles \ {h} : descr'[g] = descr[g]
      BY <2>a, <2>b DEF TypeOK, DescrType
    <2>2. TypeOK'
      BY <1>1, <2>1, <2>b DEF InvalidateStructure, TypeOK
    <2>3. HeapBalanced' /\ StructureComplete'
      BY <2>1 DEF InvalidateStructure, HeapBalanced, Reached, StructureBlocks,
                  StructureComplete, DescrType
    <2>. QED BY <2>2, <2>3 DEF InvalidateStructure, FillFitsStorage, OwnStorage
  <1>. QED BY <1>2, <1>3

\* A call that is rejected, or creates nothing, changes ret alone.
LEMMA RejectedIInv ==
    ASSUME IInv, ret' \in RetType, UNCHANGED <<descr, live, out, store, owed>>
    PROVE  IInv'
  BY DEF IInv, TypeOK, HeapBalanced, StructureComplete, FillFitsStorage, OwnStorage

LEMMA EstimateFailsIInv ==
    ASSUME IInv, NEW h \in Handles, NEW A, NEW B, EstimateFails(h, A, B) PROVE IInv'
  <1>. USE DEF IInv
  <1>1. /\ ~descr[h].null /\ descr[h] \in DescrType
        /\ descr'[h] = Discarded(descr[h])
        /\ \A g \in Handles \ {h} : descr'[g] = descr[g]
    BY EstimateAccepted
       DEF EstimateFails, EstimateOutOfMemory, EstimateOverflows, Discards, TypeOK, NoDescr
  <1>2. Discarded(descr[h]) \in DescrType
    BY <1>1, DiscardedFields
  <1>d. Discards(h)
    BY DEF EstimateFails, EstimateOutOfMemory, EstimateOverflows
  <1>a. live' = [live EXCEPT ![h] = Once({"descr"})]
    <2>1. CASE EstimateOutOfMemory(h, A, B)
      <3>1. PICK got \in SUBSET EstimateBlocks :
              live' = [live EXCEPT ![h] = Freed(EstimateHeap(h, got), FreedOutOfMemory \cap got)]
        BY <2>1 DEF EstimateOutOfMemory
      <3>2. /\ FreedOutOfMemory \cap got \subseteq {"descr"} \cup got
            /\ ({"descr"} \cup got) \ (FreedOutOfMemory \cap got) = {"descr"}
        BY DEF FreedOutOfMemory, EstimateBlocks
      <3>3. EstimateHeap(h, got) = Once({"descr"} \cup got)
        BY <1>1, EstimateHeapOnce
      <3>4. Freed(Once({"descr"} \cup got), FreedOutOfMemory \cap got) = Once({"descr"})
        BY ONLY <3>2, FreedOnce
      <3>. QED BY ONLY <3>1, <3>3, <3>4
    <2>2. CASE EstimateOverflows(h, A, B)
      <3>. DEFINE S == {"descr"} \cup EstimateBlocks
      <3>1. EstimateHeap(h, EstimateBlocks) = Once(S)
        BY <1>1, EstimateHeapOnce
      <3>2. /\ {"count_ws"} \subseteq S
            /\ FreedOnOverflow \subseteq S \ {"count_ws"}
            /\ (S \ {"count_ws"}) \ FreedOnOverflow = {"descr"}
        BY DEF FreedOnOverflow, EstimateBlocks
      <3>. HIDE DEF S
      <3>. QED BY <2>2, <3>1, <3>2, FreedOnce DEF EstimateOverflows
    <2>. QED BY <2>1, <2>2 DEF EstimateFails
  <1>b. Reached(Discarded(descr[h])) = {"descr"}
    BY <1>1, DiscardedFields DEF Reached, StructureBlocks
  <1>4. HeapBalanced' /\ live' \in [Handles -> [Blocks -> Nat]]
    BY <1>1, <1>a, <1>b, HeapOnceAfter DEF TypeOK
  <1>3. TypeOK'
    BY <1>1, <1>2, <1>4, <1>d DEF Discards, TypeOK, Returns, RetType, Status
  <1>5. StructureComplete'
    BY <1>1, DiscardedFields DEF StructureComplete
  <1>. QED BY <1>3, <1>4, <1>5, <1>d DEF Discards, FillFitsStorage, OwnStorage

LEMMA EstimateSucceedsIInv ==
    ASSUME IInv, NEW h \in Handles, NEW A \in LeftOperands, NEW B \in RightOperands,
           EstimateSucceeds(h, A, B)
    PROVE  IInv'
  <1>. USE DEF IInv
  <1>1. /\ ~descr[h].null /\ descr[h] \in DescrType
        /\ descr'[h] = Analyzed(descr[h], A, B)
        /\ \A g \in Handles \ {h} : descr'[g] = descr[g]
    BY EstimateAccepted DEF EstimateSucceeds, TypeOK, NoDescr
  <1>2. Analyzed(descr[h], A, B) \in DescrType
    BY <1>1, AnalyzedFields
  <1>a. live' = [live EXCEPT ![h] = Once({"descr", "c_row_ptr", "op_counts"})]
    <2>. DEFINE S == {"descr"} \cup EstimateBlocks
    <2>1. EstimateHeap(h, EstimateBlocks) = Once(S)
      BY <1>1, EstimateHeapOnce
    <2>2. {"count_ws"} \subseteq S /\ S \ {"count_ws"} = {"descr", "c_row_ptr", "op_counts"}
      BY DEF EstimateBlocks
    <2>. HIDE DEF S
    <2>. QED BY <2>1, <2>2, FreedOnce DEF EstimateSucceeds
  <1>b. Reached(Analyzed(descr[h], A, B)) = {"descr", "c_row_ptr", "op_counts"}
    BY <1>1, AnalyzedFields, PairProduct DEF Reached, StructureBlocks
  <1>4. HeapBalanced' /\ live' \in [Handles -> [Blocks -> Nat]]
    BY <1>1, <1>a, <1>b, HeapOnceAfter DEF TypeOK
  <1>3. TypeOK'
    BY <1>1, <1>2, <1>4 DEF EstimateSucceeds, TypeOK, Returns, RetType, Status
  <1>5. StructureComplete'
    BY <1>1, AnalyzedFields, PairProduct DEF EstimateSucceeds, StructureComplete
  <1>. QED BY <1>3, <1>4, <1>5 DEF EstimateSucceeds, FillFitsStorage, OwnStorage

\* What compute reads and writes when it succeeds, with its skipped fill and
\* its done one told apart.
Computes(h, c, a, s) ==
    /\ h \notin owed
    /\ descr[h] \in DescrType
    /\ ~descr[h].null /\ descr[h].estimated
    /\ descr[h].c_row_ptr = s
    /\ descr[h].c_nnz = Nnz[s]
    /\ Nnz[s] <= out[c].nnz
    /\ s \in Structures /\ Nnz[s] \in Nat
    /\ out[c] \in OutType /\ out[c].col_idx = a
    /\ a \in Addr /\ a # Null
    /\ out' = [out EXCEPT ![c] = [out[c] EXCEPT !.row_ptr = s, !.nnz = Nnz[s]]]
    /\ live' = live

Skips(h, a) ==
    /\ descr[h].filled_into = a
    /\ UNCHANGED <<store, descr, owed>>

Fills(h, a, s) ==
    /\ descr[h].filled_into # a
    /\ store' = [store EXCEPT ![a] = [store[a] EXCEPT !.holds = s]]
    /\ descr' = [descr EXCEPT ![h] = [descr[h] EXCEPT !.filled_into = a]]
    /\ owed' = IF TracksSharing THEN owed \cup Sharing(h, a) ELSE owed

LEMMA ComputeEffect ==
    ASSUME IInv, NEW h \in Handles, NEW A \in LeftOperands, NEW B \in RightOperands,
           NEW c \in Outs, ComputeSucceeds(h, A, B, c)
    PROVE  /\ Computes(h, c, out[c].col_idx, Product[Pair(A, B)])
           /\ descr[h].op_counts = Pair(A, B)
           /\ \/ Skips(h, out[c].col_idx)
              \/ Fills(h, out[c].col_idx, Product[Pair(A, B)])
  <1>. DEFINE a == out[c].col_idx
  <1>. DEFINE s == Product[Pair(A, B)]
  <1>. USE DEF IInv
  <1>1. /\ ~descr[h].null /\ descr[h].estimated
        /\ Dims(A, B) = descr[h].dims
        /\ a # Null
        /\ ~(out[c].nnz < descr[h].c_nnz)
    BY ComputeAccepted DEF ComputeSucceeds
  <1>2. h \notin owed /\ descr[h].op_counts = Pair(A, B)
    BY <1>1 DEF ComputeSucceeds, MayCompute
  <1>3. descr[h] \in DescrType /\ out[c] \in OutType
    BY <1>1 DEF TypeOK, NoDescr
  <1>4. descr[h].c_row_ptr = s /\ descr[h].c_nnz = Nnz[s]
    BY <1>1, <1>2 DEF StructureComplete
  <1>5. s \in Structures /\ Nnz[s] \in Nat
    BY PairProduct
  <1>6. Nnz[s] <= out[c].nnz /\ a \in Addr
    BY <1>1, <1>3, <1>4, <1>5 DEF OutType
  <1>7. out' = [out EXCEPT ![c] = [out[c] EXCEPT !.row_ptr = s, !.nnz = Nnz[s]]]
    BY <1>3, <1>4 DEF ComputeSucceeds, TypeOK
  <1>8. Skips(h, a) \/ Fills(h, a, s)
    BY DEF ComputeSucceeds, NeedsFill, Fill, Skips, Fills
  <1>9. live' = live
    BY DEF ComputeSucceeds
  <1>. QED BY <1>1, <1>2, <1>3, <1>4, <1>5, <1>6, <1>7, <1>8, <1>9
       DEF Computes

LEMMA ComputeSucceedsIInv ==
    ASSUME IInv, NEW h \in Handles, NEW A \in LeftOperands, NEW B \in RightOperands,
           NEW c \in Outs, ComputeSucceeds(h, A, B, c)
    PROVE  IInv'
  <1>. DEFINE a == out[c].col_idx
  <1>. DEFINE s == Product[Pair(A, B)]
  <1>. DEFINE C == [out[c] EXCEPT !.row_ptr = s, !.nnz = Nnz[s]]
  <1>. DEFINE D == [descr[h] EXCEPT !.filled_into = a]
  <1>. DEFINE S == [store[a] EXCEPT !.holds = s]
  <1>. USE DEF IInv
  <1>1. /\ Computes(h, c, a, s)
        /\ Skips(h, a) \/ Fills(h, a, s)
    BY ComputeEffect
  <1>. HIDE DEF a, s
  <1>2. C \in OutType /\ C.col_idx = a /\ C.nnz = Nnz[s]
    BY <1>1 DEF Computes, OutType
  <1>3. /\ D \in DescrType /\ ~D.null /\ D.estimated
        /\ D.c_row_ptr = descr[h].c_row_ptr /\ D.op_counts = descr[h].op_counts
        /\ D.c_nnz = descr[h].c_nnz
    BY <1>1 DEF Computes, DescrType
  <1>4. S \in StoreType /\ S.holds = s /\ S.cap = store[a].cap
    BY <1>1 DEF Computes, TypeOK, StoreType
  <1>5. ret' \in RetType
    BY <1>1 DEF ComputeSucceeds, Computes, RetType, Status, s
  <1>6. owed' \subseteq Handles
    BY <1>1 DEF Skips, Fills, TypeOK, Sharing
  <1>7. /\ out' = [out EXCEPT ![c] = C] /\ live' = live
        /\ store' = store \/ store' = [store EXCEPT ![a] = S]
        /\ descr' = descr \/ descr' = [descr EXCEPT ![h] = D]
    BY <1>1 DEF Computes, Skips, Fills
  <1>8. a \in Addr /\ ~descr[h].null /\ descr[h].estimated
    BY <1>1 DEF Computes
  <1>. HIDE DEF C, D, S
  <1>9. TypeOK'
    BY <1>2, <1>3, <1>4, <1>5, <1>6, <1>7 DEF TypeOK
  <1>a. \A g \in Handles : Reached(descr'[g]) = Reached(descr[g])
    BY <1>3, <1>7, <1>8 DEF Reached, StructureBlocks, TypeOK
  <1>b. HeapBalanced'
    BY <1>7, <1>a DEF HeapBalanced
  <1>10. HeapBalanced' /\ StructureComplete'
    BY <1>3, <1>7, <1>8, <1>b DEF StructureComplete, TypeOK
  <1>11. FillFitsStorage'
    <2>1. out[c].nnz <= store[a].cap
      BY <1>1 DEF FillFitsStorage, Computes
    <2>2. Nnz[s] <= store[a].cap
      BY <1>1, <2>1 DEF Computes, OutType, TypeOK, StoreType
    <2>3. \A x \in Addr : store'[x].cap = store[x].cap
      BY <1>4, <1>7 DEF TypeOK
    <2>4. \A x \in Addr : store'[x].holds = store[x].holds \/ (x = a /\ store'[x].holds = s)
      BY <1>4, <1>7 DEF TypeOK
    <2>5. \A o \in Outs : o # c => out'[o] = out[o]
      BY <1>7 DEF TypeOK
    <2>6. out'[c] = C
      BY <1>7 DEF TypeOK
    <2>7. \A o \in Outs : out'[o].col_idx # Null => out'[o].nnz <= store'[out'[o].col_idx].cap
      <3>1. \A o \in Outs : out[o].col_idx \in Addr \cup {Null}
        BY DEF TypeOK, OutType
      <3>. QED BY <1>2, <1>8, <2>2, <2>3, <2>5, <2>6, <3>1 DEF FillFitsStorage
    <2>8. \A x \in Addr : store'[x].holds # Garbage => Nnz[store'[x].holds] <= store'[x].cap
      BY <2>2, <2>3, <2>4 DEF FillFitsStorage
    <2>. QED BY <2>7, <2>8 DEF FillFitsStorage
  <1>12. OwnStorage'
    <2>1. \A o \in Outs : out'[o].col_idx = out[o].col_idx
      BY <1>1, <1>2, <1>7 DEF TypeOK, Computes
    <2>. QED BY <2>1 DEF OwnStorage
  <1>. QED BY <1>9, <1>10, <1>11, <1>12

LEMMA ReplaceStorageIInv ==
    ASSUME IInv, NEW c \in Outs, NEW a \in Addr, NEW cap \in Capacities,
           NEW shape \in OutShapes, ReplaceStorage(c, a, cap, shape)
    PROVE  IInv'
  <1>. DEFINE C == [rows |-> shape[1], cols |-> shape[2], dtype |-> shape[3],
                    nnz |-> cap, row_ptr |-> Garbage, col_idx |-> a]
  <1>. DEFINE S == [holds |-> Garbage, cap |-> cap]
  <1>. USE DEF IInv
  <1>1. C \in OutType /\ S \in StoreType
    BY ConstantsAssumption DEF OutType, StoreType
  <1>2. /\ out' = [out EXCEPT ![c] = C]
        /\ store' = [store EXCEPT ![a] = S]
        /\ \A o \in Outs \ {c} : out[o].col_idx # a
        /\ UNCHANGED <<descr, live>>
    BY DEF ReplaceStorage
  <1>3. TypeOK'
    BY <1>1, <1>2 DEF ReplaceStorage, TypeOK, Returns, RetType, Status
  <1>4. HeapBalanced' /\ StructureComplete'
    BY <1>2 DEF HeapBalanced, StructureComplete
  <1>5. cap \in Nat /\ cap <= cap
    BY ConstantsAssumption
  <1>6. FillFitsStorage'
    BY <1>2, <1>5 DEF FillFitsStorage, TypeOK
  <1>7. OwnStorage'
    BY <1>2 DEF OwnStorage, TypeOK
  <1>. QED BY <1>3, <1>4, <1>6, <1>7

LEMMA NextIInv == IInv /\ [Next]_vars => IInv'
  <1>. SUFFICES ASSUME IInv, [Next]_vars PROVE IInv'
    OBVIOUS
  <1>1. CASE UNCHANGED vars
    BY <1>1 DEF vars, IInv, TypeOK, HeapBalanced, StructureComplete, FillFitsStorage, OwnStorage
  <1>2. ASSUME NEW h \in Handles, Call(h) PROVE IInv'
    <2>1. CASE Create(h) BY <2>1, CreateIInv
    <2>2. CASE CreateOutOfMemory(h)
      BY <2>2, RejectedIInv DEF CreateOutOfMemory, Returns, RetType, Status
    <2>3. CASE Destroy(h) BY <2>3, DestroyIInv
    <2>4. CASE \E algo \in Algos : SetAlgo(h, algo) BY <2>4, SetAlgoIInv
    <2>5. CASE InvalidateStructure(h) BY <2>5, InvalidateIInv
    <2>6. ASSUME NEW A \in LeftOperands, NEW B \in RightOperands,
                 \/ EstimateRejected(h, A, B)
                 \/ EstimateFails(h, A, B)
                 \/ EstimateSucceeds(h, A, B)
                 \/ \E c \in Outs : ComputeRejected(h, A, B, c) \/ ComputeSucceeds(h, A, B, c)
          PROVE  IInv'
      <3>1. CASE EstimateRejected(h, A, B)
        BY <3>1, RejectedIInv, ChecksStatus DEF EstimateRejected, Returns, RetType
      <3>2. CASE EstimateFails(h, A, B) BY <3>2, EstimateFailsIInv
      <3>3. CASE EstimateSucceeds(h, A, B) BY <3>3, EstimateSucceedsIInv
      <3>4. ASSUME NEW c \in Outs, ComputeRejected(h, A, B, c) PROVE IInv'
        BY <3>4, RejectedIInv, ChecksStatus DEF ComputeRejected, Returns, RetType
      <3>5. ASSUME NEW c \in Outs, ComputeSucceeds(h, A, B, c) PROVE IInv'
        BY <3>5, ComputeSucceedsIInv
      <3>. QED BY <2>6, <3>1, <3>2, <3>3, <3>4, <3>5
    <2>7. ASSUME NEW n \in CountLengths, GetOpCounts(h, n) PROVE IInv'
      <3>1. ret' \in RetType
        BY <2>7 DEF GetOpCounts, Returns, RetType, Then, Fail, Status
      <3>. QED BY <2>7, <3>1, RejectedIInv DEF GetOpCounts
    <2>. QED BY <1>2, <2>1, <2>2, <2>3, <2>4, <2>5, <2>6, <2>7 DEF Call
  <1>3. ASSUME NEW c \in Outs, NEW a \in Addr, NEW cap \in Capacities, NEW shape \in OutShapes,
               ReplaceStorage(c, a, cap, shape)
        PROVE  IInv'
    BY <1>3, ReplaceStorageIInv
  <1>. QED BY <1>1, <1>2, <1>3 DEF Next

\* TypeOK holds in every reachable state, whatever the operands and however
\* many descriptors share an address (src/core/spgemm_descr.c, all calls).
THEOREM TypeCorrect == Spec => []TypeOK
  BY InitIInv, NextIInv, PTL DEF Spec, IInv

\* No sequence of estimates, failed estimates and destroys leaks a block or
\* frees one twice (rvsp_spgemm_work_estimation, rvsp_spgemm_descr_destroy).
THEOREM HeapIsBalanced == Spec => []HeapBalanced
  BY InitIInv, NextIInv, PTL DEF Spec, IInv

\* A failed estimate leaves no half of a structure behind.
THEOREM StructureIsComplete == Spec => []StructureComplete
  BY InitIInv, NextIInv, PTL DEF Spec, IInv

\* compute never writes past the caller's arrays, even when the output was
\* filled by other descriptors or for another pattern before.
THEOREM FillsFit == Spec => []FillFitsStorage
  BY InitIInv, NextIInv, PTL DEF Spec, IInv

-------------------------------------------------------------------------------
(* No descriptor carries a strategy the build lacks *)

Gated == \A h \in Handles : ~descr[h].null => HasNumeric(descr[h].algo)

LEMMA KeepsGated ==
    ASSUME Gated, NEW h \in Handles, \A g \in Handles \ {h} : descr'[g] = descr[g],
           descr'[h].null \/ HasNumeric(descr'[h].algo)
    PROVE  Gated'
  <1>1. ASSUME NEW g \in Handles, ~descr'[g].null PROVE HasNumeric(descr'[g].algo)
    BY <1>1 DEF Gated
  <1>. QED BY <1>1 DEF Gated, HasNumeric

\* With the strategy available, the last of compute's checks cannot fail and
\* no other gives its error.
LEMMA StrategyAccepted ==
    ASSUME Gated, NEW h \in Handles, NEW A, NEW B, NEW C
    PROVE  ComputeChecks(h, A, B, C) # "UNSUPPORTED_BACKEND"
  <1>1. \A M : CheckOperand(M) # "UNSUPPORTED_BACKEND"
    BY DEF CheckOperand, Then, Fail
  <1>2. OutChecks(descr[h], C) # "UNSUPPORTED_BACKEND"
    BY DEF OutChecks, Then, Fail
  <1>3. descr[h].null \/ HasNumeric(descr[h].algo)
    BY DEF Gated
  <1>. QED BY <1>1, <1>2, <1>3 DEF ComputeChecks, Then, Fail

LEMMA NextBackend == IInv /\ BackendResolved /\ [Next]_vars => BackendResolved'
  <1>. SUFFICES ASSUME IInv, BackendResolved, [Next]_vars PROVE BackendResolved'
    OBVIOUS
  <1>0. Gated /\ (Gated' /\ (ret'.op # "compute" \/ ret'.status # "UNSUPPORTED_BACKEND")
                    => BackendResolved')
    BY DEF Gated, BackendResolved
  <1>1. CASE UNCHANGED vars
    BY <1>1 DEF vars, BackendResolved
  <1>2. ASSUME NEW h \in Handles, Call(h) PROVE BackendResolved'
    <2>a. UNCHANGED descr => Gated'
      BY <1>0 DEF Gated
    <2>b. ~descr[h].null => descr[h] \in DescrType
      BY DEF IInv, TypeOK, NoDescr
    <2>1. CASE Create(h)
      <3>1. HasNumeric(Calloced.algo)
        BY DEF Calloced, HasNumeric
      <3>2. descr'[h] = Calloced /\ \A g \in Handles \ {h} : descr'[g] = descr[g]
        BY <2>1 DEF Create, IInv, TypeOK
      <3>. QED BY <1>0, <2>1, <3>1, <3>2, KeepsGated DEF Create, Returns
    <2>2. CASE CreateOutOfMemory(h)
      BY <1>0, <2>2, <2>a DEF CreateOutOfMemory, Returns
    <2>3. CASE Destroy(h)
      <3>1. descr'[h].null /\ \A g \in Handles \ {h} : descr'[g] = descr[g]
        BY <2>3 DEF Destroy, NoDescr, IInv, TypeOK
      <3>. QED BY <1>0, <2>3, <3>1, KeepsGated DEF Destroy, Returns
    <2>4. ASSUME NEW algo \in Algos, SetAlgo(h, algo) PROVE BackendResolved'
      <3>. DEFINE D == [descr[h] EXCEPT !.algo = algo]
      <3>1. ret'.op # "compute"
        BY <2>4 DEF SetAlgo, Returns
      <3>2. CASE SetAlgoChecks(h, algo) # "SUCCESS"
        BY <1>0, <2>4, <2>a, <3>1, <3>2 DEF SetAlgo
      <3>3. CASE SetAlgoChecks(h, algo) = "SUCCESS"
        <4>1. ~descr[h].null /\ HasNumeric(algo) /\ descr' = [descr EXCEPT ![h] = D]
          BY <2>4, <3>3 DEF SetAlgo, SetAlgoChecks, Then, Fail
        <4>2. D.algo = algo
          BY <2>b, <4>1 DEF DescrType
        <4>. HIDE DEF D
        <4>3. descr'[h] = D /\ \A g \in Handles \ {h} : descr'[g] = descr[g]
          BY <4>1 DEF IInv, TypeOK
        <4>. QED BY <1>0, <3>1, <4>1, <4>2, <4>3, KeepsGated
      <3>. QED BY <3>2, <3>3
    <2>5. CASE InvalidateStructure(h)
      <3>. DEFINE D == [descr[h] EXCEPT !.filled_into = Null]
      <3>1. CASE descr[h].null
        BY <1>0, <2>5, <2>a, <3>1 DEF InvalidateStructure, Returns
      <3>2. CASE ~descr[h].null
        <4>1. D.algo = descr[h].algo /\ descr' = [descr EXCEPT ![h] = D]
          BY <2>5, <2>b, <3>2 DEF DescrType, InvalidateStructure
        <4>. HIDE DEF D
        <4>2. descr'[h] = D /\ \A g \in Handles \ {h} : descr'[g] = descr[g]
          BY <4>1 DEF IInv, TypeOK
        <4>3. HasNumeric(D.algo)
          BY <1>0, <3>2, <4>1 DEF Gated
        <4>. QED BY <1>0, <2>5, <4>2, <4>3, KeepsGated DEF InvalidateStructure, Returns
      <3>. QED BY <3>1, <3>2
    <2>6. ASSUME NEW A \in LeftOperands, NEW B \in RightOperands,
                 \/ EstimateRejected(h, A, B)
                 \/ EstimateFails(h, A, B)
                 \/ EstimateSucceeds(h, A, B)
                 \/ \E c \in Outs : ComputeRejected(h, A, B, c) \/ ComputeSucceeds(h, A, B, c)
          PROVE  BackendResolved'
      <3>1. CASE EstimateRejected(h, A, B)
        BY <1>0, <2>a, <3>1 DEF EstimateRejected, Returns
      <3>2. CASE EstimateFails(h, A, B)
        <4>1. ~descr[h].null
          BY <3>2, EstimateAccepted DEF EstimateFails, EstimateOutOfMemory, EstimateOverflows,
                   Discards
        <4>2. descr'[h] = Discarded(descr[h]) /\ \A g \in Handles \ {h} : descr'[g] = descr[g]
          BY <3>2 DEF EstimateFails, EstimateOutOfMemory, EstimateOverflows,
                   Discards, IInv, TypeOK
        <4>3. HasNumeric(descr'[h].algo)
          BY <1>0, <2>b, <4>1, <4>2, DiscardedFields DEF Gated
        <4>. QED BY <1>0, <3>2, <4>2, <4>3, KeepsGated DEF EstimateFails, EstimateOutOfMemory, EstimateOverflows,
                   Discards, Returns
      <3>3. CASE EstimateSucceeds(h, A, B)
        <4>1. ~descr[h].null
          BY <3>3, EstimateAccepted DEF EstimateSucceeds
        <4>2. /\ descr'[h] = Analyzed(descr[h], A, B)
              /\ \A g \in Handles \ {h} : descr'[g] = descr[g]
          BY <3>3 DEF EstimateSucceeds, IInv, TypeOK
        <4>3. HasNumeric(descr'[h].algo)
          BY <1>0, <2>b, <4>1, <4>2, AnalyzedFields DEF Gated
        <4>. QED BY <1>0, <3>3, <4>2, <4>3, KeepsGated DEF EstimateSucceeds, Returns
      <3>4. ASSUME NEW c \in Outs, ComputeRejected(h, A, B, c) PROVE BackendResolved'
        <4>1. Gated' /\ ret'.status = ComputeChecks(h, A, B, out[c])
          BY <2>a, <3>4 DEF ComputeRejected, Returns
        <4>. QED BY <1>0, <4>1, StrategyAccepted
      <3>5. ASSUME NEW c \in Outs, ComputeSucceeds(h, A, B, c) PROVE BackendResolved'
        <4>. DEFINE D == [descr[h] EXCEPT !.filled_into = out[c].col_idx]
        <4>1. ret'.status # "UNSUPPORTED_BACKEND" /\ ~descr[h].null
          BY <3>5, ComputeAccepted DEF ComputeSucceeds
        <4>2. D.algo = descr[h].algo
          BY <2>b, <4>1 DEF DescrType
        <4>3. UNCHANGED descr \/ descr' = [descr EXCEPT ![h] = D]
          BY <3>5 DEF ComputeSucceeds, Fill
        <4>. HIDE DEF D
        <4>4. ASSUME descr' = [descr EXCEPT ![h] = D] PROVE Gated'
          <5>1. descr'[h] = D /\ \A g \in Handles \ {h} : descr'[g] = descr[g]
            BY <4>4 DEF IInv, TypeOK
          <5>2. HasNumeric(D.algo)
            BY <1>0, <4>1, <4>2 DEF Gated
          <5>. QED BY <1>0, <5>1, <5>2, KeepsGated
        <4>. QED BY <1>0, <2>a, <4>1, <4>3, <4>4
      <3>. QED BY <2>6, <3>1, <3>2, <3>3, <3>4, <3>5
    <2>7. ASSUME NEW n \in CountLengths, GetOpCounts(h, n) PROVE BackendResolved'
      BY <1>0, <2>7, <2>a DEF GetOpCounts, Returns
    <2>. QED BY <1>2, <2>1, <2>2, <2>3, <2>4, <2>5, <2>6, <2>7 DEF Call
  <1>3. ASSUME NEW c \in Outs, NEW a \in Addr, NEW cap \in Capacities, NEW shape \in OutShapes,
               ReplaceStorage(c, a, cap, shape)
        PROVE  BackendResolved'
    BY <1>0, <1>3 DEF ReplaceStorage, Returns, Gated
  <1>. QED BY <1>1, <1>2, <1>3 DEF Next

\* Whatever was estimated, refused and re-estimated before, compute never meets
\* a strategy the build lacks (rvsp_spgemm_set_algo is the only way in).
THEOREM StrategyIsAvailable == Spec => []BackendResolved
  <1>1. Init => IInv /\ BackendResolved
    BY InitIInv DEF Init, BackendResolved, NoDescr
  <1>. QED BY <1>1, NextIInv, NextBackend, PTL DEF Spec

-------------------------------------------------------------------------------
(* The cache of column indices is sound when the caller tracks sharing *)

LEMMA FilledIntoAddr ==
    ASSUME TypeOK, NEW g \in Handles, ~descr[g].null
    PROVE  descr[g] \in DescrType /\ descr[g].filled_into \in Addr \cup {Null}
  <1>1. descr[g] \in DescrType
    BY DEF TypeOK, NoDescr
  <1>. QED BY <1>1 DEF DescrType

LEMMA ResetKeepsCache ==
    ASSUME IInv, CacheSound, NEW h \in Handles, UNCHANGED store, owed \subseteq owed' \cup {h},
           \A g \in Handles \ {h} : descr'[g] = descr[g],
           descr'[h].null \/ descr'[h].filled_into = Null
    PROVE  CacheSound'
  BY DEF CacheSound

LEMMA SetAlgoCache ==
    ASSUME IInv, CacheSound, NEW h \in Handles, NEW algo \in Algos, SetAlgo(h, algo)
    PROVE  CacheSound'
  <1>. DEFINE D == [descr[h] EXCEPT !.algo = algo]
  <1>1. CASE descr' = descr
    BY <1>1 DEF SetAlgo, CacheSound
  <1>2. CASE descr' # descr
    <2>1. descr' = [descr EXCEPT ![h] = D] /\ ~descr[h].null
      BY <1>2 DEF SetAlgo, SetAlgoChecks, Then, Fail
    <2>2. descr[h] \in DescrType
      BY <2>1 DEF IInv, TypeOK, NoDescr
    <2>3. D.filled_into = descr[h].filled_into /\ D.c_row_ptr = descr[h].c_row_ptr /\ ~D.null
      BY <2>1, <2>2 DEF DescrType
    <2>. HIDE DEF D
    <2>4. descr'[h] = D /\ \A g \in Handles \ {h} : descr'[g] = descr[g]
      BY <2>1 DEF IInv, TypeOK
    <2>. QED BY <2>1, <2>3, <2>4 DEF SetAlgo, CacheSound
  <1>. QED BY <1>1, <1>2

LEMMA ComputeCache ==
    ASSUME IInv, CacheSound, TracksSharing, NEW h \in Handles,
           NEW A \in LeftOperands, NEW B \in RightOperands, NEW c \in Outs,
           ComputeSucceeds(h, A, B, c)
    PROVE  CacheSound' /\ store'[out[c].col_idx].holds = Product[Pair(A, B)]
  <1>. DEFINE a == out[c].col_idx
  <1>. DEFINE s == Product[Pair(A, B)]
  <1>1. Computes(h, c, a, s) /\ (Skips(h, a) \/ Fills(h, a, s))
    BY ComputeEffect
  <1>. HIDE DEF a, s
  <1>2. CASE Skips(h, a)
    BY <1>1, <1>2 DEF Skips, Computes, CacheSound, a, s
  <1>3. CASE Fills(h, a, s)
    <2>. DEFINE D == [descr[h] EXCEPT !.filled_into = a]
    <2>. DEFINE S == [store[a] EXCEPT !.holds = s]
    <2>1. D.filled_into = a /\ D.c_row_ptr = s /\ S.holds = s
      BY <1>1 DEF Computes, DescrType, IInv, TypeOK, StoreType
    <2>2. /\ descr' = [descr EXCEPT ![h] = D]
          /\ store' = [store EXCEPT ![a] = S]
          /\ owed' = owed \cup Sharing(h, a)
      BY <1>3 DEF Fills
    <2>. HIDE DEF D, S
    <2>3. /\ descr'[h] = D /\ \A g \in Handles \ {h} : descr'[g] = descr[g]
          /\ store'[a] = S /\ \A x \in Addr \ {a} : store'[x] = store[x]
      BY <1>1, <2>2 DEF Computes, IInv, TypeOK
    <2>4. ASSUME NEW g \in Handles \ owed', ~descr'[g].null, descr'[g].filled_into # Null
          PROVE  store'[descr'[g].filled_into].holds = descr'[g].c_row_ptr
      <3>1. CASE g = h
        BY <2>1, <2>3, <3>1
      <3>2. CASE g # h
        <4>1. descr'[g] = descr[g] /\ g \notin owed /\ descr[g].filled_into # a
          BY <2>2, <2>3, <2>4, <3>2 DEF Sharing
        <4>2. descr[g].filled_into \in Addr
          BY <2>4, <4>1, FilledIntoAddr DEF IInv
        <4>3. store[descr[g].filled_into].holds = descr[g].c_row_ptr
          BY <2>4, <4>1 DEF CacheSound
        <4>. QED BY <2>3, <4>1, <4>2, <4>3
      <3>. QED BY <3>1, <3>2
    <2>5. CacheSound'
      BY <2>4 DEF CacheSound
    <2>. QED BY <2>1, <2>3, <2>5 DEF a, s
  <1>. QED BY <1>1, <1>2, <1>3

LEMMA ReplaceStorageCache ==
    ASSUME IInv, CacheSound, NEW c \in Outs, NEW a \in Addr, NEW cap, NEW shape,
           ReplaceStorage(c, a, cap, shape)
    PROVE  CacheSound'
  <1>1. \A x \in Addr \ {a} : store'[x] = store[x]
    BY DEF ReplaceStorage, IInv, TypeOK
  <1>2. ASSUME NEW g \in Handles \ owed', ~descr[g].null, descr[g].filled_into # Null
        PROVE  descr[g].filled_into \in Addr \ {a} /\ g \notin owed
    BY <1>2, FilledIntoAddr DEF ReplaceStorage, IInv
  <1>. QED BY <1>1, <1>2 DEF ReplaceStorage, CacheSound

LEMMA NextCache ==
    TracksSharing /\ IInv /\ CacheSound /\ [Next]_vars => CacheSound'
  <1>. SUFFICES ASSUME TracksSharing, IInv, CacheSound, [Next]_vars PROVE CacheSound'
    OBVIOUS
  <1>0. ASSUME UNCHANGED <<descr, store, owed>> PROVE CacheSound'
    BY <1>0 DEF CacheSound
  <1>1. CASE UNCHANGED vars
    BY <1>0, <1>1 DEF vars
  <1>2. ASSUME NEW h \in Handles, Call(h) PROVE CacheSound'
    <2>1. CASE Create(h)
      BY <2>1, ResetKeepsCache DEF Create, Calloced, IInv, TypeOK
    <2>2. CASE CreateOutOfMemory(h)
      BY <1>0, <2>2 DEF CreateOutOfMemory
    <2>3. CASE Destroy(h)
      BY <2>3, ResetKeepsCache DEF Destroy, NoDescr, IInv, TypeOK
    <2>4. CASE \E algo \in Algos : SetAlgo(h, algo)
      BY <2>4, SetAlgoCache
    <2>5. CASE InvalidateStructure(h)
      <3>1. CASE descr[h].null
        BY <2>5, <3>1, ResetKeepsCache DEF InvalidateStructure
      <3>2. CASE ~descr[h].null
        <4>. DEFINE D == [descr[h] EXCEPT !.filled_into = Null]
        <4>1. D.filled_into = Null
          BY <3>2 DEF IInv, TypeOK, DescrType, NoDescr
        <4>2. descr' = [descr EXCEPT ![h] = D]
          BY <2>5, <3>2 DEF InvalidateStructure
        <4>. HIDE DEF D
        <4>3. descr'[h] = D /\ \A g \in Handles \ {h} : descr'[g] = descr[g]
          BY <4>2 DEF IInv, TypeOK
        <4>. QED BY <2>5, <4>1, <4>3, ResetKeepsCache DEF InvalidateStructure
      <3>. QED BY <3>1, <3>2
    <2>6. ASSUME NEW A \in LeftOperands, NEW B \in RightOperands,
                 \/ EstimateRejected(h, A, B)
                 \/ EstimateFails(h, A, B)
                 \/ EstimateSucceeds(h, A, B)
                 \/ \E c \in Outs : ComputeRejected(h, A, B, c) \/ ComputeSucceeds(h, A, B, c)
          PROVE  CacheSound'
      <3>1. CASE EstimateRejected(h, A, B)
        BY <1>0, <3>1 DEF EstimateRejected
      <3>2. CASE EstimateFails(h, A, B)
        <4>1. descr[h] \in DescrType
          BY <3>2, EstimateAccepted DEF EstimateFails, EstimateOutOfMemory, EstimateOverflows,
                   Discards, IInv, TypeOK, NoDescr
        <4>2. descr'[h] = Discarded(descr[h]) /\ \A g \in Handles \ {h} : descr'[g] = descr[g]
          BY <3>2 DEF EstimateFails, EstimateOutOfMemory, EstimateOverflows,
                   Discards, IInv, TypeOK
        <4>. QED BY <3>2, <4>1, <4>2, DiscardedFields, ResetKeepsCache DEF EstimateFails, EstimateOutOfMemory, EstimateOverflows,
                   Discards
      <3>3. CASE EstimateSucceeds(h, A, B)
        <4>1. descr[h] \in DescrType
          BY <3>3, EstimateAccepted DEF EstimateSucceeds, IInv, TypeOK, NoDescr
        <4>2. /\ descr'[h] = Analyzed(descr[h], A, B)
              /\ \A g \in Handles \ {h} : descr'[g] = descr[g]
          BY <3>3 DEF EstimateSucceeds, IInv, TypeOK
        <4>. QED BY <3>3, <4>1, <4>2, AnalyzedFields, ResetKeepsCache DEF EstimateSucceeds
      <3>4. ASSUME NEW c \in Outs, ComputeRejected(h, A, B, c) PROVE CacheSound'
        BY <1>0, <3>4 DEF ComputeRejected
      <3>5. ASSUME NEW c \in Outs, ComputeSucceeds(h, A, B, c) PROVE CacheSound'
        BY <3>5, ComputeCache
      <3>. QED BY <2>6, <3>1, <3>2, <3>3, <3>4, <3>5
    <2>7. ASSUME NEW n \in CountLengths, GetOpCounts(h, n) PROVE CacheSound'
      BY <1>0, <2>7 DEF GetOpCounts
    <2>. QED BY <1>2, <2>1, <2>2, <2>3, <2>4, <2>5, <2>6, <2>7 DEF Call
  <1>3. ASSUME NEW c \in Outs, NEW a \in Addr, NEW cap \in Capacities, NEW shape \in OutShapes,
               ReplaceStorage(c, a, cap, shape)
        PROVE  CacheSound'
    BY <1>3, ReplaceStorageCache
  <1>. QED BY <1>1, <1>2, <1>3 DEF Next

LEMMA InitCache == Init => CacheSound
  BY DEF Init, CacheSound, NoDescr

\* A caller that invalidates the structure both when storage is replaced and
\* when another descriptor filled it always computes with the column indices
\* of its own structure (rvsp_spgemm_compute, the filled_into test).
THEOREM CacheIsSound ==
    ASSUME TracksSharing PROVE Spec => []CacheSound
  <1>1. IInv /\ CacheSound /\ [Next]_vars => (IInv /\ CacheSound)'
    BY NextIInv, NextCache
  <1>2. Init => IInv /\ CacheSound
    BY InitIInv, InitCache
  <1>. QED BY <1>1, <1>2, PTL DEF Spec

-------------------------------------------------------------------------------
(* A successful compute leaves the product in C *)

LEMMA NextComputed ==
    TracksSharing /\ IInv /\ CacheSound /\ ComputedProduct /\ [Next]_vars => ComputedProduct'
  <1>. SUFFICES ASSUME TracksSharing, IInv, CacheSound, ComputedProduct, [Next]_vars
                PROVE  ComputedProduct'
    OBVIOUS
  <1>1. CASE UNCHANGED vars
    BY <1>1 DEF vars, ComputedProduct
  <1>2. ASSUME ret'.op # "compute" \/ ret'.status # "SUCCESS" PROVE ComputedProduct'
    BY <1>2 DEF ComputedProduct
  <1>3. ASSUME NEW h \in Handles, NEW A \in LeftOperands, NEW B \in RightOperands,
               NEW c \in Outs, ComputeSucceeds(h, A, B, c)
        PROVE  ComputedProduct'
    <2>. DEFINE s == Product[Pair(A, B)]
    <2>. DEFINE C == [out[c] EXCEPT !.row_ptr = s, !.nnz = Nnz[s]]
    <2>1. Computes(h, c, out[c].col_idx, s) /\ store'[out[c].col_idx].holds = s
      BY <1>3, ComputeEffect, ComputeCache
    <2>2. C.row_ptr = s /\ C.nnz = Nnz[s] /\ C.col_idx = out[c].col_idx
      BY <2>1 DEF Computes, OutType
    <2>3. out' = [out EXCEPT ![c] = C]
      BY <2>1 DEF Computes
    <2>4. ret'.out = c /\ ret'.want = s
      BY <1>3 DEF ComputeSucceeds
    <2>. HIDE DEF s, C
    <2>5. out'[c] = C
      BY <2>3 DEF IInv, TypeOK
    <2>. QED BY <2>1, <2>2, <2>4, <2>5 DEF ComputedProduct
  <1>4. ASSUME NEW h \in Handles, Call(h),
               ~(\E A \in LeftOperands, B \in RightOperands, c \in Outs : ComputeSucceeds(h, A, B, c))
        PROVE  ret'.op # "compute" \/ ret'.status # "SUCCESS"
    BY <1>4 DEF Call, Create, CreateOutOfMemory, Destroy, SetAlgo, InvalidateStructure,
                EstimateRejected, EstimateFails, EstimateOutOfMemory, EstimateOverflows,
                Discards, EstimateSucceeds, ComputeRejected, GetOpCounts, Returns
  <1>5. ASSUME NEW c \in Outs, NEW a \in Addr, NEW cap \in Capacities, NEW shape \in OutShapes,
               ReplaceStorage(c, a, cap, shape)
        PROVE  ret'.op # "compute"
    BY <1>5 DEF ReplaceStorage, Returns
  <1>. QED BY <1>1, <1>2, <1>3, <1>4, <1>5 DEF Next

\* Whatever was estimated, replaced, invalidated and computed before, a compute
\* that returns RVSP_SUCCESS leaves in C the structure of the A*B it was given.
THEOREM ComputesTheProduct ==
    ASSUME TracksSharing PROVE Spec => []ComputedProduct
  <1>1. IInv /\ CacheSound /\ ComputedProduct /\ [Next]_vars
            => (IInv /\ CacheSound /\ ComputedProduct)'
    BY NextIInv, NextCache, NextComputed
  <1>2. Init => IInv /\ CacheSound /\ ComputedProduct
    BY InitIInv, InitCache DEF Init, ComputedProduct
  <1>. QED BY <1>1, <1>2, PTL DEF Spec

-------------------------------------------------------------------------------
(* The code implements the API of the header *)

LEMMA InitRefines == Init => Api!ApiInit
  <1>. SUFFICES ASSUME Init PROVE Api!ApiInit
    OBVIOUS
  <1>1. \A c \in Outs : Readable(c) = Garbage
    BY DEF Init, Unattached, Readable
  <1>. QED BY <1>1 DEF Init, Api!ApiInit, NoDescr, Phase

\* A step that changes one descriptor and no output.
LEMMA OutsUnread ==
    ASSUME UNCHANGED <<out, store>>
    PROVE  [c \in Outs |-> Readable(c)]' = [c \in Outs |-> Readable(c)]
  BY DEF Readable

LEMMA StutterRefines ==
    ASSUME UNCHANGED <<descr, out, store>> PROVE UNCHANGED Api!apiVars
  BY OutsUnread DEF Api!apiVars

\* Only h's fields that the API knows decide which step it takes.
LEMMA OneHandle ==
    ASSUME NEW h \in Handles, NEW D, TypeOK, descr' = [descr EXCEPT ![h] = D]
    PROVE  /\ [g \in Handles |-> Phase(descr[g])]'
                 = [[g \in Handles |-> Phase(descr[g])] EXCEPT ![h] = Phase(D)]
           /\ [g \in Handles |-> IF descr[g].null THEN Null ELSE descr[g].algo]'
                 = [[g \in Handles |-> IF descr[g].null THEN Null ELSE descr[g].algo]
                        EXCEPT ![h] = IF D.null THEN Null ELSE D.algo]
           /\ [g \in Handles |-> IF descr[g].null THEN Null ELSE descr[g].op_counts]'
                 = [[g \in Handles |-> IF descr[g].null THEN Null ELSE descr[g].op_counts]
                        EXCEPT ![h] = IF D.null THEN Null ELSE D.op_counts]
  BY DEF TypeOK

LEMMA SamePhase ==
    ASSUME NEW h \in Handles, NEW D, TypeOK, descr' = [descr EXCEPT ![h] = D],
           ~D.null, ~descr[h].null, D.estimated = descr[h].estimated
    PROVE  [g \in Handles |-> Phase(descr[g])]' = [g \in Handles |-> Phase(descr[g])]
  BY DEF TypeOK, Phase

LEMMA SameAlgo ==
    ASSUME NEW h \in Handles, NEW D, TypeOK, descr' = [descr EXCEPT ![h] = D],
           ~D.null, ~descr[h].null, D.algo = descr[h].algo
    PROVE  [g \in Handles |-> IF descr[g].null THEN Null ELSE descr[g].algo]'
             = [g \in Handles |-> IF descr[g].null THEN Null ELSE descr[g].algo]
  BY DEF TypeOK

LEMMA SamePair ==
    ASSUME NEW h \in Handles, NEW D, TypeOK, descr' = [descr EXCEPT ![h] = D],
           ~D.null, ~descr[h].null, D.op_counts = descr[h].op_counts
    PROVE  [g \in Handles |-> IF descr[g].null THEN Null ELSE descr[g].op_counts]'
             = [g \in Handles |-> IF descr[g].null THEN Null ELSE descr[g].op_counts]
  BY DEF TypeOK

LEMMA CreateRefines ==
    ASSUME TypeOK, NEW h \in Handles, Create(h) PROVE Api!ApiCreate(h)
  <1>1. descr' = [descr EXCEPT ![h] = Calloced] /\ UNCHANGED <<out, store>> /\ descr[h].null
    BY DEF Create
  <1>2. /\ ~Calloced.null /\ ~Calloced.estimated
        /\ Calloced.algo = "DEFAULT" /\ Calloced.op_counts = Null
    BY DEF Calloced
  <1>. QED BY <1>1, <1>2, OneHandle, OutsUnread DEF Api!ApiCreate, Phase, TypeOK

LEMMA DestroyRefines ==
    ASSUME TypeOK, NEW h \in Handles, Destroy(h) PROVE Api!ApiDestroy(h)
  <1>1. /\ descr' = [descr EXCEPT ![h] = NoDescr]
        /\ UNCHANGED <<out, store>> /\ ~descr[h].null
    BY DEF Destroy
  <1>2. NoDescr.null
    BY DEF NoDescr
  <1>. QED BY <1>1, <1>2, OneHandle, OutsUnread DEF Api!ApiDestroy, Phase

LEMMA SetAlgoRefines ==
    ASSUME TypeOK, NEW h \in Handles, NEW algo \in Algos, SetAlgo(h, algo)
    PROVE  Api!ApiSetAlgo(h) \/ UNCHANGED Api!apiVars
  <1>. DEFINE D == [descr[h] EXCEPT !.algo = algo]
  <1>1. UNCHANGED <<out, store>>
    BY DEF SetAlgo
  <1>2. CASE descr' = descr
    BY <1>1, <1>2, StutterRefines
  <1>3. CASE descr' # descr
    <2>1. descr' = [descr EXCEPT ![h] = D] /\ ~descr[h].null /\ ~descr[h].estimated
      BY <1>3 DEF SetAlgo, SetAlgoChecks, Then, Fail
    <2>2. descr[h] \in DescrType
      BY <2>1, FilledIntoAddr
    <2>3. /\ ~D.null /\ D.estimated = descr[h].estimated /\ D.algo = algo
          /\ D.op_counts = descr[h].op_counts
      BY <2>1, <2>2 DEF DescrType
    <2>. HIDE DEF D
    <2>4. [g \in Handles |-> Phase(descr[g])]' = [g \in Handles |-> Phase(descr[g])]
      BY <2>1, <2>3, SamePhase
    <2>5. [g \in Handles |-> IF descr[g].null THEN Null ELSE descr[g].op_counts]'
            = [g \in Handles |-> IF descr[g].null THEN Null ELSE descr[g].op_counts]
      BY <2>1, <2>3, SamePair
    <2>6. [g \in Handles |-> IF descr[g].null THEN Null ELSE descr[g].algo]'
            = [[g \in Handles |-> IF descr[g].null THEN Null ELSE descr[g].algo]
                   EXCEPT ![h] = IF D.null THEN Null ELSE D.algo]
      BY <2>1, OneHandle
    <2>7. Phase(descr[h]) = "created"
      BY <2>1 DEF Phase
    <2>8. [g \in Handles |-> IF descr[g].null THEN Null ELSE descr[g].algo]'
            = [[g \in Handles |-> IF descr[g].null THEN Null ELSE descr[g].algo]
                   EXCEPT ![h] = algo]
      BY <2>3, <2>6
    <2>. QED BY <1>1, <2>4, <2>5, <2>7, <2>8, OutsUnread
             DEF Api!ApiSetAlgo, Algos, Api!Algos
  <1>. QED BY <1>2, <1>3

LEMMA InvalidateRefines ==
    ASSUME TypeOK, NEW h \in Handles, InvalidateStructure(h)
    PROVE  UNCHANGED Api!apiVars
  <1>. DEFINE D == [descr[h] EXCEPT !.filled_into = Null]
  <1>1. UNCHANGED <<out, store>>
    BY DEF InvalidateStructure
  <1>2. CASE descr[h].null
    BY <1>1, <1>2, StutterRefines DEF InvalidateStructure
  <1>3. CASE ~descr[h].null
    <2>1. descr' = [descr EXCEPT ![h] = D]
      BY <1>3 DEF InvalidateStructure
    <2>2. descr[h] \in DescrType
      BY <1>3, FilledIntoAddr
    <2>3. /\ ~D.null /\ D.estimated = descr[h].estimated
          /\ D.algo = descr[h].algo /\ D.op_counts = descr[h].op_counts
      BY <1>3, <2>2 DEF DescrType
    <2>. HIDE DEF D
    <2>. QED BY <1>1, <1>3, <2>1, <2>3, OneHandle, OutsUnread DEF Api!apiVars, Phase
  <1>. QED BY <1>2, <1>3

LEMMA EstimateFailsRefines ==
    ASSUME TypeOK, NEW h \in Handles, NEW A, NEW B, EstimateFails(h, A, B)
    PROVE  Api!ApiEstimate(h)
  <1>. DEFINE D == Discarded(descr[h])
  <1>1. /\ ~descr[h].null /\ descr' = [descr EXCEPT ![h] = D]
        /\ UNCHANGED <<out, store>>
    BY EstimateAccepted DEF EstimateFails, EstimateOutOfMemory, EstimateOverflows,
                   Discards
  <1>2. descr[h] \in DescrType
    BY <1>1, FilledIntoAddr
  <1>3. ~D.null /\ ~D.estimated /\ D.op_counts = Null /\ D.algo = descr[h].algo
    BY <1>2, DiscardedFields
  <1>. HIDE DEF D
  <1>. QED BY <1>1, <1>3, SameAlgo, OneHandle, OutsUnread DEF Api!ApiEstimate, Phase

LEMMA EstimateSucceedsRefines ==
    ASSUME TypeOK, NEW h \in Handles, NEW A \in LeftOperands, NEW B \in RightOperands,
           EstimateSucceeds(h, A, B)
    PROVE  Api!ApiEstimate(h)
  <1>. DEFINE D == Analyzed(descr[h], A, B)
  <1>1. /\ ~descr[h].null /\ descr' = [descr EXCEPT ![h] = D]
        /\ UNCHANGED <<out, store>>
    BY EstimateAccepted DEF EstimateSucceeds
  <1>2. descr[h] \in DescrType
    BY <1>1, FilledIntoAddr
  <1>3. /\ ~D.null /\ D.estimated /\ D.op_counts = Pair(A, B)
        /\ D.algo = descr[h].algo
    BY <1>2, AnalyzedFields
  <1>4. Pair(A, B) \in Pairs
    BY PairProduct
  <1>. HIDE DEF D
  <1>5. [g \in Handles |-> Phase(descr[g])]'
          = [[g \in Handles |-> Phase(descr[g])] EXCEPT ![h] = "estimated"]
    BY <1>1, <1>3 DEF TypeOK, Phase
  <1>6. [g \in Handles |-> IF descr[g].null THEN Null ELSE descr[g].op_counts]'
          = [[g \in Handles |-> IF descr[g].null THEN Null ELSE descr[g].op_counts]
                 EXCEPT ![h] = Pair(A, B)]
    BY <1>1, <1>3 DEF TypeOK
  <1>7. [g \in Handles |-> IF descr[g].null THEN Null ELSE descr[g].algo]'
          = [g \in Handles |-> IF descr[g].null THEN Null ELSE descr[g].algo]
    BY <1>1, <1>3, SameAlgo
  <1>8. Phase(descr[h]) # "none"
    BY <1>1 DEF Phase
  <1>. QED BY <1>1, <1>4, <1>5, <1>6, <1>7, <1>8, OutsUnread DEF Api!ApiEstimate

LEMMA ComputeRefines ==
    ASSUME IInv, CacheSound, TracksSharing, NEW h \in Handles,
           NEW A \in LeftOperands, NEW B \in RightOperands, NEW c \in Outs,
           ComputeSucceeds(h, A, B, c)
    PROVE  Api!ApiCompute(h, c)
  <1>. DEFINE a == out[c].col_idx
  <1>. DEFINE s == Product[Pair(A, B)]
  <1>. DEFINE C == [out[c] EXCEPT !.row_ptr = s, !.nnz = Nnz[s]]
  <1>. DEFINE D == [descr[h] EXCEPT !.filled_into = a]
  <1>1. /\ Computes(h, c, a, s) /\ (Skips(h, a) \/ Fills(h, a, s))
        /\ descr[h].op_counts = Pair(A, B)
    BY ComputeEffect
  <1>2. store'[a].holds = s
    BY ComputeCache
  <1>3. C.row_ptr = s /\ C.col_idx = a
    BY <1>1 DEF Computes, OutType
  <1>4. /\ ~D.null /\ D.estimated = descr[h].estimated
        /\ D.algo = descr[h].algo /\ D.op_counts = descr[h].op_counts
    BY <1>1 DEF Computes, DescrType
  <1>5. /\ out' = [out EXCEPT ![c] = C]
        /\ descr' = descr \/ descr' = [descr EXCEPT ![h] = D]
        /\ store' = store \/ store' = [store EXCEPT ![a] = [store[a] EXCEPT !.holds = s]]
        /\ a \in Addr /\ a # Null /\ ~descr[h].null /\ descr[h].estimated
    BY <1>1 DEF Computes, Skips, Fills
  <1>. HIDE DEF C, D, a
  <1>6. /\ [g \in Handles |-> Phase(descr[g])]' = [g \in Handles |-> Phase(descr[g])]
        /\ [g \in Handles |-> IF descr[g].null THEN Null ELSE descr[g].algo]'
             = [g \in Handles |-> IF descr[g].null THEN Null ELSE descr[g].algo]
        /\ [g \in Handles |-> IF descr[g].null THEN Null ELSE descr[g].op_counts]'
             = [g \in Handles |-> IF descr[g].null THEN Null ELSE descr[g].op_counts]
    <2>1. CASE descr' = descr
      BY <2>1
    <2>2. CASE descr' = [descr EXCEPT ![h] = D]
      BY <1>4, <1>5, <2>2, SamePhase, SameAlgo, SamePair DEF IInv
    <2>. QED BY <1>5, <2>1, <2>2
  <1>7. Readable(c)' = s
    <2>1. out'[c] = C
      BY <1>5 DEF IInv, TypeOK
    <2>. QED BY <1>2, <1>3, <1>5, <2>1 DEF Readable
  <1>8. ASSUME NEW o \in Outs \ {c} PROVE Readable(o)' = Readable(o)
    <2>1. out'[o] = out[o]
      BY <1>5 DEF IInv, TypeOK
    <2>2. out[o].col_idx # a
      BY <1>5 DEF IInv, OwnStorage, a
    <2>3. out[o].col_idx \in Addr \cup {Null}
      BY DEF IInv, TypeOK, OutType
    <2>4. out[o].col_idx # Null => store'[out[o].col_idx] = store[out[o].col_idx]
      BY <1>5, <2>2, <2>3 DEF IInv, TypeOK
    <2>. QED BY <2>1, <2>4 DEF Readable
  <1>9. [o \in Outs |-> Readable(o)]' = [[o \in Outs |-> Readable(o)] EXCEPT ![c] = s]
    BY <1>7, <1>8
  <1>. QED BY <1>1, <1>5, <1>6, <1>9 DEF Api!ApiCompute, Phase

LEMMA ReplaceStorageRefines ==
    ASSUME TypeOK, NEW c \in Outs, NEW a \in Addr, NEW cap, NEW shape,
           ReplaceStorage(c, a, cap, shape)
    PROVE  Api!ApiReplaceStorage(c)
  <1>1. /\ out'[c].row_ptr = Garbage /\ out'[c].col_idx = a /\ store'[a].holds = Garbage
        /\ \A o \in Outs \ {c} : out'[o] = out[o] /\ out[o].col_idx # a
        /\ \A x \in Addr \ {a} : store'[x] = store[x]
        /\ UNCHANGED descr
    BY DEF ReplaceStorage, TypeOK
  <1>2. Readable(c)' = Garbage
    BY <1>1 DEF Readable
  <1>3. ASSUME NEW o \in Outs \ {c} PROVE Readable(o)' = Readable(o)
    <2>1. out[o].col_idx \in Addr \cup {Null}
      BY DEF TypeOK, OutType
    <2>. QED BY <1>1, <2>1 DEF Readable
  <1>4. [o \in Outs |-> Readable(o)]' = [[o \in Outs |-> Readable(o)] EXCEPT ![c] = Garbage]
    BY <1>2, <1>3
  <1>. QED BY <1>1, <1>4 DEF Api!ApiReplaceStorage

LEMMA NextRefines ==
    TracksSharing /\ IInv /\ CacheSound /\ [Next]_vars => [Api!ApiNext]_(Api!apiVars)
  <1>. SUFFICES ASSUME TracksSharing, IInv, CacheSound, [Next]_vars
                PROVE  [Api!ApiNext]_(Api!apiVars)
    OBVIOUS
  <1>. TypeOK
    BY DEF IInv
  <1>1. CASE UNCHANGED vars
    BY <1>1, StutterRefines DEF vars
  <1>2. ASSUME NEW h \in Handles, Call(h) PROVE [Api!ApiNext]_(Api!apiVars)
    <2>1. CASE Create(h) BY <2>1, CreateRefines DEF Api!ApiNext
    <2>2. CASE CreateOutOfMemory(h) BY <2>2, StutterRefines DEF CreateOutOfMemory
    <2>3. CASE Destroy(h) BY <2>3, DestroyRefines DEF Api!ApiNext
    <2>4. CASE \E algo \in Algos : SetAlgo(h, algo) BY <2>4, SetAlgoRefines DEF Api!ApiNext
    <2>5. CASE InvalidateStructure(h) BY <2>5, InvalidateRefines
    <2>6. ASSUME NEW A \in LeftOperands, NEW B \in RightOperands,
                 \/ EstimateRejected(h, A, B)
                 \/ EstimateFails(h, A, B)
                 \/ EstimateSucceeds(h, A, B)
                 \/ \E c \in Outs : ComputeRejected(h, A, B, c) \/ ComputeSucceeds(h, A, B, c)
          PROVE  [Api!ApiNext]_(Api!apiVars)
      <3>1. CASE EstimateRejected(h, A, B) BY <3>1, StutterRefines DEF EstimateRejected
      <3>2. CASE EstimateFails(h, A, B) BY <3>2, EstimateFailsRefines DEF Api!ApiNext
      <3>3. CASE EstimateSucceeds(h, A, B) BY <3>3, EstimateSucceedsRefines DEF Api!ApiNext
      <3>4. ASSUME NEW c \in Outs, ComputeRejected(h, A, B, c)
            PROVE  [Api!ApiNext]_(Api!apiVars)
        BY <3>4, StutterRefines DEF ComputeRejected
      <3>5. ASSUME NEW c \in Outs, ComputeSucceeds(h, A, B, c)
            PROVE  [Api!ApiNext]_(Api!apiVars)
        BY <3>5, ComputeRefines DEF Api!ApiNext
      <3>. QED BY <2>6, <3>1, <3>2, <3>3, <3>4, <3>5
    <2>7. ASSUME NEW n \in CountLengths, GetOpCounts(h, n)
          PROVE  [Api!ApiNext]_(Api!apiVars)
      BY <2>7, StutterRefines DEF GetOpCounts
    <2>. QED BY <1>2, <2>1, <2>2, <2>3, <2>4, <2>5, <2>6, <2>7 DEF Call
  <1>3. ASSUME NEW c \in Outs, NEW a \in Addr, NEW cap \in Capacities, NEW shape \in OutShapes,
               ReplaceStorage(c, a, cap, shape)
        PROVE  [Api!ApiNext]_(Api!apiVars)
    BY <1>3, ReplaceStorageRefines DEF Api!ApiNext
  <1>. QED BY <1>1, <1>2, <1>3 DEF Next

\* The cached fill, the captured dimensions and the checks implement the header:
\* each compute that succeeds writes the product of the analysed pair, each call
\* that fails changes no output, the analysis freezes the strategy.
THEOREM Implementation ==
    ASSUME TracksSharing PROVE Spec => ImplementsApi
  <1>1. IInv /\ CacheSound /\ [Next]_vars => (IInv /\ CacheSound)'
    BY NextIInv, NextCache
  <1>2. Init => IInv /\ CacheSound
    BY InitIInv, InitCache
  <1>. QED BY <1>1, <1>2, InitRefines, NextRefines, PTL DEF Spec, ImplementsApi, Api!ApiSpec

===============================================================================
