-------------------------------- MODULE AccumRow --------------------------------
(***************************************************************************)
(* rvsp_accum_row: acc[col] += a_val * b for the entries of one row of B,  *)
(* in the four strategies of kernels/spgemm/accum_*_f32.c.  The row is cut *)
(* into spans, a span is executed by unrolled scalar code, by a gather,    *)
(* multiply-add and scatter, or by unit-stride vectors on a run of         *)
(* consecutive columns, and a vector takes as many lanes as vsetvl gives.  *)
(*                                                                         *)
(* A sum is the sequence of the positions of the entries added to it.      *)
(***************************************************************************)
EXTENDS Integers, Sequences, FiniteSets, FiniteSetsExt

CONSTANTS
    BRows,              \* rows of B: sequences of columns
    b_cols,
    CONTIG_MIN, SCAN_AHEAD, GATHER_MIN,     \* the RVSP_ macros
    UNROLL,             \* entries one scalar step takes when as many are left
    VLMAX_M2, VLMAX_M4, \* lanes of a vector register group
    OFFSET_RANGE        \* 2^32, the range of the byte offset of a gather

ASSUME AccumAssumption ==
    /\ b_cols \in Nat /\ BRows \subseteq Seq(0 .. b_cols - 1)
    /\ CONTIG_MIN \in Nat /\ CONTIG_MIN >= 2
    /\ SCAN_AHEAD \in Nat \ {0} /\ GATHER_MIN \in Nat
    /\ UNROLL \in Nat \ {0}
    /\ VLMAX_M2 \in Nat \ {0} /\ VLMAX_M4 \in Nat \ {0}
    /\ OFFSET_RANGE \in Nat /\ OFFSET_RANGE >= 2 * b_cols     \* columns are int32_t

VARIABLES
    algo, b_col_idx,
    pc,         \* "enter", "loop", "scan", "span" or "done"
    p,          \* the first entry no span has taken
    i,          \* where the scan for a run is, from p
    span,       \* the span being executed
    q,          \* its first entry not yet added
    acc

vars == <<algo, b_col_idx, pc, p, i, span, q, acc>>

b_nnz == Len(b_col_idx)
Col(n) == b_col_idx[n + 1]
NoSpan == [kind |-> "none", first |-> 0, end |-> 0]

-------------------------------------------------------------------------------

\* vsetvl: all that is left when it fits, at least half of it when it fits in
\* two vectors, and a full vector otherwise.
Lanes(avl, vlmax) ==
    IF avl <= vlmax THEN {avl}
    ELSE IF avl < 2 * vlmax THEN {vl \in 1 .. vlmax : 2 * vl >= avl}
    ELSE {vlmax}

\* The slot of acc that the byte offset of a column reaches.
Slot(col) == ((col * 4) % OFFSET_RANGE) \div 4

\* Slip: a slot keeps only what the last vector added.
SlipOverwrites(old, n) == <<n>>
Plus(old, n) == Append(old, n)

\* The positions of a set from left to right.
InTurn(S) ==
    [k \in 1 .. Cardinality(S) |-> CHOOSE n \in S : Cardinality({m \in S : m < n}) = k - 1]

\* Scalar entries are added one after the other.
AddedInTurn(first, end) ==
    [c \in DOMAIN acc |-> acc[c] \o InTurn({n \in first .. end - 1 : Col(n) = c})]

\* A vector reads its slots, adds, and writes them back in any order: of two
\* lanes on one slot, one is lost.
AddedAtOnce(first, end, slot) ==
    LET slots == {slot[n] : n \in first .. end - 1} IN
    {[c \in DOMAIN acc |-> IF c \in slots THEN Plus(acc[c], w[c]) ELSE acc[c]] :
        w \in {f \in [slots -> first .. end - 1] : \A c \in slots : slot[f[c]] = c}}

\* The length of the run of consecutive columns at entry n.
RunAt(n) ==
    Max({r \in 1 .. b_nnz - n : \A k \in 0 .. r - 1 : Col(n + k) = Col(n) + k})

Limit == Min({b_nnz - p, SCAN_AHEAD})

-------------------------------------------------------------------------------

Init ==
    /\ algo \in {"DEFAULT", "RVV", "CONTIG", "ADAPTIVE"}
    /\ b_col_idx \in BRows
    /\ pc = "enter" /\ p = 0 /\ i = 0 /\ span = NoSpan /\ q = 0
    /\ acc = [c \in 0 .. b_cols - 1 |-> <<>>]

Execute(kind, first, end) ==
    /\ pc' = "span"
    /\ span' = [kind |-> kind, first |-> first, end |-> end]
    /\ q' = first
    /\ UNCHANGED <<algo, b_col_idx, p, i, acc>>

\* rvsp_irregular_span, or rvsp_scalar_span in the strategy without a gather.
Irregular(length) ==
    IF algo = "ADAPTIVE" /\ length >= GATHER_MIN THEN "gather" ELSE "scalar"

\* The strategies without runs, and a row too short to hold one, take it all.
EnterWhole ==
    /\ pc = "enter"
    /\ \/ algo = "DEFAULT" /\ Execute("scalar", 0, b_nnz)
       \/ algo = "RVV" /\ Execute("gather", 0, b_nnz)
       \/ /\ algo = "ADAPTIVE" /\ b_nnz < CONTIG_MIN
          /\ Execute(Irregular(b_nnz), 0, b_nnz)

EnterLoop ==
    /\ pc = "enter"
    /\ \/ algo = "CONTIG"
       \/ algo = "ADAPTIVE" /\ b_nnz >= CONTIG_MIN
    /\ pc' = "loop"
    /\ UNCHANGED <<algo, b_col_idx, p, i, span, q, acc>>

\* rvsp_next_contig_run from p.
StartScan ==
    /\ pc = "loop" /\ p < b_nnz
    /\ IF Limit < CONTIG_MIN
         THEN Execute(Irregular(Limit), p, p + Limit)
         ELSE /\ pc' = "scan" /\ i' = 0
              /\ UNCHANGED <<algo, b_col_idx, p, span, q, acc>>

\* No run within the scan.
ScanEnds ==
    /\ pc = "scan" /\ i + CONTIG_MIN > Limit
    /\ Execute(Irregular(Limit), p, p + Limit)

Consecutive == Col(p + i + 1) = Col(p + i) + 1

\* Slip: the entry after a short run is passed over too.
SlipSkipsNext == IF Consecutive THEN i + RunAt(p + i) + 1 ELSE i + 1
\* Slip: a short run is not passed over.
SlipStaysAtRun == IF Consecutive THEN i ELSE i + 1
Advanced == IF Consecutive THEN i + RunAt(p + i) ELSE i + 1

ScanAdvances ==
    /\ pc = "scan" /\ i + CONTIG_MIN <= Limit
    /\ ~Consecutive \/ RunAt(p + i) < CONTIG_MIN
    /\ i' = Advanced
    /\ UNCHANGED <<algo, b_col_idx, pc, p, span, q, acc>>

\* A run: what precedes it goes first, and the run is found again after that.
ScanFinds ==
    /\ pc = "scan" /\ i + CONTIG_MIN <= Limit
    /\ Consecutive /\ RunAt(p + i) >= CONTIG_MIN
    /\ IF i > 0
         THEN Execute(Irregular(i), p, p + i)
         ELSE Execute("contig", p, p + RunAt(p))

Advance(next) ==
    /\ q' = next
    /\ UNCHANGED <<algo, b_col_idx, pc, p, i, span>>

ScalarStep ==
    /\ pc = "span" /\ span.kind = "scalar" /\ q < span.end
    /\ LET n == IF q + UNROLL <= span.end THEN UNROLL ELSE 1 IN
       acc' = AddedInTurn(q, q + n) /\ Advance(q + n)

GatherStep ==
    /\ pc = "span" /\ span.kind = "gather" /\ q < span.end
    /\ \E vl \in Lanes(span.end - q, VLMAX_M2) :
         /\ acc' \in AddedAtOnce(q, q + vl, [n \in q .. q + vl - 1 |-> Slot(Col(n))])
         /\ Advance(q + vl)

\* Slip: the base of the run is not moved along with q.
SlipSameBase(n) == Col(span.first) + (n - q)
RunSlot(n) == Col(span.first) + (n - span.first)

ContigStep ==
    /\ pc = "span" /\ span.kind = "contig" /\ q < span.end
    /\ \E vl \in Lanes(span.end - q, VLMAX_M4) :
         /\ acc' \in AddedAtOnce(q, q + vl, [n \in q .. q + vl - 1 |-> RunSlot(n)])
         /\ Advance(q + vl)

AfterSpan == span.end

SpanDone ==
    /\ pc = "span" /\ q >= span.end
    /\ pc' = "loop" /\ p' = AfterSpan /\ span' = NoSpan
    /\ UNCHANGED <<algo, b_col_idx, i, q, acc>>

Return ==
    /\ pc = "loop" /\ p >= b_nnz
    /\ pc' = "done"
    /\ UNCHANGED <<algo, b_col_idx, p, i, span, q, acc>>

Next ==
    \/ EnterWhole \/ EnterLoop \/ StartScan \/ ScanEnds \/ ScanAdvances \/ ScanFinds
    \/ ScalarStep \/ GatherStep \/ ContigStep \/ SpanDone \/ Return

Spec == Init /\ [][Next]_vars /\ WF_vars(Next)

-------------------------------------------------------------------------------
(* Correctness *)

\* The scan and the spans stay inside the row: the entry a scan compares with
\* its neighbour has one, and spans follow each other without overlap.
TypeOK ==
    /\ algo \in {"DEFAULT", "RVV", "CONTIG", "ADAPTIVE"} /\ b_col_idx \in BRows
    /\ pc \in {"enter", "loop", "scan", "span", "done"}
    /\ p \in 0 .. b_nnz /\ q \in 0 .. b_nnz /\ i \in 0 .. b_nnz
    /\ acc \in [0 .. b_cols - 1 -> Seq(Nat)]
    /\ pc = "scan" /\ i + CONTIG_MIN <= Limit => p + i + 1 < b_nnz
    /\ pc = "span" => span.first = p /\ span.end <= b_nnz /\ q \in p .. span.end

\* Whatever the strategy, the cuts and the vector lengths, each entry so far
\* was added exactly once, to the sum of its own column, and no other sum was
\* touched: the strategies give the scalar loop's result.
EachEntryOnce ==
    LET passed == 0 .. (IF pc = "span" THEN q ELSE p) - 1 IN
    \A c \in DOMAIN acc :
        /\ \A n \in passed : Col(n) = c => acc[c] = <<n>>
        /\ (\A n \in passed : Col(n) # c) => acc[c] = <<>>

\* "the offset to the first run of at least min_run consecutive indices": the
\* scan passes over no run that starts early enough to be found.
RunsAreFound ==
    /\ pc = "scan" => \A n \in 0 .. i - 1 :
         n + CONTIG_MIN <= Limit => RunAt(p + n) < CONTIG_MIN
    /\ pc = "span" /\ span.kind = "contig" => RunAt(span.first) = span.end - span.first

\* The scan reads inside the row, the spans follow each other, and no run is missed.
ScanIsRight == TypeOK /\ RunsAreFound

\* "canonical CSR has no repeated column in a row, so the gather and scatter
\* below cannot alias within one vl": the lanes of a gather are distinct slots.
GatherCannotAlias ==
    pc = "span" /\ span.kind = "gather" =>
        LET lanes == q .. Min({span.end, q + VLMAX_M2}) - 1 IN
        \A m, n \in lanes : m # n => Slot(Col(m)) # Slot(Col(n))

\* The row is finished, whatever vsetvl answers.
Finishes == <>(pc = "done")

===============================================================================
