------------------------------- MODULE BenchRun -------------------------------
(***************************************************************************)
(* The main program of bench/bench.c, run after bench/csr_check.c as       *)
(* bench/run_bench.sh does: on the file that was checked (--mtx-sq), on    *)
(* that file and another (--mtx), or on generated matrices (--gen).  It    *)
(* loads (MtxLoader), copies into typed arrays, multiplies once for the    *)
(* reference, some times to warm up and some to measure, and frees.        *)
(*                                                                         *)
(* A kernel either fails or multiplies (Gustavson); what it prints besides *)
(* the verdict, the clock and the counters are left out.                   *)
(***************************************************************************)
EXTENDS MtxTools

CONSTANTS
    Jobs        \* command lines: mode, files, generated matrices, warmup, runs

\* One file is squared, two files or two generated matrices are multiplied.
ASSUME JobsAssumption ==
    \A j \in Jobs :
      /\ j.files \in Seq(Files) /\ j.warmup \in Int /\ j.runs \in Int
      /\ \/ j.mode = "mtx-sq" /\ Len(j.files) = 1
         \/ j.mode = "mtx" /\ Len(j.files) = 2
         \/ /\ j.mode = "gen" /\ j.files = <<>> /\ j.made = <<j.made[1], j.made[2]>>
            /\ j.made[1].fields = Vectors /\ j.made[2].fields = Vectors

VARIABLES
    job,
    step,           \* where main is, or how it ended
    parsed,         \* what was loaded or generated: fields, rows, row_ptr, cells
    mats,           \* A and, but for --mtx-sq, B
    owned,           \* blocks of this process, as <<owner, block>>
    astray,         \* a block was freed that was not allocated
    have_ref,
    left,           \* iterations that remain
    correct         \* that column of the rows that were printed

bench == <<job, step, parsed, mats, owned, astray, have_ref, left, correct>>

NoJob == [mode |-> "none", files |-> <<>>, made |-> <<>>, warmup |-> 0, runs |-> 0]

BenchInit ==
    /\ ToolsInit
    /\ job = NoJob /\ step = "off" /\ parsed = <<>> /\ mats = <<>>
    /\ owned = {} /\ astray = FALSE /\ have_ref = FALSE /\ left = 0 /\ correct = <<>>

RawBlocks == {"row_ptr", "col_idx", "values"}
Main == <<"main", 0>>
Cref == <<"Cref", 0>>
RawOf(n) == <<"raw", n>>
Parsed(n) == <<"parsed", n>>
Of(owner, blocks) == {owner} \X blocks
Ends(how) == step' = how

\* free() of the given blocks, one after the other.
Frees(blocks) ==
    /\ owned' = owned \ Range(blocks)
    /\ astray' = (astray \/ \E n \in DOMAIN blocks :
                     blocks[n] \notin owned \/ \E o \in 1 .. n - 1 : blocks[o] = blocks[n])

-------------------------------------------------------------------------------
(* Input *)

\* csr_check has ended; its memory is gone.
StartBench ==
    /\ step = "off" /\ status \in {"ok", "bad", "usage"}
    /\ \E j \in Jobs :
         /\ IF j.files = <<>> THEN file = NoFile ELSE Head(j.files) = file
         /\ job' = j
    /\ step' = "load"
    /\ UNCHANGED <<all, parsed, mats, owned, astray, have_ref, left, correct>>

\* An argument it does not know, a comma, a kernel that is not there.
RefuseArguments ==
    /\ step = "load" /\ parsed = <<>> /\ pc = "idle"
    /\ Ends("usage")
    /\ UNCHANGED <<all, job, parsed, mats, owned, astray, have_ref, left, correct>>

BenchLoad ==
    /\ step = "load" /\ pc = "idle" /\ Len(parsed) < Len(job.files)
    /\ file' = job.files[Len(parsed) + 1] /\ pc' = "start"
    /\ ClearLocals
    /\ UNCHANGED <<live, lost, main, generator, bench>>

BenchLoaded ==
    /\ step = "load" /\ pc = "done"
    /\ parsed' = Append(parsed, [fields |-> matrix, rows |-> M, cols |-> cols,
                                 row_ptr |-> row_ptr, cells |-> cells])
    /\ owned' = owned \cup Of(Parsed(Len(parsed) + 1), matrix)
                    \cup Of(<<"lost", Len(parsed) + 1>>, lost)
    /\ live' = {} /\ lost' = {} /\ ClearLocals /\ pc' = "idle"
    /\ UNCHANGED <<file, main, generator, job, step, mats, astray, have_ref, left, correct>>

\* Two calls of genmat_generate_csr, the second with the shape turned around.
BenchGenerate ==
    /\ step = "load" /\ job.mode = "gen" /\ parsed = <<>>
    /\ parsed' = job.made
    /\ owned' = Of(Parsed(1), Vectors) \cup Of(Parsed(2), Vectors)
    /\ UNCHANGED <<all, job, step, mats, astray, have_ref, left, correct>>

\* Only after all have been loaded is their row_ptr looked at.
LookAtLoaded ==
    /\ step = "load" /\ pc = "idle" /\ parsed # <<>> /\ Len(parsed) >= Len(job.files)
    /\ IF \E n \in DOMAIN parsed : "row_ptr" \notin parsed[n].fields
         THEN Ends("failed") ELSE step' = "build"
    /\ UNCHANGED <<all, job, parsed, mats, owned, astray, have_ref, left, correct>>

-------------------------------------------------------------------------------
(* build_from_mtx and build_from_genmat *)

Turn == Len(mats) + 1
AsCsr(x) == [rows |-> x.rows, cols |-> x.cols, nnz |-> x.row_ptr[x.rows], row_ptr |-> x.row_ptr,
             col_idx |-> [p \in DOMAIN x.cells |-> x.cells[p].col], absent |-> {}]

\* rvsp_csr_create, and rvsp_csr_validate after it.
Accepted(x) == x.rows > 0 /\ x.cols > 0 /\ Check(AsCsr(x))!WellFormed

\* A struct that the loader returned half built is read through NULL.
Build ==
    /\ step = "build" /\ Len(mats) < Len(parsed)
    /\ LET x == parsed[Turn] IN
       IF "col_ind" \notin x.fields
         THEN Ends("crashed") /\ UNCHANGED <<mats, owned>>
         ELSE \E got \in SUBSET RawBlocks :
                /\ "values" \in got => got = RawBlocks
                /\ owned' = owned \cup Of(RawOf(Turn), got)
                /\ IF got # RawBlocks THEN Ends("failed") /\ UNCHANGED mats
                   ELSE IF ~Accepted(x) THEN Ends("refused") /\ UNCHANGED mats
                   ELSE mats' = Append(mats, x) /\ UNCHANGED step
    /\ UNCHANGED <<all, job, parsed, astray, have_ref, left, correct>>

\* For --mtx-sq B is a copy of the struct A, with the same arrays.
A == mats[1]
B == mats[Len(mats)]

\* calloc and malloc of op_counts, ws and kernel_ops, in this order.
SetUp ==
    /\ step = "build" /\ Len(mats) = Len(parsed)
    /\ \E n \in 0 .. 3 :
         /\ owned' = owned \cup Of(Main, Range(SubSeq(<<"op_counts", "ws", "kernel_ops">>, 1, n)))
         /\ IF ~Accepted(A) \/ ~Accepted(B) THEN n = 0 /\ Ends("refused")
            ELSE IF n < 3 THEN Ends("failed") ELSE step' = "reference"
    /\ UNCHANGED <<all, job, parsed, mats, astray, have_ref, left, correct>>

-------------------------------------------------------------------------------
(* Products *)

\* A kernel takes each column of A for a row of B without a look at B's rows.
InsideB == \A p \in DOMAIN A.cells : A.cells[p].col < B.rows

\* A kernel fails holding nothing, or hands over the arrays of a result.
Fails == TRUE
Multiplies == InsideB
ReadsPast == ~InsideB /\ Ends("undefined")

Reference ==
    /\ step = "reference"
    /\ \/ Fails /\ have_ref' = FALSE /\ owned' = owned \ Of(Main, {"kernel_ops"})
          /\ step' = "warmup"
       \/ Multiplies /\ have_ref' = TRUE
          /\ owned' = (owned \ Of(Main, {"kernel_ops"})) \cup Of(Cref, RawBlocks)
          /\ step' = "warmup"
       \/ ReadsPast /\ UNCHANGED <<owned, have_ref>>
    /\ left' = job.warmup
    /\ UNCHANGED <<all, job, parsed, mats, astray, correct>>

\* The result of a warm-up is destroyed when there is one: nothing remains.
Warmup ==
    /\ step = "warmup" /\ left > 0
    /\ \/ (Fails \/ Multiplies) /\ UNCHANGED step
       \/ ReadsPast
    /\ left' = left - 1
    /\ UNCHANGED <<all, job, parsed, mats, owned, astray, have_ref, correct>>

WarmupDone ==
    /\ step = "warmup" /\ left <= 0
    /\ step' = "timed" /\ left' = job.runs
    /\ UNCHANGED <<all, job, parsed, mats, owned, astray, have_ref, correct>>

\* csr_equal finds the same product again, unless it is without memory for the
\* longest row; a product without entries takes none.
NoEntries == \A p \in DOMAIN A.cells : B.row_ptr[A.cells[p].col] = B.row_ptr[A.cells[p].col + 1]
Compared == IF NoEntries THEN {1} ELSE {0, 1}

TimedRun ==
    /\ step = "timed" /\ left > 0
    /\ \/ Fails /\ correct' = Append(correct, 0) /\ UNCHANGED step
       \/ Multiplies /\ UNCHANGED step
          /\ \E c \in IF have_ref THEN Compared ELSE {-1} : correct' = Append(correct, c)
       \/ ReadsPast /\ UNCHANGED correct
    /\ left' = left - 1
    /\ UNCHANGED <<all, job, parsed, mats, owned, astray, have_ref>>

\* Slip: the reference is not given back.
SlipForgetsRef(owner, blocks) == IF owner = Cref THEN <<>> ELSE
    [n \in DOMAIN blocks |-> <<owner, blocks[n]>>]
\* These blocks of an owner, one after the other.
Each(owner, blocks) == [n \in DOMAIN blocks |-> <<owner, blocks[n]>>]

Raw == <<"row_ptr", "col_idx", "values">>
Vecs == <<"row_ptr", "col_ind", "val">>

\* rvsp_csr_destroy of A and B frees nothing: they borrow what raw and B own.
CleanUp ==
    /\ step = "timed" /\ left <= 0
    /\ Frees(Each(Main, <<"ws", "op_counts">>)
             \o (IF have_ref THEN Each(Cref, Raw) ELSE <<>>)
             \o Each(RawOf(1), Raw)
             \o (IF job.mode # "mtx-sq" THEN Each(RawOf(2), Raw) ELSE <<>>)
             \o Each(Parsed(1), Vecs)
             \o (IF job.mode # "mtx-sq" THEN Each(Parsed(2), Vecs) ELSE <<>>))
    /\ Ends("done")
    /\ UNCHANGED <<all, job, parsed, mats, have_ref, left, correct>>

-------------------------------------------------------------------------------

BenchNext ==
    \/ ToolsNext /\ UNCHANGED bench
    \/ StartBench \/ RefuseArguments \/ BenchLoad \/ BenchLoaded \/ BenchGenerate
    \/ LookAtLoaded \/ Build \/ SetUp
    \/ Reference \/ Warmup \/ WarmupDone \/ TimedRun \/ CleanUp

BenchSpec == BenchInit /\ [][BenchNext]_<<all, bench>>

-------------------------------------------------------------------------------
(* Correctness *)

\* Both programs, whichever allocation fails: the loader frees by hand, at each
\* of its returns, all that it does not hand over, but for arrays that a failed
\* realloc left without a pointer; a benchmark that comes to its end has freed
\* every block once, although A and B may be one matrix and each matrix has two
\* owners.
NothingLeaks ==
    /\ HeapOnReturn
    /\ ~astray
    /\ step = "done" => owned = {}

\* "A*A uses each column index of A as a row index of B" (csr_check.c:117): a
\* file that csr_check passed is squared inside its arrays, and is refused
\* only if it has no entries at all.
CheckedCanBeSquared ==
    status = "ok" /\ job.mode = "mtx-sq" =>
      /\ step # "undefined"
      /\ step = "refused" => Len(parsed) = 1 /\ DOMAIN parsed[1].cells = {}

===============================================================================
