# rv-sparse in TLA+

A verification project for [rv-sparse](../src/README.md), a C library that multiplies
sparse matrices in CSR form, with scalar kernels and RISC-V vector kernels, and of the tools that
generate, load, check and benchmark its matrices.  The library is sequential: what is hard in
it is not concurrency but the *order* of many legal calls on objects that remember things,
allocations that fail in the middle, several kernels that must agree, and arrays that serve two
purposes at once.

Every definition follows the C source; `PROJECT.json` maps each of them to the lines it
stands for.  Paths below are relative to the repository root.

## 1. The system

| component | code | state | operations |
|---|---|---|---|
| descriptor API | `src/core/spgemm_descr.c`, `include/rv_sparse.h` | the descriptor (strategy, structure, operation counts, the address it filled), the caller's `C` | create, destroy, set_algo, invalidate_structure, work_estimation, compute, get_op_counts |
| symbolic phases | `src/kernels/spgemm/rvsp_symbolic.c` | marks, list of touched columns, row pointers | count with prefix sum, fill |
| Gustavson driver | `src/kernels/spgemm/gustavson_core_f32.inc` | accumulator, arrays of `C` | count, allocate, fill, accumulate and drain each row |
| row accumulators | `src/kernels/spgemm/accum_*_f32.c` | position in the row, the accumulator | scalar, gather, contiguous-run and adaptive strategies |
| column sort | `src/kernels/spgemm/rvsp_sort.h` | the row, a scratch array, bucket counts | insertion sort, radix sort |
| canonical check | `src/kernels/spgemm/rvsp_support.c`, `src/core/matrix.c` | loop counters | `rvsp_csr_check`, `rvsp_csr_validate` |
| matrix lifecycle | `src/core/matrix.c` | the matrix struct: borrows or owns | create, validate, destroy |
| one-shot product and dispatch | `src/core/spgemm.c`, `legacy/csr_spgemm_wrappers.c` | locals of one call, the heap | `rvsp_spgemm_csr` |
| workspace layouts | `src/kernels/spgemm/rvsp_common.h` | none | sizes and pointers of the scratch buffers |
| older kernels | `src/kernels/spgemm/legacy/` | as the Gustavson driver, plus duplicate flags | one raw kernel per type and backend |
| Matrix Market loader | `tools/src/mtx_to_csr_formatter.c`, `vec.c` | coordinate arrays, row counts, cursor, the three vectors of the result | `assemble_csr_matrix`, `canonicalise_rows` |
| matrix generator | `tools/src/genmat.c` | one block of indices and a degree per row, coordinate lists, CSR arrays | `genmat_generate_csr`, `genmat_save_csr_to_mtx` |
| benchmark driver | `bench/csr_check.c`, `bench/bench.c` | what was loaded, the typed copies, results, iterations that remain | check, build, reference product, warm-up, timed runs, clean-up |
| scripts, tests, examples | `bench/*.sh`, `bench/*.py`, `tests/`, `examples/` | none of its own | see section 8 |

How they interact.  `rvsp_spgemm_csr` picks a path by backend and type.  FP32 goes through
a temporary descriptor (create, set_algo, work_estimation, compute, destroy), INT8 and FP64
go to the older kernels.  `work_estimation` runs the symbolic count, `compute` runs the
symbolic fill (unless its cache says the buffer is filled) and then the numeric pass, which
calls one row accumulator per entry of A.  The fill sorts each row.  Everything works in a
workspace whose layout `rvsp_common.h` computes.  All calls are synchronous; no callbacks,
no threads in the library.

The tools are separate programs that meet in files and at the library's API.  The generator
draws a matrix (its loops run in OpenMP threads) and writes it; `csr_check` loads files and
asks `rvsp_csr_check` about them; `bench` loads a file that may or may not have been checked,
or generates, copies what it has into typed arrays and multiplies.

What is hard, and what makes each part correct:

- **Descriptor API.**  `compute` skips the fill when the *address* of `C->col_idx` is the one
  it filled before.  That address may have been freed and handed out again, filled by another
  descriptor, or the descriptor may have been re-estimated.  Correct means: the cache is
  invisible, a success always leaves the product in `C`, a failed estimate leaves no half of
  a structure, nothing leaks, no fill runs past the caller's arrays.
- **Symbolic phases and driver.**  Two passes over the same data must agree to the last
  column, and each clears only what it touched.  Correct means: rows of `C` canonical, sums
  in a fixed order, workspace zeroed on every exit, heap balanced.
- **Accumulators.**  Spans, scans and vector lengths may cut a row anywhere.  Correct means:
  each entry is added once to its own column, whatever `vsetvl` answers, and the loop ends.
- **Sort.**  The number of passes depends on the largest column.  Correct means: sorted, in place.
- **Checks.**  One of them is never told how long the column array is.  Correct means: exact
  verdicts, true reasons, reads inside the array for whatever the other has accepted.
- **Lifecycle and one-shot call.**  Three groups of allocations can fail in any part; `C` is filled
  in before the last step; a struct that validation refused stays filled in and may be passed all
  the same.  Correct means: one owner per block, a failed call changes nothing, a success has what
  its path asks for.
- **Loader.**  Rows are folded in the arrays they are read from, equal columns arrive in any
  order, the other triangle of a symmetric file is appended while the entries are walked, and
  ten allocations may fail.  Correct means: what is loaded is what the file says, in canonical
  form, and what stays allocated is what the result points to (but for what a failed `realloc`
  strands, which the code cannot free).
- **Generator.**  Five ways of drawing, each with its own window arithmetic, each deciding a row
  and its partner, and hardly a check of what is asked for.  Correct means: each row is decided by
  one iteration, draws stay inside for requests that are well asked, the CSR has what was drawn
  and is symmetric when that was asked for.
- **Benchmark.**  The number of columns is inferred, A and B may share their arrays, nothing
  compares two files with each other.  Correct means: a file that passed the check is squared
  inside its arrays, and every block is freed once.
- **Older kernels.**  `c_row_ptr` is compacted in place, duplicates must keep a row away from
  the gathering loop, and eleven returns each free a list of their own.  Correct means: the same
  product, no zeros stored, nothing leaked.

## 2. Modules

```
RvStatus            status codes, data types, chains of early returns (Then, Fail)
SpgemmApi           what include/rv_sparse.h promises of a descriptor (abstract)
 ^ refined by
SpgemmDescr         spgemm_descr.c and its caller                 SpgemmDescr_proofs
CsrPattern          products of sparsity patterns, for MCSpgemmDescr
Gustavson           rvsp_symbolic.c + gustavson_core_f32.inc      Gustavson_proofs
AccumRow            one row through one of the four accumulators  AccumRow_proofs
ColumnSort          rvsp_sort.h                                   ColumnSort_proofs
Workspace           rvsp_common.h: operators only                 ColumnSort_proofs
OneShot             matrix.c + spgemm.c + the older wrappers      OneShot_proofs
CsrCheck            rvsp_csr_validate, then rvsp_csr_check        CsrCheck_proofs
LegacyProduct       the older kernels and their policies          LegacyProduct_proofs
MtxLoader           mtx_to_csr_formatter.c + vec.c                BenchRun_proofs
Genmat              genmat.c: draw, emit, merge, symmetrise       BenchRun_proofs
 ^ instantiated by
MtxTools            MtxLoader (extended) + Genmat: write a file, then csr_check's main
BenchRun            MtxTools (extended) + bench's main            BenchRun_proofs
MC*                 instances for TLC
```

The modules meet at interfaces.  `SpgemmDescr` sees the structure of a product as one opaque
value; that the symbolic phases compute that value is `Gustavson`.  `Gustavson` states what
the sort and one row accumulation do; that they do it is `ColumnSort` and `AccumRow`.
`OneShot` says of a matrix in which way it is or is not well formed; that the checks find that
out is `CsrCheck`.  The caller is a part of `SpgemmDescr` and `OneShot`: it calls in any order.

### SpgemmDescr

One action per call and outcome.  `descr[h]` has the fields of `struct rvsp_spgemm_descr`,
`out[c]` those of the caller's `C`, `store[a]` is the memory at address `a` (which structure
it holds, how many entries fit), `live[h]` counts the descriptor's heap blocks, each by the name of
the variable that got it.  `work_estimation` frees the old structure before it allocates the new
one, so it has four outcomes: rejected before anything changed, out of memory, overflowed,
succeeded.  Its three blocks are allocated before any is tested: `EstimateOutOfMemory` lets any
of them be missing, puts the others on the heap and takes off what that return frees
(`FreedOutOfMemory`); `EstimateOverflows` has all three and the other return's list
(`FreedOnOverflow`).  A block that a list forgets stays in `live`, and `HeapBalanced` sees it.  The
caller replaces the storage of a `C` by `ReplaceStorage`, perhaps at an address used before.

Two ghosts describe the caller's contract.  `owed` holds the handles whose structure the caller
must invalidate before the next compute: the header asks for that when the storage is
replaced.  With `TracksSharing` the caller also does so when *another descriptor* filled the
buffer; no document asks for that, and the run `descr_shared` shows what happens without.
`MayCompute` adds the other half of the contract: operands with the dimensions of the
estimate also have its patterns, which the code cannot check.

### Gustavson, AccumRow, ColumnSort

One entry of B per step in `Gustavson`, one vector or unrolled group per step in `AccumRow`,
one array element per step in `ColumnSort`.  A floating-point sum is the sequence of the
products added to it, so two sums are equal only when they have the same products in the
same order; rounding itself is not modelled.  A malloc'd array starts out holding `Junk`.  A
gather/scatter reads all its lanes before it writes any, so of two lanes on one slot one is
lost, and which one is left open.  `Gustavson` adds the entries of a row of B one at a time, as the
scalar accumulator does; that the vector strategies add the same is `AccumRow`, for rows without
repeated columns.  So what `Gustavson` shows of rows that repeat a column does not extend to the
gathering kernels, which `rvsp_csr_check` keeps from such rows.  `heap` holds the blocks a call has
got: each of the mallocs of `C` may fail alone, and each failing return frees its own list
(`FreedOnOverflow`, `FreedWithoutC`).  `vsetvl` may answer with any length its specification
allows.  The shift `1 << (RVSP_RADIX_BITS * p)` of the sort is a table, the constant `Weight`,
with the assumption that each of its members is `BUCKETS` times the one before: the provers
know no powers.

### CsrCheck

Both validations, an iteration at a time, on any matrix: arrays that are NULL, sizes below zero and
every way for rows to be broken included.  The second runs whatever the first has found, as it
does in the library.  Reading past the column array gives any member of `Junk`, since
`rvsp_csr_check` is not told its length.

### OneShot

The heap is a set of blocks; a pointer holds one of them, `Null`, or `Caller` for an array of the
caller's.  One action per step of the call that may allocate, fail or change `C`.  Where the code
makes several mallocs before it tests them, any of them may fail and the others have their block;
what the return that follows frees by hand is a list of variables (`FreedOutOfMemory`,
`FreedOnOverflow`, `FreedWithoutBuffers`, then `FreesDescr`), so a variable that is missing in a
list is a block without an owner.  The allocator is the constant operator `Malloc`: of it nothing
is assumed but that a block it returns is free and no other's (`AllocatorAssumption`).

A caller may fill in a struct with `rvsp_csr_create`, which leaves it filled in when it refuses it,
or by hand (`Build`), and pass it on.  What can be wrong with one is told apart as the code does:
arrays that are NULL, a number of entries other than `row_ptr[rows]` or below zero, rows that are
unsorted, start above 0 or are broken.  The paths look at different parts of this.  FP32 is asked
by `rvsp_csr_check`, which does not know the number of entries the struct declares, and by
`check_operand`; the INT8 wrapper validates in full; the raw kernels look at neither that number
nor `row_ptr[0]`, and in FP64 a broken row of B that A does not reach passes.  `PathEarned` says
what each path has made sure of, and a success of what was refused is possible exactly where
these gaps are.  `ComputeStatus` has all the checks of `rvsp_spgemm_compute` in their order.

### LegacyProduct

The seven raw kernels as one machine with a `kind`, since they differ in a handful of places,
each of which is a definition: which kernels look through B first (`Scanned`), which rows may
be gathered (`UsesVector`), when an overflow is noticed (`Overflows`), who asks for room
before writing (`EmitRow`), and the three accumulation policies.  `upto` is how far a group of
entries is marked before the first of them is added: the whole row in the vector loops, four in
the unrolled ones, one elsewhere.  `c_row_ptr` holds counts, then starts, then ends, in the one
array the code has for all three.  `heap` holds every block by name, the two of
`build_b_duplicate_flags` (`seen`, `seen_touched`) too.  `Freed` maps each failing return to what it
frees: one list behind a label for the FP32 and FP64 vector kernels, a list at every return for
the others.  Groups of mallocs that are tested together may fail in any part.

### MtxLoader, Genmat, MtxTools, BenchRun

`MtxLoader` has one action per allocation, per loop iteration and per return of
`assemble_csr_matrix` and `canonicalise_rows`.  `coo_row`, `coo_col` and `coo_val` are one
sequence, `col_ind` and `val` one array of cells; `live` and `lost` say which blocks are
allocated and which of them no pointer is left to.  A group of mallocs may fail in any part: the
blocks that were got are in `live` until the return frees them (`FreedWithoutCoo`,
`FreedWithoutNewRp`).  When one of the three `realloc`s fails the code forgets the arrays that the
others left where they were: these are `lost`.  `AsFloat` is what `"%f"` into a `float` makes of the
number in the file.  A file is what the loader's reads can
tell apart: whether it opens, its banner, the sizes it announces, the entries it has.  An
array of no bytes is where a property of the C library shows: `realloc(p, 0)` frees and
returns NULL, so a symmetric file without entries is reported as out of memory.

`Genmat` lets the rows of a loop be decided in any order, since OpenMP threads share them; a row
is one atomic step, as every thread has its own `is_nz_ind` and writes only the two rows of its
iteration.  A random number is any number its range allows, and the p-th value drawn is 2^(p-1): a
sum tells which values it has.  The code checks of a request only that a symmetric one is square.
So the model asks for rows and columns and no more: bandwidths of 0 or wider than the matrix,
degrees of 0 and orders of 1 are all requests, and when a row would be drawn modulo 0, from
outside `is_nz_ind`, past the last row, or put its diagonal into a block of no places
(`GoesAstray`), the generator ends in `"undefined"` (`GoAstray`).  No draw lies above the diagonal
of a symmetric matrix, so `symmetrize_values` (`tools/src/genmat.c:829`) never changes a value;
the model has the pass all the same.

`MtxTools` composes them: the loader's variables are its own, the generator is `Gen == INSTANCE
Genmat`, and what is generated is written, loaded and checked.  The file has the doubles
(`"%.16e"`), the loader the floats next to them.  `BenchRun` adds the benchmark's `main` after
that of `csr_check`: `owned` holds its blocks, `astray` notes a `free` of something that is not
allocated, and a product that reads past `b_row_ptr` ends in `"undefined"` (`InsideB`,
`ReadsPast`: the kernels take each column of A for a row of B without a look at how many there
are, as in `rvsp_symbolic.c`).  `JobsAssumption` says what a command line can ask for: one file or
two, or one request that was drawn twice.

## 3. Runs

| run | instance | what it shows |
|---|---|---|
| `descr` | 2 descriptors, 2 outputs, 2 addresses, 4 right-hand sides, 2 capacities; symmetric | under every order of calls and failures the cache stays invisible, the heap balances and the API implements `SpgemmApi` |
| `descr_shared` | as `descr`, without `TracksSharing` | *violation*: a compute returns another descriptor's columns |
| `descr_room` | as `descr` | *violation*: storage that is large enough is refused |
| `gustavson` | 3×2 times 2×3, rows empty, canonical, unsorted, repeating; at most 6 entries; any malloc fails | the three phases return the product, zero their workspace and free at each failing return what is there |
| `accum_row` | every canonical row over 8 columns, scaled-down macros | every strategy adds each entry once, misses no run, finishes |
| `accum_offset` | as `accum_row`, byte offsets modulo 16 | *violation*: two columns of one gather share a slot |
| `sort` | every order of up to 4 columns, 1 to 3 digits | both sorts, odd and even pass counts, end sorted in place |
| `oneshot` | 3 matrix variables, 10 kinds of input, 6 option sets, a block for each variable and three results; symmetric | no leak, no double free whichever malloc fails, a failed call leaves `C` alone, a success has what its path asks for, compute cannot fail |
| `csr_check` | every matrix of up to 2 rows and 3 entries, sound or broken, with arrays missing or sizes below zero | exact verdicts, true reasons, reads inside the array |
| `legacy` | 2×2 times 2×3, 9 kinds of rows of B, every kernel and policy, any malloc fails | the same product, every refusal justified, each return frees its blocks |
| `tools` | some 230 files, requests of orders 1 to 6 in all five ways of drawing and ten that are not well asked, 3 modes of the benchmark | what is drawn, written, loaded and squared is one matrix, but for its values' narrowing and its empty last columns, read inside its arrays and freed once |
| `genmat_odd` | as `tools` | *violation*: the middle row of a symmetric matrix of odd order is left undecided |

Why these bounds are enough for the cases that matter:

- `descr`: sharing needs two descriptors on one address; recycling needs one address for two
  allocations; a stale skip needs two right-hand sides of one shape with products of equal
  length (`B1`, `B2`); too little room needs one with a longer product (`B3`), overflow one
  above `MaxNnz` (`B4`).  The theorems of section 5 then cover every size.
- `gustavson`: a stale mark or sum needs a column in two rows of C; three rows leave one in
  the middle.  `MaxNnz = 6` is passed by some products and not by others, in every row.
- `accum_row`: with `CONTIG_MIN = 3`, `SCAN_AHEAD = 5`, `GATHER_MIN = 3` and vectors of two and
  three lanes, eight columns hold a short run before a long one, a run at the end of the
  scan, one cut by it, and a remainder of every length.  `OFFSET_RANGE = 32` is the range in
  which eight columns do not wrap; `accum_offset` halves it.
- `sort`: three elements are the limit of the insertion sort, binary digits make one to three
  passes out of columns up to 6.
- `oneshot`: besides the blocks of a call there are three for each array of a matrix, one more than
  two operands that are results take, and a `C` that owns something is not passed, so the
  allocator never runs dry by the bound itself; failure is always also possible, of any of the
  mallocs.  An array takes the first block that is free, which the theorems of section 5 show to
  be no loss.  The inputs have one struct for each reason to refuse it that a path may overlook.
- `csr_check`: two rows are the least with a row pointer in the middle; three entries hold a
  row of two and a repeated, decreasing or out-of-range column on either side of its end.
- `legacy`: rows of up to five entries pass the group of four of the unrolled loops, hold a
  run and a rest, and cancel in part; every `vl` from 1 to 3 is possible in every step.
- `tools`: three entries in two rows and columns hold an entry and its mirror, a repetition
  that sums and one on the diagonal, a row that shrinks before one that does not; one file has
  a row of four entries, two of one column, so that ties come in both orders; others are
  short of what they announce, longer, without banner or sizes, of no rows, absent.  Orders 4
  and 6 are the least that reach the middle loop of each way of drawing; order 3 leaves a
  middle row; bandwidths of 0 and of the order or more, degrees of 0 and order 1 are there once for
  each way they go wrong.  Only even numbers are floats, so that some values change when they
  are written and read.  Among the benchmark's files are one that is too tall, too wide or empty.

Symmetry is used for descriptors, outputs, addresses and matrix variables, which the code
only compares for equality; no liveness property is checked in a run with symmetry.
Deadlock is checked in the descriptor and one-shot runs, whose caller can always call again.
The other runs are of one function that returns and say `CHECK_DEADLOCK FALSE`.

Each property is paired in `PROJECT.json` with a mutant: a `Slip...` operator, next to the
definition it stands in for, that changes one step the way a plausible bug would.  The slip
makes TLC find the property violated under the run's own configuration.

### Fairness

The library runs in the caller's thread.  The only liveness property is `Finishes` in
`AccumRow`, under `WF_vars(Next)`: a sequential function that was called executes its next
instruction.  Nothing weaker is needed and nothing stronger is assumed (`vsetvl` may always
answer with its shortest legal length).  `CsrCheck` and `ColumnSort` state the same
fairness, and `OneShot` states it inside a call only: the caller need not call.  `SpgemmDescr`,
`Gustavson`, `LegacyProduct` and the four modules of the tools check safety only and state none.

## 4. What the models found

Three places where a comment or the documentation says more than the code does, and one
where the code does not do what it set out to:

1. `src/core/spgemm_descr.c:330`, run `descr_shared`.  The comment says the fill is skipped "when
   this same output buffer already holds the structure".  The code checks that *this
   descriptor* filled the *address*; another descriptor may have filled it since, and compute
   then returns success with its own row pointers and the other's column indices.
2. `src/core/spgemm_descr.c:310`, run `descr_room`.  `docs/api_design.md` asks for arrays large
   enough for the entries.  `C->nnz` is the capacity before a compute and the size after one,
   so a smaller product shrinks what a later, larger one may use.
3. `src/kernels/spgemm/accum_rvv_f32.c:42`, run `accum_offset`.  The comment says lanes of a
   gather cannot alias in canonical CSR.  The byte offset is 32 bits wide, so columns 2^30
   apart do.
4. `tools/src/genmat.c:215` (and `:344`), run `genmat_odd`.  For a symmetric matrix of odd order n the
   row that the loops leave over is the one in the middle, n/2.  The code decides row n/2 + 1
   instead, which was decided before, and the middle row is read as `malloc` returned it.
   `tools/include/genmat.h:44` names a non-square request as the only error.

While modelling the tools more was noticed that is in the models but is no run of its own, since
no line of the repository promises otherwise or the behaviour ends the process: `csr_check` hands
a file that failed to load to `vector_free` and ends there (`bench/csr_check.c:69`); the arrays of
a symmetric file stay allocated when one of the three `realloc`s fails
(`tools/src/mtx_to_csr_formatter.c:230`); the diagonal of a square of order 1, which `--gen 1 1`
of the benchmark asks for, is written into a block of no places (`tools/src/genmat.c:542`), as is
that of every row of degree 0, and a bandwidth of 0 is a draw modulo 0 (`:145`); `bench` takes a
struct with row pointers and no columns for a matrix (`bench/bench.c:460`), never compares the two
files of `--mtx` (`:717`), and prints a right product as wrong when `csr_equal` is without memory
(`:344`).

Two things the models show to be dead code: the error path of the one-shot call after
`rvsp_spgemm_compute` (`ComputeCannotFail`, over all of its checks), and the check for room
before a write in the FP32 and FP64 vector kernels (`RowsFitTheirRoom`).  And in
`accumulate_row_f32_rvv_indexed_fast.c` the fallbacks of policies 1 and 2 for "offset zero without
a run" cannot be reached: the scan never answers so.

## 5. What is proved

`tlapm` checks these for every value of the constants.

**The descriptor API** (`SpgemmDescr_proofs`), for any number of descriptors, outputs, addresses
and operands.  The inductive invariant is

    IInv == TypeOK /\ HeapBalanced /\ StructureComplete /\ FillFitsStorage /\ OwnStorage

None of its parts is inductive alone.  That `live` stays a natural number needs
`HeapBalanced`, because `Destroy` subtracts what the descriptor reaches.  That a fill fits
needs `StructureComplete`: the code compares `C->nnz` with the `c_nnz` in the descriptor, and
only if that is the length of the structure does the comparison say anything.  That giving
one `C` new storage leaves the others' intact needs `OwnStorage`.  One lemma per call shows
that it keeps `IInv`, and `NextIInv` puts them together.  From it follow

- `TypeCorrect`, `HeapIsBalanced`, `StructureIsComplete`, `FillsFit`: whatever the caller shares;
- `StrategyIsAvailable` (`BackendResolved`): with the induction over `Gated`, which says that no
  descriptor carries a strategy the build lacks;
- `CacheIsSound`, `ComputesTheProduct`: assuming `TracksSharing`.  `CacheSound` is inductive on
  top of `IInv`: whoever writes into a buffer puts every other descriptor that remembers it
  into `owed`;
- `Implementation`: assuming `TracksSharing`, every step is a step of `SpgemmApi` or a stutter
  under the refinement mapping (`phase`, `algo`, `pair` from the descriptor, `result` from
  what a reader of `C` sees when row pointers and columns belong together).

`TracksSharing` cannot be dropped from the last three: `descr_shared` is the counterexample.

**The phases of the product** (`Gustavson_proofs`), for operands of any shape, with rows in any
order and with repeated columns.  The inductive invariant is

    Inv == Types /\ HeapInv /\ MarkInv /\ CountInv /\ FillInv /\ SumInv

It ties the scratch arrays to the part of the row that has been passed (`MarksMatchRow`,
`SumsRow`), the counts of the rows behind to the number of columns they have in the product
(`CountInv`), and what is filled in to those columns (`FillInv`).  The columns touched are
distinct, so there are at most `b_cols` of them: that is why their list never outgrows its slots.
The count and the fill walk the same entries, and since the invariant gives what each has met
as a set of columns, not as a list, that the two agree needs no comparison of one pass with
the other.  From it follow

- `Typed`: every index stays inside its array;
- `ScratchIsClean` (`ScratchMatchesRow`) and `PhasesLeaveZeroes` (`LeavesZeroed`): nothing of a
  row is left behind for the next one, or of a phase for the next phase;
- `PassesDoAgree` (`PassesAgree`): the fill meets exactly the columns that were counted;
- `ProductIsReturned` (`ReturnsProduct`): what is returned is A*B, with canonical rows and the sums
  in the order of the entries;
- `AllOrNothing` (`HeapOnReturn`): the caller gets three arrays or none, and whichever malloc failed
  no block is left.  `HeapInv` says which blocks there are at each step; the three failing returns
  are checked against it one by one.

`ReturnsProduct` is about entries that are added one at a time; for rows of B that repeat a column
it says nothing of the gathering strategies.

**The row accumulators** (`AccumRow_proofs`), for any row, any value of the macros and any
answer of `vsetvl`.  `RunsAreNotMissed` (`ScanIsRight`) holds of every row, canonical or not.  The
others are about sums and assume what the kernels do: `NoRepeats`, that no row of B repeats a
column, and `OffsetsFit`, that the last byte offset is in the range of the offsets.  Under them
`EntriesAddedOnce` (`EachEntryOnce`), `GathersDoNotAlias` (`GatherCannotAlias`, whose
violation without `OffsetsFit` is the run `accum_offset`: the comment in the code names the
first assumption and not the second) and `StrategiesAgree`: whatever the strategy, the
accumulator ends as the scalar loop leaves it.

**The column sort** (`ColumnSort_proofs`), for any row, number of buckets and number of passes.
`KeepsOrder` (`PassesKeepOrder`) and `SortIsRight` (`SortsInPlace`).  Two ideas carry the proof.  That
no column is lost or doubled is said with a bijection of positions (`Permuted`), which a step
composes with another one; no counting of elements is needed.  And the place where a pass
puts the element k is a cardinality, `PlaceOf(k) == Cardinality(Before(k))`, where `Before(k)` are
the elements with a smaller digit, or with the same digit and further to the front: sets that are
strictly nested, so `PlaceOf` is a bijection without an induction over the row.  Counting, prefix
sum and scattering each say how far they are in terms of such sets.  `OrderOfDigits`
then makes order by the lower digits, kept by a stable pass, and order by this digit into
order by both.

**The workspace layouts** (`Workspace`, proved in `ColumnSort_proofs`).  `LayoutsFit`: for every
number of columns the arrays of each of the three layouts are aligned, disjoint and inside
the size computed for them by a different function.  `SizesDoNotWrap`: no size passes 2^64.

**The one-shot call** (`OneShot_proofs`), for any number of matrices, any heap and any
allocator that keeps `AllocatorAssumption`.  The inductive invariant is

    Inv == Types /\ OwnsThree /\ HeapInv /\ LocInv /\ CallInv /\ OnlyCChanges /\ SuccessIsEarned

`HeapInv` says that the blocks of the matrices and those of the call are disjoint and together the
heap; `LocInv` which of the locals hold something at which step, and what the descriptor
remembers; `CallInv` that the arguments of a call past its checks still pass them.  From it follow
`Typed` (`TypeOK`), `BlocksOwned` (`EveryBlockOwned`), `FailureChangesNothing` (`OnlyCChanges`),
`SuccessEarned` (`SuccessIsEarned`) and `ComputeNeverFails` (`ComputeCannotFail`): the error path
after `rvsp_spgemm_compute` is dead code on every input, structs that were refused included.

**The two validations** (`CsrCheck_proofs`), for any set of matrices of any size.
`ValidationIsRight`, `CheckIsRight`, `BlamesTheFirstRow` (`FirstFault`: of several faults it is
the one in the first row that is reported, and truly so unless that row reaches past the column
array) and `ChecksInside` follow from an invariant that says, for each loop, what the part of the
matrix behind it satisfies.  Two of its parts replace an induction over the rows, which the
provers cannot do: `Below` (no row pointer met so far is negative or above the one the loop stands
at) turns monotone steps into `row_ptr[i] <= row_ptr[rows]` one row at a time, and `Rising`
carries the steps themselves.

**The older kernels** (`LegacyProduct_proofs`), for operands of any shape, every kernel, every
policy and any value of the macros.  The inductive invariant is

    Place /\ Marks /\ Counts /\ Sums /\ Written

`Place` says where each loop is and what of the operands it has looked at; `Marks` which columns
are marked, as the columns of a set of pairs of entries; `Counts` what `c_row_ptr` holds behind
the row at hand and in front of it, in each of its three roles: the number `EntriesBefore(r)` of
columns that the rows before r can have is a cardinality, so the prefix sum needs no induction.
`Sums` says of each column that the accumulator holds the sum over the pairs *passed so far*, which
is why neither the order of the loops nor the cuts into runs, gathers, spans and groups of four
matter.  A sum over a set is a CHOOSE among functions on its subsets; that there is such a
function, that any two agree and that removing any one element takes away its value is proved
by well-founded induction over finite sets (`SumsExist`, `SumsAgree`, `SumsRemove`).  A gather adds
its lanes one column at a time (`GatheredLanes`), and lanes of one row without duplicates have
different columns: that is where the flags of `build_b_duplicate_flags` are needed.  `Written` holds
the rows that are out.  From it follow

- `Typed` (`TypeOK`): the list of touched columns never outgrows its array;
- `RoomSuffices` (`RowsFitTheirRoom`): what is written never passes a row start that is still to be
  read, and the check for room is dead code;
- `RefusalsHaveReasons` (`RefusesWhatIsBroken`);
- `NothingLeaks` (`HeapOnReturn`): the blocks held at each place are stated by `Place`, and each of
  the nine failing returns and each return of the flags frees just those;
- `ProductIsReturned` (`ReturnsProduct`): a success returns A*B, whichever loop added what;
- `RowsAreCanonical`: its columns ascend in each row and no zero is among its values.

**The tools** (`BenchRun_proofs`, which holds the proofs of four modules since they meet there).

*The loader* (`MtxLoader`), for any set of files.  The inductive invariant is

    IInv == TypeInv /\ HeapInv /\ RowsInv /\ FoldInv

`RowsInv` says that `row_ptr[r]` is the *number of entries in rows before r*: counted that way
rather than summed, it is bounded by the number of entries without an induction over the rows.
`HeapInv` gives `live` and the fields of the result as a function of `pc`.  `FoldInv` describes
`canonicalise_rows` in the middle of a row: the rows behind are canonical and end before
`write`, the row at hand is sorted in `buf`, and `write` is at most `row_ptr[i] + t` and, while
a group is open, below it.  That last inequality is what the code's remark about compacting in
place rests on.  Each action has a lemma that it keeps `FoldInv`.  From it follow

- `TypeCorrect`: the loops stay inside the rows and the entries inside the matrix;
- `NeverClobbers`: no step of the folding writes a cell of a row still to be read;
- `Canonical`: a matrix that is returned whole is canonical;
- `HeapAccounted`: whichever of the ten allocations fails, at a return exactly what the struct
  points to is allocated, and besides it only what a failed `realloc` left without a pointer;
- `LoadedAsStored` (`LoadsWhatIsStored`): a matrix that is loaded whole is the one in the file.

The last needs to say at each step what the arrays *mean*.  `Alike(F, D, G, H)` says that the
cells of F on D and those of G on H have the same columns and the same sum in each.  The
inductive invariant `Contents` adds to `IInv` three parts that hand this relation from one loop to
the next: `ReadInv` (the coordinate entries of a row are alike to the part of the file that is
read, and then to what is mirrored behind k), `ScatterInv` (the cells of a row up to its cursor are
alike to its coordinate entries before k) and `SaysInv` (a row still to be read is alike to what
the file means; so is buf, whose t first cells are folded into cells with distinct columns,
but for the open group; a row that is folded `Holds` the file's columns and sums).  One
lemma per way of changing the sets carries it: an element joins on both sides (`AlikeGains`), the
elements change places (`AlikeMoves`, for the sort, which may order ties as it likes), a group
opens, grows and closes (`FoldsOpens`, `FoldsAdds`, `FoldsCloses`).  Sums are over finite sets,
and their laws (`TotalOfOneMore`, `TotalSame`, `TotalMoves`) come from those of `SumsExist` by
induction on sets.

*The generator* (`Genmat`), for every order, shape and bandwidth.  `LoopFacts` shows that in each
of the five ways the bounds of the loops rise from row 0 to the last one, or to the middle.  On
top of it the inductive invariant `DInv` says that the rows with a block are those of the loops so
far that are not pending, and, for a symmetric matrix, their partners; a row j below the middle
has its partner `r1 - j` at or above it, so no two iterations meet.  Every step of the programs is
a step of the generator or leaves it alone (`GeneratorStep`), so `RowsShared` holds of the
composition: `RowsDecidedOnce`, each row allocated once, none left over, whichever thread comes
first.  `DrawsFit` is `DrawsStayInside`.  `WindowFacts` goes through the five ways of drawing and
their loops: never a draw modulo 0, never a column outside the matrix or the band.
`AscendingFacts` shows that the scan of the marks loses none and finds no other (the ranks of n
marks are n different numbers below n, hence all of them), so a row has as many indices as it has
marks, never more than its degree, which is the length of its block; `TurnedInside` that what row
j draws above its diagonal lies, turned around, in the band of its partner `r1 - j`.  The
invariant `Drawn` carries this to the end for every row with a block.  `Ascending` is stated by
ranks because the library's sort is a built-in of TLC that the provers cannot open.
`RequestsAssumption` asks for rows and columns only.  What else a request needs is the premise of
the property, `WellAsked`: of a square, bandwidths below the order and an upper one above 0,
degrees of at least 1, and no odd symmetric order.  It is what the caller owes, for the code
checks none of it; `NotAstrayStep` shows that it is enough, so that no step of a request that
meets it is `GoAstray`, and each part of it is needed: without it TLC finds the request that goes
astray, and for the odd order that is the run `genmat_odd`.

*The benchmark* (`BenchRun`), for any command lines and any number of iterations.
`EverythingIsFreed` (`NothingLeaks`): the loader leaves what `HeapOnReturn` says, there is no
`free` of what is not allocated, and a benchmark that comes to its end owns nothing.  The
inductive invariant is `Books /\ Loading`. `Ledger` says that `owned` is exactly the vectors of
what was parsed, the arrays of the matrices built and those of the reference product, less what
the clean-up has freed; `LoadsInOrder` and `BuildsWhole` which of them are there at each step;
`Loading` that a load under way is one of `MtxLoader`, whose struct has no field, the row
pointers, or all three.  A and B may share one file's arrays: the clean-up frees a *list* of
blocks, and `ListsJoin` shows when a concatenation of lists names each block once.

`CheckedIsSquared` (`CheckedCanBeSquared`) joins the two programs: what one load of a file let
`csr_check` find holds of a later load of the same file.  The link is `ColumnsFit`, a statement
about the *file* alone: no entry of it, and no mirror, has a column past the last row.
`LoadedFacts` says that of a matrix that is loaded whole the columns stay below the number of
rows just when `ColumnsFit` holds, which needs both directions of `LoadsWhatIsStored`;
`FitsSoFar` carries it from the check to the exit status, `SquareJob` from there through the
load, the validation, the reference product and every iteration.  On the way `NamedAsStored` lifts
`LoadedAsStored` to the composition, for every file that is named on a command line (`LoadsNamed`);
a file that the generator wrote is left to `RoundTrip`, which is model-checked.
A crash of `csr_check` or of the benchmark (a struct half built, read through NULL) is an outcome
that the property allows: it promises the reads of the product, not that there is one.

Assumptions.  The named `ASSUME`s on the constants, which say what the values are and which
TLC evaluates in every run; `TracksSharing`, `NoRepeats` and `OffsetsFit` where stated.

## 6. What is only model-checked

- `MtxTools` and `Genmat`: that the CSR has what was drawn (`MakesWhatWasDrawn`, `SymmetricWhenAsked`,
  `RoundTrip`).  What is drawn is
  put in order by sorting, flattening and selecting from sequences: library operators
  defined by recursion over a sequence, whose values for every length are not proved here.
- Liveness (`Finishes`) and `ENABLED`, which are out of the provers' reach altogether.  RECURSIVE
  operators would be too, but the project has none.  The library's induction theorems take an
  operator as a parameter and cannot be used; where an induction was needed (the sums of
  `LegacyProduct_proofs` and of the loader) it is well-founded induction on a *set* of
  counterexamples, which has none (`Least`, `Induction`, `SetInduction`).

## 7. Assumptions and abstractions

- The caller does not pass an operand as `C`, releases a `C` it owns before passing it again,
  and keeps the contract of `MayCompute`.
- Patterns, structures and values are abstract; floating-point rounding is not modelled;
  `LegacyProduct` uses integers too small to wrap.
- A caller of the generator asks for what `WellAsked` says; what happens otherwise is modelled as
  `"undefined"` and nothing is shown of it.
- Not in `LegacyProduct`: NULL arguments at entry, empty shapes, negative or decreasing row
  pointers.  Not in `Gustavson`: the argument checks at entry.
- Files have their entries inside the sizes they announce (`LoaderAssumption`).  A value becomes the
  float `AsFloat` makes of it; sums of floats are exact after that.  So the models do not show
  that the order in which `qsort` leaves entries of one column may change the last bits of their
  sum (`mtx_to_csr_formatter.c:116`).
- The allocations of `vec.c`, which nobody looks at, do not fail.  An allocation that fails in the
  generator ends the process and is left out.
- The clock, the statistics and the CSV output of the benchmark are left out; its kernels fail
  or multiply.
- The address `malloc` returns for a workspace is not modelled, only offsets in it.

## 8. What is not modelled, and why

| part | why |
|---|---|
| `src/core/error.c` | a total function from codes to text |
| parts of `bench/bench.c` | statistics, the table of kernels, cycle counters and what is printed |
| `bench/run_bench.sh`, `bench/analyze.py`, `matrices/getResources.sh` | shell and Python around the benchmark |
| `tests/`, `examples/` | callers; read for the inputs and call sequences the models allow |

## 9. Plan

Order of work: the descriptor API and its abstract specification first, since its cache is
where the library remembers most; then the phases it calls, from the outside in (driver and
symbolic phases, accumulators, sort); then what surrounds it (one-shot call, checks, layouts,
older kernels); then the tools around it, from the loader and the generator to the benchmark
that joins them.  All of these exist, and all but what section 6 lists is proved.

Proving has changed the models twice.  `LegacyProduct` was one action per row; told apart entry by
entry, its invariant could be stated and the model became closer to the code.  And `Usage` in
`MtxTools` lacked the guard that no load is under way: with a missing file as the last argument the
program could print its usage in the middle of a load, which TLC's instances did not show to be
wrong and the proof of `Loading` did.

## Running

```
cd tla
tlc -workers 2 -config MCSpgemmDescr.cfg MCSpgemmDescr
tlapm SpgemmDescr_proofs.tla
```
