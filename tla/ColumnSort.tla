------------------------------- MODULE ColumnSort -------------------------------
(***************************************************************************)
(* rvsp_sort_columns (kernels/spgemm/rvsp_sort.h): the columns of one row  *)
(* of C are sorted in place, by insertion when the row is short and by a   *)
(* least-significant-digit radix sort through a scratch array when it is   *)
(* long.  Arrays are functions from 0, as in the code.                     *)
(***************************************************************************)
EXTENDS Integers, Sequences, FiniteSets

CONSTANTS
    Inputs,             \* <<columns, max_col>>: the calls to check
    INSERTION_LIMIT,    \* RVSP_SORT_INSERTION_LIMIT
    BUCKETS,            \* RVSP_RADIX_BUCKETS
    MAX_PASSES,         \* 4, the digits of an int32_t
    Weight,             \* of a digit: 1 << (RVSP_RADIX_BITS * p)
    Junk                \* the contents of the scratch array

ASSUME SortAssumption ==
    /\ \A in \in Inputs : in[2] \in Nat /\ in[1] \in Seq(0 .. in[2])
    /\ \A in \in Inputs : in[2] < Weight[MAX_PASSES]
    /\ INSERTION_LIMIT \in Nat /\ INSERTION_LIMIT >= 1
    /\ BUCKETS \in Nat /\ BUCKETS >= 2 /\ MAX_PASSES \in Nat \ {0}
    /\ Weight \in [0 .. MAX_PASSES -> Nat \ {0}] /\ Weight[0] = 1
    /\ \A p \in 0 .. MAX_PASSES - 1 : Weight[p + 1] = BUCKETS * Weight[p]
    /\ Junk \notin Nat

VARIABLES
    input, pc,
    cols, tmp,          \* the row and the scratch array
    i, j, key,          \* insertion sort
    passes, pass,       \* radix sort: how many, and the current one
    src,                \* which array the pass reads: "cols" or "tmp"
    count, running, b

insertion == <<i, j, key>>
radix == <<passes, pass, src, count, running, b>>
vars == <<input, pc, cols, tmp, insertion, radix>>

n == Len(input[1])
max_col == input[2]
Here(name) == IF name = "cols" THEN cols ELSE tmp
Other(name) == IF name = "cols" THEN "tmp" ELSE "cols"
Digit(x, p) == (x \div Weight[p]) % BUCKETS

Init ==
    /\ input \in Inputs
    /\ pc = "enter"
    /\ cols = [k \in 0 .. Len(input[1]) - 1 |-> input[1][k + 1]]
    /\ tmp = [k \in 0 .. Len(input[1]) - 1 |-> Junk]
    /\ i = 1 /\ j = 0 /\ key = 0
    /\ passes = 1 /\ pass = 0 /\ src = "cols"
    /\ count = [d \in 0 .. BUCKETS - 1 |-> 0] /\ running = 0 /\ b = 0

Enter ==
    /\ pc = "enter"
    /\ pc' = IF n <= 1 THEN "done" ELSE IF n <= INSERTION_LIMIT THEN "insert" ELSE "passes"
    /\ UNCHANGED <<input, cols, tmp, insertion, radix>>

-------------------------------------------------------------------------------
(* rvsp_insertion_sort_i32 *)

TakeKey ==
    /\ pc = "insert" /\ i < n
    /\ key' = cols[i] /\ j' = i - 1
    /\ pc' = "shift"
    /\ UNCHANGED <<input, cols, tmp, i, radix>>

MustShift == j >= 0 /\ cols[j] > key

Shift ==
    /\ pc = "shift" /\ MustShift
    /\ cols' = [cols EXCEPT ![j + 1] = cols[j]]
    /\ j' = j - 1
    /\ UNCHANGED <<input, pc, tmp, i, key, radix>>

PlaceKey ==
    /\ pc = "shift" /\ ~MustShift
    /\ cols' = [cols EXCEPT ![j + 1] = key]
    /\ i' = i + 1
    /\ pc' = "insert"
    /\ UNCHANGED <<input, tmp, j, key, radix>>

Inserted ==
    /\ pc = "insert" /\ i >= n
    /\ pc' = "done"
    /\ UNCHANGED <<input, cols, tmp, insertion, radix>>

-------------------------------------------------------------------------------
(* rvsp_radix_sort_i32 *)

\* Slip: the last digit max_col needs is left out.
SlipOnePassShort == passes < MAX_PASSES /\ max_col \div Weight[passes + 1] > 0
NeedsPass == passes < MAX_PASSES /\ max_col \div Weight[passes] > 0

CountPasses ==
    /\ pc = "passes"
    /\ IF NeedsPass THEN passes' = passes + 1 /\ UNCHANGED pc
                    ELSE pc' = "count" /\ UNCHANGED passes
    /\ i' = 0
    /\ UNCHANGED <<input, cols, tmp, j, key, pass, src, count, running, b>>

CountDigit ==
    /\ pc = "count" /\ i < n
    /\ count' = [count EXCEPT ![Digit(Here(src)[i], pass)] = @ + 1]
    /\ i' = i + 1
    /\ UNCHANGED <<input, pc, cols, tmp, j, key, passes, pass, src, running, b>>

Counted ==
    /\ pc = "count" /\ i >= n
    /\ pc' = "prefix" /\ running' = 0 /\ b' = 0
    /\ UNCHANGED <<input, cols, tmp, insertion, passes, pass, src, count>>

PrefixBucket ==
    /\ pc = "prefix" /\ b < BUCKETS
    /\ count' = [count EXCEPT ![b] = running]
    /\ running' = running + count[b]
    /\ b' = b + 1
    /\ UNCHANGED <<input, pc, cols, tmp, insertion, passes, pass, src>>

\* Slip: the places of the last pass are kept.
SlipKeepsCount == count
ZeroCount == [d \in DOMAIN count |-> 0]

StartScatter ==
    /\ pc = "prefix" /\ b >= BUCKETS
    /\ pc' = "scatter" /\ i' = 0
    /\ UNCHANGED <<input, cols, tmp, j, key, radix>>

\* dst[count[digit]++] = src[i]
Scatter ==
    /\ pc = "scatter" /\ i < n
    /\ LET x == Here(src)[i]
           d == Digit(x, pass)
       IN
       /\ IF src = "cols" THEN tmp' = [tmp EXCEPT ![count[d]] = x] /\ UNCHANGED cols
                          ELSE cols' = [cols EXCEPT ![count[d]] = x] /\ UNCHANGED tmp
       /\ count' = [count EXCEPT ![d] = @ + 1]
    /\ i' = i + 1
    /\ UNCHANGED <<input, pc, j, key, passes, pass, src, running, b>>

\* The arrays swap; the next pass starts with zeroed buckets.
PassDone ==
    /\ pc = "scatter" /\ i >= n
    /\ src' = Other(src) /\ pass' = pass + 1
    /\ pc' = IF pass + 1 < passes THEN "count" ELSE "back"
    /\ count' = ZeroCount /\ i' = 0
    /\ UNCHANGED <<input, cols, tmp, j, key, passes, running, b>>

\* An odd number of passes leaves the result in tmp.
CopyBack ==
    /\ pc = "back"
    /\ cols' = IF src = "tmp" THEN tmp ELSE cols
    /\ pc' = "done"
    /\ UNCHANGED <<input, tmp, insertion, radix>>

Next ==
    \/ Enter
    \/ TakeKey \/ Shift \/ PlaceKey \/ Inserted
    \/ CountPasses \/ CountDigit \/ Counted \/ PrefixBucket \/ StartScatter
    \/ Scatter \/ PassDone \/ CopyBack

Spec == Init /\ [][Next]_vars /\ WF_vars(Next)

-------------------------------------------------------------------------------
(* Correctness *)

Places == 0 .. n - 1
Occurrences(a, x) == Cardinality({k \in Places : a[k] = x})
SameColumns(a) ==
    \A k \in Places : Occurrences(a, a[k]) =
        Cardinality({m \in 1 .. n : input[1][m] = a[k]})

\* Indices stay inside the row, the scratch array and the buckets.
TypeOK ==
    /\ cols \in [Places -> 0 .. max_col]
    /\ tmp \in [Places -> 0 .. max_col \cup {Junk}]
    /\ i \in 0 .. n + 1 /\ j \in -1 .. n /\ key \in 0 .. max_col
    /\ passes \in 1 .. MAX_PASSES /\ pass \in 0 .. passes /\ src \in {"cols", "tmp"}
    /\ count \in [0 .. BUCKETS - 1 -> 0 .. n]
    /\ running \in 0 .. n /\ b \in 0 .. BUCKETS

\* No column is lost or doubled while the key is out of the array, nor by a
\* pass that reads one array and writes the other.
NothingLost ==
    /\ pc \in {"enter", "insert", "passes", "done"} => SameColumns(cols)
    /\ pc = "shift" => SameColumns([cols EXCEPT ![j + 1] = key])
    /\ pc \in {"count", "prefix", "scatter", "back"} => SameColumns(Here(src))

\* Each pass keeps the order of the digits before it: what the next pass reads
\* is ordered by the digits done so far.
DigitsSorted ==
    /\ pc \in {"count", "prefix", "scatter", "back"} =>
         \A k, m \in Places : k < m =>
            Here(src)[k] % Weight[pass] <= Here(src)[m] % Weight[pass]
    /\ pc = "insert" => \A k, m \in 0 .. i - 1 : k < m => cols[k] <= cols[m]

\* The invariant of both sorts: indices stay inside, no column is lost, and what
\* was done so far is in order.
PassesKeepOrder == TypeOK /\ NothingLost /\ DigitsSorted

\* The row ends up in ascending order in the array it came in, whichever sort
\* ran and however many passes it took.
SortsInPlace ==
    pc = "done" => SameColumns(cols) /\ \A k, m \in Places : k < m => cols[k] <= cols[m]

===============================================================================
