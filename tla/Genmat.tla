-------------------------------- MODULE Genmat --------------------------------
(***************************************************************************)
(* genmat_generate_csr (tools/src/genmat.c): a random pattern is drawn row *)
(* by row, by OpenMP threads, in one of five ways that depend on the shape *)
(* and the bandwidths; its entries are given values, turned into CSR and,  *)
(* when a symmetric matrix is asked for, completed and made symmetric.     *)
(*                                                                         *)
(* A random number is any number its range allows.  The values are marked  *)
(* by where they were drawn: the p-th is 2^(p-1), so that every sum tells  *)
(* which values went into it.  Blocks that cannot be allocated end the     *)
(* process (safe_malloc), so no allocation fails here.                     *)
(***************************************************************************)
EXTENDS Integers, Sequences, FiniteSets, FiniteSetsExt, SequencesExt

CONSTANTS
    Requests    \* genmat_params_t: shape, symmetric, column, bandwidths, degrees

VARIABLES
    req, pc,
    loop, pending,      \* phase 1: the loop, and its rows that are not done
    indices, degrees,   \* of the rows that are decided
    callocs,            \* how many rows were allocated
    coo,                \* the entries, in the order they are emitted
    csr,                \* rows of [col, val]
    row                 \* symmetrize_values: the row it is at

deciding == <<loop, pending, indices, degrees, callocs>>
vars == <<req, pc, deciding, coo, csr, row>>

is_square == req.rows = req.cols
id_first == IF req.column /\ ~is_square THEN req.cols ELSE req.rows
id_second == IF req.column /\ ~is_square THEN req.rows ELSE req.cols
low == req.low
up == IF req.symmetric THEN req.low ELSE req.up
Rows == 0 .. id_first - 1

\* What is asked for.  The code looks at the shape of a symmetric request only:
\* a bandwidth may be 0 or wider than the matrix, and no degree may be allowed.
RequestType ==
    [rows : Nat, cols : Nat, symmetric : BOOLEAN, column : BOOLEAN,
     low : Nat, up : Nat, min : Nat, max : Nat]
RequestsFit ==
    /\ Requests \subseteq RequestType
    /\ \A r \in Requests : r.rows > 0 /\ r.cols > 0

\* rand_count clamps to min first and to max after it.
max_degree == Min({req.max, id_second - 1})
Degrees == IF req.min <= max_degree THEN req.min .. max_degree ELSE {max_degree}

Init ==
    /\ req \in Requests /\ pc = "start"
    /\ loop = 0 /\ pending = {}
    /\ indices = <<>> /\ degrees = <<>> /\ callocs = 0
    /\ coo = <<>> /\ csr = <<>> /\ row = 0

-------------------------------------------------------------------------------
(* Phase 1: which distribution, its loops, and where each may draw *)

r1 == id_first - 1
r2 == id_first \div 2
ru == id_first - up
rl == id_first - low

Distribution ==
    CASE ~is_square -> "rectangular"
      [] is_square /\ req.symmetric -> IF low < r2 THEN "sym1" ELSE "sym2"
      [] OTHER -> IF low > ru THEN "square1" ELSE "square2"

\* Slip: the symmetric ways stop one row before the middle.
SlipStopsShort ==
    CASE Distribution = "rectangular" -> <<0, id_first>>
      [] Distribution = "sym1" -> <<0, low, r2 - 1>>
      [] Distribution = "sym2" -> <<0, rl - 1, r2 - 1>>
      [] Distribution = "square1" -> <<0, ru, low, id_first>>
      [] OTHER -> <<0, low, ru, id_first>>
\* Loop l handles the rows from Bounds[l] to the one before Bounds[l + 1].
Bounds ==
    CASE Distribution = "rectangular" -> <<0, id_first>>
      [] Distribution = "sym1" -> <<0, low, r2>>
      [] Distribution = "sym2" -> <<0, rl - 1, r2>>
      [] Distribution = "square1" -> <<0, ru, low, id_first>>
      [] OTHER -> <<0, low, ru, id_first>>
LoopRows(l) == Bounds[l] .. Bounds[l + 1] - 1

\* Slip: the last rows draw from a width that is one too large.
SlipWide(j) ==
    CASE Distribution = "rectangular" -> <<0 .. id_second - 1>>
      [] Distribution = "sym1" -> <<0 .. j + low - 1, j - low .. j + low - 1>>
      [] Distribution = "sym2" -> <<0 .. j + low - 1, Rows>>
      [] Distribution = "square1" -> <<0 .. j + up - 1, Rows, j - low .. id_first>>
      [] OTHER -> <<0 .. j + up - 1, j - low .. j + up - 1, j - low .. id_first>>
\* The columns that a draw for row j may hit in each loop: what xorshift32 %
\* width + first can be.
Windows(j) ==
    CASE Distribution = "rectangular" -> <<0 .. id_second - 1>>
      [] Distribution = "sym1" -> <<0 .. j + low - 1, j - low .. j + low - 1>>
      [] Distribution = "sym2" -> <<0 .. j + low - 1, Rows>>
      [] Distribution = "square1" -> <<0 .. j + up - 1, Rows, j - low .. id_first - 1>>
      [] OTHER -> <<0 .. j + up - 1, j - low .. j + up - 1, j - low .. id_first - 1>>
Window(j) == Windows(j)[loop]

\* What of it a symmetric row j and its partner r1 - j take.
Below(j) == IF Distribution = "sym1" /\ loop = 2 THEN j - low .. j - 1 ELSE 0 .. j - 1
Above(j) == IF Distribution = "sym2" /\ loop = 2 THEN j + 1 .. id_first - 1
                                                 ELSE j + 1 .. j + low - 1

\* How often a row of degree d draws: in a square the diagonal is not drawn.
Draws(d) == IF is_square THEN d - 1 ELSE d

\* The marks that n draws from a window can leave in is_nz_ind.
Marks(n, window) ==
    IF n <= 0 THEN {{}} ELSE {b \in SUBSET window : b # {} /\ Cardinality(b) <= n}

\* Row j cannot be done with degree d: it is no row, it draws modulo 0 or from
\* columns that is_nz_ind does not have, or the diagonal is written into a block
\* of no places.
GoesAstray(j, d) ==
    \/ j \notin Rows
    \/ Draws(d) > 0 /\ ~(Window(j) # {} /\ Window(j) \subseteq 0 .. id_second - 1)
    \/ is_square /\ d = 0

\* What a scan of is_nz_ind meets, from the first mark to the last.
Ascending(S) ==
    [p \in 1 .. Cardinality(S) |-> CHOOSE x \in S : Cardinality({y \in S : y < x}) = p - 1]

\* f with x at place j, which it may have or not.
Put(f, j, x) == [y \in DOMAIN f \cup {j} |-> IF y = j THEN x ELSE f[y]]

\* A block of d indices, zeroed, that the list is written into.
Block(d, list) == [x \in 0 .. d - 1 |-> IF x < Len(list) THEN list[x + 1] ELSE 0]

Begin ==
    /\ pc = "start" /\ ~(req.symmetric /\ ~is_square)
    /\ loop' = 1 /\ pending' = LoopRows(1) /\ pc' = "decide"
    /\ UNCHANGED <<req, indices, degrees, callocs, coo, csr, row>>

\* "symmetric requested but not square": nothing was allocated.
Refuse ==
    /\ pc = "start" /\ req.symmetric /\ ~is_square
    /\ pc' = "refused"
    /\ UNCHANGED <<req, deciding, coo, csr, row>>

\* Some thread does row j of the loop.
DecideRow ==
    /\ pc = "decide" /\ ~req.symmetric
    /\ \E j \in pending, d \in Degrees :
         /\ ~GoesAstray(j, d)
         /\ \E marks \in Marks(Draws(d), Window(j)) :
           LET list == Ascending(IF is_square THEN marks \cup {j} ELSE marks) IN
           /\ indices' = Put(indices, j, Block(d, list))
           /\ degrees' = Put(degrees, j, Len(list))
           /\ pending' = pending \ {j} /\ callocs' = callocs + 1
    /\ UNCHANGED <<req, pc, loop, coo, csr, row>>

\* Row j takes the draws below the diagonal and itself, row r1 - j those above,
\* turned around, and itself.
DecideRowAndMirror ==
    /\ pc = "decide" /\ req.symmetric
    /\ \E j \in pending, d \in Degrees :
       /\ ~GoesAstray(j, d)
       /\ \E marks \in Marks(Draws(d), Window(j)) :
         LET list == Append(Ascending(marks \cap Below(j)), j)
             above == Ascending(marks \cap Above(j))
             turned == Append([p \in DOMAIN above |-> id_first - above[p]], r1 - j)
         IN
         /\ indices' = Put(Put(indices, j, Block(d, list)), r1 - j, Block(d, turned))
         /\ degrees' = Put(Put(degrees, j, Len(list)), r1 - j, Len(turned))
         /\ pending' = pending \ {j} /\ callocs' = callocs + 2
    /\ UNCHANGED <<req, pc, loop, coo, csr, row>>

\* The end of an omp for is a barrier: no row of the next loop begins before.
NextLoop ==
    /\ pc = "decide" /\ pending = {}
    /\ IF loop + 1 < Len(Bounds)
         THEN loop' = loop + 1 /\ pending' = LoopRows(loop + 1) /\ UNCHANGED pc
         ELSE /\ pc' = IF req.symmetric /\ id_first % 2 = 1 THEN "middle" ELSE "emit"
              /\ UNCHANGED <<loop, pending>>
    /\ UNCHANGED <<req, indices, degrees, callocs, coo, csr, row>>

\* An odd order: row r2 + 1 is decided, and r1 - j is given a block, no degree.
DecideMiddle ==
    /\ pc = "middle"
    /\ \E d \in Degrees : LET j == r2 + 1 IN
       /\ ~GoesAstray(j, d)
       /\ \E marks \in Marks(Draws(d), Window(j)) :
         LET list == Append(Ascending(marks \cap Below(j)), j) IN
         /\ indices' = Put(Put(indices, j, Block(d, list)), r1 - j, Block(d, <<>>))
         /\ degrees' = Put(degrees, j, Len(list))
         /\ callocs' = callocs + 2
    /\ pc' = "emit"
    /\ UNCHANGED <<req, loop, pending, coo, csr, row>>

\* What a row does that goes astray is not defined.
GoAstray ==
    /\ \E d \in Degrees :
         \/ pc = "decide" /\ \E j \in pending : GoesAstray(j, d)
         \/ pc = "middle" /\ GoesAstray(r2 + 1, d)
    /\ pc' = "undefined"
    /\ UNCHANGED <<req, deciding, coo, csr, row>>

-------------------------------------------------------------------------------
(* Phases 2 and 3: the entries *)

\* degrees and indices come from malloc: a row that nobody decided has any
\* degree and any pointer, and what reading it does is not defined.
ReadUndecided ==
    /\ pc = "emit" /\ ~(Rows \subseteq DOMAIN indices)
    /\ pc' = "undefined"
    /\ UNCHANGED <<req, deciding, coo, csr, row>>

Entry(j, x) == IF req.column THEN [row |-> x, col |-> j] ELSE [row |-> j, col |-> x]

Emit ==
    /\ pc = "emit" /\ Rows \subseteq DOMAIN indices
    /\ LET lists == [j \in 1 .. id_first |->
                       [x \in 1 .. degrees[j - 1] |-> Entry(j - 1, indices[j - 1][x - 1])]]
           all == FlattenSeq(lists)
       IN  coo' = [p \in 1 .. Len(all) |->
                     [row |-> all[p].row, col |-> all[p].col, val |-> 2 ^ (p - 1)]]
    /\ pc' = "convert"
    /\ UNCHANGED <<req, deciding, csr, row>>

-------------------------------------------------------------------------------
(* Phase 4: coo_to_csr and the symmetric passes *)

\* Slip: of the entries of one place the last replaces those before it.
SlipReplaces(merged, e) ==
    IF merged # <<>> /\ Last(merged).col = e.col
      THEN [merged EXCEPT ![Len(merged)] = e] ELSE Append(merged, e)
Merge(merged, e) ==
    IF merged # <<>> /\ Last(merged).col = e.col
      THEN [merged EXCEPT ![Len(merged)].val = @ + e.val] ELSE Append(merged, e)

\* The entries by row, sorted by column, those of one place summed.
CooToCsr(entries) ==
    [r \in 0 .. req.rows - 1 |->
       LET mine == SelectSeq(entries, LAMBDA e : e.row = r)
           cells == [p \in 1 .. Len(mine) |-> [col |-> mine[p].col, val |-> mine[p].val]]
       IN  FoldLeft(Merge, <<>>, SortSeq(cells, LAMBDA a, b : a.col < b.col))]

\* The place of column c in a row, by binary search; 0 (in the code -1) if none.
FindInRow(cells, c) ==
    LET search[lo \in 1 .. Len(cells) + 1, hi \in 0 .. Len(cells)] ==
          IF lo > hi THEN 0
          ELSE LET mid == (lo + hi) \div 2 IN
               IF cells[mid].col = c THEN mid
               ELSE IF cells[mid].col < c THEN search[mid + 1, hi] ELSE search[lo, mid - 1]
    IN  search[1, Len(cells)]

Convert ==
    /\ pc = "convert"
    /\ csr' = CooToCsr(coo)
    /\ pc' = IF req.symmetric THEN "pattern" ELSE "made"
    /\ UNCHANGED <<req, deciding, coo, row>>

\* The stored entries, row after row.
Stored ==
    FlattenSeq([r \in 1 .. req.rows |->
      [p \in 1 .. Len(csr[r - 1]) |->
         [row |-> r - 1, col |-> csr[r - 1][p].col, val |-> csr[r - 1][p].val]]])

\* Slip: only the mirrors of the upper triangle are looked for.
SlipOnlyAbove(e) == e.col > e.row /\ FindInRow(csr[e.col], e.row) = 0
HasNoMirror(e) == e.col # e.row /\ FindInRow(csr[e.col], e.row) = 0
Turned(e) == [row |-> e.col, col |-> e.row, val |-> e.val]

\* symmetrize_pattern: the entries, and the mirrors that are missing after them.
SymmetrizePattern ==
    /\ pc = "pattern"
    /\ LET missing == SelectSeq(Stored, HasNoMirror) IN
       csr' = IF missing = <<>> THEN csr
              ELSE CooToCsr(Stored \o [p \in 1 .. Len(missing) |-> Turned(missing[p])])
    /\ row' = 0 /\ pc' = "values"
    /\ UNCHANGED <<req, deciding, coo>>

\* Below the diagonal a cell takes the value of its mirror, if that is found.
\* (No draw lies above the diagonal, so it has that value already.)
Reconciled(cell) ==
    IF cell.col >= row \/ FindInRow(csr[cell.col], row) = 0 THEN cell
    ELSE [cell EXCEPT !.val = csr[cell.col][FindInRow(csr[cell.col], row)].val]

SymmetrizeRow ==
    /\ pc = "values" /\ row < req.rows
    /\ csr' = [csr EXCEPT ![row] = [p \in 1 .. Len(csr[row]) |-> Reconciled(csr[row][p])]]
    /\ row' = row + 1
    /\ UNCHANGED <<req, pc, deciding, coo>>

SymmetrizeDone ==
    /\ pc = "values" /\ row >= req.rows
    /\ pc' = "made"
    /\ UNCHANGED <<req, deciding, coo, csr, row>>

-------------------------------------------------------------------------------

Next ==
    \/ Begin \/ Refuse
    \/ DecideRow \/ DecideRowAndMirror \/ NextLoop \/ DecideMiddle \/ GoAstray
    \/ ReadUndecided \/ Emit \/ Convert
    \/ SymmetrizePattern \/ SymmetrizeRow \/ SymmetrizeDone

Spec == Init /\ [][Next]_vars

-------------------------------------------------------------------------------
(* Correctness *)

OddSymmetric == req.symmetric /\ id_first % 2 = 1
DecisionOver == pc \in {"emit", "convert", "pattern", "values", "made"}

\* The promise of genmat.h: a symmetric request that is square is answered with
\* a matrix, so every row of it was decided.
EveryRowDecided == DecisionOver => Rows \subseteq DOMAIN indices

\* The bands lie in the matrix.
Banded == is_square => low < id_first /\ up < id_first

\* The loops of each way of drawing share the rows out: whatever thread takes
\* which, each row is allocated once and none is left out or lost.  (A symmetric
\* matrix of odd order is left to EveryRowDecided; a band wider than the matrix
\* gives the loops rows that there are not, and the code does not look at it.)
RowsDecidedOnce ==
    Banded /\ ~OddSymmetric =>
      /\ callocs = Cardinality(DOMAIN indices)
      /\ DecisionOver => DOMAIN indices = Rows /\ callocs = id_first
      /\ pc = "decide" => pending \cap DOMAIN indices = {}

\* What a caller owes, as the code checks none of it: of a square the band lies
\* in the matrix and has a diagonal above the main one, and every degree that
\* the clamps can leave is at least 1.  An order of 1 meets it never.
WellAsked ==
    /\ Banded /\ ~OddSymmetric
    /\ is_square => up > 0 /\ \A d \in Degrees : d > 0

\* The arithmetic of the draws, for the requests that are well asked: no draw is
\* taken modulo 0 or marks a place outside is_nz_ind, every index is a column of
\* the matrix and within the band, a row never takes more than was allocated for
\* it, its partner's draws included, and no row is read that was not decided.
DrawsStayInside ==
    WellAsked =>
      /\ pc # "undefined"
      /\ DecisionOver =>
         \A j \in Rows :
           /\ degrees[j] <= Cardinality(DOMAIN indices[j])
           /\ \A x \in 0 .. degrees[j] - 1 :
                /\ indices[j][x] \in 0 .. id_second - 1
                /\ is_square => j - low <= indices[j][x] /\ indices[j][x] <= j + up

DrawnAt(r, c) == {p \in 1 .. Len(coo) : coo[p].row = r /\ coo[p].col = c}
ValueAt(r, c) == MapThenSumSet(LAMBDA p : coo[p].val, DrawnAt(r, c))
StoredCols(r) == {csr[r][p].col : p \in 1 .. Len(csr[r])}
ValueIn(r, c) == csr[r][CHOOSE p \in 1 .. Len(csr[r]) : csr[r][p].col = c].val

\* genmat.h: "col_idx ascending within each row".  Nothing that was drawn is
\* lost, nothing else is there, what was drawn twice is summed; of a symmetric
\* matrix this is so of its upper triangle.
MakesWhatWasDrawn ==
    pc = "made" =>
      \A r \in 0 .. req.rows - 1 :
        /\ \A p \in 1 .. Len(csr[r]) - 1 : csr[r][p].col < csr[r][p + 1].col
        /\ \A c \in 0 .. req.cols - 1 :
             LET from == IF DrawnAt(r, c) = {} /\ req.symmetric THEN <<c, r>> ELSE <<r, c>> IN
             /\ c \in StoredCols(r) <=> DrawnAt(from[1], from[2]) # {}
             /\ c \in StoredCols(r) /\ (req.symmetric => r <= c) =>
                  ValueIn(r, c) = ValueAt(from[1], from[2])

\* "guarantee (i,j) stored iff (j,i) stored [...] and equal" (lines 976, 977):
\* every entry that was drawn gets its mirror, in a row that is sorted again, and
\* the copying of values afterwards leaves none behind.
SymmetricWhenAsked ==
    pc = "made" /\ req.symmetric =>
      \A r \in 0 .. req.rows - 1 : \A c \in StoredCols(r) :
        r \in StoredCols(c) /\ ValueIn(c, r) = ValueIn(r, c)

===============================================================================
