------------------------------- MODULE MtxLoader -------------------------------
(***************************************************************************)
(* assemble_csr_matrix (tools/src/mtx_to_csr_formatter.c): a Matrix Market *)
(* file is read into three coordinate arrays, mirrored when it stores one  *)
(* triangle, scattered into rows, and each row is sorted and folded in     *)
(* place.  Every allocation the code checks can fail.                      *)
(*                                                                         *)
(* The coordinate arrays are one sequence of entries and col_ind and val   *)
(* one array of cells, as they always change together.  Arrays that the    *)
(* code indexes are functions from 0.  A vector (tools/src/vec.c) is such  *)
(* a function; how its capacity grows is left out, and so are failures of  *)
(* its allocations, which vec.c does not look at.                          *)
(***************************************************************************)
EXTENDS Integers, Sequences, FiniteSets, FiniteSetsExt

CONSTANTS
    Files,      \* the files to load
    Numbers,    \* what a file may give as a value
    AsFloat(_)  \* what %f makes of it: the float next to it

\* What a file holds, as the loader's reads see it: whether it opens and its
\* size line can be read, what parse_banner makes of the first line (nothing,
\* when the banner is missing), the sizes and the entries up to the first one
\* that is malformed.  L is what the size line says; the entries may be fewer.
FileType ==
    [opens : BOOLEAN, sized : BOOLEAN, banner : {"missing", "general", "symmetric"},
     pattern : BOOLEAN, M : Nat, L : Nat, entries : Seq([row : Nat \ {0}, col : Nat \ {0}, val : Numbers])]

ASSUME LoaderAssumption ==
    /\ \A x \in Numbers : AsFloat(x) \in Int
    /\ Files \subseteq FileType
    /\ \A f \in Files : \A e \in 1 .. Len(f.entries) :
         /\ f.entries[e].row <= f.M
         /\ f.banner = "symmetric" => f.entries[e].col <= f.M

VARIABLES
    file, pc,
    coo,                \* coo_row, coo_col, coo_val up to nnz
    stored, k,          \* entries that were read; the entry a loop is at
    row_count, cursor,
    row_ptr, cells,     \* the vectors of the matrix
    i, t, write,        \* canonicalise_rows: row, place in buf, next free cell
    buf, acc, new_rp,
    matrix,             \* the fields of the returned struct that are not NULL
    live, lost          \* allocated blocks; those no pointer is left to

reading == <<coo, stored, k>>
scattering == <<row_count, cursor>>
folding == <<t, write, buf, acc, new_rp>>
heap == <<matrix, live, lost>>
vars == <<file, pc, reading, scattering, row_ptr, cells, i, folding, heap>>

M == file.M
nnz == Len(coo)
Coo == {"coo_row", "coo_col", "coo_val"}
Vectors == {"row_ptr", "col_ind", "val"}
is_symmetric == file.banner = "symmetric"
Len_(row) == row_ptr[row + 1] - row_ptr[row]

\* vector_add_int on a vector of the given size.
VectorAdd(v, size, x) == [p \in 0 .. size |-> IF p = size THEN x ELSE v[p]]

Init ==
    /\ file \in Files /\ pc = "start"
    /\ coo = <<>> /\ stored = 0 /\ k = 1
    /\ row_count = <<>> /\ cursor = <<>> /\ row_ptr = <<>> /\ cells = <<>>
    /\ i = 0 /\ t = 0 /\ write = 0
    /\ buf = <<>> /\ acc = [col |-> 0, val |-> 0] /\ new_rp = <<>>
    /\ matrix = {} /\ live = {} /\ lost = {}

\* A return with these blocks left and these fields set.
Returns(left, fields) ==
    /\ pc' = "done" /\ live' = left /\ matrix' = fields

-------------------------------------------------------------------------------
(* Steps 1 to 3: banner, sizes and entries *)

Open ==
    /\ pc = "start"
    /\ IF file.opens THEN pc' = "header" /\ live' = {"fin"} /\ UNCHANGED matrix
                     ELSE Returns(live, {})
    /\ UNCHANGED <<file, reading, scattering, row_ptr, cells, i, folding, lost>>

ReadSizes ==
    /\ pc = "header"
    /\ IF file.sized THEN pc' = "coo" /\ UNCHANGED <<live, matrix>>
                     ELSE Returns(live \ {"fin"}, {})
    /\ UNCHANGED <<file, reading, scattering, row_ptr, cells, i, folding, lost>>

\* What is freed by hand when one of the three is missing.
FreedWithoutCoo == {"coo_row", "coo_col", "coo_val", "fin"}

\* All three are asked for before any is looked at; got is what there was.
AllocCoo ==
    /\ pc = "coo"
    /\ \E got \in SUBSET Coo : LET held == live \cup got IN
         IF got = Coo THEN pc' = "read" /\ live' = held /\ UNCHANGED matrix
                      ELSE Returns(held \ FreedWithoutCoo, {})
    /\ UNCHANGED <<file, reading, scattering, row_ptr, cells, i, folding, lost>>

\* fscanf may meet the end of the file, or something else than an entry.
MoreEntries == nnz < file.L /\ nnz < Len(file.entries)

\* Matrix Market counts from 1; a pattern file has no values, and a number that
\* no float is equal to is read as one that is near.
ZeroBased(e) ==
    [row |-> e.row - 1, col |-> e.col - 1, val |-> IF file.pattern THEN 1 ELSE AsFloat(e.val)]

ReadEntry ==
    /\ pc = "read" /\ MoreEntries
    /\ coo' = Append(coo, ZeroBased(file.entries[nnz + 1]))
    /\ UNCHANGED <<file, pc, stored, k, scattering, row_ptr, cells, i, folding, heap>>

CloseFile ==
    /\ pc = "read" /\ ~MoreEntries
    /\ live' = live \ {"fin"}
    /\ pc' = IF is_symmetric THEN "expand" ELSE "count"
    /\ UNCHANGED <<file, reading, scattering, row_ptr, cells, i, folding, matrix, lost>>

-------------------------------------------------------------------------------
(* Step 4: the other triangle *)

\* realloc overwrites the pointer it was given.  An array that could not grow
\* stays allocated, and no pointer is left to it: the frees that follow meet
\* NULL.  An array of no bytes is freed by realloc itself.
Expand ==
    /\ pc = "expand"
    /\ \E failed \in SUBSET Coo :
         IF failed = {}
           THEN pc' = "mirror" /\ stored' = nnz /\ UNCHANGED <<live, lost, matrix>>
           ELSE LET held == IF nnz = 0 THEN live \ failed ELSE live IN
                /\ lost' = held \cap failed
                /\ Returns(held \ (Coo \ failed), {})
                /\ UNCHANGED stored
    /\ UNCHANGED <<file, coo, k, scattering, row_ptr, cells, i, folding>>

IsMirrored(e) == e.row # e.col

Mirror(e) == [row |-> e.col, col |-> e.row, val |-> e.val]

MirrorEntry ==
    /\ pc = "mirror" /\ k <= stored
    /\ coo' = IF IsMirrored(coo[k]) THEN Append(coo, Mirror(coo[k])) ELSE coo
    /\ k' = k + 1
    /\ UNCHANGED <<file, pc, stored, scattering, row_ptr, cells, i, folding, heap>>

MirrorDone ==
    /\ pc = "mirror" /\ k > stored
    /\ k' = 1 /\ pc' = "count"
    /\ UNCHANGED <<file, coo, stored, scattering, row_ptr, cells, i, folding, heap>>

-------------------------------------------------------------------------------
(* Steps 5 to 7: rows *)

RowCounts == [r \in 0 .. M - 1 |-> Cardinality({e \in 1 .. nnz : coo[e].row = r})]

CountRows ==
    /\ pc = "count"
    /\ \/ Returns(live \ Coo, {}) /\ UNCHANGED <<row_count, row_ptr>>
       \/ /\ row_count' = RowCounts
          /\ row_ptr' = VectorAdd(<<>>, 0, 0)
          /\ matrix' = {"row_ptr"} /\ live' = live \cup {"row_count", "row_ptr"}
          /\ pc' = "prefix"
    /\ UNCHANGED <<file, reading, cursor, cells, i, folding, lost>>

AddRowEnd ==
    /\ pc = "prefix" /\ i < M
    /\ row_ptr' = VectorAdd(row_ptr, i + 1, row_ptr[i] + row_count[i])
    /\ i' = i + 1
    /\ UNCHANGED <<file, pc, reading, scattering, cells, folding, heap>>

\* Without a cursor the struct is returned as it is: row_ptr and no entries.
AllocCursor ==
    /\ pc = "prefix" /\ i = M
    /\ \/ Returns(live \ (Coo \cup {"row_count"}), matrix) /\ UNCHANGED <<cursor, cells>>
       \/ /\ cursor' = [r \in 0 .. M - 1 |-> row_ptr[r]]
          /\ cells' = [p \in 0 .. nnz - 1 |-> [col |-> 0, val |-> 0]]
          /\ matrix' = Vectors
          /\ live' = (live \ {"row_count"}) \cup {"cursor"} \cup Vectors
          /\ pc' = "scatter"
    /\ UNCHANGED <<file, reading, row_count, row_ptr, i, folding, lost>>

Scatter ==
    /\ pc = "scatter" /\ k <= nnz
    /\ LET e == coo[k] IN
       /\ cells' = [cells EXCEPT ![cursor[e.row]] = [col |-> e.col, val |-> e.val]]
       /\ cursor' = [cursor EXCEPT ![e.row] = @ + 1]
    /\ k' = k + 1
    /\ UNCHANGED <<file, pc, coo, stored, row_count, row_ptr, i, folding, heap>>

ScatterDone ==
    /\ pc = "scatter" /\ k > nnz
    /\ live' = live \ ({"cursor"} \cup Coo)
    /\ pc' = "canonicalise"
    /\ UNCHANGED <<file, reading, scattering, row_ptr, cells, i, folding, matrix, lost>>

-------------------------------------------------------------------------------
(* canonicalise_rows *)

\* buf has room for the longest row and is not asked for when all are empty.
NeedsBuf == \E r \in 0 .. M - 1 : Len_(r) > 0
Buffers == {"new_rp"} \cup (IF NeedsBuf THEN {"buf"} ELSE {})

\* Slip: without new_rp it returns as it does without buf.
SlipKeepsBuf == {}
\* What canonicalise_rows frees when new_rp is missing.
FreedWithoutNewRp == {"buf"}

\* buf is asked for first.  Without one of them the three vectors go as well.
AllocBuffers ==
    /\ pc = "canonicalise"
    /\ \/ /\ NeedsBuf /\ Returns(live \ Vectors, {})
          /\ UNCHANGED <<i, write, new_rp>>
       \/ LET held == live \cup (Buffers \ {"new_rp"}) IN
          /\ Returns((held \ FreedWithoutNewRp) \ Vectors, {})
          /\ UNCHANGED <<i, write, new_rp>>
       \/ /\ live' = live \cup Buffers
          /\ i' = 0 /\ write' = 0 /\ new_rp' = VectorAdd(<<>>, 0, 0)
          /\ pc' = "row" /\ UNCHANGED matrix
    /\ UNCHANGED <<file, reading, scattering, row_ptr, cells, t, buf, acc, lost>>

Orders(len) == {p \in [0 .. len - 1 -> 0 .. len - 1] :
                  \A x, y \in 0 .. len - 1 : p[x] = p[y] => x = y}

\* qsort is not stable: entries of one column come in any order.
SortRow ==
    /\ pc = "row" /\ i < M
    /\ \E p \in Orders(Len_(i)) :
         /\ buf' = [x \in 0 .. Len_(i) - 1 |-> cells[row_ptr[i] + p[x]]]
         /\ \A x \in 1 .. Len_(i) - 1 : buf'[x - 1].col <= buf'[x].col
    /\ t' = 0 /\ pc' = "fold"
    /\ UNCHANGED <<file, reading, scattering, row_ptr, cells, i, write, acc, new_rp, heap>>

OpenGroup ==
    /\ pc = "fold" /\ t < Len_(i)
    /\ acc' = buf[t] /\ t' = t + 1 /\ pc' = "group"
    /\ UNCHANGED <<file, reading, scattering, row_ptr, cells, i, write, buf, new_rp, heap>>

\* Slip: only neighbours of the first entry are folded, one of them.
SlipNoFold == FALSE
SameColumn == t < Len_(i) /\ buf[t].col = acc.col

AddToGroup ==
    /\ pc = "group" /\ SameColumn
    /\ acc' = [acc EXCEPT !.val = @ + buf[t].val] /\ t' = t + 1
    /\ UNCHANGED <<file, pc, reading, scattering, row_ptr, cells, i, write, buf, new_rp, heap>>

\* Slip: a group is written where the reading of the row is.
SlipAtRead == row_ptr[i] + t
Target == write

CloseGroup ==
    /\ pc = "group" /\ ~SameColumn
    /\ cells' = [cells EXCEPT ![Target] = acc]
    /\ write' = write + 1 /\ pc' = "fold"
    /\ UNCHANGED <<file, reading, scattering, row_ptr, i, t, buf, acc, new_rp, heap>>

EndRow ==
    /\ pc = "fold" /\ t >= Len_(i)
    /\ new_rp' = VectorAdd(new_rp, i + 1, write)
    /\ i' = i + 1 /\ pc' = "row"
    /\ UNCHANGED <<file, reading, scattering, row_ptr, cells, t, write, buf, acc, heap>>

FinishRows ==
    /\ pc = "row" /\ i >= M
    /\ row_ptr' = new_rp
    /\ cells' = [p \in 0 .. write - 1 |-> cells[p]]
    /\ live' = live \ {"buf", "new_rp"} /\ pc' = "done"
    /\ UNCHANGED <<file, reading, scattering, i, folding, matrix, lost>>

-------------------------------------------------------------------------------

Next ==
    \/ Open \/ ReadSizes \/ AllocCoo \/ ReadEntry \/ CloseFile
    \/ Expand \/ MirrorEntry \/ MirrorDone
    \/ CountRows \/ AddRowEnd \/ AllocCursor \/ Scatter \/ ScatterDone
    \/ AllocBuffers \/ SortRow \/ OpenGroup \/ AddToGroup \/ CloseGroup \/ EndRow
    \/ FinishRows

Spec == Init /\ [][Next]_vars

-------------------------------------------------------------------------------
(* Correctness *)

EntryType == [row : Nat, col : Nat, val : Int]
Cell == [col : Nat, val : Int]

\* The loops stay inside the rows, the entries inside the matrix; matrix.row_ptr is
\* there whenever a later field is.
TypeOK ==
    /\ file \in Files
    /\ pc \in {"start", "header", "coo", "read", "expand", "mirror", "count", "prefix",
               "scatter", "canonicalise", "row", "fold", "group", "done"}
    /\ coo \in Seq(EntryType) /\ \A e \in 1 .. nnz : coo[e].row < M
    /\ stored \in Nat /\ k \in Nat /\ k > 0 /\ i \in 0 .. M /\ t \in Nat /\ write \in Nat
    /\ matrix \in {{}, {"row_ptr"}, Vectors}

Done == pc = "done"
Loaded == Done /\ matrix = Vectors

\* What the file says: its entries as far as they are read and, when one
\* triangle stands for both, the mirror of each that is off the diagonal.
Stored ==
    LET n == IF file.L < Len(file.entries) THEN file.L ELSE Len(file.entries) IN
    {<<e, ZeroBased(file.entries[e])>> : e \in 1 .. n}
Meant ==
    Stored \cup {<<-s[1], Mirror(s[2])>> : s \in {q \in Stored : is_symmetric /\ q[2].row # q[2].col}}
At(r, c) == {s \in Meant : s[2].row = r /\ s[2].col = c}
ValueAt(r, c) == MapThenSumSet(LAMBDA s : s[2].val, At(r, c))

\* The shape of a CSR matrix, each row in the order of its columns.
Shaped ==
    /\ DOMAIN row_ptr = 0 .. M /\ row_ptr[0] = 0 /\ DOMAIN cells = 0 .. row_ptr[M] - 1
    /\ \A r \in 0 .. M - 1 :
         /\ row_ptr[r] <= row_ptr[r + 1]
         /\ \A p \in row_ptr[r] .. row_ptr[r + 1] - 2 : cells[p].col < cells[p + 1].col
CanonicalWhenLoaded == Loaded => Shaped

\* A matrix that is loaded is the one in the file: it is canonical, a column is
\* in a row just when the file (or its mirror) has an entry there, and its value
\* is the sum of all of them.
LoadsWhatIsStored ==
    Loaded =>
      /\ Shaped
      /\ \A r \in 0 .. M - 1 :
           /\ {cells[p].col : p \in row_ptr[r] .. row_ptr[r + 1] - 1} =
                {s[2].col : s \in {q \in Meant : q[2].row = r}}
           /\ \A p \in row_ptr[r] .. row_ptr[r + 1] - 1 : cells[p].val = ValueAt(r, cells[p].col)

UnreadStays == \A p \in DOMAIN cells : p >= row_ptr[i + 1] => cells'[p] = cells[p]

\* "compacting in place cannot clobber unread input" (lines 102 and 103): no step
\* of canonicalise_rows writes a cell of a row that is still to be read.
NeverClobbersUnread ==
    [][(pc \in {"fold", "group"}) => UnreadStays]_vars

\* Whichever allocation fails, what is still allocated at the return is what the
\* struct points to, with one exception that the code has: arrays of a symmetric
\* file that realloc could not grow (lines 230 to 232) stay, and nobody can free
\* them.
HeapOnReturn ==
    Done => /\ live = matrix \cup lost
            /\ lost # {} => matrix = {} /\ lost \subseteq Coo /\ is_symmetric

===============================================================================
