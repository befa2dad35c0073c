------------------------------ MODULE BenchRun_proofs ------------------------------
(***************************************************************************)
(* Proofs about the tools and the benchmark that runs them, for every set  *)
(* of files, command lines and requests.                                   *)
(***************************************************************************)
EXTENDS BenchRun, FiniteSetTheorems, WellFoundedInduction, TLAPS


Reading == {"start", "header", "coo", "read", "expand", "mirror", "count"}
Folding == {"row", "fold", "group"}

\* The entries that are read, mirrored and counted.
Entries ==
    /\ is_symmetric => \A e \in 1 .. nnz : coo[e].col < M
    /\ pc \in Reading => i = 0
    /\ pc \in {"expand", "mirror"} => is_symmetric
    /\ pc = "mirror" => stored <= nnz
    /\ pc \in {"fold", "group"} => i < M

TypeInv == TypeOK /\ Entries

\* How many entries are in the rows before r.
CountBelow(r) == Cardinality({e \in 1 .. nnz : coo[e].row < r})

\* A row pointer is such a number, as soon as it is there; none changes again.
RowsInv ==
    /\ pc = "prefix" =>
         /\ row_count = RowCounts
         /\ row_ptr \in [0 .. i -> Nat] /\ \A r \in 0 .. i : row_ptr[r] = CountBelow(r)
    /\ pc \in {"scatter", "canonicalise"} \cup Folding =>
         /\ row_ptr \in [0 .. M -> Nat] /\ \A r \in 0 .. M : row_ptr[r] = CountBelow(r)
         /\ cells \in [0 .. nnz - 1 -> Cell]

\* In a row of an array of cells the columns ascend.
Ascends(first, end) == \A p \in first .. end - 2 : cells[p].col < cells[p + 1].col

\* The rows that are folded are canonical and end before the next free cell.
FoldedRows ==
    pc \in Folding =>
      /\ new_rp \in [0 .. i -> Nat] /\ new_rp[0] = 0
      /\ \A r \in 0 .. i - 1 : new_rp[r] <= new_rp[r + 1] /\ Ascends(new_rp[r], new_rp[r + 1])
      /\ \A r \in 0 .. i : new_rp[r] <= write

\* The row at hand is sorted in buf, and no cell is free that has not been read.
RowAtHand ==
    /\ pc = "row" => write = new_rp[i] /\ write <= row_ptr[i]
    /\ pc \in {"fold", "group"} =>
         /\ buf \in [0 .. Len_(i) - 1 -> Cell]
         /\ \A x \in 1 .. Len_(i) - 1 : buf[x - 1].col <= buf[x].col
         /\ t <= Len_(i) /\ Ascends(new_rp[i], write)
    /\ pc = "fold" => write <= row_ptr[i] + t
    /\ pc = "group" => t > 0 /\ write < row_ptr[i] + t

\* The group that is open, or comes next, continues the row.
GroupAtHand ==
    /\ pc = "fold" => (write > new_rp[i] /\ t < Len_(i) => cells[write - 1].col < buf[t].col)
    /\ pc = "group" =>
         /\ acc \in Cell /\ acc.col = buf[t - 1].col
         /\ write > new_rp[i] => cells[write - 1].col < acc.col

FoldInv == FoldedRows /\ RowAtHand /\ GroupAtHand /\ CanonicalWhenLoaded

\* Only a symmetric file is mirrored.
Phases == pc \in {"expand", "mirror"} => is_symmetric

\* What is allocated, and what the struct points to, follows from pc.
HeapInv ==
    /\ pc # "done" => lost = {}
    /\ pc = "start" => live = {}
    /\ pc \in {"header", "coo"} => live = {"fin"}
    /\ pc = "read" => live = {"fin"} \cup Coo
    /\ pc \in {"expand", "mirror", "count"} => live = Coo
    /\ pc = "prefix" => live = Coo \cup {"row_count", "row_ptr"}
    /\ pc = "scatter" => live = Coo \cup {"cursor"} \cup Vectors
    /\ pc = "canonicalise" => live = Vectors
    /\ pc \in Folding => live = Vectors \cup {"new_rp"} \/ live = Vectors \cup {"new_rp", "buf"}
    /\ pc \in Reading => matrix = {}
    /\ pc = "prefix" => matrix = {"row_ptr"}
    /\ pc \in {"scatter", "canonicalise"} \cup Folding => matrix = Vectors
    /\ HeapOnReturn

-------------------------------------------------------------------------------
(* Types *)

LEMMA FileFacts ==
    ASSUME file \in Files
    PROVE  /\ M \in Nat /\ file.L \in Nat /\ Len(file.entries) \in Nat
           /\ \A e \in 1 .. Len(file.entries) :
                /\ file.entries[e].row \in Nat /\ file.entries[e].row > 0
                /\ file.entries[e].col \in Nat /\ file.entries[e].col > 0
                /\ AsFloat(file.entries[e].val) \in Int
                /\ file.entries[e].row <= M
                /\ is_symmetric => file.entries[e].col <= M
<1>1. file \in FileType
    BY LoaderAssumption
<1>. DEFINE es == file.entries
            Listed == [row : Nat \ {0}, col : Nat \ {0}, val : Numbers]
<1>2. M \in Nat /\ file.L \in Nat /\ es \in Seq(Listed)
    BY <1>1 DEF FileType, M
<1>3. \A e \in 1 .. Len(es) : es[e].row <= M /\ (is_symmetric => es[e].col <= M)
    BY LoaderAssumption DEF M, is_symmetric
<1>. HIDE DEF es, Listed
<1>4. Len(es) \in Nat /\ \A e \in 1 .. Len(es) : es[e] \in Listed
    BY <1>2
<1>5. ASSUME NEW e \in 1 .. Len(es)
      PROVE  /\ es[e].row \in Nat /\ es[e].row > 0 /\ es[e].col \in Nat /\ es[e].col > 0
             /\ AsFloat(es[e].val) \in Int
    <2>0. es[e] \in Listed
        BY <1>4, <1>5
    <2>1. es[e] \in [row : Nat \ {0}, col : Nat \ {0}, val : Numbers]
        BY ONLY <2>0 DEF Listed
    <2>2. es[e].row \in Nat \ {0} /\ es[e].col \in Nat \ {0} /\ es[e].val \in Numbers
        BY ONLY <2>1
    <2>3. AsFloat(es[e].val) \in Int
        BY <2>2, LoaderAssumption
    <2>. QED  BY ONLY <2>2, <2>3
<1>6. M \in Nat /\ file.L \in Nat /\ Len(es) \in Nat
    BY <1>2, <1>4
<1>. QED  BY ONLY <1>3, <1>5, <1>6 DEF es

LEMMA TypeInit == Init => TypeInv
<1>. SUFFICES ASSUME Init PROVE TypeInv
    OBVIOUS
<1>1. file \in Files /\ M \in Nat
    BY FileFacts DEF Init
<1>. QED  BY <1>1 DEF Init, TypeInv, TypeOK, Entries, nnz, EntryType, Reading

\* What an action that leaves the entries alone has to show.
LEMMA SameEntries ==
    ASSUME TypeInv, UNCHANGED <<file, coo>>
    PROVE  /\ file' \in Files /\ M' = M /\ M \in Nat /\ nnz' = nnz
           /\ coo' \in Seq(EntryType) /\ \A e \in 1 .. nnz' : coo'[e].row < M'
           /\ is_symmetric' => \A e \in 1 .. nnz' : coo'[e].col < M'
BY FileFacts DEF TypeInv, TypeOK, Entries, M, nnz, is_symmetric

LEMMA TypeStep == TypeInv /\ [Next]_vars => TypeInv'
<1>. SUFFICES ASSUME TypeInv, [Next]_vars PROVE TypeInv'
    OBVIOUS
<1>. USE DEF TypeInv, reading, scattering, folding, heap, is_symmetric
<1>f. M \in Nat
    BY FileFacts DEF TypeOK
<1>1. CASE Open
    BY <1>1, SameEntries DEF Open, Returns, TypeOK, Entries, Reading, Vectors
<1>2. CASE ReadSizes
    BY <1>2, SameEntries DEF ReadSizes, Returns, TypeOK, Entries, Reading, Vectors
<1>3. CASE AllocCoo
    BY <1>3, SameEntries DEF AllocCoo, Returns, TypeOK, Entries, Reading, Vectors
<1>4. CASE ReadEntry
    <2>. DEFINE x == ZeroBased(file.entries[nnz + 1])
    <2>1. coo' = Append(coo, x) /\ UNCHANGED <<file, pc, stored, k, i, t, write, matrix>>
        BY <1>4 DEF ReadEntry
    <2>2. nnz + 1 \in 1 .. Len(file.entries) /\ nnz \in Nat
        BY <1>4, FileFacts DEF ReadEntry, MoreEntries, TypeOK, nnz
    <2>4. x \in EntryType /\ x.row < M /\ (is_symmetric => x.col < M)
        <3>. DEFINE y == file.entries[nnz + 1]
        <3>1. /\ y.row \in Nat /\ y.row > 0 /\ y.col \in Nat /\ y.col > 0
              /\ AsFloat(y.val) \in Int /\ y.row <= M /\ (is_symmetric => y.col <= M)
            BY <2>2, FileFacts DEF TypeOK
        <3>2. x = [row |-> y.row - 1, col |-> y.col - 1, val |-> IF file.pattern THEN 1 ELSE AsFloat(y.val)]
            BY DEF ZeroBased
        <3>. HIDE DEF x, y
        <3>3. x \in EntryType
            BY ONLY <3>1, <3>2 DEF EntryType
        <3>. QED  BY ONLY <1>f, <3>1, <3>2, <3>3
    <2>. HIDE DEF x
    <2>5. /\ coo' \in Seq(EntryType) /\ nnz' = nnz + 1 /\ M' = M
          /\ \A e \in 1 .. nnz' : coo'[e] = IF e <= nnz THEN coo[e] ELSE x
        BY <2>1, <2>4 DEF TypeOK, nnz, M
    <2>6. ASSUME NEW e \in 1 .. nnz'
          PROVE  coo'[e].row < M' /\ (is_symmetric' => coo'[e].col < M')
        <3>1. CASE e <= nnz
            <4>1. e \in 1 .. nnz /\ coo'[e] = coo[e]
                BY <2>2, <2>5, <3>1
            <4>. QED  BY <2>1, <2>5, <4>1 DEF TypeOK, Entries
        <3>2. CASE ~(e <= nnz)
            <4>1. coo'[e] = x
                BY <2>5, <3>2
            <4>. QED  BY <2>1, <2>4, <2>5, <4>1
        <3>. QED  BY <3>1, <3>2
    <2>. QED  BY <2>1, <2>5, <2>6, <1>4 DEF TypeOK, Entries, ReadEntry
<1>5. CASE CloseFile
    BY <1>5, SameEntries DEF CloseFile, TypeOK, Entries, Reading
<1>6. CASE Expand
    <2>1. nnz \in Nat
        BY DEF TypeOK, nnz
    <2>. QED  BY <1>6, <2>1, SameEntries DEF Expand, Returns, TypeOK, Entries, Reading, Vectors
<1>7. CASE MirrorEntry
    <2>. DEFINE x == Mirror(coo[k])
    <2>1. /\ coo' = IF IsMirrored(coo[k]) THEN Append(coo, x) ELSE coo
          /\ k' = k + 1 /\ pc = "mirror"
          /\ UNCHANGED <<file, pc, stored, i, t, write, matrix>>
        BY <1>7 DEF MirrorEntry
    <2>2. k \in 1 .. nnz /\ nnz \in Nat /\ is_symmetric
        BY <1>7 DEF MirrorEntry, TypeOK, Entries, nnz
    <2>3. coo[k] \in EntryType /\ coo[k].row < M /\ coo[k].col < M
        BY <2>2 DEF TypeOK, Entries, nnz
    <2>4. x \in EntryType /\ x.row < M /\ x.col < M
        BY <2>3 DEF Mirror, EntryType
    <2>. HIDE DEF x
    <2>5. CASE ~IsMirrored(coo[k])
        <3>1. UNCHANGED <<file, coo>>
            BY <2>1, <2>5
        <3>. QED  BY <2>1, <3>1, SameEntries DEF TypeOK, Entries, Reading
    <2>6. CASE IsMirrored(coo[k])
        <3>1. /\ coo' \in Seq(EntryType) /\ nnz' = nnz + 1 /\ M' = M
              /\ \A e \in 1 .. nnz' : coo'[e] = IF e <= nnz THEN coo[e] ELSE x
            BY <2>1, <2>4, <2>6 DEF TypeOK, nnz, M
        <3>2. /\ \A e \in 1 .. nnz' : coo'[e].row < M'
              /\ \A e \in 1 .. nnz' : coo'[e].col < M'
            <4>. SUFFICES ASSUME NEW e \in 1 .. nnz'
                          PROVE  coo'[e].row < M' /\ coo'[e].col < M'
                OBVIOUS
            <4>1. CASE e <= nnz
                <5>1. e \in 1 .. nnz /\ coo'[e] = coo[e]
                    BY <2>2, <3>1, <4>1
                <5>. QED  BY <2>2, <3>1, <5>1 DEF TypeOK, Entries
            <4>2. CASE ~(e <= nnz)
                <5>1. coo'[e] = x
                    BY <3>1, <4>2
                <5>. QED  BY <2>4, <3>1, <5>1
            <4>. QED  BY <4>1, <4>2
        <3>3. stored \in Nat /\ k' \in Nat /\ k' > 0 /\ (pc' = "mirror" => stored' <= nnz')
            BY <1>7, <2>1, <2>2, <3>1 DEF TypeOK, Entries
        <3>. QED  BY <2>1, <3>1, <3>2, <3>3 DEF TypeOK, Entries, Reading
    <2>. QED  BY <2>5, <2>6
<1>8. CASE MirrorDone
    BY <1>8, SameEntries DEF MirrorDone, TypeOK, Entries, Reading
<1>9. CASE CountRows
    BY <1>9, SameEntries DEF CountRows, Returns, TypeOK, Entries, Reading, Vectors
<1>10. CASE AddRowEnd
    BY <1>10, <1>f, SameEntries DEF AddRowEnd, TypeOK, Entries, Reading
<1>11. CASE AllocCursor
    BY <1>11, SameEntries DEF AllocCursor, Returns, TypeOK, Entries, Reading, Vectors
<1>12. CASE Scatter
    BY <1>12, SameEntries DEF Scatter, TypeOK, Entries, Reading
<1>13. CASE ScatterDone
    BY <1>13, SameEntries DEF ScatterDone, TypeOK, Entries, Reading
<1>14. CASE AllocBuffers
    BY <1>14, <1>f, SameEntries DEF AllocBuffers, Returns, TypeOK, Entries, Reading, Vectors
<1>15. CASE SortRow
    BY <1>15, <1>f, SameEntries DEF SortRow, TypeOK, Entries, Reading
<1>16. CASE OpenGroup
    BY <1>16, <1>f, SameEntries DEF OpenGroup, TypeOK, Entries, Reading
<1>17. CASE AddToGroup
    BY <1>17, <1>f, SameEntries DEF AddToGroup, TypeOK, Entries, Reading
<1>18. CASE CloseGroup
    BY <1>18, <1>f, SameEntries DEF CloseGroup, TypeOK, Entries, Reading
<1>19. CASE EndRow
    BY <1>19, <1>f, SameEntries DEF EndRow, TypeOK, Entries, Reading
<1>20. CASE FinishRows
    BY <1>20, <1>f, SameEntries DEF FinishRows, TypeOK, Entries, Reading
<1>21. CASE UNCHANGED vars
    BY <1>21, SameEntries DEF vars, TypeOK, Entries, Reading
<1>. QED
    BY <1>1, <1>2, <1>3, <1>4, <1>5, <1>6, <1>7, <1>8, <1>9, <1>10, <1>11, <1>12, <1>13,
       <1>14, <1>15, <1>16, <1>17, <1>18, <1>19, <1>20, <1>21 DEF Next

-------------------------------------------------------------------------------
(* The heap *)

LEMMA HeapStep == Phases /\ HeapInv /\ [Next]_vars => HeapInv'
<1>. SUFFICES ASSUME Phases, HeapInv, [Next]_vars PROVE HeapInv'
    OBVIOUS
<1>. USE DEF HeapInv, HeapOnReturn, Done, Reading, Folding, heap
<1>1. CASE Open
    BY <1>1 DEF Open, Returns
<1>2. CASE ReadSizes
    BY <1>2 DEF ReadSizes, Returns
<1>3. CASE AllocCoo
    BY <1>3 DEF AllocCoo, Returns, Coo, FreedWithoutCoo
<1>4. CASE ReadEntry
    BY <1>4 DEF ReadEntry
<1>5. CASE CloseFile
    BY <1>5 DEF CloseFile, Coo
<1>6. CASE Expand
    BY <1>6 DEF Expand, Returns, Coo, Phases, is_symmetric
<1>7. CASE MirrorEntry
    BY <1>7 DEF MirrorEntry
<1>8. CASE MirrorDone
    BY <1>8 DEF MirrorDone
<1>9. CASE CountRows
    BY <1>9 DEF CountRows, Returns, Coo
<1>10. CASE AddRowEnd
    BY <1>10 DEF AddRowEnd
<1>11. CASE AllocCursor
    BY <1>11 DEF AllocCursor, Returns, Coo, Vectors
<1>12. CASE Scatter
    BY <1>12 DEF Scatter
<1>13. CASE ScatterDone
    BY <1>13 DEF ScatterDone, Coo, Vectors
<1>14. CASE AllocBuffers
    BY <1>14 DEF AllocBuffers, Returns, Buffers, Vectors, FreedWithoutNewRp
<1>15. CASE SortRow
    BY <1>15 DEF SortRow
<1>16. CASE OpenGroup
    BY <1>16 DEF OpenGroup
<1>17. CASE AddToGroup
    BY <1>17 DEF AddToGroup
<1>18. CASE CloseGroup
    BY <1>18 DEF CloseGroup
<1>19. CASE EndRow
    BY <1>19 DEF EndRow
<1>20. CASE FinishRows
    BY <1>20 DEF FinishRows, Vectors
<1>21. CASE UNCHANGED vars
    BY <1>21 DEF vars, is_symmetric
<1>. QED
    BY <1>1, <1>2, <1>3, <1>4, <1>5, <1>6, <1>7, <1>8, <1>9, <1>10, <1>11, <1>12, <1>13,
       <1>14, <1>15, <1>16, <1>17, <1>18, <1>19, <1>20, <1>21 DEF Next

-------------------------------------------------------------------------------
(* The row pointers *)

LEMMA CountFacts ==
    ASSUME TypeInv
    PROVE  /\ M \in Nat /\ nnz \in Nat
           /\ CountBelow(0) = 0 /\ CountBelow(M) = nnz
           /\ \A r \in 0 .. M : CountBelow(r) \in Nat /\ CountBelow(r) <= nnz
           /\ \A r \in 0 .. M - 1 :
                /\ RowCounts[r] \in Nat
                /\ CountBelow(r + 1) = CountBelow(r) + RowCounts[r]
<1>. DEFINE before(r) == {e \in 1 .. nnz : coo[e].row < r}
            here(r) == {e \in 1 .. nnz : coo[e].row = r}
<1>1. M \in Nat /\ nnz \in Nat
    BY FileFacts DEF TypeInv, TypeOK, nnz
<1>2. \A e \in 1 .. nnz : coo[e].row \in Nat /\ coo[e].row < M
    <2>1. \A e \in 1 .. nnz : coo[e] \in EntryType
        BY DEF TypeInv, TypeOK, nnz
    <2>. QED  BY <2>1 DEF TypeInv, TypeOK, EntryType
<1>3. IsFiniteSet(1 .. nnz) /\ Cardinality(1 .. nnz) = nnz
    <2>1. /\ IsFiniteSet(1 .. nnz)
          /\ Cardinality(1 .. nnz) = IF 1 > nnz THEN 0 ELSE nnz - 1 + 1
        BY <1>1, FS_Interval
    <2>. QED  BY <1>1, <2>1
<1>4. \A r \in Int : IsFiniteSet(before(r)) /\ Cardinality(before(r)) <= nnz
    BY <1>3, FS_Subset
<1>5. \A r \in Int : IsFiniteSet(here(r))
    BY <1>3, FS_Subset
<1>6. \A r \in Int : Cardinality(before(r)) \in Nat /\ Cardinality(here(r)) \in Nat
    BY <1>4, <1>5, FS_CardinalityType
<1>7. before(0) = {} /\ before(M) = 1 .. nnz
    BY <1>1, <1>2
<1>8. ASSUME NEW r \in 0 .. M - 1
      PROVE  Cardinality(before(r + 1)) = Cardinality(before(r)) + Cardinality(here(r))
    <2>1. before(r + 1) = before(r) \cup here(r) /\ before(r) \cap here(r) = {}
        BY <1>1, <1>2
    <2>2. /\ r \in Int
          /\ IsFiniteSet(before(r)) /\ IsFiniteSet(here(r))
          /\ Cardinality(before(r)) \in Nat /\ Cardinality(here(r)) \in Nat
        BY <1>1, <1>4, <1>5, <1>6
    <2>. HIDE DEF before, here
    <2>3. Cardinality(before(r) \cup here(r)) =
            Cardinality(before(r)) + Cardinality(here(r)) - Cardinality(before(r) \cap here(r))
        BY <2>2, FS_Union
    <2>4. Cardinality(before(r) \cap here(r)) = 0
        BY <2>1, FS_EmptySet
    <2>5. Cardinality(before(r + 1)) = Cardinality(before(r) \cup here(r))
        BY <2>1
    <2>. QED  BY <2>2, <2>3, <2>4, <2>5
<1>9. \A r : CountBelow(r) = Cardinality(before(r))
    BY DEF CountBelow
<1>10. \A r \in 0 .. M - 1 : RowCounts[r] = Cardinality(here(r))
    BY DEF RowCounts
<1>. HIDE DEF before, here
<1>11. Cardinality(before(0)) = 0
    BY <1>7, FS_EmptySet
<1>12. CountBelow(0) = 0 /\ CountBelow(M) = nnz
    BY <1>3, <1>7, <1>9, <1>11
<1>13. \A r \in 0 .. M : CountBelow(r) \in Nat /\ CountBelow(r) <= nnz
    BY <1>1, <1>4, <1>6, <1>9
<1>14. \A r \in 0 .. M - 1 :
         RowCounts[r] \in Nat /\ CountBelow(r + 1) = CountBelow(r) + RowCounts[r]
    BY <1>1, <1>6, <1>8, <1>9, <1>10
<1>. QED  BY <1>1, <1>12, <1>13, <1>14

LEMMA SameCounts ==
    ASSUME UNCHANGED <<file, coo>>
    PROVE  /\ M' = M /\ nnz' = nnz /\ RowCounts' = RowCounts
           /\ \A r : CountBelow(r)' = CountBelow(r)
BY DEF M, nnz, RowCounts, CountBelow

LEMMA RowsStep == TypeInv /\ RowsInv /\ FoldInv /\ [Next]_vars => RowsInv'
<1>. SUFFICES ASSUME TypeInv, RowsInv, FoldInv, [Next]_vars PROVE RowsInv'
    OBVIOUS
<1>. USE DEF RowsInv, Folding, reading, scattering, folding, heap
<1>1. CASE Open
    BY <1>1 DEF Open, Returns
<1>2. CASE ReadSizes
    BY <1>2 DEF ReadSizes, Returns
<1>3. CASE AllocCoo
    BY <1>3 DEF AllocCoo, Returns
<1>4. CASE ReadEntry
    BY <1>4 DEF ReadEntry
<1>5. CASE CloseFile
    BY <1>5 DEF CloseFile
<1>6. CASE Expand
    BY <1>6 DEF Expand, Returns
<1>7. CASE MirrorEntry
    BY <1>7 DEF MirrorEntry
<1>8. CASE MirrorDone
    BY <1>8 DEF MirrorDone
<1>9. CASE CountRows
    <2>1. CASE pc' = "done"
        BY <2>1
    <2>2. CASE pc' = "prefix"
        <3>1. /\ row_count' = RowCounts /\ i' = 0 /\ UNCHANGED <<file, coo>>
              /\ row_ptr' = [p \in 0 .. 0 |-> IF p = 0 THEN 0 ELSE <<>>[p]]
            BY <1>9, <2>2 DEF CountRows, Returns, VectorAdd, TypeInv, Entries, Reading
        <3>2. row_ptr' \in [0 .. i' -> Nat] /\ \A r \in 0 .. i' : row_ptr'[r] = CountBelow(r)
            BY <3>1, CountFacts
        <3>. QED  BY <2>2, <3>1, <3>2, SameCounts
    <2>. QED  BY <1>9, <2>1, <2>2 DEF CountRows, Returns
<1>10. CASE AddRowEnd
    <2>1. /\ pc = "prefix" /\ pc' = pc /\ i < M /\ i' = i + 1
          /\ row_ptr' = [p \in 0 .. i + 1 |-> IF p = i + 1 THEN row_ptr[i] + row_count[i] ELSE row_ptr[p]]
          /\ UNCHANGED <<file, coo, row_count>>
        BY <1>10 DEF AddRowEnd, VectorAdd
    <2>2. i \in 0 .. M - 1 /\ i \in 0 .. i
        BY <2>1, CountFacts DEF TypeInv, TypeOK
    <2>3. row_ptr[i] + row_count[i] = CountBelow(i + 1) /\ CountBelow(i + 1) \in Nat
        BY <2>1, <2>2, CountFacts
    <2>4. row_ptr' \in [0 .. i' -> Nat] /\ \A r \in 0 .. i' : row_ptr'[r] = CountBelow(r)
        BY <2>1, <2>2, <2>3
    <2>. QED  BY <2>1, <2>4, SameCounts
<1>11. CASE AllocCursor
    <2>1. CASE pc' = "done"
        BY <2>1
    <2>2. CASE pc' = "scatter"
        <3>1. /\ cells' = [p \in 0 .. nnz - 1 |-> [col |-> 0, val |-> 0]] /\ i = M
              /\ UNCHANGED <<file, coo, row_ptr>> /\ pc = "prefix"
            BY <1>11, <2>2 DEF AllocCursor, Returns
        <3>2. cells' \in [0 .. nnz - 1 -> Cell]
            BY <3>1 DEF Cell
        <3>. QED  BY <2>2, <3>1, <3>2, SameCounts
    <2>. QED  BY <1>11, <2>1, <2>2 DEF AllocCursor, Returns
<1>12. CASE Scatter
    <2>1. k \in 1 .. nnz /\ pc = "scatter"
        BY <1>12, CountFacts DEF Scatter, TypeInv, TypeOK
    <2>2. coo[k] \in EntryType
        BY <2>1 DEF TypeInv, TypeOK, nnz
    <2>. DEFINE x == [col |-> coo[k].col, val |-> coo[k].val]
    <2>3. x \in Cell
        BY <2>2 DEF EntryType, Cell
    <2>4. /\ cells' = [cells EXCEPT ![cursor[coo[k].row]] = x]
          /\ UNCHANGED <<file, pc, coo, row_ptr>>
        BY <1>12 DEF Scatter
    <2>. HIDE DEF x
    <2>5. cells' \in [0 .. nnz - 1 -> Cell]
        BY <2>1, <2>3, <2>4
    <2>. QED  BY <2>1, <2>4, <2>5, SameCounts
<1>13. CASE ScatterDone
    BY <1>13, SameCounts DEF ScatterDone
<1>14. CASE AllocBuffers
    BY <1>14, SameCounts DEF AllocBuffers, Returns
<1>15. CASE SortRow
    BY <1>15, SameCounts DEF SortRow
<1>16. CASE OpenGroup
    BY <1>16, SameCounts DEF OpenGroup
<1>17. CASE AddToGroup
    BY <1>17, SameCounts DEF AddToGroup
<1>18. CASE CloseGroup
    <2>1. /\ pc \in Folding /\ pc' \in Folding /\ UNCHANGED <<file, coo, row_ptr>>
          /\ cells' = [cells EXCEPT ![Target] = acc]
        BY <1>18 DEF CloseGroup
    <2>2. acc \in Cell
        BY <1>18 DEF CloseGroup, FoldInv, GroupAtHand
    <2>3. cells \in [0 .. nnz - 1 -> Cell]
        BY <2>1
    <2>4. cells' \in [0 .. nnz - 1 -> Cell]
        BY ONLY <2>1, <2>2, <2>3
    <2>. QED  BY <2>1, <2>4, SameCounts
<1>19. CASE EndRow
    BY <1>19, SameCounts DEF EndRow
<1>20. CASE FinishRows
    BY <1>20 DEF FinishRows
<1>21. CASE UNCHANGED vars
    BY <1>21, SameCounts DEF vars
<1>. QED
    BY <1>1, <1>2, <1>3, <1>4, <1>5, <1>6, <1>7, <1>8, <1>9, <1>10, <1>11, <1>12, <1>13,
       <1>14, <1>15, <1>16, <1>17, <1>18, <1>19, <1>20, <1>21 DEF Next

-------------------------------------------------------------------------------
(* Folding *)

LEMMA RowFacts ==
    ASSUME TypeInv, RowsInv, pc \in {"canonicalise"} \cup Folding
    PROVE  /\ M \in Nat /\ nnz \in Nat /\ i \in 0 .. M /\ t \in Nat /\ write \in Nat
           /\ row_ptr \in [0 .. M -> Nat] /\ row_ptr[0] = 0
           /\ cells \in [0 .. nnz - 1 -> Cell]
           /\ \A r \in 0 .. M - 1 :
                /\ Len_(r) \in Nat /\ row_ptr[r] + Len_(r) = row_ptr[r + 1]
                /\ row_ptr[r + 1] <= nnz
<1>1. /\ M \in Nat /\ nnz \in Nat /\ i \in 0 .. M /\ t \in Nat /\ write \in Nat
      /\ row_ptr \in [0 .. M -> Nat] /\ \A r \in 0 .. M : row_ptr[r] = CountBelow(r)
      /\ cells \in [0 .. nnz - 1 -> Cell]
    BY CountFacts DEF TypeInv, TypeOK, RowsInv, Folding
<1>2. row_ptr[0] = 0
    BY <1>1, CountFacts
<1>3. ASSUME NEW r \in 0 .. M - 1
      PROVE  /\ Len_(r) \in Nat /\ row_ptr[r] + Len_(r) = row_ptr[r + 1]
             /\ row_ptr[r + 1] <= nnz
    <2>1. r \in 0 .. M /\ r + 1 \in 0 .. M
        BY <1>1
    <2>2. /\ RowCounts[r] \in Nat /\ row_ptr[r] \in Nat
          /\ row_ptr[r + 1] = row_ptr[r] + RowCounts[r]
          /\ row_ptr[r + 1] <= nnz
        BY <1>1, <2>1, CountFacts
    <2>3. Len_(r) = row_ptr[r + 1] - row_ptr[r]
        BY DEF Len_
    <2>. QED  BY <2>2, <2>3
<1>. QED  BY <1>1, <1>2, <1>3

\* Nothing is claimed of the states that a return from an earlier step leads to.
LEMMA NotFolding ==
    ASSUME pc' \notin Folding, pc' = "done" => matrix' # Vectors
    PROVE  FoldInv'
BY DEF FoldInv, FoldedRows, RowAtHand, GroupAtHand, CanonicalWhenLoaded, Loaded, Done, Folding, Vectors

LEMMA InsideRow ==
    ASSUME NEW base \in Nat, NEW len \in Nat, NEW n \in Nat, base + len <= n, NEW y \in 0 .. len - 1
    PROVE  base + y \in 0 .. n - 1
OBVIOUS

LEMMA FoldSortRow ==
    ASSUME TypeInv, RowsInv, FoldInv, SortRow
    PROVE  FoldInv'
<1>1. /\ pc = "row" /\ pc' = "fold" /\ i < M /\ t' = 0
      /\ UNCHANGED <<file, coo, row_ptr, cells, i, write, new_rp>>
    BY DEF SortRow, reading
<1>2. PICK q \in Orders(Len_(i)) :
        /\ buf' = [x \in 0 .. Len_(i) - 1 |-> cells[row_ptr[i] + q[x]]]
        /\ \A x \in 1 .. Len_(i) - 1 : buf'[x - 1].col <= buf'[x].col
    BY DEF SortRow
<1>3. q \in [0 .. Len_(i) - 1 -> 0 .. Len_(i) - 1]
    BY <1>2 DEF Orders
<1>4. /\ M \in Nat /\ nnz \in Nat /\ i \in 0 .. M - 1 /\ row_ptr[i] \in Nat
      /\ cells \in [0 .. nnz - 1 -> Cell]
      /\ Len_(i) \in Nat /\ row_ptr[i] + Len_(i) = row_ptr[i + 1] /\ row_ptr[i + 1] <= nnz
    BY <1>1, RowFacts DEF Folding
<1>5. ASSUME NEW x \in 0 .. Len_(i) - 1
      PROVE  cells[row_ptr[i] + q[x]] \in Cell
    <2>1. q[x] \in 0 .. Len_(i) - 1
        BY ONLY <1>3, x \in 0 .. Len_(i) - 1
    <2>2. row_ptr[i] + q[x] \in 0 .. nnz - 1
        <3>1. row_ptr[i] + Len_(i) <= nnz
            BY ONLY <1>4
        <3>. QED  BY ONLY <1>4, <2>1, <3>1, InsideRow
    <2>. QED  BY ONLY <1>4, <2>2
<1>6. buf' \in [0 .. Len_(i) - 1 -> Cell]
    BY <1>2, <1>5
<1>7. Len_(i)' = Len_(i) /\ M' = M
    BY <1>1 DEF Len_, M
<1>8. write \in Nat /\ new_rp \in [0 .. i -> Nat] /\ write = new_rp[i] /\ write <= row_ptr[i]
    BY <1>1, RowFacts DEF FoldInv, FoldedRows, RowAtHand, Folding
<1>9. FoldedRows'
    BY <1>1 DEF FoldInv, FoldedRows, Folding, Ascends
<1>10. RowAtHand'
    <2>1. Ascends(new_rp[i], write)'
        BY <1>1, <1>8 DEF Ascends
    <2>2. \A x \in 1 .. Len_(i) - 1 : buf'[x - 1].col <= buf'[x].col
        BY <1>2
    <2>3. 0 <= Len_(i) /\ write <= row_ptr[i] + 0
        BY <1>4, <1>8
    <2>. QED  BY ONLY <1>1, <1>6, <1>7, <2>1, <2>2, <2>3 DEF RowAtHand
<1>11. GroupAtHand' /\ CanonicalWhenLoaded'
    BY <1>1, <1>8 DEF GroupAtHand, CanonicalWhenLoaded, Loaded, Done
<1>. QED  BY <1>9, <1>10, <1>11 DEF FoldInv

LEMMA FoldOpenGroup ==
    ASSUME TypeInv, RowsInv, FoldInv, OpenGroup
    PROVE  FoldInv'
<1>1. /\ pc = "fold" /\ pc' = "group" /\ t < Len_(i) /\ acc' = buf[t] /\ t' = t + 1
      /\ UNCHANGED <<file, coo, row_ptr, cells, i, write, new_rp, buf>>
    BY DEF OpenGroup, reading
<1>2. /\ i < M /\ M \in Nat /\ i \in 0 .. M - 1 /\ t \in Nat /\ write \in Nat
      /\ row_ptr[i] \in Nat /\ Len_(i) \in Nat
    BY <1>1, RowFacts DEF Folding, TypeInv, Entries
<1>3. Len_(i)' = Len_(i)
    BY <1>1 DEF Len_
<1>4. /\ buf \in [0 .. Len_(i) - 1 -> Cell]
      /\ \A x \in 1 .. Len_(i) - 1 : buf[x - 1].col <= buf[x].col
      /\ Ascends(new_rp[i], write) /\ write <= row_ptr[i] + t
    BY <1>1 DEF FoldInv, RowAtHand
<1>5. FoldedRows'
    BY <1>1 DEF FoldInv, FoldedRows, Folding, Ascends
<1>6. RowAtHand'
    <2>1. Ascends(new_rp[i], write)'
        BY <1>1, <1>4 DEF Ascends
    <2>. QED  BY <1>1, <1>2, <1>3, <1>4, <2>1 DEF RowAtHand
<1>7. GroupAtHand'
    <2>1. acc' \in Cell /\ t' - 1 = t
        BY <1>1, <1>2, <1>4
    <2>. QED  BY <1>1, <2>1 DEF FoldInv, GroupAtHand
<1>8. CanonicalWhenLoaded'
    BY <1>1 DEF CanonicalWhenLoaded, Loaded, Done
<1>. QED  BY <1>5, <1>6, <1>7, <1>8 DEF FoldInv

LEMMA FoldAddToGroup ==
    ASSUME TypeInv, RowsInv, FoldInv, AddToGroup
    PROVE  FoldInv'
<1>1. /\ pc = "group" /\ pc' = "group" /\ t < Len_(i) /\ buf[t].col = acc.col /\ t' = t + 1
      /\ acc' = [acc EXCEPT !.val = acc.val + buf[t].val]
      /\ UNCHANGED <<file, coo, row_ptr, cells, i, write, new_rp, buf>>
    BY DEF AddToGroup, SameColumn, reading
<1>2. /\ i < M /\ M \in Nat /\ i \in 0 .. M - 1 /\ t \in Nat /\ write \in Nat
      /\ row_ptr[i] \in Nat /\ Len_(i) \in Nat
    BY <1>1, RowFacts DEF Folding, TypeInv, Entries
<1>3. Len_(i)' = Len_(i)
    BY <1>1 DEF Len_
<1>4. /\ buf \in [0 .. Len_(i) - 1 -> Cell]
      /\ \A x \in 1 .. Len_(i) - 1 : buf[x - 1].col <= buf[x].col
      /\ Ascends(new_rp[i], write) /\ write < row_ptr[i] + t
    BY <1>1 DEF FoldInv, RowAtHand
<1>5. FoldedRows'
    BY <1>1 DEF FoldInv, FoldedRows, Folding, Ascends
<1>6. RowAtHand'
    <2>1. Ascends(new_rp[i], write)'
        BY <1>1, <1>4 DEF Ascends
    <2>. QED  BY <1>1, <1>2, <1>3, <1>4, <2>1 DEF RowAtHand
<1>7. GroupAtHand'
    <2>1. acc \in Cell /\ (write > new_rp[i] => cells[write - 1].col < acc.col)
        BY <1>1 DEF FoldInv, GroupAtHand
    <2>2. buf[t] \in Cell
        BY <1>1, <1>2, <1>4
    <2>3. acc' \in Cell /\ acc'.col = acc.col
        BY <1>1, <2>1, <2>2 DEF Cell
    <2>4. t' - 1 = t
        BY <1>1, <1>2
    <2>. QED  BY <1>1, <2>1, <2>3, <2>4 DEF GroupAtHand
<1>8. CanonicalWhenLoaded'
    BY <1>1 DEF CanonicalWhenLoaded, Loaded, Done
<1>. QED  BY <1>5, <1>6, <1>7, <1>8 DEF FoldInv

LEMMA FoldAllocBuffers ==
    ASSUME TypeInv, RowsInv, FoldInv, AllocBuffers
    PROVE  FoldInv'
<1>1. CASE pc' = "done"
    <2>1. matrix' = {}
        BY <1>1 DEF AllocBuffers, Returns
    <2>. QED  BY <1>1, <2>1, NotFolding DEF Folding, Vectors
<1>2. CASE pc' = "row"
    <2>1. /\ pc = "canonicalise" /\ i' = 0 /\ write' = 0 /\ new_rp' = [p \in 0 .. 0 |-> 0]
          /\ UNCHANGED <<row_ptr, cells>>
        BY <1>2 DEF AllocBuffers, Returns, VectorAdd
    <2>2. row_ptr[0] = 0
        BY <2>1, RowFacts
    <2>3. new_rp' \in [0 .. 0 -> Nat] /\ new_rp'[0] = 0
        BY <2>1
    <2>4. FoldedRows'
        BY <1>2, <2>1, <2>3 DEF FoldedRows
    <2>5. RowAtHand' /\ GroupAtHand'
        BY <1>2, <2>1, <2>2, <2>3 DEF RowAtHand, GroupAtHand
    <2>. QED  BY <1>2, <2>4, <2>5 DEF FoldInv, CanonicalWhenLoaded, Loaded, Done
<1>. QED  BY <1>1, <1>2 DEF AllocBuffers, Returns

\* A group goes to a cell that is read already, after the last one of its row.
LEMMA FoldCloseGroup ==
    ASSUME TypeInv, RowsInv, FoldInv, CloseGroup
    PROVE  /\ FoldInv'
           /\ write < row_ptr[i + 1]
<1>1. /\ pc = "group" /\ pc' = "fold" /\ write' = write + 1
      /\ cells' = [cells EXCEPT ![write] = acc]
      /\ UNCHANGED <<file, coo, row_ptr, i, t, buf, acc, new_rp>>
    BY DEF CloseGroup, Target, reading
<1>2. /\ i < M /\ M \in Nat /\ nnz \in Nat /\ i \in 0 .. M - 1 /\ t \in Nat /\ write \in Nat
      /\ row_ptr[i] \in Nat /\ Len_(i) \in Nat
      /\ row_ptr[i] + Len_(i) = row_ptr[i + 1] /\ row_ptr[i + 1] <= nnz
      /\ cells \in [0 .. nnz - 1 -> Cell]
    <2>1. i < M
        BY <1>1 DEF TypeInv, Entries
    <2>2. /\ M \in Nat /\ nnz \in Nat /\ i \in 0 .. M /\ t \in Nat /\ write \in Nat
          /\ row_ptr \in [0 .. M -> Nat] /\ cells \in [0 .. nnz - 1 -> Cell]
          /\ \A r \in 0 .. M - 1 :
               /\ Len_(r) \in Nat /\ row_ptr[r] + Len_(r) = row_ptr[r + 1]
               /\ row_ptr[r + 1] <= nnz
        BY <1>1, RowFacts DEF Folding
    <2>3. i \in 0 .. M - 1
        BY ONLY <2>1, <2>2
    <2>. QED  BY ONLY <2>1, <2>2, <2>3
<1>3. Len_(i)' = Len_(i)
    BY <1>1 DEF Len_
<1>4. /\ buf \in [0 .. Len_(i) - 1 -> Cell]
      /\ \A x \in 1 .. Len_(i) - 1 : buf[x - 1].col <= buf[x].col
      /\ t <= Len_(i) /\ Ascends(new_rp[i], write) /\ t > 0 /\ write < row_ptr[i] + t
    BY <1>1 DEF FoldInv, RowAtHand
<1>5. /\ acc \in Cell /\ acc.col = buf[t - 1].col
      /\ write > new_rp[i] => cells[write - 1].col < acc.col
    BY <1>1 DEF FoldInv, GroupAtHand
<1>6. /\ new_rp \in [0 .. i -> Nat] /\ new_rp[0] = 0
      /\ \A r \in 0 .. i - 1 : new_rp[r] <= new_rp[r + 1] /\ Ascends(new_rp[r], new_rp[r + 1])
      /\ \A r \in 0 .. i : new_rp[r] <= write
    BY <1>1 DEF FoldInv, FoldedRows, Folding
<1>7. write < row_ptr[i + 1] /\ write \in 0 .. nnz - 1
    BY <1>2, <1>4
<1>8. /\ \A p \in 0 .. write - 1 : cells'[p] = cells[p]
      /\ cells'[write] = acc
    BY <1>1, <1>2, <1>7
<1>9. FoldedRows'
    <2>1. ASSUME NEW r \in 0 .. i - 1
          PROVE  Ascends(new_rp[r], new_rp[r + 1])'
        <3>1. /\ r + 1 \in 0 .. i /\ new_rp[r] \in Nat /\ new_rp[r + 1] \in Nat
              /\ new_rp[r + 1] <= write /\ Ascends(new_rp[r], new_rp[r + 1])
            BY <1>2, <1>6
        <3>2. ASSUME NEW p \in new_rp[r] .. new_rp[r + 1] - 2
              PROVE  cells'[p].col < cells'[p + 1].col
            <4>1. p \in 0 .. write - 1 /\ p + 1 \in 0 .. write - 1
                BY <1>2, <3>1
            <4>. QED  BY <1>8, <3>1, <4>1 DEF Ascends
        <3>. QED  BY <1>1, <3>2 DEF Ascends
    <2>2. \A r \in 0 .. i : new_rp[r] <= write + 1
        BY <1>2, <1>6
    <2>. QED  BY <1>1, <1>6, <2>1, <2>2 DEF FoldedRows
<1>10. RowAtHand'
    <2>1. ASSUME NEW p \in new_rp[i] .. write - 1
          PROVE  cells'[p].col < cells'[p + 1].col
        <3>1. new_rp[i] \in Nat /\ new_rp[i] <= write
            BY <1>2, <1>6
        <3>2. CASE p = write - 1
            <4>1. write - 1 \in 0 .. write - 1 /\ write > new_rp[i] /\ p + 1 = write
                BY <1>2, <3>1, <3>2
            <4>. QED  BY <1>5, <1>8, <3>2, <4>1
        <3>3. CASE p # write - 1
            <4>1. p \in 0 .. write - 1 /\ p + 1 \in 0 .. write - 1 /\ p \in new_rp[i] .. write - 2
                BY <1>2, <3>1, <3>3
            <4>. QED  BY <1>4, <1>8, <4>1 DEF Ascends
        <3>. QED  BY <3>2, <3>3
    <2>2. Ascends(new_rp[i], write)'
        BY <1>1, <1>2, <2>1 DEF Ascends
    <2>3. write + 1 <= row_ptr[i] + t
        BY <1>2, <1>4
    <2>. QED  BY ONLY <1>1, <1>3, <1>4, <2>2, <2>3 DEF RowAtHand
<1>11. GroupAtHand'
    <2>1. ASSUME t < Len_(i)
          PROVE  cells'[write].col < buf[t].col
        <3>1. /\ t \in 1 .. Len_(i) - 1 /\ t - 1 \in 0 .. Len_(i) - 1 /\ t \in 0 .. Len_(i) - 1
            BY <1>2, <1>4, <2>1
        <3>2. buf[t - 1].col <= buf[t].col /\ buf[t].col \in Nat /\ buf[t - 1].col \in Nat
            BY <1>4, <3>1 DEF Cell
        <3>3. buf[t].col # acc.col
            BY <2>1 DEF CloseGroup, SameColumn
        <3>. QED  BY <1>5, <1>8, <3>2, <3>3
    <2>2. write' - 1 = write
        BY <1>1, <1>2
    <2>. QED  BY <1>1, <1>3, <2>1, <2>2 DEF GroupAtHand
<1>12. CanonicalWhenLoaded'
    BY <1>1 DEF CanonicalWhenLoaded, Loaded, Done
<1>. QED  BY <1>7, <1>9, <1>10, <1>11, <1>12 DEF FoldInv

LEMMA FoldEndRow ==
    ASSUME TypeInv, RowsInv, FoldInv, EndRow
    PROVE  FoldInv'
<1>1. /\ pc = "fold" /\ pc' = "row" /\ t >= Len_(i) /\ i' = i + 1
      /\ new_rp' = [p \in 0 .. i + 1 |-> IF p = i + 1 THEN write ELSE new_rp[p]]
      /\ UNCHANGED <<file, coo, row_ptr, cells, write>>
    BY DEF EndRow, VectorAdd, reading
<1>2. /\ i < M /\ M \in Nat /\ i \in 0 .. M - 1 /\ t \in Nat /\ write \in Nat
      /\ row_ptr[i] \in Nat /\ Len_(i) \in Nat
      /\ row_ptr[i] + Len_(i) = row_ptr[i + 1]
    BY <1>1, RowFacts DEF Folding, TypeInv, Entries
<1>3. t <= Len_(i) /\ Ascends(new_rp[i], write) /\ write <= row_ptr[i] + t
    BY <1>1 DEF FoldInv, RowAtHand
<1>4. /\ new_rp \in [0 .. i -> Nat] /\ new_rp[0] = 0
      /\ \A r \in 0 .. i - 1 : new_rp[r] <= new_rp[r + 1] /\ Ascends(new_rp[r], new_rp[r + 1])
      /\ \A r \in 0 .. i : new_rp[r] <= write
    BY <1>1 DEF FoldInv, FoldedRows, Folding
<1>5. /\ new_rp' \in [0 .. i' -> Nat] /\ new_rp'[i'] = write
      /\ \A r \in 0 .. i : new_rp'[r] = new_rp[r]
    BY <1>1, <1>2, <1>4
<1>6. FoldedRows'
    <2>1. ASSUME NEW r \in 0 .. i
          PROVE  new_rp'[r] <= new_rp'[r + 1] /\ Ascends(new_rp[r], new_rp[r + 1])'
        <3>1. CASE r = i
            <4>1. new_rp'[r] = new_rp[i] /\ new_rp'[r + 1] = write
                BY <1>1, <1>2, <1>5, <3>1
            <4>2. new_rp[i] <= write
                BY <1>2, <1>4
            <4>. QED  BY <1>1, <1>3, <4>1, <4>2 DEF Ascends
        <3>2. CASE r # i
            <4>1. r \in 0 .. i - 1 /\ r + 1 \in 0 .. i
                BY <1>2, <3>2
            <4>2. new_rp'[r] = new_rp[r] /\ new_rp'[r + 1] = new_rp[r + 1]
                BY <1>5, <4>1
            <4>. QED  BY <1>1, <1>4, <4>1, <4>2 DEF Ascends
        <3>. QED  BY <3>1, <3>2
    <2>2. \A r \in 0 .. i' : new_rp'[r] <= write
        BY <1>1, <1>2, <1>4, <1>5
    <2>3. i' - 1 = i /\ new_rp'[0] = 0
        BY <1>1, <1>2, <1>4, <1>5
    <2>. QED  BY <1>1, <1>5, <2>1, <2>2, <2>3 DEF FoldedRows
<1>7. RowAtHand'
    BY <1>1, <1>2, <1>3, <1>5 DEF RowAtHand
<1>. QED  BY <1>1, <1>6, <1>7 DEF FoldInv, GroupAtHand, CanonicalWhenLoaded, Loaded, Done

LEMMA FoldFinishRows ==
    ASSUME TypeInv, RowsInv, FoldInv, FinishRows
    PROVE  FoldInv'
<1>1. /\ pc = "row" /\ i >= M /\ pc' = "done"
      /\ row_ptr' = new_rp /\ cells' = [p \in 0 .. write - 1 |-> cells[p]]
      /\ UNCHANGED <<file, i>>
    BY DEF FinishRows
<1>2. M \in Nat /\ i = M /\ write \in Nat /\ M' = M
    BY <1>1, RowFacts DEF Folding, M
<1>3. /\ new_rp \in [0 .. i -> Nat] /\ new_rp[0] = 0 /\ write = new_rp[i]
      /\ \A r \in 0 .. i - 1 : new_rp[r] <= new_rp[r + 1] /\ Ascends(new_rp[r], new_rp[r + 1])
      /\ \A r \in 0 .. i : new_rp[r] <= write
    BY <1>1 DEF FoldInv, FoldedRows, RowAtHand, Folding
<1>4. ASSUME NEW r \in 0 .. M - 1, NEW p \in new_rp[r] .. new_rp[r + 1] - 2
      PROVE  cells'[p].col < cells'[p + 1].col
    <2>1. /\ r + 1 \in 0 .. i /\ new_rp[r] \in Nat /\ new_rp[r + 1] \in Nat
          /\ new_rp[r + 1] <= write
        BY <1>2, <1>3
    <2>2. p \in 0 .. write - 1 /\ p + 1 \in 0 .. write - 1
        BY <1>2, <2>1
    <2>3. cells[p].col < cells[p + 1].col
        BY <1>2, <1>3 DEF Ascends
    <2>. QED  BY <1>1, <2>2, <2>3
<1>5. Shaped'
    BY <1>1, <1>2, <1>3, <1>4 DEF Shaped
<1>. QED  BY <1>1, <1>5 DEF FoldInv, FoldedRows, RowAtHand, GroupAtHand, Folding, CanonicalWhenLoaded

LEMMA FoldStep == TypeInv /\ RowsInv /\ HeapInv /\ FoldInv /\ [Next]_vars => FoldInv'
<1>. SUFFICES ASSUME TypeInv, RowsInv, HeapInv, FoldInv, [Next]_vars PROVE FoldInv'
    OBVIOUS
<1>1. CASE Open
    BY <1>1, NotFolding DEF Open, Returns, Folding, Vectors
<1>2. CASE ReadSizes
    BY <1>2, NotFolding DEF ReadSizes, Returns, Folding, Vectors
<1>3. CASE AllocCoo
    BY <1>3, NotFolding DEF AllocCoo, Returns, Folding, Vectors
<1>4. CASE ReadEntry
    BY <1>4, NotFolding DEF ReadEntry, Folding, Vectors, heap
<1>5. CASE CloseFile
    BY <1>5, NotFolding DEF CloseFile, Folding, Vectors
<1>6. CASE Expand
    BY <1>6, NotFolding DEF Expand, Returns, Folding, Vectors
<1>7. CASE MirrorEntry
    BY <1>7, NotFolding DEF MirrorEntry, Folding, Vectors, heap
<1>8. CASE MirrorDone
    BY <1>8, NotFolding DEF MirrorDone, Folding, Vectors
<1>9. CASE CountRows
    BY <1>9, NotFolding DEF CountRows, Returns, Folding, Vectors
<1>10. CASE AddRowEnd
    BY <1>10, NotFolding DEF AddRowEnd, Folding, Vectors, heap
<1>11. CASE AllocCursor
    <2>1. pc' \notin Folding /\ (pc' = "done" => matrix' = matrix) /\ matrix = {"row_ptr"}
        BY <1>11 DEF AllocCursor, Returns, Folding, HeapInv
    <2>. QED  BY <2>1, NotFolding DEF Vectors
<1>12. CASE Scatter
    BY <1>12, NotFolding DEF Scatter, Folding, Vectors, heap
<1>13. CASE ScatterDone
    BY <1>13, NotFolding DEF ScatterDone, Folding, Vectors
<1>14. CASE AllocBuffers
    BY <1>14, FoldAllocBuffers
<1>15. CASE SortRow
    BY <1>15, FoldSortRow
<1>16. CASE OpenGroup
    BY <1>16, FoldOpenGroup
<1>17. CASE AddToGroup
    BY <1>17, FoldAddToGroup
<1>18. CASE CloseGroup
    BY <1>18, FoldCloseGroup
<1>19. CASE EndRow
    BY <1>19, FoldEndRow
<1>20. CASE FinishRows
    BY <1>20, FoldFinishRows
<1>21. CASE UNCHANGED vars
    BY <1>21 DEF vars, folding, heap, FoldInv, FoldedRows, RowAtHand, GroupAtHand,
                CanonicalWhenLoaded, Loaded, Done, Shaped, Ascends, Len_, M
<1>. QED
    BY <1>1, <1>2, <1>3, <1>4, <1>5, <1>6, <1>7, <1>8, <1>9, <1>10, <1>11, <1>12, <1>13,
       <1>14, <1>15, <1>16, <1>17, <1>18, <1>19, <1>20, <1>21 DEF Next

-------------------------------------------------------------------------------
(* The theorems *)

IInv == TypeInv /\ HeapInv /\ RowsInv /\ FoldInv

LEMMA InvInit == Init => IInv
<1>. SUFFICES ASSUME Init PROVE IInv
    OBVIOUS
<1>1. TypeInv
    BY TypeInit
<1>2. HeapInv
    BY DEF Init, HeapInv, HeapOnReturn, Done, Reading, Folding
<1>3. RowsInv
    BY DEF Init, RowsInv, Folding
<1>4. FoldInv
    BY DEF Init, FoldInv, FoldedRows, RowAtHand, GroupAtHand, CanonicalWhenLoaded, Loaded, Done, Folding
<1>. QED  BY <1>1, <1>2, <1>3, <1>4 DEF IInv

LEMMA InvStep == IInv /\ [Next]_vars => IInv'
<1>1. TypeInv => Phases
    BY DEF TypeInv, Entries, Phases
<1>. QED  BY <1>1, TypeStep, HeapStep, RowsStep, FoldStep DEF IInv

LEMMA Invariant == Spec => []IInv
<1>. QED  BY InvInit, InvStep, PTL DEF Spec

\* Whatever the files hold, the loops stay inside the rows and the entries
\* inside the matrix.
THEOREM TypeCorrect == Spec => []TypeOK
<1>1. IInv => TypeOK
    BY DEF IInv, TypeInv
<1>. QED  BY <1>1, Invariant, PTL

\* The remark of lines 102 and 103 for every file: a row that is still to be
\* read keeps its entries while the rows before it are folded into the same array.
THEOREM NeverClobbers == Spec => NeverClobbersUnread
<1>1. IInv /\ [Next]_vars => [(pc \in {"fold", "group"}) => UnreadStays]_vars
    <2>. SUFFICES ASSUME IInv, [Next]_vars, pc \in {"fold", "group"}
                  PROVE  UnreadStays
        OBVIOUS
    <2>1. CASE CloseGroup
        <3>1. write < row_ptr[i + 1]
            BY <2>1, FoldCloseGroup DEF IInv
        <3>2. cells' = [cells EXCEPT ![write] = acc]
            BY <2>1 DEF CloseGroup, Target
        <3>3. /\ DOMAIN cells \subseteq Int /\ write \in Int /\ row_ptr[i + 1] \in Int
            <4>1. /\ cells \in [0 .. nnz - 1 -> Cell] /\ write \in Nat /\ M \in Nat
                  /\ row_ptr \in [0 .. M -> Nat] /\ i \in 0 .. M
                BY RowFacts DEF IInv, Folding
            <4>2. i + 1 \in 0 .. M
                BY <4>1 DEF IInv, TypeInv, Entries
            <4>. QED  BY <4>1, <4>2
        <3>. QED  BY <3>1, <3>2, <3>3 DEF UnreadStays
    <2>2. CASE cells' = cells
        BY <2>2 DEF UnreadStays
    <2>. QED
        BY <2>1, <2>2 DEF Next, vars, Open, ReadSizes, AllocCoo, ReadEntry, CloseFile, Expand,
           MirrorEntry, MirrorDone, CountRows, AddRowEnd, AllocCursor, Scatter, ScatterDone,
           AllocBuffers, SortRow, OpenGroup, AddToGroup, EndRow, FinishRows
<1>. QED  BY <1>1, Invariant, PTL DEF Spec, NeverClobbersUnread

\* For every file, a matrix that is returned whole is canonical: its row pointers
\* ascend and bound its cells, the columns of each row strictly ascend.
THEOREM Canonical == Spec => []CanonicalWhenLoaded
<1>1. IInv => CanonicalWhenLoaded
    BY DEF IInv, FoldInv
<1>. QED  BY <1>1, Invariant, PTL

\* Whichever of the checked allocations fails, at the return nothing is allocated
\* but what the struct points to and what realloc could not grow.
THEOREM HeapAccounted == Spec => []HeapOnReturn
<1>1. IInv => HeapOnReturn
    BY DEF IInv, HeapInv
<1>. QED  BY <1>1, Invariant, PTL

-------------------------------------------------------------------------------
(* Least elements, and induction *)

Less == {ss \in Nat \X Nat : ss[1] < ss[2]}
LEMMA Least ==
    ASSUME NEW T \in SUBSET Nat, T # {}
    PROVE  \E x \in T : \A y \in T : x <= y
  <1>1. IsWellFoundedOn(Less, Nat)
    BY NatLessThanWellFounded, Zenon DEF OpToRel, Less
  <1>2. PICK x \in T : \A y \in T : <<y, x>> \notin Less
    BY <1>1, WFMin, Zenon
  <1>3. \A y \in T : ~(y < x)
    BY <1>2 DEF Less
  <1>4. QED
    BY <1>3

LEMMA Induction ==
    ASSUME NEW S \in SUBSET Nat, 0 \in S, \A n \in S : n + 1 \in S
    PROVE  S = Nat
  <1> SUFFICES ASSUME Nat \ S # {} PROVE FALSE
    OBVIOUS
  <1>1. PICK x \in Nat \ S : \A y \in Nat \ S : x <= y
    BY Least
  <1>2. x # 0 /\ x - 1 \in Nat /\ x - 1 \in S
    BY <1>1
  <1>3. QED
    BY <1>1, <1>2

-------------------------------------------------------------------------------
(* Sums over finite sets: one subset after the other gets its sum *)

\* The subsets of a finite set with at most n elements, and what is left of one
\* without one of its elements.
Small(S, n) == {T \in SUBSET S : Cardinality(T) <= n}

LEMMA SmallFacts ==
    ASSUME NEW S, IsFiniteSet(S)
    PROVE  /\ Small(S, 0) = {{}}
           /\ \A n \in Nat : \A T : T \in Small(S, n + 1) => \A x \in T : T \ {x} \in Small(S, n)
           /\ \A n \in Nat : \A T : T \in Small(S, n + 1) \ Small(S, n) => T # {}
           /\ \A n \in Nat : Small(S, n) \subseteq Small(S, n + 1)
           /\ Cardinality(S) \in Nat /\ Small(S, Cardinality(S)) = SUBSET S
  <1>1. \A T \in SUBSET S : IsFiniteSet(T) /\ Cardinality(T) \in Nat /\ Cardinality(T) <= Cardinality(S)
    BY FS_Subset, FS_CardinalityType
  <1>2. \A T \in SUBSET S : Cardinality(T) = 0 <=> T = {}
    BY <1>1, FS_EmptySet
  <1>3. \A T \in SUBSET S : \A x \in T : Cardinality(T \ {x}) = Cardinality(T) - 1
    BY <1>1, FS_RemoveElement
  <1>4. Cardinality(S) \in Nat
    BY FS_CardinalityType
  <1>5. Small(S, 0) = {{}}
    BY <1>1, <1>2 DEF Small
  <1>6. \A n \in Nat : \A T : T \in Small(S, n + 1) => \A x \in T : T \ {x} \in Small(S, n)
    BY <1>1, <1>3 DEF Small
  <1>7. \A n \in Nat : \A T : T \in Small(S, n + 1) \ Small(S, n) => T # {}
    BY <1>1, <1>2 DEF Small
  <1>8. QED
    BY <1>1, <1>4, <1>5, <1>6, <1>7 DEF Small

\* g gives the subsets in D their sums.
SumsOn(f, D, g) == g = [s \in D |-> IF s = {} THEN 0
                            ELSE LET x == CHOOSE x \in s : TRUE IN f[x] + g[s \ {x}]]

SumsOf(f, S, g) == SumsOn(f, SUBSET S, g)

Total(f, S) == (CHOOSE g : SumsOf(f, S, g))[S]

LEMMA SumsExist ==
    ASSUME NEW f, NEW S, IsFiniteSet(S)
    PROVE  \E g : SumsOf(f, S, g)
  <1> DEFINE Reached == {n \in Nat : \E g : SumsOn(f, Small(S, n), g)}
  <1>1. 0 \in Reached
    <2> DEFINE g == [s \in Small(S, 0) |-> 0]
    <2>1. SumsOn(f, Small(S, 0), g)
      BY SmallFacts DEF SumsOn, SumsOf
    <2> QED
      BY <2>1
  <1>2. ASSUME NEW n \in Reached PROVE n + 1 \in Reached
    <2>1. PICK g : SumsOn(f, Small(S, n), g)
      OBVIOUS
    <2> DEFINE h == [s \in Small(S, n + 1) |->
                        IF s \in Small(S, n) THEN g[s]
                        ELSE LET x == CHOOSE x \in s : TRUE IN f[x] + g[s \ {x}]]
    <2>2. \A s \in Small(S, n) : s # {} => LET x == CHOOSE x \in s : TRUE IN s \ {x} \in Small(S, n)
      BY FS_Subset, FS_CardinalityType, FS_RemoveElement DEF Small
    <2>3. ASSUME NEW s \in Small(S, n + 1)
          PROVE  h[s] = IF s = {} THEN 0 ELSE LET x == CHOOSE x \in s : TRUE IN f[x] + h[s \ {x}]
      <3> DEFINE x == CHOOSE x \in s : TRUE
      <3>1. CASE s = {}
        <4>1. s \in Small(S, n)
          BY <3>1, SmallFacts, FS_EmptySet DEF Small
        <4> QED
          BY <2>1, <3>1, <4>1 DEF SumsOn, SumsOf
      <3>2. CASE s # {}
        <4>1. x \in s
          BY <3>2
        <4>2. s \ {x} \in Small(S, n) /\ s \ {x} \in Small(S, n + 1)
          BY <4>1, SmallFacts
        <4>3. h[s \ {x}] = g[s \ {x}]
          BY <4>2
        <4>4. h[s] = f[x] + g[s \ {x}]
          <5>1. CASE s \in Small(S, n)
            BY <5>1, <2>1, <3>2 DEF SumsOn, SumsOf
          <5>2. CASE s \notin Small(S, n)
            BY <5>2
          <5> QED BY <5>1, <5>2
        <4> HIDE DEF h
        <4> QED
          BY <3>2, <4>3, <4>4
      <3> QED BY <3>1, <3>2
    <2>4. SumsOn(f, Small(S, n + 1), h)
      <3>1. h = [s \in Small(S, n + 1) |-> h[s]]
        OBVIOUS
      <3> HIDE DEF h
      <3> QED
        BY <2>3, <3>1 DEF SumsOn, SumsOf
    <2> QED
      BY <2>4
  <1>3. Reached = Nat
    <2>1. Reached \in SUBSET Nat OBVIOUS
    <2> HIDE DEF Reached
    <2> QED BY <1>1, <1>2, <2>1, Induction
  <1>4. Cardinality(S) \in Reached /\ Small(S, Cardinality(S)) = SUBSET S
    BY <1>3, SmallFacts
  <1>5. PICK g : SumsOn(f, Small(S, Cardinality(S)), g)
    BY <1>4
  <1> QED
    BY <1>4, <1>5 DEF SumsOf

\* A sum over a finite set exists, and does not depend on the set it is taken from
LEMMA SumsAgree ==
    ASSUME NEW f, NEW S, NEW T, NEW g, NEW h, IsFiniteSet(S), T \in SUBSET S,
           SumsOf(f, S, g), SumsOf(f, T, h)
    PROVE  g[T] = h[T]
  <1> DEFINE Reached == {n \in Nat : \A U \in Small(T, n) : g[U] = h[U]}
  <1>0. IsFiniteSet(T)
    BY FS_Subset
  <1>1. 0 \in Reached
    BY <1>0, SmallFacts DEF SumsOn, SumsOf
  <1>2. ASSUME NEW n \in Reached PROVE n + 1 \in Reached
    <2> SUFFICES ASSUME NEW U \in Small(T, n + 1) PROVE g[U] = h[U]
      OBVIOUS
    <2>0. U \in SUBSET T /\ U \in SUBSET S
      BY DEF Small
    <2>1. CASE U = {}
      BY <2>0, <2>1 DEF SumsOn, SumsOf
    <2>2. CASE U # {}
      <3> DEFINE x == CHOOSE x \in U : TRUE
      <3>1. x \in U
        BY <2>2
      <3>2. U \ {x} \in Small(T, n)
        BY <3>1, <1>0, SmallFacts
      <3>3. g[U \ {x}] = h[U \ {x}]
        BY <3>2
      <3>4. g[U] = f[x] + g[U \ {x}]
        BY <2>0, <2>2 DEF SumsOn, SumsOf
      <3>5. h[U] = f[x] + h[U \ {x}]
        BY <2>0, <2>2 DEF SumsOn, SumsOf
      <3> QED BY <3>3, <3>4, <3>5
    <2> QED BY <2>1, <2>2
  <1>3. Reached = Nat
    <2>1. Reached \in SUBSET Nat OBVIOUS
    <2> HIDE DEF Reached
    <2> QED BY <1>1, <1>2, <2>1, Induction
  <1>4. Cardinality(T) \in Reached
    BY <1>0, <1>3, SmallFacts
  <1> QED
    BY <1>0, <1>4, SmallFacts

LEMMA SumsRemove ==
    ASSUME NEW f, NEW S, NEW g, IsFiniteSet(S), \A x \in S : f[x] \in Int, SumsOf(f, S, g)
    PROVE  \A x \in S : g[S \ {x}] \in Int /\ g[S] = f[x] + g[S \ {x}]
  <1> DEFINE Reached == {n \in Nat : \A U \in Small(S, n) :
                            g[U] \in Int /\ \A x \in U : g[U] = f[x] + g[U \ {x}]}
  <1>1. 0 \in Reached
    BY SmallFacts DEF SumsOn, SumsOf
  <1>2. ASSUME NEW n \in Reached PROVE n + 1 \in Reached
    <2> SUFFICES ASSUME NEW U \in Small(S, n + 1) 
                 PROVE  g[U] \in Int /\ \A x \in U : g[U] = f[x] + g[U \ {x}]
      OBVIOUS
    <2>0. U \in SUBSET S
      BY DEF Small
    <2>1. CASE U = {}
      BY <2>0, <2>1 DEF SumsOn, SumsOf
    <2>2. CASE U # {}
      <3> DEFINE y == CHOOSE y \in U : TRUE
      <3>1. y \in U /\ y \in S
        BY <2>0, <2>2
      <3>2. \A x \in U : U \ {x} \in Small(S, n) /\ g[U \ {x}] \in Int
        BY SmallFacts
      <3>3. g[U] = f[y] + g[U \ {y}]
        BY <2>0, <2>2 DEF SumsOn, SumsOf
      <3>4. g[U] \in Int
        <4>1. f[y] \in Int /\ g[U \ {y}] \in Int
          BY <3>1, <3>2
        <4> HIDE DEF y
        <4> QED BY <3>3, <4>1
      <3>5. ASSUME NEW x \in U PROVE g[U] = f[x] + g[U \ {x}]
        <4>1. CASE x = y
          BY <3>3, <4>1
        <4>2. CASE x # y
          <5>1. g[U \ {y}] = f[x] + g[(U \ {y}) \ {x}]
            <6>1. x \in U \ {y} BY <4>2
            <6> HIDE DEF y
            <6> QED BY <3>1, <3>2, <6>1
          <5>2. g[U \ {x}] = f[y] + g[(U \ {x}) \ {y}]
            <6>1. y \in U \ {x} BY <4>2, <3>1
            <6> HIDE DEF y
            <6> QED BY <3>2, <6>1
          <5>3. (U \ {y}) \ {x} = (U \ {x}) \ {y}
            OBVIOUS
          <5> DEFINE rest == g[(U \ {x}) \ {y}]
          <5>4. rest \in Int /\ f[x] \in Int /\ f[y] \in Int
            <6>1. (U \ {x}) \ {y} \in Small(S, n)
              <7>1. U \ {x} \in Small(S, n) /\ y \in U \ {x} BY <3>1, <3>2, <4>2
              <7> HIDE DEF y
              <7> QED BY <7>1, FS_Subset, FS_RemoveElement, FS_CardinalityType DEF Small
            <6> QED BY <2>0, <3>1, <6>1
          <5>5. g[U] = f[y] + (f[x] + rest) /\ g[U \ {x}] = f[y] + rest
            <6> HIDE DEF y
            <6> QED BY <3>3, <5>1, <5>2, <5>3
          <5> HIDE DEF y, rest
          <5> QED BY <5>4, <5>5
        <4> QED BY <4>1, <4>2
      <3> QED BY <3>4, <3>5
    <2> QED BY <2>1, <2>2
  <1>3. Reached = Nat
    <2>1. Reached \in SUBSET Nat OBVIOUS
    <2> HIDE DEF Reached
    <2> QED BY <1>1, <1>2, <2>1, Induction
  <1>4. Cardinality(S) \in Reached
    BY <1>3, SmallFacts
  <1>5. \A U \in SUBSET S : g[U] \in Int /\ \A x \in U : g[U] = f[x] + g[U \ {x}]
    BY <1>4, SmallFacts
  <1>6. S \in SUBSET S /\ \A x \in S : S \ {x} \in SUBSET S
    OBVIOUS
  <1> QED
    BY <1>5, <1>6

\* The sum over no element, and over one element more.
LEMMA TotalOfNone == \A f : Total(f, {}) = 0
  <1> SUFFICES ASSUME NEW f PROVE Total(f, {}) = 0
    OBVIOUS
  <1>1. \E g : SumsOf(f, {}, g)
    BY SumsExist, FS_EmptySet
  <1> QED
    BY <1>1 DEF SumsOn, SumsOf, Total

LEMMA TotalOfOneMore ==
    ASSUME NEW f, NEW S, IsFiniteSet(S), NEW x, x \notin S, \A y \in S \cup {x} : f[y] \in Int
    PROVE  Total(f, S) \in Int /\ Total(f, S \cup {x}) = f[x] + Total(f, S)
  <1>1. PICK more : more = S \cup {x}
    OBVIOUS
  <1>2. IsFiniteSet(more) /\ S \in SUBSET more /\ x \in more /\ more \ {x} = S
    BY <1>1, FS_AddElement
  <1>3. PICK g : SumsOf(f, more, g) /\ Total(f, more) = g[more]
    <2>1. \E gg : SumsOf(f, more, gg)
      BY <1>2, SumsExist
    <2> QED BY <2>1 DEF Total
  <1>4. PICK h : SumsOf(f, S, h) /\ Total(f, S) = h[S]
    <2>1. \E gg : SumsOf(f, S, gg)
      BY SumsExist
    <2> QED BY <2>1 DEF Total
  <1>5. g[S] = h[S]
    <2>1. SumsOf(f, more, g)
      BY <1>3
    <2>2. SumsOf(f, S, h)
      BY <1>4
    <2>3. IsFiniteSet(more) /\ S \in SUBSET more
      BY <1>2
    <2> QED BY <2>1, <2>2, <2>3, SumsAgree
  <1>6. \A y \in more : f[y] \in Int
    BY <1>1
  <1>7. \A y \in more : g[more \ {y}] \in Int /\ g[more] = f[y] + g[more \ {y}]
    <2>1. IsFiniteSet(more)
      BY <1>2
    <2>2. SumsOf(f, more, g)
      BY <1>3
    <2>3. QED
      BY ONLY <1>6, <2>1, <2>2, SumsRemove
  <1>8. g[more] = f[x] + g[S] /\ g[S] \in Int
    BY <1>2, <1>7
  <1> QED
    BY <1>1, <1>3, <1>4, <1>5, <1>8

\* Only the values on the set count.
LEMMA TotalSame ==
    ASSUME NEW S, NEW f, NEW h, \A x \in S : f[x] = h[x]
    PROVE  Total(f, S) = Total(h, S)
  <1>1. ASSUME NEW g
        PROVE  SumsOf(f, S, g) <=> SumsOf(h, S, g)
    <2>1. \A s \in SUBSET S : s # {} => (CHOOSE x \in s : TRUE) \in S
      OBVIOUS
    <2>2. \A s \in SUBSET S : s # {} => f[CHOOSE x \in s : TRUE] = h[CHOOSE x \in s : TRUE]
      BY <2>1
    <2>3. [s \in SUBSET S |-> IF s = {} THEN 0
              ELSE LET x == CHOOSE x \in s : TRUE IN f[x] + g[s \ {x}]] =
          [s \in SUBSET S |-> IF s = {} THEN 0
              ELSE LET x == CHOOSE x \in s : TRUE IN h[x] + g[s \ {x}]]
      BY <2>2
    <2> QED BY <2>3 DEF SumsOf, SumsOn
  <1> DEFINE P(g) == SumsOf(f, S, g)
             Q(g) == SumsOf(h, S, g)
  <1>2. \A g : P(g) <=> Q(g)
    BY <1>1
  <1>3. (CHOOSE g : P(g)) = (CHOOSE g : Q(g))
    <2> HIDE DEF P, Q
    <2> QED BY <1>2
  <1> QED BY <1>3 DEF Total

\* What holds of no element and, with a part, of one element more, holds of all.
LEMMA SetInduction ==
    ASSUME NEW S, IsFiniteSet(S), NEW P, {} \in P,
           \A T \in SUBSET S : T \in P => \A x \in S \ T : T \cup {x} \in P
    PROVE  S \in P
  <1> DEFINE Reached == {n \in Nat : Small(S, n) \subseteq P}
  <1>1. 0 \in Reached
    BY SmallFacts
  <1>2. ASSUME NEW n \in Reached PROVE n + 1 \in Reached
    <2> SUFFICES ASSUME NEW T \in Small(S, n + 1) PROVE T \in P
      OBVIOUS
    <2>1. CASE T \in Small(S, n)
      BY <2>1
    <2>2. CASE T \notin Small(S, n)
      <3>1. PICK x \in T : TRUE
        BY <2>2, SmallFacts
      <3>2. T \ {x} \in Small(S, n) /\ T \ {x} \in P /\ T \in SUBSET S /\ T \ {x} \in SUBSET S
        BY SmallFacts DEF Small
      <3>3. (T \ {x}) \cup {x} \in P
        BY <3>2
      <3>4. (T \ {x}) \cup {x} = T
        OBVIOUS
      <3> QED BY <3>3, <3>4
    <2> QED BY <2>1, <2>2
  <1>3. Reached = Nat
    <2>1. Reached \in SUBSET Nat OBVIOUS
    <2> HIDE DEF Reached
    <2> QED BY <1>1, <1>2, <2>1, Induction
  <1>4. Cardinality(S) \in Reached
    BY <1>3, SmallFacts
  <1> QED BY <1>4, SmallFacts

\* A sum may be taken over other elements, one for each.
LEMMA TotalMoves ==
    ASSUME NEW S, IsFiniteSet(S), NEW p, \A x, y \in S : p[x] = p[y] => x = y,
           NEW f, NEW h, \A x \in S : h[p[x]] \in Int /\ f[x] = h[p[x]]
    PROVE  Total(f, S) = Total(h, {p[x] : x \in S})
  <1> DEFINE P == {T \in SUBSET S : Total(f, T) = Total(h, {p[x] : x \in T})}
  <1>1. {} \in P
    <2>1. {p[x] : x \in {}} = {}
      OBVIOUS
    <2> QED BY <2>1, TotalOfNone
  <1>2. ASSUME NEW T \in SUBSET S, T \in P, NEW x \in S \ T
        PROVE  T \cup {x} \in P
    <2>1. IsFiniteSet(T)
      BY FS_Subset
    <2> DEFINE U == {p[y] : y \in T}
    <2>2. IsFiniteSet(U)
      <3>1. [y \in T |-> p[y]] \in Surjection(T, U)
        BY DEF Surjection
      <3> HIDE DEF U
      <3> QED BY <2>1, <3>1, FS_Surjection
    <2>3. p[x] \notin U
      OBVIOUS
    <2>4. {p[y] : y \in T \cup {x}} = U \cup {p[x]}
      OBVIOUS
    <2>5. \A y \in T \cup {x} : f[y] \in Int
      OBVIOUS
    <2>6. \A y \in U \cup {p[x]} : h[y] \in Int
      OBVIOUS
    <2>7. Total(f, T \cup {x}) = f[x] + Total(f, T)
      BY <2>1, <2>5, TotalOfOneMore
    <2>8. Total(h, U \cup {p[x]}) = h[p[x]] + Total(h, U)
      <3> HIDE DEF U
      <3> QED BY <2>2, <2>3, <2>6, TotalOfOneMore
    <2>9. Total(f, T) = Total(h, U)
      BY <1>2
    <2>10. T \cup {x} \in SUBSET S
      BY <1>2
    <2> QED BY <2>4, <2>7, <2>8, <2>9, <2>10
  <1>3. S \in P
    <2>1. \A T \in SUBSET S : T \in P => \A x \in S \ T : T \cup {x} \in P
      BY <1>2
    <2> HIDE DEF P
    <2> QED BY <1>1, <2>1, SetInduction
  <1> QED BY <1>3

-------------------------------------------------------------------------------
(* Cells that say the same: the same columns, and the same sum in each *)

ColsAt(F, D) == {F[d].col : d \in D}
SumAt(F, D, c) == Total([d \in D |-> F[d].val], {d \in D : F[d].col = c})
Alike(F, D, G, H) ==
    ColsAt(F, D) = ColsAt(G, H) /\ \A c \in Nat : SumAt(F, D, c) = SumAt(G, H, c)

LEMMA SumAtNone ==
    ASSUME NEW F, NEW c
    PROVE  SumAt(F, {}, c) = 0
<1>1. {d \in {} : F[d].col = c} = {}
    OBVIOUS
<1>. QED  BY <1>1, TotalOfNone DEF SumAt

LEMMA SumAtSame ==
    ASSUME NEW D, NEW F, NEW G, \A d \in D : F[d].col = G[d].col /\ F[d].val = G[d].val, NEW c
    PROVE  SumAt(F, D, c) = SumAt(G, D, c)
<1>1. {d \in D : F[d].col = c} = {d \in D : G[d].col = c}
    OBVIOUS
<1>2. [d \in D |-> F[d].val] = [d \in D |-> G[d].val]
    OBVIOUS
<1>. QED  BY <1>1, <1>2 DEF SumAt

\* G on D1 is F on D with one more element.
Grows(F, D, G, D1, x) ==
    /\ IsFiniteSet(D) /\ x \notin D /\ D1 = D \cup {x}
    /\ \A d \in D : F[d].col = G[d].col /\ F[d].val = G[d].val
    /\ \A d \in D1 : G[d].val \in Int

LEMMA SumAtGains ==
    ASSUME NEW D, NEW D1, NEW x, NEW F, NEW G, Grows(F, D, G, D1, x), NEW c
    PROVE  /\ SumAt(F, D, c) \in Int
           /\ G[x].col = c => SumAt(G, D1, c) = G[x].val + SumAt(F, D, c)
           /\ G[x].col # c => SumAt(G, D1, c) = SumAt(F, D, c)
<1>. DEFINE f == [d \in D |-> F[d].val]
            h == [d \in D1 |-> G[d].val]
            S == {d \in D : F[d].col = c}
            T == {d \in D1 : G[d].col = c}
<1>. USE DEF Grows
<1>1. IsFiniteSet(S)
    BY FS_Subset
<1>2. x \notin S /\ \A d \in S \cup {x} : h[d] \in Int
    OBVIOUS
<1>3. \A d \in S : f[d] = h[d]
    OBVIOUS
<1>4. T = IF G[x].col = c THEN S \cup {x} ELSE S
    OBVIOUS
<1>5. h[x] = G[x].val
    OBVIOUS
<1>6. SumAt(F, D, c) = Total(f, S) /\ SumAt(G, D1, c) = Total(h, T)
    BY DEF SumAt
<1>. HIDE DEF f, h, S, T
<1>7. Total(h, S) \in Int /\ Total(h, S \cup {x}) = h[x] + Total(h, S)
    BY <1>1, <1>2, TotalOfOneMore
<1>8. Total(f, S) = Total(h, S)
    BY <1>3, TotalSame
<1>. QED  BY <1>4, <1>5, <1>6, <1>7, <1>8

\* A step adds one cell to both sides.
LEMMA AlikeGains ==
    ASSUME NEW D, NEW D1, NEW x, NEW F, NEW F1, Grows(F, D, F1, D1, x),
           NEW H, NEW H1, NEW y, NEW G, NEW G1, Grows(G, H, G1, H1, y),
           Alike(F, D, G, H), F1[x].col = G1[y].col, F1[x].val = G1[y].val
    PROVE  Alike(F1, D1, G1, H1)
<1>1. ColsAt(F1, D1) = ColsAt(F, D) \cup {F1[x].col}
    BY DEF ColsAt, Grows
<1>2. ColsAt(G1, H1) = ColsAt(G, H) \cup {G1[y].col}
    BY DEF ColsAt, Grows
<1>3. ASSUME NEW c \in Nat
      PROVE  SumAt(F1, D1, c) = SumAt(G1, H1, c)
    <2>1. /\ F1[x].col = c => SumAt(F1, D1, c) = F1[x].val + SumAt(F, D, c)
          /\ F1[x].col # c => SumAt(F1, D1, c) = SumAt(F, D, c)
        BY SumAtGains
    <2>2. /\ G1[y].col = c => SumAt(G1, H1, c) = G1[y].val + SumAt(G, H, c)
          /\ G1[y].col # c => SumAt(G1, H1, c) = SumAt(G, H, c)
        BY SumAtGains
    <2>3. SumAt(F, D, c) = SumAt(G, H, c)
        BY DEF Alike
    <2>. QED  BY ONLY <2>1, <2>2, <2>3, F1[x].col = G1[y].col, F1[x].val = G1[y].val
<1>. QED  BY <1>1, <1>2, <1>3 DEF Alike

LEMMA AlikeSame ==
    ASSUME NEW D, NEW F, NEW G, \A d \in D : F[d].col = G[d].col /\ F[d].val = G[d].val
    PROVE  Alike(F, D, G, D)
<1>1. ColsAt(F, D) = ColsAt(G, D)
    BY DEF ColsAt
<1>2. \A c : SumAt(F, D, c) = SumAt(G, D, c)
    BY SumAtSame
<1>. QED  BY <1>1, <1>2 DEF Alike

LEMMA AlikeJoins ==
    ASSUME NEW D, NEW F, NEW G, NEW H, NEW F1, NEW D1,
           Alike(F1, D1, F, D), Alike(F, D, G, H)
    PROVE  Alike(F1, D1, G, H)
BY DEF Alike

\* The same cells in other places.
LEMMA AlikeMoves ==
    ASSUME NEW D, IsFiniteSet(D), NEW p, \A x, y \in D : p[x] = p[y] => x = y,
           NEW H, H = {p[x] : x \in D}, NEW F, NEW G,
           \A x \in D : F[x].col = G[p[x]].col /\ F[x].val = G[p[x]].val /\ G[p[x]].val \in Int
    PROVE  Alike(F, D, G, H)
<1>1. ColsAt(F, D) = ColsAt(G, H)
    BY DEF ColsAt
<1>2. ASSUME NEW c
      PROVE  SumAt(F, D, c) = SumAt(G, H, c)
    <2>. DEFINE f == [d \in D |-> F[d].val]
                h == [e \in H |-> G[e].val]
                S == {d \in D : F[d].col = c}
                T == {e \in H : G[e].col = c}
    <2>1. IsFiniteSet(S)
        BY FS_Subset
    <2>2. T = {p[x] : x \in S}
        OBVIOUS
    <2>3. \A x, y \in S : p[x] = p[y] => x = y
        OBVIOUS
    <2>4. \A x \in S : h[p[x]] \in Int /\ f[x] = h[p[x]]
        OBVIOUS
    <2>5. SumAt(F, D, c) = Total(f, S) /\ SumAt(G, H, c) = Total(h, T)
        BY DEF SumAt
    <2>. HIDE DEF f, h, S, T
    <2>. QED  BY <2>1, <2>2, <2>3, <2>4, <2>5, TotalMoves
<1>. QED  BY <1>1, <1>2 DEF Alike

-------------------------------------------------------------------------------
(* What the file means *)

Text == [s \in Meant |-> s[2]]
InRow(S, r) == {s \in S : s[2].row = r}

\* How many entries are read, those among the first n, and the mirrors of those
\* of them before m.
Held == IF file.L < Len(file.entries) THEN file.L ELSE Len(file.entries)
Lines(n) == {<<e, ZeroBased(file.entries[e])>> : e \in 1 .. n}
Mirrors(n, m) ==
    {<<-s[1], Mirror(s[2])>> : s \in {q \in Lines(n) : q[1] < m /\ is_symmetric /\ q[2].row # q[2].col}}

LEMMA LineFacts ==
    ASSUME file \in Files
    PROVE  /\ Held \in Nat /\ Held <= Len(file.entries) /\ Held <= file.L
           /\ \A e \in 1 .. Held :
                /\ ZeroBased(file.entries[e]) \in EntryType
                /\ Mirror(ZeroBased(file.entries[e])) \in EntryType
           /\ Stored = Lines(Held)
           /\ \A m \in Int : m > Held => Meant = Lines(Held) \cup Mirrors(Held, m)
           /\ IsFiniteSet(Meant)
           /\ \A s \in Meant : s[2] \in EntryType
<1>1. Held \in Nat /\ Held <= Len(file.entries) /\ Held <= file.L
    BY FileFacts DEF Held
<1>2. ASSUME NEW e \in 1 .. Held
      PROVE  /\ ZeroBased(file.entries[e]) \in EntryType
             /\ Mirror(ZeroBased(file.entries[e])) \in EntryType
    <2>. DEFINE y == file.entries[e]
    <2>1. e \in 1 .. Len(file.entries)
        BY <1>1, FileFacts
    <2>2. y.row \in Nat /\ y.row > 0 /\ y.col \in Nat /\ y.col > 0 /\ AsFloat(y.val) \in Int
        BY <2>1, FileFacts
    <2>. HIDE DEF y
    <2>3. y.row - 1 \in Nat /\ y.col - 1 \in Nat
        BY <2>2
    <2>. QED  BY <2>2, <2>3 DEF ZeroBased, Mirror, EntryType, y
<1>3. Stored = Lines(Held)
    BY DEF Stored, Held, Lines
<1>4. ASSUME NEW m \in Int, m > Held
      PROVE  Meant = Lines(Held) \cup Mirrors(Held, m)
    <2>1. \A q \in Lines(Held) : q[1] \in 1 .. Held
        BY DEF Lines
    <2>2. \A q \in Lines(Held) : q[1] < m
        BY <1>1, <1>4, <2>1
    <2>3. {q \in Stored : is_symmetric /\ q[2].row # q[2].col} =
          {q \in Lines(Held) : q[1] < m /\ is_symmetric /\ q[2].row # q[2].col}
        BY <1>3, <2>2
    <2>. QED  BY <1>3, <2>3 DEF Meant, Mirrors
<1>5. IsFiniteSet(Meant)
    <2>1. IsFiniteSet(1 .. Held)
        BY <1>1, FS_Interval
    <2>2. [e \in 1 .. Held |-> <<e, ZeroBased(file.entries[e])>>] \in Surjection(1 .. Held, Lines(Held))
        BY DEF Surjection, Lines
    <2>3. IsFiniteSet(Lines(Held))
        BY <2>1, <2>2, FS_Surjection
    <2>. DEFINE Q == {q \in Lines(Held) : q[1] < Held + 1 /\ is_symmetric /\ q[2].row # q[2].col}
    <2>4. IsFiniteSet(Q)
        BY <2>3, FS_Subset
    <2>5. [s \in Q |-> <<-s[1], Mirror(s[2])>>] \in Surjection(Q, Mirrors(Held, Held + 1))
        BY DEF Surjection, Mirrors
    <2>. HIDE DEF Q
    <2>6. IsFiniteSet(Mirrors(Held, Held + 1))
        BY <2>4, <2>5, FS_Surjection
    <2>7. IsFiniteSet(Lines(Held) \cup Mirrors(Held, Held + 1))
        BY <2>3, <2>6, FS_Union
    <2>8. Held + 1 \in Int /\ Held + 1 > Held
        BY <1>1
    <2>. QED  BY <1>4, <2>7, <2>8
<1>6. ASSUME NEW s \in Meant
      PROVE  s[2] \in EntryType
    <2>1. \A q \in Lines(Held) : \E e \in 1 .. Held : q = <<e, ZeroBased(file.entries[e])>>
        BY DEF Lines
    <2>2. \A q \in Lines(Held) : q[2] \in EntryType /\ Mirror(q[2]) \in EntryType
        BY <1>2, <2>1
    <2>3. s \in Lines(Held) \/ \E q \in Lines(Held) : s = <<-q[1], Mirror(q[2])>>
        BY <1>3 DEF Meant
    <2>. QED  BY <2>2, <2>3
<1>. QED  BY <1>1, <1>2, <1>3, <1>4, <1>5, <1>6

\* The value of a place is the sum of what is meant for it.
LEMMA ValueIsSum ==
    ASSUME NEW r, NEW c
    PROVE  ValueAt(r, c) = SumAt(Text, InRow(Meant, r), c)
<1>. DEFINE f == [s \in InRow(Meant, r) |-> Text[s].val]
<1>1. At(r, c) = {s \in InRow(Meant, r) : Text[s].col = c}
    BY DEF At, InRow, Text
<1>2. \A s \in At(r, c) : f[s] = s[2].val
    BY <1>1 DEF InRow, Text
<1>3. ValueAt(r, c) = Total([s \in At(r, c) |-> s[2].val], At(r, c))
    <2>. DEFINE S == At(r, c)
                h == [s \in S |-> s[2].val]
    <2>1. ASSUME NEW g
          PROVE  SumsOf(h, S, g) <=>
                   g = [s \in SUBSET S |-> IF s = {} THEN 0
                          ELSE LET x == CHOOSE x \in s : TRUE IN x[2].val + g[s \ {x}]]
        <3>1. \A s \in SUBSET S : s # {} => (CHOOSE x \in s : TRUE) \in S
            OBVIOUS
        <3>2. \A s \in SUBSET S : s # {} =>
                h[CHOOSE x \in s : TRUE] = (CHOOSE x \in s : TRUE)[2].val
            BY <3>1
        <3>. HIDE DEF h, S
        <3>3. [s \in SUBSET S |-> IF s = {} THEN 0
                 ELSE LET x == CHOOSE x \in s : TRUE IN h[x] + g[s \ {x}]] =
              [s \in SUBSET S |-> IF s = {} THEN 0
                 ELSE LET x == CHOOSE x \in s : TRUE IN x[2].val + g[s \ {x}]]
            BY <3>2
        <3>. QED  BY <3>3 DEF SumsOf, SumsOn
    <2>. DEFINE P(g) == SumsOf(h, S, g)
                Q(g) == g = [s \in SUBSET S |-> IF s = {} THEN 0
                               ELSE LET x == CHOOSE x \in s : TRUE IN x[2].val + g[s \ {x}]]
    <2>2. \A g : P(g) <=> Q(g)
        BY <2>1
    <2>3. (CHOOSE g : P(g)) = (CHOOSE g : Q(g))
        <3>. HIDE DEF P, Q
        <3>. QED  BY <2>2
    <2>4. ValueAt(r, c) = (CHOOSE g : Q(g))[S]
        BY DEF ValueAt, MapThenSumSet, MapThenFoldSet
    <2>. QED  BY <2>3, <2>4 DEF Total
<1>4. Total([s \in At(r, c) |-> s[2].val], At(r, c)) = Total(f, At(r, c))
    BY <1>2, TotalSame
<1>. QED  BY <1>1, <1>3, <1>4 DEF SumAt

-------------------------------------------------------------------------------
(* What has been read and mirrored *)

Early == {"start", "header", "coo", "read", "expand"}
Behind ==
    IF pc = "mirror" THEN Lines(Held) \cup Mirrors(Held, k)
    ELSE IF pc \in Early THEN Lines(nnz) ELSE Meant
CooIn(r) == {e \in 1 .. nnz : coo[e].row = r}

\* The entries of each row say what the part of the file behind the loop says of it.
ReadInv ==
    /\ pc \in {"start", "header", "coo"} => coo = <<>>
    /\ pc \in Early \cup {"count", "prefix"} => k = 1
    /\ pc \in Early => nnz <= Held /\ \A e \in 1 .. nnz : coo[e] = ZeroBased(file.entries[e])
    /\ pc = "expand" => nnz = Held
    /\ pc = "mirror" =>
         /\ stored = Held /\ k <= stored + 1 /\ stored <= nnz
         /\ \A e \in 1 .. stored : coo[e] = ZeroBased(file.entries[e])
    /\ pc # "done" => \A r \in Nat : Alike(coo, CooIn(r), Text, InRow(Behind, r))

LEMMA CooFacts ==
    ASSUME TypeInv
    PROVE  /\ file \in Files /\ coo \in Seq(EntryType) /\ nnz \in Nat /\ M \in Nat
           /\ \A e \in 1 .. nnz :
                /\ coo[e] \in EntryType /\ coo[e].val \in Int /\ coo[e].col \in Nat
                /\ coo[e].row \in 0 .. M - 1
           /\ \A r : IsFiniteSet(CooIn(r))
<1>1. file \in Files /\ coo \in Seq(EntryType) /\ nnz \in Nat /\ M \in Nat
    BY FileFacts DEF TypeInv, TypeOK, nnz
<1>2. \A e \in 1 .. nnz : coo[e] \in EntryType /\ coo[e].row < M
    BY <1>1 DEF TypeInv, TypeOK, nnz
<1>3. \A e \in 1 .. nnz : coo[e].val \in Int /\ coo[e].col \in Nat /\ coo[e].row \in Nat
    BY <1>2 DEF EntryType
<1>4. IsFiniteSet(1 .. nnz)
    BY <1>1, FS_Interval
<1>5. \A r : IsFiniteSet(CooIn(r))
    BY <1>4, FS_Subset DEF CooIn
<1>. QED  BY <1>1, <1>2, <1>3, <1>5

LEMMA EntryParts ==
    ASSUME NEW x \in EntryType
    PROVE  x.row \in Nat /\ x.col \in Nat /\ x.val \in Int
BY DEF EntryType

\* The same entry is added to both sides.
LEMMA EntryAdded ==
    ASSUME TypeInv, UNCHANGED file, NEW x \in EntryType, coo' = Append(coo, x),
           NEW S \in SUBSET Meant, NEW y \in Meant, y \notin S, y[2] = x,
           NEW r, Alike(coo, CooIn(r), Text, InRow(S, r))
    PROVE  Alike(coo', CooIn(r)', Text, InRow(S \cup {y}, r))
<1>1. /\ nnz' = nnz + 1 /\ nnz \in Nat
      /\ \A e \in 1 .. nnz : coo'[e] = coo[e]
      /\ coo'[nnz + 1] = x
    BY CooFacts DEF nnz
<1>2. CooIn(r)' = {e \in 1 .. nnz + 1 : coo'[e].row = r}
    BY <1>1 DEF CooIn
<1>3. IsFiniteSet(InRow(S, r))
    <2>1. IsFiniteSet(Meant)
        BY CooFacts, LineFacts
    <2>. QED  BY <2>1, FS_Subset DEF InRow
<1>4. x.val \in Int /\ \A s \in Meant : Text[s] = s[2] /\ s[2].val \in Int
    <2>1. \A s \in Meant : s[2] \in EntryType
        BY CooFacts, LineFacts
    <2>2. \A s \in Meant : s[2].val \in Int
        BY <2>1, EntryParts
    <2>. QED  BY <2>2, EntryParts DEF Text
<1>5. CASE x.row = r
    <2>1. CooIn(r)' = CooIn(r) \cup {nnz + 1} /\ nnz + 1 \notin CooIn(r)
        <3>1. coo'[nnz + 1].row = r /\ \A e \in 1 .. nnz : coo'[e].row = coo[e].row
            BY <1>1, <1>5
        <3>2. {e \in 1 .. nnz + 1 : coo'[e].row = r} = CooIn(r) \cup {nnz + 1}
            <4>1. 1 .. nnz + 1 = (1 .. nnz) \cup {nnz + 1}
                BY <1>1
            <4>. QED  BY ONLY <3>1, <4>1 DEF CooIn
        <3>3. nnz + 1 \notin CooIn(r)
            BY <1>1 DEF CooIn
        <3>. QED  BY <1>2, <3>2, <3>3, Zenon
    <2>2. InRow(S \cup {y}, r) = InRow(S, r) \cup {y} /\ y \notin InRow(S, r)
        BY <1>5 DEF InRow
    <2>3. Grows(coo, CooIn(r), coo', CooIn(r)', nnz + 1)
        <3>1. \A d \in CooIn(r) : coo'[d] = coo[d]
            BY <1>1 DEF CooIn
        <3>2. \A d \in CooIn(r) \cup {nnz + 1} : coo'[d].val \in Int
            BY <1>1, <1>4, <3>1, CooFacts DEF CooIn
        <3>. QED  BY <2>1, <3>1, <3>2, CooFacts DEF Grows
    <2>4. Grows(Text, InRow(S, r), Text, InRow(S \cup {y}, r), y)
        <3>1. \A d \in InRow(S \cup {y}, r) : Text[d].val \in Int
            BY <1>4 DEF InRow
        <3>. DEFINE D == InRow(S, r)
                    D1 == InRow(S \cup {y}, r)
        <3>2. IsFiniteSet(D) /\ y \notin D /\ D1 = D \cup {y} /\ \A d \in D1 : Text[d].val \in Int
            BY <1>3, <2>2, <3>1
        <3>. HIDE DEF D, D1
        <3>3. Grows(Text, D, Text, D1, y)
            BY <3>2 DEF Grows
        <3>. QED  BY <3>3 DEF D, D1
    <2>5. coo'[nnz + 1].col = Text[y].col /\ coo'[nnz + 1].val = Text[y].val
        <3>1. Text[y] = x /\ coo'[nnz + 1] = x
            BY <1>1, <1>4
        <3>. QED  BY <3>1
    <2>. DEFINE F1 == coo'
                D1 == CooIn(r)'
                H1 == InRow(S \cup {y}, r)
                H == InRow(S, r)
                n == nnz + 1
    <2>6. /\ Grows(coo, CooIn(r), F1, D1, n) /\ Grows(Text, H, Text, H1, y)
          /\ Alike(coo, CooIn(r), Text, H)
          /\ F1[n].col = Text[y].col /\ F1[n].val = Text[y].val
        BY <2>3, <2>4, <2>5
    <2>. HIDE DEF F1, D1, H1, H, n
    <2>7. Alike(F1, D1, Text, H1)
        BY <2>6, AlikeGains
    <2>8. F1 = coo' /\ D1 = CooIn(r)' /\ H1 = InRow(S \cup {y}, r)
        BY DEF F1, D1, H1
    <2>. QED  BY <2>7, <2>8
<1>6. CASE x.row # r
    <2>1. CooIn(r)' = CooIn(r)
        <3>1. coo'[nnz + 1].row # r /\ \A e \in 1 .. nnz : coo'[e].row = coo[e].row
            BY <1>1, <1>6
        <3>2. 1 .. nnz + 1 = (1 .. nnz) \cup {nnz + 1}
            BY <1>1
        <3>3. {e \in 1 .. nnz + 1 : coo'[e].row = r} = CooIn(r)
            BY ONLY <3>1, <3>2 DEF CooIn
        <3>. QED  BY <1>2, <3>3, Zenon
    <2>2. InRow(S \cup {y}, r) = InRow(S, r)
        BY <1>6 DEF InRow
    <2>3. \A d \in CooIn(r) : coo'[d].col = coo[d].col /\ coo'[d].val = coo[d].val
        BY <1>1 DEF CooIn
    <2>4. Alike(coo', CooIn(r), coo, CooIn(r))
        BY <2>3, AlikeSame
    <2>. QED  BY <2>1, <2>2, <2>4, AlikeJoins
<1>. QED  BY <1>5, <1>6

LEMMA SameText ==
    ASSUME UNCHANGED file
    PROVE  /\ Meant' = Meant /\ Text' = Text /\ Held' = Held /\ M' = M
           /\ \A n : Lines(n)' = Lines(n)
           /\ \A n : ZeroBased(file.entries[n])' = ZeroBased(file.entries[n])
BY DEF Meant, Text, Held, Lines, M, Stored, ZeroBased, is_symmetric

\* The loops behind the mirroring leave what was read alone.
LEMMA ReadStays ==
    ASSUME ReadInv, UNCHANGED <<file, coo>>, pc \notin Early \cup {"mirror", "done"},
           pc' \notin Early \cup {"mirror"}, pc' \in {"count", "prefix"} => k' = 1
    PROVE  ReadInv'
<1>1. Behind = Meant /\ Behind' = Meant
    BY SameText DEF Behind
<1>2. \A r \in Nat : Alike(coo, CooIn(r), Text, InRow(Behind, r))
    BY DEF ReadInv
<1>3. \A r : CooIn(r)' = CooIn(r)
    BY DEF CooIn, nnz
<1>4. \A r : InRow(Behind, r)' = InRow(Behind, r)
    BY <1>1 DEF InRow
<1>5. \A r \in Nat : Alike(coo, CooIn(r), Text, InRow(Behind, r))'
    BY <1>2, <1>3, <1>4, SameText
<1>. QED  BY <1>5 DEF ReadInv, Early

\* Nothing is read yet.
LEMMA ReadBegins ==
    ASSUME ReadInv, UNCHANGED <<file, coo, k>>, pc \in {"start", "header", "coo"},
           pc' \in {"header", "coo", "read", "done"}
    PROVE  ReadInv'
<1>1. nnz' = nnz /\ Behind = Lines(nnz) /\ (pc' # "done" => Behind' = Lines(nnz))
    BY SameText DEF Behind, Early, nnz
<1>2. \A r \in Nat : Alike(coo, CooIn(r), Text, InRow(Behind, r))
    BY DEF ReadInv
<1>3. \A r : CooIn(r)' = CooIn(r)
    BY DEF CooIn, nnz
<1>4. ASSUME pc' # "done"
      PROVE  \A r \in Nat : Alike(coo, CooIn(r), Text, InRow(Behind, r))'
    <2>1. \A r : InRow(Behind, r)' = InRow(Behind, r)
        BY <1>1, <1>4 DEF InRow
    <2>. QED  BY <1>2, <1>3, <2>1, SameText
<1>. QED  BY <1>1, <1>4, SameText DEF ReadInv, Early

LEMMA ReadReadEntry ==
    ASSUME TypeInv, ReadInv, ReadEntry
    PROVE  ReadInv'
<1>. DEFINE x == ZeroBased(file.entries[nnz + 1])
            y == <<nnz + 1, x>>
<1>1. /\ pc = "read" /\ nnz < file.L /\ nnz < Len(file.entries)
      /\ coo' = Append(coo, x) /\ UNCHANGED <<file, pc, k>>
    BY DEF ReadEntry, MoreEntries, reading
<1>2. /\ k = 1 /\ nnz \in Nat /\ nnz <= Held
      /\ \A e \in 1 .. nnz : coo[e] = ZeroBased(file.entries[e])
    BY <1>1, CooFacts DEF ReadInv, Early
<1>3. nnz + 1 <= Held /\ Held \in Nat
    BY <1>1, <1>2, CooFacts, LineFacts DEF Held
<1>4. x \in EntryType
    BY <1>2, <1>3, CooFacts, LineFacts
<1>5. /\ nnz' = nnz + 1 /\ \A e \in 1 .. nnz : coo'[e] = coo[e]
      /\ coo'[nnz + 1] = x
    <2>. HIDE DEF x
    <2>. QED  BY <1>1, <1>4, CooFacts DEF nnz
<1>6. \A e \in 1 .. nnz' : coo'[e] = ZeroBased(file.entries[e])
    BY <1>2, <1>5
<1>7. /\ Lines(nnz + 1) = Lines(nnz) \cup {y} /\ y \notin Lines(nnz)
      /\ Lines(nnz) \subseteq Meant /\ y \in Meant
    <2>1. Lines(nnz + 1) = Lines(nnz) \cup {y}
        <3>1. 1 .. nnz + 1 = (1 .. nnz) \cup {nnz + 1}
            BY <1>2
        <3>. QED  BY <3>1 DEF Lines
    <2>2. y \notin Lines(nnz)
        <3>1. \A s \in Lines(nnz) : s[1] \in 1 .. nnz
            BY DEF Lines
        <3>2. y[1] = nnz + 1
            OBVIOUS
        <3>. HIDE DEF y
        <3>. QED  BY <1>2, <3>1, <3>2
    <2>3. Lines(nnz + 1) \subseteq Lines(Held)
        <3>1. 1 .. nnz + 1 \subseteq 1 .. Held
            BY <1>2, <1>3
        <3>. QED  BY <3>1 DEF Lines
    <2>4. Lines(Held) \subseteq Meant
        BY CooFacts, LineFacts DEF Meant
    <2>. QED  BY <2>1, <2>2, <2>3, <2>4
<1>8. Behind = Lines(nnz) /\ Behind' = Lines(nnz + 1)
    BY <1>1, <1>5, SameText DEF Behind, Early
<1>9. ASSUME NEW r \in Nat
      PROVE  Alike(coo, CooIn(r), Text, InRow(Behind, r))'
    <2>1. Alike(coo, CooIn(r), Text, InRow(Lines(nnz), r))
        BY <1>1, <1>8 DEF ReadInv
    <2>2. y[2] = x
        OBVIOUS
    <2>. HIDE DEF x, y
    <2>3. Alike(coo', CooIn(r)', Text, InRow(Lines(nnz) \cup {y}, r))
        BY <1>1, <1>4, <1>7, <2>1, <2>2, EntryAdded
    <2>4. InRow(Behind, r)' = InRow(Lines(nnz) \cup {y}, r)
        BY <1>7, <1>8 DEF InRow
    <2>. QED  BY <1>1, <2>3, <2>4, SameText
<1>. QED
    BY <1>1, <1>2, <1>3, <1>5, <1>6, <1>9, SameText DEF ReadInv, Early

LEMMA ReadCloseFile ==
    ASSUME TypeInv, ReadInv, CloseFile
    PROVE  ReadInv'
<1>1. /\ pc = "read" /\ ~(nnz < file.L /\ nnz < Len(file.entries))
      /\ pc' = IF is_symmetric THEN "expand" ELSE "count"
      /\ UNCHANGED <<file, coo, k>>
    BY DEF CloseFile, MoreEntries, reading
<1>2. /\ k = 1 /\ nnz \in Nat /\ nnz <= Held
      /\ \A e \in 1 .. nnz : coo[e] = ZeroBased(file.entries[e])
    BY <1>1, CooFacts DEF ReadInv, Early
<1>3. nnz = Held
    BY <1>1, <1>2, CooFacts, LineFacts, FileFacts DEF Held
<1>4. ~is_symmetric => Meant = Lines(Held)
    BY CooFacts, LineFacts DEF Meant
<1>5. nnz' = nnz
    BY <1>1 DEF nnz
<1>6. Behind = Lines(nnz) /\ Behind' = Lines(nnz)
    BY <1>1, <1>3, <1>4, <1>5, SameText DEF Behind, Early
<1>7. ASSUME NEW r \in Nat
      PROVE  Alike(coo, CooIn(r), Text, InRow(Behind, r))'
    <2>1. Alike(coo, CooIn(r), Text, InRow(Behind, r))
        BY <1>1 DEF ReadInv
    <2>2. CooIn(r)' = CooIn(r) /\ InRow(Behind, r)' = InRow(Behind, r)
        BY <1>1, <1>5, <1>6 DEF CooIn, InRow
    <2>. QED  BY <1>1, <2>1, <2>2, SameText
<1>. QED
    BY <1>1, <1>2, <1>3, <1>5, <1>7, SameText DEF ReadInv, Early

LEMMA ReadExpand ==
    ASSUME TypeInv, ReadInv, Expand
    PROVE  ReadInv'
<1>1. CASE pc' = "done"
    BY <1>1 DEF ReadInv, Early
<1>2. CASE pc' # "done"
    <2>1. /\ pc = "expand" /\ pc' = "mirror" /\ stored' = nnz
          /\ UNCHANGED <<file, coo, k>>
        BY <1>2 DEF Expand, Returns
    <2>2. /\ k = 1 /\ nnz \in Nat /\ nnz = Held
          /\ \A e \in 1 .. nnz : coo[e] = ZeroBased(file.entries[e])
        BY <2>1, CooFacts DEF ReadInv, Early
    <2>3. nnz' = nnz
        BY <2>1 DEF nnz
    <2>4. Mirrors(Held, 1)' = {}
        <3>1. \A q \in Lines(Held) : q[1] \in Nat /\ ~(q[1] < 1)
            BY <2>2 DEF Lines
        <3>. QED  BY <2>1, <3>1, SameText DEF Mirrors, is_symmetric
    <2>5. Behind = Lines(nnz) /\ Behind' = Lines(nnz)
        BY <2>1, <2>2, <2>4, SameText DEF Behind, Early
    <2>6. ASSUME NEW r \in Nat
          PROVE  Alike(coo, CooIn(r), Text, InRow(Behind, r))'
        <3>1. Alike(coo, CooIn(r), Text, InRow(Behind, r))
            BY <2>1 DEF ReadInv
        <3>2. CooIn(r)' = CooIn(r) /\ InRow(Behind, r)' = InRow(Behind, r)
            BY <2>1, <2>3, <2>5 DEF CooIn, InRow
        <3>. QED  BY <2>1, <3>1, <3>2, SameText
    <2>. QED
        BY <2>1, <2>2, <2>3, <2>6, SameText DEF ReadInv, Early
<1>. QED  BY <1>1, <1>2

LEMMA ReadMirrorEntry ==
    ASSUME TypeInv, ReadInv, MirrorEntry
    PROVE  ReadInv'
<1>. DEFINE z == ZeroBased(file.entries[k])
            y == <<-k, Mirror(z)>>
<1>1. /\ pc = "mirror" /\ k <= stored /\ k' = k + 1
      /\ coo' = IF IsMirrored(coo[k]) THEN Append(coo, Mirror(coo[k])) ELSE coo
      /\ UNCHANGED <<file, pc, stored>>
    BY DEF MirrorEntry
<1>2. /\ stored = Held /\ stored <= nnz /\ nnz \in Nat /\ k \in Nat /\ k >= 1 /\ Held \in Nat
      /\ \A e \in 1 .. stored : coo[e] = ZeroBased(file.entries[e])
      /\ is_symmetric
    BY <1>1, CooFacts, LineFacts DEF ReadInv, TypeInv, TypeOK, Entries
<1>3. coo[k] = z /\ z \in EntryType /\ Mirror(z) \in EntryType
    BY <1>1, <1>2, CooFacts, LineFacts
<1>4. Behind = Lines(Held) \cup Mirrors(Held, k) /\ Behind' = Lines(Held) \cup Mirrors(Held, k + 1)
    <2>1. Mirrors(Held, k)' = Mirrors(Held, k + 1)
        BY <1>1, SameText DEF Mirrors, is_symmetric
    <2>. QED  BY <1>1, <2>1, SameText DEF Behind
<1>5. Lines(Held) \cup Mirrors(Held, k + 1) \subseteq Meant
    <2>1. Meant = Lines(Held) \cup Mirrors(Held, Held + 1)
        BY <1>2, CooFacts, LineFacts
    <2>2. \A q \in Lines(Held) : q[1] \in Nat
        BY DEF Lines
    <2>3. Mirrors(Held, k + 1) \subseteq Mirrors(Held, Held + 1)
        BY <1>1, <1>2, <2>2 DEF Mirrors
    <2>. QED  BY <2>1, <2>3
<1>6. /\ z.row # z.col => Mirrors(Held, k + 1) = Mirrors(Held, k) \cup {y}
      /\ z.row = z.col => Mirrors(Held, k + 1) = Mirrors(Held, k)
    <2>. DEFINE At_(m) == {q \in Lines(Held) : q[1] < m /\ is_symmetric /\ q[2].row # q[2].col}
    <2>1. \A q \in Lines(Held) : q[1] \in 1 .. Held /\ q = <<q[1], ZeroBased(file.entries[q[1]])>>
        BY DEF Lines
    <2>2. <<k, z>> \in Lines(Held)
        BY <1>1, <1>2 DEF Lines
    <2>3. \A q \in Lines(Held) : q[1] < k + 1 <=> (q[1] < k \/ q = <<k, z>>)
        BY <1>1, <1>2, <2>1
    <2>4. z.row # z.col => At_(k + 1) = At_(k) \cup {<<k, z>>}
        <3>1. <<k, z>>[2] = z
            OBVIOUS
        <3>. HIDE DEF z
        <3>. QED  BY <1>2, <2>2, <2>3, <3>1
    <2>5. z.row = z.col => At_(k + 1) = At_(k)
        <3>1. <<k, z>>[2] = z
            OBVIOUS
        <3>. HIDE DEF z
        <3>. QED  BY <1>2, <2>2, <2>3, <3>1
    <2>6. \A m : Mirrors(Held, m) = {<<-s[1], Mirror(s[2])>> : s \in At_(m)}
        BY DEF Mirrors
    <2>. HIDE DEF At_
    <2>7. z.row # z.col => Mirrors(Held, k + 1) = Mirrors(Held, k) \cup {y}
        <3>1. y = <<-(<<k, z>>[1]), Mirror(<<k, z>>[2])>>
            OBVIOUS
        <3>. DEFINE kz == <<k, z>>
        <3>2. y = <<-kz[1], Mirror(kz[2])>> /\ (z.row # z.col => At_(k + 1) = At_(k) \cup {kz})
            BY <2>4, <3>1
        <3>. HIDE DEF kz, y, z
        <3>. QED  BY <2>6, <3>2
    <2>. QED  BY <2>5, <2>6, <2>7
<1>7. y \notin Behind
    <2>1. \A s \in Lines(Held) : s[1] >= 1 /\ s[1] \in Nat
        BY DEF Lines
    <2>2. \A s \in Mirrors(Held, k) : \E q \in Lines(Held) : s[1] = -q[1] /\ q[1] < k
        BY DEF Mirrors
    <2>3. y[1] = -k
        OBVIOUS
    <2>. HIDE DEF y
    <2>. QED  BY <1>2, <1>4, <2>1, <2>2, <2>3
<1>8. ASSUME NEW r \in Nat
      PROVE  Alike(coo', CooIn(r)', Text, InRow(Behind', r))
    <2>1. Alike(coo, CooIn(r), Text, InRow(Behind, r))
        BY <1>1 DEF ReadInv
    <2>2. CASE z.row # z.col
        <3>1. coo' = Append(coo, Mirror(z))
            BY <1>1, <1>3, <2>2 DEF IsMirrored
        <3>2. Behind' = Behind \cup {y}
            BY <1>4, <1>6, <2>2
        <3>3. Behind \in SUBSET Meant /\ y \in Meant
            BY <1>4, <1>5, <3>2
        <3>4. y[2] = Mirror(z)
            OBVIOUS
        <3>. HIDE DEF y, z
        <3>5. Alike(coo', CooIn(r)', Text, InRow(Behind \cup {y}, r))
            BY <1>1, <1>3, <1>7, <2>1, <3>1, <3>3, <3>4, EntryAdded
        <3>. QED  BY <3>2, <3>5
    <2>3. CASE z.row = z.col
        <3>1. coo' = coo
            BY <1>1, <1>3, <2>3 DEF IsMirrored
        <3>2. Behind' = Behind
            BY <1>4, <1>6, <2>3
        <3>3. CooIn(r)' = CooIn(r)
            BY <3>1 DEF CooIn, nnz
        <3>. QED  BY <2>1, <3>1, <3>2, <3>3
    <2>. QED  BY <2>2, <2>3
<1>9. nnz' >= nnz /\ nnz' \in Nat /\ \A e \in 1 .. nnz : coo'[e] = coo[e]
    <2>1. CASE coo' = coo
        BY <1>2, <2>1 DEF nnz
    <2>2. CASE coo' = Append(coo, Mirror(z))
        <3>. HIDE DEF z
        <3>. QED  BY <1>2, <1>3, <2>2, CooFacts DEF nnz
    <2>. QED  BY <1>1, <1>3, <2>1, <2>2
<1>10. stored <= nnz' /\ \A e \in 1 .. stored : coo'[e] = ZeroBased(file.entries[e])
    BY <1>2, <1>9
<1>11. \A r \in Nat : Alike(coo, CooIn(r), Text, InRow(Behind, r))'
    <2>1. \A r : InRow(Behind, r)' = InRow(Behind', r)
        BY DEF InRow
    <2>. QED  BY <1>1, <1>8, <2>1, SameText
<1>12. pc' = "mirror" /\ stored' = Held' /\ k' <= stored' + 1
    BY <1>1, <1>2, SameText
<1>13. \A e \in 1 .. stored' : coo'[e] = ZeroBased(file.entries[e])'
    BY <1>1, <1>10, SameText
<1>. QED
    BY <1>1, <1>10, <1>11, <1>12, <1>13 DEF ReadInv, Early

LEMMA ReadMirrorDone ==
    ASSUME TypeInv, ReadInv, MirrorDone
    PROVE  ReadInv'
<1>1. pc = "mirror" /\ k > stored /\ k' = 1 /\ pc' = "count" /\ UNCHANGED <<file, coo>>
    BY DEF MirrorDone
<1>2. stored = Held /\ k \in Nat
    BY <1>1 DEF ReadInv, TypeInv, TypeOK
<1>3. Behind = Meant /\ Behind' = Meant
    BY <1>1, <1>2, CooFacts, LineFacts, SameText DEF Behind, Early
<1>4. ASSUME NEW r \in Nat
      PROVE  Alike(coo, CooIn(r), Text, InRow(Behind, r))'
    <2>1. Alike(coo, CooIn(r), Text, InRow(Behind, r))
        BY <1>1 DEF ReadInv
    <2>2. CooIn(r)' = CooIn(r) /\ InRow(Behind, r)' = InRow(Behind, r)
        BY <1>1, <1>3 DEF CooIn, InRow, nnz
    <2>. QED  BY <1>1, <2>1, <2>2, SameText
<1>. QED  BY <1>1, <1>4 DEF ReadInv, Early

LEMMA ReadStep == TypeInv /\ ReadInv /\ [Next]_vars => ReadInv'
<1>. SUFFICES ASSUME TypeInv, ReadInv, [Next]_vars PROVE ReadInv'
    OBVIOUS
<1>1. CASE Open \/ ReadSizes \/ AllocCoo
    BY <1>1, ReadBegins DEF Open, ReadSizes, AllocCoo, Returns, reading
<1>2. CASE ReadEntry
    BY <1>2, ReadReadEntry
<1>3. CASE CloseFile
    BY <1>3, ReadCloseFile
<1>4. CASE Expand
    BY <1>4, ReadExpand
<1>5. CASE MirrorEntry
    BY <1>5, ReadMirrorEntry
<1>6. CASE MirrorDone
    BY <1>6, ReadMirrorDone
<1>7. CASE CountRows \/ AddRowEnd \/ AllocCursor
    <2>1. pc \in {"count", "prefix"} /\ k = 1
        BY <1>7 DEF CountRows, AddRowEnd, AllocCursor, ReadInv, Early
    <2>. QED  BY <1>7, <2>1, ReadStays DEF CountRows, AddRowEnd, AllocCursor, Returns, reading, Early
<1>8. CASE Scatter \/ ScatterDone \/ AllocBuffers
    BY <1>8, ReadStays DEF Scatter, ScatterDone, AllocBuffers, Returns, reading, Early
<1>9. CASE SortRow \/ OpenGroup \/ AddToGroup \/ CloseGroup \/ EndRow \/ FinishRows
    BY <1>9, ReadStays DEF SortRow, OpenGroup, AddToGroup, CloseGroup, EndRow, FinishRows, reading, Early
<1>10. CASE UNCHANGED vars
    <2>1. UNCHANGED <<file, pc, coo, k, stored>>
        BY <1>10 DEF vars, reading
    <2>2. Behind' = Behind /\ nnz' = nnz
        <3>1. nnz' = nnz /\ is_symmetric' = is_symmetric
            BY <2>1 DEF nnz, is_symmetric
        <3>2. Mirrors(Held, k)' = Mirrors(Held, k) /\ Lines(nnz)' = Lines(nnz)
            BY <2>1, <3>1, SameText DEF Mirrors
        <3>. QED  BY <2>1, <3>1, <3>2, SameText DEF Behind
    <2>3. \A r : CooIn(r)' = CooIn(r) /\ InRow(Behind, r)' = InRow(Behind, r)
        BY <2>1, <2>2 DEF CooIn, InRow
    <2>4. pc # "done" => \A r \in Nat : Alike(coo, CooIn(r), Text, InRow(Behind, r))'
        BY <2>1, <2>3, SameText DEF ReadInv
    <2>. QED  BY <2>1, <2>2, <2>4, SameText DEF ReadInv
<1>. QED
    BY <1>1, <1>2, <1>3, <1>4, <1>5, <1>6, <1>7, <1>8, <1>9, <1>10 DEF Next

-------------------------------------------------------------------------------
(* What is scattered *)

\* The cells of a row up to its cursor say what its entries before k say.
Placed(r) == {e \in CooIn(r) : e < k}
ScatterInv ==
    pc = "scatter" =>
      /\ k <= nnz + 1 /\ cursor \in [0 .. M - 1 -> Nat]
      /\ \A r \in 0 .. M - 1 :
           /\ cursor[r] = row_ptr[r] + Cardinality(Placed(r))
           /\ Alike(cells, row_ptr[r] .. cursor[r] - 1, coo, Placed(r))

\* A row's cells say what the file says of it.
RowSays(r) == Alike(cells, row_ptr[r] .. row_ptr[r + 1] - 1, Text, InRow(Meant, r))

LEMMA CountsRise ==
    ASSUME TypeInv, NEW q \in 0 .. M, NEW r \in 0 .. M, q <= r
    PROVE  CountBelow(q) <= CountBelow(r)
<1>. DEFINE before(s) == {e \in 1 .. nnz : coo[e].row < s}
<1>1. nnz \in Nat /\ M \in Nat /\ \A e \in 1 .. nnz : coo[e].row \in Int
    BY CooFacts
<1>2. IsFiniteSet(1 .. nnz)
    BY <1>1, FS_Interval
<1>3. before(q) \subseteq before(r)
    BY <1>1
<1>4. IsFiniteSet(before(r))
    BY <1>2, FS_Subset
<1>5. CountBelow(q) = Cardinality(before(q)) /\ CountBelow(r) = Cardinality(before(r))
    BY DEF CountBelow
<1>. HIDE DEF before
<1>. QED  BY <1>3, <1>4, <1>5, FS_Subset

\* Where the rows lie.
LEMMA RowsLie ==
    ASSUME TypeInv, RowsInv, pc \in {"scatter", "canonicalise"} \cup Folding
    PROVE  /\ M \in Nat /\ nnz \in Nat
           /\ row_ptr \in [0 .. M -> Nat] /\ cells \in [0 .. nnz - 1 -> Cell]
           /\ \A r \in 0 .. M : row_ptr[r] \in Nat /\ row_ptr[r] <= nnz
           /\ \A q, r \in 0 .. M : q <= r => row_ptr[q] <= row_ptr[r]
           /\ \A r \in 0 .. M - 1 :
                /\ r \in 0 .. M /\ r + 1 \in 0 .. M
                /\ row_ptr[r + 1] = row_ptr[r] + Cardinality(CooIn(r))
                /\ Cardinality(CooIn(r)) \in Nat
<1>1. /\ M \in Nat /\ nnz \in Nat
      /\ row_ptr \in [0 .. M -> Nat] /\ cells \in [0 .. nnz - 1 -> Cell]
      /\ \A r \in 0 .. M : row_ptr[r] = CountBelow(r)
    BY CountFacts DEF RowsInv
<1>2. \A r \in 0 .. M : row_ptr[r] \in Nat /\ row_ptr[r] <= nnz
    BY <1>1, CountFacts
<1>3. \A q, r \in 0 .. M : q <= r => row_ptr[q] <= row_ptr[r]
    BY <1>1, CountsRise
<1>4. \A r \in 0 .. M - 1 : r \in 0 .. M /\ r + 1 \in 0 .. M
    BY <1>1
<1>5. \A r \in 0 .. M - 1 : RowCounts[r] = Cardinality(CooIn(r))
    BY DEF RowCounts, CooIn
<1>6. ASSUME NEW r \in 0 .. M - 1
      PROVE  /\ row_ptr[r + 1] = row_ptr[r] + Cardinality(CooIn(r))
             /\ Cardinality(CooIn(r)) \in Nat
    BY <1>1, <1>4, <1>5, CountFacts
<1>. QED  BY <1>1, <1>2, <1>3, <1>4, <1>6

LEMMA CellParts ==
    ASSUME NEW x \in Cell
    PROVE  x.col \in Nat /\ x.val \in Int
BY DEF Cell

LEMMA NothingAlike ==
    ASSUME NEW F, NEW G
    PROVE  Alike(F, {}, G, {})
BY SumAtNone DEF Alike, ColsAt

LEMMA ScatterBegins ==
    ASSUME TypeInv, RowsInv, ReadInv, AllocCursor
    PROVE  ScatterInv'
<1>1. CASE pc' = "done"
    BY <1>1 DEF ScatterInv
<1>2. CASE pc' # "done"
    <2>1. /\ pc = "prefix" /\ i = M /\ pc' = "scatter"
          /\ cursor' = [r \in 0 .. M - 1 |-> row_ptr[r]]
          /\ UNCHANGED <<file, coo, k, row_ptr>>
        BY <1>2 DEF AllocCursor, Returns, reading
    <2>2. k = 1 /\ nnz \in Nat /\ M \in Nat /\ row_ptr \in [0 .. M -> Nat]
        BY <2>1, CountFacts DEF ReadInv, RowsInv, Folding
    <2>3. nnz' = nnz /\ M' = M
        BY <2>1 DEF nnz, M
    <2>4. \A r : Placed(r)' = {}
        <3>1. \A e \in 1 .. nnz : ~(e < 1)
            BY <2>2
        <3>. QED  BY <2>1, <2>2, <2>3, <3>1 DEF Placed, CooIn
    <2>5. ASSUME NEW r \in 0 .. M - 1
          PROVE  /\ cursor'[r] = row_ptr'[r] + Cardinality(Placed(r)')
                 /\ Alike(cells', row_ptr'[r] .. cursor'[r] - 1, coo', Placed(r)')
        <3>1. row_ptr[r] \in Nat
            BY <2>2
        <3>2. cursor'[r] = row_ptr[r] /\ row_ptr'[r] = row_ptr[r]
            BY <2>1
        <3>. DEFINE a == cursor'[r]
                    b == row_ptr'[r]
                    S == Placed(r)'
        <3>3. a \in Nat /\ a = b /\ S = {}
            BY <2>4, <3>1, <3>2
        <3>. HIDE DEF a, b, S
        <3>4. b .. a - 1 = {} /\ Cardinality(S) = 0
            BY <3>3, FS_EmptySet
        <3>5. a = b + Cardinality(S)
            BY <3>3, <3>4
        <3>6. Alike(cells', b .. a - 1, coo', S)
            BY <3>3, <3>4, NothingAlike
        <3>. QED  BY <3>5, <3>6 DEF a, b, S
    <2>6. cursor' \in [0 .. M - 1 -> Nat]
        BY <2>1, <2>2
    <2>. QED  BY <2>1, <2>2, <2>3, <2>5, <2>6 DEF ScatterInv
<1>. QED  BY <1>1, <1>2

\* How many of a row's entries have been placed.
LEMMA PlacedFacts ==
    ASSUME TypeInv, RowsInv, ScatterInv, pc = "scatter", NEW r \in 0 .. M - 1
    PROVE  /\ IsFiniteSet(Placed(r)) /\ Placed(r) \subseteq CooIn(r)
           /\ Cardinality(Placed(r)) \in Nat
           /\ cursor[r] \in Nat /\ row_ptr[r] <= cursor[r] /\ cursor[r] <= row_ptr[r + 1]
           /\ k \in CooIn(r) => cursor[r] < row_ptr[r + 1]
<1>1. IsFiniteSet(CooIn(r)) /\ Placed(r) \subseteq CooIn(r)
    BY CooFacts DEF Placed
<1>2. /\ IsFiniteSet(Placed(r)) /\ Cardinality(Placed(r)) \in Nat
      /\ Cardinality(Placed(r)) <= Cardinality(CooIn(r))
    BY <1>1, FS_Subset, FS_CardinalityType
<1>3. k \in CooIn(r) => Cardinality(Placed(r)) # Cardinality(CooIn(r))
    <2>1. k \in Nat
        BY DEF TypeInv, TypeOK
    <2>2. k \notin Placed(r)
        BY <2>1 DEF Placed
    <2>. QED  BY <1>1, <2>2, FS_Subset
<1>4. /\ row_ptr[r + 1] = row_ptr[r] + Cardinality(CooIn(r))
      /\ Cardinality(CooIn(r)) \in Nat /\ row_ptr[r] \in Nat
    BY RowsLie
<1>5. cursor[r] = row_ptr[r] + Cardinality(Placed(r))
    BY DEF ScatterInv
<1>. DEFINE a == Cardinality(Placed(r))
            b == Cardinality(CooIn(r))
<1>6. a \in Nat /\ b \in Nat /\ a <= b /\ (k \in CooIn(r) => a # b)
    BY <1>2, <1>3, <1>4
<1>7. cursor[r] = row_ptr[r] + a /\ row_ptr[r + 1] = row_ptr[r] + b
    BY <1>4, <1>5
<1>. HIDE DEF a, b
<1>8. /\ cursor[r] \in Nat /\ row_ptr[r] <= cursor[r] /\ cursor[r] <= row_ptr[r + 1]
      /\ k \in CooIn(r) => cursor[r] < row_ptr[r + 1]
    BY <1>4, <1>6, <1>7
<1>. QED  BY <1>1, <1>2, <1>8

LEMMA ScatterPlaces ==
    ASSUME TypeInv, RowsInv, ScatterInv, Scatter
    PROVE  ScatterInv'
<1>. PICK q : q = coo[k].row
    OBVIOUS
<1>. DEFINE x == [col |-> coo[k].col, val |-> coo[k].val]
            n == cursor[q]
<1>1. /\ pc = "scatter" /\ pc' = "scatter" /\ k <= nnz /\ k' = k + 1
      /\ cells' = [cells EXCEPT ![n] = x]
      /\ cursor' = [cursor EXCEPT ![q] = n + 1]
      /\ UNCHANGED <<file, coo, row_ptr>>
    BY DEF Scatter
<1>2. k \in 1 .. nnz /\ k \in Nat /\ nnz \in Nat /\ M \in Nat
    BY <1>1, CooFacts DEF TypeInv, TypeOK
<1>3. /\ q \in 0 .. M - 1 /\ k \in CooIn(q)
      /\ x.col = coo[k].col /\ x.val = coo[k].val /\ coo[k].val \in Int
    BY <1>2, CooFacts DEF CooIn
<1>4. /\ cursor \in [0 .. M - 1 -> Nat]
      /\ \A r \in 0 .. M - 1 :
           /\ cursor[r] = row_ptr[r] + Cardinality(Placed(r))
           /\ Alike(cells, row_ptr[r] .. cursor[r] - 1, coo, Placed(r))
    BY <1>1 DEF ScatterInv
<1>5. /\ row_ptr[q] \in Nat /\ row_ptr[q] <= n /\ n < row_ptr[q + 1] /\ n \in Nat
      /\ row_ptr[q + 1] <= nnz /\ row_ptr[q + 1] \in Nat
    <2>1. q \in 0 .. M /\ q + 1 \in 0 .. M
        BY <1>1, <1>3, RowsLie
    <2>. QED  BY <1>1, <1>3, <2>1, PlacedFacts, RowsLie
<1>. HIDE DEF x, n
<1>6. /\ cells \in [0 .. nnz - 1 -> Cell] /\ n \in 0 .. nnz - 1
      /\ cells'[n] = x /\ \A p \in 0 .. nnz - 1 : p # n => cells'[p] = cells[p]
    <2>1. cells \in [0 .. nnz - 1 -> Cell]
        BY <1>1, RowsLie
    <2>2. n \in 0 .. nnz - 1
        BY <1>2, <1>5
    <2>. QED  BY <1>1, <2>1, <2>2
<1>7. /\ cursor'[q] = n + 1 /\ cursor' \in [0 .. M - 1 -> Nat]
      /\ \A r \in 0 .. M - 1 : r # q => cursor'[r] = cursor[r]
    BY <1>1, <1>3, <1>4, <1>5
<1>8. \A r : Placed(r)' = {e \in CooIn(r) : e < k + 1}
    BY <1>1 DEF Placed, CooIn, nnz
<1>9. Placed(q)' = Placed(q) \cup {k} /\ k \notin Placed(q)
    <2>1. \A e \in CooIn(q) : e < k + 1 <=> (e < k \/ e = k)
        BY <1>2 DEF CooIn
    <2>2. {e \in CooIn(q) : e < k + 1} = Placed(q) \cup {k}
        BY <1>3, <2>1 DEF Placed
    <2>3. k \notin Placed(q)
        BY <1>2 DEF Placed
    <2>4. Placed(q)' = {e \in CooIn(q) : e < k + 1}
        BY <1>8
    <2>. QED  BY <2>2, <2>3, <2>4, Zenon
<1>10. \A r \in 0 .. M - 1 : r # q => Placed(r)' = Placed(r)
    <2>1. ASSUME NEW r \in 0 .. M - 1, r # q
          PROVE  {e \in CooIn(r) : e < k + 1} = Placed(r)
        <3>1. k \notin CooIn(r)
            BY <2>1 DEF CooIn
        <3>2. \A e \in CooIn(r) : e < k + 1 <=> e < k
            BY <1>2, <3>1 DEF CooIn
        <3>. QED  BY <3>2 DEF Placed
    <2>. QED  BY <1>8, <2>1
<1>11. /\ cursor'[q] = row_ptr[q] + Cardinality(Placed(q)')
       /\ Alike(cells', row_ptr[q] .. cursor'[q] - 1, coo, Placed(q)')
    <2>1. IsFiniteSet(Placed(q)) /\ Placed(q) \subseteq CooIn(q) /\ Cardinality(Placed(q)) \in Nat
        BY <1>1, <1>3, PlacedFacts
    <2>2. Cardinality(Placed(q)') = Cardinality(Placed(q)) + 1
        BY <1>9, <2>1, FS_AddElement
    <2>3. n = row_ptr[q] + Cardinality(Placed(q))
        BY <1>3, <1>4 DEF n
    <2>4. cursor'[q] = row_ptr[q] + Cardinality(Placed(q)')
        <3>. DEFINE a == Cardinality(Placed(q))
                    b == Cardinality(Placed(q)')
        <3>1. b = a + 1 /\ n = row_ptr[q] + a /\ a \in Nat
            BY <2>1, <2>2, <2>3
        <3>. HIDE DEF a, b
        <3>2. cursor'[q] = row_ptr[q] + b
            BY <1>5, <1>7, <3>1
        <3>. QED  BY <3>2 DEF b
    <2>. DEFINE D == row_ptr[q] .. n - 1
                D1 == row_ptr[q] .. cursor'[q] - 1
                F1 == cells'
                H1 == Placed(q)'
    <2>5. Grows(cells, D, F1, D1, n)
        <3>1. D1 = D \cup {n} /\ n \notin D /\ IsFiniteSet(D)
            <4>1. cursor'[q] - 1 = n
                BY <1>5, <1>7
            <4>. DEFINE b == row_ptr[q]
            <4>2. b \in Nat /\ b <= n /\ n \in Nat
                BY <1>5
            <4>. HIDE DEF b
            <4>3. b .. n = (b .. n - 1) \cup {n} /\ n \notin b .. n - 1
                BY <4>2
            <4>4. n - 1 \in Int /\ b \in Int
                BY <4>2
            <4>5. IsFiniteSet(b .. n - 1)
                BY <4>4, FS_Interval
            <4>. QED  BY <4>1, <4>3, <4>5 DEF b
        <3>2. D1 \subseteq 0 .. nnz - 1
            BY <1>2, <1>5, <1>6, <1>7
        <3>3. \A d \in D : F1[d] = cells[d]
            BY <1>6, <3>1, <3>2
        <3>4. \A d \in D1 : F1[d].val \in Int
            <4>1. \A d \in D : cells[d].val \in Int
                <5>1. \A d \in D : cells[d] \in Cell
                    BY <1>6, <3>1, <3>2
                <5>. QED  BY <5>1, CellParts
            <4>2. F1[n].val \in Int
                BY <1>3, <1>6
            <4>. QED  BY <3>1, <3>3, <4>1, <4>2
        <3>. HIDE DEF D, D1, F1
        <3>. QED  BY <3>1, <3>3, <3>4 DEF Grows
    <2>6. Grows(coo, Placed(q), coo, H1, k)
        <3>1. \A e \in H1 : coo[e].val \in Int
            <4>1. \A e \in CooIn(q) : coo[e].val \in Int
                BY CooFacts DEF CooIn
            <4>. QED  BY <1>3, <1>9, <2>1, <4>1
        <3>2. H1 = Placed(q) \cup {k} /\ k \notin Placed(q) /\ IsFiniteSet(Placed(q))
            BY <1>9, <2>1
        <3>. HIDE DEF H1
        <3>. QED  BY <3>1, <3>2 DEF Grows
    <2>7. Alike(cells, D, coo, Placed(q))
        BY <1>3, <1>4 DEF n
    <2>8. F1[n].col = coo[k].col /\ F1[n].val = coo[k].val
        BY <1>3, <1>6
    <2>. HIDE DEF D, D1, F1, H1
    <2>9. Alike(F1, D1, coo, H1)
        BY <2>5, <2>6, <2>7, <2>8, AlikeGains
    <2>10. F1 = cells' /\ D1 = row_ptr[q] .. cursor'[q] - 1 /\ H1 = Placed(q)'
        BY DEF F1, D1, H1
    <2>. QED  BY <2>4, <2>9, <2>10
<1>12. ASSUME NEW r \in 0 .. M - 1, r # q
       PROVE  /\ cursor'[r] = row_ptr[r] + Cardinality(Placed(r)')
              /\ Alike(cells', row_ptr[r] .. cursor'[r] - 1, coo, Placed(r)')
    <2>. DEFINE D == row_ptr[r] .. cursor[r] - 1
    <2>1. /\ row_ptr[r] \in Nat /\ row_ptr[r] <= cursor[r] /\ cursor[r] <= row_ptr[r + 1]
          /\ cursor[r] \in Nat /\ row_ptr[r + 1] \in Nat /\ row_ptr[r + 1] <= nnz
        <3>1. r \in 0 .. M /\ r + 1 \in 0 .. M
            BY <1>1, RowsLie
        <3>. QED  BY <1>1, <3>1, PlacedFacts, RowsLie
    <2>2. r < q => row_ptr[r + 1] <= row_ptr[q]
        <3>1. r + 1 \in 0 .. M /\ q \in 0 .. M /\ (r < q => r + 1 <= q)
            BY <1>2, <1>3
        <3>. QED  BY <1>1, <3>1, RowsLie
    <2>3. r > q => row_ptr[q + 1] <= row_ptr[r]
        <3>1. q + 1 \in 0 .. M /\ r \in 0 .. M /\ (r > q => q + 1 <= r)
            BY <1>2, <1>3
        <3>. QED  BY <1>1, <3>1, RowsLie
    <2>4. n \notin D /\ D \subseteq 0 .. nnz - 1
        <3>1. r < q \/ r > q
            BY <1>2, <1>3, <1>12
        <3>2. row_ptr[q] \in Nat /\ row_ptr[q + 1] \in Int
            BY <1>1, <1>3, <1>5, RowsLie
        <3>. QED  BY <1>2, <1>5, <2>1, <2>2, <2>3, <3>1, <3>2
    <2>5. \A d \in D : cells'[d].col = cells[d].col /\ cells'[d].val = cells[d].val
        BY <1>6, <2>4
    <2>6. Alike(cells', D, cells, D)
        BY <2>5, AlikeSame
    <2>7. Alike(cells, D, coo, Placed(r))
        BY <1>4
    <2>8. Alike(cells', D, coo, Placed(r))
        BY <2>6, <2>7, AlikeJoins
    <2>9. Placed(r)' = Placed(r) /\ cursor'[r] = cursor[r]
        BY <1>7, <1>10, <1>12
    <2>10. cursor[r] = row_ptr[r] + Cardinality(Placed(r))
        BY <1>4
    <2>. QED  BY <2>8, <2>9, <2>10
<1>13. ASSUME NEW r \in 0 .. M - 1
       PROVE  /\ cursor'[r] = row_ptr'[r] + Cardinality(Placed(r)')
              /\ Alike(cells', row_ptr'[r] .. cursor'[r] - 1, coo', Placed(r)')
    <2>1. CASE r = q
        BY <1>1, <1>11, <2>1
    <2>2. CASE r # q
        BY <1>1, <1>12, <2>2
    <2>. QED  BY <2>1, <2>2
<1>14. M' = M /\ nnz' = nnz /\ k' <= nnz + 1
    BY <1>1, <1>2 DEF M, nnz
<1>. QED  BY <1>1, <1>7, <1>13, <1>14 DEF ScatterInv

\* When all entries are placed, each row says what the file says.
LEMMA ScatterEnds ==
    ASSUME TypeInv, RowsInv, ReadInv, ScatterInv, ScatterDone, NEW r \in 0 .. M - 1
    PROVE  RowSays(r)
<1>1. pc = "scatter" /\ k > nnz /\ k \in Nat /\ nnz \in Nat
    BY CooFacts DEF ScatterDone, TypeInv, TypeOK
<1>2. Placed(r) = CooIn(r)
    <2>1. \A e \in CooIn(r) : e < k
        BY <1>1 DEF CooIn
    <2>. QED  BY <2>1 DEF Placed
<1>3. cursor[r] = row_ptr[r + 1] /\ Alike(cells, row_ptr[r] .. cursor[r] - 1, coo, Placed(r))
    BY <1>1, <1>2, RowsLie DEF ScatterInv
<1>4. r \in Nat
    BY <1>1, RowsLie
<1>5. Alike(coo, CooIn(r), Text, InRow(Meant, r))
    BY <1>1, <1>4 DEF ReadInv, Behind, Early
<1>. QED  BY <1>2, <1>3, <1>5, AlikeJoins DEF RowSays

LEMMA ScatterStep ==
    ASSUME TypeInv, RowsInv, ReadInv, ScatterInv, [Next]_vars
    PROVE  ScatterInv'
<1>1. CASE AllocCursor
    BY <1>1, ScatterBegins
<1>2. CASE Scatter
    BY <1>2, ScatterPlaces
<1>3. CASE UNCHANGED vars
    <2>1. UNCHANGED <<pc, k, coo, file, cursor, row_ptr, cells>>
        BY <1>3 DEF vars, reading, scattering
    <2>. QED  BY <2>1 DEF ScatterInv, Placed, CooIn, nnz, M
<1>4. CASE pc' # "scatter"
    BY <1>4 DEF ScatterInv
<1>. QED
    BY <1>1, <1>2, <1>3, <1>4 DEF Next, Open, ReadSizes, AllocCoo, ReadEntry, CloseFile, Expand,
       MirrorEntry, MirrorDone, CountRows, AddRowEnd, ScatterDone, AllocBuffers, SortRow,
       OpenGroup, AddToGroup, CloseGroup, EndRow, FinishRows, Returns

-------------------------------------------------------------------------------
(* Folding: one cell for each column, with the sum of what is there *)

\* F on D has a cell for each column of G on H but those in S, and its value is
\* the sum of them.
Folds(F, D, G, H, S) ==
    ColsAt(F, D) = ColsAt(G, H) \ S /\ \A d \in D : F[d].val = SumAt(G, H, F[d].col)

LEMMA FoldsSame ==
    ASSUME NEW F, NEW D, NEW G, NEW H, NEW S, NEW F1,
           Folds(F, D, G, H, S), \A d \in D : F1[d] = F[d]
    PROVE  Folds(F1, D, G, H, S)
<1>1. ColsAt(F1, D) = ColsAt(F, D)
    BY DEF ColsAt
<1>. QED  BY <1>1 DEF Folds

LEMMA FoldsJoins ==
    ASSUME NEW F, NEW D, NEW G, NEW H, NEW G1, NEW H1,
           Folds(F, D, G, H, {}), Alike(G, H, G1, H1), ColsAt(G, H) \subseteq Nat
    PROVE  Folds(F, D, G1, H1, {})
<1>1. \A d \in D : F[d].col \in ColsAt(G, H)
    BY DEF Folds, ColsAt
<1>. QED  BY <1>1 DEF Folds, Alike

\* A column that was not there yet is left open.
LEMMA FoldsOpens ==
    ASSUME NEW F, NEW D, NEW G, NEW H, NEW H1, NEW x,
           Folds(F, D, G, H, {}), Grows(G, H, G, H1, x), G[x].col \notin ColsAt(G, H)
    PROVE  Folds(F, D, G, H1, {G[x].col}) /\ G[x].val = SumAt(G, H1, G[x].col)
<1>. DEFINE c == G[x].col
<1>1. ColsAt(G, H1) = ColsAt(G, H) \cup {c}
    BY DEF ColsAt, Grows
<1>2. \A d \in D : F[d].col # c
    BY DEF Folds, ColsAt
<1>3. \A b : G[x].col # b => SumAt(G, H1, b) = SumAt(G, H, b)
    BY SumAtGains
<1>4. ASSUME NEW d \in D
      PROVE  F[d].val = SumAt(G, H1, F[d].col)
    <2>1. SumAt(G, H1, F[d].col) = SumAt(G, H, F[d].col)
        BY <1>2, <1>3
    <2>. QED  BY <2>1 DEF Folds
<1>5. SumAt(G, H, c) = 0
    <2>1. {d \in H : G[d].col = c} = {}
        BY DEF ColsAt
    <2>. QED  BY <2>1, TotalOfNone DEF SumAt
<1>6. G[x].val = SumAt(G, H1, c)
    <2>1. SumAt(G, H1, c) = G[x].val + SumAt(G, H, c)
        BY SumAtGains
    <2>2. G[x].val \in Int
        BY DEF Grows
    <2>. QED  BY <1>5, <2>1, <2>2
<1>7. ColsAt(F, D) = ColsAt(G, H1) \ {c}
    BY <1>1 DEF Folds
<1>. QED  BY <1>4, <1>6, <1>7 DEF Folds

\* One more of the open column.
LEMMA FoldsAdds ==
    ASSUME NEW F, NEW D, NEW G, NEW H, NEW H1, NEW x,
           Folds(F, D, G, H, {G[x].col}), Grows(G, H, G, H1, x)
    PROVE  /\ Folds(F, D, G, H1, {G[x].col})
           /\ SumAt(G, H1, G[x].col) = G[x].val + SumAt(G, H, G[x].col)
<1>. DEFINE c == G[x].col
<1>1. ColsAt(G, H1) = ColsAt(G, H) \cup {c}
    BY DEF ColsAt, Grows
<1>2. \A d \in D : F[d].col # c
    BY DEF Folds, ColsAt
<1>3. \A b : G[x].col # b => SumAt(G, H1, b) = SumAt(G, H, b)
    BY SumAtGains
<1>4. ASSUME NEW d \in D
      PROVE  F[d].val = SumAt(G, H1, F[d].col)
    <2>1. SumAt(G, H1, F[d].col) = SumAt(G, H, F[d].col)
        BY <1>2, <1>3
    <2>. QED  BY <2>1 DEF Folds
<1>5. ColsAt(F, D) = ColsAt(G, H1) \ {c}
    BY <1>1 DEF Folds
<1>. QED  BY <1>4, <1>5, SumAtGains DEF Folds

\* The open column gets its cell.
LEMMA FoldsCloses ==
    ASSUME NEW F, NEW D, NEW G, NEW H, NEW c, Folds(F, D, G, H, {c}), c \in ColsAt(G, H),
           NEW n, NEW F1, NEW D1, D1 = D \cup {n}, \A d \in D : F1[d] = F[d],
           F1[n].col = c, F1[n].val = SumAt(G, H, c)
    PROVE  Folds(F1, D1, G, H, {})
<1>1. ColsAt(F1, D1) = ColsAt(F, D) \cup {c}
    BY DEF ColsAt
<1>2. ColsAt(F1, D1) = ColsAt(G, H) \ {}
    BY <1>1 DEF Folds
<1>3. ASSUME NEW d \in D1
      PROVE  F1[d].val = SumAt(G, H, F1[d].col)
    BY DEF Folds
<1>. QED  BY <1>2, <1>3 DEF Folds

-------------------------------------------------------------------------------
(* What the rows say while they are folded *)

Unread(r) ==
    \/ pc = "canonicalise"
    \/ pc = "row" /\ r >= i
    \/ pc \in {"fold", "group"} /\ r > i
UnreadInv == \A r \in 0 .. M - 1 : Unread(r) => RowSays(r)

\* buf says what the file says of the row; what was read of it is folded, but
\* for the group that is open.
BufInv ==
    pc \in {"fold", "group"} =>
      /\ Alike(buf, 0 .. Len_(i) - 1, Text, InRow(Meant, i))
      /\ Folds(cells, new_rp[i] .. write - 1, buf, 0 .. t - 1,
               IF pc = "group" THEN {acc.col} ELSE {})
      /\ pc = "group" => acc.val = SumAt(buf, 0 .. t - 1, acc.col)
      /\ pc = "fold" /\ 0 < t /\ t < Len_(i) => buf[t - 1].col < buf[t].col

\* A row that is folded holds what the file means.
Holds(F, r, first, end) == Folds(F, first .. end - 1, Text, InRow(Meant, r), {})
FoldedHold == pc \in Folding => \A r \in 0 .. i - 1 : Holds(cells, r, new_rp[r], new_rp[r + 1])
LoadedHold == Loaded => \A r \in 0 .. M - 1 : Holds(cells, r, row_ptr[r], row_ptr[r + 1])

SaysInv == UnreadInv /\ BufInv /\ FoldedHold /\ LoadedHold

LEMMA RowSaysSame ==
    ASSUME UNCHANGED <<file, row_ptr>>, NEW r, RowSays(r),
           \A p \in row_ptr[r] .. row_ptr[r + 1] - 1 : cells'[p] = cells[p]
    PROVE  RowSays(r)'
<1>. DEFINE D == row_ptr[r] .. row_ptr[r + 1] - 1
<1>1. \A p \in D : cells'[p].col = cells[p].col /\ cells'[p].val = cells[p].val
    OBVIOUS
<1>2. Alike(cells, D, Text, InRow(Meant, r))
    BY DEF RowSays
<1>3. Alike(cells', D, Text, InRow(Meant, r))
    <2>. DEFINE F1 == cells'
    <2>1. \A p \in D : F1[p].col = cells[p].col /\ F1[p].val = cells[p].val
        BY <1>1
    <2>. HIDE DEF F1, D
    <2>2. Alike(F1, D, cells, D)
        BY <2>1, AlikeSame
    <2>3. Alike(F1, D, Text, InRow(Meant, r))
        BY <1>2, <2>2, AlikeJoins
    <2>. QED  BY <2>3 DEF F1
<1>4. Text' = Text /\ InRow(Meant, r)' = InRow(Meant, r)
    BY SameText DEF InRow
<1>. QED  BY <1>3, <1>4 DEF RowSays

\* A row that is still to be read is left alone.
LEMMA UnreadStay ==
    ASSUME UnreadInv, UNCHANGED <<file, row_ptr, cells>>,
           \A r \in 0 .. M - 1 : Unread(r)' => Unread(r)
    PROVE  UnreadInv'
<1>1. ASSUME NEW r \in 0 .. M - 1, Unread(r)'
      PROVE  RowSays(r)'
    <2>1. RowSays(r)
        BY <1>1 DEF UnreadInv
    <2>. QED  BY <2>1, RowSaysSame
<1>2. M' = M
    BY SameText
<1>. QED  BY <1>1, <1>2 DEF UnreadInv

LEMMA FoldedStay ==
    ASSUME FoldedHold, pc \in Folding, UNCHANGED <<file, cells, i, new_rp>>
    PROVE  FoldedHold'
<1>1. ASSUME NEW r \in 0 .. i - 1
      PROVE  Holds(cells, r, new_rp[r], new_rp[r + 1])'
    <2>1. Holds(cells, r, new_rp[r], new_rp[r + 1])
        BY DEF FoldedHold
    <2>2. Text' = Text /\ InRow(Meant, r)' = InRow(Meant, r)
        BY SameText DEF InRow
    <2>. QED  BY <2>1, <2>2 DEF Holds
<1>. QED  BY <1>1 DEF FoldedHold

LEMMA Sorted ==
    ASSUME NEW len \in Nat, NEW F, \A x \in 0 .. len - 1 : F[x].col \in Nat,
           \A x \in 1 .. len - 1 : F[x - 1].col <= F[x].col
    PROVE  \A x, y \in 0 .. len - 1 : x <= y => F[x].col <= F[y].col
<1>. DEFINE S == {d \in Nat : \A x \in 0 .. len - 1 : x + d <= len - 1 => F[x].col <= F[x + d].col}
<1>1. 0 \in S
    <2>1. \A x \in 0 .. len - 1 : x + 0 = x /\ F[x].col <= F[x].col
        OBVIOUS
    <2>. QED  BY <2>1
<1>2. ASSUME NEW d \in S
      PROVE  d + 1 \in S
    <2>1. ASSUME NEW x \in 0 .. len - 1, x + (d + 1) <= len - 1
          PROVE  F[x].col <= F[x + (d + 1)].col
        <3>1. PICK y \in 0 .. len - 1 : y = x + d
            BY <1>2, <2>1
        <3>2. y + 1 \in 1 .. len - 1 /\ y + 1 \in 0 .. len - 1 /\ (y + 1) - 1 = y /\ x + (d + 1) = y + 1
            BY <1>2, <2>1, <3>1
        <3>3. F[x].col <= F[y].col
            BY <1>2, <3>1
        <3>4. F[y].col <= F[y + 1].col
            BY <3>2
        <3>5. F[x].col \in Nat /\ F[y].col \in Nat /\ F[y + 1].col \in Nat
            BY <3>2
        <3>. HIDE DEF S
        <3>. QED  BY <3>2, <3>3, <3>4, <3>5
    <2>. QED  BY <1>2, <2>1
<1>3. S = Nat
    <2>1. S \in SUBSET Nat
        OBVIOUS
    <2>. HIDE DEF S
    <2>. QED  BY <1>1, <1>2, <2>1, Induction
<1>. SUFFICES ASSUME NEW x \in 0 .. len - 1, NEW y \in 0 .. len - 1, x <= y
              PROVE  F[x].col <= F[y].col
    OBVIOUS
<1>4. y - x \in Nat /\ x + (y - x) = y
    OBVIOUS
<1>5. y - x \in S
    BY <1>3, <1>4
<1>. QED  BY <1>4, <1>5

\* qsort leaves nothing out.
LEMMA OrderReachesAll ==
    ASSUME NEW len \in Nat, NEW q \in Orders(len)
    PROVE  0 .. len - 1 = {q[x] : x \in 0 .. len - 1}
<1>. DEFINE D == 0 .. len - 1
<1>1. q \in Injection(D, D)
    BY DEF Orders, Injection, IsInjective
<1>2. IsFiniteSet(D)
    BY FS_Interval
<1>. HIDE DEF D
<1>3. q \in Surjection(D, D)
    BY <1>1, <1>2, FS_Injection
<1>4. D = {q[x] : x \in D}
    BY <1>3 DEF Surjection
<1>. QED  BY <1>4 DEF D

-------------------------------------------------------------------------------
(* The steps of the folding *)

\* The row at hand.
LEMMA HandFacts ==
    ASSUME TypeInv, RowsInv, FoldInv, pc \in {"fold", "group"}
    PROVE  /\ i \in 0 .. M - 1 /\ M \in Nat /\ t \in Nat /\ Len_(i) \in Nat /\ t <= Len_(i)
           /\ write \in Nat /\ new_rp[i] \in Nat /\ new_rp[i] <= write
           /\ \A x \in 0 .. Len_(i) - 1 : buf[x] \in Cell /\ buf[x].col \in Nat /\ buf[x].val \in Int
           /\ \A x, y \in 0 .. Len_(i) - 1 : x <= y => buf[x].col <= buf[y].col
           /\ \A n \in 0 .. Len_(i) : ColsAt(buf, 0 .. n - 1) \subseteq Nat
<1>1. i < M
    BY DEF TypeInv, Entries
<1>2. /\ M \in Nat /\ t \in Nat /\ write \in Nat /\ i \in 0 .. M - 1 /\ Len_(i) \in Nat
    <2>1. M \in Nat /\ i \in 0 .. M /\ t \in Nat /\ write \in Nat
        BY RowFacts DEF Folding
    <2>2. i \in 0 .. M - 1
        BY <1>1, <2>1
    <2>3. Len_(i) \in Nat
        BY <2>2, RowFacts DEF Folding
    <2>. QED  BY <2>1, <2>2, <2>3
<1>3. /\ buf \in [0 .. Len_(i) - 1 -> Cell] /\ t <= Len_(i)
      /\ \A x \in 1 .. Len_(i) - 1 : buf[x - 1].col <= buf[x].col
    BY DEF FoldInv, RowAtHand
<1>4. new_rp \in [0 .. i -> Nat] /\ \A r \in 0 .. i : new_rp[r] <= write
    BY DEF FoldInv, FoldedRows, Folding
<1>5. i \in 0 .. i
    BY <1>2
<1>6. new_rp[i] \in Nat /\ new_rp[i] <= write
    BY <1>4, <1>5
<1>. DEFINE len == Len_(i)
<1>7. \A x \in 0 .. len - 1 : buf[x] \in Cell /\ buf[x].col \in Nat /\ buf[x].val \in Int
    BY <1>3, CellParts
<1>8. len \in Nat /\ \A x \in 1 .. len - 1 : buf[x - 1].col <= buf[x].col
    BY <1>2, <1>3
<1>. HIDE DEF len
<1>9. \A x, y \in 0 .. len - 1 : x <= y => buf[x].col <= buf[y].col
    BY <1>7, <1>8, Sorted
<1>10. \A n \in 0 .. len : ColsAt(buf, 0 .. n - 1) \subseteq Nat
    <2>1. \A n \in 0 .. len : 0 .. n - 1 \subseteq 0 .. len - 1
        BY <1>8
    <2>. QED  BY <1>7, <2>1 DEF ColsAt
<1>. QED  BY <1>2, <1>3, <1>6, <1>7, <1>9, <1>10 DEF len

LEMMA BufGrows ==
    ASSUME TypeInv, RowsInv, FoldInv, pc \in {"fold", "group"}, t < Len_(i)
    PROVE  Grows(buf, 0 .. t - 1, buf, 0 .. t, t)
<1>1. t \in Nat /\ Len_(i) \in Nat
    BY HandFacts
<1>2. 0 .. t = (0 .. t - 1) \cup {t} /\ t \notin 0 .. t - 1 /\ 0 .. t \subseteq 0 .. Len_(i) - 1
    BY <1>1
<1>3. IsFiniteSet(0 .. t - 1)
    BY <1>1, FS_Interval
<1>4. \A d \in 0 .. t : buf[d].val \in Int
    BY <1>2, HandFacts
<1>. QED  BY <1>2, <1>3, <1>4 DEF Grows

LEMMA SaysScatterDone ==
    ASSUME TypeInv, RowsInv, ReadInv, ScatterInv, ScatterDone
    PROVE  SaysInv'
<1>1. pc = "scatter" /\ pc' = "canonicalise" /\ UNCHANGED <<file, row_ptr, cells>>
    BY DEF ScatterDone
<1>2. \A r \in 0 .. M - 1 : RowSays(r)'
    BY <1>1, ScatterEnds, RowSaysSame
<1>3. M' = M
    BY <1>1, SameText
<1>. QED
    BY <1>1, <1>2, <1>3 DEF SaysInv, UnreadInv, BufInv, FoldedHold, LoadedHold, Loaded, Done, Folding

LEMMA SaysAllocBuffers ==
    ASSUME SaysInv, AllocBuffers
    PROVE  SaysInv'
<1>1. CASE pc' = "done"
    <2>1. matrix' = {}
        BY <1>1 DEF AllocBuffers, Returns
    <2>. QED
        BY <1>1, <2>1 DEF SaysInv, UnreadInv, Unread, BufInv, FoldedHold, LoadedHold, Loaded, Folding, Vectors
<1>2. CASE pc' # "done"
    <2>1. /\ pc = "canonicalise" /\ pc' = "row" /\ i' = 0
          /\ UNCHANGED <<file, row_ptr, cells>>
        BY <1>2 DEF AllocBuffers, Returns
    <2>2. UnreadInv'
        BY <2>1, UnreadStay DEF SaysInv, Unread
    <2>3. FoldedHold'
        <3>1. 0 .. 0 - 1 = {}
            OBVIOUS
        <3>. QED  BY <2>1, <3>1 DEF FoldedHold
    <2>. QED  BY <2>1, <2>2, <2>3 DEF SaysInv, BufInv, LoadedHold, Loaded, Done
<1>. QED  BY <1>1, <1>2

LEMMA SaysSortRow ==
    ASSUME TypeInv, RowsInv, FoldInv, SaysInv, SortRow
    PROVE  SaysInv'
<1>1. /\ pc = "row" /\ pc' = "fold" /\ i < M /\ t' = 0
      /\ UNCHANGED <<file, row_ptr, cells, i, write, new_rp>>
    BY DEF SortRow, reading
<1>2. PICK q \in Orders(Len_(i)) :
        buf' = [x \in 0 .. Len_(i) - 1 |-> cells[row_ptr[i] + q[x]]]
    BY DEF SortRow
<1>3. /\ M \in Nat /\ nnz \in Nat /\ i \in 0 .. M - 1 /\ row_ptr[i] \in Nat
      /\ cells \in [0 .. nnz - 1 -> Cell]
      /\ Len_(i) \in Nat /\ row_ptr[i] + Len_(i) = row_ptr[i + 1] /\ row_ptr[i + 1] <= nnz
    BY <1>1, RowFacts DEF Folding
<1>. DEFINE len == Len_(i)
            base == row_ptr[i]
            D == 0 .. len - 1
            H == base .. row_ptr[i + 1] - 1
            p == [x \in D |-> base + q[x]]
            F1 == buf'
<1>4. /\ len \in Nat /\ base \in Nat /\ H = base .. base + len - 1 /\ base + len <= nnz
      /\ q \in Orders(len) /\ D = 0 .. len - 1
    <2>1. len \in Nat /\ base \in Nat /\ base + len = row_ptr[i + 1] /\ row_ptr[i + 1] <= nnz
        BY <1>3
    <2>2. q \in Orders(len)
        BY <1>2
    <2>3. H = base .. (base + len) - 1
        BY <2>1
    <2>. HIDE DEF len, base
    <2>. QED  BY <2>1, <2>2, <2>3
<1>5. \A x \in D : F1[x] = cells[p[x]]
    BY <1>2
<1>6. q \in [D -> D] /\ \A x, y \in D : q[x] = q[y] => x = y
    BY <1>4 DEF Orders
<1>7. D = {q[x] : x \in D}
    BY <1>4, OrderReachesAll
<1>8. \A x \in D : p[x] = base + q[x]
    OBVIOUS
<1>9. Alike(cells, H, Text, InRow(Meant, i))
    BY <1>1, <1>3 DEF SaysInv, UnreadInv, Unread, RowSays
<1>10. IsFiniteSet(D) /\ D \subseteq Int
    BY <1>4, FS_Interval
<1>11. H \subseteq Int /\ \A y \in Int : y \in H <=> y - base \in D
    <2>. HIDE DEF len, base, D, H
    <2>. QED  BY <1>4
<1>12. H \subseteq 0 .. nnz - 1
    BY <1>3, <1>4
<1>. HIDE DEF len, base, D, H, p, F1
<1>13. H = {p[x] : x \in D}
    <2>1. ASSUME NEW x \in D
          PROVE  p[x] \in H
        <3>1. q[x] \in D /\ q[x] \in Int
            BY <1>6, <1>10
        <3>2. base + q[x] \in Int /\ (base + q[x]) - base = q[x]
            BY <1>4, <3>1
        <3>. QED  BY <1>8, <1>11, <3>1, <3>2
    <2>2. ASSUME NEW y \in H
          PROVE  \E x \in D : p[x] = y
        <3>1. y \in Int /\ y - base \in D
            BY <1>11
        <3>2. PICK x \in D : q[x] = y - base
            BY <1>7, <3>1
        <3>3. p[x] = base + (y - base) /\ base + (y - base) = y
            BY <1>4, <1>8, <3>1, <3>2
        <3>. QED  BY <3>3
    <2>. QED  BY <2>1, <2>2
<1>14. \A x, y \in D : p[x] = p[y] => x = y
    <2>1. \A x \in D : q[x] \in Int
        BY <1>6, <1>10
    <2>2. ASSUME NEW x \in D, NEW y \in D, p[x] = p[y]
          PROVE  x = y
        <3>1. base + q[x] = base + q[y]
            BY <1>8, <2>2
        <3>2. q[x] = q[y]
            BY <1>4, <2>1, <3>1
        <3>. QED  BY <1>6, <3>2
    <2>. QED  BY <2>2
<1>15. \A x \in D : cells[p[x]].val \in Int
    <2>1. \A x \in D : p[x] \in 0 .. nnz - 1
        BY <1>12, <1>13
    <2>2. \A x \in D : cells[p[x]] \in Cell
        BY <1>3, <2>1
    <2>. QED  BY <2>2, CellParts
<1>16. Alike(F1, D, cells, H)
    <2>1. \A x \in D : /\ F1[x].col = cells[p[x]].col /\ F1[x].val = cells[p[x]].val
                       /\ cells[p[x]].val \in Int
        BY <1>5, <1>15
    <2>. QED  BY <1>10, <1>13, <1>14, <2>1, AlikeMoves
<1>17. Alike(F1, D, Text, InRow(Meant, i))
    BY <1>9, <1>16, AlikeJoins
<1>18. BufInv'
    <2>1. Alike(buf, 0 .. Len_(i) - 1, Text, InRow(Meant, i))'
        <3>1. Len_(i)' = Len_(i) /\ Text' = Text /\ InRow(Meant, i)' = InRow(Meant, i)
            BY <1>1, SameText DEF Len_, InRow
        <3>2. F1 = buf' /\ D = 0 .. Len_(i) - 1
            BY DEF F1, D, len
        <3>. QED  BY <1>17, <3>1, <3>2
    <2>2. Folds(cells', {}, buf', {}, {})
        BY DEF Folds, ColsAt
    <2>3. (new_rp[i] .. write - 1)' = {} /\ (0 .. t - 1)' = {}
        <3>1. write = new_rp[i] /\ write \in Nat
            BY <1>1, RowFacts DEF FoldInv, RowAtHand, Folding
        <3>2. write .. write - 1 = {} /\ 0 .. 0 - 1 = {}
            BY <3>1
        <3>. QED  BY <1>1, <3>1, <3>2
    <2>4. ~(0 < t')
        BY <1>1
    <2>. QED  BY <1>1, <2>1, <2>2, <2>3, <2>4 DEF BufInv
<1>19. UnreadInv'
    <2>1. \A r \in 0 .. M - 1 : Unread(r)' => Unread(r)
        BY <1>1, <1>3 DEF Unread
    <2>. QED  BY <1>1, <2>1, UnreadStay DEF SaysInv
<1>20. FoldedHold'
    BY <1>1, FoldedStay DEF SaysInv, Folding
<1>. QED  BY <1>1, <1>18, <1>19, <1>20 DEF SaysInv, LoadedHold, Loaded, Done

\* A step inside the row at hand that writes no cell.
LEMMA SaysInside ==
    ASSUME SaysInv, pc \in {"fold", "group"}, pc' \in {"fold", "group"}, BufInv',
           UNCHANGED <<file, row_ptr, cells, i, new_rp>>
    PROVE  SaysInv'
<1>1. UnreadInv'
    BY UnreadStay DEF SaysInv, Unread
<1>2. FoldedHold'
    BY FoldedStay DEF SaysInv, Folding
<1>. QED  BY <1>1, <1>2 DEF SaysInv, LoadedHold, Loaded, Done

LEMMA SaysOpenGroup ==
    ASSUME TypeInv, RowsInv, FoldInv, SaysInv, OpenGroup
    PROVE  SaysInv'
<1>1. /\ pc = "fold" /\ pc' = "group" /\ t < Len_(i) /\ acc' = buf[t] /\ t' = t + 1
      /\ UNCHANGED <<file, row_ptr, cells, i, write, new_rp, buf>>
    BY DEF OpenGroup, reading
<1>2. /\ t \in Nat /\ Len_(i) \in Nat
      /\ \A x \in 0 .. Len_(i) - 1 : buf[x].col \in Nat
      /\ \A x, y \in 0 .. Len_(i) - 1 : x <= y => buf[x].col <= buf[y].col
    BY <1>1, HandFacts
<1>3. /\ Alike(buf, 0 .. Len_(i) - 1, Text, InRow(Meant, i))
      /\ Folds(cells, new_rp[i] .. write - 1, buf, 0 .. t - 1, {})
      /\ 0 < t => buf[t - 1].col < buf[t].col
    BY <1>1 DEF SaysInv, BufInv
<1>4. buf[t].col \notin ColsAt(buf, 0 .. t - 1)
    <2>1. ASSUME NEW x \in 0 .. t - 1
          PROVE  buf[x].col # buf[t].col
        <3>1. /\ 0 < t /\ x <= t - 1 /\ x \in 0 .. Len_(i) - 1
              /\ t - 1 \in 0 .. Len_(i) - 1 /\ t \in 0 .. Len_(i) - 1
            BY <1>1, <1>2
        <3>2. buf[x].col <= buf[t - 1].col /\ buf[t - 1].col < buf[t].col
            BY <1>2, <1>3, <3>1
        <3>3. buf[x].col \in Nat /\ buf[t - 1].col \in Nat /\ buf[t].col \in Nat
            BY <1>2, <3>1
        <3>. QED  BY <3>2, <3>3
    <2>. QED  BY <2>1 DEF ColsAt
<1>5. /\ Folds(cells, new_rp[i] .. write - 1, buf, 0 .. t, {buf[t].col})
      /\ buf[t].val = SumAt(buf, 0 .. t, buf[t].col)
    BY <1>1, <1>3, <1>4, BufGrows, FoldsOpens
<1>6. BufInv'
    <2>1. /\ Len_(i)' = Len_(i) /\ Text' = Text /\ InRow(Meant, i)' = InRow(Meant, i)
          /\ t' - 1 = t
        BY <1>1, <1>2, SameText DEF Len_, InRow
    <2>2. Folds(cells, new_rp[i] .. write - 1, buf, 0 .. t' - 1, {acc'.col})
        BY <1>1, <1>5, <2>1
    <2>3. acc'.val = SumAt(buf, 0 .. t' - 1, acc'.col)
        BY <1>1, <1>5, <2>1
    <2>. QED  BY <1>1, <1>3, <2>1, <2>2, <2>3 DEF BufInv
<1>. QED  BY <1>1, <1>6, SaysInside

LEMMA SaysAddToGroup ==
    ASSUME TypeInv, RowsInv, FoldInv, SaysInv, AddToGroup
    PROVE  SaysInv'
<1>1. /\ pc = "group" /\ pc' = "group" /\ t < Len_(i) /\ buf[t].col = acc.col /\ t' = t + 1
      /\ acc' = [acc EXCEPT !.val = acc.val + buf[t].val]
      /\ UNCHANGED <<file, row_ptr, cells, i, write, new_rp, buf>>
    BY DEF AddToGroup, SameColumn, reading
<1>2. t \in Nat /\ Len_(i) \in Nat /\ buf[t].val \in Int /\ acc.val \in Int
    <2>1. t \in 0 .. Len_(i) - 1
        BY <1>1, HandFacts
    <2>2. acc \in Cell
        BY <1>1 DEF FoldInv, GroupAtHand
    <2>. QED  BY <1>1, <2>1, <2>2, HandFacts, CellParts
<1>3. /\ Alike(buf, 0 .. Len_(i) - 1, Text, InRow(Meant, i))
      /\ Folds(cells, new_rp[i] .. write - 1, buf, 0 .. t - 1, {acc.col})
      /\ acc.val = SumAt(buf, 0 .. t - 1, acc.col)
    BY <1>1 DEF SaysInv, BufInv
<1>4. /\ Folds(cells, new_rp[i] .. write - 1, buf, 0 .. t, {acc.col})
      /\ SumAt(buf, 0 .. t, acc.col) = buf[t].val + SumAt(buf, 0 .. t - 1, acc.col)
    <2>1. Grows(buf, 0 .. t - 1, buf, 0 .. t, t)
        BY <1>1, BufGrows
    <2>2. Folds(cells, new_rp[i] .. write - 1, buf, 0 .. t - 1, {buf[t].col})
        BY <1>1, <1>3
    <2>3. /\ Folds(cells, new_rp[i] .. write - 1, buf, 0 .. t, {buf[t].col})
          /\ SumAt(buf, 0 .. t, buf[t].col) = buf[t].val + SumAt(buf, 0 .. t - 1, buf[t].col)
        BY <2>1, <2>2, FoldsAdds
    <2>. QED  BY <1>1, <2>3
<1>5. acc'.col = acc.col /\ acc'.val = acc.val + buf[t].val
    <2>1. acc \in Cell
        BY <1>1 DEF FoldInv, GroupAtHand
    <2>. QED  BY <1>1, <2>1 DEF Cell
<1>6. BufInv'
    <2>1. /\ Len_(i)' = Len_(i) /\ Text' = Text /\ InRow(Meant, i)' = InRow(Meant, i)
          /\ t' - 1 = t
        BY <1>1, <1>2, SameText DEF Len_, InRow
    <2>2. Folds(cells, new_rp[i] .. write - 1, buf, 0 .. t' - 1, {acc'.col})
        BY <1>4, <1>5, <2>1
    <2>3. acc'.val = SumAt(buf, 0 .. t' - 1, acc'.col)
        <3>1. acc'.val = buf[t].val + acc.val
            BY <1>2, <1>5
        <3>2. acc'.val = SumAt(buf, 0 .. t, acc.col)
            BY <1>3, <1>4, <3>1, Zenon
        <3>. QED  BY <1>5, <2>1, <3>2
    <2>. QED  BY <1>1, <1>3, <2>1, <2>2, <2>3 DEF BufInv
<1>. QED  BY <1>1, <1>6, SaysInside

\* The cells before the one that is written.
LEMMA InRange ==
    ASSUME NEW a \in Nat, NEW b \in Nat, NEW n \in Nat, NEW w \in 0 .. n - 1, b <= w
    PROVE  \A p \in a .. b - 1 : p \in 0 .. n - 1 /\ p # w
OBVIOUS

LEMMA SaysCloseGroup ==
    ASSUME TypeInv, RowsInv, FoldInv, SaysInv, CloseGroup
    PROVE  SaysInv'
<1>1. /\ pc = "group" /\ pc' = "fold" /\ write' = write + 1
      /\ cells' = [cells EXCEPT ![write] = acc]
      /\ UNCHANGED <<file, coo, row_ptr, i, t, buf, acc, new_rp>>
    BY DEF CloseGroup, Target, reading
<1>2. /\ t \in Nat /\ Len_(i) \in Nat /\ t <= Len_(i) /\ i \in 0 .. M - 1 /\ M \in Nat
      /\ write \in Nat /\ new_rp[i] \in Nat /\ new_rp[i] <= write
      /\ \A x \in 0 .. Len_(i) - 1 : buf[x].col \in Nat
      /\ \A x, y \in 0 .. Len_(i) - 1 : x <= y => buf[x].col <= buf[y].col
    BY <1>1, HandFacts
<1>3. /\ nnz \in Nat /\ cells \in [0 .. nnz - 1 -> Cell]
      /\ \A r \in 0 .. M - 1 : row_ptr[r + 1] <= nnz /\ row_ptr[r + 1] \in Nat /\ row_ptr[r] \in Nat
      /\ \A r \in 0 .. M - 1 : r > i => row_ptr[i + 1] <= row_ptr[r]
    <2>1. nnz \in Nat /\ cells \in [0 .. nnz - 1 -> Cell] /\ row_ptr \in [0 .. M -> Nat]
          /\ \A r \in 0 .. M - 1 : row_ptr[r + 1] <= nnz
        BY <1>1, RowFacts DEF Folding
    <2>2. ASSUME NEW r \in 0 .. M - 1
          PROVE  /\ row_ptr[r + 1] \in Nat /\ row_ptr[r] \in Nat
                 /\ r > i => row_ptr[i + 1] <= row_ptr[r]
        <3>1. /\ r \in 0 .. M /\ r + 1 \in 0 .. M /\ i + 1 \in 0 .. M /\ (r > i => i + 1 <= r)
            BY <1>2
        <3>2. \A q, s \in 0 .. M : q <= s => row_ptr[q] <= row_ptr[s]
            BY <1>1, RowsLie DEF Folding
        <3>. QED  BY <2>1, <3>1, <3>2
    <2>. QED  BY <2>1, <2>2
<1>4. write < row_ptr[i + 1]
    BY FoldCloseGroup
<1>5. write \in 0 .. nnz - 1
    BY <1>2, <1>3, <1>4
<1>6. /\ cells'[write] = acc
      /\ \A p \in 0 .. nnz - 1 : p # write => cells'[p] = cells[p]
    BY <1>1, <1>3, <1>5
<1>7. /\ t > 0 /\ acc \in Cell /\ acc.col = buf[t - 1].col
      /\ t < Len_(i) => buf[t].col # acc.col
    BY <1>1 DEF FoldInv, RowAtHand, GroupAtHand, CloseGroup, SameColumn
<1>8. t - 1 \in 0 .. t - 1 /\ t - 1 \in 0 .. Len_(i) - 1
    BY <1>2, <1>7
<1>9. /\ Alike(buf, 0 .. Len_(i) - 1, Text, InRow(Meant, i))
      /\ Folds(cells, new_rp[i] .. write - 1, buf, 0 .. t - 1, {acc.col})
      /\ acc.val = SumAt(buf, 0 .. t - 1, acc.col)
    BY <1>1 DEF SaysInv, BufInv
<1>10. Folds(cells', new_rp[i] .. write, buf, 0 .. t - 1, {})
    <2>. DEFINE F1 == cells'
                b == new_rp[i]
                D == b .. write - 1
                D1 == b .. write
                H == 0 .. t - 1
    <2>1. D1 = D \cup {write}
        <3>1. b \in Nat /\ b <= write /\ write \in Nat
            BY <1>2
        <3>. HIDE DEF b
        <3>. QED  BY <3>1
    <2>2. \A d \in D : F1[d] = cells[d]
        <3>1. \A d \in D : d \in 0 .. nnz - 1 /\ d # write
            BY ONLY <1>2, <1>3, <1>5, InRange
        <3>. QED  BY <1>6, <3>1
    <2>3. acc.col \in ColsAt(buf, H)
        BY <1>7, <1>8 DEF ColsAt
    <2>4. F1[write].col = acc.col /\ F1[write].val = SumAt(buf, H, acc.col)
        BY <1>6, <1>9
    <2>5. Folds(cells, D, buf, H, {acc.col})
        BY <1>9
    <2>. HIDE DEF F1, b, D, D1, H
    <2>6. Folds(F1, D1, buf, H, {})
        BY <2>1, <2>2, <2>3, <2>4, <2>5, FoldsCloses
    <2>. QED  BY <2>6 DEF F1, b, D1, H
<1>11. t < Len_(i) => buf[t - 1].col < buf[t].col
    <2>1. ASSUME t < Len_(i)
          PROVE  buf[t - 1].col < buf[t].col
        <3>1. t \in 0 .. Len_(i) - 1 /\ t - 1 <= t
            BY <1>2, <2>1
        <3>2. buf[t - 1].col <= buf[t].col /\ buf[t].col \in Nat /\ buf[t - 1].col \in Nat
            BY <1>2, <1>8, <3>1
        <3>. QED  BY <1>7, <2>1, <3>2
    <2>. QED  BY <2>1
<1>12. BufInv'
    <2>1. /\ Len_(i)' = Len_(i) /\ Text' = Text /\ InRow(Meant, i)' = InRow(Meant, i)
          /\ write' - 1 = write
        BY <1>1, <1>2, SameText DEF Len_, InRow
    <2>2. Folds(cells', new_rp'[i'] .. write' - 1, buf', 0 .. t' - 1, {})
        BY <1>1, <1>10, <2>1
    <2>. QED  BY <1>1, <1>9, <1>11, <2>1, <2>2 DEF BufInv
<1>13. UnreadInv'
    <2>1. ASSUME NEW r \in 0 .. M - 1, Unread(r)'
          PROVE  RowSays(r)'
        <3>1. r > i
            BY <1>1, <2>1 DEF Unread
        <3>2. RowSays(r)
            BY <1>1, <3>1 DEF SaysInv, UnreadInv, Unread
        <3>3. \A p \in row_ptr[r] .. row_ptr[r + 1] - 1 : p \in 0 .. nnz - 1 /\ p # write
            <4>1. row_ptr[i + 1] <= row_ptr[r] /\ row_ptr[r] \in Nat /\ row_ptr[r + 1] <= nnz
                  /\ row_ptr[r + 1] \in Nat /\ row_ptr[i + 1] \in Nat
                BY <1>2, <1>3, <3>1
            <4>. QED  BY ONLY <1>2, <1>3, <1>4, <4>1
        <3>4. \A p \in row_ptr[r] .. row_ptr[r + 1] - 1 : cells'[p] = cells[p]
            BY <1>6, <3>3
        <3>. QED  BY <1>1, <3>2, <3>4, RowSaysSame
    <2>2. M' = M
        BY <1>1, SameText
    <2>. QED  BY <2>1, <2>2 DEF UnreadInv
<1>14. FoldedHold'
    <2>1. ASSUME NEW r \in 0 .. i - 1
          PROVE  Holds(cells, r, new_rp[r], new_rp[r + 1])'
        <3>1. Holds(cells, r, new_rp[r], new_rp[r + 1])
            BY <1>1 DEF SaysInv, FoldedHold, Folding
        <3>2. new_rp[r] \in Nat /\ new_rp[r + 1] \in Nat /\ new_rp[r + 1] <= write
            <4>1. new_rp \in [0 .. i -> Nat] /\ \A q \in 0 .. i : new_rp[q] <= write
                BY <1>1 DEF FoldInv, FoldedRows, Folding
            <4>2. r \in 0 .. i /\ r + 1 \in 0 .. i
                BY <1>2
            <4>. QED  BY <4>1, <4>2
        <3>. DEFINE D == new_rp[r] .. new_rp[r + 1] - 1
                    F1 == cells'
        <3>3. \A p \in D : F1[p] = cells[p]
            <4>1. \A p \in D : p \in 0 .. nnz - 1 /\ p # write
                BY ONLY <1>2, <1>3, <1>5, <3>2, InRange
            <4>. QED  BY <1>6, <4>1
        <3>4. Folds(cells, D, Text, InRow(Meant, r), {})
            BY <3>1 DEF Holds
        <3>. HIDE DEF D, F1
        <3>5. Folds(F1, D, Text, InRow(Meant, r), {})
            BY <3>3, <3>4, FoldsSame
        <3>6. /\ Text' = Text /\ InRow(Meant, r)' = InRow(Meant, r)
              /\ F1 = cells' /\ D = new_rp[r] .. new_rp[r + 1] - 1
            BY <1>1, SameText DEF InRow, F1, D
        <3>. QED  BY <1>1, <3>5, <3>6 DEF Holds
    <2>. QED  BY <1>1, <2>1 DEF FoldedHold
<1>. QED  BY <1>1, <1>12, <1>13, <1>14 DEF SaysInv, LoadedHold, Loaded, Done

LEMMA SaysEndRow ==
    ASSUME TypeInv, RowsInv, FoldInv, SaysInv, EndRow
    PROVE  SaysInv'
<1>1. /\ pc = "fold" /\ pc' = "row" /\ t >= Len_(i) /\ i' = i + 1
      /\ new_rp' = [p \in 0 .. i + 1 |-> IF p = i + 1 THEN write ELSE new_rp[p]]
      /\ UNCHANGED <<file, coo, row_ptr, cells, write>>
    BY DEF EndRow, VectorAdd, reading
<1>2. /\ t = Len_(i) /\ i \in 0 .. M - 1 /\ M \in Nat /\ Len_(i) \in Nat
      /\ ColsAt(buf, 0 .. t - 1) \subseteq Nat
    BY <1>1, HandFacts
<1>3. /\ Alike(buf, 0 .. t - 1, Text, InRow(Meant, i))
      /\ Folds(cells, new_rp[i] .. write - 1, buf, 0 .. t - 1, {})
    BY <1>1, <1>2 DEF SaysInv, BufInv
<1>4. Holds(cells, i, new_rp[i], write)
    BY <1>2, <1>3, FoldsJoins DEF Holds
<1>5. UnreadInv'
    <2>1. \A r \in 0 .. M - 1 : Unread(r)' => Unread(r)
        BY <1>1, <1>2 DEF Unread
    <2>. QED  BY <1>1, <2>1, UnreadStay DEF SaysInv
<1>6. FoldedHold'
    <2>1. ASSUME NEW r \in 0 .. i
          PROVE  Holds(cells, r, new_rp'[r], new_rp'[r + 1])
        <3>1. CASE r = i
            <4>1. new_rp'[r] = new_rp[i] /\ new_rp'[r + 1] = write
                BY <1>1, <1>2, <3>1
            <4>. QED  BY <1>4, <3>1, <4>1
        <3>2. CASE r # i
            <4>1. r \in 0 .. i - 1
                BY <1>2, <3>2
            <4>2. new_rp'[r] = new_rp[r] /\ new_rp'[r + 1] = new_rp[r + 1]
                BY <1>1, <1>2, <4>1
            <4>3. Holds(cells, r, new_rp[r], new_rp[r + 1])
                BY <1>1, <4>1 DEF SaysInv, FoldedHold, Folding
            <4>. QED  BY <4>2, <4>3
        <3>. QED  BY <3>1, <3>2
    <2>2. i' - 1 = i
        BY <1>1, <1>2
    <2>3. \A r : Text' = Text /\ InRow(Meant, r)' = InRow(Meant, r)
        BY <1>1, SameText DEF InRow
    <2>4. \A r \in 0 .. i : Holds(cells, r, new_rp[r], new_rp[r + 1])'
        BY <1>1, <2>1, <2>3 DEF Holds
    <2>. QED  BY <1>1, <2>2, <2>4 DEF FoldedHold
<1>. QED  BY <1>1, <1>5, <1>6 DEF SaysInv, BufInv, LoadedHold, Loaded, Done

LEMMA SaysFinishRows ==
    ASSUME TypeInv, RowsInv, FoldInv, SaysInv, FinishRows
    PROVE  SaysInv'
<1>1. /\ pc = "row" /\ i >= M /\ pc' = "done"
      /\ row_ptr' = new_rp /\ cells' = [p \in 0 .. write - 1 |-> cells[p]]
      /\ UNCHANGED <<file, i>>
    BY DEF FinishRows
<1>2. M \in Nat /\ i = M /\ write \in Nat /\ M' = M
    BY <1>1, RowFacts DEF Folding, M
<1>3. new_rp \in [0 .. i -> Nat] /\ \A r \in 0 .. i : new_rp[r] <= write
    BY <1>1 DEF FoldInv, FoldedRows, Folding
<1>4. ASSUME NEW r \in 0 .. M - 1
      PROVE  Holds(cells, r, row_ptr[r], row_ptr[r + 1])'
    <2>1. new_rp[r] \in Nat /\ new_rp[r + 1] \in Nat /\ new_rp[r + 1] <= write
        <3>1. r \in 0 .. i /\ r + 1 \in 0 .. i
            BY <1>2
        <3>. QED  BY <1>3, <3>1
    <2>. DEFINE D == new_rp[r] .. new_rp[r + 1] - 1
                F1 == cells'
    <2>2. \A p \in D : F1[p] = cells[p]
        <3>1. \A p \in D : p \in 0 .. write - 1
            BY <1>2, <2>1
        <3>. QED  BY <1>1, <3>1
    <2>3. Folds(cells, D, Text, InRow(Meant, r), {})
        BY <1>1, <1>2 DEF SaysInv, FoldedHold, Folding, Holds
    <2>. HIDE DEF D, F1
    <2>4. Folds(F1, D, Text, InRow(Meant, r), {})
        BY <2>2, <2>3, FoldsSame
    <2>5. /\ Text' = Text /\ InRow(Meant, r)' = InRow(Meant, r)
          /\ F1 = cells' /\ D = new_rp[r] .. new_rp[r + 1] - 1
        BY <1>1, SameText DEF InRow, F1, D
    <2>. QED  BY <1>1, <2>4, <2>5 DEF Holds
<1>. QED
    BY <1>1, <1>2, <1>4 DEF SaysInv, UnreadInv, Unread, BufInv, FoldedHold, LoadedHold, Folding

LEMMA SaysStep ==
    ASSUME IInv, ReadInv, ScatterInv, SaysInv, [Next]_vars
    PROVE  SaysInv'
<1>. USE DEF IInv
<1>1. CASE pc' \notin {"canonicalise"} \cup Folding /\ (pc' = "done" => matrix' # Vectors)
    BY <1>1 DEF SaysInv, UnreadInv, Unread, BufInv, FoldedHold, LoadedHold, Loaded, Done, Folding
<1>2. CASE Open \/ ReadSizes \/ AllocCoo \/ ReadEntry \/ CloseFile \/ Expand \/ MirrorEntry \/ MirrorDone
    BY <1>1, <1>2 DEF Open, ReadSizes, AllocCoo, ReadEntry, CloseFile, Expand, MirrorEntry, MirrorDone,
       Returns, Folding, Vectors
<1>3. CASE CountRows \/ AddRowEnd \/ Scatter
    BY <1>1, <1>3 DEF CountRows, AddRowEnd, Scatter, Returns, Folding, Vectors
<1>4. CASE AllocCursor
    <2>1. pc' \notin {"canonicalise"} \cup Folding /\ (pc' = "done" => matrix' = matrix) /\ matrix = {"row_ptr"}
        BY <1>4 DEF AllocCursor, Returns, Folding, HeapInv
    <2>. QED  BY <1>1, <2>1 DEF Vectors
<1>5. CASE ScatterDone
    BY <1>5, SaysScatterDone
<1>6. CASE AllocBuffers
    BY <1>6, SaysAllocBuffers
<1>7. CASE SortRow
    BY <1>7, SaysSortRow
<1>8. CASE OpenGroup
    BY <1>8, SaysOpenGroup
<1>9. CASE AddToGroup
    BY <1>9, SaysAddToGroup
<1>10. CASE CloseGroup
    BY <1>10, SaysCloseGroup
<1>11. CASE EndRow
    BY <1>11, SaysEndRow
<1>12. CASE FinishRows
    BY <1>12, SaysFinishRows
<1>13. CASE UNCHANGED vars
    <2>1. UNCHANGED <<file, pc, row_ptr, cells, i, t, write, buf, acc, new_rp, matrix>>
        BY <1>13 DEF vars, folding, heap
    <2>2. M' = M /\ Text' = Text /\ \A r : InRow(Meant, r)' = InRow(Meant, r)
        BY <2>1, SameText DEF InRow
    <2>3. \A r : RowSays(r)' <=> RowSays(r)
        BY <2>1, <2>2 DEF RowSays
    <2>4. \A r : Unread(r)' <=> Unread(r)
        BY <2>1 DEF Unread
    <2>5. UnreadInv'
        BY <2>1, <2>2, <2>3, <2>4 DEF SaysInv, UnreadInv
    <2>6. Len_(i)' = Len_(i) /\ InRow(Meant, i)' = InRow(Meant, i)
        BY <2>1, <2>2 DEF Len_, InRow
    <2>7. BufInv'
        BY <2>1, <2>2, <2>6 DEF SaysInv, BufInv
    <2>8. FoldedHold' /\ LoadedHold'
        BY <2>1, <2>2 DEF SaysInv, FoldedHold, LoadedHold, Holds, Loaded, Done
    <2>. QED  BY <2>5, <2>7, <2>8 DEF SaysInv
<1>. QED
    BY <1>2, <1>3, <1>4, <1>5, <1>6, <1>7, <1>8, <1>9, <1>10, <1>11, <1>12, <1>13 DEF Next

Contents == IInv /\ ReadInv /\ ScatterInv /\ SaysInv

LEMMA ContentsInit == Init => Contents
<1>. SUFFICES ASSUME Init PROVE Contents
    OBVIOUS
<1>1. IInv
    BY InvInit
<1>2. pc = "start" /\ coo = <<>> /\ k = 1 /\ file \in Files
    BY DEF Init
<1>3. nnz = 0 /\ 1 .. 0 = {} /\ 0 <= Held
    BY <1>2, LineFacts DEF nnz
<1>4. ASSUME NEW r \in Nat
      PROVE  Alike(coo, CooIn(r), Text, InRow(Behind, r))
    <2>1. CooIn(r) = {} /\ InRow(Behind, r) = {}
        BY <1>2, <1>3 DEF CooIn, InRow, Behind, Lines, Early
    <2>. QED  BY <2>1, NothingAlike
<1>5. ReadInv
    BY <1>2, <1>3, <1>4 DEF ReadInv, Early
<1>6. ScatterInv /\ SaysInv
    BY <1>2 DEF ScatterInv, SaysInv, UnreadInv, Unread, BufInv, FoldedHold, LoadedHold, Loaded, Done, Folding
<1>. QED  BY <1>1, <1>5, <1>6 DEF Contents

LEMMA ContentsStep == Contents /\ [Next]_vars => Contents'
BY InvStep, ReadStep, ScatterStep, SaysStep DEF Contents, IInv

LEMMA ContentsSay == Contents => LoadsWhatIsStored
<1>. SUFFICES ASSUME Contents, Loaded PROVE
        /\ Shaped
        /\ \A r \in 0 .. M - 1 :
             /\ {cells[p].col : p \in row_ptr[r] .. row_ptr[r + 1] - 1} =
                  {s[2].col : s \in {q \in Meant : q[2].row = r}}
             /\ \A p \in row_ptr[r] .. row_ptr[r + 1] - 1 : cells[p].val = ValueAt(r, cells[p].col)
    BY DEF LoadsWhatIsStored
<1>1. Shaped
    BY DEF Contents, IInv, FoldInv, CanonicalWhenLoaded
<1>2. ASSUME NEW r \in 0 .. M - 1
      PROVE  /\ {cells[p].col : p \in row_ptr[r] .. row_ptr[r + 1] - 1} =
                  {s[2].col : s \in {q \in Meant : q[2].row = r}}
             /\ \A p \in row_ptr[r] .. row_ptr[r + 1] - 1 : cells[p].val = ValueAt(r, cells[p].col)
    <2>. DEFINE D == row_ptr[r] .. row_ptr[r + 1] - 1
    <2>1. Folds(cells, D, Text, InRow(Meant, r), {})
        BY DEF Contents, SaysInv, LoadedHold, Holds
    <2>2. ColsAt(Text, InRow(Meant, r)) = {s[2].col : s \in {q \in Meant : q[2].row = r}}
        BY DEF ColsAt, Text, InRow
    <2>3. \A p \in D : cells[p].val = ValueAt(r, cells[p].col)
        BY <2>1, ValueIsSum DEF Folds
    <2>4. {cells[p].col : p \in D} = ColsAt(Text, InRow(Meant, r))
        BY <2>1 DEF Folds, ColsAt
    <2>. QED  BY <2>2, <2>3, <2>4
<1>. QED  BY <1>1, <1>2

\* Whatever the file holds and however qsort orders the entries of a column, a
\* matrix that is returned whole is the one in the file: its columns are those of
\* the file's entries and of their mirrors, and each value is the sum of all that
\* fall on it.
THEOREM LoadedAsStored == Spec => []LoadsWhatIsStored
BY ContentsInit, ContentsStep, ContentsSay, PTL DEF Spec

-------------------------------------------------------------------------------
(* The generator's loops *)

\* What the code that calls a distribution has made sure of, and the bands in the matrix.
Asked ==
    /\ req \in Requests /\ Gen!Banded
    /\ gpc \notin {"start", "refused"} => (req.symmetric => Gen!is_square)

\* The rows of the loops up to this one that are done, and with the symmetric
\* ways their partners.
RowsDone == (0 .. Gen!Bounds[loop + 1] - 1) \ pending
Partners == IF req.symmetric THEN {Gen!r1 - j : j \in RowsDone} ELSE {}

\* Where the sharing of the rows stands.
Deciding ==
    /\ gpc = "decide" =>
         /\ loop \in 1 .. Len(Gen!Bounds) - 1 /\ pending \subseteq Gen!LoopRows(loop)
         /\ DOMAIN indices = RowsDone \cup Partners
    /\ gpc \in {"start", "refused"} => DOMAIN indices = {}
    /\ Gen!DecisionOver /\ ~Gen!OddSymmetric => DOMAIN indices = Gen!Rows
    /\ gpc = "middle" => Gen!OddSymmetric

Counted ==
    /\ IsFiniteSet(DOMAIN indices)
    /\ ~Gen!OddSymmetric => callocs = Cardinality(DOMAIN indices)

-------------------------------------------------------------------------------
(* The loops *)

LEMMA Halves ==
    ASSUME NEW n \in Nat
    PROVE  /\ n \div 2 \in Nat /\ 2 * (n \div 2) <= n /\ n <= 2 * (n \div 2) + 1
           /\ n % 2 = 0 => n = 2 * (n \div 2)
           /\ n % 2 = 0 \/ n % 2 = 1
OBVIOUS

LEMMA RequestFacts ==
    ASSUME req \in Requests
    PROVE  /\ req.symmetric \in BOOLEAN /\ Gen!is_square \in BOOLEAN
           /\ Gen!id_first \in Nat /\ Gen!id_first > 0 /\ Gen!id_second \in Nat /\ Gen!id_second > 0
           /\ Gen!low \in Nat /\ Gen!up \in Nat
           /\ Gen!is_square => Gen!id_second = Gen!id_first
           /\ Gen!Banded => (Gen!is_square => Gen!low < Gen!id_first /\ Gen!up < Gen!id_first)
<1>1. req \in Gen!RequestType /\ req.rows > 0 /\ req.cols > 0
    BY RequestsAssumption DEF Gen!RequestsFit
<1>2. /\ req.rows \in Nat /\ req.cols \in Nat /\ req.symmetric \in BOOLEAN /\ req.column \in BOOLEAN
      /\ req.low \in Nat /\ req.up \in Nat
    BY <1>1 DEF Gen!RequestType
<1>3. Gen!is_square \in BOOLEAN /\ (Gen!is_square => req.rows = req.cols)
    BY DEF Gen!is_square
<1>4. /\ Gen!id_first \in Nat /\ Gen!id_first > 0 /\ Gen!id_second \in Nat /\ Gen!id_second > 0
      /\ Gen!is_square => Gen!id_second = Gen!id_first
    BY <1>1, <1>2, <1>3 DEF Gen!id_first, Gen!id_second
<1>5. Gen!low \in Nat /\ Gen!up \in Nat
    BY <1>2 DEF Gen!low, Gen!up
<1>. QED  BY <1>2, <1>3, <1>4, <1>5 DEF Gen!Banded

\* In each way of drawing the loops follow one another from row 0 to the last,
\* or to the middle when each row has a partner.
LEMMA LoopFacts ==
    ASSUME req \in Requests, Gen!Banded, req.symmetric => Gen!is_square
    PROVE  /\ Len(Gen!Bounds) \in Nat /\ Len(Gen!Bounds) > 1 /\ Gen!Bounds[1] = 0
           /\ Gen!Bounds[Len(Gen!Bounds)] = IF req.symmetric THEN Gen!r2 ELSE Gen!id_first
           /\ \A l \in 1 .. Len(Gen!Bounds) : Gen!Bounds[l] \in Nat /\ Gen!Bounds[l] <= Gen!Bounds[Len(Gen!Bounds)]
           /\ \A l \in 1 .. Len(Gen!Bounds) - 1 : Gen!Bounds[l] <= Gen!Bounds[l + 1]
<1>1. /\ Gen!id_first \in Nat /\ Gen!id_first > 0
      /\ Gen!is_square => /\ Gen!low \in Nat /\ Gen!low < Gen!id_first
                      /\ Gen!up \in Nat /\ Gen!up < Gen!id_first
    BY RequestFacts
<1>2. Gen!r2 \in Nat /\ 2 * Gen!r2 <= Gen!id_first /\ Gen!id_first <= 2 * Gen!r2 + 1
    BY <1>1, Halves DEF Gen!r2
<1>3. CASE ~Gen!is_square
    <2>1. Gen!Bounds = <<0, Gen!id_first>> /\ ~req.symmetric
        BY <1>3 DEF Gen!Bounds, Gen!Distribution
    <2>. QED  BY <1>1, <2>1
<1>4. CASE Gen!is_square /\ req.symmetric /\ Gen!low < Gen!r2
    <2>1. Gen!Bounds = <<0, Gen!low, Gen!r2>>
        BY <1>4 DEF Gen!Bounds, Gen!Distribution
    <2>. QED  BY <1>1, <1>2, <1>4, <2>1
<1>5. CASE Gen!is_square /\ req.symmetric /\ ~(Gen!low < Gen!r2)
    <2>1. Gen!Bounds = <<0, Gen!rl - 1, Gen!r2>>
        BY <1>5 DEF Gen!Bounds, Gen!Distribution
    <2>2. Gen!rl - 1 \in Nat /\ Gen!rl - 1 <= Gen!r2
        BY <1>1, <1>2, <1>5 DEF Gen!rl
    <2>. QED  BY <1>2, <1>5, <2>1, <2>2
<1>6. CASE Gen!is_square /\ ~req.symmetric /\ Gen!low > Gen!ru
    <2>1. Gen!Bounds = <<0, Gen!ru, Gen!low, Gen!id_first>>
        BY <1>6 DEF Gen!Bounds, Gen!Distribution
    <2>2. Gen!ru \in Nat /\ Gen!ru <= Gen!id_first /\ Gen!ru <= Gen!low /\ Gen!low <= Gen!id_first
        BY <1>1, <1>6 DEF Gen!ru
    <2>. QED  BY <1>1, <1>6, <2>1, <2>2
<1>7. CASE Gen!is_square /\ ~req.symmetric /\ ~(Gen!low > Gen!ru)
    <2>1. Gen!Bounds = <<0, Gen!low, Gen!ru, Gen!id_first>>
        BY <1>7 DEF Gen!Bounds, Gen!Distribution
    <2>2. Gen!ru \in Nat /\ Gen!ru <= Gen!id_first /\ Gen!low <= Gen!ru
        BY <1>1, <1>7 DEF Gen!ru
    <2>. QED  BY <1>1, <1>7, <2>1, <2>2
<1>. QED  BY <1>3, <1>4, <1>5, <1>6, <1>7

LEMMA SameRequest ==
    ASSUME UNCHANGED req
    PROVE  /\ Gen!is_square' = Gen!is_square /\ Gen!id_first' = Gen!id_first /\ Gen!id_second' = Gen!id_second
           /\ Gen!r1' = Gen!r1 /\ Gen!r2' = Gen!r2 /\ Gen!Rows' = Gen!Rows /\ Gen!OddSymmetric' = Gen!OddSymmetric
           /\ Gen!Bounds' = Gen!Bounds /\ \A l : Gen!LoopRows(l)' = Gen!LoopRows(l)
           /\ (Gen!Banded' <=> Gen!Banded) /\ (Gen!WellAsked' <=> Gen!WellAsked)
BY DEF Gen!Banded, Gen!WellAsked, Gen!Degrees, Gen!max_degree, Gen!is_square, Gen!id_first, Gen!id_second, Gen!r1, Gen!r2, Gen!ru, Gen!rl, Gen!low, Gen!up, Gen!Rows, Gen!OddSymmetric,
       Gen!Distribution, Gen!Bounds, Gen!LoopRows

LEMMA RequestStays == [Gen!Next]_Gen!vars => UNCHANGED req
BY DEF Gen!Next, Gen!vars, Gen!Begin, Gen!Refuse, Gen!DecideRow, Gen!DecideRowAndMirror, Gen!NextLoop,
       Gen!DecideMiddle, Gen!GoAstray, Gen!ReadUndecided, Gen!Emit, Gen!Convert, Gen!SymmetrizePattern,
       Gen!SymmetrizeRow, Gen!SymmetrizeDone

LEMMA AskedStep == Asked /\ [Gen!Next]_Gen!vars => Asked'
<1>. SUFFICES ASSUME Asked, [Gen!Next]_Gen!vars PROVE Asked'
    OBVIOUS
<1>1. UNCHANGED req
    BY RequestStays
<1>2. /\ Gen!is_square' = Gen!is_square /\ (Gen!Banded' <=> Gen!Banded)
      /\ gpc' \notin {"start", "refused"} => (req.symmetric => Gen!is_square)
    BY <1>1, SameRequest DEF Asked, Gen!Next, Gen!vars, Gen!Begin, Gen!Refuse, Gen!DecideRow, Gen!DecideRowAndMirror,
           Gen!NextLoop, Gen!DecideMiddle, Gen!GoAstray, Gen!ReadUndecided, Gen!Emit, Gen!Convert,
           Gen!SymmetrizePattern, Gen!SymmetrizeRow, Gen!SymmetrizeDone
<1>. QED  BY <1>1, <1>2 DEF Asked

\* A row that is pending belongs to no row that is done, and neither does its partner.
LEMMA PendingFacts ==
    ASSUME Asked, Deciding, gpc = "decide"
    PROVE  /\ Gen!id_first \in Nat /\ Gen!id_first > 0 /\ Gen!r1 = Gen!id_first - 1 /\ Gen!r2 \in Nat
           /\ loop \in Nat /\ loop > 0 /\ loop < Len(Gen!Bounds)
           /\ Gen!Bounds[loop + 1] \in Nat
           /\ Gen!Bounds[loop + 1] <= IF req.symmetric THEN Gen!r2 ELSE Gen!id_first
           /\ 2 * Gen!r2 <= Gen!id_first /\ Gen!id_first <= 2 * Gen!r2 + 1
           /\ \A j \in pending :
                /\ j \in Nat /\ j < Gen!Bounds[loop + 1] /\ j \notin DOMAIN indices
                /\ req.symmetric => Gen!r1 - j # j /\ Gen!r1 - j \notin DOMAIN indices
<1>1. /\ req \in Requests /\ Gen!Banded /\ (req.symmetric => Gen!is_square)
      /\ loop \in 1 .. Len(Gen!Bounds) - 1 /\ pending \subseteq Gen!LoopRows(loop)
      /\ DOMAIN indices = RowsDone \cup Partners
    BY DEF Asked, Deciding
<1>2. /\ Len(Gen!Bounds) \in Nat
      /\ Gen!Bounds[Len(Gen!Bounds)] = IF req.symmetric THEN Gen!r2 ELSE Gen!id_first
      /\ \A l \in 1 .. Len(Gen!Bounds) : Gen!Bounds[l] \in Nat /\ Gen!Bounds[l] <= Gen!Bounds[Len(Gen!Bounds)]
    BY <1>1, LoopFacts
<1>3. /\ Gen!id_first \in Nat /\ Gen!id_first > 0 /\ Gen!r1 = Gen!id_first - 1
      /\ Gen!r2 \in Nat /\ 2 * Gen!r2 <= Gen!id_first /\ Gen!id_first <= 2 * Gen!r2 + 1
    BY <1>1, RequestFacts, Halves DEF Gen!r1, Gen!r2
<1>4. loop \in 1 .. Len(Gen!Bounds) /\ loop + 1 \in 1 .. Len(Gen!Bounds)
    BY <1>1, <1>2
<1>5. /\ Gen!Bounds[loop] \in Nat /\ Gen!Bounds[loop + 1] \in Nat
      /\ Gen!Bounds[loop + 1] <= IF req.symmetric THEN Gen!r2 ELSE Gen!id_first
    BY <1>2, <1>4
<1>6. ASSUME NEW j \in pending
      PROVE  /\ j \in Nat /\ j < Gen!Bounds[loop + 1] /\ j \notin DOMAIN indices
             /\ req.symmetric => Gen!r1 - j # j /\ Gen!r1 - j \notin DOMAIN indices
    <2>1. j \in Nat /\ j < Gen!Bounds[loop + 1] /\ j \notin RowsDone
        BY <1>1, <1>5 DEF Gen!LoopRows, RowsDone
    <2>2. CASE ~req.symmetric
        BY <1>1, <2>1, <2>2 DEF Partners
    <2>3. CASE req.symmetric
        <3>1. \A x \in RowsDone : x \in Nat /\ x < Gen!r2
            BY <1>3, <1>5, <2>3 DEF RowsDone
        <3>2. j < Gen!r2
            BY <1>3, <1>5, <2>1, <2>3
        <3>3. Gen!r1 - j >= Gen!r2 /\ Gen!r1 - j # j /\ Gen!r1 - j \notin RowsDone
            BY <1>3, <2>1, <3>1, <3>2
        <3>4. \A x \in RowsDone : Gen!r1 - x # j /\ Gen!r1 - x # Gen!r1 - j
            BY <1>3, <2>1, <3>1, <3>2
        <3>. QED  BY <1>1, <2>1, <3>3, <3>4 DEF Partners
    <2>. QED  BY <2>2, <2>3
<1>. QED  BY <1>1, <1>2, <1>3, <1>5, <1>6

LEMMA PutDomain ==
    ASSUME NEW f, NEW j, NEW x
    PROVE  DOMAIN Gen!Put(f, j, x) = DOMAIN f \cup {j}
BY DEF Gen!Put

-------------------------------------------------------------------------------
(* The steps that decide rows *)

LEMMA DecideRowStep ==
    ASSUME Asked, Deciding, Counted, Gen!DecideRow
    PROVE  Deciding' /\ Counted'
<1>a. PICK j \in pending :
        /\ \E one : indices' = Gen!Put(indices, j, one)
        /\ pending' = pending \ {j} /\ callocs' = callocs + 1
    BY Zenon DEF Gen!DecideRow
<1>b. DOMAIN indices' = DOMAIN indices \cup {j}
    BY <1>a, PutDomain
<1>1. gpc = "decide" /\ ~req.symmetric /\ UNCHANGED <<req, gpc, loop>>
    BY DEF Gen!DecideRow
<1>2. j \in Nat /\ j < Gen!Bounds[loop + 1] /\ j \notin DOMAIN indices /\ Gen!Bounds[loop + 1] \in Nat
    BY <1>1, PendingFacts
<1>3. Gen!Bounds' = Gen!Bounds /\ Gen!OddSymmetric' = Gen!OddSymmetric
    BY <1>1, SameRequest
<1>4. RowsDone' = RowsDone \cup {j}
    BY <1>a, <1>1, <1>2, <1>3 DEF RowsDone
<1>5. Partners' = {} /\ Partners = {}
    BY <1>1 DEF Partners
<1>6. Deciding'
    <2>1. pending' \subseteq Gen!LoopRows(loop)'
        BY <1>a, <1>1, SameRequest DEF Deciding
    <2>2. loop' \in 1 .. Len(Gen!Bounds)' - 1
        BY <1>1, <1>3 DEF Deciding
    <2>3. DOMAIN indices' = RowsDone' \cup Partners'
        BY <1>b, <1>1, <1>4, <1>5 DEF Deciding
    <2>. QED  BY <1>1, <1>3, <2>1, <2>2, <2>3 DEF Deciding, Gen!DecisionOver
<1>7. Counted'
    <2>1. /\ IsFiniteSet(DOMAIN indices \cup {j})
          /\ Cardinality(DOMAIN indices \cup {j}) = Cardinality(DOMAIN indices) + 1
        BY <1>2, FS_AddElement DEF Counted
    <2>. QED  BY <1>a, <1>b, <1>3, <2>1 DEF Counted
<1>. QED  BY <1>6, <1>7

LEMMA DecideRowAndMirrorStep ==
    ASSUME Asked, Deciding, Counted, Gen!DecideRowAndMirror
    PROVE  Deciding' /\ Counted'
<1>a. PICK j \in pending :
        /\ \E one, other : indices' = Gen!Put(Gen!Put(indices, j, one), Gen!r1 - j, other)
        /\ pending' = pending \ {j} /\ callocs' = callocs + 2
    BY Zenon DEF Gen!DecideRowAndMirror
<1>b. DOMAIN indices' = (DOMAIN indices \cup {j}) \cup {Gen!r1 - j}
    <2>1. PICK one, other : indices' = Gen!Put(Gen!Put(indices, j, one), Gen!r1 - j, other)
        BY <1>a
    <2>2. DOMAIN Gen!Put(Gen!Put(indices, j, one), Gen!r1 - j, other) =
            DOMAIN Gen!Put(indices, j, one) \cup {Gen!r1 - j}
        BY PutDomain
    <2>. QED  BY <2>1, <2>2, PutDomain
<1>1. gpc = "decide" /\ req.symmetric /\ UNCHANGED <<req, gpc, loop>>
    BY DEF Gen!DecideRowAndMirror
<1>2. /\ j \in Nat /\ j < Gen!Bounds[loop + 1] /\ Gen!Bounds[loop + 1] \in Nat
      /\ j \notin DOMAIN indices /\ Gen!r1 - j # j /\ Gen!r1 - j \notin DOMAIN indices
    BY <1>1, PendingFacts
<1>3. Gen!Bounds' = Gen!Bounds /\ Gen!OddSymmetric' = Gen!OddSymmetric /\ Gen!r1' = Gen!r1
    BY <1>1, SameRequest
<1>4. RowsDone' = RowsDone \cup {j}
    BY <1>a, <1>1, <1>2, <1>3 DEF RowsDone
<1>5. Partners' = Partners \cup {Gen!r1 - j}
    BY <1>1, <1>3, <1>4 DEF Partners
<1>6. Deciding'
    <2>1. pending' \subseteq Gen!LoopRows(loop)'
        BY <1>a, <1>1, SameRequest DEF Deciding
    <2>2. loop' \in 1 .. Len(Gen!Bounds)' - 1
        BY <1>1, <1>3 DEF Deciding
    <2>3. DOMAIN indices' = RowsDone' \cup Partners'
        BY <1>b, <1>1, <1>4, <1>5 DEF Deciding
    <2>. QED  BY <1>1, <1>3, <2>1, <2>2, <2>3 DEF Deciding, Gen!DecisionOver
<1>7. Counted'
    <2>. DEFINE one == DOMAIN indices \cup {j}
    <2>1. IsFiniteSet(DOMAIN indices) /\ Cardinality(DOMAIN indices) \in Nat
        BY FS_CardinalityType DEF Counted
    <2>2. IsFiniteSet(one) /\ Cardinality(one) = Cardinality(DOMAIN indices) + 1
        BY <1>2, <2>1, FS_AddElement
    <2>3. Gen!r1 - j \notin one
        BY <1>2
    <2>. HIDE DEF one
    <2>4. IsFiniteSet(one \cup {Gen!r1 - j}) /\ Cardinality(one \cup {Gen!r1 - j}) = Cardinality(one) + 1
        BY <2>2, <2>3, FS_AddElement
    <2>5. DOMAIN indices' = one \cup {Gen!r1 - j}
        BY <1>b DEF one
    <2>. QED  BY <1>a, <1>3, <2>1, <2>2, <2>4, <2>5 DEF Counted
<1>. QED  BY <1>6, <1>7

\* When nothing is pending the loop has done all rows up to its bound; after the
\* last loop that is every row, unless one is in the middle.
LEMMA NextLoopStep ==
    ASSUME Asked, Deciding, Counted, Gen!NextLoop
    PROVE  Deciding' /\ Counted'
<1>1. gpc = "decide" /\ pending = {} /\ UNCHANGED <<req, indices, callocs>>
    BY DEF Gen!NextLoop
<1>2. Gen!Bounds' = Gen!Bounds /\ Gen!OddSymmetric' = Gen!OddSymmetric /\ Gen!r1' = Gen!r1 /\ Gen!Rows' = Gen!Rows
    BY <1>1, SameRequest
<1>3. Counted'
    BY <1>1, <1>2 DEF Counted
<1>4. /\ req \in Requests /\ Gen!Banded /\ (req.symmetric => Gen!is_square) /\ loop \in 1 .. Len(Gen!Bounds) - 1
      /\ DOMAIN indices = RowsDone \cup Partners
    BY <1>1 DEF Asked, Deciding
<1>5. /\ Len(Gen!Bounds) \in Nat
      /\ Gen!Bounds[Len(Gen!Bounds)] = IF req.symmetric THEN Gen!r2 ELSE Gen!id_first
      /\ \A l \in 1 .. Len(Gen!Bounds) : Gen!Bounds[l] \in Nat
      /\ \A l \in 1 .. Len(Gen!Bounds) - 1 : Gen!Bounds[l] <= Gen!Bounds[l + 1]
    BY <1>4, LoopFacts
<1>6. RowsDone = 0 .. Gen!Bounds[loop + 1] - 1
    BY <1>1 DEF RowsDone
<1>7. CASE loop + 1 < Len(Gen!Bounds)
    <2>1. loop' = loop + 1 /\ pending' = Gen!LoopRows(loop + 1) /\ gpc' = "decide"
        BY <1>1, <1>7 DEF Gen!NextLoop
    <2>2. loop + 1 \in 1 .. Len(Gen!Bounds) - 1 /\ loop + 1 + 1 \in 1 .. Len(Gen!Bounds)
        BY <1>4, <1>5, <1>7
    <2>3. /\ Gen!Bounds[loop + 1] \in Nat /\ Gen!Bounds[loop + 1 + 1] \in Nat
          /\ Gen!Bounds[loop + 1] <= Gen!Bounds[loop + 1 + 1]
        BY <1>5, <2>2
    <2>4. RowsDone' = RowsDone
        BY <1>2, <1>6, <2>1, <2>3 DEF RowsDone, Gen!LoopRows
    <2>5. Partners' = Partners
        BY <1>1, <1>2, <2>4 DEF Partners
    <2>6. pending' = Gen!LoopRows(loop)'
        BY <1>1, <1>2, <2>1 DEF Gen!LoopRows
    <2>. QED  BY <1>1, <1>2, <1>3, <1>4, <2>1, <2>2, <2>4, <2>5, <2>6 DEF Deciding, Gen!DecisionOver
<1>8. CASE ~(loop + 1 < Len(Gen!Bounds))
    <2>1. gpc' = IF req.symmetric /\ Gen!id_first % 2 = 1 THEN "middle" ELSE "emit"
        BY <1>1, <1>8 DEF Gen!NextLoop
    <2>2. loop + 1 = Len(Gen!Bounds)
        BY <1>4, <1>5, <1>8
    <2>3. RowsDone = 0 .. (IF req.symmetric THEN Gen!r2 ELSE Gen!id_first) - 1
        BY <1>5, <1>6, <2>2
    <2>4. ASSUME ~Gen!OddSymmetric PROVE DOMAIN indices = Gen!Rows
        <3>1. CASE ~req.symmetric
            BY <1>4, <2>3, <3>1 DEF Partners, Gen!Rows
        <3>2. CASE req.symmetric
            <4>1. Gen!id_first \in Nat /\ Gen!r2 \in Nat /\ Gen!id_first = 2 * Gen!r2 /\ Gen!r1 = Gen!id_first - 1
                BY <1>4, <2>4, <3>2, RequestFacts, Halves DEF Gen!OddSymmetric, Gen!r1, Gen!r2
            <4>2. RowsDone = 0 .. Gen!r2 - 1
                BY <2>3, <3>2
            <4>3. Partners = Gen!r2 .. Gen!id_first - 1
                <5>1. \A y \in Gen!r2 .. Gen!id_first - 1 : Gen!r1 - y \in 0 .. Gen!r2 - 1 /\ Gen!r1 - (Gen!r1 - y) = y
                    BY <4>1
                <5>2. \A x \in 0 .. Gen!r2 - 1 : Gen!r1 - x \in Gen!r2 .. Gen!id_first - 1
                    BY <4>1
                <5>. QED  BY <3>2, <4>2, <5>1, <5>2 DEF Partners
            <4>. QED  BY <1>4, <4>1, <4>2, <4>3 DEF Gen!Rows
        <3>. QED  BY <3>1, <3>2
    <2>. QED  BY <1>1, <1>2, <1>3, <2>1, <2>4 DEF Deciding, Gen!DecisionOver, Gen!OddSymmetric
<1>. QED  BY <1>7, <1>8

LEMMA BeginStep ==
    ASSUME Asked, Deciding, Counted, Gen!Begin
    PROVE  Deciding' /\ Counted'
<1>1. /\ gpc = "start" /\ gpc' = "decide" /\ loop' = 1 /\ pending' = Gen!LoopRows(1)
      /\ UNCHANGED <<req, indices, callocs>> /\ ~(req.symmetric /\ ~Gen!is_square)
    BY DEF Gen!Begin
<1>2. /\ Gen!Bounds' = Gen!Bounds /\ Gen!OddSymmetric' = Gen!OddSymmetric
      /\ \A l : Gen!LoopRows(l)' = Gen!LoopRows(l)
    BY <1>1, SameRequest
<1>3. /\ Len(Gen!Bounds) \in Nat /\ Len(Gen!Bounds) > 1 /\ Gen!Bounds[1] = 0
      /\ \A l \in 1 .. Len(Gen!Bounds) : Gen!Bounds[l] \in Nat
    BY <1>1, LoopFacts DEF Asked
<1>4. Gen!Bounds[2] \in Nat /\ 1 + 1 = 2
    BY <1>3
<1>5. RowsDone' = {}
    BY <1>1, <1>2, <1>3, <1>4 DEF RowsDone, Gen!LoopRows
<1>6. Partners' = {} /\ DOMAIN indices' = {}
    BY <1>1, <1>5 DEF Partners, Deciding
<1>7. pending' = Gen!LoopRows(loop)'
    BY <1>1, <1>2 DEF Gen!LoopRows
<1>8. loop' \in 1 .. Len(Gen!Bounds)' - 1
    BY <1>1, <1>2, <1>3
<1>. QED  BY <1>1, <1>2, <1>5, <1>6, <1>7, <1>8 DEF Deciding, Counted, Gen!DecisionOver

LEMMA DecideMiddleStep ==
    ASSUME Asked, Deciding, Counted, Gen!DecideMiddle
    PROVE  Deciding' /\ Counted'
<1>1. PICK j, one, other : indices' = Gen!Put(Gen!Put(indices, j, one), Gen!r1 - j, other)
    BY Zenon DEF Gen!DecideMiddle
<1>2. gpc = "middle" /\ gpc' = "emit" /\ UNCHANGED req
    BY DEF Gen!DecideMiddle
<1>3. Gen!OddSymmetric'
    BY <1>2, SameRequest DEF Deciding
<1>4. DOMAIN indices' = (DOMAIN indices \cup {j}) \cup {Gen!r1 - j}
    <2>1. DOMAIN Gen!Put(Gen!Put(indices, j, one), Gen!r1 - j, other) =
            DOMAIN Gen!Put(indices, j, one) \cup {Gen!r1 - j}
        BY PutDomain
    <2>. QED  BY <1>1, <2>1, PutDomain
<1>5. IsFiniteSet(DOMAIN indices')
    <2>1. IsFiniteSet(DOMAIN indices \cup {j})
        BY FS_AddElement DEF Counted
    <2>2. IsFiniteSet((DOMAIN indices \cup {j}) \cup {Gen!r1 - j})
        BY <2>1, FS_AddElement
    <2>. QED  BY <1>4, <2>2
<1>. QED  BY <1>2, <1>3, <1>5 DEF Deciding, Counted

DInv == Asked /\ Deciding /\ Counted

LEMMA DInvInit == Gen!Init /\ Gen!Banded => DInv
<1>. SUFFICES ASSUME Gen!Init, Gen!Banded PROVE DInv
    OBVIOUS
<1>1. DOMAIN indices = {} /\ callocs = 0 /\ gpc = "start" /\ req \in Requests
    BY DEF Gen!Init
<1>2. IsFiniteSet({}) /\ Cardinality({}) = 0
    BY FS_EmptySet
<1>. QED  BY <1>1, <1>2 DEF DInv, Asked, Deciding, Counted, Gen!DecisionOver

LEMMA DInvStep == DInv /\ [Gen!Next]_Gen!vars => DInv'
<1>. SUFFICES ASSUME DInv, [Gen!Next]_Gen!vars PROVE DInv'
    OBVIOUS
<1>1. Asked'
    BY AskedStep DEF DInv
<1>2. CASE Gen!Begin
    BY <1>1, <1>2, BeginStep DEF DInv
<1>3. CASE Gen!DecideRow
    BY <1>1, <1>3, DecideRowStep DEF DInv
<1>4. CASE Gen!DecideRowAndMirror
    BY <1>1, <1>4, DecideRowAndMirrorStep DEF DInv
<1>5. CASE Gen!NextLoop
    BY <1>1, <1>5, NextLoopStep DEF DInv
<1>6. CASE Gen!DecideMiddle
    BY <1>1, <1>6, DecideMiddleStep DEF DInv
<1>7. ASSUME UNCHANGED <<req, indices, callocs>>,
             \/ gpc' = "undefined"
             \/ gpc = "start" /\ gpc' = "refused"
             \/ Gen!DecisionOver /\ Gen!DecisionOver'
      PROVE  DInv'
    BY <1>1, <1>7, SameRequest DEF DInv, Deciding, Counted, Gen!DecisionOver
<1>8. CASE UNCHANGED Gen!vars
    <2>1. UNCHANGED <<req, gpc, loop, pending, indices, callocs>>
        BY <1>8 DEF Gen!vars, Gen!deciding
    <2>2. /\ Gen!Bounds' = Gen!Bounds /\ Gen!OddSymmetric' = Gen!OddSymmetric /\ Gen!Rows' = Gen!Rows /\ Gen!r1' = Gen!r1
          /\ Gen!LoopRows(loop)' = Gen!LoopRows(loop)
        BY <2>1, SameRequest DEF Gen!LoopRows
    <2>3. RowsDone' = RowsDone /\ Partners' = Partners
        BY <2>1, <2>2 DEF RowsDone, Partners
    <2>. QED  BY <1>1, <2>1, <2>2, <2>3 DEF DInv, Deciding, Counted, Gen!DecisionOver
<1>9. CASE Gen!Refuse
    BY <1>7, <1>9 DEF Gen!Refuse, Gen!deciding, Gen!DecisionOver
<1>10. CASE Gen!ReadUndecided \/ Gen!GoAstray
    BY <1>7, <1>10 DEF Gen!ReadUndecided, Gen!GoAstray, Gen!deciding, Gen!DecisionOver
<1>11. CASE Gen!Emit
    BY <1>7, <1>11 DEF Gen!Emit, Gen!deciding, Gen!DecisionOver
<1>12. CASE Gen!Convert
    BY <1>7, <1>12 DEF Gen!Convert, Gen!deciding, Gen!DecisionOver
<1>13. CASE Gen!SymmetrizePattern
    BY <1>7, <1>13 DEF Gen!SymmetrizePattern, Gen!deciding, Gen!DecisionOver
<1>14. CASE Gen!SymmetrizeRow
    BY <1>7, <1>14 DEF Gen!SymmetrizeRow, Gen!deciding, Gen!DecisionOver
<1>15. CASE Gen!SymmetrizeDone
    BY <1>7, <1>15 DEF Gen!SymmetrizeDone, Gen!deciding, Gen!DecisionOver
<1>. QED
    BY <1>2, <1>3, <1>4, <1>5, <1>6, <1>8, <1>9, <1>10, <1>11, <1>12, <1>13, <1>14, <1>15 DEF Gen!Next

LEMMA IntervalInside ==
    ASSUME NEW a \in Int, NEW b \in Int, NEW n \in Nat, 0 <= a, b < n,
           NEW lo \in Int, NEW hi \in Int, lo <= a, b <= hi
    PROVE  (a <= b => a .. b # {}) /\ a .. b \subseteq 0 .. n - 1 /\ a .. b \subseteq lo .. hi
<1>1. a <= b => a .. b # {}
    <2>1. a <= b => a \in a .. b
        OBVIOUS
    <2>. QED  BY <2>1
<1>2. a .. b \subseteq 0 .. n - 1 /\ a .. b \subseteq lo .. hi
    OBVIOUS
<1>. QED  BY <1>1, <1>2

\* For every shape and every bandwidth the loops share the rows out among the
\* threads: each row is allocated once, none is left over, and no two iterations
\* reach the same row, whichever thread is first.
LEMMA DecidedOnce == DInv => Gen!RowsDecidedOnce
<1>. SUFFICES ASSUME DInv, ~Gen!OddSymmetric PROVE
         /\ callocs = Cardinality(DOMAIN indices)
         /\ Gen!DecisionOver => DOMAIN indices = Gen!Rows /\ callocs = Gen!id_first
         /\ gpc = "decide" => pending \cap DOMAIN indices = {}
    BY DEF Gen!RowsDecidedOnce, Gen!Cardinality, Cardinality
<1>1. callocs = Cardinality(DOMAIN indices)
    BY DEF DInv, Counted
<1>2. gpc = "decide" => pending \cap DOMAIN indices = {}
    BY PendingFacts DEF DInv
<1>3. Gen!id_first \in Nat /\ Gen!id_first > 0
    BY RequestFacts DEF DInv, Asked
<1>4. Cardinality(Gen!Rows) = Gen!id_first
    <2>1. Cardinality(0 .. Gen!id_first - 1) = IF 0 > Gen!id_first - 1 THEN 0 ELSE (Gen!id_first - 1) - 0 + 1
        BY <1>3, FS_Interval
    <2>. QED  BY <1>3, <2>1 DEF Gen!Rows
<1>5. Gen!DecisionOver => DOMAIN indices = Gen!Rows
    BY DEF DInv, Deciding
<1>. QED  BY <1>1, <1>2, <1>4, <1>5

\* For every shape and every band in the matrix each column that may be drawn is
\* one of the matrix and within the band, and there is one to draw when there is
\* a diagonal above the main one: the five window computations.
LEMMA WindowFacts ==
    ASSUME Asked, Deciding, gpc = "decide", NEW j \in pending
    PROVE  /\ (Gen!is_square => Gen!up > 0) => Gen!Window(j) # {}
           /\ Gen!Window(j) \subseteq 0 .. Gen!id_second - 1
           /\ Gen!is_square => Gen!Window(j) \subseteq j - Gen!low .. j + Gen!up
<1>1. /\ req \in Requests /\ Gen!Banded /\ (req.symmetric => Gen!is_square)
      /\ loop \in 1 .. Len(Gen!Bounds) - 1 /\ j \in Gen!Bounds[loop] .. Gen!Bounds[loop + 1] - 1
    BY DEF Asked, Deciding, Gen!LoopRows
<1>2. /\ Gen!id_first \in Nat /\ Gen!id_first > 0 /\ Gen!id_second \in Nat /\ Gen!id_second > 0
      /\ Gen!is_square => /\ Gen!id_second = Gen!id_first
                      /\ Gen!low \in Nat /\ Gen!low < Gen!id_first
                      /\ Gen!up \in Nat /\ Gen!up < Gen!id_first
      /\ req.symmetric => Gen!up = Gen!low
    BY <1>1, RequestFacts DEF Gen!up, Gen!low
<1>3. Gen!r2 \in Nat /\ 2 * Gen!r2 <= Gen!id_first /\ Gen!id_first <= 2 * Gen!r2 + 1
    BY <1>2, Halves DEF Gen!r2
<1>4. CASE ~Gen!is_square
    <2>1. Gen!Distribution = "rectangular" /\ Gen!Bounds = <<0, Gen!id_first>>
        BY <1>4 DEF Gen!Bounds, Gen!Distribution
    <2>2. loop = 1
        BY <1>1, <2>1
    <2>3. Gen!Window(j) = 0 .. Gen!id_second - 1
        BY <2>1, <2>2 DEF Gen!Window, Gen!Windows
    <2>4. 0 \in 0 .. Gen!id_second - 1
        BY <1>2
    <2>. QED  BY <1>4, <2>3, <2>4
<1>5. CASE Gen!is_square /\ req.symmetric /\ Gen!low < Gen!r2
    <2>1. Gen!Distribution = "sym1" /\ Gen!Bounds = <<0, Gen!low, Gen!r2>>
        BY <1>5 DEF Gen!Bounds, Gen!Distribution
    <2>2. CASE loop = 1
        <3>1. Gen!Window(j) = 0 .. j + Gen!low - 1 /\ j \in 0 .. Gen!low - 1
            BY <1>1, <2>1, <2>2 DEF Gen!Window, Gen!Windows
        <3>2. /\ 0 \in Int /\ j + Gen!low - 1 \in Int /\ 0 <= 0
             /\ (Gen!up > 0 => 0 <= j + Gen!low - 1) /\ j + Gen!low - 1 < Gen!id_second
            BY <1>2, <1>3, <1>5, <3>1
        <3>3. j - Gen!low \in Int /\ j + Gen!up \in Int /\ j - Gen!low <= 0 /\ j + Gen!low - 1 <= j + Gen!up
            BY <1>2, <1>3, <1>5, <3>1 DEF Gen!ru, Gen!rl
        <3>. QED  BY <1>2, <1>5, <3>1, <3>2, <3>3, IntervalInside
    <2>3. CASE loop = 2
        <3>1. Gen!Window(j) = j - Gen!low .. j + Gen!low - 1 /\ j \in Gen!low .. Gen!r2 - 1
            BY <1>1, <2>1, <2>3 DEF Gen!Window, Gen!Windows
        <3>2. /\ j - Gen!low \in Int /\ j + Gen!low - 1 \in Int
             /\ 0 <= j - Gen!low /\ (Gen!up > 0 => j - Gen!low <= j + Gen!low - 1) /\ j + Gen!low - 1 < Gen!id_second
            BY <1>2, <1>3, <1>5, <3>1
        <3>3. j - Gen!low \in Int /\ j + Gen!up \in Int /\ j - Gen!low <= j - Gen!low /\ j + Gen!low - 1 <= j + Gen!up
            BY <1>2, <1>3, <1>5, <3>1 DEF Gen!ru, Gen!rl
        <3>. QED  BY <1>2, <1>5, <3>1, <3>2, <3>3, IntervalInside
    <2>. QED  BY <1>1, <2>1, <2>2, <2>3
<1>6. CASE Gen!is_square /\ req.symmetric /\ ~(Gen!low < Gen!r2)
    <2>1. Gen!Distribution = "sym2" /\ Gen!Bounds = <<0, Gen!rl - 1, Gen!r2>>
        BY <1>6 DEF Gen!Bounds, Gen!Distribution
    <2>2. CASE loop = 1
        <3>1. Gen!Window(j) = 0 .. j + Gen!low - 1 /\ j \in 0 .. Gen!rl - 1 - 1
            BY <1>1, <2>1, <2>2 DEF Gen!Window, Gen!Windows
        <3>2. /\ 0 \in Int /\ j + Gen!low - 1 \in Int /\ 0 <= 0
             /\ (Gen!up > 0 => 0 <= j + Gen!low - 1) /\ j + Gen!low - 1 < Gen!id_second
            BY <1>2, <1>6, <3>1 DEF Gen!rl
        <3>3. j - Gen!low \in Int /\ j + Gen!up \in Int /\ j - Gen!low <= 0 /\ j + Gen!low - 1 <= j + Gen!up
            BY <1>2, <1>3, <1>6, <3>1 DEF Gen!ru, Gen!rl
        <3>. QED  BY <1>2, <1>6, <3>1, <3>2, <3>3, IntervalInside
    <2>3. CASE loop = 2
        <3>1. Gen!Window(j) = 0 .. Gen!id_first - 1 /\ j \in Gen!rl - 1 .. Gen!r2 - 1
            BY <1>1, <2>1, <2>3 DEF Gen!Window, Gen!Windows, Gen!Rows
        <3>2. /\ 0 \in Int /\ Gen!id_first - 1 \in Int /\ 0 <= 0
             /\ (Gen!up > 0 => 0 <= Gen!id_first - 1) /\ Gen!id_first - 1 < Gen!id_second
            BY <1>2, <1>6, <3>1
        <3>3. j - Gen!low \in Int /\ j + Gen!up \in Int /\ j - Gen!low <= 0 /\ Gen!id_first - 1 <= j + Gen!up
            BY <1>2, <1>3, <1>6, <3>1 DEF Gen!ru, Gen!rl
        <3>. QED  BY <1>2, <1>6, <3>1, <3>2, <3>3, IntervalInside
    <2>. QED  BY <1>1, <2>1, <2>2, <2>3
<1>7. CASE Gen!is_square /\ ~req.symmetric /\ Gen!low > Gen!ru
    <2>1. Gen!Distribution = "square1" /\ Gen!Bounds = <<0, Gen!ru, Gen!low, Gen!id_first>>
        BY <1>7 DEF Gen!Bounds, Gen!Distribution
    <2>2. CASE loop = 1
        <3>1. Gen!Window(j) = 0 .. j + Gen!up - 1 /\ j \in 0 .. Gen!ru - 1
            BY <1>1, <2>1, <2>2 DEF Gen!Window, Gen!Windows
        <3>2. /\ 0 \in Int /\ j + Gen!up - 1 \in Int /\ 0 <= 0
             /\ (Gen!up > 0 => 0 <= j + Gen!up - 1) /\ j + Gen!up - 1 < Gen!id_second
            BY <1>2, <1>7, <3>1 DEF Gen!ru
        <3>3. j - Gen!low \in Int /\ j + Gen!up \in Int /\ j - Gen!low <= 0 /\ j + Gen!up - 1 <= j + Gen!up
            BY <1>2, <1>3, <1>7, <3>1 DEF Gen!ru, Gen!rl
        <3>. QED  BY <1>2, <1>7, <3>1, <3>2, <3>3, IntervalInside
    <2>3. CASE loop = 2
        <3>1. Gen!Window(j) = 0 .. Gen!id_first - 1 /\ j \in Gen!ru .. Gen!low - 1
            BY <1>1, <2>1, <2>3 DEF Gen!Window, Gen!Windows, Gen!Rows
        <3>2. /\ 0 \in Int /\ Gen!id_first - 1 \in Int /\ 0 <= 0
             /\ (Gen!up > 0 => 0 <= Gen!id_first - 1) /\ Gen!id_first - 1 < Gen!id_second
            BY <1>2, <1>7, <3>1
        <3>3. j - Gen!low \in Int /\ j + Gen!up \in Int /\ j - Gen!low <= 0 /\ Gen!id_first - 1 <= j + Gen!up
            BY <1>2, <1>3, <1>7, <3>1 DEF Gen!ru, Gen!rl
        <3>. QED  BY <1>2, <1>7, <3>1, <3>2, <3>3, IntervalInside
    <2>4. CASE loop = 3
        <3>1. Gen!Window(j) = j - Gen!low .. Gen!id_first - 1 /\ j \in Gen!low .. Gen!id_first - 1
            BY <1>1, <2>1, <2>4 DEF Gen!Window, Gen!Windows
        <3>2. /\ j - Gen!low \in Int /\ Gen!id_first - 1 \in Int
             /\ 0 <= j - Gen!low /\ (Gen!up > 0 => j - Gen!low <= Gen!id_first - 1) /\ Gen!id_first - 1 < Gen!id_second
            BY <1>2, <1>7, <3>1
        <3>3. j - Gen!low \in Int /\ j + Gen!up \in Int /\ j - Gen!low <= j - Gen!low /\ Gen!id_first - 1 <= j + Gen!up
            BY <1>2, <1>3, <1>7, <3>1 DEF Gen!ru, Gen!rl
        <3>. QED  BY <1>2, <1>7, <3>1, <3>2, <3>3, IntervalInside
    <2>. QED  BY <1>1, <2>1, <2>2, <2>3, <2>4
<1>8. CASE Gen!is_square /\ ~req.symmetric /\ ~(Gen!low > Gen!ru)
    <2>1. Gen!Distribution = "square2" /\ Gen!Bounds = <<0, Gen!low, Gen!ru, Gen!id_first>>
        BY <1>8 DEF Gen!Bounds, Gen!Distribution
    <2>2. CASE loop = 1
        <3>1. Gen!Window(j) = 0 .. j + Gen!up - 1 /\ j \in 0 .. Gen!low - 1
            BY <1>1, <2>1, <2>2 DEF Gen!Window, Gen!Windows
        <3>2. /\ 0 \in Int /\ j + Gen!up - 1 \in Int /\ 0 <= 0
             /\ (Gen!up > 0 => 0 <= j + Gen!up - 1) /\ j + Gen!up - 1 < Gen!id_second
            BY <1>2, <1>8, <3>1 DEF Gen!ru
        <3>3. j - Gen!low \in Int /\ j + Gen!up \in Int /\ j - Gen!low <= 0 /\ j + Gen!up - 1 <= j + Gen!up
            BY <1>2, <1>3, <1>8, <3>1 DEF Gen!ru, Gen!rl
        <3>. QED  BY <1>2, <1>8, <3>1, <3>2, <3>3, IntervalInside
    <2>3. CASE loop = 2
        <3>1. Gen!Window(j) = j - Gen!low .. j + Gen!up - 1 /\ j \in Gen!low .. Gen!ru - 1
            BY <1>1, <2>1, <2>3 DEF Gen!Window, Gen!Windows
        <3>2. /\ j - Gen!low \in Int /\ j + Gen!up - 1 \in Int
             /\ 0 <= j - Gen!low /\ (Gen!up > 0 => j - Gen!low <= j + Gen!up - 1) /\ j + Gen!up - 1 < Gen!id_second
            BY <1>2, <1>8, <3>1 DEF Gen!ru
        <3>3. j - Gen!low \in Int /\ j + Gen!up \in Int /\ j - Gen!low <= j - Gen!low /\ j + Gen!up - 1 <= j + Gen!up
            BY <1>2, <1>3, <1>8, <3>1 DEF Gen!ru, Gen!rl
        <3>. QED  BY <1>2, <1>8, <3>1, <3>2, <3>3, IntervalInside
    <2>4. CASE loop = 3
        <3>1. Gen!Window(j) = j - Gen!low .. Gen!id_first - 1 /\ j \in Gen!ru .. Gen!id_first - 1
            BY <1>1, <2>1, <2>4 DEF Gen!Window, Gen!Windows
        <3>2. /\ j - Gen!low \in Int /\ Gen!id_first - 1 \in Int
             /\ 0 <= j - Gen!low /\ (Gen!up > 0 => j - Gen!low <= Gen!id_first - 1) /\ Gen!id_first - 1 < Gen!id_second
            BY <1>2, <1>8, <3>1 DEF Gen!ru
        <3>3. j - Gen!low \in Int /\ j + Gen!up \in Int /\ j - Gen!low <= j - Gen!low /\ Gen!id_first - 1 <= j + Gen!up
            BY <1>2, <1>3, <1>8, <3>1 DEF Gen!ru, Gen!rl
        <3>. QED  BY <1>2, <1>8, <3>1, <3>2, <3>3, IntervalInside
    <2>. QED  BY <1>1, <2>1, <2>2, <2>3, <2>4
<1>. QED  BY <1>4, <1>5, <1>6, <1>7, <1>8

-------------------------------------------------------------------------------
(* What the generator draws *)

LEMMA AscendingIs ==
    ASSUME NEW S
    PROVE  Gen!Ascending(S) =
             [p \in 1 .. Cardinality(S) |-> CHOOSE x \in S : Cardinality({y \in S : y < x}) = p - 1]
BY DEF Gen!Ascending, Gen!Cardinality, Cardinality

\* The scan meets every mark: the ranks of the marks are all different, so they
\* are all the ranks there are.
LEMMA AscendingFacts ==
    ASSUME NEW S \in SUBSET Nat, IsFiniteSet(S)
    PROVE  /\ Cardinality(S) \in Nat /\ Len(Gen!Ascending(S)) = Cardinality(S)
           /\ DOMAIN Gen!Ascending(S) = 1 .. Cardinality(S)
           /\ \A p \in 1 .. Cardinality(S) : Gen!Ascending(S)[p] \in S
<1>. DEFINE Smaller(x) == {y \in S : y < x}
            rank == [x \in S |-> Cardinality(Smaller(x))]
            n == Cardinality(S)
<1>1. n \in Nat
    BY FS_CardinalityType
<1>2. ASSUME NEW x \in S PROVE IsFiniteSet(Smaller(x)) /\ Cardinality(Smaller(x)) \in 0 .. n - 1
    <2>1. Smaller(x) \in SUBSET S /\ x \notin Smaller(x)
        OBVIOUS
    <2>2. /\ IsFiniteSet(Smaller(x)) /\ Cardinality(Smaller(x)) <= n
          /\ n = Cardinality(Smaller(x)) => S = Smaller(x)
        BY <2>1, FS_Subset
    <2>3. Cardinality(Smaller(x)) \in Nat
        BY <2>2, FS_CardinalityType
    <2>. HIDE DEF Smaller, n
    <2>. QED  BY <1>1, <2>1, <2>2, <2>3
<1>3. ASSUME NEW x \in S, NEW y \in S, x < y PROVE Cardinality(Smaller(x)) < Cardinality(Smaller(y))
    <2>1. Smaller(x) \in SUBSET Smaller(y) /\ x \in Smaller(y) /\ x \notin Smaller(x)
        <3>1. \A z \in S : z < x => z < y
            BY <1>3
        <3>2. ~(x < x)
            OBVIOUS
        <3>. QED  BY <1>3, <3>1, <3>2, Zenon
    <2>2. /\ Cardinality(Smaller(x)) <= Cardinality(Smaller(y))
          /\ Cardinality(Smaller(y)) = Cardinality(Smaller(x)) => Smaller(y) = Smaller(x)
        BY <1>2, <2>1, FS_Subset
    <2>3. Cardinality(Smaller(x)) \in Int /\ Cardinality(Smaller(y)) \in Int
        BY <1>2
    <2>. HIDE DEF Smaller, n
    <2>. QED  BY <2>1, <2>2, <2>3
<1>4. rank \in Injection(S, 0 .. n - 1)
    <2>1. rank \in [S -> 0 .. n - 1]
        BY <1>2
    <2>2. ASSUME NEW x \in S, NEW y \in S, x # y PROVE rank[x] # rank[y]
        <3>1. x < y \/ y < x
            BY <2>2
        <3>2. rank[x] \in Int /\ rank[y] \in Int
            BY <1>2
        <3>3. rank[x] < rank[y] \/ rank[y] < rank[x]
            BY <1>3, <3>1
        <3>. HIDE DEF rank
        <3>. QED  BY <3>2, <3>3
    <2>. HIDE DEF rank
    <2>. QED  BY <2>1, <2>2 DEF Injection, IsInjective
<1>5. IsFiniteSet(0 .. n - 1) /\ Cardinality(0 .. n - 1) = n
    <2>1. IsFiniteSet(0 .. n - 1) /\ Cardinality(0 .. n - 1) = IF 0 > n - 1 THEN 0 ELSE (n - 1) - 0 + 1
        <3>. HIDE DEF n
        <3>. QED  BY <1>1, FS_Interval
    <2>. HIDE DEF n
    <2>. QED  BY <1>1, <2>1
<1>6. \A r \in 0 .. n - 1 : \E x \in S : rank[x] = r
    <2>1. rank \in Surjection(S, 0 .. n - 1)
        BY <1>4, <1>5, FS_Injection
    <2>. HIDE DEF rank, n
    <2>. QED  BY <2>1 DEF Surjection
<1>7. \A p \in 1 .. n : (CHOOSE x \in S : Cardinality(Smaller(x)) = p - 1) \in S
    <2>. SUFFICES ASSUME NEW p \in 1 .. n PROVE (CHOOSE x \in S : Cardinality(Smaller(x)) = p - 1) \in S
        OBVIOUS
    <2>1. p - 1 \in 0 .. n - 1
        BY <1>1
    <2>2. \E x \in S : Cardinality(Smaller(x)) = p - 1
        BY <1>6, <2>1
    <2>. HIDE DEF Smaller
    <2>. QED  BY <2>2
<1>8. Gen!Ascending(S) = [p \in 1 .. n |-> CHOOSE x \in S : Cardinality(Smaller(x)) = p - 1]
    BY AscendingIs
<1>9. DOMAIN Gen!Ascending(S) = 1 .. n /\ \A p \in 1 .. n : Gen!Ascending(S)[p] \in S
    <2>. HIDE DEF Smaller, n
    <2>. QED  BY <1>7, <1>8
<1>10. Len(Gen!Ascending(S)) = n
    <2>. HIDE DEF Smaller, n
    <2>1. Gen!Ascending(S) \in [1 .. n -> S]
        BY <1>7, <1>8
    <2>. HIDE DEF Smaller, n
    <2>. QED  BY <1>1, <1>9, <2>1
<1>. QED  BY <1>1, <1>9, <1>10

\* A column of the matrix, in the band of row j when there is one.
Inside(j, x) ==
    /\ x \in 0 .. Gen!id_second - 1
    /\ Gen!is_square => j - Gen!low <= x /\ x <= j + Gen!up

\* A row holds no more than was allocated for it, all of it inside.
Fits(j, block, degree) ==
    /\ degree <= Cardinality(DOMAIN block)
    /\ \A x \in 0 .. degree - 1 : Inside(j, block[x])

AllFit(blocks, lengths) ==
    \A j \in DOMAIN blocks : j \in DOMAIN lengths /\ Fits(j, blocks[j], lengths[j])
Drawn == ~Gen!OddSymmetric => AllFit(indices, degrees)

LEMMA BlockFits ==
    ASSUME NEW j, NEW d \in Int, NEW list, Len(list) \in Nat, Len(list) <= d,
           \A p \in 1 .. Len(list) : Inside(j, list[p])
    PROVE  Fits(j, Gen!Block(d, list), Len(list))
<1>1. /\ DOMAIN Gen!Block(d, list) = 0 .. d - 1
      /\ \A x \in 0 .. d - 1 : x < Len(list) => Gen!Block(d, list)[x] = list[x + 1]
    BY DEF Gen!Block
<1>2. Cardinality(0 .. d - 1) = d
    <2>1. Cardinality(0 .. d - 1) = IF 0 > d - 1 THEN 0 ELSE (d - 1) - 0 + 1
        BY FS_Interval
    <2>. QED  BY <2>1
<1>3. ASSUME NEW x \in 0 .. Len(list) - 1 PROVE Inside(j, Gen!Block(d, list)[x])
    <2>1. x \in 0 .. d - 1 /\ x < Len(list) /\ x + 1 \in 1 .. Len(list)
        OBVIOUS
    <2>2. Gen!Block(d, list)[x] = list[x + 1]
        BY <1>1, <2>1
    <2>. QED  BY <2>1, <2>2
<1>. QED  BY <1>1, <1>2, <1>3 DEF Fits

LEMMA DegreesAreNumbers ==
    ASSUME req \in Requests
    PROVE  Gen!Degrees \subseteq Nat
<1>1. req.max \in Nat /\ req.min \in Nat
    BY RequestsAssumption DEF Gen!RequestsFit, Gen!RequestType
<1>2. Gen!id_second - 1 \in Nat
    BY RequestFacts
<1>3. Gen!max_degree \in Nat
    <2>. DEFINE a == req.max
                b == Gen!id_second - 1
    <2>1. \E x \in {a, b} : \A y \in {a, b} : x <= y
        BY <1>1, <1>2
    <2>. HIDE DEF a, b
    <2>2. Gen!Min({a, b}) \in {a, b}
        BY <2>1 DEF Gen!Min
    <2>. QED  BY <1>1, <1>2, <2>2 DEF a, b, Gen!max_degree
<1>. QED  BY <1>1, <1>3 DEF Gen!Degrees

\* The marks of row j, and row j itself, are where they may be, and can be scanned.
LEMMA MarksFacts ==
    ASSUME Asked, Deciding, gpc = "decide", NEW j \in pending, NEW n \in Nat,
           NEW marks \in Gen!Marks(n, Gen!Window(j))
    PROVE  /\ j \in Nat /\ j < Gen!id_first /\ (Gen!is_square => Inside(j, j))
           /\ marks \in SUBSET Nat /\ \A x \in marks : Inside(j, x)
           /\ IsFiniteSet(marks) /\ Cardinality(marks) \in Nat /\ Cardinality(marks) <= n
<1>1. marks \in SUBSET Gen!Window(j) /\ (n = 0 => marks = {}) /\ (n > 0 => Cardinality(marks) <= n)
    BY DEF Gen!Marks, Gen!Cardinality, Cardinality
<1>2. /\ Gen!Window(j) \subseteq 0 .. Gen!id_second - 1
      /\ Gen!is_square => Gen!Window(j) \subseteq j - Gen!low .. j + Gen!up
    BY WindowFacts
<1>3. /\ Gen!id_second \in Nat /\ Gen!id_first \in Nat
      /\ Gen!is_square => Gen!id_second = Gen!id_first /\ Gen!low \in Nat /\ Gen!up \in Nat
    BY RequestFacts DEF Asked
<1>4. IsFiniteSet(marks) /\ Cardinality(marks) \in Nat
    <2>1. IsFiniteSet(0 .. Gen!id_second - 1)
        BY <1>3, FS_Interval
    <2>2. marks \in SUBSET (0 .. Gen!id_second - 1)
        BY <1>1, <1>2
    <2>3. IsFiniteSet(marks)
        BY <2>1, <2>2, FS_Subset
    <2>. QED  BY <2>3, FS_CardinalityType
<1>5. j \in Nat /\ j < Gen!id_first
    <2>1. /\ j \in Nat /\ j < Gen!Bounds[loop + 1] /\ Gen!Bounds[loop + 1] \in Nat /\ Gen!r2 \in Nat
          /\ Gen!Bounds[loop + 1] <= IF req.symmetric THEN Gen!r2 ELSE Gen!id_first
          /\ 2 * Gen!r2 <= Gen!id_first
        BY PendingFacts
    <2>. QED  BY <1>3, <2>1
<1>6. Gen!is_square => Inside(j, j)
    BY <1>3, <1>5 DEF Inside
<1>7. marks \in SUBSET Nat /\ Cardinality(marks) <= n
    <2>1. Cardinality({}) = 0
        BY FS_EmptySet
    <2>2. marks \in SUBSET (0 .. Gen!id_second - 1)
        BY <1>1, <1>2
    <2>3. marks \in SUBSET Nat
        BY <2>2
    <2>4. Cardinality(marks) <= n
        BY ONLY <1>1, <2>1, n \in Nat
    <2>. QED  BY ONLY <2>3, <2>4
<1>8. \A x \in marks : Inside(j, x)
    <2>. SUFFICES ASSUME NEW x \in marks PROVE Inside(j, x)
        OBVIOUS
    <2>1. x \in 0 .. Gen!id_second - 1
        BY <1>1, <1>2
    <2>2. Gen!is_square => x \in j - Gen!low .. j + Gen!up
        BY <1>1, <1>2
    <2>. QED  BY <1>3, <1>5, <2>1, <2>2 DEF Inside
<1>. QED  BY <1>1, <1>4, <1>5, <1>6, <1>7, <1>8

\* Fitting only depends on the request and on the rows that are decided.
LEMMA SameFits ==
    ASSUME UNCHANGED req
    PROVE  /\ \A blocks, lengths : AllFit(blocks, lengths)' <=> AllFit(blocks, lengths)
           /\ Gen!OddSymmetric' <=> Gen!OddSymmetric
BY SameRequest DEF AllFit, Fits, Inside, Gen!low, Gen!up

LEMMA DrawnStays == ASSUME Drawn, UNCHANGED <<req, indices, degrees>> PROVE Drawn'
BY SameRequest DEF Drawn, AllFit, Fits, Inside, Gen!low, Gen!up

LEMMA DrawnBecomes ==
    ASSUME UNCHANGED req, NEW blocks, NEW lengths, ~Gen!OddSymmetric => AllFit(blocks, lengths),
           indices' = blocks, degrees' = lengths
    PROVE  Drawn'
BY SameFits DEF Drawn

\* What is put into place at a row leaves the others as they were.
LEMMA PutFits ==
    ASSUME NEW blocks, NEW lengths, AllFit(blocks, lengths),
           NEW j, NEW block, NEW degree, Fits(j, block, degree)
    PROVE  AllFit(Gen!Put(blocks, j, block), Gen!Put(lengths, j, degree))
<1>. DEFINE f == Gen!Put(blocks, j, block)
            g == Gen!Put(lengths, j, degree)
<1>1. /\ DOMAIN f = DOMAIN blocks \cup {j} /\ f[j] = block
      /\ \A y \in DOMAIN blocks : y # j => f[y] = blocks[y]
    BY DEF Gen!Put
<1>2. /\ DOMAIN g = DOMAIN lengths \cup {j} /\ g[j] = degree
      /\ \A y \in DOMAIN lengths : y # j => g[y] = lengths[y]
    BY DEF Gen!Put
<1>. HIDE DEF f, g
<1>3. ASSUME NEW y \in DOMAIN f PROVE y \in DOMAIN g /\ Fits(y, f[y], g[y])
    <2>1. CASE y = j
        BY <1>1, <1>2, <2>1
    <2>2. CASE y # j
        <3>1. y \in DOMAIN blocks /\ y \in DOMAIN lengths /\ Fits(y, blocks[y], lengths[y])
            BY <1>1, <2>2 DEF AllFit
        <3>. QED  BY <1>1, <1>2, <2>2, <3>1
    <2>. QED  BY <2>1, <2>2
<1>. QED  BY <1>3 DEF AllFit, f, g

LEMMA DrawnRow ==
    ASSUME Asked, Deciding, Drawn, Gen!DecideRow
    PROVE  Drawn'
<1>. DEFINE Row(j, marks) == Gen!Ascending(IF Gen!is_square THEN marks \cup {j} ELSE marks)
<1>1. PICK j \in pending, d \in Gen!Degrees :
        /\ ~Gen!GoesAstray(j, d)
        /\ \E marks \in Gen!Marks(Gen!Draws(d), Gen!Window(j)) :
          /\ indices' = Gen!Put(indices, j, Gen!Block(d, Row(j, marks)))
          /\ degrees' = Gen!Put(degrees, j, Len(Row(j, marks)))
    BY Zenon DEF Gen!DecideRow
<1>2. PICK marks \in Gen!Marks(Gen!Draws(d), Gen!Window(j)) :
          /\ indices' = Gen!Put(indices, j, Gen!Block(d, Row(j, marks)))
          /\ degrees' = Gen!Put(degrees, j, Len(Row(j, marks)))
    BY <1>1
<1>3. gpc = "decide" /\ ~req.symmetric /\ UNCHANGED req
    BY DEF Gen!DecideRow
<1>5. d \in Nat /\ Gen!Draws(d) \in Nat
    <2>1. d \in Nat
        BY DegreesAreNumbers DEF Asked
    <2>. QED  BY <1>1, <2>1 DEF Gen!GoesAstray, Gen!Draws
<1>4. /\ j \in Nat /\ j < Gen!id_first /\ (Gen!is_square => Inside(j, j))
      /\ marks \in SUBSET Nat /\ \A x \in marks : Inside(j, x)
      /\ IsFiniteSet(marks) /\ Cardinality(marks) \in Nat
      /\ Cardinality(marks) <= IF Gen!is_square THEN d - 1 ELSE d
    BY <1>3, <1>5, MarksFacts DEF Gen!Draws
<1>. DEFINE S == IF Gen!is_square THEN marks \cup {j} ELSE marks
<1>6. S \in SUBSET Nat /\ (\A x \in S : Inside(j, x)) /\ IsFiniteSet(S) /\ Cardinality(S) <= d
    <2>1. /\ IsFiniteSet(marks \cup {j})
          /\ Cardinality(marks \cup {j}) = IF j \in marks THEN Cardinality(marks) ELSE Cardinality(marks) + 1
        BY <1>4, FS_AddElement
    <2>. QED  BY <1>4, <1>5, <2>1
<1>7. PICK list : list = Row(j, marks)
    OBVIOUS
<1>8. Len(list) \in Nat /\ Len(list) <= d /\ \A p \in 1 .. Len(list) : Inside(j, list[p])
    <2>. HIDE DEF S
    <2>1. list = Gen!Ascending(S)
        BY <1>7 DEF S
    <2>. QED  BY <1>6, <2>1, AscendingFacts
<1>9. Fits(j, Gen!Block(d, list), Len(list))
    BY <1>5, <1>8, BlockFits
<1>. HIDE DEF Row
<1>10. indices' = Gen!Put(indices, j, Gen!Block(d, list)) /\ degrees' = Gen!Put(degrees, j, Len(list))
    BY <1>2, <1>7
<1>11. ~Gen!OddSymmetric =>
         AllFit(Gen!Put(indices, j, Gen!Block(d, list)), Gen!Put(degrees, j, Len(list)))
    BY <1>9, PutFits DEF Drawn
<1>. QED  BY <1>3, <1>10, <1>11, DrawnBecomes

\* The marks above the diagonal, turned around, are inside the partner's band.
LEMMA TurnedInside ==
    ASSUME Asked, req.symmetric, Gen!is_square, NEW j \in Nat, j < Gen!id_first,
           NEW x \in Gen!Above(j), Inside(j, x)
    PROVE  Inside(Gen!r1 - j, Gen!id_first - x)
<1>1. /\ Gen!id_first \in Nat /\ Gen!id_second = Gen!id_first /\ Gen!low \in Nat /\ Gen!up = Gen!low
    BY RequestFacts DEF Asked, Gen!low, Gen!up
<1>2. x >= j + 1 /\ x \in 0 .. Gen!id_second - 1 /\ x <= j + Gen!up
    BY <1>1 DEF Gen!Above, Inside
<1>. QED  BY <1>1, <1>2 DEF Inside, Gen!r1

LEMMA DiagonalInside ==
    ASSUME Asked, req.symmetric, Gen!is_square, NEW j \in Nat, j < Gen!id_first
    PROVE  Inside(Gen!r1 - j, Gen!r1 - j)
<1>1. /\ Gen!id_first \in Nat /\ Gen!id_second = Gen!id_first /\ Gen!low \in Nat /\ Gen!up \in Nat
    BY RequestFacts DEF Asked
<1>. QED  BY <1>1 DEF Inside, Gen!r1

LEMMA DrawnRowAndMirror ==
    ASSUME Asked, Deciding, Drawn, Gen!DecideRowAndMirror
    PROVE  Drawn'
<1>. DEFINE Own(j, marks) == Append(Gen!Ascending(marks \cap Gen!Below(j)), j)
            Up(j, marks) == Gen!Ascending(marks \cap Gen!Above(j))
            Other(j, marks) == Append([p \in DOMAIN Up(j, marks) |-> Gen!id_first - Up(j, marks)[p]], Gen!r1 - j)
            Both(j, d, marks) ==
              /\ indices' = Gen!Put(Gen!Put(indices, j, Gen!Block(d, Own(j, marks))),
                                    Gen!r1 - j, Gen!Block(d, Other(j, marks)))
              /\ degrees' = Gen!Put(Gen!Put(degrees, j, Len(Own(j, marks))), Gen!r1 - j, Len(Other(j, marks)))
<1>1. \E j \in pending, d \in Gen!Degrees :
        ~Gen!GoesAstray(j, d) /\ \E marks \in Gen!Marks(Gen!Draws(d), Gen!Window(j)) : Both(j, d, marks)
    BY Zenon DEF Gen!DecideRowAndMirror
<1>2. PICK j \in pending, d \in Gen!Degrees :
        ~Gen!GoesAstray(j, d) /\ \E marks \in Gen!Marks(Gen!Draws(d), Gen!Window(j)) : Both(j, d, marks)
    BY <1>1
<1>3. PICK marks \in Gen!Marks(Gen!Draws(d), Gen!Window(j)) : Both(j, d, marks)
    BY <1>2
<1>4. gpc = "decide" /\ req.symmetric /\ UNCHANGED req /\ Gen!is_square
    BY DEF Gen!DecideRowAndMirror, Asked
<1>6. d \in Nat /\ d - 1 \in Nat /\ Gen!Draws(d) = d - 1
    <2>1. d \in Nat
        BY DegreesAreNumbers DEF Asked
    <2>. QED  BY <1>2, <1>4, <2>1 DEF Gen!GoesAstray, Gen!Draws
<1>5. /\ j \in Nat /\ j < Gen!id_first /\ Inside(j, j)
      /\ marks \in SUBSET Nat /\ \A x \in marks : Inside(j, x)
      /\ IsFiniteSet(marks) /\ Cardinality(marks) \in Nat /\ Cardinality(marks) <= d - 1
    BY <1>4, <1>6, MarksFacts
<1>7. ASSUME NEW part
      PROVE  /\ Cardinality(marks \cap part) \in Nat /\ Cardinality(marks \cap part) <= d - 1
             /\ Len(Gen!Ascending(marks \cap part)) = Cardinality(marks \cap part)
             /\ DOMAIN Gen!Ascending(marks \cap part) = 1 .. Cardinality(marks \cap part)
             /\ \A p \in 1 .. Cardinality(marks \cap part) : Gen!Ascending(marks \cap part)[p] \in marks \cap part
    <2>1. marks \cap part \in SUBSET marks /\ marks \cap part \in SUBSET Nat
        BY <1>5
    <2>2. IsFiniteSet(marks \cap part) /\ Cardinality(marks \cap part) <= Cardinality(marks)
        BY <1>5, <2>1, FS_Subset
    <2>3. Cardinality(marks \cap part) \in Nat
        BY <2>2, FS_CardinalityType
    <2>4. Cardinality(marks \cap part) <= d - 1
        BY <1>5, <1>6, <2>2, <2>3
    <2>5. PICK mine : mine = marks \cap part
        OBVIOUS
    <2>6. mine \in SUBSET Nat /\ IsFiniteSet(mine)
        BY <2>1, <2>2, <2>5
    <2>7. /\ Len(Gen!Ascending(mine)) = Cardinality(mine)
          /\ DOMAIN Gen!Ascending(mine) = 1 .. Cardinality(mine)
          /\ \A p \in 1 .. Cardinality(mine) : Gen!Ascending(mine)[p] \in mine
        BY <2>6, AscendingFacts
    <2>. QED  BY <2>3, <2>4, <2>5, <2>7
<1>8. PICK below : below = Gen!Ascending(marks \cap Gen!Below(j))
    OBVIOUS
<1>9. PICK above : above = Gen!Ascending(marks \cap Gen!Above(j))
    OBVIOUS
<1>10. PICK n : n = Cardinality(marks \cap Gen!Below(j))
    OBVIOUS
<1>11. PICK m : m = Cardinality(marks \cap Gen!Above(j))
    OBVIOUS
<1>12. /\ n \in Nat /\ n <= d - 1 /\ Len(below) = n /\ DOMAIN below = 1 .. n
       /\ \A p \in 1 .. n : below[p] \in marks
    BY <1>7, <1>8, <1>10
<1>13. /\ m \in Nat /\ m <= d - 1 /\ DOMAIN above = 1 .. m
       /\ \A p \in 1 .. m : above[p] \in marks /\ above[p] \in Gen!Above(j)
    BY <1>7, <1>9, <1>11
<1>14. PICK own : own = Append(below, j)
    OBVIOUS
<1>15. PICK other : other = Append([p \in DOMAIN above |-> Gen!id_first - above[p]], Gen!r1 - j)
    OBVIOUS
<1>16. Fits(j, Gen!Block(d, own), Len(own))
    <2>1. Len(own) = n + 1 /\ own[n + 1] = j /\ \A p \in 1 .. n : own[p] = below[p]
        BY <1>12, <1>14
    <2>2. \A p \in 1 .. Len(own) : Inside(j, own[p])
        <3>1. \A p \in 1 .. n + 1 : p \in 1 .. n \/ p = n + 1
            BY <1>12
        <3>. QED  BY <1>5, <1>12, <2>1, <3>1
    <2>3. Len(own) \in Nat /\ Len(own) <= d
        BY <1>6, <1>12, <2>1
    <2>. QED  BY <1>6, <2>2, <2>3, BlockFits
<1>17. Fits(Gen!r1 - j, Gen!Block(d, other), Len(other))
    <2>1. /\ Len(other) = m + 1 /\ other[m + 1] = Gen!r1 - j
          /\ \A p \in 1 .. m : other[p] = Gen!id_first - above[p]
        BY <1>13, <1>15
    <2>2. \A p \in 1 .. m : Inside(Gen!r1 - j, other[p])
        BY <1>4, <1>5, <1>13, <2>1, TurnedInside
    <2>3. Inside(Gen!r1 - j, Gen!r1 - j)
        BY <1>4, <1>5, DiagonalInside
    <2>4. \A p \in 1 .. Len(other) : Inside(Gen!r1 - j, other[p])
        <3>1. \A p \in 1 .. m + 1 : p \in 1 .. m \/ p = m + 1
            BY <1>13
        <3>. QED  BY <2>1, <2>2, <2>3, <3>1
    <2>5. Len(other) \in Nat /\ Len(other) <= d
        BY <1>6, <1>13, <2>1
    <2>. QED  BY <1>6, <2>4, <2>5, BlockFits
<1>18. Own(j, marks) = own /\ Other(j, marks) = other
    BY <1>8, <1>9, <1>14, <1>15
<1>. HIDE DEF Own, Other
<1>19. /\ indices' = Gen!Put(Gen!Put(indices, j, Gen!Block(d, own)), Gen!r1 - j, Gen!Block(d, other))
       /\ degrees' = Gen!Put(Gen!Put(degrees, j, Len(own)), Gen!r1 - j, Len(other))
    BY <1>3, <1>18
<1>20. ASSUME ~Gen!OddSymmetric
       PROVE  AllFit(Gen!Put(Gen!Put(indices, j, Gen!Block(d, own)), Gen!r1 - j, Gen!Block(d, other)),
                     Gen!Put(Gen!Put(degrees, j, Len(own)), Gen!r1 - j, Len(other)))
    <2>1. AllFit(Gen!Put(indices, j, Gen!Block(d, own)), Gen!Put(degrees, j, Len(own)))
        BY <1>16, <1>20, PutFits DEF Drawn
    <2>. QED  BY <1>17, <2>1, PutFits
<1>. QED  BY <1>4, <1>19, <1>20, DrawnBecomes

LEMMA DrawnStep == DInv /\ Drawn /\ [Gen!Next]_Gen!vars => Drawn'
<1>. SUFFICES ASSUME DInv, Drawn, [Gen!Next]_Gen!vars PROVE Drawn'
    OBVIOUS
<1>1. CASE Gen!DecideRow
    BY <1>1, DrawnRow DEF DInv
<1>2. CASE Gen!DecideRowAndMirror
    BY <1>2, DrawnRowAndMirror DEF DInv
<1>3. CASE Gen!DecideMiddle
    <2>1. UNCHANGED req /\ gpc = "middle"
        BY <1>3 DEF Gen!DecideMiddle
    <2>. QED  BY <2>1, SameRequest DEF DInv, Deciding, Drawn
<1>4. CASE Gen!Begin
    BY <1>4, DrawnStays DEF Gen!Begin
<1>5. CASE Gen!NextLoop
    BY <1>5, DrawnStays DEF Gen!NextLoop
<1>6. CASE Gen!Refuse \/ Gen!GoAstray \/ Gen!ReadUndecided \/ Gen!Emit \/ Gen!Convert
           \/ Gen!SymmetrizePattern \/ Gen!SymmetrizeRow \/ Gen!SymmetrizeDone
    BY <1>6, DrawnStays DEF Gen!Refuse, Gen!GoAstray, Gen!ReadUndecided, Gen!Emit, Gen!Convert, Gen!SymmetrizePattern,
       Gen!SymmetrizeRow, Gen!SymmetrizeDone, Gen!deciding
<1>7. CASE UNCHANGED Gen!vars
    BY <1>7, DrawnStays DEF Gen!vars, Gen!deciding
<1>. QED  BY <1>1, <1>2, <1>3, <1>4, <1>5, <1>6, <1>7 DEF Gen!Next

\* Of a request that is well asked no row goes astray, and none is read undecided.
NotAstray == Gen!WellAsked => gpc # "undefined"

LEMMA NotAstrayStep == DInv /\ NotAstray /\ [Gen!Next]_Gen!vars => NotAstray'
<1>. SUFFICES ASSUME DInv, NotAstray, [Gen!Next]_Gen!vars PROVE NotAstray'
    OBVIOUS
<1>. SUFFICES ASSUME Gen!WellAsked PROVE gpc' # "undefined"
    <2>0. UNCHANGED req
        BY RequestStays
    <2>1. Gen!WellAsked' <=> Gen!WellAsked
        BY <2>0, SameRequest
    <2>. QED  BY <2>1 DEF NotAstray
<1>1. Gen!Banded /\ ~Gen!OddSymmetric /\ (Gen!is_square => Gen!up > 0 /\ \A d \in Gen!Degrees : d > 0)
    BY DEF Gen!WellAsked
<1>2. ASSUME gpc = "decide", NEW j \in pending, NEW d \in Gen!Degrees
      PROVE  ~Gen!GoesAstray(j, d)
    <2>1. Gen!Window(j) # {} /\ Gen!Window(j) \subseteq 0 .. Gen!id_second - 1
        BY <1>1, <1>2, WindowFacts DEF DInv
    <2>2. /\ j \in Nat /\ j < Gen!Bounds[loop + 1] /\ Gen!Bounds[loop + 1] \in Nat /\ Gen!r2 \in Nat
          /\ Gen!Bounds[loop + 1] <= IF req.symmetric THEN Gen!r2 ELSE Gen!id_first
          /\ 2 * Gen!r2 <= Gen!id_first /\ Gen!id_first \in Nat
        BY <1>2, PendingFacts DEF DInv
    <2>3. j \in Gen!Rows
        BY <2>2 DEF Gen!Rows
    <2>4. Gen!is_square => d # 0
        BY <1>1, DegreesAreNumbers DEF DInv, Asked
    <2>. QED  BY <2>1, <2>3, <2>4 DEF Gen!GoesAstray
<1>3. ~Gen!GoAstray
    <2>1. gpc # "middle"
        BY <1>1 DEF DInv, Deciding
    <2>. QED  BY <1>2, <2>1 DEF Gen!GoAstray
<1>4. ~Gen!ReadUndecided
    BY <1>1 DEF DInv, Deciding, Gen!DecisionOver, Gen!ReadUndecided
<1>. QED
    BY <1>3, <1>4 DEF NotAstray, Gen!Next, Gen!vars, Gen!Begin, Gen!Refuse, Gen!DecideRow, Gen!DecideRowAndMirror,
       Gen!NextLoop, Gen!DecideMiddle, Gen!Emit, Gen!Convert, Gen!SymmetrizePattern, Gen!SymmetrizeRow,
       Gen!SymmetrizeDone

LEMMA DrawsInside == DInv /\ Drawn /\ NotAstray => Gen!DrawsStayInside
<1>. SUFFICES ASSUME DInv, Drawn, NotAstray, Gen!WellAsked PROVE
         /\ gpc # "undefined"
         /\ Gen!DecisionOver =>
              \A j \in Gen!Rows :
                /\ degrees[j] <= Gen!Cardinality(DOMAIN indices[j])
                /\ \A x \in 0 .. degrees[j] - 1 :
                     /\ indices[j][x] \in 0 .. Gen!id_second - 1
                     /\ Gen!is_square => j - Gen!low <= indices[j][x] /\ indices[j][x] <= j + Gen!up
    BY DEF Gen!DrawsStayInside
<1>1. ASSUME Gen!DecisionOver, NEW j \in Gen!Rows
      PROVE  /\ degrees[j] <= Gen!Cardinality(DOMAIN indices[j])
             /\ \A x \in 0 .. degrees[j] - 1 :
                  /\ indices[j][x] \in 0 .. Gen!id_second - 1
                  /\ Gen!is_square => j - Gen!low <= indices[j][x] /\ indices[j][x] <= j + Gen!up
    <2>1. Fits(j, indices[j], degrees[j])
        BY <1>1 DEF DInv, Deciding, Drawn, AllFit, Gen!WellAsked
    <2>. QED  BY <2>1 DEF Fits, Inside, Gen!Cardinality, Cardinality
<1>. QED  BY <1>1 DEF NotAstray

-------------------------------------------------------------------------------
(* The two programs that load: what a step of theirs does to the loader *)

LEMMA LoaderActs ==
    ASSUME Next
    PROVE  pc # "idle" /\ pc' # "idle"
BY DEF Next, Open, ReadSizes, AllocCoo, ReadEntry, CloseFile, Expand, MirrorEntry, MirrorDone,
       CountRows, AddRowEnd, AllocCursor, Scatter, ScatterDone, AllocBuffers, SortRow,
       OpenGroup, AddToGroup, CloseGroup, EndRow, FinishRows, Returns, heap

\* A load begins with nothing allocated, and what it ends with is handed over.
BeginsLoad ==
    /\ pc = "idle" /\ pc' = "start" /\ ClearLocals
    /\ UNCHANGED <<live, lost>>
EndsLoad ==
    /\ pc = "done" /\ pc' = "idle" /\ ClearLocals /\ UNCHANGED file
    /\ \/ matrix = Vectors /\ live' = live \ Vectors /\ UNCHANGED lost
       \/ live' = {} /\ lost' = {}

Shapes == matrix \in {{}, {"row_ptr"}, Vectors}

LEMMA LoaderStep ==
    ASSUME Shapes, [BenchNext]_<<all, bench>>
    PROVE  [Next]_vars \/ BeginsLoad \/ EndsLoad
<1>. USE DEF all
<1>1. CASE ToolsNext
    <2>1. CASE Generate
        BY <2>1 DEF Generate
    <2>2. CASE Save
        BY <2>2 DEF Save
    <2>3. CASE Usage
        BY <2>3 DEF Usage
    <2>4. CASE StartLoad
        BY <2>4 DEF StartLoad, BeginsLoad
    <2>5. CASE LoadStep
        BY <2>5 DEF LoadStep
    <2>6. CASE CheckLoaded
        <3>1. matrix = Vectors
            BY <2>6 DEF CheckLoaded, Shapes, Vectors
        <3>. QED  BY <2>6, <3>1 DEF CheckLoaded, EndsLoad
    <2>7. CASE LoadFailed
        BY <2>7 DEF LoadFailed
    <2>8. CASE Exit
        BY <2>8 DEF Exit
    <2>. QED  BY <1>1, <2>1, <2>2, <2>3, <2>4, <2>5, <2>6, <2>7, <2>8 DEF ToolsNext
<1>2. CASE BenchLoad
    BY <1>2 DEF BenchLoad, BeginsLoad
<1>3. CASE BenchLoaded
    BY <1>3 DEF BenchLoaded, EndsLoad
<1>. QED
    BY <1>1, <1>2, <1>3 DEF BenchNext, StartBench, RefuseArguments, BenchGenerate, LookAtLoaded,
       Build, SetUp, Reference, Warmup, WarmupDone, TimedRun, CleanUp

\* Between two loads nothing of the loader is allocated.
Loading ==
    /\ Shapes /\ Phases
    /\ pc = "idle" => live = {} /\ lost = {} /\ matrix = {}
    /\ pc # "idle" => HeapInv

LEMMA ShapesStep == Shapes /\ Phases /\ [Next]_vars => Shapes' /\ Phases'
BY DEF Shapes, Phases, is_symmetric, Next, vars, heap, reading, scattering, folding, Vectors,
       Open, ReadSizes, AllocCoo, ReadEntry, CloseFile, Expand, MirrorEntry, MirrorDone,
       CountRows, AddRowEnd, AllocCursor, Scatter, ScatterDone, AllocBuffers, SortRow,
       OpenGroup, AddToGroup, CloseGroup, EndRow, FinishRows, Returns

LEMMA LoadingStep == Loading /\ [BenchNext]_<<all, bench>> => Loading'
<1>. SUFFICES ASSUME Loading, [BenchNext]_<<all, bench>> PROVE Loading'
    OBVIOUS
<1>1. CASE [Next]_vars
    <2>1. Shapes' /\ Phases'
        BY <1>1, ShapesStep DEF Loading
    <2>2. CASE Next
        <3>1. pc # "idle" /\ pc' # "idle" /\ HeapInv
            BY <2>2, LoaderActs DEF Loading
        <3>2. HeapInv'
            BY <2>2, <3>1, HeapStep DEF Loading
        <3>. QED  BY <2>1, <3>1, <3>2 DEF Loading
    <2>3. CASE UNCHANGED vars
        <3>1. UNCHANGED <<pc, live, lost, matrix>>
            BY <2>3 DEF vars, heap
        <3>2. pc # "idle" => HeapInv'
            BY <2>3, HeapStep DEF Loading
        <3>. QED  BY <2>1, <3>1, <3>2 DEF Loading
    <2>. QED  BY <1>1, <2>2, <2>3
<1>2. CASE BeginsLoad
    <2>1. matrix' = {} /\ pc' = "start" /\ live' = {} /\ lost' = {}
        BY <1>2 DEF BeginsLoad, ClearLocals, Loading
    <2>. QED
        BY <2>1 DEF Loading, Shapes, Phases, HeapInv, HeapOnReturn, Done, Reading, Folding
<1>3. CASE EndsLoad
    <2>1. HeapInv /\ pc = "done"
        BY <1>3 DEF EndsLoad, Loading
    <2>2. live = matrix \cup lost /\ (lost # {} => matrix = {})
        BY <2>1 DEF HeapInv, HeapOnReturn, Done
    <2>3. matrix' = {} /\ pc' = "idle"
        BY <1>3 DEF EndsLoad, ClearLocals
    <2>4. live' = {} /\ lost' = {}
        BY <1>3, <2>2 DEF EndsLoad, Vectors
    <2>. QED  BY <2>3, <2>4 DEF Loading, Shapes, Phases
<1>. QED  BY <1>1, <1>2, <1>3, LoaderStep DEF Loading

LEMMA LoadingInit == BenchInit => Loading
BY DEF BenchInit, ToolsInit, LocalsUnset, Loading, Shapes, Phases

-------------------------------------------------------------------------------
(* The benchmark: who owns what, and that it is freed once *)

IsSeq(s) == \E S : s \in Seq(S)

\* The vectors of what was loaded or generated, the typed arrays, the reference.
VectorBlocks == {Parsed(n) : n \in 1 .. Len(parsed)} \X Vectors
ArrayBlocks == {RawOf(n) : n \in 1 .. Len(mats)} \X RawBlocks
RefBlocks == IF have_ref THEN Of(Cref, RawBlocks) ELSE {}
AllThere == \A n \in 1 .. Len(parsed) : parsed[n].fields = Vectors
Expected == IF job.mode = "mtx-sq" THEN 1 ELSE 2

\* csr_check is over before the benchmark begins, and has no load under way.
AfterCheck ==
    /\ step = "off" => owned = {} /\ parsed = <<>> /\ mats = <<>> /\ ~have_ref
    /\ step = "off" /\ status \in {"ok", "bad", "usage"} => pc = "idle"
    /\ step # "off" => job \in Jobs /\ status # "running"

\* A job loads no more files than it names, one after the other.
LoadsInOrder ==
    step = "load" =>
      /\ mats = <<>> /\ ~have_ref
      /\ job.mode # "gen" => Len(parsed) <= Len(job.files) /\ (pc # "idle" => Len(parsed) < Len(job.files))
      /\ job.mode = "gen" => Len(parsed) \in {0, 2} /\ pc = "idle"

\* Only what was loaded whole gets typed arrays.
BuildsWhole ==
    /\ IsSeq(parsed) /\ IsSeq(mats)
    /\ \A n \in 1 .. Len(parsed) : parsed[n].fields \in {{}, {"row_ptr"}, Vectors}
    /\ step \in {"build", "reference", "warmup", "timed"} =>
         /\ Len(parsed) = Expected /\ Len(mats) <= Len(parsed)
         /\ \A n \in 1 .. Len(mats) : parsed[n].fields = Vectors
    /\ step \in {"reference", "warmup", "timed"} => Len(mats) = Len(parsed)

\* What the process owns; realloc can lose a block only of what is not loaded whole.
Ledger ==
    /\ ~astray
    /\ step \in {"load", "build"} => ~have_ref /\ (AllThere => owned = VectorBlocks \cup ArrayBlocks)
    /\ step = "reference" =>
         ~have_ref /\ owned = VectorBlocks \cup ArrayBlocks \cup Of(Main, {"op_counts", "ws", "kernel_ops"})
    /\ step \in {"warmup", "timed"} =>
         owned = VectorBlocks \cup ArrayBlocks \cup Of(Main, {"op_counts", "ws"}) \cup RefBlocks
    /\ step = "done" => owned = {}

Books == AfterCheck /\ LoadsInOrder /\ BuildsWhole /\ Ledger

LEMMA JobFacts ==
    ASSUME job \in Jobs
    PROVE  /\ Len(job.files) \in Nat /\ job.mode \in {"mtx-sq", "mtx", "gen"}
           /\ job.mode = "mtx-sq" => Len(job.files) = 1
           /\ job.mode = "mtx" => Len(job.files) = 2
           /\ job.mode = "gen" => /\ Len(job.files) = 0
                                  /\ IsSeq(job.made) /\ Len(job.made) = 2
                                  /\ \A n \in 1 .. 2 : job.made[n].fields = Vectors
<1>1. job.files \in Seq(Files)
    BY JobsAssumption
<1>2. ASSUME job.mode = "gen"
      PROVE  /\ job.files = <<>> /\ IsSeq(job.made) /\ Len(job.made) = 2
             /\ \A n \in 1 .. 2 : job.made[n].fields = Vectors
    <2>1. /\ job.files = <<>> /\ job.made = <<job.made[1], job.made[2]>>
          /\ job.made[1].fields = Vectors /\ job.made[2].fields = Vectors
        BY <1>2, JobsAssumption
    <2>. DEFINE x == job.made[1]
                y == job.made[2]
    <2>. HIDE DEF x, y
    <2>2. <<x, y>> \in Seq({x, y}) /\ Len(<<x, y>>) = 2
        OBVIOUS
    <2>3. job.made \in Seq({x, y}) /\ Len(job.made) = 2
        BY <2>1, <2>2 DEF x, y
    <2>4. \A n \in 1 .. 2 : n = 1 \/ n = 2
        OBVIOUS
    <2>. QED  BY <2>1, <2>3, <2>4 DEF IsSeq
<1>. QED  BY <1>1, <1>2, JobsAssumption

LEMMA AppendFacts ==
    ASSUME NEW s, NEW x, IsSeq(s)
    PROVE  /\ IsSeq(Append(s, x)) /\ Len(s) \in Nat /\ Len(Append(s, x)) = Len(s) + 1
           /\ \A n \in 1 .. Len(s) : Append(s, x)[n] = s[n]
           /\ Append(s, x)[Len(s) + 1] = x
<1>1. PICK S : s \in Seq(S)
    BY DEF IsSeq
<1>2. s \in Seq(S \cup {x}) /\ x \in S \cup {x}
    BY <1>1
<1>. DEFINE T == S \cup {x}
<1>3. s \in Seq(T) /\ x \in T
    BY <1>2
<1>. HIDE DEF T
<1>4. Append(s, x) \in Seq(T)
    BY <1>3
<1>. QED  BY <1>3, <1>4 DEF IsSeq

\* What the tools do while the benchmark runs is a step of the load under way.
LEMMA ToolsWhileBenched ==
    ASSUME ToolsNext, status # "running"
    PROVE  UNCHANGED status /\ (pc = "idle" => pc' = "idle")
<1>. USE DEF main, vars
<1>1. CASE Generate
    BY <1>1 DEF Generate
<1>2. CASE Save
    BY <1>2 DEF Save
<1>3. CASE LoadStep
    BY <1>3, LoaderActs DEF LoadStep
<1>. QED  BY <1>1, <1>2, <1>3 DEF ToolsNext, Usage, StartLoad, CheckLoaded, LoadFailed, Exit, Running

LEMMA BooksSame ==
    ASSUME Books, UNCHANGED bench,
           step # "off" => UNCHANGED status /\ (pc = "idle" => pc' = "idle"),
           step = "off" => (status' \in {"ok", "bad", "usage"} => pc' = "idle")
    PROVE  Books'
<1>1. UNCHANGED <<job, step, parsed, mats, owned, astray, have_ref>>
    BY DEF bench
<1>2. /\ VectorBlocks' = VectorBlocks /\ ArrayBlocks' = ArrayBlocks /\ RefBlocks' = RefBlocks
      /\ AllThere' = AllThere /\ Expected' = Expected
    BY <1>1 DEF VectorBlocks, ArrayBlocks, RefBlocks, AllThere, Expected
<1>3. AfterCheck'
    BY <1>1 DEF Books, AfterCheck
<1>4. LoadsInOrder'
    BY <1>1 DEF Books, LoadsInOrder
<1>5. BuildsWhole'
    BY <1>1, <1>2 DEF Books, BuildsWhole
<1>6. Ledger'
    BY <1>1, <1>2 DEF Books, Ledger
<1>. QED  BY <1>3, <1>4, <1>5, <1>6 DEF Books

LEMMA StartBenchBooks ==
    ASSUME Books, StartBench
    PROVE  Books'
<1>1. /\ step = "off" /\ status \in {"ok", "bad", "usage"} /\ step' = "load" /\ job' \in Jobs
      /\ UNCHANGED <<status, pc, parsed, mats, owned, astray, have_ref>>
    BY DEF StartBench, all, main, vars
<1>2. /\ owned = {} /\ parsed = <<>> /\ mats = <<>> /\ ~have_ref /\ pc = "idle"
    BY <1>1 DEF Books, AfterCheck
<1>3. AfterCheck'
    BY <1>1 DEF AfterCheck
<1>4. /\ Len(job.files)' \in Nat /\ Len(parsed)' = 0
    <2>1. job' \in Jobs => Len(job'.files) \in Nat
        BY JobsAssumption
    <2>. QED  BY <1>1, <1>2, <2>1
<1>5. LoadsInOrder'
    BY <1>1, <1>2, <1>4 DEF LoadsInOrder
<1>6. BuildsWhole'
    BY <1>1, <1>2 DEF Books, BuildsWhole
<1>7. Ledger'
    <2>1. VectorBlocks' = {} /\ ArrayBlocks' = {}
        BY <1>1, <1>2 DEF VectorBlocks, ArrayBlocks
    <2>. QED  BY <1>1, <1>2, <2>1 DEF Books, Ledger
<1>. QED  BY <1>3, <1>5, <1>6, <1>7 DEF Books

LEMMA BenchLoadBooks ==
    ASSUME Books, BenchLoad
    PROVE  Books'
<1>1. /\ step = "load" /\ Len(parsed) < Len(job.files) /\ pc = "idle" /\ pc' = "start"
      /\ UNCHANGED <<job, step, parsed, mats, owned, astray, have_ref, status>>
    BY DEF BenchLoad, bench, main
<1>2. /\ VectorBlocks' = VectorBlocks /\ ArrayBlocks' = ArrayBlocks /\ RefBlocks' = RefBlocks
      /\ AllThere' = AllThere /\ Expected' = Expected
    BY <1>1 DEF VectorBlocks, ArrayBlocks, RefBlocks, AllThere, Expected
<1>3. job.mode # "gen"
    <2>1. job \in Jobs /\ Len(parsed) \in Nat
        BY <1>1, AppendFacts DEF Books, AfterCheck, BuildsWhole
    <2>. QED  BY <1>1, <2>1, JobFacts
<1>4. AfterCheck' /\ LoadsInOrder'
    BY <1>1, <1>3 DEF Books, AfterCheck, LoadsInOrder
<1>5. BuildsWhole' /\ Ledger'
    BY <1>1, <1>2 DEF Books, BuildsWhole, Ledger
<1>. QED  BY <1>4, <1>5 DEF Books

LEMMA BenchLoadedBooks ==
    ASSUME Books, Loading, BenchLoaded
    PROVE  Books'
<1>. DEFINE n == Len(parsed)
            x == [fields |-> matrix, rows |-> M, cols |-> cols, row_ptr |-> row_ptr, cells |-> cells]
<1>1. /\ step = "load" /\ pc = "done" /\ pc' = "idle" /\ parsed' = Append(parsed, x)
      /\ owned' = owned \cup Of(Parsed(n + 1), matrix) \cup Of(<<"lost", n + 1>>, lost)
      /\ UNCHANGED <<job, step, mats, astray, have_ref, status>>
    BY DEF BenchLoaded, main
<1>2. x.fields = matrix
    OBVIOUS
<1>. HIDE DEF x
<1>3. /\ IsSeq(parsed') /\ n \in Nat /\ Len(parsed') = n + 1
      /\ \A m \in 1 .. n : parsed'[m] = parsed[m]
      /\ parsed'[n + 1].fields = matrix
    BY <1>1, <1>2, AppendFacts DEF Books, BuildsWhole
<1>4. job \in Jobs /\ mats = <<>> /\ ~have_ref /\ job.mode # "gen" /\ n < Len(job.files)
      /\ Len(job.files) \in Nat
    BY <1>1, JobFacts DEF Books, AfterCheck, LoadsInOrder
<1>5. AfterCheck'
    BY <1>1 DEF Books, AfterCheck
<1>6. LoadsInOrder'
    BY <1>1, <1>3, <1>4 DEF LoadsInOrder
<1>7. ASSUME NEW m \in 1 .. n + 1
      PROVE  parsed'[m].fields \in {{}, {"row_ptr"}, Vectors}
    <2>1. m \in 1 .. n \/ m = n + 1
        BY <1>3
    <2>. QED  BY <1>3, <2>1 DEF Loading, Shapes, Books, BuildsWhole
<1>8. BuildsWhole'
    BY <1>1, <1>3, <1>7 DEF Books, BuildsWhole
<1>9. Ledger'
    <2>1. ASSUME AllThere' PROVE owned' = VectorBlocks' \cup ArrayBlocks'
        <3>1. AllThere /\ matrix = Vectors
            BY <1>3, <2>1 DEF AllThere
        <3>2. owned = VectorBlocks \cup ArrayBlocks
            BY <1>1, <3>1 DEF Books, Ledger
        <3>3. lost = {}
            BY <1>1, <3>1 DEF Loading, HeapInv, HeapOnReturn, Done, Vectors
        <3>4. owned' = owned \cup Of(Parsed(n + 1), Vectors)
            BY <1>1, <3>1, <3>3 DEF Of
        <3>5. VectorBlocks' = VectorBlocks \cup Of(Parsed(n + 1), Vectors)
            <4>1. \A m : m \in 1 .. n + 1 <=> m \in 1 .. n \/ m = n + 1
                BY <1>3
            <4>2. VectorBlocks' = {Parsed(m) : m \in 1 .. n + 1} \X Vectors
                BY <1>3 DEF VectorBlocks, Parsed, Vectors
            <4>. HIDE DEF n
            <4>3. {Parsed(m) : m \in 1 .. n + 1} = {Parsed(m) : m \in 1 .. n} \cup {Parsed(n + 1)}
                BY ONLY <4>1
            <4>. QED  BY ONLY <4>2, <4>3 DEF VectorBlocks, Of, n
        <3>6. ArrayBlocks' = ArrayBlocks
            BY <1>1 DEF ArrayBlocks
        <3>. QED  BY <3>2, <3>4, <3>5, <3>6
    <2>. QED  BY <1>1, <2>1 DEF Books, Ledger
<1>. QED  BY <1>5, <1>6, <1>8, <1>9 DEF Books

LEMMA BenchGenerateBooks ==
    ASSUME Books, BenchGenerate
    PROVE  Books'
<1>1. /\ step = "load" /\ job.mode = "gen" /\ parsed' = job.made
      /\ owned' = Of(Parsed(1), Vectors) \cup Of(Parsed(2), Vectors)
      /\ UNCHANGED <<job, step, mats, astray, have_ref, status, pc>>
    BY DEF BenchGenerate, all, main, vars
<1>2. /\ job \in Jobs /\ mats = <<>> /\ ~have_ref /\ pc = "idle"
    BY <1>1 DEF Books, AfterCheck, LoadsInOrder
<1>3. IsSeq(parsed') /\ Len(parsed') = 2 /\ \A n \in 1 .. 2 : parsed'[n].fields = Vectors
    BY <1>1, <1>2, JobFacts
<1>4. AfterCheck' /\ LoadsInOrder' /\ BuildsWhole'
    BY <1>1, <1>2, <1>3 DEF Books, AfterCheck, LoadsInOrder, BuildsWhole
<1>5. Ledger'
    <2>1. {Parsed(m) : m \in 1 .. 2} = {Parsed(1), Parsed(2)}
        BY \A m : m \in 1 .. 2 <=> m = 1 \/ m = 2
    <2>2. VectorBlocks' = {Parsed(m) : m \in 1 .. 2} \X Vectors
        BY <1>3 DEF VectorBlocks, Parsed, Vectors
    <2>3. owned' = VectorBlocks'
        BY <1>1, <2>1, <2>2 DEF Of
    <2>4. ArrayBlocks' = {}
        BY <1>1, <1>2 DEF ArrayBlocks
    <2>. QED  BY <1>1, <1>2, <2>3, <2>4 DEF Books, Ledger
<1>. QED  BY <1>4, <1>5 DEF Books

\* As many matrices as the mode asks for, or the benchmark does not begin.
LEMMA LookAtLoadedBooks ==
    ASSUME Books, LookAtLoaded
    PROVE  Books'
<1>1. /\ step = "load" /\ pc = "idle" /\ parsed # <<>> /\ Len(parsed) >= Len(job.files)
      /\ UNCHANGED <<job, parsed, mats, owned, astray, have_ref, status, pc>>
      /\ step' \in {"failed", "build"}
    BY DEF LookAtLoaded, all, main, vars, Ends
<1>2. /\ VectorBlocks' = VectorBlocks /\ ArrayBlocks' = ArrayBlocks /\ RefBlocks' = RefBlocks
      /\ AllThere' = AllThere /\ Expected' = Expected
    BY <1>1 DEF VectorBlocks, ArrayBlocks, RefBlocks, AllThere, Expected
<1>3. /\ job \in Jobs /\ mats = <<>> /\ ~have_ref
    BY <1>1 DEF Books, AfterCheck, LoadsInOrder
<1>4. Len(parsed) = Expected /\ Len(mats) = 0
    <2>1. PICK S : parsed \in Seq(S)
        BY DEF Books, BuildsWhole, IsSeq
    <2>2. Len(parsed) \in Nat /\ Len(parsed) # 0
        BY <1>1, <2>1
    <2>3. /\ job.mode # "gen" => Len(parsed) <= Len(job.files)
          /\ job.mode = "gen" => Len(parsed) \in {0, 2}
        BY <1>1 DEF Books, LoadsInOrder
    <2>. QED  BY <1>1, <1>3, <2>2, <2>3, JobFacts DEF Expected
<1>5. AfterCheck' /\ LoadsInOrder'
    BY <1>1 DEF Books, AfterCheck, LoadsInOrder
<1>6. BuildsWhole'
    <2>1. Len(mats') = 0 /\ Len(parsed') = Expected' /\ Expected' \in Nat
        BY <1>1, <1>2, <1>4 DEF Expected
    <2>2. 1 .. Len(mats') = {} /\ Len(mats') <= Len(parsed')
        BY <2>1
    <2>. QED  BY <1>1, <2>1, <2>2 DEF Books, BuildsWhole
<1>7. Ledger'
    BY <1>1, <1>2, <1>3 DEF Books, Ledger
<1>. QED  BY <1>5, <1>6, <1>7 DEF Books

LEMMA EndsBooks ==
    ASSUME Books, step # "off", UNCHANGED <<job, parsed, mats, astray, have_ref, status, pc>>,
           step' \in {"usage", "failed", "crashed", "refused", "undefined"}
    PROVE  Books'
<1>1. AfterCheck' /\ LoadsInOrder' /\ Ledger'
    BY DEF Books, AfterCheck, LoadsInOrder, Ledger
<1>2. BuildsWhole'
    BY DEF Books, BuildsWhole
<1>. QED  BY <1>1, <1>2 DEF Books

LEMMA BuildBooks ==
    ASSUME Books, Build
    PROVE  Books'
<1>. DEFINE n == Len(mats)
            x == parsed[Turn]
<1>1. /\ step = "build" /\ n < Len(parsed)
      /\ UNCHANGED <<job, parsed, astray, have_ref, status, pc>>
      /\ \/ step' \in {"crashed", "failed", "refused"} /\ UNCHANGED mats
         \/ /\ "col_ind" \in x.fields /\ owned' = owned \cup Of(RawOf(Turn), RawBlocks)
            /\ mats' = Append(mats, x) /\ UNCHANGED step
    BY DEF Build, all, main, vars, Ends
<1>2. CASE step' \in {"crashed", "failed", "refused"} /\ UNCHANGED mats
    BY <1>1, <1>2, EndsBooks
<1>3. CASE /\ "col_ind" \in x.fields /\ owned' = owned \cup Of(RawOf(Turn), RawBlocks)
           /\ mats' = Append(mats, x) /\ UNCHANGED step
    <2>1. /\ IsSeq(mats') /\ n \in Nat /\ Len(mats') = n + 1 /\ Turn = n + 1
          /\ IsSeq(parsed) /\ Len(parsed) \in Nat
        BY <1>3, AppendFacts DEF Books, BuildsWhole, Turn
    <2>2. parsed[n + 1].fields = Vectors
        <3>1. n + 1 \in 1 .. Len(parsed)
            BY <1>1, <2>1
        <3>. QED  BY <1>3, <2>1, <3>1 DEF Books, BuildsWhole
    <2>3. AfterCheck' /\ LoadsInOrder'
        BY <1>1, <1>3 DEF Books, AfterCheck, LoadsInOrder
    <2>4. BuildsWhole'
        <3>1. \A m \in 1 .. n + 1 : parsed[m].fields = Vectors
            <4>1. \A m \in 1 .. n + 1 : m \in 1 .. n \/ m = n + 1
                BY <2>1
            <4>. QED  BY <1>1, <2>2, <4>1 DEF Books, BuildsWhole
        <3>. QED  BY <1>1, <1>3, <2>1, <3>1 DEF Books, BuildsWhole, Expected
    <2>5. Ledger'
        <3>1. VectorBlocks' = VectorBlocks /\ AllThere' = AllThere
            BY <1>1 DEF VectorBlocks, AllThere
        <3>2. ArrayBlocks' = ArrayBlocks \cup Of(RawOf(Turn), RawBlocks)
            <4>1. \A m : m \in 1 .. n + 1 <=> m \in 1 .. n \/ m = n + 1
                BY <2>1
            <4>2. ArrayBlocks' = {RawOf(m) : m \in 1 .. n + 1} \X RawBlocks
                BY <2>1 DEF ArrayBlocks, RawOf, RawBlocks
            <4>. HIDE DEF n
            <4>3. {RawOf(m) : m \in 1 .. n + 1} = {RawOf(m) : m \in 1 .. n} \cup {RawOf(Turn)}
                BY ONLY <4>1, <2>1
            <4>. QED  BY ONLY <4>2, <4>3 DEF ArrayBlocks, Of, n
        <3>. QED  BY <1>1, <1>3, <3>1, <3>2 DEF Books, Ledger
    <2>. QED  BY <2>3, <2>4, <2>5 DEF Books
<1>. QED  BY <1>1, <1>2, <1>3

LEMMA Whole ==
    ASSUME Books, step = "build", Len(mats) = Len(parsed)
    PROVE  owned = VectorBlocks \cup ArrayBlocks
BY DEF Books, BuildsWhole, Ledger, AllThere

LEMMA SetUpBooks ==
    ASSUME Books, SetUp
    PROVE  Books'
<1>1. /\ step = "build" /\ Len(mats) = Len(parsed)
      /\ UNCHANGED <<job, parsed, mats, astray, have_ref, status, pc>>
    BY DEF SetUp, all, main, vars
<1>2. PICK n \in 0 .. 3 :
         /\ owned' = owned \cup Of(Main, Range(SubSeq(<<"op_counts", "ws", "kernel_ops">>, 1, n)))
         /\ \/ step' \in {"refused", "failed"}
            \/ n = 3 /\ step' = "reference"
    BY DEF SetUp, Ends
<1>3. CASE step' \in {"refused", "failed"}
    BY <1>1, <1>3, EndsBooks
<1>4. CASE n = 3 /\ step' = "reference"
    <2>. DEFINE s == <<"op_counts", "ws", "kernel_ops">>
    <2>1. Range(SubSeq(s, 1, 3)) = {"op_counts", "ws", "kernel_ops"}
        <3>1. DOMAIN SubSeq(s, 1, 3) = {1, 2, 3}
            BY DOMAIN SubSeq(s, 1, 3) = 1 .. 3
        <3>2. SubSeq(s, 1, 3)[1] = "op_counts" /\ SubSeq(s, 1, 3)[2] = "ws" /\ SubSeq(s, 1, 3)[3] = "kernel_ops"
            OBVIOUS
        <3>. HIDE DEF s
        <3>. QED  BY <3>1, <3>2 DEF Range
    <2>2. owned' = VectorBlocks \cup ArrayBlocks \cup Of(Main, {"op_counts", "ws", "kernel_ops"})
        BY <1>1, <1>2, <1>4, <2>1, Whole
    <2>3. /\ VectorBlocks' = VectorBlocks /\ ArrayBlocks' = ArrayBlocks /\ Expected' = Expected
        BY <1>1 DEF VectorBlocks, ArrayBlocks, Expected
    <2>4. ~have_ref
        BY <1>1 DEF Books, Ledger
    <2>5. AfterCheck' /\ LoadsInOrder'
        BY <1>1, <1>4 DEF Books, AfterCheck, LoadsInOrder
    <2>6. BuildsWhole'
        BY <1>1, <1>4, <2>3 DEF Books, BuildsWhole
    <2>7. Ledger'
        BY <1>1, <1>4, <2>2, <2>3, <2>4 DEF Books, Ledger
    <2>. QED  BY <2>5, <2>6, <2>7 DEF Books
<1>. QED  BY <1>2, <1>3, <1>4

\* No block of a matrix or of the reference is one of main's.
LEMMA Owners ==
    /\ VectorBlocks \cap Of(Main, {"op_counts", "ws", "kernel_ops"}) = {}
    /\ ArrayBlocks \cap Of(Main, {"op_counts", "ws", "kernel_ops"}) = {}
    /\ Of(Cref, RawBlocks) \cap Of(Main, {"op_counts", "ws", "kernel_ops"}) = {}
<1>1. \A n : Parsed(n) # Main /\ RawOf(n) # Main /\ Cref # Main
    BY DEF Parsed, RawOf, Main, Cref
<1>. QED  BY <1>1 DEF VectorBlocks, ArrayBlocks, Of

LEMMA ReferenceBooks ==
    ASSUME Books, Reference
    PROVE  Books'
<1>. DEFINE rest == Of(Main, {"op_counts", "ws"})
<1>1. /\ step = "reference" /\ UNCHANGED <<job, parsed, mats, astray, status, pc>>
      /\ \/ step' = "undefined" /\ UNCHANGED <<owned, have_ref>>
         \/ step' = "warmup" /\ ~have_ref' /\ owned' = owned \ Of(Main, {"kernel_ops"})
         \/ /\ step' = "warmup" /\ have_ref'
            /\ owned' = (owned \ Of(Main, {"kernel_ops"})) \cup Of(Cref, RawBlocks)
    BY DEF Reference, all, main, vars, ReadsPast, Ends
<1>2. CASE step' = "undefined" /\ UNCHANGED <<owned, have_ref>>
    BY <1>1, <1>2, EndsBooks
<1>3. CASE step' = "warmup"
    <2>1. owned = VectorBlocks \cup ArrayBlocks \cup Of(Main, {"op_counts", "ws", "kernel_ops"})
        BY <1>1 DEF Books, Ledger
    <2>2. owned \ Of(Main, {"kernel_ops"}) = VectorBlocks \cup ArrayBlocks \cup rest
        <3>1. Of(Main, {"op_counts", "ws", "kernel_ops"}) = rest \cup Of(Main, {"kernel_ops"})
            BY DEF Of
        <3>2. rest \cap Of(Main, {"kernel_ops"}) = {}
            BY DEF Of
        <3>. HIDE DEF rest
        <3>. QED  BY <2>1, <3>1, <3>2, Owners
    <2>3. owned' = VectorBlocks \cup ArrayBlocks \cup rest \cup RefBlocks'
        <3>1. RefBlocks' = IF have_ref' THEN Of(Cref, RawBlocks) ELSE {}
            BY DEF RefBlocks, Of, Cref, RawBlocks
        <3>. QED  BY <1>1, <1>3, <2>2, <3>1
    <2>4. /\ VectorBlocks' = VectorBlocks /\ ArrayBlocks' = ArrayBlocks /\ Expected' = Expected
        BY <1>1 DEF VectorBlocks, ArrayBlocks, Expected
    <2>5. AfterCheck' /\ LoadsInOrder'
        BY <1>1, <1>3 DEF Books, AfterCheck, LoadsInOrder
    <2>6. BuildsWhole'
        BY <1>1, <1>3, <2>4 DEF Books, BuildsWhole
    <2>7. Ledger'
        BY <1>1, <1>3, <2>3, <2>4 DEF Books, Ledger, Of, Main
    <2>. QED  BY <2>5, <2>6, <2>7 DEF Books
<1>. QED  BY <1>1, <1>2, <1>3

LEMMA IterationBooks ==
    ASSUME Books, Warmup \/ WarmupDone \/ TimedRun
    PROVE  Books'
<1>1. /\ step \in {"warmup", "timed"} /\ UNCHANGED <<job, parsed, mats, owned, astray, have_ref, status, pc>>
      /\ step' \in {"warmup", "timed", "undefined"}
    BY DEF Warmup, WarmupDone, TimedRun, all, main, vars, ReadsPast, Ends
<1>2. CASE step' = "undefined"
    BY <1>1, <1>2, EndsBooks
<1>3. CASE step' \in {"warmup", "timed"}
    <2>1. /\ VectorBlocks' = VectorBlocks /\ ArrayBlocks' = ArrayBlocks /\ RefBlocks' = RefBlocks
          /\ Expected' = Expected
        BY <1>1 DEF VectorBlocks, ArrayBlocks, RefBlocks, Expected
    <2>2. AfterCheck' /\ LoadsInOrder'
        BY <1>1, <1>3 DEF Books, AfterCheck, LoadsInOrder
    <2>3. BuildsWhole' /\ Ledger'
        BY <1>1, <1>3, <2>1 DEF Books, BuildsWhole, Ledger
    <2>. QED  BY <2>2, <2>3 DEF Books
<1>. QED  BY <1>1, <1>2, <1>3

\* The list names each block of the set once.
Lists(s, S) ==
    /\ IsSeq(s) /\ Range(s) = S
    /\ \A x, y \in 1 .. Len(s) : s[x] = s[y] => x = y

LEMMA ListsNothing == Lists(<<>>, {})
<1>1. <<>> \in Seq({})
    OBVIOUS
<1>. QED  BY <1>1 DEF Lists, IsSeq, Range

LEMMA ListsTwo ==
    ASSUME NEW o, NEW a, NEW b, a # b
    PROVE  Lists(Each(o, <<a, b>>), Of(o, {a, b}))
<1>. DEFINE s == Each(o, <<a, b>>)
            x == <<o, a>>
            y == <<o, b>>
<1>1. s = <<x, y>>
    BY DEF Each
<1>2. x # y /\ Of(o, {a, b}) = {x, y}
    BY DEF Of
<1>. HIDE DEF s, x, y
<1>3. s \in Seq({x, y}) /\ Len(s) = 2 /\ DOMAIN s = {1, 2} /\ s[1] = x /\ s[2] = y
    BY <1>1
<1>4. Range(s) = {x, y}
    BY <1>3 DEF Range
<1>5. \A m, n \in 1 .. Len(s) : s[m] = s[n] => m = n
    BY <1>2, <1>3
<1>6. Lists(s, Of(o, {a, b}))
    BY <1>2, <1>3, <1>4, <1>5 DEF Lists, IsSeq
<1>. QED  BY <1>6 DEF s

LEMMA ListsThree ==
    ASSUME NEW o, NEW a, NEW b, NEW c, a # b, a # c, b # c
    PROVE  Lists(Each(o, <<a, b, c>>), Of(o, {a, b, c}))
<1>. DEFINE s == Each(o, <<a, b, c>>)
            x == <<o, a>>
            y == <<o, b>>
            z == <<o, c>>
<1>1. s = <<x, y, z>>
    BY DEF Each
<1>2. x # y /\ x # z /\ y # z /\ Of(o, {a, b, c}) = {x, y, z}
    BY DEF Of
<1>. HIDE DEF s, x, y, z
<1>3. /\ s \in Seq({x, y, z}) /\ Len(s) = 3 /\ DOMAIN s = {1, 2, 3}
      /\ s[1] = x /\ s[2] = y /\ s[3] = z
    BY <1>1
<1>4. Range(s) = {x, y, z}
    BY <1>3 DEF Range
<1>5. \A m, n \in 1 .. Len(s) : s[m] = s[n] => m = n
    BY <1>2, <1>3
<1>6. Lists(s, Of(o, {a, b, c}))
    BY <1>2, <1>3, <1>4, <1>5 DEF Lists, IsSeq
<1>. QED  BY <1>6 DEF s

LEMMA ListsJoin ==
    ASSUME NEW s, NEW S, NEW r, NEW R, Lists(s, S), Lists(r, R), S \cap R = {}
    PROVE  Lists(s \o r, S \cup R)
<1>1. PICK T : s \in Seq(T)
    BY DEF Lists, IsSeq
<1>2. PICK U : r \in Seq(U)
    BY DEF Lists, IsSeq
<1>. DEFINE V == T \cup U
            j == s \o r
<1>3. s \in Seq(V) /\ r \in Seq(V)
    BY <1>1, <1>2
<1>. HIDE DEF V
<1>4. /\ j \in Seq(V) /\ Len(s) \in Nat /\ Len(r) \in Nat /\ Len(j) = Len(s) + Len(r)
      /\ DOMAIN s = 1 .. Len(s) /\ DOMAIN r = 1 .. Len(r) /\ DOMAIN j = 1 .. Len(j)
      /\ \A x \in 1 .. Len(j) : j[x] = IF x <= Len(s) THEN s[x] ELSE r[x - Len(s)]
    BY <1>3
<1>. HIDE DEF j
<1>5. \A x \in 1 .. Len(s) : j[x] = s[x] /\ s[x] \in S /\ x \in 1 .. Len(j)
    BY <1>4 DEF Lists, Range
<1>6. \A x \in 1 .. Len(r) : j[Len(s) + x] = r[x] /\ r[x] \in R /\ Len(s) + x \in 1 .. Len(j)
    <2>. SUFFICES ASSUME NEW x \in 1 .. Len(r)
                  PROVE  j[Len(s) + x] = r[x] /\ r[x] \in R /\ Len(s) + x \in 1 .. Len(j)
        OBVIOUS
    <2>1. Len(s) + x \in 1 .. Len(j) /\ ~(Len(s) + x <= Len(s)) /\ Len(s) + x - Len(s) = x
        BY <1>4
    <2>. QED  BY <1>4, <2>1 DEF Lists, Range
<1>7. \A x \in 1 .. Len(j) : x \in 1 .. Len(s) \/ \E y \in 1 .. Len(r) : x = Len(s) + y
    <2>. SUFFICES ASSUME NEW x \in 1 .. Len(j), x \notin 1 .. Len(s)
                  PROVE  \E y \in 1 .. Len(r) : x = Len(s) + y
        OBVIOUS
    <2>1. x - Len(s) \in 1 .. Len(r) /\ x = Len(s) + (x - Len(s))
        BY <1>4
    <2>. QED  BY <2>1
<1>8. Range(j) = S \cup R
    <2>1. \A z \in Range(j) : z \in S \cup R
        BY <1>4, <1>5, <1>6, <1>7 DEF Range
    <2>2. \A z \in S : z \in Range(j)
        BY <1>4, <1>5 DEF Range, Lists
    <2>3. ASSUME NEW z \in R PROVE z \in Range(j)
        <3>1. PICK x \in 1 .. Len(r) : r[x] = z
            BY <1>4 DEF Range, Lists
        <3>2. j[Len(s) + x] = z /\ Len(s) + x \in DOMAIN j
            BY <1>4, <1>6, <3>1
        <3>. QED  BY <3>2 DEF Range
    <2>. QED  BY <2>1, <2>2, <2>3
<1>9. ASSUME NEW x \in 1 .. Len(j), NEW y \in 1 .. Len(j), j[x] = j[y]
      PROVE  x = y
    <2>1. CASE x \in 1 .. Len(s) /\ y \in 1 .. Len(s)
        BY <1>5, <1>9, <2>1 DEF Lists
    <2>2. CASE x \notin 1 .. Len(s) /\ y \notin 1 .. Len(s)
        <3>1. PICK p \in 1 .. Len(r) : x = Len(s) + p
            BY <1>7, <2>2
        <3>2. PICK q \in 1 .. Len(r) : y = Len(s) + q
            BY <1>7, <2>2
        <3>3. r[p] = r[q]
            BY <1>6, <1>9, <3>1, <3>2
        <3>. QED  BY <3>1, <3>2, <3>3 DEF Lists
    <2>. QED  BY <1>5, <1>6, <1>7, <1>9, <2>1, <2>2
<1>. QED  BY <1>4, <1>8, <1>9 DEF Lists, IsSeq, j

LEMMA FreesAll ==
    ASSUME NEW s, Lists(s, owned), Frees(s)
    PROVE  owned' = {} /\ (~astray => ~astray')
<1>1. PICK S : s \in Seq(S)
    BY DEF Lists, IsSeq
<1>2. DOMAIN s = 1 .. Len(s) /\ Len(s) \in Nat
    BY <1>1
<1>3. \A n \in DOMAIN s : s[n] \in owned
    BY <1>2 DEF Lists, Range
<1>4. \A n \in DOMAIN s : \A o \in 1 .. n - 1 : s[o] # s[n]
    BY <1>2 DEF Lists
<1>. QED  BY <1>3, <1>4 DEF Frees, Lists

LEMMA CleanUpBooks ==
    ASSUME Books, CleanUp
    PROVE  Books'
<1>. DEFINE two == job.mode # "mtx-sq"
            l1 == Each(Main, <<"ws", "op_counts">>)
            l2 == IF have_ref THEN Each(Cref, Raw) ELSE <<>>
            l3 == Each(RawOf(1), Raw)
            l4 == IF two THEN Each(RawOf(2), Raw) ELSE <<>>
            l5 == Each(Parsed(1), Vecs)
            l6 == IF two THEN Each(Parsed(2), Vecs) ELSE <<>>
            s1 == Of(Main, {"ws", "op_counts"})
            s3 == Of(RawOf(1), RawBlocks)
            s4 == IF two THEN Of(RawOf(2), RawBlocks) ELSE {}
            s5 == Of(Parsed(1), Vectors)
            s6 == IF two THEN Of(Parsed(2), Vectors) ELSE {}
<1>1. /\ step = "timed" /\ step' = "done" /\ Frees(l1 \o l2 \o l3 \o l4 \o l5 \o l6)
      /\ UNCHANGED <<job, parsed, mats, have_ref, status, pc>>
    BY DEF CleanUp, all, main, vars, Ends
<1>2. /\ Lists(l1, s1) /\ Lists(l2, RefBlocks) /\ Lists(l3, s3)
      /\ Lists(l4, s4) /\ Lists(l5, s5) /\ Lists(l6, s6)
    <2>1. Lists(l1, s1)
        BY ListsTwo
    <2>2. \A o : Lists(Each(o, Raw), Of(o, RawBlocks)) /\ Lists(Each(o, Vecs), Of(o, Vectors))
        BY ListsThree DEF Raw, RawBlocks, Vecs, Vectors
    <2>. QED  BY <2>1, <2>2, ListsNothing DEF RefBlocks
<1>3. /\ s1 \cap RefBlocks = {}
      /\ (s1 \cup RefBlocks) \cap s3 = {}
      /\ (s1 \cup RefBlocks \cup s3) \cap s4 = {}
      /\ (s1 \cup RefBlocks \cup s3 \cup s4) \cap s5 = {}
      /\ (s1 \cup RefBlocks \cup s3 \cup s4 \cup s5) \cap s6 = {}
    <2>1. \A o, p, X, Y : o # p => Of(o, X) \cap Of(p, Y) = {}
        BY DEF Of
    <2>2. /\ Main # Cref /\ Main # RawOf(1) /\ Main # RawOf(2) /\ Main # Parsed(1) /\ Main # Parsed(2)
          /\ Cref # RawOf(1) /\ Cref # RawOf(2) /\ Cref # Parsed(1) /\ Cref # Parsed(2)
          /\ RawOf(1) # RawOf(2) /\ RawOf(1) # Parsed(1) /\ RawOf(1) # Parsed(2)
          /\ RawOf(2) # Parsed(1) /\ RawOf(2) # Parsed(2) /\ Parsed(1) # Parsed(2)
        BY DEF Main, Cref, RawOf, Parsed
    <2>3. RefBlocks = Of(Cref, RawBlocks) \/ RefBlocks = {}
        BY DEF RefBlocks
    <2>. QED  BY <2>1, <2>2, <2>3
<1>4. owned = s1 \cup RefBlocks \cup s3 \cup s4 \cup s5 \cup s6
    <2>1. owned = VectorBlocks \cup ArrayBlocks \cup Of(Main, {"op_counts", "ws"}) \cup RefBlocks
        BY <1>1 DEF Books, Ledger
    <2>2. Len(mats) = Len(parsed) /\ Len(parsed) = IF two THEN 2 ELSE 1
        BY <1>1 DEF Books, BuildsWhole, Expected
    <2>3. VectorBlocks = s5 \cup s6
        <3>1. CASE two
            <4>1. \A n : n \in 1 .. Len(parsed) <=> n = 1 \/ n = 2
                BY <2>2, <3>1
            <4>2. {Parsed(n) : n \in 1 .. Len(parsed)} = {Parsed(1), Parsed(2)}
                BY <4>1
            <4>. QED  BY <3>1, <4>2 DEF VectorBlocks, Of
        <3>2. CASE ~two
            <4>1. \A n : n \in 1 .. Len(parsed) <=> n = 1
                BY <2>2, <3>2
            <4>2. {Parsed(n) : n \in 1 .. Len(parsed)} = {Parsed(1)}
                BY <4>1
            <4>. QED  BY <3>2, <4>2 DEF VectorBlocks, Of
        <3>. QED  BY <3>1, <3>2
    <2>4. ArrayBlocks = s3 \cup s4
        <3>1. CASE two
            <4>1. \A n : n \in 1 .. Len(mats) <=> n = 1 \/ n = 2
                BY <2>2, <3>1
            <4>2. {RawOf(n) : n \in 1 .. Len(mats)} = {RawOf(1), RawOf(2)}
                BY <4>1
            <4>. QED  BY <3>1, <4>2 DEF ArrayBlocks, Of
        <3>2. CASE ~two
            <4>1. \A n : n \in 1 .. Len(mats) <=> n = 1
                BY <2>2, <3>2
            <4>2. {RawOf(n) : n \in 1 .. Len(mats)} = {RawOf(1)}
                BY <4>1
            <4>. QED  BY <3>2, <4>2 DEF ArrayBlocks, Of
        <3>. QED  BY <3>1, <3>2
    <2>5. s1 = Of(Main, {"op_counts", "ws"})
        BY DEF Of
    <2>. HIDE DEF s1, s3, s4, s5, s6
    <2>. QED  BY <2>1, <2>3, <2>4, <2>5
<1>. HIDE DEF l1, l2, l3, l4, l5, l6, s1, s3, s4, s5, s6, two
<1>5. Lists(l1 \o l2 \o l3 \o l4 \o l5 \o l6, owned)
    <2>1. Lists(l1 \o l2, s1 \cup RefBlocks)
        BY <1>2, <1>3, ListsJoin
    <2>2. Lists(l1 \o l2 \o l3, s1 \cup RefBlocks \cup s3)
        BY <1>2, <1>3, <2>1, ListsJoin
    <2>3. Lists(l1 \o l2 \o l3 \o l4, s1 \cup RefBlocks \cup s3 \cup s4)
        BY <1>2, <1>3, <2>2, ListsJoin
    <2>4. Lists(l1 \o l2 \o l3 \o l4 \o l5, s1 \cup RefBlocks \cup s3 \cup s4 \cup s5)
        BY <1>2, <1>3, <2>3, ListsJoin
    <2>5. Lists(l1 \o l2 \o l3 \o l4 \o l5 \o l6, s1 \cup RefBlocks \cup s3 \cup s4 \cup s5 \cup s6)
        BY <1>2, <1>3, <2>4, ListsJoin
    <2>. QED  BY <1>4, <2>5
<1>6. owned' = {} /\ ~astray'
    BY <1>1, <1>5, FreesAll DEF Books, Ledger
<1>7. AfterCheck' /\ LoadsInOrder' /\ Ledger'
    BY <1>1, <1>6 DEF Books, AfterCheck, LoadsInOrder, Ledger
<1>8. BuildsWhole'
    BY <1>1 DEF Books, BuildsWhole
<1>. QED  BY <1>7, <1>8 DEF Books

LEMMA BooksInit == BenchInit => Books
<1>. SUFFICES ASSUME BenchInit PROVE Books
    OBVIOUS
<1>1. /\ step = "off" /\ status = "running" /\ parsed = <<>> /\ mats = <<>>
      /\ owned = {} /\ ~astray /\ ~have_ref
    BY DEF BenchInit, ToolsInit
<1>2. IsSeq(<<>>) /\ Len(<<>>) = 0
    <2>1. <<>> \in Seq({})
        OBVIOUS
    <2>. QED  BY <2>1 DEF IsSeq
<1>. QED  BY <1>1, <1>2 DEF Books, AfterCheck, LoadsInOrder, BuildsWhole, Ledger

LEMMA BooksStep == Books /\ Loading /\ [BenchNext]_<<all, bench>> => Books'
<1>. SUFFICES ASSUME Books, Loading, [BenchNext]_<<all, bench>> PROVE Books'
    OBVIOUS
<1>1. CASE ToolsNext /\ UNCHANGED bench
    <2>1. step # "off" => UNCHANGED status /\ (pc = "idle" => pc' = "idle")
        BY <1>1, ToolsWhileBenched DEF Books, AfterCheck
    <2>2. ASSUME step = "off", status' \in {"ok", "bad", "usage"} PROVE pc' = "idle"
        <3>1. CASE UNCHANGED status
            <4>1. pc = "idle"
                BY <2>2, <3>1 DEF Books, AfterCheck
            <4>. QED  BY <1>1, <2>2, <3>1, <4>1, ToolsWhileBenched
        <3>2. CASE ~UNCHANGED status
            BY <1>1, <2>2, <3>2 DEF ToolsNext, Generate, Save, Usage, StartLoad, LoadStep,
               CheckLoaded, LoadFailed, Exit, main, vars
        <3>. QED  BY <3>1, <3>2
    <2>. QED  BY <1>1, <2>1, <2>2, BooksSame
<1>2. CASE UNCHANGED <<all, bench>>
    <2>1. UNCHANGED <<status, pc>>
        BY <1>2 DEF all, main, vars
    <2>. QED  BY <1>2, <2>1, BooksSame DEF Books, AfterCheck
<1>3. CASE RefuseArguments
    <2>1. /\ step = "load" /\ step' = "usage"
          /\ UNCHANGED <<job, parsed, mats, astray, have_ref, status, pc>>
        BY <1>3 DEF RefuseArguments, Ends, all, main, vars
    <2>. QED  BY <2>1, EndsBooks
<1>. QED
    BY <1>1, <1>2, <1>3, StartBenchBooks, BenchLoadBooks, BenchLoadedBooks, BenchGenerateBooks,
       LookAtLoadedBooks, BuildBooks, SetUpBooks, ReferenceBooks, IterationBooks, CleanUpBooks
       DEF BenchNext

\* Whichever allocation fails and whatever a kernel does, in every mode: what the
\* loader has allocated and not freed at its return is in the struct it hands over,
\* or is an array of a symmetric file that a failed realloc left without a pointer;
\* and a benchmark that comes to its end has freed each block exactly once, with A
\* and B one matrix or two.
THEOREM EverythingIsFreed == BenchSpec => []NothingLeaks
<1>1. BenchInit => Loading /\ Books
    BY LoadingInit, BooksInit
<1>2. Loading /\ Books /\ [BenchNext]_<<all, bench>> => (Loading /\ Books)'
    BY LoadingStep, BooksStep
<1>3. Loading /\ Books => NothingLeaks
    BY DEF Loading, HeapInv, HeapOnReturn, Done, Books, Ledger, NothingLeaks
<1>. QED  BY <1>1, <1>2, <1>3, PTL DEF BenchSpec

-------------------------------------------------------------------------------
(* What csr_check says of a file holds when the benchmark squares it *)

\* Every column the file means has a row: what csr_check asks of a square.
ColumnsFit == \A s \in Meant : s[2].col < M

\* The rows of a matrix that is returned whole end where the last one does, or before.
LoadedTyped ==
    Loaded => row_ptr \in [0 .. M -> Nat] /\ \A r \in 0 .. M : row_ptr[r] <= row_ptr[M]

\* A file on the command line is loaded as its contents say; one that was
\* generated need not be among Files.
LoadsNamed == pc # "idle" /\ file \in Files => Contents /\ LoadedTyped

\* As long as no check has failed, the columns of the last file fit its rows.
FitsSoFar ==
    /\ failures \in Nat
    /\ status = "running" /\ failures = 0 /\ pc = "idle" /\ file # NoFile /\ file \in Files => ColumnsFit
    /\ status = "ok" /\ step = "off" /\ file \in Files => ColumnsFit

\* Rows and columns of a matrix that was loaded whole and can be squared.
Sound(x) ==
    x.fields = Vectors =>
      /\ x.rows \in Nat /\ x.row_ptr \in [0 .. x.rows -> Nat] /\ x.row_ptr[0] = 0
      /\ \A r \in 0 .. x.rows - 1 : x.row_ptr[r] <= x.row_ptr[r + 1]
      /\ DOMAIN x.cells = 0 .. x.row_ptr[x.rows] - 1 /\ x.cols \in Nat
      /\ \A p \in DOMAIN x.cells :
           /\ x.cells[p].col \in Nat
           /\ x.cells[p].col < x.cols /\ x.cells[p].col < x.rows

\* The benchmark squares the file that was checked last.
SquareJob ==
    status = "ok" /\ step # "off" /\ job.mode = "mtx-sq" =>
      /\ file \in Files /\ job.files[1] = file /\ ColumnsFit
      /\ \A n \in 1 .. Len(parsed) : Sound(parsed[n])
      /\ \A n \in 1 .. Len(mats) :
           mats[n] = parsed[n] /\ mats[n].fields = Vectors /\ Accepted(mats[n])
      /\ step # "undefined"
      /\ step = "refused" => Len(parsed) = 1 /\ DOMAIN parsed[1].cells = {}

\* Max of naturals, 0 among them, is one of them and none is greater.
LEMMA MaxOfNaturals ==
    ASSUME NEW D, IsFiniteSet(D), NEW g, \A d \in D : g[d] \in Nat
    PROVE  LET S == {0} \cup {g[d] : d \in D}
           IN  Max(S) \in Nat /\ \A d \in D : g[d] <= Max(S)
<1>. DEFINE Tops(T) == {0} \cup {g[d] : d \in T}
            Reached == {T \in SUBSET D : \E m \in Tops(T) : m \in Nat /\ \A y \in Tops(T) : m >= y}
<1>1. {} \in Reached
    <2>1. Tops({}) = {0}
        OBVIOUS
    <2>. QED  BY <2>1
<1>2. ASSUME NEW T \in SUBSET D, T \in Reached, NEW x \in D \ T
      PROVE  T \cup {x} \in Reached
    <2>1. PICK m \in Tops(T) : m \in Nat /\ \A y \in Tops(T) : m >= y
        BY <1>2
    <2>2. Tops(T \cup {x}) = Tops(T) \cup {g[x]} /\ g[x] \in Nat /\ T \cup {x} \in SUBSET D
        OBVIOUS
    <2>. HIDE DEF Tops
    <2>3. CASE g[x] >= m
        <3>1. \A y \in Tops(T) : y \in Nat
            BY DEF Tops
        <3>2. \A y \in Tops(T) \cup {g[x]} : g[x] >= y
            BY <2>1, <2>2, <2>3, <3>1
        <3>. QED  BY <2>2, <3>2
    <2>4. CASE ~(g[x] >= m)
        <3>1. \A y \in Tops(T) \cup {g[x]} : m >= y
            BY <2>1, <2>2, <2>4
        <3>. QED  BY <2>1, <2>2, <3>1
    <2>. QED  BY <2>3, <2>4
<1>3. D \in Reached
    <2>. HIDE DEF Reached
    <2>. QED  BY <1>1, <1>2, SetInduction
<1>4. PICK m \in Tops(D) : m \in Nat /\ \A y \in Tops(D) : m >= y
    BY <1>3
<1>5. Max(Tops(D)) \in Tops(D) /\ \A y \in Tops(D) : Max(Tops(D)) >= y
    <2>. HIDE DEF Tops
    <2>. QED  BY <1>4 DEF Max
<1>. QED  BY <1>5

LEMMA MeantFacts ==
    ASSUME file \in Files
    PROVE  \A s \in Meant : s[2] \in EntryType /\ s[2].row \in 0 .. M - 1
<1>1. /\ M \in Nat /\ Held \in Nat /\ Stored = Lines(Held)
      /\ \A s \in Meant : s[2] \in EntryType
    BY FileFacts, LineFacts
<1>2. ASSUME NEW s \in Stored
      PROVE  /\ s[2].row < M /\ (is_symmetric => s[2].col < M)
    <2>1. PICK e \in 1 .. Held : s = <<e, ZeroBased(file.entries[e])>>
        BY <1>1, <1>2 DEF Lines
    <2>2. e \in 1 .. Len(file.entries)
        BY FileFacts, LineFacts
    <2>. QED  BY <2>1, <2>2, FileFacts DEF ZeroBased
<1>3. \A s \in Meant : s[2].row < M
    <2>. SUFFICES ASSUME NEW s \in Meant PROVE s[2].row < M
        OBVIOUS
    <2>1. CASE s \in Stored
        BY <1>2, <2>1
    <2>2. ASSUME NEW q \in Stored, is_symmetric, s = <<-q[1], Mirror(q[2])>>
          PROVE  s[2].row < M
        BY <1>2, <2>2 DEF Mirror
    <2>. QED  BY <2>1, <2>2 DEF Meant
<1>. QED  BY <1>1, <1>3 DEF EntryType

\* Every cell lies in a row.
LEMMA InSomeRow ==
    ASSUME NEW m \in Nat, NEW rp \in [0 .. m -> Nat], rp[0] = 0, NEW p \in 0 .. rp[m] - 1
    PROVE  \E r \in 0 .. m - 1 : p \in rp[r] .. rp[r + 1] - 1
<1>. DEFINE T == {r \in 0 .. m : p < rp[r]}
<1>1. T \in SUBSET Nat /\ m \in T
    OBVIOUS
<1>2. PICK x \in T : \A y \in T : x <= y
    <2>. HIDE DEF T
    <2>. QED  BY <1>1, Least
<1>3. x \in 0 .. m /\ p < rp[x] /\ x # 0 /\ x - 1 \notin T
    BY <1>2
<1>4. x - 1 \in 0 .. m - 1 /\ rp[x - 1] <= p
    BY <1>3
<1>. QED  BY <1>3, <1>4

LEMMA WellFormedWhen ==
    ASSUME NEW y, y.absent = {}, y.rows > 0, y.cols > 0, y.nnz >= 0, y.row_ptr[0] = 0, y.row_ptr[y.rows] = y.nnz,
           \A r \in 0 .. y.rows - 1 : y.row_ptr[r] <= y.row_ptr[r + 1],
           \A p \in 0 .. y.nnz - 1 : y.col_idx[p] \in 0 .. y.cols - 1
    PROVE  Check(y)!WellFormed
BY DEF Check!WellFormed, Check!Monotone, Check!row_ptr, Check!Arrays

\* A matrix that can be squared is refused only for being empty.
LEMMA SoundAccepted ==
    ASSUME NEW x, Sound(x), x.fields = Vectors, ~Accepted(x)
    PROVE  DOMAIN x.cells = {}
<1>. SUFFICES ASSUME DOMAIN x.cells # {} PROVE FALSE
    OBVIOUS
<1>1. /\ x.rows \in Nat /\ x.row_ptr \in [0 .. x.rows -> Nat] /\ x.row_ptr[0] = 0
      /\ \A r \in 0 .. x.rows - 1 : x.row_ptr[r] <= x.row_ptr[r + 1]
      /\ DOMAIN x.cells = 0 .. x.row_ptr[x.rows] - 1 /\ x.cols \in Nat
      /\ \A p \in DOMAIN x.cells : x.cells[p].col \in Nat /\ x.cells[p].col < x.cols
    BY DEF Sound
<1>2. x.rows > 0 /\ x.cols > 0
    BY <1>1
<1>3. PICK y : y = AsCsr(x)
    OBVIOUS
<1>4. /\ y.rows = x.rows /\ y.cols = x.cols /\ y.nnz = x.row_ptr[x.rows] /\ y.row_ptr = x.row_ptr
      /\ y.absent = {} /\ \A p \in 0 .. y.nnz - 1 : y.col_idx[p] = x.cells[p].col
    BY <1>1, <1>3 DEF AsCsr
<1>5. Check(y)!WellFormed
    <2>1. \A r \in 0 .. y.rows - 1 : y.row_ptr[r] <= y.row_ptr[r + 1]
        BY <1>1, <1>4
    <2>2. \A p \in 0 .. y.nnz - 1 : y.col_idx[p] \in 0 .. y.cols - 1
        <3>. SUFFICES ASSUME NEW p \in 0 .. y.nnz - 1 PROVE y.col_idx[p] \in 0 .. y.cols - 1
            OBVIOUS
        <3>1. p \in DOMAIN x.cells
            BY <1>1, <1>4
        <3>2. x.cells[p].col \in Nat /\ x.cells[p].col < x.cols /\ x.cols \in Nat
            BY <1>1, <3>1
        <3>3. y.col_idx[p] = x.cells[p].col /\ y.cols = x.cols
            BY <1>4
        <3>. QED  BY <3>2, <3>3
    <2>3. y.row_ptr[0] = 0 /\ y.row_ptr[y.rows] = y.nnz /\ y.rows > 0 /\ y.cols > 0 /\ y.nnz >= 0
        BY <1>1, <1>2, <1>4
    <2>. QED  BY <1>4, <2>1, <2>2, <2>3, WellFormedWhen
<1>. QED  BY <1>2, <1>3, <1>5 DEF Accepted

LEMMA FileStays == Next => UNCHANGED file
BY DEF Next, Open, ReadSizes, AllocCoo, ReadEntry, CloseFile, Expand, MirrorEntry, MirrorDone,
       CountRows, AddRowEnd, AllocCursor, Scatter, ScatterDone, AllocBuffers, SortRow,
       OpenGroup, AddToGroup, CloseGroup, EndRow, FinishRows

LEMMA TypedStep ==
    ASSUME IInv, LoadedTyped, [Next]_vars
    PROVE  LoadedTyped'
<1>. USE DEF IInv
<1>1. CASE pc' # "done" \/ matrix' # Vectors
    BY <1>1 DEF LoadedTyped, Loaded, Done
<1>2. CASE Open \/ ReadSizes \/ AllocCoo \/ ReadEntry \/ CloseFile \/ Expand \/ MirrorEntry \/ MirrorDone
    BY <1>1, <1>2 DEF Open, ReadSizes, AllocCoo, ReadEntry, CloseFile, Expand, MirrorEntry, MirrorDone,
       Returns, Vectors
<1>3. CASE CountRows \/ AddRowEnd \/ Scatter \/ ScatterDone \/ AllocBuffers \/ SortRow
           \/ OpenGroup \/ AddToGroup \/ CloseGroup \/ EndRow
    BY <1>1, <1>3 DEF CountRows, AddRowEnd, Scatter, ScatterDone, AllocBuffers, SortRow,
       OpenGroup, AddToGroup, CloseGroup, EndRow, Returns, Vectors
<1>4. CASE AllocCursor
    <2>1. pc' # "done" \/ (matrix' = matrix /\ matrix = {"row_ptr"})
        BY <1>4 DEF AllocCursor, Returns, HeapInv
    <2>. QED  BY <1>1, <2>1 DEF Vectors
<1>5. CASE FinishRows
    <2>1. pc = "row" /\ i >= M /\ row_ptr' = new_rp /\ UNCHANGED <<file, i>>
        BY <1>5 DEF FinishRows
    <2>2. i = M /\ M' = M
        BY <2>1, RowFacts DEF Folding, M
    <2>3. new_rp \in [0 .. i -> Nat] /\ \A r \in 0 .. i : new_rp[r] <= new_rp[i]
        BY <2>1 DEF FoldInv, FoldedRows, RowAtHand, Folding
    <2>. QED  BY <2>1, <2>2, <2>3 DEF LoadedTyped
<1>6. CASE UNCHANGED vars
    BY <1>6 DEF LoadedTyped, Loaded, Done, M, vars, heap
<1>. QED  BY <1>2, <1>3, <1>4, <1>5, <1>6 DEF Next

\* Of a matrix that is loaded whole: its columns are below cols, and are below
\* the number of rows just when those of the file are.
LEMMA LoadedFacts ==
    ASSUME Contents, LoadedTyped, Loaded
    PROVE  /\ M \in Nat /\ row_ptr \in [0 .. M -> Nat] /\ row_ptr[0] = 0
           /\ \A r \in 0 .. M - 1 : row_ptr[r] <= row_ptr[r + 1]
           /\ DOMAIN cells = 0 .. row_ptr[M] - 1 /\ cols \in Nat
           /\ \A p \in DOMAIN cells : cells[p].col \in Nat /\ cells[p].col < cols
           /\ cols <= M => ColumnsFit
           /\ ColumnsFit => \A p \in DOMAIN cells : cells[p].col < M
<1>1. file \in Files /\ Shaped /\ row_ptr \in [0 .. M -> Nat]
    BY DEF Contents, IInv, TypeInv, TypeOK, FoldInv, CanonicalWhenLoaded, LoadedTyped
<1>2. /\ M \in Nat /\ row_ptr[0] = 0 /\ DOMAIN cells = 0 .. row_ptr[M] - 1
      /\ \A r \in 0 .. M - 1 : row_ptr[r] <= row_ptr[r + 1]
    BY <1>1, FileFacts DEF Shaped
<1>3. \A r \in 0 .. M - 1 :
        {cells[p].col : p \in row_ptr[r] .. row_ptr[r + 1] - 1} = {s[2].col : s \in InRow(Meant, r)}
    BY DEF Contents, SaysInv, LoadedHold, Holds, Folds, ColsAt, Text, InRow
<1>4. ASSUME NEW p \in DOMAIN cells
      PROVE  \E s \in Meant : cells[p].col = s[2].col
    <2>1. PICK r \in 0 .. M - 1 : p \in row_ptr[r] .. row_ptr[r + 1] - 1
        BY <1>1, <1>2, InSomeRow
    <2>2. cells[p].col \in {s[2].col : s \in InRow(Meant, r)}
        BY <1>3, <2>1
    <2>. QED  BY <2>2 DEF InRow
<1>5. ASSUME NEW s \in Meant
      PROVE  \E p \in DOMAIN cells : cells[p].col = s[2].col
    <2>1. PICK r \in 0 .. M - 1 : r = s[2].row
        BY <1>1, MeantFacts
    <2>2. s[2].col \in {cells[p].col : p \in row_ptr[r] .. row_ptr[r + 1] - 1}
        BY <1>3, <2>1 DEF InRow
    <2>3. PICK p \in row_ptr[r] .. row_ptr[r + 1] - 1 : cells[p].col = s[2].col
        BY <2>2
    <2>4. row_ptr[r + 1] <= row_ptr[M]
        <3>1. r + 1 \in 0 .. M
            BY <1>2
        <3>. QED  BY <3>1 DEF LoadedTyped
    <2>5. p \in 0 .. row_ptr[M] - 1
        <3>1. r \in 0 .. M /\ r + 1 \in 0 .. M /\ M \in 0 .. M
            BY <1>2
        <3>2. row_ptr[r] \in Nat /\ row_ptr[r + 1] \in Nat /\ row_ptr[M] \in Nat
            BY <1>1, <3>1
        <3>. QED  BY <2>3, <2>4, <3>2
    <2>. QED  BY <1>2, <2>3, <2>5
<1>6. cols \in Nat /\ \A p \in DOMAIN cells : cells[p].col \in Nat /\ cells[p].col < cols
    <2>1. \A p \in DOMAIN cells : cells[p].col \in Nat
        <3>1. \A s \in Meant : s[2].col \in Nat
            BY <1>1, MeantFacts DEF EntryType
        <3>. QED  BY <1>4, <3>1
    <2>. DEFINE g == [p \in DOMAIN cells |-> cells[p].col + 1]
    <2>2. IsFiniteSet(DOMAIN cells)
        <3>1. row_ptr[M] - 1 \in Int
            BY <1>1, <1>2
        <3>. QED  BY <1>2, <3>1, FS_Interval
    <2>3. \A p \in DOMAIN cells : g[p] \in Nat /\ g[p] = cells[p].col + 1
        BY <2>1
    <2>4. {g[p] : p \in DOMAIN cells} = {cells[p].col + 1 : p \in DOMAIN cells}
        BY <2>3
    <2>. HIDE DEF g
    <2>5. Max({0} \cup {g[p] : p \in DOMAIN cells}) = cols
        BY <2>4 DEF cols
    <2>6. cols \in Nat /\ \A p \in DOMAIN cells : g[p] <= cols
        BY <2>2, <2>3, <2>5, MaxOfNaturals
    <2>. QED  BY <2>1, <2>3, <2>6
<1>7. ASSUME cols <= M
      PROVE  ColumnsFit
    <2>. SUFFICES ASSUME NEW s \in Meant PROVE s[2].col < M
        BY DEF ColumnsFit
    <2>1. PICK p \in DOMAIN cells : cells[p].col = s[2].col
        BY <1>5
    <2>. QED  BY <1>2, <1>6, <1>7, <2>1
<1>8. ASSUME ColumnsFit, NEW p \in DOMAIN cells
      PROVE  cells[p].col < M
    BY <1>4, <1>8 DEF ColumnsFit
<1>. QED  BY <1>1, <1>2, <1>6, <1>7, <1>8

LEMMA NamedStep == Loading /\ LoadsNamed /\ [BenchNext]_<<all, bench>> => LoadsNamed'
<1>. SUFFICES ASSUME Loading, LoadsNamed, [BenchNext]_<<all, bench>>, pc' # "idle", file' \in Files
              PROVE  Contents' /\ LoadedTyped'
    BY DEF LoadsNamed
<1>1. CASE [Next]_vars
    <2>1. pc # "idle" /\ file \in Files
        BY <1>1, LoaderActs, FileStays DEF vars
    <2>2. Contents /\ LoadedTyped
        BY <2>1 DEF LoadsNamed
    <2>. QED  BY <1>1, <2>2, ContentsStep, TypedStep DEF Contents
<1>2. CASE BeginsLoad
    <2>1. Init'
        BY <1>2 DEF BeginsLoad, ClearLocals, Loading, Init
    <2>2. Init' => Contents'
        BY ContentsInit, PTL
    <2>. QED  BY <1>2, <2>1, <2>2 DEF BeginsLoad, LoadedTyped, Loaded, Done
<1>3. CASE EndsLoad
    BY <1>3 DEF EndsLoad
<1>. QED  BY <1>1, <1>2, <1>3, LoaderStep DEF Loading

LEMMA SameColumns ==
    ASSUME UNCHANGED file
    PROVE  ColumnsFit' <=> ColumnsFit
BY SameText DEF ColumnsFit

\* What the tools do to the file and to what has been found of it.
LEMMA FitsWhileChecked ==
    ASSUME Loading, LoadsNamed, Books, FitsSoFar, ToolsNext, UNCHANGED bench
    PROVE  FitsSoFar'
<1>. USE DEF FitsSoFar
<1>0. UNCHANGED step
    BY DEF bench
<1>1. CASE Generate \/ Save
    <2>1. UNCHANGED <<file, pc, failures, status>>
        BY <1>1 DEF Generate, Save, vars, main
    <2>. QED  BY <1>0, <2>1, SameColumns
<1>2. CASE Usage
    BY <1>2 DEF Usage
<1>3. CASE StartLoad
    BY <1>3 DEF StartLoad, Running
<1>4. CASE LoadStep
    <2>1. UNCHANGED <<failures, status, file>> /\ pc' # "idle"
        BY <1>4, LoaderActs, FileStays DEF LoadStep, main
    <2>. QED  BY <1>0, <2>1, SameColumns
<1>5. CASE CheckLoaded
    <2>1. /\ status = "running" /\ UNCHANGED <<status, file>> /\ pc = "done"
          /\ {"row_ptr", "col_ind"} \subseteq matrix
        BY <1>5 DEF CheckLoaded, Running
    <2>2. PICK c \in {0, 1} : failures' = failures + c + (IF NotSquarable THEN 1 ELSE 0)
        BY <1>5 DEF CheckLoaded
    <2>3. failures' \in Nat /\ (failures' = 0 => failures = 0 /\ ~NotSquarable)
        BY <2>2
    <2>4. ASSUME file \in Files, ~NotSquarable
          PROVE  ColumnsFit
        <3>1. Contents /\ LoadedTyped
            BY <2>1, <2>4 DEF LoadsNamed
        <3>2. Loaded
            BY <2>1 DEF Loaded, Done, Loading, Shapes
        <3>3. M \in Nat /\ cols \in Nat
            BY <3>1, <3>2, LoadedFacts
        <3>. QED  BY <2>4, <3>1, <3>2, <3>3, LoadedFacts DEF NotSquarable
    <2>. QED  BY <2>1, <2>3, <2>4, SameColumns
<1>6. CASE LoadFailed
    BY <1>6 DEF LoadFailed
<1>7. CASE Exit
    <2>1. /\ status = "running" /\ pc = "idle" /\ file # NoFile /\ UNCHANGED <<file, failures>>
          /\ status' = IF failures > 0 THEN "bad" ELSE "ok"
        BY <1>7 DEF Exit, Running, vars
    <2>2. status' = "ok" => failures = 0
        BY <2>1
    <2>. QED  BY <1>0, <2>1, <2>2, SameColumns
<1>. QED  BY <1>1, <1>2, <1>3, <1>4, <1>5, <1>6, <1>7 DEF ToolsNext

LEMMA FitsStep ==
    ASSUME Loading, LoadsNamed, Books, FitsSoFar, [BenchNext]_<<all, bench>>
    PROVE  FitsSoFar'
<1>1. CASE ToolsNext /\ UNCHANGED bench
    BY <1>1, FitsWhileChecked
<1>2. CASE UNCHANGED <<all, bench>>
    <2>1. UNCHANGED <<file, pc, failures, status, step>>
        BY <1>2 DEF all, vars, main, bench
    <2>. QED  BY <2>1, SameColumns DEF FitsSoFar
<1>3. CASE StartBench
    <2>1. UNCHANGED <<file, pc, failures, status>> /\ step' = "load"
        BY <1>3 DEF StartBench, all, vars, main
    <2>. QED  BY <2>1, SameColumns DEF FitsSoFar
<1>4. CASE RefuseArguments \/ BenchLoad \/ BenchLoaded \/ BenchGenerate \/ LookAtLoaded \/ Build \/ SetUp
           \/ Reference \/ Warmup \/ WarmupDone \/ TimedRun \/ CleanUp
    <2>1. step # "off" /\ step' # "off" /\ UNCHANGED <<failures, status>>
        BY <1>4 DEF RefuseArguments, BenchLoad, BenchLoaded, BenchGenerate, LookAtLoaded,
           Build, SetUp, Reference, Warmup, WarmupDone, TimedRun, CleanUp, ReadsPast, Ends,
           all, main, bench
    <2>2. status # "running"
        BY <2>1 DEF Books, AfterCheck
    <2>. QED  BY <2>1, <2>2 DEF FitsSoFar
<1>. QED  BY <1>1, <1>2, <1>3, <1>4 DEF BenchNext

\* A job that squares a file loads that one and no other.
LEMMA SquareFacts ==
    ASSUME Books, job \in Jobs, job.mode = "mtx-sq"
    PROVE  /\ Expected = 1 /\ job.files \in Seq(Files) /\ Len(job.files) = 1
           /\ Len(parsed) \in Nat /\ Len(mats) \in Nat
<1>1. Len(parsed) \in Nat /\ Len(mats) \in Nat
    BY AppendFacts DEF Books, BuildsWhole
<1>. QED  BY <1>1, JobsAssumption DEF Expected

LEMMA StartBenchSquares ==
    ASSUME Books, FitsSoFar, StartBench
    PROVE  SquareJob'
<1>. SUFFICES ASSUME status' = "ok", job'.mode = "mtx-sq" PROVE SquareJob'
    BY DEF SquareJob
<1>1. /\ step = "off" /\ step' = "load" /\ job' \in Jobs /\ UNCHANGED <<file, status, parsed, mats>>
      /\ IF job'.files = <<>> THEN file = NoFile ELSE Head(job'.files) = file
    BY DEF StartBench, all, vars, main
<1>2. job'.files \in Seq(Files) /\ Len(job'.files) = 1
    BY <1>1, JobsAssumption
<1>3. job'.files # <<>> /\ Head(job'.files) = job'.files[1] /\ job'.files[1] \in Files
    BY <1>2
<1>4. file \in Files /\ ColumnsFit
    BY <1>1, <1>3 DEF FitsSoFar
<1>5. parsed = <<>> /\ mats = <<>>
    BY <1>1 DEF Books, AfterCheck
<1>. QED  BY <1>1, <1>3, <1>4, <1>5, SameColumns DEF SquareJob

LEMMA BenchLoadedSquares ==
    ASSUME Loading, LoadsNamed, Books, SquareJob, BenchLoaded
    PROVE  SquareJob'
<1>. SUFFICES ASSUME status' = "ok", job'.mode = "mtx-sq" PROVE SquareJob'
    BY DEF SquareJob
<1>. DEFINE x == [fields |-> matrix, rows |-> M, cols |-> cols, row_ptr |-> row_ptr, cells |-> cells]
<1>1. /\ step = "load" /\ pc = "done" /\ parsed' = Append(parsed, x)
      /\ UNCHANGED <<file, status, job, step, mats>>
    BY DEF BenchLoaded, main
<1>2. /\ file \in Files /\ job.files[1] = file /\ ColumnsFit
      /\ \A n \in 1 .. Len(parsed) : Sound(parsed[n])
    BY <1>1 DEF SquareJob
<1>3. Sound(x)
    <2>. SUFFICES ASSUME matrix = Vectors PROVE Sound(x)
        BY DEF Sound
    <2>1. Contents /\ LoadedTyped /\ Loaded
        BY <1>1, <1>2 DEF LoadsNamed, Loaded, Done
    <2>. QED  BY <1>2, <2>1, LoadedFacts DEF Sound
<1>. HIDE DEF x
<1>4. mats = <<>> /\ mats' = <<>>
    BY <1>1 DEF Books, LoadsInOrder
<1>5. \A n \in 1 .. Len(parsed') : Sound(parsed'[n])
    <2>1. /\ Len(parsed) \in Nat /\ Len(parsed') = Len(parsed) + 1 /\ parsed'[Len(parsed) + 1] = x
          /\ \A n \in 1 .. Len(parsed) : parsed'[n] = parsed[n]
        BY <1>1, AppendFacts DEF Books, BuildsWhole
    <2>2. \A n \in 1 .. Len(parsed') : n \in 1 .. Len(parsed) \/ n = Len(parsed) + 1
        BY <2>1
    <2>. QED  BY <1>2, <1>3, <2>1, <2>2
<1>6. \A n \in 1 .. Len(parsed') : Sound(parsed[n])'
    BY <1>5 DEF Sound, Vectors
<1>. QED  BY <1>1, <1>2, <1>4, <1>6, SameColumns DEF SquareJob

LEMMA BuildSquares ==
    ASSUME Books, SquareJob, Build
    PROVE  SquareJob'
<1>. SUFFICES ASSUME status' = "ok", job'.mode = "mtx-sq" PROVE SquareJob'
    BY DEF SquareJob
<1>. DEFINE x == parsed[Turn]
<1>1. /\ step = "build" /\ Len(mats) < Len(parsed) /\ UNCHANGED <<file, status, job, parsed>>
      /\ \/ step' \in {"crashed", "failed"} /\ UNCHANGED mats
         \/ "col_ind" \in x.fields /\ ~Accepted(x) /\ step' = "refused" /\ UNCHANGED mats
         \/ "col_ind" \in x.fields /\ Accepted(x) /\ mats' = Append(mats, x) /\ UNCHANGED step
    BY DEF Build, all, vars, main, Ends
<1>2. /\ file \in Files /\ job.files[1] = file /\ ColumnsFit /\ job \in Jobs
      /\ \A n \in 1 .. Len(parsed) : Sound(parsed[n])
      /\ \A n \in 1 .. Len(mats) : mats[n] = parsed[n] /\ mats[n].fields = Vectors /\ Accepted(mats[n])
    BY <1>1 DEF SquareJob, Books, AfterCheck
<1>3. Len(parsed) = 1 /\ Len(mats) = 0 /\ Turn = 1 /\ IsSeq(mats) /\ x = parsed[1]
    BY <1>1, <1>2, SquareFacts DEF Books, BuildsWhole, Turn
<1>4. "col_ind" \in x.fields => x.fields = Vectors
    BY <1>3 DEF Books, BuildsWhole
<1>5. CASE step' \in {"crashed", "failed"} /\ UNCHANGED mats
    BY <1>1, <1>2, <1>5, SameColumns DEF SquareJob
<1>6. CASE "col_ind" \in x.fields /\ ~Accepted(x) /\ step' = "refused" /\ UNCHANGED mats
    <2>1. DOMAIN parsed[1].cells = {}
        BY <1>2, <1>3, <1>4, <1>6, SoundAccepted
    <2>. QED  BY <1>1, <1>2, <1>3, <1>6, <2>1, SameColumns DEF SquareJob
<1>7. CASE "col_ind" \in x.fields /\ Accepted(x) /\ mats' = Append(mats, x) /\ UNCHANGED step
    <2>1. Len(mats') = 1 /\ mats'[1] = parsed[1]
        BY <1>3, <1>7, AppendFacts
    <2>2. \A n \in 1 .. Len(mats') : mats'[n] = parsed[n] /\ mats'[n].fields = Vectors /\ Accepted(mats[n])'
        <3>1. \A n \in 1 .. 1 : n = 1
            OBVIOUS
        <3>. QED  BY <1>3, <1>4, <1>7, <2>1, <3>1
    <2>. QED  BY <1>1, <1>2, <1>7, <2>2, SameColumns DEF SquareJob
<1>. QED  BY <1>1, <1>5, <1>6, <1>7

\* The one matrix is A and B, accepted, and its columns are rows of it.
LEMMA SquareInside ==
    ASSUME Books, SquareJob, status = "ok", job \in Jobs, job.mode = "mtx-sq",
           step \in {"build", "reference", "warmup", "timed"}, Len(mats) = Len(parsed)
    PROVE  Accepted(A) /\ Accepted(B) /\ InsideB
<1>1. Len(mats) = 1 /\ A = mats[1] /\ B = mats[1]
    BY SquareFacts DEF Books, BuildsWhole, A, B
<1>2. mats[1] = parsed[1] /\ mats[1].fields = Vectors /\ Accepted(mats[1]) /\ Sound(parsed[1])
    BY <1>1 DEF SquareJob
<1>3. \A p \in DOMAIN A.cells : A.cells[p].col < B.rows
    BY <1>1, <1>2 DEF Sound
<1>. QED  BY <1>1, <1>2, <1>3 DEF InsideB

\* What keeps the matrices has only to say where main goes.
LEMMA SquareStays ==
    ASSUME SquareJob, step # "off", UNCHANGED <<file, status, job, parsed, mats>>,
           step' \notin {"undefined", "refused"} \/ UNCHANGED step
    PROVE  SquareJob'
BY SameColumns DEF SquareJob, Sound, Vectors

LEMMA SquareStep ==
    ASSUME Loading, LoadsNamed, Books, FitsSoFar, SquareJob, [BenchNext]_<<all, bench>>
    PROVE  SquareJob'
<1>. SUFFICES ASSUME status' = "ok", job'.mode = "mtx-sq", step' # "off" PROVE SquareJob'
    BY DEF SquareJob
<1>1. CASE StartBench
    BY <1>1, StartBenchSquares
<1>2. CASE BenchLoaded
    BY <1>2, BenchLoadedSquares
<1>3. CASE Build
    BY <1>3, BuildSquares
<1>4. CASE ToolsNext /\ UNCHANGED bench
    <2>1. step # "off" /\ UNCHANGED <<job, parsed, mats, step>>
        BY <1>4 DEF bench
    <2>2. status # "running"
        BY <2>1 DEF Books, AfterCheck
    <2>3. UNCHANGED status
        BY <1>4, <2>2, ToolsWhileBenched
    <2>4. UNCHANGED file
        BY <1>4, <2>2, FileStays DEF ToolsNext, Generate, Save, Usage, StartLoad, LoadStep, CheckLoaded,
           LoadFailed, Exit, Running, vars
    <2>. QED  BY <2>1, <2>3, <2>4, SquareStays
<1>5. CASE UNCHANGED <<all, bench>>
    <2>1. UNCHANGED <<file, status, job, parsed, mats, step>>
        BY <1>5 DEF all, vars, main, bench
    <2>. QED  BY <2>1, SquareStays
<1>6. CASE BenchLoad
    <2>1. /\ step = "load" /\ Len(parsed) < Len(job.files) /\ file' = job.files[Len(parsed) + 1]
          /\ UNCHANGED <<status, job, parsed, mats, step>>
        BY <1>6 DEF BenchLoad, main, bench
    <2>2. job \in Jobs
        BY <2>1 DEF Books, AfterCheck
    <2>3. Len(parsed) = 0
        BY <2>1, <2>2, SquareFacts
    <2>4. UNCHANGED file
        BY <2>1, <2>3 DEF SquareJob
    <2>. QED  BY <2>1, <2>4, SquareStays
<1>7. CASE BenchGenerate
    BY <1>7 DEF BenchGenerate
<1>8. CASE RefuseArguments \/ LookAtLoaded \/ WarmupDone \/ CleanUp
    <2>1. /\ step # "off" /\ step' \notin {"undefined", "refused"}
          /\ UNCHANGED <<file, status, job, parsed, mats>>
        BY <1>8 DEF RefuseArguments, LookAtLoaded, WarmupDone, CleanUp, Ends, all, vars, main
    <2>. QED  BY <2>1, SquareStays
<1>9. CASE SetUp
    <2>1. /\ step = "build" /\ Len(mats) = Len(parsed)
          /\ UNCHANGED <<file, status, job, parsed, mats>>
          /\ step' \notin {"undefined", "refused"} \/ ~Accepted(A) \/ ~Accepted(B)
        BY <1>9 DEF SetUp, Ends, all, vars, main
    <2>2. job \in Jobs
        BY <2>1 DEF Books, AfterCheck
    <2>. QED  BY <2>1, <2>2, SquareInside, SquareStays
<1>10. CASE Reference \/ Warmup \/ TimedRun
    <2>1. /\ step \in {"reference", "warmup", "timed"}
          /\ UNCHANGED <<file, status, job, parsed, mats>>
          /\ step' \notin {"undefined", "refused"} \/ ~InsideB
        BY <1>10 DEF Reference, Warmup, TimedRun, ReadsPast, Ends, all, vars, main
    <2>2. job \in Jobs /\ Len(mats) = Len(parsed)
        BY <2>1 DEF Books, AfterCheck, BuildsWhole
    <2>. QED  BY <2>1, <2>2, SquareInside, SquareStays
<1>. QED  BY <1>1, <1>2, <1>3, <1>4, <1>5, <1>6, <1>7, <1>8, <1>9, <1>10 DEF BenchNext

\* Both programs load each file on their command line as it is, one after the
\* other, whatever was loaded before it.
THEOREM NamedAsStored == BenchSpec => [](file \in Files => LoadsWhatIsStored)
<1>1. BenchInit => Loading /\ LoadsNamed
    BY LoadingInit DEF BenchInit, ToolsInit, LoadsNamed
<1>2. Loading /\ LoadsNamed /\ [BenchNext]_<<all, bench>> => (Loading /\ LoadsNamed)'
    BY LoadingStep, NamedStep
<1>3. Loading /\ LoadsNamed => (file \in Files => LoadsWhatIsStored)
    BY ContentsSay DEF LoadsNamed, LoadsWhatIsStored, Loaded, Done
<1>. QED  BY <1>1, <1>2, <1>3, PTL DEF BenchSpec

\* The remark of csr_check.c, line 117, for every file and whatever else was
\* checked before it: a file that csr_check passed is squared inside its arrays,
\* however often, and is refused only when it has no entries.
THEOREM CheckedIsSquared == BenchSpec => []CheckedCanBeSquared
<1>. DEFINE Squaring == Loading /\ Books /\ LoadsNamed /\ FitsSoFar /\ SquareJob
<1>1. BenchInit => Squaring
    <2>. SUFFICES ASSUME BenchInit PROVE Squaring
        OBVIOUS
    <2>1. /\ pc = "idle" /\ file = NoFile /\ failures = 0 /\ status = "running" /\ step = "off"
        BY DEF BenchInit, ToolsInit
    <2>. QED  BY <2>1, LoadingInit, BooksInit DEF LoadsNamed, FitsSoFar, SquareJob
<1>2. Squaring /\ [BenchNext]_<<all, bench>> => Squaring'
    BY LoadingStep, BooksStep, NamedStep, FitsStep, SquareStep
<1>3. Squaring => CheckedCanBeSquared
    <2>. SUFFICES ASSUME Squaring, status = "ok", job.mode = "mtx-sq"
                  PROVE  /\ step # "undefined"
                         /\ step = "refused" => Len(parsed) = 1 /\ DOMAIN parsed[1].cells = {}
        BY DEF CheckedCanBeSquared
    <2>. QED  BY DEF SquareJob
<1>. HIDE DEF Squaring
<1>. QED  BY <1>1, <1>2, <1>3, PTL DEF BenchSpec

-------------------------------------------------------------------------------
(* The generator among the tools *)

\* No file is generated when the command line names files.
Unused == gpc = "unused" /\ DOMAIN indices = {} /\ callocs = 0

LEMMA GeneratorStep ==
    ASSUME [BenchNext]_<<all, bench>>
    PROVE  [Gen!Next]_Gen!vars \/ (Save /\ gpc = "made" /\ gpc' \in {"saved", "unsaved"})
<1>. USE DEF all, Gen!vars, Gen!deciding
<1>1. CASE Generate
    BY <1>1 DEF Generate
<1>2. CASE Save
    BY <1>2 DEF Save
<1>3. CASE UNCHANGED generator
    BY <1>3 DEF generator
<1>4. CASE ToolsNext /\ ~Generate /\ ~Save
    BY <1>3, <1>4 DEF ToolsNext, Usage, StartLoad, LoadStep, CheckLoaded, LoadFailed, Exit
<1>. QED
    BY <1>1, <1>2, <1>3, <1>4 DEF BenchNext, StartBench, RefuseArguments, BenchLoad, BenchLoaded,
       BenchGenerate, LookAtLoaded, Build, SetUp, Reference, Warmup, WarmupDone, TimedRun, CleanUp

LEMMA UnusedStep ==
    ASSUME Unused, [BenchNext]_<<all, bench>>
    PROVE  Unused'
<1>1. ~Gen!Next
    BY DEF Unused, Gen!Next, Gen!Begin, Gen!Refuse, Gen!DecideRow, Gen!DecideRowAndMirror,
       Gen!NextLoop, Gen!DecideMiddle, Gen!GoAstray, Gen!ReadUndecided, Gen!Emit, Gen!Convert,
       Gen!SymmetrizePattern, Gen!SymmetrizeRow, Gen!SymmetrizeDone
<1>2. UNCHANGED Gen!vars
    BY <1>1, GeneratorStep DEF Unused
<1>. QED  BY <1>2 DEF Unused, Gen!vars, Gen!deciding

\* Nothing is drawn, or a band is wider than the matrix.
Apart == Unused \/ ~Gen!Banded

LEMMA ApartStep == Apart /\ [BenchNext]_<<all, bench>> => Apart'
<1>. SUFFICES ASSUME ~Gen!Banded, [BenchNext]_<<all, bench>> PROVE ~Gen!Banded'
    BY UnusedStep DEF Apart
<1>1. UNCHANGED req
    BY GeneratorStep, RequestStays DEF Save
<1>. QED  BY <1>1, SameRequest

LEMMA SharedStep == (Apart \/ DInv) /\ [BenchNext]_<<all, bench>> => (Apart \/ DInv)'
<1>. SUFFICES ASSUME DInv, [BenchNext]_<<all, bench>> PROVE DInv'
    BY ApartStep
<1>1. CASE [Gen!Next]_Gen!vars
    BY <1>1, DInvStep
<1>2. CASE Save /\ gpc = "made" /\ gpc' \in {"saved", "unsaved"}
    <2>1. UNCHANGED <<req, indices, callocs>>
        BY <1>2 DEF Save
    <2>. QED
        BY <1>2, <2>1, SameRequest DEF DInv, Asked, Deciding, Counted, Gen!DecisionOver
<1>. QED  BY <1>1, <1>2, GeneratorStep

LEMMA SharedInit == BenchInit => Apart \/ DInv
<1>1. DOMAIN <<>> = {}
    OBVIOUS
<1>. QED  BY <1>1, DInvInit DEF BenchInit, ToolsInit, Unused, Apart

\* For every shape and every band in the matrix, with or without a diagonal above
\* the main one, the loops share the rows out among the threads: each row is
\* allocated once, none is left over, and no two iterations reach the same row,
\* whichever thread is first.
THEOREM RowsShared == BenchSpec => []RowsDecidedOnce
<1>1. Apart => RowsDecidedOnce
    <2>1. Cardinality({}) = 0
        BY FS_EmptySet
    <2>. QED
        BY <2>1 DEF Apart, Unused, RowsDecidedOnce, Gen!RowsDecidedOnce, Gen!DecisionOver,
           Gen!Cardinality, Cardinality
<1>2. DInv => RowsDecidedOnce
    BY DecidedOnce DEF RowsDecidedOnce
<1>. QED  BY <1>1, <1>2, SharedInit, SharedStep, PTL DEF BenchSpec

DrawInv == DInv /\ Drawn /\ NotAstray

LEMMA DrawnInit == BenchInit => Apart \/ DrawInv
<1>. SUFFICES ASSUME BenchInit, ~Apart PROVE DrawInv
    OBVIOUS
<1>1. DInv
    BY SharedInit
<1>2. DOMAIN indices = {} /\ gpc = "start"
    BY DEF BenchInit, ToolsInit, Apart, Unused, Gen!Init
<1>. QED  BY <1>1, <1>2 DEF DrawInv, Drawn, AllFit, NotAstray

LEMMA DrawnNext == (Apart \/ DrawInv) /\ [BenchNext]_<<all, bench>> => (Apart \/ DrawInv)'
<1>. SUFFICES ASSUME DrawInv, [BenchNext]_<<all, bench>>, ~Apart' PROVE DrawInv'
    BY ApartStep
<1>1. DInv'
    <2>1. Apart' \/ DInv'
        BY SharedStep DEF DrawInv
    <2>. QED  BY <2>1
<1>2. CASE [Gen!Next]_Gen!vars
    BY <1>1, <1>2, DrawnStep, NotAstrayStep DEF DrawInv
<1>3. CASE Save /\ gpc' \in {"saved", "unsaved"}
    <2>1. UNCHANGED <<req, indices, degrees>>
        BY <1>3 DEF Save, Gen!deciding
    <2>. QED  BY <1>1, <1>3, <2>1, DrawnStays DEF DrawInv, NotAstray
<1>. QED  BY <1>2, <1>3, GeneratorStep

\* For every request, every thread's order and every draw, with the caller's part
\* spelled out in WellAsked as the code checks none of it: no draw is taken modulo
\* 0 or marks a place that is_nz_ind does not have, no row is read undecided, every
\* index is a column of the matrix and within the band, and neither a row nor its
\* partner takes more than was allocated for it.  Requests that are not well asked
\* are in the specification, and may go astray there.
THEOREM DrawsFit == BenchSpec => []DrawsStayInside
<1>1. Apart => DrawsStayInside
    BY DEF Apart, Unused, DrawsStayInside, Gen!DrawsStayInside, Gen!WellAsked, Gen!DecisionOver
<1>2. DrawInv => DrawsStayInside
    BY DrawsInside DEF DrawsStayInside, DrawInv
<1>. QED  BY <1>1, <1>2, DrawnInit, DrawnNext, PTL DEF BenchSpec

===============================================================================
