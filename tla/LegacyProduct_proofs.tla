-------------------------- MODULE LegacyProduct_proofs --------------------------
(***************************************************************************)
(* Proofs about the older product kernels, for operands of every shape and *)
(* every kernel and policy, with any values for the macros.                *)
(*                                                                         *)
(* The invariant says in turn where the loops are and what they have       *)
(* looked at (Place), which columns are marked (Marks), how far c_row_ptr  *)
(* has got on its way from counts to starts to ends (Counts), that every   *)
(* sum adds up the products passed so far (Sums), and that the rows        *)
(* written hold the product (Written).                                     *)
(***************************************************************************)
EXTENDS LegacyProduct, FiniteSetTheorems, WellFoundedInduction, TLAPS

OperandsFit ==
    /\ kind \in Kinds /\ policy \in {0, 1, 2}
    /\ A \in [Rows -> LeftRows] /\ B \in [0 .. a_cols - 1 -> RightRows]
    /\ Trusting => \A k \in 0 .. a_cols - 1 : ~Broken(B[k])

InHeap ==
    /\ pc \in {"start", "flags", "count", "prefix", "numeric", "add", "vector", "gather",
               "returned"}
    /\ status \in Status \cup {"running"}
    /\ status = "running" <=> pc # "returned"
    /\ pc = "start" => heap = {}
    /\ pc = "flags" => heap = WorkBlocks \/ heap = WorkBlocks \cup SeenBlocks
    /\ pc \in {"count", "prefix"} => heap = WorkBlocks
    /\ Numeric => heap = WorkBlocks \cup OutBlocks
    /\ HeapOnReturn

Computing == pc \in {"count", "prefix"} \/ Numeric

\* An entry of A, and the row of B behind it, with their columns in range.
EntryClean(r, p) ==
    /\ A[r][p][1] \in 0 .. a_cols - 1
    /\ \A q \in 1 .. Len(B[A[r][p][1]]) : B[A[r][p][1]][q][1] \in Cols
RowClean(r) == \A p \in 1 .. Len(A[r]) : EntryClean(r, p)

\* What the count has looked at.
LookedAt ==
    /\ \A r \in Rows : r < row => RowClean(r)
    /\ row < a_rows => ap <= Len(A[row]) + 1 /\ \A p \in 1 .. ap - 1 : EntryClean(row, p)
    /\ row < a_rows /\ bp > 1 =>
         /\ ap <= Len(A[row]) /\ a_col \in 0 .. a_cols - 1 /\ bp <= Len(BRow) + 1
         /\ \A q \in 1 .. bp - 1 : BRow[q][1] \in Cols

\* Where the numeric pass is in the row of B.
InGroup ==
    /\ pc = "numeric" /\ InA =>
         /\ bp <= upto /\ bp <= Len(BRow) + 1
         /\ InB => upto < bp + Group
         /\ ~InB => upto = bp
         /\ UsesVector(a_col) => bp = 1
    /\ pc = "numeric" /\ ~InA => bp = 1 /\ upto = 1
    /\ pc \in {"add", "vector", "gather"} => InA
    /\ pc = "add" => bp < upto /\ upto <= Len(BRow) + 1
    /\ pc \in {"vector", "gather"} => UsesVector(a_col) /\ bp <= Len(BRow) + 1

Flagged(k) == flags[k] = (Scanned(B[k]) /\ HasDuplicates(B[k]))

FlagsKnown ==
    /\ flags \in [0 .. a_cols - 1 -> BOOLEAN]
    /\ Vector /\ pc = "flags" => \A k \in 0 .. a_cols - 1 : k < row => Flagged(k)
    /\ Vector /\ Computing => \A k \in 0 .. a_cols - 1 : Flagged(k)

LoopTypes ==
    /\ OperandsFit
    /\ pc \in {"start", "flags", "count", "prefix", "numeric", "add", "vector", "gather",
               "returned"}
    /\ status \in Status \cup {"running"}
    /\ status = "running" <=> pc # "returned"
    /\ row \in Nat /\ ap \in Nat /\ ap >= 1 /\ bp \in Nat /\ bp >= 1 /\ upto \in Nat /\ upto >= 1
    /\ pc = "flags" => row <= a_cols
    /\ Computing => row <= a_rows
    /\ status = "SUCCESS" => row = a_rows

Looking ==
    /\ pc = "count" => LookedAt
    /\ pc = "prefix" \/ Numeric \/ status = "SUCCESS" => \A r \in Rows : RowClean(r)
    /\ Numeric /\ row < a_rows => ap <= Len(A[row]) + 1

Place == LoopTypes /\ Looking /\ InGroup /\ FlagsKnown

\* The pairs of entries that the loops have behind them in this row.
Passed ==
    (UNION {{p} \X (1 .. Len(B[A[row][p][1]])) : p \in 1 .. ap - 1}) \cup ({ap} \X (1 .. bp - 1))
ColumnsIn(r) == {Column(r, e) : e \in Entries(r)}
EntriesBefore(r) == Cardinality({e \in Rows \X Cols : e[1] < r /\ e[2] \in ColumnsIn(e[1])})

\* In the count the touched columns are those passed; in the numeric pass they
\* are some of the row's, those of the entries about to be added among them.
Marked ==
    /\ mark \in [Cols -> {0, 1}] /\ touched \in Seq(Cols) /\ IsInjective(touched)
    /\ \A c \in Cols : mark[c] = 1 <=> c \in Range(touched)

Marks ==
    /\ Marked /\ acc \in [Cols -> Int]
    /\ pc \in {"start", "flags", "prefix"} => touched = <<>>
    /\ Computing /\ row = a_rows => touched = <<>>
    /\ pc = "count" /\ row < a_rows => Range(touched) = {Column(row, e) : e \in Passed}
    /\ Numeric /\ row < a_rows => Range(touched) \subseteq ColumnsIn(row)
    /\ pc = "numeric" /\ ap = 1 /\ upto = 1 => touched = <<>>
    /\ pc \in {"numeric", "add"} /\ InA => \A q \in bp .. upto - 1 : BRow[q][1] \in Range(touched)
    /\ pc \in {"add", "vector", "gather"} /\ UsesVector(a_col) =>
         \A q \in 1 .. Len(BRow) : BRow[q][1] \in Range(touched)

Counts ==
    /\ total \in Nat /\ running \in Nat /\ c_row_ptr \in [0 .. a_rows -> Nat]
    /\ pc \in {"start", "flags"} => total = 0
    /\ pc \in {"start", "flags", "count"} => running = 0
    /\ pc = "count" =>
         /\ total = EntriesBefore(row)
         /\ \A r \in Rows : r < row => c_row_ptr[r] = Cardinality(ColumnsIn(r))
    /\ pc = "prefix" =>
         /\ running = EntriesBefore(row)
         /\ \A r \in Rows :
              c_row_ptr[r] = IF r < row THEN EntriesBefore(r) ELSE Cardinality(ColumnsIn(r))
    /\ pc = "prefix" \/ Numeric => total = EntriesBefore(a_rows)
    /\ Numeric =>
         /\ c_row_ptr[row] <= EntriesBefore(row)
         /\ \A r \in 0 .. a_rows : r > row => c_row_ptr[r] = EntriesBefore(r)

\* What the products passed add up to in column c, marked or not.
SumPassed(c) == SumFunctionOnSet(Products(row), {e \in Passed : Column(row, e) = c})
Sums ==
    Numeric /\ row < a_rows =>
        /\ IsFiniteSet(Passed)
        /\ \A c \in Cols : SumPassed(c) = IF c \in Range(touched) THEN acc[c] ELSE 0

Slots == 0 .. (IF total > 0 THEN total ELSE 1) - 1
Written ==
    Numeric \/ status = "SUCCESS" =>
        /\ DOMAIN c_col_idx = Slots /\ DOMAIN c_values = Slots
        /\ c_row_ptr[0] = 0
        /\ \A r \in Rows : r < row => RowReturned(r) /\ c_row_ptr[r + 1] <= c_row_ptr[row]

-------------------------------------------------------------------------------
(* The steps, without those that fail *)

Errors == {"ALLOCATION_FAILED", "INVALID_ARGUMENT", "INVALID_CSR"}

Failing ==
    /\ pc' = "returned" /\ status' \in Errors
    /\ UNCHANGED <<operands, loops, flags, work, output>>
\* Only the heap may change.
Resting == UNCHANGED <<operands, pc, loops, flags, work, output, status>>
Starting ==
    /\ pc = "start" /\ Goto(IF Vector THEN "flags" ELSE "count")
    /\ UNCHANGED <<operands, flags, work, output>>
Flagging ==
    /\ pc = "flags" /\ row < a_cols /\ ~(Scanned(B[row]) /\ Broken(B[row]))
    /\ flags' = [flags EXCEPT ![row] = Scanned(B[row]) /\ HasDuplicates(B[row])]
    /\ NextRow /\ UNCHANGED <<operands, work, output>>
CountingEntry ==
    /\ pc = "count" /\ InA /\ ~OutOfRange(a_col, a_cols) /\ InB
    /\ Trusting \/ ~OutOfRange(BRow[bp][1], b_cols)
    /\ Visit(BRow[bp][1]) /\ bp' = bp + 1
    /\ UNCHANGED <<operands, pc, row, ap, upto, flags, acc, output, status>>
Allocating ==
    /\ pc = "prefix" /\ row = a_rows
    /\ c_row_ptr' = [c_row_ptr EXCEPT ![a_rows] = running]
    /\ LET n == IF total > 0 THEN total ELSE 1 IN
       c_col_idx' = [i \in 0 .. n - 1 |-> Junk] /\ c_values' = [i \in 0 .. n - 1 |-> Junk]
    /\ Goto("numeric") /\ UNCHANGED <<operands, flags, work, total, running>>
Marking ==
    /\ pc = "numeric" /\ InA /\ InB /\ ~Skipped /\ ~Refused
    /\ Visit(BRow[upto][1])
    /\ acc' = IF Fresh(BRow[upto][1]) THEN [acc EXCEPT ![BRow[upto][1]] = 0] ELSE acc
    /\ upto' = upto + 1
    /\ pc' = IF upto' < bp + Group THEN "numeric"
             ELSE IF ~UsesVector(a_col) THEN "add"
             ELSE IF kind = "rvv_i8" THEN "gather" ELSE "vector"
    /\ UNCHANGED <<operands, row, ap, bp, flags, output, status>>

Kept == Ascending({c \in Range(touched) : acc[c] # 0})
End == c_row_ptr[row] + Len(Kept)
Emitting ==
    /\ pc = "numeric" /\ row < a_rows /\ ~InA
    /\ c_col_idx' = [i \in DOMAIN c_col_idx |->
           IF i \in c_row_ptr[row] .. End - 1 THEN Kept[i - c_row_ptr[row] + 1] ELSE c_col_idx[i]]
    /\ c_values' = [i \in DOMAIN c_values |->
           IF i \in c_row_ptr[row] .. End - 1 THEN acc[Kept[i - c_row_ptr[row] + 1]]
                                              ELSE c_values[i]]
    /\ c_row_ptr' = [c_row_ptr EXCEPT ![row + 1] = End]
    /\ mark' = Unmarked /\ touched' = <<>>
    /\ NextRow /\ UNCHANGED <<operands, flags, acc, total, running>>

-------------------------------------------------------------------------------

LEMMA Shape ==
    /\ a_rows \in Nat /\ a_rows >= 1 /\ a_cols \in Nat /\ a_cols >= 1
    /\ b_cols \in Nat /\ b_cols >= 1 /\ MaxNnz \in Nat /\ MaxVl \in Nat
    /\ ScanMax \in Nat /\ ScanMax >= 1 /\ ContigMin \in Nat /\ ContigMin >= 2
    /\ MinRow \in Nat /\ MinRow >= 1 /\ Junk \in Int
    /\ LeftRows \subseteq Seq(Int \X Int) /\ RightRows \subseteq Seq(Int \X Int)
    /\ IsFiniteSet(Cols) /\ Cardinality(Cols) = b_cols
    /\ Cols \subseteq Nat
  <1>1. /\ a_rows \in Nat /\ a_rows >= 1 /\ a_cols \in Nat /\ a_cols >= 1
        /\ b_cols \in Nat /\ b_cols >= 1 /\ MaxNnz \in Nat /\ MaxVl \in Nat
        /\ ScanMax \in Nat /\ ScanMax >= 1 /\ ContigMin \in Nat /\ ContigMin >= 2
        /\ MinRow \in Nat /\ MinRow >= 1 /\ Junk \in Int
    BY LegacyAssumption
  <1>2. IsFiniteSet(Cols) /\ Cardinality(Cols) = b_cols
    BY <1>1, FS_Interval DEF Cols
  <1>3. LeftRows \subseteq Seq(Int \X Int) /\ RightRows \subseteq Seq(Int \X Int)
    BY LegacyAssumption
  <1>4. QED
    BY <1>1, <1>2, <1>3 DEF Cols

LEMMA FixedOperands ==
    ASSUME [Next]_vars
    PROVE  UNCHANGED operands
  BY DEF Next, vars, AllocateWork, AllocateSeen, FlagRow, FlagsDone, CountRefuses, CountEntry,
     CountNext, CountRow, CountOverflows, StartPrefix, PrefixRow, AllocateC, MarkEntry, AddEntry,
     NumericNext, AddRun, AddGathered, GatherRest, AddSpan, EmitRow, Return, Fails,
     NextEntry, AddedTo

\* No step changes what the operands say.
LEMMA Fixed ==
    ASSUME UNCHANGED operands
    PROVE  /\ A' = A /\ B' = B /\ kind' = kind /\ policy' = policy
           /\ Vector' = Vector /\ Trusting' = Trusting
           /\ WorkBlocks' = WorkBlocks
           /\ OperandsFit => OperandsFit'
  BY DEF operands, Vector, Trusting, WorkBlocks, FlagBlocks, RowBlocks, OperandsFit, Broken, OutOfRange

LEMMA FailsIsFailing ==
    ASSUME NEW held, NEW place, NEW error \in Errors, Fails(held, place, error)
    PROVE  Failing
  BY DEF Fails, Failing

LEMMA NextIs ==
    ASSUME [Next]_vars
    PROVE  \/ Failing \/ Starting \/ Flagging \/ FlagsDone
           \/ CountingEntry \/ CountNext \/ CountRow \/ StartPrefix \/ PrefixRow \/ Allocating
           \/ Marking \/ AddEntry \/ NumericNext \/ AddRun \/ AddGathered \/ GatherRest \/ AddSpan
           \/ Emitting \/ Return \/ Resting
  <1> USE DEF Errors
  <1>1. AllocateWork => Failing \/ Starting
    BY FailsIsFailing DEF AllocateWork, Starting
  <1>2. CountRefuses \/ CountOverflows => Failing
    BY FailsIsFailing DEF CountRefuses, CountOverflows
  <1>3. FlagRow => Failing \/ Flagging
    BY FailsIsFailing DEF FlagRow, Flagging
  <1>4. CountEntry => Failing \/ CountingEntry
    BY FailsIsFailing DEF CountEntry, CountingEntry, Counting
  <1>5. AllocateC => Failing \/ Allocating
    BY FailsIsFailing DEF AllocateC, Allocating
  <1>6. MarkEntry => Failing \/ Marking
    BY FailsIsFailing DEF MarkEntry, Marking
  <1>7. EmitRow => Failing \/ Emitting
    BY FailsIsFailing DEF EmitRow, Emitting, Kept, End
  <1>8. AllocateSeen => Failing \/ Resting
    BY FailsIsFailing DEF AllocateSeen, Resting
  <1>9. UNCHANGED vars => Resting
    BY DEF vars, Resting
  <1>10. QED
    BY <1>1, <1>2, <1>3, <1>4, <1>5, <1>6, <1>7, <1>8, <1>9 DEF Next

-------------------------------------------------------------------------------
(* Least and greatest elements, and induction *)

Less == {ss \in Nat \X Nat : ss[1] < ss[2]}
LEMMA Least ==
    ASSUME NEW T \in SUBSET Nat, T # {}
    PROVE  \E x \in T : \A y \in T : x <= y
  <1>1. IsWellFoundedOn(Less, Nat)
    BY NatLessThanWellFounded, Zenon DEF OpToRel, Less
  <1>2. PICK x \in T : \A y \in T : <<y, x>> \notin Less
    BY <1>1, WFMin, Zenon
  <1>3. \A y \in T : ~(y < x)
    BY <1>2 DEF Less
  <1>4. QED
    BY <1>3


LEMMA Greatest ==
    ASSUME NEW T \in SUBSET Nat, T # {}, NEW m \in Nat, \A x \in T : x <= m
    PROVE  \E x \in T : \A y \in T : y <= x
  <1> DEFINE U == {m - x : x \in T}
  <1>1. U \in SUBSET Nat /\ U # {}
    <2>1. \A x \in T : m - x \in Nat
      OBVIOUS
    <2>2. QED
      BY <2>1
  <1> HIDE DEF U
  <1>2. PICK u \in U : \A v \in U : u <= v
    BY <1>1, Least
  <1>3. PICK x \in T : u = m - x
    BY <1>2 DEF U
  <1>4. \A y \in T : m - x <= m - y
    BY <1>2, <1>3 DEF U
  <1>5. QED
    BY <1>4

LEMMA Induction ==
    ASSUME NEW S \in SUBSET Nat, 0 \in S, \A n \in S : n + 1 \in S
    PROVE  S = Nat
  <1> SUFFICES ASSUME Nat \ S # {} PROVE FALSE
    OBVIOUS
  <1>1. PICK x \in Nat \ S : \A y \in Nat \ S : x <= y
    BY Least
  <1>2. x # 0 /\ x - 1 \in Nat /\ x - 1 \in S
    BY <1>1
  <1>3. QED
    BY <1>1, <1>2


-------------------------------------------------------------------------------
(* Sums over finite sets: one subset after the other gets its sum *)

\* The subsets of a finite set with at most n elements, and what is left of one
\* without one of its elements.
Small(S, n) == {T \in SUBSET S : Cardinality(T) <= n}

LEMMA SmallFacts ==
    ASSUME NEW S, IsFiniteSet(S)
    PROVE  /\ Small(S, 0) = {{}}
           /\ \A n \in Nat : \A T : T \in Small(S, n + 1) => \A x \in T : T \ {x} \in Small(S, n)
           /\ \A n \in Nat : \A T : T \in Small(S, n + 1) \ Small(S, n) => T # {}
           /\ \A n \in Nat : Small(S, n) \subseteq Small(S, n + 1)
           /\ Cardinality(S) \in Nat /\ Small(S, Cardinality(S)) = SUBSET S
  <1>1. \A T \in SUBSET S : IsFiniteSet(T) /\ Cardinality(T) \in Nat /\ Cardinality(T) <= Cardinality(S)
    BY FS_Subset, FS_CardinalityType
  <1>2. \A T \in SUBSET S : Cardinality(T) = 0 <=> T = {}
    BY <1>1, FS_EmptySet
  <1>3. \A T \in SUBSET S : \A x \in T : Cardinality(T \ {x}) = Cardinality(T) - 1
    BY <1>1, FS_RemoveElement
  <1>4. Cardinality(S) \in Nat
    BY FS_CardinalityType
  <1>5. Small(S, 0) = {{}}
    BY <1>1, <1>2 DEF Small
  <1>6. \A n \in Nat : \A T : T \in Small(S, n + 1) => \A x \in T : T \ {x} \in Small(S, n)
    BY <1>1, <1>3 DEF Small
  <1>7. \A n \in Nat : \A T : T \in Small(S, n + 1) \ Small(S, n) => T # {}
    BY <1>1, <1>2 DEF Small
  <1>8. QED
    BY <1>1, <1>4, <1>5, <1>6, <1>7 DEF Small

\* g gives the subsets in D their sums.
SumsOn(f, D, g) == g = [s \in D |-> IF s = {} THEN 0
                            ELSE LET x == CHOOSE x \in s : TRUE IN f[x] + g[s \ {x}]]

SumsOf(f, S, g) == SumsOn(f, SUBSET S, g)

LEMMA SumUnfolds ==
    ASSUME NEW f, NEW S
    PROVE  SumFunctionOnSet(f, S) = (CHOOSE g : SumsOf(f, S, g))[S]
  BY DEF SumFunctionOnSet, FoldFunctionOnSet, MapThenFoldSet, SumsOn, SumsOf

LEMMA SumsExist ==
    ASSUME NEW f, NEW S, IsFiniteSet(S)
    PROVE  \E g : SumsOf(f, S, g)
  <1> DEFINE Reached == {n \in Nat : \E g : SumsOn(f, Small(S, n), g)}
  <1>1. 0 \in Reached
    <2> DEFINE g == [s \in Small(S, 0) |-> 0]
    <2>1. SumsOn(f, Small(S, 0), g)
      BY SmallFacts DEF SumsOn, SumsOf
    <2> QED
      BY <2>1
  <1>2. ASSUME NEW n \in Reached PROVE n + 1 \in Reached
    <2>1. PICK g : SumsOn(f, Small(S, n), g)
      OBVIOUS
    <2> DEFINE h == [s \in Small(S, n + 1) |->
                        IF s \in Small(S, n) THEN g[s]
                        ELSE LET x == CHOOSE x \in s : TRUE IN f[x] + g[s \ {x}]]
    <2>2. \A s \in Small(S, n) : s # {} => LET x == CHOOSE x \in s : TRUE IN s \ {x} \in Small(S, n)
      BY FS_Subset, FS_CardinalityType, FS_RemoveElement DEF Small
    <2>3. ASSUME NEW s \in Small(S, n + 1)
          PROVE  h[s] = IF s = {} THEN 0 ELSE LET x == CHOOSE x \in s : TRUE IN f[x] + h[s \ {x}]
      <3> DEFINE x == CHOOSE x \in s : TRUE
      <3>1. CASE s = {}
        <4>1. s \in Small(S, n)
          BY <3>1, SmallFacts, FS_EmptySet DEF Small
        <4> QED
          BY <2>1, <3>1, <4>1 DEF SumsOn, SumsOf
      <3>2. CASE s # {}
        <4>1. x \in s
          BY <3>2
        <4>2. s \ {x} \in Small(S, n) /\ s \ {x} \in Small(S, n + 1)
          BY <4>1, SmallFacts
        <4>3. h[s \ {x}] = g[s \ {x}]
          BY <4>2
        <4>4. h[s] = f[x] + g[s \ {x}]
          <5>1. CASE s \in Small(S, n)
            BY <5>1, <2>1, <3>2 DEF SumsOn, SumsOf
          <5>2. CASE s \notin Small(S, n)
            BY <5>2
          <5> QED BY <5>1, <5>2
        <4> HIDE DEF h
        <4> QED
          BY <3>2, <4>3, <4>4
      <3> QED BY <3>1, <3>2
    <2>4. SumsOn(f, Small(S, n + 1), h)
      <3>1. h = [s \in Small(S, n + 1) |-> h[s]]
        OBVIOUS
      <3> HIDE DEF h
      <3> QED
        BY <2>3, <3>1 DEF SumsOn, SumsOf
    <2> QED
      BY <2>4
  <1>3. Reached = Nat
    <2>1. Reached \in SUBSET Nat OBVIOUS
    <2> HIDE DEF Reached
    <2> QED BY <1>1, <1>2, <2>1, Induction
  <1>4. Cardinality(S) \in Reached /\ Small(S, Cardinality(S)) = SUBSET S
    BY <1>3, SmallFacts
  <1>5. PICK g : SumsOn(f, Small(S, Cardinality(S)), g)
    BY <1>4
  <1> QED
    BY <1>4, <1>5 DEF SumsOf

\* A sum over a finite set exists, and does not depend on the set it is taken from
LEMMA SumsAgree ==
    ASSUME NEW f, NEW S, NEW T, NEW g, NEW h, IsFiniteSet(S), T \in SUBSET S,
           SumsOf(f, S, g), SumsOf(f, T, h)
    PROVE  g[T] = h[T]
  <1> DEFINE Reached == {n \in Nat : \A U \in Small(T, n) : g[U] = h[U]}
  <1>0. IsFiniteSet(T)
    BY FS_Subset
  <1>1. 0 \in Reached
    BY <1>0, SmallFacts DEF SumsOn, SumsOf
  <1>2. ASSUME NEW n \in Reached PROVE n + 1 \in Reached
    <2> SUFFICES ASSUME NEW U \in Small(T, n + 1) PROVE g[U] = h[U]
      OBVIOUS
    <2>0. U \in SUBSET T /\ U \in SUBSET S
      BY DEF Small
    <2>1. CASE U = {}
      BY <2>0, <2>1 DEF SumsOn, SumsOf
    <2>2. CASE U # {}
      <3> DEFINE x == CHOOSE x \in U : TRUE
      <3>1. x \in U
        BY <2>2
      <3>2. U \ {x} \in Small(T, n)
        BY <3>1, <1>0, SmallFacts
      <3>3. g[U \ {x}] = h[U \ {x}]
        BY <3>2
      <3>4. g[U] = f[x] + g[U \ {x}]
        BY <2>0, <2>2 DEF SumsOn, SumsOf
      <3>5. h[U] = f[x] + h[U \ {x}]
        BY <2>0, <2>2 DEF SumsOn, SumsOf
      <3> QED BY <3>3, <3>4, <3>5
    <2> QED BY <2>1, <2>2
  <1>3. Reached = Nat
    <2>1. Reached \in SUBSET Nat OBVIOUS
    <2> HIDE DEF Reached
    <2> QED BY <1>1, <1>2, <2>1, Induction
  <1>4. Cardinality(T) \in Reached
    BY <1>0, <1>3, SmallFacts
  <1> QED
    BY <1>0, <1>4, SmallFacts

LEMMA SumsRemove ==
    ASSUME NEW f, NEW S, NEW g, IsFiniteSet(S), \A x \in S : f[x] \in Int, SumsOf(f, S, g)
    PROVE  \A x \in S : g[S \ {x}] \in Int /\ g[S] = f[x] + g[S \ {x}]
  <1> DEFINE Reached == {n \in Nat : \A U \in Small(S, n) :
                            g[U] \in Int /\ \A x \in U : g[U] = f[x] + g[U \ {x}]}
  <1>1. 0 \in Reached
    BY SmallFacts DEF SumsOn, SumsOf
  <1>2. ASSUME NEW n \in Reached PROVE n + 1 \in Reached
    <2> SUFFICES ASSUME NEW U \in Small(S, n + 1) 
                 PROVE  g[U] \in Int /\ \A x \in U : g[U] = f[x] + g[U \ {x}]
      OBVIOUS
    <2>0. U \in SUBSET S
      BY DEF Small
    <2>1. CASE U = {}
      BY <2>0, <2>1 DEF SumsOn, SumsOf
    <2>2. CASE U # {}
      <3> DEFINE y == CHOOSE y \in U : TRUE
      <3>1. y \in U /\ y \in S
        BY <2>0, <2>2
      <3>2. \A x \in U : U \ {x} \in Small(S, n) /\ g[U \ {x}] \in Int
        BY SmallFacts
      <3>3. g[U] = f[y] + g[U \ {y}]
        BY <2>0, <2>2 DEF SumsOn, SumsOf
      <3>4. g[U] \in Int
        <4>1. f[y] \in Int /\ g[U \ {y}] \in Int
          BY <3>1, <3>2
        <4> HIDE DEF y
        <4> QED BY <3>3, <4>1
      <3>5. ASSUME NEW x \in U PROVE g[U] = f[x] + g[U \ {x}]
        <4>1. CASE x = y
          BY <3>3, <4>1
        <4>2. CASE x # y
          <5>1. g[U \ {y}] = f[x] + g[(U \ {y}) \ {x}]
            <6>1. x \in U \ {y} BY <4>2
            <6> HIDE DEF y
            <6> QED BY <3>1, <3>2, <6>1
          <5>2. g[U \ {x}] = f[y] + g[(U \ {x}) \ {y}]
            <6>1. y \in U \ {x} BY <4>2, <3>1
            <6> HIDE DEF y
            <6> QED BY <3>2, <6>1
          <5>3. (U \ {y}) \ {x} = (U \ {x}) \ {y}
            OBVIOUS
          <5> DEFINE k == g[(U \ {x}) \ {y}]
          <5>4. k \in Int /\ f[x] \in Int /\ f[y] \in Int
            <6>1. (U \ {x}) \ {y} \in Small(S, n)
              <7>1. U \ {x} \in Small(S, n) /\ y \in U \ {x} BY <3>1, <3>2, <4>2
              <7> HIDE DEF y
              <7> QED BY <7>1, FS_Subset, FS_RemoveElement, FS_CardinalityType DEF Small
            <6> QED BY <2>0, <3>1, <6>1
          <5>5. g[U] = f[y] + (f[x] + k) /\ g[U \ {x}] = f[y] + k
            <6> HIDE DEF y
            <6> QED BY <3>3, <5>1, <5>2, <5>3
          <5> HIDE DEF y, k
          <5> QED BY <5>4, <5>5
        <4> QED BY <4>1, <4>2
      <3> QED BY <3>4, <3>5
    <2> QED BY <2>1, <2>2
  <1>3. Reached = Nat
    <2>1. Reached \in SUBSET Nat OBVIOUS
    <2> HIDE DEF Reached
    <2> QED BY <1>1, <1>2, <2>1, Induction
  <1>4. Cardinality(S) \in Reached
    BY <1>3, SmallFacts
  <1>5. \A U \in SUBSET S : g[U] \in Int /\ \A x \in U : g[U] = f[x] + g[U \ {x}]
    BY <1>4, SmallFacts
  <1>6. S \in SUBSET S /\ \A x \in S : S \ {x} \in SUBSET S
    OBVIOUS
  <1> QED
    BY <1>5, <1>6

\* The sum over no element, and over one element more.
LEMMA SumOfNone == \A f : SumFunctionOnSet(f, {}) = 0
  <1> SUFFICES ASSUME NEW f PROVE SumFunctionOnSet(f, {}) = 0
    OBVIOUS
  <1>1. \E g : SumsOf(f, {}, g)
    BY SumsExist, FS_EmptySet
  <1> QED
    BY <1>1, SumUnfolds DEF SumsOn, SumsOf

LEMMA SumOfOneMore ==
    ASSUME NEW f, NEW S, IsFiniteSet(S), NEW x, x \notin S, \A y \in S \cup {x} : f[y] \in Int
    PROVE  /\ SumFunctionOnSet(f, S) \in Int
           /\ SumFunctionOnSet(f, S \cup {x}) = f[x] + SumFunctionOnSet(f, S)
  <1>1. PICK all : all = S \cup {x}
    OBVIOUS
  <1>2. IsFiniteSet(all) /\ S \in SUBSET all /\ x \in all /\ all \ {x} = S
    BY <1>1, FS_AddElement
  <1>3. PICK g : SumsOf(f, all, g) /\ SumFunctionOnSet(f, all) = g[all]
    <2>1. \E gg : SumsOf(f, all, gg)
      BY <1>2, SumsExist
    <2> QED BY <2>1, SumUnfolds
  <1>4. PICK h : SumsOf(f, S, h) /\ SumFunctionOnSet(f, S) = h[S]
    <2>1. \E gg : SumsOf(f, S, gg)
      BY SumsExist
    <2> QED BY <2>1, SumUnfolds
  <1>5. g[S] = h[S]
    <2>1. SumsOf(f, all, g)
      BY <1>3
    <2>2. SumsOf(f, S, h)
      BY <1>4
    <2>3. IsFiniteSet(all) /\ S \in SUBSET all
      BY <1>2
    <2> QED BY <2>1, <2>2, <2>3, SumsAgree
  <1>6. \A y \in all : f[y] \in Int
    BY <1>1
  <1>7. \A y \in all : g[all \ {y}] \in Int /\ g[all] = f[y] + g[all \ {y}]
    <2>1. IsFiniteSet(all)
      BY <1>2
    <2>2. SumsOf(f, all, g)
      BY <1>3
    <2>3. QED
      BY ONLY <1>6, <2>1, <2>2, SumsRemove
  <1>8. g[all] = f[x] + g[S] /\ g[S] \in Int
    BY <1>2, <1>7
  <1> QED
    BY <1>1, <1>3, <1>4, <1>5, <1>8

-------------------------------------------------------------------------------
(* Sets and sequences of columns *)

LEMMA DistinctCount ==
    ASSUME NEW s \in Seq(Cols), IsInjective(s)
    PROVE  /\ Range(s) \subseteq Cols /\ IsFiniteSet(Range(s))
           /\ Cardinality(Range(s)) = Len(s)
  <1>1. Len(s) \in Nat /\ DOMAIN s = 1 .. Len(s)
    OBVIOUS
  <1>2. Range(s) \subseteq Cols
    BY <1>1 DEF Range
  <1>3. s \in Bijection(1 .. Len(s), Range(s))
    BY <1>1 DEF IsInjective, Range, Bijection, Injection, Surjection
  <1>4. ExistsBijection(1 .. Len(s), Range(s))
    BY <1>3 DEF ExistsBijection
  <1>5. IsFiniteSet(1 .. Len(s)) /\ Cardinality(1 .. Len(s)) = Len(s)
    <2>1. Len(s) \in Nat
      BY <1>1
    <2>2. QED
      BY ONLY <2>1, FS_Interval
  <1>6. QED
    BY <1>2, <1>4, <1>5, FS_Bijection

\* Distinct columns out of n different ones are at most n.
LEMMA DistinctFit ==
    ASSUME NEW s \in Seq(Cols), IsInjective(s), NEW S \in SUBSET Cols, Range(s) \subseteq S
    PROVE  /\ Len(s) <= Cardinality(S)
           /\ \A c \in S : c \notin Range(s) => Len(s) + 1 <= Cardinality(S)
  <1>1. IsFiniteSet(S) /\ IsFiniteSet(Range(s)) /\ Cardinality(Range(s)) = Len(s)
    BY Shape, FS_Subset, DistinctCount
  <1>2. Len(s) <= Cardinality(S)
    BY <1>1, FS_Subset
  <1>3. ASSUME NEW c \in S, c \notin Range(s)
        PROVE  Len(s) + 1 <= Cardinality(S)
    <2>1. IsFiniteSet(Range(s) \cup {c}) /\ Cardinality(Range(s) \cup {c}) = Len(s) + 1
      BY <1>1, <1>3, FS_AddElement
    <2>2. QED
      BY <1>1, <2>1, FS_Subset
  <1>4. QED
    BY <1>2, <1>3

\* One more column that was not among them.
LEMMA AppendDistinct ==
    ASSUME NEW s \in Seq(Cols), IsInjective(s), NEW c \in Cols, c \notin Range(s)
    PROVE  /\ Append(s, c) \in Seq(Cols) /\ IsInjective(Append(s, c))
           /\ Range(Append(s, c)) = Range(s) \cup {c}
           /\ Len(Append(s, c)) = Len(s) + 1
           /\ \A n \in 1 .. Len(s) + 1 : Append(s, c)[n] = IF n <= Len(s) THEN s[n] ELSE c
  <1> DEFINE t == Append(s, c)
  <1>1. /\ t \in Seq(Cols) /\ Len(t) = Len(s) + 1 /\ DOMAIN t = 1 .. Len(s) + 1
        /\ Len(s) \in Nat /\ DOMAIN s = 1 .. Len(s)
        /\ \A n \in 1 .. Len(s) + 1 : t[n] = IF n <= Len(s) THEN s[n] ELSE c
    OBVIOUS
  <1> HIDE DEF t
  <1>2. IsInjective(t)
    BY <1>1 DEF IsInjective, Range
  <1>3. Range(t) = Range(s) \cup {c}
    <2>1. t[Len(s) + 1] = c /\ Len(s) + 1 \in DOMAIN t
      BY <1>1
    <2>2. \A n \in DOMAIN s : n \in DOMAIN t /\ t[n] = s[n]
      BY <1>1
    <2>3. \A n \in DOMAIN t : t[n] \in Range(s) \cup {c}
      BY <1>1 DEF Range
    <2>4. QED
      BY <2>1, <2>2, <2>3 DEF Range
  <1>4. QED
    BY <1>1, <1>2, <1>3 DEF t

\* The rank of a column among those of a set.
Rank(S, c) == Cardinality({d \in S : d < c})

\* Every place in a finite set of columns is taken by one column, and larger
\* places by larger columns.
LEMMA Ranks ==
    ASSUME NEW S \in SUBSET Cols
    PROVE  /\ \A c, d \in S : c < d => Rank(S, c) < Rank(S, d)
           /\ \A n \in 0 .. Cardinality(S) - 1 : \E c \in S : Rank(S, c) = n
           /\ \A c \in S : Rank(S, c) \in 0 .. Cardinality(S) - 1
  <1>1. IsFiniteSet(S) /\ Cardinality(S) \in Nat /\ S \subseteq Nat
    BY Shape, FS_Subset, FS_CardinalityType
  <1>2. ASSUME NEW c \in S
        PROVE  IsFiniteSet({d \in S : d < c}) /\ Rank(S, c) \in Nat /\ Rank(S, c) < Cardinality(S)
    <2>1. IsFiniteSet({d \in S : d < c}) /\ Rank(S, c) <= Cardinality(S)
      BY <1>1, FS_Subset DEF Rank
    <2>2. Rank(S, c) \in Nat
      BY <2>1, FS_CardinalityType DEF Rank
    <2>3. c \in S /\ c \notin {d \in S : d < c}
      BY <1>1
    <2>4. Rank(S, c) # Cardinality(S)
      BY <1>1, <2>3, FS_Subset DEF Rank
    <2>5. QED
      BY <1>1, <2>1, <2>2, <2>4
  <1>r. \A c \in S : Rank(S, c) \in Nat /\ Rank(S, c) < Cardinality(S)
    BY ONLY <1>2
  <1>3. ASSUME NEW c \in S, NEW d \in S, c < d
        PROVE  Rank(S, c) < Rank(S, d)
    <2> DEFINE U == {x \in S : x < c}
               V == {x \in S : x < d}
    <2>1. U \in SUBSET V /\ c \in V /\ c \notin U
      <3>1. \A x \in S : x \in Nat
        BY <1>1
      <3>2. \A x \in S : x < c => x < d
        BY ONLY <1>3, <3>1
      <3>3. c \in V /\ c \notin U
        BY ONLY <1>3, <3>1
      <3>4. QED
        BY <3>2, <3>3
    <2>2. IsFiniteSet(V) /\ IsFiniteSet(U) /\ Rank(S, c) \in Nat /\ Rank(S, d) \in Nat
      BY <1>2
    <2>3. Rank(S, c) = Cardinality(U) /\ Rank(S, d) = Cardinality(V)
      BY DEF Rank
    <2> HIDE DEF U, V
    <2>4. Cardinality(U) <= Cardinality(V) /\ Cardinality(U) # Cardinality(V)
      BY <2>1, <2>2, FS_Subset
    <2>5. QED
      BY <2>2, <2>3, <2>4
  <1>4. ASSUME NEW n \in 0 .. Cardinality(S) - 1
        PROVE  \E c \in S : Rank(S, c) = n
    <2> DEFINE T == 0 .. Cardinality(S) - 1
               f == [c \in S |-> Rank(S, c)]
    <2>1. IsFiniteSet(T) /\ Cardinality(T) = Cardinality(S)
      BY <1>1, FS_Interval
    <2>2. f \in [S -> T] /\ \A c, d \in S : f[c] = f[d] => c = d
      <3>1. \A c \in S : Rank(S, c) \in T
        BY ONLY <1>1, <1>r
      <3>2. \A c, d \in S : Rank(S, c) = Rank(S, d) => c = d
        <4>1. \A c, d \in S : c < d => Rank(S, c) < Rank(S, d)
          BY <1>3
        <4>2. \A c \in S : c \in Nat
          BY <1>1
        <4>3. QED
          BY ONLY <1>r, <4>1, <4>2
      <3>3. QED
        BY <3>1, <3>2
    <2>3. f \in Injection(S, T)
      BY <2>2 DEF Injection, IsInjective
    <2> HIDE DEF T
    <2>4. f \in Surjection(S, T)
      BY <2>1, <2>3, FS_Injection
    <2>5. \E c \in S : f[c] = n
      BY <2>4 DEF Surjection, T
    <2>6. QED
      BY <2>5
  <1>5. \A c \in S : Rank(S, c) \in 0 .. Cardinality(S) - 1
    BY ONLY <1>1, <1>r
  <1>6. \A c, d \in S : c < d => Rank(S, c) < Rank(S, d)
    BY <1>3
  <1>7. QED
    BY <1>4, <1>5, <1>6

\* A set and the pairs of its elements with one value are equally many.
LEMMA Tagged ==
    ASSUME NEW r, NEW S, IsFiniteSet(S)
    PROVE  IsFiniteSet({r} \X S) /\ Cardinality({r} \X S) = Cardinality(S)
  <1>1. IsFiniteSet({r}) /\ Cardinality({r}) = 1
    BY FS_Singleton
  <1>2. Cardinality(S) \in Nat
    BY FS_CardinalityType
  <1>3. QED
    BY <1>1, <1>2, FS_Product

LEMMA DisjointUnion ==
    ASSUME NEW S, NEW T, IsFiniteSet(S), IsFiniteSet(T), S \cap T = {}
    PROVE  /\ IsFiniteSet(S \cup T) /\ Cardinality(S \cup T) = Cardinality(S) + Cardinality(T)
           /\ Cardinality(S) \in Nat /\ Cardinality(T) \in Nat
  <1>1. Cardinality(S) \in Nat /\ Cardinality(T) \in Nat /\ Cardinality({}) = 0
    BY FS_CardinalityType, FS_EmptySet
  <1>2. Cardinality(S \cap T) = 0
    BY <1>1
  <1>3. /\ IsFiniteSet(S \cup T)
        /\ Cardinality(S \cup T) = Cardinality(S) + Cardinality(T) - Cardinality(S \cap T)
    BY FS_Union
  <1> DEFINE both == Cardinality(S \cap T)
             all == Cardinality(S \cup T)
  <1>4. both = 0 /\ all = Cardinality(S) + Cardinality(T) - both
    BY <1>2, <1>3
  <1> HIDE DEF both, all
  <1>5. all = Cardinality(S) + Cardinality(T)
    BY ONLY <1>1, <1>4
  <1>6. QED
    BY <1>1, <1>3, <1>5 DEF all

-------------------------------------------------------------------------------
(* The operands *)

LEMMA SeqFacts ==
    ASSUME NEW S, NEW s \in Seq(S)
    PROVE  Len(s) \in Nat /\ DOMAIN s = 1 .. Len(s) /\ \A n \in 1 .. Len(s) : s[n] \in S
  OBVIOUS

LEMMA PairFacts ==
    ASSUME NEW s \in Seq(Int \X Int)
    PROVE  /\ Len(s) \in Nat /\ DOMAIN s = 1 .. Len(s)
           /\ \A n \in 1 .. Len(s) : s[n] \in Int \X Int /\ s[n][1] \in Int /\ s[n][2] \in Int
  <1>1. Len(s) \in Nat /\ DOMAIN s = 1 .. Len(s) /\ \A n \in 1 .. Len(s) : s[n] \in Int \X Int
    BY SeqFacts
  <1>2. \A x \in Int \X Int : x[1] \in Int /\ x[2] \in Int
    OBVIOUS
  <1>3. QED
    BY <1>1, <1>2

LEMMA RowFacts ==
    ASSUME OperandsFit, NEW r \in Rows
    PROVE  /\ r \in Nat /\ r < a_rows /\ r + 1 \in 0 .. a_rows /\ r \in 0 .. a_rows
           /\ A[r] \in Seq(Int \X Int) /\ Len(A[r]) \in Nat /\ DOMAIN A[r] = 1 .. Len(A[r])
           /\ \A p \in 1 .. Len(A[r]) : A[r][p][1] \in Int /\ A[r][p][2] \in Int
  <1>1. A[r] \in Seq(Int \X Int)
    BY Shape DEF OperandsFit
  <1>2. Len(A[r]) \in Nat /\ DOMAIN A[r] = 1 .. Len(A[r])
        /\ \A p \in 1 .. Len(A[r]) : A[r][p][1] \in Int /\ A[r][p][2] \in Int
    BY <1>1, PairFacts
  <1>3. r \in Nat /\ r < a_rows /\ r + 1 \in 0 .. a_rows /\ r \in 0 .. a_rows
    BY Shape DEF Rows
  <1>4. QED
    BY <1>1, <1>2, <1>3

LEMMA RightFacts ==
    ASSUME OperandsFit, NEW k \in 0 .. a_cols - 1
    PROVE  /\ B[k] \in Seq(Int \X Int) /\ Len(B[k]) \in Nat /\ DOMAIN B[k] = 1 .. Len(B[k])
           /\ \A q \in 1 .. Len(B[k]) : B[k][q][1] \in Int /\ B[k][q][2] \in Int
           /\ Trusting => \A q \in 1 .. Len(B[k]) : B[k][q][1] \in Cols
  <1>1. B[k] \in Seq(Int \X Int)
    BY Shape DEF OperandsFit
  <1>2. Len(B[k]) \in Nat /\ DOMAIN B[k] = 1 .. Len(B[k])
        /\ \A q \in 1 .. Len(B[k]) : B[k][q][1] \in Int /\ B[k][q][2] \in Int
    BY <1>1, PairFacts
  <1>3. ASSUME Trusting, NEW q \in 1 .. Len(B[k])
        PROVE  B[k][q][1] \in Cols
    <2>1. ~OutOfRange(B[k][q][1], b_cols)
      BY <1>2, <1>3 DEF OperandsFit, Broken
    <2>2. QED
      BY <1>2, <2>1, Shape DEF OutOfRange, Cols
  <1>4. QED
    BY <1>1, <1>2, <1>3

\* The entries of a row that has been looked at.
LEMMA CleanFacts ==
    ASSUME OperandsFit, NEW r \in Rows, NEW p \in 1 .. Len(A[r]), EntryClean(r, p)
    PROVE  LET b == B[A[r][p][1]] IN
           /\ A[r][p][1] \in 0 .. a_cols - 1 /\ A[r][p][2] \in Int
           /\ b \in Seq(Int \X Int) /\ Len(b) \in Nat /\ DOMAIN b = 1 .. Len(b)
           /\ \A q \in 1 .. Len(b) : b[q][1] \in Cols /\ b[q][1] \in Int /\ b[q][2] \in Int
  BY RowFacts, RightFacts DEF EntryClean

LEMMA InRange ==
    ASSUME NEW c \in Int, NEW n \in Nat, ~OutOfRange(c, n)
    PROVE  c \in 0 .. n - 1
  BY DEF OutOfRange

-------------------------------------------------------------------------------
(* The heap *)

\* What a failing return frees, on the way there by the blocks it may hold.
LEMMA FreedEverywhere ==
    /\ Freed["flagging"] = WorkBlocks \/ Freed["flagging"] = WorkBlocks \cup OutBlocks
    /\ Freed["a_column"] = WorkBlocks \/ Freed["a_column"] = WorkBlocks \cup OutBlocks
    /\ Freed["b_column"] = WorkBlocks \/ Freed["b_column"] = WorkBlocks \cup OutBlocks
    /\ Freed["overflow"] = WorkBlocks \/ Freed["overflow"] = WorkBlocks \cup OutBlocks
    /\ Freed["no_c"] = WorkBlocks \cup OutBlocks
    /\ Freed["numeric"] = WorkBlocks \cup OutBlocks
    /\ {"c_row_ptr"} \cup RowBlocks \subseteq Freed["no_row"]
    /\ {"c_row_ptr"} \cup RowBlocks \subseteq Freed["no_flags"]
  <1>1. CASE kind \in {"rvv_f32", "rvv_f64"}
    BY <1>1 DEF Freed, WorkBlocks
  <1>2. CASE kind \notin {"rvv_f32", "rvv_f64"}
    BY <1>2 DEF Freed, WorkBlocks, FreedWithoutC
  <1>3. QED
    BY <1>1, <1>2

\* The arrays of the flags' function are none of the kernel's.
LEMMA WorkAndSeen == WorkBlocks \cap SeenBlocks = {} /\ SeenBlocks # {}
  BY DEF WorkBlocks, RowBlocks, FlagBlocks, SeenBlocks

LEMMA HeapStep ==
    ASSUME InHeap, [Next]_vars
    PROVE  InHeap'
  <1>1. WorkBlocks' = WorkBlocks
    BY FixedOperands, Fixed
  <1> USE DEF InHeap, HeapOnReturn, Numeric, Status
  <1>f. ASSUME NEW held, NEW place, NEW error \in {"ALLOCATION_FAILED", "INVALID_ARGUMENT", "INVALID_CSR"},
               Fails(held, place, error), held \subseteq Freed[place]
        PROVE  InHeap'
    <2>1. pc' = "returned" /\ status' = error /\ heap' = held \ Freed[place]
      BY <1>f DEF Fails
    <2>2. heap' = {}
      BY <1>f, <2>1
    <2>3. QED
      BY <2>1, <2>2
  <1>w. ASSUME heap = WorkBlocks, NEW place \in {"flagging", "a_column", "b_column", "overflow"}
        PROVE  heap \subseteq Freed[place]
    BY <1>w, FreedEverywhere
  <1>2. CASE AllocateWork
    <2>1. CASE heap' = WorkBlocks /\ Goto(IF Vector THEN "flags" ELSE "count")
      BY <1>1, <1>2, <2>1 DEF Goto, AllocateWork
    <2>2. ASSUME NEW got \in (SUBSET WorkBlocks) \ {WorkBlocks}, Trusting,
                 Fails(got, "no_row", "ALLOCATION_FAILED")
          PROVE  InHeap'
      <3>1. WorkBlocks = {"c_row_ptr"} \cup RowBlocks
        BY <2>2 DEF Trusting, WorkBlocks, FlagBlocks, Vector
      <3>2. got \subseteq Freed["no_row"]
        BY <2>2, <3>1, FreedEverywhere
      <3>3. QED
        BY <1>f, <2>2, <3>2
    <2>3. CASE Fails({}, "no_row_ptr", "ALLOCATION_FAILED")
      BY <1>f, <2>3
    <2>4. ASSUME NEW got \in (SUBSET RowBlocks) \ {RowBlocks},
                 Fails({"c_row_ptr"} \cup got, "no_row", "ALLOCATION_FAILED")
          PROVE  InHeap'
      <3>1. {"c_row_ptr"} \cup got \subseteq Freed["no_row"]
        BY <2>4, FreedEverywhere
      <3>2. QED
        BY <1>f, <2>4, <3>1
    <2>5. CASE Fails({"c_row_ptr"} \cup RowBlocks, "no_flags", "ALLOCATION_FAILED")
      <3>1. {"c_row_ptr"} \cup RowBlocks \subseteq Freed["no_flags"]
        BY FreedEverywhere
      <3>2. QED
        BY <1>f, <2>5, <3>1
    <2>6. QED
      BY <1>2, <2>1, <2>2, <2>3, <2>4, <2>5 DEF AllocateWork
  <1>3. CASE AllocateSeen
    <2>1. PICK got \in SUBSET SeenBlocks :
            IF got = SeenBlocks
              THEN heap' = heap \cup got /\ UNCHANGED <<operands, pc, loops, status>>
              ELSE Fails((heap \cup got) \ FreedByFlags.no_memory, "flagging", "ALLOCATION_FAILED")
      BY <1>3 DEF AllocateSeen
    <2>2. pc = "flags" /\ heap = WorkBlocks
      BY <1>3, WorkAndSeen DEF AllocateSeen
    <2>3. CASE got = SeenBlocks
      BY <1>1, <2>1, <2>2, <2>3
    <2>4. CASE got # SeenBlocks
      <3>1. (heap \cup got) \ FreedByFlags.no_memory = heap
        BY <2>2, WorkAndSeen DEF FreedByFlags
      <3>2. heap \subseteq Freed["flagging"]
        BY <1>w, <2>2
      <3>3. QED
        BY <1>f, <2>1, <2>4, <3>1, <3>2
    <2>5. QED
      BY <2>3, <2>4
  <1>4. CASE FlagRow
    <2>0. pc = "flags" /\ heap = WorkBlocks \cup SeenBlocks
      BY <1>4, WorkAndSeen DEF FlagRow
    <2>1. CASE Scanned(B[row]) /\ Broken(B[row])
      <3>1. heap \ FreedByFlags.refused = WorkBlocks
        BY <2>0, WorkAndSeen DEF FreedByFlags
      <3>2. WorkBlocks \subseteq Freed["flagging"]
        BY FreedEverywhere
      <3>3. Fails(WorkBlocks, "flagging", "INVALID_ARGUMENT")
        BY <1>4, <2>1, <3>1 DEF FlagRow
      <3>4. QED
        BY <1>f, <3>2, <3>3
    <2>2. CASE ~(Scanned(B[row]) /\ Broken(B[row]))
      BY <1>1, <1>4, <2>0, <2>2 DEF FlagRow, NextRow
    <2>3. QED
      BY <2>1, <2>2
  <1>5. CASE FlagsDone
    <2>1. pc = "flags" /\ heap' = heap \ SeenBlocks /\ pc' = "count" /\ status' = status
      BY <1>5 DEF FlagsDone, FreedByFlags, Goto
    <2>2. heap \ SeenBlocks = WorkBlocks
      BY <2>1, WorkAndSeen
    <2>3. QED
      BY <1>1, <2>1, <2>2
  <1>5a. CASE StartPrefix
    BY <1>1, <1>5a DEF StartPrefix, Goto, Counting
  <1>6. CASE CountRefuses
    <2>1. pc = "count" /\ heap = WorkBlocks
      BY <1>6 DEF CountRefuses, Counting
    <2>2. heap \subseteq Freed["a_column"]
      BY <1>w, <2>1
    <2>3. QED
      BY <1>f, <1>6, <2>2 DEF CountRefuses
  <1>7. CASE CountEntry
    <2> DEFINE fails == ~Trusting /\ OutOfRange(BRow[bp][1], b_cols)
    <2>0. pc = "count" /\ IF fails THEN Fails(heap, "b_column", "INVALID_ARGUMENT")
                                   ELSE UNCHANGED <<pc, heap, status>>
      BY <1>7 DEF CountEntry, Counting
    <2> HIDE DEF fails
    <2>1. CASE fails
      <3>1. heap \subseteq Freed["b_column"]
        BY <1>w, <2>0
      <3>2. QED
        BY <1>f, <2>0, <2>1, <3>1
    <2>2. CASE ~fails
      BY <1>1, <2>0, <2>2
    <2>3. QED
      BY <2>1, <2>2
  <1>8. CASE CountNext \/ CountRow
    BY <1>1, <1>8 DEF CountNext, CountRow, NextEntry, NextRow, Counting
  <1>9. CASE CountOverflows
    <2>1. pc = "count" /\ Fails(heap, "overflow", "ALLOCATION_FAILED")
      BY <1>9 DEF CountOverflows
    <2>2. heap \subseteq Freed["overflow"]
      BY <1>w, <2>1
    <2>3. QED
      BY <1>f, <2>1, <2>2
  <1>10. CASE PrefixRow
    BY <1>1, <1>10 DEF PrefixRow, NextRow
  <1>11. CASE AllocateC
    <2>0. pc = "prefix"
      BY <1>11 DEF AllocateC
    <2>1. PICK got \in SUBSET OutBlocks :
            IF got = OutBlocks
              THEN heap' = heap \cup got /\ Goto("numeric")
              ELSE Fails(heap \cup got, "no_c", "ALLOCATION_FAILED")
      BY <1>11 DEF AllocateC
    <2>2. CASE got = OutBlocks
      BY <1>1, <2>0, <2>1, <2>2 DEF Goto
    <2>3. CASE got # OutBlocks
      <3>1. heap \cup got \subseteq Freed["no_c"]
        BY <2>0, FreedEverywhere
      <3>2. QED
        BY <1>f, <2>1, <2>3, <3>1
    <2>4. QED
      BY <2>2, <2>3
  <1>12. CASE MarkEntry
    <2>1. pc = "numeric" /\ IF Refused THEN Fails(heap, "numeric", "INVALID_ARGUMENT")
                                       ELSE /\ pc' \in {"numeric", "add", "vector", "gather"}
                                            /\ UNCHANGED <<heap, status>>
      BY <1>12 DEF MarkEntry
    <2>2. CASE Refused
      <3>1. heap \subseteq Freed["numeric"]
        BY <2>1, FreedEverywhere
      <3>2. QED
        BY <1>f, <2>1, <2>2, <3>1
    <2>3. CASE ~Refused
      BY <1>1, <2>1, <2>3
    <2>4. QED
      BY <2>2, <2>3
  <1>13. CASE AddEntry \/ NumericNext \/ AddRun \/ AddGathered \/ GatherRest \/ AddSpan
    <2>1. /\ pc \in {"numeric", "add", "vector", "gather"}
          /\ pc' \in {"numeric", "add", "vector", "gather"} /\ UNCHANGED <<heap, status>>
      BY <1>13 DEF AddEntry, NumericNext, AddRun, AddGathered, GatherRest, AddSpan, NextEntry,
         AddedTo, InVector
    <2>2. QED
      BY <1>1, <2>1
  <1>14. CASE EmitRow
    <2> DEFINE fails == /\ kind \in {"rvv_f32", "rvv_f64"}
                        /\ c_row_ptr[row] + Len(Ascending({c \in Range(touched) : acc[c] # 0}))
                             > c_row_ptr[row + 1]
    <2>1. pc = "numeric" /\ IF fails THEN Fails(heap, "numeric", "INVALID_ARGUMENT")
                                     ELSE UNCHANGED <<pc, heap, status>>
      BY <1>14 DEF EmitRow, NextRow
    <2> HIDE DEF fails
    <2>2. CASE fails
      <3>1. heap \subseteq Freed["numeric"]
        BY <2>1, FreedEverywhere
      <3>2. QED
        BY <1>f, <2>1, <2>2, <3>1
    <2>3. CASE ~fails
      BY <1>1, <2>1, <2>3
    <2>4. QED
      BY <2>2, <2>3
  <1>15. CASE Return
    <2>1. /\ pc = "numeric" /\ pc' = "returned" /\ status' = "SUCCESS"
          /\ heap' = heap \ (RowBlocks \cup FlagBlocks)
      BY <1>15 DEF Return
    <2>2. heap' = {"c_row_ptr", "c_col_idx", "c_values"}
      BY <2>1 DEF WorkBlocks, OutBlocks, RowBlocks, FlagBlocks
    <2>3. QED
      BY <2>1, <2>2
  <1>16. CASE UNCHANGED vars
    BY <1>1, <1>16 DEF vars
  <1>17. QED
    BY <1>2, <1>3, <1>4, <1>5, <1>5a, <1>6, <1>7, <1>8, <1>9, <1>10, <1>11, <1>12, <1>13, <1>14,
       <1>15, <1>16 DEF Next

\* In every older kernel: what the list of a failing return names is at least what
\* is allocated there, whichever allocation failed and whatever was refused, and a
\* success leaves the arrays of C and nothing else.
THEOREM NothingLeaks == Spec => []HeapOnReturn
  <1>1. Init => InHeap
    BY DEF Init, InHeap, HeapOnReturn, Numeric
  <1>2. InHeap /\ [Next]_vars => InHeap'
    BY HeapStep
  <1>3. InHeap => HeapOnReturn
    BY DEF InHeap
  <1>4. QED
    BY <1>1, <1>2, <1>3, PTL DEF Spec

-------------------------------------------------------------------------------
(* Where the loops are *)

LEMMA Here ==
    ASSUME Place, Numeric, InA
    PROVE  /\ row \in Rows /\ ap \in 1 .. Len(A[row]) /\ ap \in Nat /\ bp \in Nat /\ bp >= 1
           /\ upto \in Nat
           /\ BRow = B[A[row][ap][1]] /\ a_col = A[row][ap][1] /\ a_val = A[row][ap][2]
           /\ a_col \in 0 .. a_cols - 1 /\ a_val \in Int /\ EntryClean(row, ap)
           /\ BRow \in Seq(Int \X Int) /\ Len(BRow) \in Nat /\ DOMAIN BRow = 1 .. Len(BRow)
           /\ \A q \in 1 .. Len(BRow) :
                BRow[q][1] \in Cols /\ BRow[q][1] \in Int /\ BRow[q][2] \in Int
           /\ Left \in Int /\ Left = Len(BRow) - bp + 1
           /\ (InB <=> Left >= 1)
  <1>1. row \in Rows /\ row \in Nat /\ ap \in Nat /\ ap >= 1 /\ bp \in Nat /\ bp >= 1 /\ upto \in Nat
    BY Shape DEF Place, LoopTypes, InA, Rows
  <1>2. ap \in 1 .. Len(A[row]) /\ OperandsFit /\ EntryClean(row, ap)
    BY <1>1, RowFacts DEF Place, LoopTypes, Looking, InA, RowClean
  <1>3. /\ BRow = B[A[row][ap][1]] /\ a_col = A[row][ap][1] /\ a_val = A[row][ap][2]
        /\ Left = Len(BRow) - bp + 1 /\ (InB <=> bp <= Len(BRow))
    BY DEF BRow, a_col, a_val, Left, InB
  <1>4. /\ a_col \in 0 .. a_cols - 1 /\ a_val \in Int
        /\ BRow \in Seq(Int \X Int) /\ Len(BRow) \in Nat /\ DOMAIN BRow = 1 .. Len(BRow)
        /\ \A q \in 1 .. Len(BRow) :
             BRow[q][1] \in Cols /\ BRow[q][1] \in Int /\ BRow[q][2] \in Int
    BY <1>1, <1>2, <1>3, CleanFacts
  <1>5. Left \in Int /\ (InB <=> Left >= 1)
    <2>1. bp \in Nat /\ Len(BRow) \in Nat
      BY <1>1, <1>4
    <2>2. QED
      BY ONLY <1>3, <2>1
  <1>6. QED
    BY <1>1, <1>2, <1>3, <1>4, <1>5, Zenon

\* A run of consecutive columns begins at every entry and stays in the row.
LEMMA RunFacts ==
    ASSUME Place, Numeric, InA, NEW i \in 1 .. Len(BRow)
    PROVE  /\ RunAt(i) \in 1 .. Len(BRow) - i + 1
           /\ \A k \in 0 .. RunAt(i) - 1 : BRow[i + k][1] = BRow[i][1] + k
  <1> DEFINE T == {n \in 1 .. Len(BRow) - i + 1 :
                     \A k \in 0 .. n - 1 : BRow[i + k][1] = BRow[i][1] + k}
             m == Len(BRow) - i + 1
  <1>1. Len(BRow) \in Nat /\ BRow[i][1] \in Int /\ i \in Nat /\ m \in Nat /\ m >= 1
    BY Here
  <1>2. 1 \in T /\ T \in SUBSET Nat /\ \A n \in T : n <= m
    <2>1. \A k \in 0 .. 1 - 1 : k = 0
      OBVIOUS
    <2>2. QED
      BY <1>1, <2>1
  <1>3. RunAt(i) = Max(T)
    BY DEF RunAt
  <1>4. RunAt(i) \in T
    <2> HIDE DEF T, m
    <2>1. \E x \in T : \A y \in T : y <= x
      BY <1>1, <1>2, Greatest
    <2>2. \E x \in T : \A y \in T : x >= y
      BY <1>2, <2>1
    <2>3. QED
      BY <1>3, <2>2 DEF Max
  <1>5. QED
    BY <1>4

LEMMA OffsetFacts ==
    ASSUME Place, Numeric, InA, InB
    PROVE  Offset \in 0 .. Left
  <1>1. /\ Left \in Nat /\ Left >= 1 /\ Limit \in Nat /\ Limit <= Left /\ ContigMin \in Nat
    <2>1. Left \in Int /\ Left >= 1
      BY Here
    <2>2. ScanMax \in Nat /\ ContigMin \in Nat
      BY Shape
    <2>3. QED
      BY <2>1, <2>2 DEF Limit
  <1>2. Runs \in SUBSET Nat /\ \A n \in Runs : n <= Limit
    BY <1>1, Shape DEF Runs
  <1>3. CASE Runs = {}
    BY <1>1, <1>3 DEF Offset
  <1>4. CASE Runs # {}
    <2>1. \E x \in Runs : \A y \in Runs : x <= y
      BY <1>2, <1>4, Least
    <2>2. Min(Runs) \in Runs
      BY <2>1 DEF Min
    <2>3. Min(Runs) \in Nat /\ Min(Runs) <= Limit /\ Offset = Min(Runs)
      BY <1>2, <1>4, <2>2 DEF Offset
    <2>4. QED
      BY ONLY <1>1, <2>3
  <1>5. QED
    BY <1>3, <1>4

LEMMA GroupFacts ==
    ASSUME Place, Numeric, InA, InB, UsesVector(a_col) => bp = 1
    PROVE  Group \in 1 .. Left
  <1>1. Left \in Nat /\ Left >= 1 /\ Left = Len(BRow) - bp + 1 /\ Len(BRow) \in Nat
    BY Here
  <1>2. QED
    BY <1>1 DEF Group

\* What a step that keeps the operands leaves true of their rows.
LEMMA SameRows ==
    ASSUME UNCHANGED operands
    PROVE  /\ \A r, p : EntryClean(r, p)' <=> EntryClean(r, p)
           /\ \A r : RowClean(r)' <=> RowClean(r)
           /\ \A k : Scanned(B[k])' <=> Scanned(B[k])
  <1>1. A' = A /\ B' = B /\ kind' = kind
    BY DEF operands
  <1>2. \A r, p : EntryClean(r, p)' <=> EntryClean(r, p)
    BY <1>1 DEF EntryClean
  <1>3. QED
    BY <1>1, <1>2 DEF RowClean, Scanned

LEMMA LoopTypesStep ==
    ASSUME Place, [Next]_vars
    PROVE  LoopTypes'
  <1>1. OperandsFit' /\ LoopTypes /\ OperandsFit /\ a_rows \in Nat /\ a_cols \in Nat
    BY FixedOperands, Fixed, Shape DEF Place, LoopTypes
  <1>2. ASSUME Numeric, InA
        PROVE  row \in Nat /\ row < a_rows
    BY <1>1, <1>2 DEF LoopTypes, InA
  <1> USE DEF LoopTypes, Computing, Numeric, Status
  <1>3. CASE Failing
    BY <1>1, <1>3 DEF Failing, loops, Errors
  <1>4. CASE Starting \/ FlagsDone \/ StartPrefix \/ Allocating
    BY <1>1, <1>4 DEF Starting, FlagsDone, StartPrefix, Allocating, Goto, Counting
  <1>5. CASE Flagging \/ PrefixRow
    BY <1>1, <1>5 DEF Flagging, PrefixRow, NextRow
  <1>6. CASE CountingEntry \/ CountNext
    BY <1>1, <1>6 DEF CountingEntry, CountNext, NextEntry, Counting
  <1>7. CASE CountRow
    BY <1>1, <1>7 DEF CountRow, NextRow, Counting
  <1>8. CASE Marking
    BY <1>1, <1>2, <1>8 DEF Marking
  <1>9. CASE AddEntry
    BY <1>1, <1>9 DEF AddEntry
  <1>10. CASE NumericNext
    BY <1>1, <1>10 DEF NumericNext, NextEntry
  <1>11. CASE AddRun
    <2>1. pc = "vector" /\ InA /\ InB /\ AddedTo(RunAt(bp))
      BY <1>11 DEF AddRun, InVector, Place, InGroup
    <2>2. RunAt(bp) \in Nat
      BY <2>1, Here, RunFacts DEF InB
    <2>3. QED
      BY <1>1, <2>1, <2>2 DEF AddedTo
  <1>12. CASE AddGathered
    <2>1. PICK vl \in 1 .. MaxVl : AddedTo(vl)
      BY <1>12 DEF AddGathered
    <2>2. vl \in Nat /\ pc \in {"vector", "gather"}
      BY <1>12, Shape DEF AddGathered, InVector
    <2>3. QED
      BY <1>1, <2>1, <2>2 DEF AddedTo
  <1>13. CASE GatherRest
    BY <1>1, <1>13 DEF GatherRest, InVector, loops
  <1>14. CASE AddSpan
    <2>1. pc = "vector" /\ InA /\ InB
      BY <1>14 DEF AddSpan, InVector, Place, InGroup
    <2>2. Offset \in Nat
      BY <2>1, OffsetFacts, Here
    <2>3. QED
      BY <1>1, <1>14, <2>1, <2>2 DEF AddSpan
  <1>15. CASE Emitting
    BY <1>1, <1>15 DEF Emitting, NextRow
  <1>16. CASE Return
    BY <1>1, <1>16 DEF Return, loops
  <1>17. CASE Resting
    BY <1>1, <1>17 DEF Resting, loops
  <1>18. QED
    BY <1>3, <1>4, <1>5, <1>6, <1>7, <1>8, <1>9, <1>10, <1>11, <1>12, <1>13, <1>14, <1>15, <1>16,
       <1>17, NextIs

LEMMA FlagsStep ==
    ASSUME Place, [Next]_vars
    PROVE  FlagsKnown'
  <1>1. /\ UNCHANGED operands /\ B' = B /\ kind' = kind /\ (Vector' <=> Vector)
        /\ \A k : Scanned(B[k])' <=> Scanned(B[k])
        /\ LoopTypes /\ FlagsKnown /\ row \in Nat /\ a_cols \in Nat
    BY FixedOperands, Fixed, SameRows, Shape DEF Place, LoopTypes
  <1>2. ASSUME flags' = flags
        PROVE  \A k : Flagged(k)' <=> Flagged(k)
    BY <1>1, <1>2 DEF Flagged
  <1> USE DEF FlagsKnown, Computing, Numeric
  <1>3. CASE flags' = flags /\ (pc' = "returned" \/ (pc' = pc /\ pc # "flags")
               \/ (pc \in {"count", "prefix", "numeric", "add", "vector", "gather"}
                     /\ pc' \in {"count", "prefix", "numeric", "add", "vector", "gather"}))
    BY <1>1, <1>2, <1>3
  <1>4. CASE Starting
    <2>1. flags' = flags /\ pc' = (IF Vector THEN "flags" ELSE "count") /\ row' = 0
      BY <1>4 DEF Starting, Goto
    <2>2. QED
      BY <1>1, <1>2, <2>1
  <1>5. CASE Flagging
    <2>1. /\ row \in 0 .. a_cols - 1 /\ row' = row + 1 /\ pc' = "flags" /\ pc = "flags"
          /\ flags' = [flags EXCEPT ![row] = Scanned(B[row]) /\ HasDuplicates(B[row])]
      BY <1>1, <1>5 DEF Flagging, NextRow
    <2>2. flags' \in [0 .. a_cols - 1 -> BOOLEAN]
      BY <1>1, <2>1 DEF Scanned, HasDuplicates
    <2>3. ASSUME Vector, NEW k \in 0 .. a_cols - 1, k < row + 1
          PROVE  Flagged(k)'
      <3>1. CASE k = row
        BY <1>1, <2>1, <3>1 DEF Flagged
      <3>2. CASE k # row
        <4>1. Flagged(k) /\ flags'[k] = flags[k]
          BY <1>1, <2>1, <2>3, <3>2
        <4>2. QED
          BY <1>1, <4>1 DEF Flagged
      <3>3. QED
        BY <3>1, <3>2
    <2>4. QED
      BY <1>1, <2>1, <2>2, <2>3
  <1>6. CASE FlagsDone
    <2>1. flags' = flags /\ pc' = "count" /\ pc = "flags" /\ row = a_cols
      BY <1>6 DEF FlagsDone, Goto
    <2>2. QED
      BY <1>1, <1>2, <2>1
  <1>7. CASE Resting
    <2>1. UNCHANGED <<pc, row, flags>>
      BY <1>7 DEF Resting, loops
    <2>2. QED
      BY <1>1, <1>2, <2>1
  <1>8. CASE Failing \/ CountingEntry \/ CountNext \/ CountRow \/ StartPrefix \/ PrefixRow
    <2>1. UNCHANGED flags /\ (pc' = "returned" \/ (pc \in {"count", "prefix"} /\ pc' \in {"count", "prefix"}))
      BY <1>8 DEF Failing, CountingEntry, CountNext, CountRow, StartPrefix, PrefixRow, NextEntry,
         NextRow, Goto, Counting
    <2>2. QED
      BY <1>3, <2>1
  <1>9. CASE Allocating \/ Marking \/ AddEntry \/ NumericNext \/ AddRun \/ AddGathered \/ GatherRest
             \/ AddSpan \/ Emitting \/ Return
    <2>1. /\ UNCHANGED flags
          /\ \/ pc' = "returned"
             \/ /\ pc \in {"prefix", "numeric", "add", "vector", "gather"}
                /\ pc' \in {"numeric", "add", "vector", "gather"}
      BY <1>9 DEF Allocating, Marking, AddEntry, NumericNext, AddRun, AddGathered, GatherRest,
         AddSpan, Emitting, Return, NextEntry, NextRow, Goto, AddedTo, InVector
    <2>2. QED
      BY <1>3, <2>1
  <1>10. QED
    BY <1>4, <1>5, <1>6, <1>7, <1>8, <1>9, NextIs

LEMMA LookingAtRow ==
    ASSUME LoopTypes, UNCHANGED operands, LoopTypes', \A r \in Rows : r < row' => RowClean(r),
           ap' = 1, bp' = 1
    PROVE  LookedAt'
  <1>1. A' = A /\ B' = B /\ \A r : RowClean(r)' <=> RowClean(r)
    BY SameRows DEF operands
  <1>2. row' < a_rows => row' \in Rows
    BY Shape DEF LoopTypes, Rows
  <1>3. row' < a_rows => 1 <= Len(A[row']) + 1
    BY <1>2, RowFacts DEF LoopTypes
  <1>4. ap' - 1 = 0 /\ ~(bp' > 1)
    OBVIOUS
  <1>5. QED
    BY <1>1, <1>3, <1>4 DEF LookedAt

LEMMA LookingStep ==
    ASSUME Place, LoopTypes', [Next]_vars
    PROVE  Looking'
  <1>1. /\ UNCHANGED operands /\ A' = A /\ B' = B
        /\ \A r : RowClean(r)' <=> RowClean(r)
        /\ \A r, p : EntryClean(r, p)' <=> EntryClean(r, p)
        /\ LoopTypes /\ OperandsFit /\ Looking /\ row \in Nat /\ ap \in Nat /\ bp \in Nat
        /\ ap >= 1 /\ bp >= 1 /\ a_rows \in Nat
    BY FixedOperands, Fixed, SameRows, Shape DEF Place, LoopTypes
  <1>2. row < a_rows => row \in Rows
    BY <1>1, Shape DEF Rows
  <1> USE DEF Numeric
  <1>3. CASE Failing
    BY <1>3 DEF Failing, Errors, Looking
  <1>4. CASE Starting \/ FlagsDone
    <2>1. /\ row' = 0 /\ ap' = 1 /\ bp' = 1 /\ pc' \in {"flags", "count"} /\ status' = status
          /\ pc \in {"start", "flags"}
      BY <1>4 DEF Starting, FlagsDone, Goto
    <2>2. \A r \in Rows : ~(r < row')
      BY <2>1, Shape DEF Rows
    <2>3. LookedAt' /\ status' # "SUCCESS"
      BY <1>1, <2>1, <2>2, LookingAtRow DEF LoopTypes
    <2>4. QED
      BY <2>1, <2>3 DEF Looking
  <1>5. CASE Flagging
    BY <1>1, <1>5 DEF Flagging, NextRow, Looking, LoopTypes
  <1>6. CASE CountingEntry
    <2>1. /\ pc = "count" /\ pc' = "count" /\ status' = status /\ row' = row /\ ap' = ap
          /\ bp' = bp + 1 /\ InA /\ InB /\ ~OutOfRange(a_col, a_cols)
          /\ Trusting \/ ~OutOfRange(BRow[bp][1], b_cols)
      BY <1>6 DEF CountingEntry
    <2>2. /\ row \in Rows /\ ap \in 1 .. Len(A[row]) /\ a_col = A[row][ap][1]
          /\ BRow = B[a_col] /\ LookedAt /\ Len(A[row]) \in Nat
      BY <1>1, <1>2, <2>1, RowFacts DEF InA, a_col, BRow, Looking
    <2>3. a_col \in 0 .. a_cols - 1
      BY <1>1, <2>1, <2>2, RowFacts, InRange, Shape
    <2>4. /\ Len(BRow) \in Nat /\ bp \in 1 .. Len(BRow) /\ BRow[bp][1] \in Int
          /\ Trusting => BRow[bp][1] \in Cols
      <3>1. /\ Len(BRow) \in Nat /\ \A q \in 1 .. Len(BRow) : BRow[q][1] \in Int
            /\ Trusting => \A q \in 1 .. Len(BRow) : BRow[q][1] \in Cols
        BY <1>1, <2>2, <2>3, RightFacts
      <3>2. bp \in 1 .. Len(BRow)
        BY <1>1, <2>1, <3>1 DEF InB
      <3>3. QED
        BY <3>1, <3>2
    <2>5. BRow[bp][1] \in Cols
      BY <2>1, <2>4, InRange, Shape DEF Cols
    <2>6. \A q \in 1 .. bp' - 1 : BRow[q][1] \in Cols
      <3>1. \A q \in 1 .. bp' - 1 : q = bp \/ (bp > 1 /\ q \in 1 .. bp - 1)
        BY <1>1, <2>1
      <3>2. bp > 1 => \A q \in 1 .. bp - 1 : BRow[q][1] \in Cols
        BY <2>1, <2>2 DEF LookedAt, InA
      <3>3. QED
        BY ONLY <2>5, <3>1, <3>2
    <2>7. a_col' = a_col /\ BRow' = BRow
      BY <1>1, <2>1 DEF a_col, BRow
    <2>8. LookedAt'
      BY <1>1, <2>1, <2>2, <2>3, <2>4, <2>6, <2>7 DEF LookedAt
    <2>9. QED
      BY <1>1, <2>1, <2>8 DEF Looking, LoopTypes
  <1>7. CASE CountNext
    <2>1. /\ pc = "count" /\ pc' = "count" /\ status' = status /\ row' = row /\ ap' = ap + 1
          /\ bp' = 1 /\ InA /\ ~InB /\ ~OutOfRange(a_col, a_cols)
      BY <1>7 DEF CountNext, NextEntry, Counting
    <2>2. /\ row \in Rows /\ ap \in 1 .. Len(A[row]) /\ a_col = A[row][ap][1]
          /\ BRow = B[a_col] /\ LookedAt /\ Len(A[row]) \in Nat /\ row < a_rows
      BY <1>1, <1>2, <2>1, RowFacts DEF InA, a_col, BRow, Looking
    <2>3. a_col \in 0 .. a_cols - 1
      BY <1>1, <2>1, <2>2, RowFacts, InRange, Shape
    <2>4. Len(BRow) \in Nat /\ bp > Len(BRow)
      BY <1>1, <2>1, <2>2, <2>3, RightFacts DEF InB
    <2>5. \A q \in 1 .. Len(BRow) : BRow[q][1] \in Cols
      BY <1>1, <2>2, <2>4 DEF LookedAt
    <2>6. EntryClean(row, ap)
      BY <2>2, <2>3, <2>5 DEF EntryClean
    <2>7. \A p \in 1 .. ap' - 1 : EntryClean(row, p)
      <3>1. \A p \in 1 .. ap' - 1 : p = ap \/ p \in 1 .. ap - 1
        BY <1>1, <2>1
      <3>2. QED
        BY <2>2, <2>6, <3>1 DEF LookedAt
    <2>8. LookedAt'
      BY <1>1, <2>1, <2>2, <2>7 DEF LookedAt
    <2>9. QED
      BY <1>1, <2>1, <2>8 DEF Looking, LoopTypes
  <1>8. CASE CountRow
    <2>1. /\ pc = "count" /\ pc' = "count" /\ status' = status /\ row' = row + 1 /\ ap' = 1
          /\ bp' = 1 /\ row < a_rows /\ ap > Len(A[row]) /\ LookedAt
      BY <1>1, <1>2, <1>8, RowFacts DEF CountRow, NextRow, Counting, InA, Looking
    <2>2. RowClean(row)
      BY <1>1, <1>2, <2>1, RowFacts DEF RowClean, LookedAt
    <2>3. \A r \in Rows : r < row' => RowClean(r)
      <3>1. \A r \in Rows : r < row' => r < row \/ r = row
        BY <1>1, <2>1 DEF Rows
      <3>2. QED
        BY <2>1, <2>2, <3>1 DEF LookedAt
    <2>4. LookedAt'
      BY <1>1, <2>1, <2>3, LookingAtRow
    <2>5. QED
      BY <1>1, <2>1, <2>4 DEF Looking, LoopTypes
  <1>9. CASE StartPrefix
    <2>1. /\ pc = "count" /\ pc' = "prefix" /\ row = a_rows /\ LookedAt
      BY <1>1, <1>9 DEF StartPrefix, Goto, Counting, Looking
    <2>2. \A r \in Rows : RowClean(r)
      BY <2>1, Shape DEF LookedAt, Rows
    <2>3. QED
      BY <1>1, <2>1, <2>2 DEF Looking
  <1>10. CASE PrefixRow
    BY <1>1, <1>10 DEF PrefixRow, NextRow, Looking
  <1> DEFINE place == row' < a_rows => ap' <= Len(A[row']) + 1
  <1>11. ASSUME \A r \in Rows : RowClean(r), place,
                pc' \in {"numeric", "add", "vector", "gather", "returned"}
         PROVE  Looking'
    BY <1>1, <1>11 DEF Looking
  <1>12. ASSUME pc \in {"prefix", "numeric", "add", "vector", "gather"}
         PROVE  \A r \in Rows : RowClean(r)
    BY <1>1, <1>12 DEF Looking
  <1>13. CASE Allocating \/ Emitting
    <2>1. /\ pc \in {"prefix", "numeric"} /\ pc' = "numeric" /\ ap' = 1 /\ row' \in Nat
      BY <1>1, <1>13 DEF Allocating, Emitting, Goto, NextRow
    <2>2. row' < a_rows => row' \in Rows
      BY <1>1, <2>1, Shape DEF Rows
    <2>3. place
      BY <1>1, <2>1, <2>2, RowFacts
    <2>4. QED
      BY <1>11, <1>12, <2>1, <2>3
  <1>14. CASE Marking \/ AddEntry \/ AddRun \/ AddGathered \/ GatherRest \/ AddSpan \/ Return
              \/ Resting
    <2>1. \/ row' = row /\ ap' = ap /\ pc' = pc /\ status' = status
          \/ /\ row' = row /\ ap' = ap /\ pc \in {"numeric", "add", "vector", "gather"}
             /\ pc' \in {"numeric", "add", "vector", "gather", "returned"}
      BY <1>14 DEF Marking, AddEntry, AddRun, AddGathered, GatherRest, AddSpan, Return, Resting,
         AddedTo, InVector, loops
    <2>2. CASE row' = row /\ ap' = ap /\ pc' = pc /\ status' = status /\ bp' = bp
      BY <1>1, <2>2 DEF Looking, LookedAt, a_col, BRow
    <2>3. CASE /\ row' = row /\ ap' = ap /\ pc \in {"numeric", "add", "vector", "gather"}
               /\ pc' \in {"numeric", "add", "vector", "gather", "returned"}
      <3>1. place
        BY <1>1, <2>3 DEF Looking
      <3>2. QED
        BY <1>11, <1>12, <2>3, <3>1
    <2>4. Resting \/ pc \in {"numeric", "add", "vector", "gather"}
      BY <1>14 DEF Marking, AddEntry, AddRun, AddGathered, GatherRest, AddSpan, Return, InVector
    <2>5. QED
      BY <2>1, <2>2, <2>3, <2>4 DEF Resting, loops
  <1>15. CASE NumericNext
    <2>1. /\ pc \in {"numeric", "gather", "vector"} /\ InA /\ row' = row /\ ap' = ap + 1
          /\ pc' = "numeric"
      BY <1>15 DEF NumericNext, NextEntry, Place, InGroup
    <2>2. place
      BY <1>1, <1>2, <2>1, RowFacts DEF InA
    <2>3. QED
      BY <1>11, <1>12, <2>1, <2>2
  <1>16. QED
    BY <1>3, <1>4, <1>5, <1>6, <1>7, <1>8, <1>9, <1>10, <1>13, <1>14, <1>15, NextIs

LEMMA HereNext ==
    ASSUME LoopTypes, UNCHANGED operands, LoopTypes', Looking', Numeric', InA'
    PROVE  /\ row' \in Rows /\ ap' \in 1 .. Len(A[row'])
           /\ a_col' = A[row'][ap'][1] /\ BRow' = B[a_col'] /\ EntryClean(row', ap')
           /\ a_col' \in 0 .. a_cols - 1 /\ Len(BRow') \in Nat
  <1>1. A' = A /\ B' = B /\ OperandsFit /\ \A r : RowClean(r)' <=> RowClean(r)
    BY SameRows DEF operands, LoopTypes
  <1>2. row' \in Rows
    BY <1>1, Shape DEF LoopTypes, InA, Rows
  <1>3. ap' \in 1 .. Len(A[row']) /\ RowClean(row')
    BY <1>1, <1>2, RowFacts DEF LoopTypes, Looking, InA
  <1>4. a_col' = A[row'][ap'][1] /\ BRow' = B[a_col'] /\ EntryClean(row', ap')
    BY <1>1, <1>3 DEF a_col, BRow, RowClean
  <1>5. a_col' \in 0 .. a_cols - 1 /\ Len(BRow') \in Nat
    BY <1>1, <1>2, <1>3, <1>4, CleanFacts
  <1>6. QED
    BY <1>2, <1>3, <1>4, <1>5

\* Between two groups nothing is marked ahead.
LEMMA GroupBegins ==
    ASSUME LoopTypes, UNCHANGED operands, LoopTypes', Looking', pc' = "numeric",
           upto' = bp', ~InA' => bp' = 1,
           InA' => bp' <= Len(BRow') + 1 /\ (UsesVector(a_col)' => bp' = 1)
    PROVE  InGroup'
  <1>1. bp' \in Nat /\ bp' >= 1
    BY DEF LoopTypes
  <1>2. ASSUME InA', InB'
        PROVE  upto' < bp' + Group'
    <2>1. Len(BRow') \in Nat
      BY <1>2, HereNext DEF Numeric
    <2>2. bp' <= Len(BRow')
      BY <1>2 DEF InB
    <2>3. Group' \in Nat /\ Group' >= 1
      BY <1>1, <2>1, <2>2 DEF Group
    <2>4. \A b, g \in Nat : g >= 1 => b < b + g
      OBVIOUS
    <2>5. bp' < bp' + Group'
      BY <1>1, <2>3, <2>4
    <2>6. QED
      BY <2>5
  <1>3. QED
    BY <1>1, <1>2 DEF InGroup

LEMMA SameEntry ==
    ASSUME UNCHANGED operands, row' = row, ap' = ap
    PROVE  /\ a_col' = a_col /\ a_val' = a_val /\ BRow' = BRow /\ (InA' <=> InA)
           /\ flags' = flags => \A k : UsesVector(k)' <=> UsesVector(k)
           /\ bp' = bp => Left' = Left /\ (InB' <=> InB)
           /\ bp' = bp /\ flags' = flags => Group' = Group
  <1>1. A' = A /\ B' = B /\ kind' = kind /\ (Vector' <=> Vector)
    BY Fixed DEF operands
  <1>2. a_col' = a_col /\ a_val' = a_val /\ (InA' <=> InA)
    BY <1>1 DEF a_col, a_val, InA
  <1>3. BRow' = BRow
    BY <1>1, <1>2 DEF BRow
  <1>4. flags' = flags => \A k : UsesVector(k)' <=> UsesVector(k)
    BY <1>1 DEF UsesVector
  <1>5. bp' = bp => Left' = Left /\ (InB' <=> InB)
    BY <1>3 DEF Left, InB
  <1>6. bp' = bp /\ flags' = flags => Group' = Group
    BY <1>1, <1>2, <1>3, <1>4, <1>5 DEF Group
  <1>7. QED
    BY <1>2, <1>3, <1>4, <1>5, <1>6

LEMMA InGroupStep ==
    ASSUME Place, LoopTypes', Looking', [Next]_vars
    PROVE  InGroup'
  <1>1. UNCHANGED operands /\ LoopTypes /\ InGroup
    BY FixedOperands DEF Place
  <1> USE DEF Numeric
  <1>2. CASE Failing \/ Starting \/ Flagging \/ FlagsDone \/ CountingEntry \/ CountNext \/ CountRow
             \/ StartPrefix \/ PrefixRow \/ Return
    <2>1. pc' \in {"returned", "flags", "count", "prefix"}
      BY <1>2 DEF Failing, Starting, Flagging, FlagsDone, CountingEntry, CountNext, CountRow,
         StartPrefix, PrefixRow, Return, Goto, NextRow, NextEntry, Counting
    <2>2. QED
      BY <2>1 DEF InGroup
  <1>3. CASE Allocating \/ NumericNext \/ Emitting
    <2>1. pc' = "numeric" /\ upto' = 1 /\ bp' = 1
      BY <1>3 DEF Allocating, NumericNext, Emitting, Goto, NextRow, NextEntry
    <2>2. InA' => Len(BRow') \in Nat
      BY <1>1, <2>1, HereNext
    <2>3. QED
      BY <1>1, <2>1, <2>2, GroupBegins
  <1>4. CASE Marking
    <2>1. /\ pc = "numeric" /\ InA /\ InB /\ UNCHANGED <<row, ap, bp, flags>> /\ upto' = upto + 1
          /\ pc' = IF upto' < bp + Group THEN "numeric"
                   ELSE IF ~UsesVector(a_col) THEN "add"
                   ELSE IF kind = "rvv_i8" THEN "gather" ELSE "vector"
      BY <1>4 DEF Marking
    <2>2. /\ (InA' <=> InA) /\ (InB' <=> InB) /\ BRow' = BRow /\ Group' = Group /\ a_col' = a_col
          /\ (UsesVector(a_col)' <=> UsesVector(a_col))
      BY <1>1, <2>1, SameEntry DEF UsesVector
    <2>3. /\ bp <= upto /\ bp <= Len(BRow) /\ upto < bp + Group
          /\ UsesVector(a_col) => bp = 1
          /\ upto \in Nat /\ bp \in Nat
      BY <2>1 DEF InGroup, InB, Place, LoopTypes
    <2>4. Group \in 1 .. Len(BRow) - bp + 1 /\ Len(BRow) \in Nat
      BY <2>1, <2>3, GroupFacts, Here
    <2>5. QED
      BY <2>1, <2>2, <2>3, <2>4 DEF InGroup
  <1>5. CASE AddEntry
    <2>1. /\ pc = "add" /\ InA /\ bp < upto /\ upto <= Len(BRow) + 1
          /\ UNCHANGED <<row, ap, upto, flags>> /\ bp' = bp + 1 /\ upto \in Nat /\ bp \in Nat
          /\ pc' = IF bp' < upto THEN "add" ELSE IF UsesVector(a_col) THEN "vector" ELSE "numeric"
      BY <1>1, <1>5 DEF AddEntry, InGroup, LoopTypes
    <2>2. /\ (InA' <=> InA) /\ BRow' = BRow /\ a_col' = a_col
          /\ (UsesVector(a_col)' <=> UsesVector(a_col))
      BY <1>1, <2>1, SameEntry DEF UsesVector
    <2>3. Len(BRow) \in Nat
      BY <2>1, Here
    <2>4. CASE pc' = "numeric"
      <3>1. upto' = bp' /\ ~UsesVector(a_col)
        BY <2>1, <2>4
      <3>2. QED
        BY <1>1, <2>1, <2>2, <2>3, <2>4, <3>1, GroupBegins
    <2>5. CASE pc' # "numeric"
      BY <2>1, <2>2, <2>3, <2>5 DEF InGroup
    <2>6. QED
      BY <2>4, <2>5
  <1>6. CASE AddRun \/ AddGathered
    <2>1. pc \in {"vector", "gather"} /\ InA /\ InB
      BY <1>6 DEF AddRun, AddGathered, InVector, InGroup, Place
    <2>2. /\ Len(BRow) \in Nat /\ bp \in 1 .. Len(BRow) /\ Left = Len(BRow) - bp + 1
      BY <2>1, Here DEF InB
    <2>3. PICK n \in Nat : AddedTo(n) /\ n <= Left
      <3>1. CASE AddRun
        <4>1. RunAt(bp) \in Nat /\ RunAt(bp) <= Left
          BY <2>1, <2>2, RunFacts
        <4>2. QED
          BY <3>1, <4>1 DEF AddRun
      <3>2. CASE AddGathered
        BY <3>2, Shape DEF AddGathered
      <3>3. QED
        BY <1>6, <3>1, <3>2
    <2>4. UNCHANGED <<pc, row, ap, flags>> /\ bp' = bp + n
      BY <2>3 DEF AddedTo
    <2>5. /\ (InA' <=> InA) /\ BRow' = BRow /\ a_col' = a_col
          /\ (UsesVector(a_col)' <=> UsesVector(a_col))
      BY <1>1, <2>4, SameEntry DEF UsesVector
    <2>6. QED
      BY <1>1, <2>1, <2>2, <2>3, <2>4, <2>5 DEF InGroup
  <1>7. CASE GatherRest \/ AddSpan
    <2>1. /\ pc = "vector" /\ InA /\ InB /\ UNCHANGED <<row, ap, bp, flags>>
          /\ pc' = "gather" \/ (pc' = "add" /\ upto' = bp + Offset /\ Offset > 0)
      BY <1>1, <1>7 DEF GatherRest, AddSpan, InVector, InGroup, loops
    <2>2. /\ Len(BRow) \in Nat /\ bp \in 1 .. Len(BRow) /\ Left = Len(BRow) - bp + 1
          /\ Offset \in 0 .. Left
      BY <2>1, Here, OffsetFacts DEF InB
    <2>3. /\ (InA' <=> InA) /\ BRow' = BRow /\ a_col' = a_col
          /\ (UsesVector(a_col)' <=> UsesVector(a_col))
      BY <1>1, <2>1, SameEntry DEF UsesVector
    <2>4. QED
      BY <1>1, <2>1, <2>2, <2>3 DEF InGroup
  <1>8. CASE Resting
    <2>1. UNCHANGED <<pc, row, ap, bp, upto, flags>>
      BY <1>8 DEF Resting, loops
    <2>2. /\ (InA' <=> InA) /\ (InB' <=> InB) /\ BRow' = BRow /\ Group' = Group /\ a_col' = a_col
          /\ (UsesVector(a_col)' <=> UsesVector(a_col))
      BY <1>1, <2>1, SameEntry DEF UsesVector
    <2>3. QED
      BY <1>1, <2>1, <2>2 DEF InGroup
  <1>9. QED
    BY <1>2, <1>3, <1>4, <1>5, <1>6, <1>7, <1>8, NextIs

LEMMA PlaceStep ==
    ASSUME Place, [Next]_vars
    PROVE  Place'
  <1>1. LoopTypes'
    BY LoopTypesStep
  <1>2. Looking'
    BY <1>1, LookingStep
  <1>3. QED
    BY <1>1, <1>2, InGroupStep, FlagsStep DEF Place

LEMMA InitPlace == Init => Place
  <1> SUFFICES ASSUME Init PROVE Place
    OBVIOUS
  <1>1. OperandsFit
    <2>1. policy \in {0, 1, 2}
      BY LegacyAssumption DEF Init
    <2>2. QED
      BY <2>1 DEF Init, OperandsFit
  <1>2. LoopTypes
    BY <1>1, Shape DEF Init, LoopTypes, Status, Computing, Numeric
  <1>3. Looking /\ InGroup
    BY DEF Init, Looking, InGroup, Numeric
  <1>4. FlagsKnown
    BY DEF Init, FlagsKnown, Computing, Numeric
  <1>5. QED
    BY <1>2, <1>3, <1>4 DEF Place

-------------------------------------------------------------------------------
(* The entries of a row, and those passed *)

LEMMA EntriesAre ==
    ASSUME OperandsFit, NEW r \in Rows, RowClean(r)
    PROVE  \A e : e \in Entries(r) <=>
             \E p \in 1 .. Len(A[r]) : \E q \in 1 .. Len(B[A[r][p][1]]) : e = <<p, q>>
  <1>1. DOMAIN A[r] = 1 .. Len(A[r])
    BY RowFacts
  <1>2. \A p \in 1 .. Len(A[r]) : DOMAIN B[A[r][p][1]] = 1 .. Len(B[A[r][p][1]])
    BY CleanFacts DEF RowClean
  <1>3. ASSUME NEW e
        PROVE  e \in Entries(r) <=>
                 \E p \in DOMAIN A[r] : \E q \in DOMAIN B[A[r][p][1]] : e = <<p, q>>
    <2>1. e \in Entries(r) <=> \E p \in DOMAIN A[r] : e \in {p} \X DOMAIN B[A[r][p][1]]
      BY DEF Entries
    <2>2. ASSUME NEW p \in DOMAIN A[r]
          PROVE  e \in {p} \X DOMAIN B[A[r][p][1]] <=> \E q \in DOMAIN B[A[r][p][1]] : e = <<p, q>>
      OBVIOUS
    <2>3. QED
      BY <2>1, <2>2
  <1>4. QED
    BY <1>1, <1>2, <1>3

\* Every entry adds an integer to a column of C.
LEMMA EntryFacts ==
    ASSUME OperandsFit, NEW r \in Rows, RowClean(r), NEW e \in Entries(r)
    PROVE  /\ Column(r, e) \in Cols /\ Products(r)[e] \in Int
           /\ e[1] \in 1 .. Len(A[r]) /\ e[2] \in 1 .. Len(B[A[r][e[1]][1]]) /\ e = <<e[1], e[2]>>
           /\ Column(r, e) = B[A[r][e[1]][1]][e[2]][1]
           /\ Products(r)[e] = A[r][e[1]][2] * B[A[r][e[1]][1]][e[2]][2]
  <1>1. PICK p \in 1 .. Len(A[r]) : \E q \in 1 .. Len(B[A[r][p][1]]) : e = <<p, q>>
    BY EntriesAre
  <1>2. PICK q \in 1 .. Len(B[A[r][p][1]]) : e = <<p, q>>
    BY <1>1
  <1>3. e[1] = p /\ e[2] = q
    BY <1>2
  <1>4. B[A[r][p][1]][q][1] \in Cols /\ A[r][p][2] \in Int /\ B[A[r][p][1]][q][2] \in Int
    BY CleanFacts DEF RowClean
  <1>5. /\ Column(r, e) = B[A[r][e[1]][1]][e[2]][1]
        /\ Products(r)[e] = A[r][e[1]][2] * B[A[r][e[1]][1]][e[2]][2]
    BY DEF Column, Products
  <1>6. \A i, j \in Int : i * j \in Int
    OBVIOUS
  <1>7. QED
    BY <1>2, <1>3, <1>4, <1>5, <1>6

LEMMA PassedAre ==
    \A e : e \in Passed <=>
        \/ \E p \in 1 .. ap - 1 : \E q \in 1 .. Len(B[A[row][p][1]]) : e = <<p, q>>
        \/ \E q \in 1 .. bp - 1 : e = <<ap, q>>
  <1> SUFFICES ASSUME NEW e
               PROVE  e \in Passed <=>
                        \/ \E p \in 1 .. ap - 1 : \E q \in 1 .. Len(B[A[row][p][1]]) : e = <<p, q>>
                        \/ \E q \in 1 .. bp - 1 : e = <<ap, q>>
    OBVIOUS
  <1> DEFINE before == UNION {{p} \X (1 .. Len(B[A[row][p][1]])) : p \in 1 .. ap - 1}
  <1>0. Passed = before \cup ({ap} \X (1 .. bp - 1))
    BY DEF Passed
  <1>1. e \in before <=> \E p \in 1 .. ap - 1 : e \in {p} \X (1 .. Len(B[A[row][p][1]]))
    OBVIOUS
  <1> HIDE DEF before
  <1>2. ASSUME NEW p \in 1 .. ap - 1
        PROVE  e \in {p} \X (1 .. Len(B[A[row][p][1]]))
                 <=> \E q \in 1 .. Len(B[A[row][p][1]]) : e = <<p, q>>
    OBVIOUS
  <1>3. e \in {ap} \X (1 .. bp - 1) <=> \E q \in 1 .. bp - 1 : e = <<ap, q>>
    OBVIOUS
  <1>4. QED
    BY <1>0, <1>1, <1>2, <1>3

LEMMA PassedNext ==
    ASSUME UNCHANGED <<A, B, row>>
    PROVE  \A e : e \in Passed' <=>
             \/ \E p \in 1 .. ap' - 1 : \E q \in 1 .. Len(B[A[row][p][1]]) : e = <<p, q>>
             \/ \E q \in 1 .. bp' - 1 : e = <<ap', q>>
  <1> SUFFICES ASSUME NEW e
               PROVE  e \in Passed' <=>
                        \/ \E p \in 1 .. ap' - 1 : \E q \in 1 .. Len(B[A[row][p][1]]) : e = <<p, q>>
                        \/ \E q \in 1 .. bp' - 1 : e = <<ap', q>>
    OBVIOUS
  <1> DEFINE before == UNION {{p} \X (1 .. Len(B[A[row][p][1]])) : p \in 1 .. ap' - 1}
  <1>0. Passed' = before \cup ({ap'} \X (1 .. bp' - 1))
    BY DEF Passed
  <1>1. e \in before <=> \E p \in 1 .. ap' - 1 : e \in {p} \X (1 .. Len(B[A[row][p][1]]))
    OBVIOUS
  <1> HIDE DEF before
  <1>2. ASSUME NEW p \in 1 .. ap' - 1
        PROVE  e \in {p} \X (1 .. Len(B[A[row][p][1]]))
                 <=> \E q \in 1 .. Len(B[A[row][p][1]]) : e = <<p, q>>
    OBVIOUS
  <1>3. e \in {ap'} \X (1 .. bp' - 1) <=> \E q \in 1 .. bp' - 1 : e = <<ap', q>>
    OBVIOUS
  <1>4. QED
    BY <1>0, <1>1, <1>2, <1>3

\* Going on by n entries, or to the next entry of A.
LEMMA SomeMorePassed ==
    ASSUME UNCHANGED <<A, B, row, ap>>, NEW n \in Nat, bp' = bp + n, bp \in Nat, bp >= 1
    PROVE  Passed' = Passed \cup ({ap} \X (bp .. bp + n - 1))
  <1>1. \A q : q \in 1 .. bp' - 1 <=> q \in 1 .. bp - 1 \/ q \in bp .. bp + n - 1
    OBVIOUS
  <1>2. \A e : e \in {ap} \X (bp .. bp + n - 1) <=> \E q \in bp .. bp + n - 1 : e = <<ap, q>>
    OBVIOUS
  <1>3. \A e : e \in Passed' <=> e \in Passed \/ e \in {ap} \X (bp .. bp + n - 1)
    BY <1>1, <1>2, PassedAre, PassedNext
  <1>4. QED
    BY <1>3

LEMMA RestPassed ==
    ASSUME UNCHANGED <<A, B, row>>, ap' = ap + 1, bp' = 1, ap \in Nat, ap >= 1,
           bp \in Nat, bp >= 1, BRow = B[A[row][ap][1]], Len(BRow) \in Nat, bp <= Len(BRow) + 1
    PROVE  Passed' = Passed \cup ({ap} \X (bp .. Len(BRow)))
  <1>1. /\ \A p : p \in 1 .. ap' - 1 <=> p \in 1 .. ap - 1 \/ p = ap
        /\ \A q : q \in 1 .. Len(BRow) <=> q \in 1 .. bp - 1 \/ q \in bp .. Len(BRow)
        /\ \A q : q \notin 1 .. bp' - 1
    OBVIOUS
  <1>2. \A e : e \in {ap} \X (bp .. Len(BRow)) <=> \E q \in bp .. Len(BRow) : e = <<ap, q>>
    OBVIOUS
  <1>3. \A e : e \in Passed' <=>
          \/ \E p \in 1 .. ap - 1 : \E q \in 1 .. Len(B[A[row][p][1]]) : e = <<p, q>>
          \/ \E q \in 1 .. Len(BRow) : e = <<ap, q>>
    BY <1>1, PassedNext
  <1>4. \A e : e \in Passed' <=> e \in Passed \/ e \in {ap} \X (bp .. Len(BRow))
    BY <1>1, <1>2, <1>3, PassedAre
  <1>5. QED
    BY <1>4

LEMMA NothingPassed ==
    ASSUME ap' = 1, bp' = 1
    PROVE  Passed' = {}
  BY DEF Passed

LEMMA AllPassed ==
    ASSUME OperandsFit, row \in Rows, RowClean(row), ap = Len(A[row]) + 1, bp = 1
    PROVE  Passed = Entries(row)
  <1>1. Len(A[row]) \in Nat
    BY RowFacts
  <1>2. 1 .. ap - 1 = 1 .. Len(A[row]) /\ 1 .. bp - 1 = {}
    BY <1>1
  <1>3. \A e : e \in Passed <=>
          \E p \in 1 .. Len(A[row]) : \E q \in 1 .. Len(B[A[row][p][1]]) : e = <<p, q>>
    BY <1>2, PassedAre
  <1>4. \A e : e \in Entries(row) <=>
          \E p \in 1 .. Len(A[row]) : \E q \in 1 .. Len(B[A[row][p][1]]) : e = <<p, q>>
    BY EntriesAre
  <1>5. \A e : e \in Passed <=> e \in Entries(row)
    BY ONLY <1>3, <1>4
  <1>6. QED
    BY <1>5

\* In the numeric pass what is passed is part of the row.
LEMMA PassedFit ==
    ASSUME Place, Numeric, row < a_rows
    PROVE  row \in Rows /\ OperandsFit /\ RowClean(row) /\ Passed \subseteq Entries(row)
  <1>1. row \in Rows /\ OperandsFit /\ ap \in Nat /\ bp \in Nat /\ ap >= 1 /\ bp >= 1 /\ upto \in Nat
    BY Shape DEF Place, LoopTypes, Rows
  <1>2. RowClean(row) /\ ap <= Len(A[row]) + 1 /\ Len(A[row]) \in Nat
    BY <1>1, RowFacts DEF Place, Looking
  <1>3. \A p \in 1 .. ap - 1 : p \in 1 .. Len(A[row])
    BY <1>1, <1>2
  <1>4. ASSUME NEW q \in 1 .. bp - 1
        PROVE  ap \in 1 .. Len(A[row]) /\ q \in 1 .. Len(B[A[row][ap][1]])
    <2>1. bp > 1
      BY <1>1
    <2>2. CASE InA
      <3>1. /\ ap \in 1 .. Len(A[row]) /\ BRow = B[A[row][ap][1]] /\ Len(BRow) \in Nat
        BY <2>2, Here
      <3>2. bp <= Len(BRow) + 1
        <4>1. bp <= Len(BRow) + 1 \/ (bp < upto /\ upto <= Len(BRow) + 1)
          BY <2>2 DEF Place, InGroup, Numeric
        <4>2. QED
          BY <1>1, <3>1, <4>1
      <3>3. QED
        BY <1>1, <3>1, <3>2
    <2>3. CASE ~InA
      BY <2>1, <2>3 DEF Place, InGroup, Numeric
    <2>4. QED
      BY <2>2, <2>3
  <1>5. QED
    BY <1>1, <1>2, <1>3, <1>4, PassedAre, EntriesAre

LEMMA ColumnsInAre ==
    ASSUME OperandsFit, NEW r \in Rows, RowClean(r)
    PROVE  /\ ColumnsIn(r) \in SUBSET Cols /\ IsFiniteSet(ColumnsIn(r))
           /\ Cardinality(ColumnsIn(r)) \in Nat
           /\ \A p \in 1 .. Len(A[r]) : \A q \in 1 .. Len(B[A[r][p][1]]) :
                <<p, q>> \in Entries(r) /\ B[A[r][p][1]][q][1] \in ColumnsIn(r)
  <1>1. ColumnsIn(r) \in SUBSET Cols
    BY EntryFacts DEF ColumnsIn
  <1>2. ASSUME NEW p \in 1 .. Len(A[r]), NEW q \in 1 .. Len(B[A[r][p][1]])
        PROVE  <<p, q>> \in Entries(r) /\ B[A[r][p][1]][q][1] \in ColumnsIn(r)
    <2>1. <<p, q>> \in Entries(r)
      BY EntriesAre
    <2>2. Column(r, <<p, q>>) = B[A[r][p][1]][q][1]
      BY DEF Column
    <2>3. QED
      BY <2>1, <2>2 DEF ColumnsIn
  <1>3. IsFiniteSet(ColumnsIn(r)) /\ Cardinality(ColumnsIn(r)) \in Nat
    BY <1>1, Shape, FS_Subset, FS_CardinalityType
  <1>4. QED
    BY <1>1, <1>2, <1>3

-------------------------------------------------------------------------------
(* The marks *)

LEMMA VisitMarks ==
    ASSUME Marked, NEW c \in Cols, Visit(c)
    PROVE  /\ Marked' /\ Range(touched') = Range(touched) \cup {c}
           /\ Fresh(c) <=> c \notin Range(touched)
  <1>1. Fresh(c) <=> c \notin Range(touched)
    BY DEF Marked, Fresh
  <1>2. CASE Fresh(c)
    <2>1. mark' = [mark EXCEPT ![c] = 1] /\ touched' = Append(touched, c)
      BY <1>2 DEF Visit
    <2>2. touched \in Seq(Cols) /\ IsInjective(touched) /\ mark \in [Cols -> {0, 1}]
      BY DEF Marked
    <2>3. /\ touched' \in Seq(Cols) /\ IsInjective(touched')
          /\ Range(touched') = Range(touched) \cup {c}
      BY <1>1, <1>2, <2>1, <2>2, AppendDistinct
    <2>4. mark' \in [Cols -> {0, 1}] /\ \A d \in Cols : mark'[d] = IF d = c THEN 1 ELSE mark[d]
      BY <2>1, <2>2
    <2>5. QED
      BY <1>1, <2>3, <2>4 DEF Marked
  <1>3. CASE ~Fresh(c)
    <2>1. mark' = mark /\ touched' = touched
      BY <1>3 DEF Visit
    <2>2. QED
      BY <1>1, <1>3, <2>1 DEF Marked
  <1>4. QED
    BY <1>2, <1>3

\* Clearing the marks of the touched columns clears them all.
LEMMA UnmarkMarks ==
    ASSUME Marked, mark' = Unmarked, touched' = <<>>
    PROVE  Marked' /\ Range(touched') = {}
  <1>1. touched' \in Seq(Cols) /\ IsInjective(touched') /\ Range(touched') = {}
    BY DEF IsInjective, Range
  <1>2. mark' = [c \in Cols |-> 0]
    BY DEF Unmarked, Marked
  <1>3. QED
    BY <1>1, <1>2 DEF Marked

LEMMA NoneTouched ==
    ASSUME touched = <<>>
    PROVE  Range(touched) = {}
  BY DEF Range

\* A row of B that goes to the vector loops has each column once.
LEMMA NoTwins ==
    ASSUME Place, Numeric, InA, UsesVector(a_col)
    PROVE  \A i, j \in 1 .. Len(BRow) : BRow[i][1] = BRow[j][1] => i = j
  <1>1. a_col \in 0 .. a_cols - 1 /\ DOMAIN BRow = 1 .. Len(BRow) /\ Len(BRow) \in Nat
    BY Here
  <1>2. BRow = B[a_col] /\ Vector /\ ~flags[a_col]
    BY DEF BRow, UsesVector
  <1>3. Flagged(a_col)
    BY <1>1, <1>2 DEF Place, FlagsKnown, Computing
  <1>4. ~(Scanned(BRow) /\ HasDuplicates(BRow))
    BY <1>2, <1>3 DEF Flagged
  <1>5. CASE ~Scanned(BRow)
    BY <1>1, <1>5 DEF Scanned
  <1>6. CASE ~HasDuplicates(BRow)
    BY <1>1, <1>6 DEF HasDuplicates
  <1>7. QED
    BY <1>4, <1>5, <1>6

\* The entries from bp on, n of them, are each added to the sum of its column,
\* and no other sum changes.
AddsLanes(n) ==
    /\ acc' \in [Cols -> Int]
    /\ \A i \in bp .. bp + n - 1 : acc'[BRow[i][1]] = acc[BRow[i][1]] + a_val * BRow[i][2]
    /\ \A i, j \in bp .. bp + n - 1 : BRow[i][1] = BRow[j][1] => i = j
    /\ \A c \in Cols : (\A i \in bp .. bp + n - 1 : BRow[i][1] # c) => acc'[c] = acc[c]

LEMMA RunLanes ==
    ASSUME Place, acc \in [Cols -> Int], AddRun
    PROVE  \E n \in Nat : 1 <= n /\ n <= Left /\ AddsLanes(n) /\ AddedTo(n)
  <1> DEFINE base == BRow[bp][1]
             n == RunAt(bp)
             new(c) == IF c \in base .. base + n - 1 THEN acc[c] + a_val * BRow[bp + (c - base)][2]
                                                     ELSE acc[c]
  <1>1. pc = "vector" /\ InA /\ InB /\ AddedTo(n) /\ acc' = [c \in Cols |-> new(c)]
    BY DEF AddRun, InVector, Place, InGroup
  <1>2. /\ Len(BRow) \in Nat /\ bp \in 1 .. Len(BRow) /\ Left = Len(BRow) - bp + 1
        /\ bp \in Nat /\ a_val \in Int
        /\ \A q \in 1 .. Len(BRow) : BRow[q][1] \in Cols /\ BRow[q][1] \in Int /\ BRow[q][2] \in Int
    BY <1>1, Here DEF InB, Numeric
  <1>3. /\ n \in 1 .. Len(BRow) - bp + 1 /\ \A k \in 0 .. n - 1 : BRow[bp + k][1] = base + k
    BY <1>1, <1>2, RunFacts DEF Numeric
  <1>4. base \in Int
    BY <1>2
  <1> HIDE DEF base, n
  <1>5. \A i \in bp .. bp + n - 1 : /\ i \in 1 .. Len(BRow) /\ BRow[i][1] = base + (i - bp)
                                    /\ i - bp \in 0 .. n - 1 /\ i \in Int
    <2> SUFFICES ASSUME NEW i \in bp .. bp + n - 1
                 PROVE  /\ i \in 1 .. Len(BRow) /\ BRow[i][1] = base + (i - bp)
                        /\ i - bp \in 0 .. n - 1 /\ i \in Int
      OBVIOUS
    <2>1. i \in 1 .. Len(BRow) /\ i - bp \in 0 .. n - 1 /\ bp + (i - bp) = i /\ i \in Int
      BY <1>2, <1>3
    <2>2. BRow[bp + (i - bp)][1] = base + (i - bp)
      BY <1>3, <2>1
    <2>3. QED
      BY <2>1, <2>2
  <1>6. \A c \in base .. base + n - 1 : bp + (c - base) \in bp .. bp + n - 1
    BY <1>2, <1>3, <1>4
  <1>7. \A c \in Cols : new(c) \in Int
    <2> SUFFICES ASSUME NEW c \in Cols PROVE new(c) \in Int
      OBVIOUS
    <2>1. acc[c] \in Int
      OBVIOUS
    <2>2. CASE c \in base .. base + n - 1
      <3>1. BRow[bp + (c - base)][2] \in Int
        BY <1>2, <1>5, <1>6, <2>2
      <3>2. a_val * BRow[bp + (c - base)][2] \in Int
        BY <1>2, <3>1
      <3>3. QED
        BY <2>1, <2>2, <3>2
    <2>3. QED
      BY <2>1, <2>2
  <1>8. ASSUME NEW i \in bp .. bp + n - 1
        PROVE  acc'[BRow[i][1]] = acc[BRow[i][1]] + a_val * BRow[i][2]
    <2>1. /\ BRow[i][1] \in Cols /\ BRow[i][1] \in base .. base + n - 1
          /\ bp + (BRow[i][1] - base) = i
      <3>1. BRow[i][1] \in Cols /\ BRow[i][1] = base + (i - bp) /\ i - bp \in 0 .. n - 1 /\ i \in Int
        BY <1>2, <1>5
      <3>2. QED
        BY <1>2, <1>3, <1>4, <3>1
    <2>2. acc'[BRow[i][1]] = new(BRow[i][1])
      BY <1>1, <2>1
    <2>3. QED
      BY <2>1, <2>2
  <1>9. \A i, j \in bp .. bp + n - 1 : BRow[i][1] = BRow[j][1] => i = j
    BY <1>2, <1>4, <1>5
  <1>10. ASSUME NEW c \in Cols, \A i \in bp .. bp + n - 1 : BRow[i][1] # c
         PROVE  acc'[c] = acc[c]
    <2>1. c \notin base .. base + n - 1
      <3> SUFFICES ASSUME c \in base .. base + n - 1 PROVE FALSE
        OBVIOUS
      <3>1. bp + (c - base) \in bp .. bp + n - 1 /\ c - base \in 0 .. n - 1
            /\ base + (c - base) = c
        BY <1>2, <1>3, <1>4
      <3>2. BRow[bp + (c - base)][1] = c
        BY <1>3, <3>1
      <3>3. QED
        BY <1>10, <3>1, <3>2
    <2>2. QED
      BY <1>1, <2>1
  <1>11. acc' \in [Cols -> Int]
    BY <1>1, <1>7
  <1>12. AddsLanes(n)
    BY <1>8, <1>9, <1>10, <1>11 DEF AddsLanes
  <1>13. QED
    BY <1>1, <1>2, <1>3, <1>12

LEMMA GatheredLanes ==
    ASSUME Place, acc \in [Cols -> Int], AddGathered
    PROVE  \E n \in Nat : 1 <= n /\ n <= Left /\ AddsLanes(n) /\ AddedTo(n)
  <1>1. pc \in {"vector", "gather"} /\ InA /\ InB /\ UsesVector(a_col)
    BY DEF AddGathered, InVector, Place, InGroup
  <1> DEFINE lanes(n) == bp .. bp + n - 1
             hit(n) == {BRow[i][1] : i \in lanes(n)}
             Sum(i) == acc[BRow[i][1]] + a_val * BRow[i][2]
  <1>2. PICK n \in 1 .. MaxVl :
          /\ n <= Left /\ AddedTo(n)
          /\ \E last \in [hit(n) -> lanes(n)] :
               /\ \A c \in hit(n) : BRow[last[c]][1] = c
               /\ acc' = [c \in Cols |-> IF c \in hit(n) THEN Sum(last[c]) ELSE acc[c]]
    BY Zenon DEF AddGathered
  <1>3. PICK last \in [hit(n) -> lanes(n)] :
          /\ \A c \in hit(n) : BRow[last[c]][1] = c
          /\ acc' = [c \in Cols |-> IF c \in hit(n) THEN Sum(last[c]) ELSE acc[c]]
    BY <1>2
  <1>4. /\ Len(BRow) \in Nat /\ bp \in 1 .. Len(BRow) /\ Left = Len(BRow) - bp + 1
        /\ bp \in Nat /\ a_val \in Int
        /\ \A q \in 1 .. Len(BRow) : BRow[q][1] \in Cols /\ BRow[q][1] \in Int /\ BRow[q][2] \in Int
    BY <1>1, Here DEF InB, Numeric
  <1>5. \A i, j \in 1 .. Len(BRow) : BRow[i][1] = BRow[j][1] => i = j
    BY <1>1, NoTwins DEF Numeric
  <1>6. n \in Nat /\ 1 <= n /\ \A i \in lanes(n) : i \in 1 .. Len(BRow)
    BY <1>2, <1>4, Shape
  <1>7. \A i \in lanes(n) : Sum(i) \in Int
    <2> SUFFICES ASSUME NEW i \in lanes(n) PROVE Sum(i) \in Int
      OBVIOUS
    <2>1. acc[BRow[i][1]] \in Int /\ BRow[i][2] \in Int
      BY <1>4, <1>6
    <2>2. a_val * BRow[i][2] \in Int
      BY <1>4, <2>1
    <2>3. QED
      BY <2>1, <2>2
  <1> HIDE DEF lanes, Sum
  <1>8. ASSUME NEW i \in lanes(n)
        PROVE  acc'[BRow[i][1]] = Sum(i)
    <2>1. BRow[i][1] \in hit(n) /\ BRow[i][1] \in Cols
      BY <1>4, <1>6
    <2>2. last[BRow[i][1]] \in lanes(n) /\ BRow[last[BRow[i][1]]][1] = BRow[i][1]
      BY <1>3, <2>1
    <2>3. last[BRow[i][1]] = i
      BY <1>5, <1>6, <2>2
    <2>4. QED
      BY <1>3, <2>1, <2>3
  <1>9. acc' \in [Cols -> Int]
    <2>1. \A c \in Cols : (IF c \in hit(n) THEN Sum(last[c]) ELSE acc[c]) \in Int
      BY <1>3, <1>7
    <2>2. QED
      BY <1>3, <2>1
  <1>10. ASSUME NEW c \in Cols, \A i \in lanes(n) : BRow[i][1] # c
         PROVE  acc'[c] = acc[c]
    BY <1>3, <1>10
  <1>11. \A i, j \in lanes(n) : BRow[i][1] = BRow[j][1] => i = j
    BY <1>5, <1>6
  <1>12. AddsLanes(n)
    BY <1>8, <1>9, <1>10, <1>11 DEF AddsLanes, lanes, Sum
  <1>13. QED
    BY <1>2, <1>6, <1>12

LEMMA MarksBegin ==
    ASSUME Marked', acc' \in [Cols -> Int], touched' = <<>>, ap' = 1, bp' = 1, upto' = 1,
           pc' \in {"flags", "count", "prefix", "numeric"}
    PROVE  Marks'
  <1>1. Range(touched') = {}
    BY DEF Range
  <1>2. Passed' = {}
    BY NothingPassed
  <1>3. \A q : q \notin bp' .. upto' - 1
    OBVIOUS
  <1>4. {Column(row, e) : e \in Passed}' = {}
    BY <1>2
  <1>5. QED
    BY <1>1, <1>3, <1>4 DEF Marks

\* A step of the numeric pass that touches nothing leaves the marks right.
LEMMA MarksStay ==
    ASSUME Place, Marks, UNCHANGED <<operands, row, flags, mark, touched>>, acc' \in [Cols -> Int],
           Numeric, Numeric', ap' >= 1, ap' \in Nat,
           pc' = "numeric" /\ ap' = 1 /\ upto' = 1 => touched = <<>>,
           pc' \in {"numeric", "add"} /\ InA' =>
                \A q \in bp' .. upto' - 1 : BRow'[q][1] \in Range(touched),
           pc' \in {"add", "vector", "gather"} /\ UsesVector(a_col)' =>
                \A q \in 1 .. Len(BRow') : BRow'[q][1] \in Range(touched)
    PROVE  Marks'
  <1>1. A' = A /\ B' = B
    BY DEF operands
  <1>2. ColumnsIn(row)' = ColumnsIn(row)
    BY <1>1 DEF ColumnsIn, Column, Entries
  <1>3. Marked'
    BY DEF Marks, Marked
  <1>4. QED
    BY <1>2, <1>3 DEF Marks, Computing, Numeric

LEMMA MarksStep ==
    ASSUME Place, Marks, Place', [Next]_vars
    PROVE  Marks'
  <1>1. /\ UNCHANGED operands /\ A' = A /\ B' = B /\ LoopTypes /\ OperandsFit /\ InGroup /\ Looking
        /\ row \in Nat /\ ap \in Nat /\ bp \in Nat /\ upto \in Nat
        /\ ap >= 1 /\ bp >= 1 /\ upto >= 1 /\ Marked /\ acc \in [Cols -> Int]
        /\ LoopTypes' /\ Looking' /\ InGroup'
    BY FixedOperands DEF Place, LoopTypes, Marks, operands
  <1> DEFINE same == UNCHANGED <<mark, touched, acc>>
  <1>2. same => Marked' /\ acc' \in [Cols -> Int]
    BY <1>1 DEF Marked
  <1>3. CASE Failing \/ Return
    <2>1. same /\ pc' = "returned"
      BY <1>3 DEF Failing, Return, work
    <2>2. QED
      BY <1>2, <2>1 DEF Marks, Computing, Numeric
  <1>4. CASE Starting \/ Flagging \/ FlagsDone \/ StartPrefix \/ PrefixRow \/ Allocating
    <2>1. /\ same /\ ap' = 1 /\ bp' = 1 /\ upto' = 1 /\ pc' \in {"flags", "count", "prefix", "numeric"}
          /\ pc \in {"start", "flags", "prefix"} \/ (pc = "count" /\ row = a_rows)
      BY <1>4 DEF Starting, Flagging, FlagsDone, StartPrefix, PrefixRow, Allocating, Goto, NextRow,
         Counting, work
    <2>2. touched = <<>>
      BY <2>1 DEF Marks, Computing
    <2>3. QED
      BY <1>2, <2>1, <2>2, MarksBegin
  <1>5. CASE CountingEntry
    <2>1. /\ pc = "count" /\ InA /\ Visit(BRow[bp][1]) /\ bp' = bp + 1 /\ pc' = "count"
          /\ UNCHANGED <<row, ap, acc, flags>>
      BY <1>5 DEF CountingEntry
    <2>2. /\ BRow' = BRow /\ (InA' <=> InA)
      BY <1>1, <2>1, SameEntry
    <2>3. row < a_rows /\ bp' > 1 /\ bp \in 1 .. bp' - 1
      BY <1>1, <2>1 DEF InA
    <2>4. BRow[bp][1] \in Cols
      BY <1>1, <2>1, <2>2, <2>3 DEF Looking, LookedAt
    <2>5. Marked' /\ Range(touched') = Range(touched) \cup {BRow[bp][1]}
      BY <1>1, <2>4, <2>1, VisitMarks
    <2>6. Passed' = Passed \cup {<<ap, bp>>}
      <3>1. Passed' = Passed \cup ({ap} \X (bp .. bp + 1 - 1))
        BY <1>1, <2>1, SomeMorePassed
      <3>2. bp .. bp + 1 - 1 = {bp}
        BY <1>1
      <3>3. {ap} \X {bp} = {<<ap, bp>>}
        OBVIOUS
      <3>4. QED
        BY <3>1, <3>2, <3>3
    <2>7. {Column(row, e) : e \in Passed}' = {Column(row, e) : e \in Passed} \cup {BRow[bp][1]}
      <3>1. Column(row, <<ap, bp>>) = BRow[bp][1]
        BY DEF Column, BRow, a_col
      <3>2. \A e : Column(row, e)' = Column(row, e)
        BY <1>1, <2>1 DEF Column
      <3>3. QED
        BY <2>6, <3>1, <3>2
    <2>8. Range(touched) = {Column(row, e) : e \in Passed}
      BY <2>1, <2>3 DEF Marks
    <2>9. row' < a_rows /\ row' # a_rows
      BY <1>1, <2>1, <2>3, Shape
    <2>10. QED
      BY <1>1, <2>1, <2>5, <2>7, <2>8, <2>9 DEF Marks, Computing, Numeric
  <1>6. CASE CountNext
    <2>1. /\ pc = "count" /\ InA /\ ~InB /\ UNCHANGED <<row, flags>> /\ same /\ pc' = "count"
          /\ ap' = ap + 1 /\ bp' = 1 /\ row < a_rows
      BY <1>6 DEF CountNext, NextEntry, Counting, work, InA
    <2>2. /\ row \in Rows /\ ap \in 1 .. Len(A[row]) /\ BRow = B[A[row][ap][1]]
      BY <1>1, <2>1, Shape, RowFacts DEF InA, a_col, BRow, Rows
    <2>3. EntryClean(row, ap)
      <3>1. ap \in 1 .. ap' - 1
        BY <1>1, <2>1
      <3>2. QED
        BY <1>1, <2>1, <3>1 DEF Looking, LookedAt, EntryClean
    <2>4. Len(BRow) \in Nat /\ ~(bp <= Len(BRow))
      BY <1>1, <2>1, <2>2, <2>3, CleanFacts DEF InB
    <2>5. bp <= Len(BRow) + 1
      BY <1>1, <2>1, <2>4 DEF Looking, LookedAt
    <2>6. Passed' = Passed \cup ({ap} \X (bp .. Len(BRow)))
      BY <1>1, <2>1, <2>2, <2>4, <2>5, RestPassed
    <2>7. Passed' = Passed
      <3>1. bp .. Len(BRow) = {}
        BY <1>1, <2>4
      <3>2. QED
        BY <2>6, <3>1
    <2>8. {Column(row, e) : e \in Passed}' = {Column(row, e) : e \in Passed}
      BY <1>1, <2>1, <2>7 DEF Column
    <2>9. row' # a_rows
      BY <1>1, <2>1, Shape
    <2>10. QED
      BY <1>1, <1>2, <2>1, <2>8, <2>9 DEF Marks, Computing, Numeric
  <1>7. CASE CountRow \/ Emitting
    <2>1. /\ mark' = Unmarked /\ touched' = <<>> /\ ap' = 1 /\ bp' = 1 /\ upto' = 1
          /\ pc' \in {"count", "numeric"} /\ acc' \in [Cols -> Int]
      BY <1>1, <1>7 DEF CountRow, Emitting, NextRow, Counting
    <2>2. Marked'
      BY <1>1, <2>1, UnmarkMarks
    <2>3. QED
      BY <2>1, <2>2, MarksBegin
  <1>8. CASE Marking
    <2>1. /\ pc = "numeric" /\ InA /\ InB /\ UNCHANGED <<row, ap, bp, flags>> /\ upto' = upto + 1
          /\ pc' = IF upto' < bp + Group THEN "numeric"
                   ELSE IF ~UsesVector(a_col) THEN "add"
                   ELSE IF kind = "rvv_i8" THEN "gather" ELSE "vector"
          /\ Visit(BRow[upto][1])
          /\ acc' = IF Fresh(BRow[upto][1]) THEN [acc EXCEPT ![BRow[upto][1]] = 0] ELSE acc
      BY <1>8 DEF Marking
    <2>2. /\ bp <= upto /\ upto < bp + Group
          /\ UsesVector(a_col) => bp = 1
      BY <1>1, <2>1 DEF InGroup
    <2>3. Group \in 1 .. Len(BRow) - bp + 1 /\ Len(BRow) \in Nat /\ Left = Len(BRow) - bp + 1
      BY <2>1, <2>2, GroupFacts, Here DEF Numeric
    <2>4. upto \in 1 .. Len(BRow)
      BY <1>1, <2>2, <2>3
    <2>5. BRow[upto][1] \in Cols /\ BRow[upto][1] \in ColumnsIn(row)
      <3>1. /\ row \in Rows /\ ap \in 1 .. Len(A[row]) /\ BRow = B[A[row][ap][1]]
            /\ BRow[upto][1] \in Cols
        BY <2>1, <2>4, Here DEF Numeric
      <3>2. RowClean(row)
        BY <1>1, <2>1, <3>1 DEF Looking, Numeric
      <3>3. QED
        BY <1>1, <2>4, <3>1, <3>2, ColumnsInAre
    <2>6. Marked' /\ Range(touched') = Range(touched) \cup {BRow[upto][1]}
      BY <1>1, <2>1, <2>5, VisitMarks
    <2>7. acc' \in [Cols -> Int]
      BY <1>1, <2>1, <2>5
    <2>8. /\ (InA' <=> InA) /\ BRow' = BRow /\ (UsesVector(a_col)' <=> UsesVector(a_col))
      BY <1>1, <2>1, SameEntry DEF UsesVector
    <2>9. ColumnsIn(row)' = ColumnsIn(row) /\ row < a_rows /\ row' # a_rows
      BY <1>1, <2>1, Shape DEF ColumnsIn, Column, Entries, InA
    <2>10. \A q \in bp .. upto' - 1 : BRow[q][1] \in Range(touched')
      <3>1. \A q \in bp .. upto' - 1 : q = upto \/ q \in bp .. upto - 1
        BY <1>1, <2>1
      <3>2. \A q \in bp .. upto - 1 : BRow[q][1] \in Range(touched)
        BY <2>1 DEF Marks
      <3>3. QED
        BY <2>6, <3>1, <3>2
    <2>11. ASSUME pc' \in {"add", "vector", "gather"}, UsesVector(a_col)
           PROVE  \A q \in 1 .. Len(BRow) : BRow[q][1] \in Range(touched')
      <3>1. bp = 1 /\ Group = Len(BRow) /\ ~(upto' < bp + Group)
        BY <2>1, <2>2, <2>11 DEF Group
      <3>2. \A q \in 1 .. Len(BRow) : q \in bp .. upto' - 1
        BY <1>1, <2>1, <2>3, <3>1
      <3>3. QED
        BY <2>10, <3>2
    <2>12. upto' # 1
      BY <1>1, <2>1
    <2>13. Range(touched) \subseteq ColumnsIn(row)
      BY <2>1, <2>9 DEF Marks, Numeric
    <2>14. pc' \in {"numeric", "add", "vector", "gather"}
      BY <2>1
    <2>15. QED
      BY <2>1, <2>5, <2>6, <2>7, <2>8, <2>9, <2>10, <2>11, <2>12, <2>13, <2>14
         DEF Marks, Computing, Numeric
  <1>9. CASE AddEntry
    <2>1. /\ pc = "add" /\ UNCHANGED <<row, ap, upto, flags, mark, touched>> /\ bp' = bp + 1
          /\ acc' = [acc EXCEPT ![BRow[bp][1]] = @ + a_val * BRow[bp][2]]
          /\ pc' = IF bp' < upto THEN "add" ELSE IF UsesVector(a_col) THEN "vector" ELSE "numeric"
      BY <1>9 DEF AddEntry
    <2>2. InA /\ bp < upto /\ upto <= Len(BRow) + 1
      BY <1>1, <2>1 DEF InGroup
    <2>3. /\ Len(BRow) \in Nat /\ a_val \in Int
          /\ \A q \in 1 .. Len(BRow) : BRow[q][1] \in Cols /\ BRow[q][2] \in Int
      BY <2>1, <2>2, Here DEF Numeric
    <2>4. acc' \in [Cols -> Int]
      <3>1. bp \in 1 .. Len(BRow)
        BY <1>1, <2>2, <2>3
      <3>2. a_val * BRow[bp][2] \in Int /\ acc[BRow[bp][1]] \in Int
        BY <1>1, <2>3, <3>1
      <3>3. acc[BRow[bp][1]] + a_val * BRow[bp][2] \in Int
        BY <3>2
      <3>4. QED
        BY <1>1, <2>1, <3>3
    <2>5. /\ (InA' <=> InA) /\ BRow' = BRow /\ (UsesVector(a_col)' <=> UsesVector(a_col))
      BY <1>1, <2>1, SameEntry DEF UsesVector
    <2>6. \A q \in bp' .. upto' - 1 : BRow[q][1] \in Range(touched)
      <3>1. \A q \in bp' .. upto' - 1 : q \in bp .. upto - 1
        BY <1>1, <2>1
      <3>2. QED
        BY <2>1, <2>2, <3>1 DEF Marks
    <2>7. UsesVector(a_col) => \A q \in 1 .. Len(BRow) : BRow[q][1] \in Range(touched)
      BY <2>1 DEF Marks
    <2>8. upto' # 1 /\ Numeric /\ Numeric' /\ ap' \in Nat /\ ap' >= 1
      BY <1>1, <2>1, <2>2 DEF Numeric
    <2>9. QED
      BY <1>1, <2>1, <2>4, <2>5, <2>6, <2>7, <2>8, MarksStay
  <1>10. CASE NumericNext
    <2>1. /\ UNCHANGED <<row, flags>> /\ same /\ pc' = "numeric" /\ ap' = ap + 1 /\ bp' = 1
          /\ upto' = 1 /\ Numeric /\ Numeric'
      BY <1>10 DEF NumericNext, NextEntry, work, Numeric
    <2>2. ap' # 1 /\ ap' >= 1 /\ ap' \in Nat /\ \A q : q \notin bp' .. upto' - 1
      BY <1>1, <2>1
    <2>3. QED
      BY <1>1, <2>1, <2>2, MarksStay
  <1>11. CASE AddRun \/ AddGathered
    <2>1. PICK n \in Nat : AddsLanes(n) /\ AddedTo(n)
      BY <1>1, <1>11, RunLanes, GatheredLanes
    <2>2. /\ UNCHANGED <<pc, row, ap, upto, flags, mark, touched>> /\ acc' \in [Cols -> Int]
          /\ pc \in {"vector", "gather"}
      BY <1>11, <2>1 DEF AddedTo, AddsLanes, AddRun, AddGathered, InVector
    <2>3. BRow' = BRow /\ (UsesVector(a_col)' <=> UsesVector(a_col))
      BY <1>1, <2>2, SameEntry DEF UsesVector
    <2>4. UsesVector(a_col) => \A q \in 1 .. Len(BRow) : BRow[q][1] \in Range(touched)
      BY <2>2 DEF Marks
    <2>5. QED
      BY <1>1, <2>2, <2>3, <2>4, MarksStay DEF Numeric
  <1>12. CASE GatherRest \/ AddSpan
    <2>1. /\ pc = "vector" /\ InB /\ UNCHANGED <<row, ap, bp, flags>> /\ same
          /\ pc' = "gather" \/ (pc' = "add" /\ upto' = bp + Offset)
      BY <1>12 DEF GatherRest, AddSpan, InVector, loops, work
    <2>2. InA /\ UsesVector(a_col)
      BY <1>1, <2>1 DEF InGroup
    <2>3. /\ BRow' = BRow /\ (UsesVector(a_col)' <=> UsesVector(a_col))
      BY <1>1, <2>1, SameEntry DEF UsesVector
    <2>4. \A q \in 1 .. Len(BRow) : BRow[q][1] \in Range(touched)
      BY <2>1, <2>2 DEF Marks
    <2>5. pc' = "add" => \A q \in bp' .. upto' - 1 : q \in 1 .. Len(BRow)
      <3>1. /\ Len(BRow) \in Nat /\ bp \in Nat /\ bp >= 1 /\ Left = Len(BRow) - bp + 1
            /\ Offset \in 0 .. Left
        BY <2>1, <2>2, Here, OffsetFacts DEF Numeric
      <3>2. QED
        BY <2>1, <3>1
    <2>6. QED
      BY <1>1, <2>1, <2>3, <2>4, <2>5, MarksStay DEF Numeric
  <1>13. CASE Resting
    <2>1. UNCHANGED <<operands, pc, row, ap, bp, upto, flags, mark, touched, acc>>
      BY <1>13 DEF Resting, loops, work
    <2>2. /\ BRow' = BRow /\ (UsesVector(a_col)' <=> UsesVector(a_col)) /\ (InA' <=> InA)
      BY <1>1, <2>1, SameEntry DEF UsesVector
    <2>3. {Column(row, e) : e \in Passed}' = {Column(row, e) : e \in Passed}
          /\ ColumnsIn(row)' = ColumnsIn(row)
      BY <1>1, <2>1 DEF Column, Passed, ColumnsIn, Entries
    <2>4. QED
      BY <1>2, <2>1, <2>2, <2>3 DEF Marks, Computing, Numeric
  <1>14. QED
    BY <1>3, <1>4, <1>5, <1>6, <1>7, <1>8, <1>9, <1>10, <1>11, <1>12, <1>13, NextIs

LEMMA InitMarks == Init => Marks
  <1> SUFFICES ASSUME Init PROVE Marks
    OBVIOUS
  <1>1. touched = <<>> /\ mark = [c \in Cols |-> 0] /\ acc = [c \in Cols |-> Junk] /\ pc = "start"
    BY DEF Init
  <1>2. touched \in Seq(Cols) /\ IsInjective(touched) /\ Range(touched) = {}
    BY <1>1 DEF IsInjective, Range
  <1>3. QED
    BY <1>1, <1>2, Shape DEF Marks, Marked, Computing, Numeric

LEMMA Typing ==
    ASSUME Place, Marks
    PROVE  TypeOK
  <1>1. /\ touched \in Seq(Cols) /\ IsInjective(touched) /\ Len(touched) \in Nat
    BY DEF Marks, Marked
  <1>2. Len(touched) <= b_cols
    <2>1. Cols \in SUBSET Cols /\ Range(touched) \subseteq Cols /\ Cardinality(Cols) = b_cols
      BY <1>1, DistinctCount, Shape
    <2>2. QED
      BY <1>1, <2>1, DistinctFit
  <1>3. ASSUME pc \in {"count", "numeric"}, ap = 1, bp = 1, upto = 1
        PROVE  touched = <<>>
    <2>1. CASE pc = "numeric"
      BY <1>3, <2>1 DEF Marks
    <2>2. CASE pc = "count" /\ row = a_rows
      BY <2>2 DEF Marks, Computing
    <2>3. CASE pc = "count" /\ row # a_rows
      <3>1. row < a_rows
        BY <2>3, Shape DEF Place, LoopTypes, Computing
      <3>2. Passed = {}
        BY <1>3 DEF Passed
      <3>3. Range(touched) = {}
        BY <2>3, <3>1, <3>2 DEF Marks
      <3>4. Len(touched) = 0
        <4>1. Len(touched) # 0 => 1 \in DOMAIN touched
          BY <1>1
        <4>2. QED
          BY <3>3, <4>1 DEF Range
      <3>5. QED
        BY <1>1, <3>4
    <2>4. QED
      BY <1>3, <2>1, <2>2, <2>3
  <1>4. /\ row \in Nat /\ ap \in Nat \ {0} /\ bp \in Nat \ {0} /\ upto \in Nat \ {0}
        /\ flags \in [0 .. a_cols - 1 -> BOOLEAN]
        /\ pc \in {"start", "flags", "count", "prefix", "numeric", "add", "vector", "gather",
                   "returned"}
        /\ status \in Status \cup {"running"}
    BY DEF Place, LoopTypes, FlagsKnown
  <1>5. QED
    BY <1>1, <1>2, <1>3, <1>4 DEF TypeOK, Marks, Marked

-------------------------------------------------------------------------------
(* The counts *)

Before(r) == {e \in Rows \X Cols : e[1] < r /\ e[2] \in ColumnsIn(e[1])}

LEMMA EntriesBeforeCounts ==
    /\ EntriesBefore(0) = 0
    /\ \A r \in 0 .. a_rows : EntriesBefore(r) \in Nat
    /\ \A r, s \in 0 .. a_rows : r <= s => EntriesBefore(r) <= EntriesBefore(s)
    /\ OperandsFit =>
         \A r \in Rows : RowClean(r) =>
             EntriesBefore(r + 1) = EntriesBefore(r) + Cardinality(ColumnsIn(r))
  <1>1. IsFiniteSet(Rows \X Cols)
    <2>1. IsFiniteSet(Rows) /\ IsFiniteSet(Cols)
      BY Shape, FS_Interval DEF Rows
    <2>2. QED
      BY ONLY <2>1, FS_Product
  <1>2. ASSUME NEW r \in 0 .. a_rows
        PROVE  /\ IsFiniteSet(Before(r)) /\ EntriesBefore(r) = Cardinality(Before(r))
               /\ EntriesBefore(r) \in Nat
    <2>1. IsFiniteSet(Before(r))
      BY <1>1, FS_Subset DEF Before
    <2>2. QED
      BY <2>1, FS_CardinalityType DEF Before, EntriesBefore
  <1>3. EntriesBefore(0) = 0
    <2>1. Before(0) = {}
      BY Shape DEF Before, Rows
    <2>2. 0 \in 0 .. a_rows
      BY Shape
    <2>3. QED
      BY <1>2, <2>1, <2>2, FS_EmptySet
  <1>4. ASSUME OperandsFit, NEW r \in Rows, RowClean(r)
        PROVE  EntriesBefore(r + 1) = EntriesBefore(r) + Cardinality(ColumnsIn(r))
    <2>1. r \in 0 .. a_rows /\ r + 1 \in 0 .. a_rows /\ \A q \in Rows : q \in Nat /\ r \in Nat
      BY <1>4, RowFacts
    <2>2. Before(r + 1) = Before(r) \cup ({r} \X ColumnsIn(r))
      <3>1. ASSUME NEW q \in Rows, NEW c \in Cols
            PROVE  <<q, c>> \in Before(r + 1) <=> <<q, c>> \in Before(r) \cup ({r} \X ColumnsIn(r))
        <4>1. q < r + 1 <=> q < r \/ q = r
          BY <2>1
        <4>2. QED
          BY <4>1 DEF Before
      <3>2. \A e \in Before(r + 1) \cup Before(r) : e \in Rows \X Cols
        BY DEF Before
      <3>3. ColumnsIn(r) \subseteq Cols
        BY <1>4, ColumnsInAre
      <3>4. \A e \in {r} \X ColumnsIn(r) : e \in Rows \X Cols
        BY <3>3
      <3>5. \A e \in Rows \X Cols : \E q \in Rows, c \in Cols : e = <<q, c>>
        OBVIOUS
      <3>6. QED
        BY <3>1, <3>2, <3>4, <3>5
    <2>3. Before(r) \cap ({r} \X ColumnsIn(r)) = {}
      BY <2>1 DEF Before
    <2>4. /\ IsFiniteSet({r} \X ColumnsIn(r))
          /\ Cardinality({r} \X ColumnsIn(r)) = Cardinality(ColumnsIn(r))
      BY <1>4, Tagged, ColumnsInAre
    <2>5. QED
      BY <1>2, <2>1, <2>2, <2>3, <2>4, DisjointUnion
  <1>5. ASSUME NEW r \in 0 .. a_rows, NEW s \in 0 .. a_rows, r <= s
        PROVE  EntriesBefore(r) <= EntriesBefore(s)
    <2>1. Before(r) \in SUBSET Before(s)
      BY <1>5, Shape DEF Before, Rows
    <2>2. QED
      BY <1>2, <2>1, FS_Subset
  <1>6. QED
    BY <1>2, <1>3, <1>4, <1>5

\* The columns of a set in order are as many as they are.
LEMMA AscendingFacts ==
    ASSUME NEW S \in SUBSET Cols
    PROVE  /\ Ascending(S) \in Seq(S) /\ Len(Ascending(S)) = Cardinality(S)
           /\ Cardinality(S) \in Nat /\ Cardinality(S) <= b_cols
           /\ \A n \in 1 .. Cardinality(S) : Ascending(S)[n] \in S
  <1>1. IsFiniteSet(S) /\ Cardinality(S) \in Nat /\ Cardinality(S) <= b_cols
    BY Shape, FS_Subset, FS_CardinalityType
  <1>2. \A n \in 1 .. Cardinality(S) : \E c \in S : Rank(S, c) = n - 1
    <2>1. \A n \in 1 .. Cardinality(S) : n - 1 \in 0 .. Cardinality(S) - 1
      BY <1>1
    <2>2. QED
      BY <2>1, Ranks
  <1>3. Ascending(S) = [n \in 1 .. Cardinality(S) |-> CHOOSE c \in S : Rank(S, c) = n - 1]
    BY DEF Ascending, Rank
  <1>4. Ascending(S) \in [1 .. Cardinality(S) -> S]
    BY <1>2, <1>3
  <1> DEFINE s == Ascending(S)
             k == Cardinality(S)
  <1>5. s \in [1 .. k -> S] /\ k \in Nat
    BY <1>1, <1>4
  <1> HIDE DEF s, k
  <1>6. s \in Seq(S) /\ Len(s) = k
    BY <1>5
  <1>7. QED
    BY <1>1, <1>4, <1>6 DEF s, k

\* A row of C gets at most as many entries as were counted for it.
LEMMA KeptFits ==
    ASSUME Place, Marks, Numeric, row < a_rows
    PROVE  /\ Len(Kept) \in Nat /\ Len(Kept) <= Len(touched) /\ Len(touched) \in Nat
           /\ Len(touched) <= Cardinality(ColumnsIn(row)) /\ Cardinality(ColumnsIn(row)) \in Nat
           /\ EntriesBefore(row + 1) = EntriesBefore(row) + Cardinality(ColumnsIn(row))
           /\ row \in Rows /\ row + 1 \in 0 .. a_rows /\ row \in 0 .. a_rows
           /\ EntriesBefore(row) \in Nat
  <1>1. row \in Rows /\ OperandsFit /\ RowClean(row)
    BY PassedFit
  <1>2. /\ row + 1 \in 0 .. a_rows /\ row \in 0 .. a_rows
        /\ ColumnsIn(row) \in SUBSET Cols /\ Cardinality(ColumnsIn(row)) \in Nat
    BY <1>1, RowFacts, ColumnsInAre
  <1>3. /\ touched \in Seq(Cols) /\ IsInjective(touched) /\ Range(touched) \subseteq ColumnsIn(row)
    BY DEF Marks, Marked
  <1>4. /\ Len(touched) <= Cardinality(ColumnsIn(row)) /\ Len(touched) \in Nat
        /\ Range(touched) \subseteq Cols /\ IsFiniteSet(Range(touched))
        /\ Cardinality(Range(touched)) = Len(touched)
    BY <1>2, <1>3, DistinctFit, DistinctCount
  <1> DEFINE S == {c \in Range(touched) : acc[c] # 0}
  <1>5. S \in SUBSET Range(touched) /\ S \in SUBSET Cols
    BY <1>4
  <1>6. Len(Kept) = Cardinality(S) /\ Cardinality(S) \in Nat
    BY <1>5, AscendingFacts DEF Kept
  <1>7. Cardinality(S) <= Len(touched)
    <2> HIDE DEF S
    <2>1. QED
      BY <1>4, <1>5, FS_Subset
  <1>8. QED
    BY <1>1, <1>2, <1>4, <1>6, <1>7, EntriesBeforeCounts

\* The workspace always holds what its arrays have room for: touched, of
\* b_cols entries, has each marked column once, and a row starts with none.
THEOREM Typed == Spec => []TypeOK
  <1>1. Init => Place /\ Marks
    BY InitPlace, InitMarks
  <1>2. Place /\ Marks /\ [Next]_vars => Place' /\ Marks'
    BY PlaceStep, MarksStep
  <1>3. Place /\ Marks => TypeOK
    BY Typing
  <1>4. QED
    BY <1>1, <1>2, <1>3, PTL DEF Spec

LEMMA SameColumns ==
    ASSUME UNCHANGED operands
    PROVE  \A r : ColumnsIn(r)' = ColumnsIn(r) /\ EntriesBefore(r)' = EntriesBefore(r)
  BY DEF operands, EntriesBefore, ColumnsIn, Entries, Column

LEMMA CountsNext ==
    ASSUME UNCHANGED operands,
           total' \in Nat, running' \in Nat, c_row_ptr' \in [0 .. a_rows -> Nat],
           pc' \in {"start", "flags"} => total' = 0,
           pc' \in {"start", "flags", "count"} => running' = 0,
           pc' = "count" =>
               /\ total' = EntriesBefore(row')
               /\ \A r \in Rows : r < row' => c_row_ptr'[r] = Cardinality(ColumnsIn(r)),
           pc' = "prefix" =>
               /\ running' = EntriesBefore(row')
               /\ \A r \in Rows : c_row_ptr'[r] = IF r < row' THEN EntriesBefore(r)
                                                  ELSE Cardinality(ColumnsIn(r)),
           pc' = "prefix" \/ Numeric' => total' = EntriesBefore(a_rows),
           Numeric' =>
               /\ c_row_ptr'[row'] <= EntriesBefore(row')
               /\ \A r \in 0 .. a_rows : r > row' => c_row_ptr'[r] = EntriesBefore(r)
    PROVE  Counts'
  <1>1. A' = A /\ B' = B
    BY DEF operands
  <1>2. \A r : ColumnsIn(r)' = ColumnsIn(r) /\ EntriesBefore(r)' = EntriesBefore(r)
    BY SameColumns
  <1>3. EntriesBefore(row)' = EntriesBefore(row')
    <2>1. {e \in Rows \X Cols : e[1] < row /\ e[2] \in ColumnsIn(e[1])}'
            = {e \in Rows \X Cols : e[1] < row' /\ e[2] \in ColumnsIn(e[1])}
      <3>0. \A r : ColumnsIn(r)' = ColumnsIn(r)
        BY <1>2
      <3>1. \A e \in Rows \X Cols : ColumnsIn(e[1])' = ColumnsIn(e[1])
        BY ONLY <3>0
      <3>2. QED
        BY <3>1
    <2>2. QED
      BY <2>1 DEF EntriesBefore
  <1>4. QED
    BY <1>2, <1>3 DEF Counts

\* At the end of a row the touched columns are those the row can have.
LEMMA RowCounted ==
    ASSUME Place, Marks, pc = "count", row < a_rows, ~InA
    PROVE  /\ row \in Rows /\ RowClean(row) /\ row + 1 \in 0 .. a_rows /\ row \in 0 .. a_rows
           /\ Len(touched) = Cardinality(ColumnsIn(row)) /\ Len(touched) \in Nat
  <1>1. /\ row \in Rows /\ OperandsFit /\ Len(A[row]) \in Nat /\ ap \in Nat /\ bp \in Nat /\ bp >= 1
        /\ row + 1 \in 0 .. a_rows /\ row \in 0 .. a_rows
    BY Shape, RowFacts DEF Place, LoopTypes, Rows
  <1>2. LookedAt
    BY DEF Place, Looking
  <1>3. ap = Len(A[row]) + 1 /\ bp = 1 /\ \A p \in 1 .. ap - 1 : EntryClean(row, p)
    BY <1>1, <1>2 DEF LookedAt, InA
  <1>4. RowClean(row)
    BY <1>1, <1>3 DEF RowClean
  <1>5. Passed = Entries(row)
    BY <1>1, <1>3, <1>4, AllPassed
  <1>6. Range(touched) = ColumnsIn(row)
    BY <1>5 DEF Marks, ColumnsIn
  <1>7. Len(touched) = Cardinality(ColumnsIn(row)) /\ Len(touched) \in Nat
    BY <1>6, DistinctCount DEF Marks, Marked
  <1>8. QED
    BY <1>1, <1>4, <1>7

LEMMA CountsStep ==
    ASSUME Place, Marks, Counts, [Next]_vars
    PROVE  Counts'
  <1>1. /\ UNCHANGED operands /\ LoopTypes /\ OperandsFit /\ Looking
        /\ row \in Nat /\ total \in Nat /\ running \in Nat /\ c_row_ptr \in [0 .. a_rows -> Nat]
        /\ a_rows \in Nat /\ a_rows >= 1
    BY FixedOperands, Shape DEF Place, LoopTypes, Counts
  <1>2. /\ EntriesBefore(0) = 0 /\ 0 \in 0 .. a_rows /\ 0 \in Rows
        /\ \A r \in Rows : r \in Nat /\ r < a_rows /\ r \in 0 .. a_rows
        /\ \A r \in 0 .. a_rows : r \in Nat /\ (r < a_rows => r \in Rows)
    BY <1>1, EntriesBeforeCounts DEF Rows
  <1>3. CASE Failing \/ Return
    <2>1. pc' = "returned" /\ UNCHANGED <<total, running, c_row_ptr>>
      BY <1>3 DEF Failing, Return, output
    <2>2. QED
      BY <1>1, <2>1, CountsNext DEF Numeric
  <1>4. CASE Starting \/ Flagging \/ FlagsDone
    <2>1. /\ pc \in {"start", "flags"} /\ pc' \in {"flags", "count"}
          /\ pc' = "count" => row' = 0
          /\ UNCHANGED <<total, running, c_row_ptr>>
      BY <1>4 DEF Starting, Flagging, FlagsDone, Goto, NextRow, output
    <2>2. total = 0 /\ running = 0
      BY <2>1 DEF Counts
    <2>3. QED
      BY <1>1, <1>2, <2>1, <2>2, CountsNext DEF Numeric
  <1>5. CASE CountingEntry \/ CountNext
    <2>1. pc = "count" /\ pc' = "count" /\ UNCHANGED <<row, total, running, c_row_ptr>>
      BY <1>5 DEF CountingEntry, CountNext, Counting, NextEntry, output
    <2>2. QED
      BY <1>1, <2>1, CountsNext DEF Counts, Numeric
  <1>6. CASE CountRow
    <2>1. /\ pc = "count" /\ pc' = "count" /\ row < a_rows /\ ~InA /\ row' = row + 1
          /\ c_row_ptr' = [c_row_ptr EXCEPT ![row] = Len(touched)]
          /\ total' = total + Len(touched) /\ running' = running
      BY <1>6 DEF CountRow, Counting, NextRow
    <2>2. /\ row \in Rows /\ RowClean(row) /\ row + 1 \in 0 .. a_rows /\ row \in 0 .. a_rows
          /\ Len(touched) = Cardinality(ColumnsIn(row)) /\ Len(touched) \in Nat
      BY <2>1, RowCounted
    <2>3. /\ total = EntriesBefore(row) /\ running = 0
          /\ \A r \in Rows : r < row => c_row_ptr[r] = Cardinality(ColumnsIn(r))
      BY <2>1 DEF Counts
    <2>4. EntriesBefore(row + 1) = EntriesBefore(row) + Cardinality(ColumnsIn(row))
      BY <1>1, <2>2, EntriesBeforeCounts
    <2>5. c_row_ptr' \in [0 .. a_rows -> Nat] /\ total' \in Nat
      BY <1>1, <2>1, <2>2
    <2>6. \A r \in Rows : r < row + 1 => c_row_ptr'[r] = Cardinality(ColumnsIn(r))
      BY <1>1, <1>2, <2>1, <2>2, <2>3
    <2>7. total' = EntriesBefore(row')
      BY <2>1, <2>2, <2>3, <2>4
    <2>8. QED
      BY <1>1, <2>1, <2>3, <2>5, <2>6, <2>7, CountsNext DEF Numeric
  <1>7. CASE StartPrefix
    <2>1. /\ pc = "count" /\ pc' = "prefix" /\ row = a_rows /\ row' = 0
          /\ UNCHANGED <<total, running, c_row_ptr>>
      BY <1>7 DEF StartPrefix, Counting, Goto, output
    <2>2. /\ total = EntriesBefore(a_rows) /\ running = 0
          /\ \A r \in Rows : r < a_rows => c_row_ptr[r] = Cardinality(ColumnsIn(r))
      BY <2>1 DEF Counts
    <2>3. \A r \in Rows : ~(r < 0) /\ r < a_rows
      BY <1>2
    <2>4. QED
      BY <1>1, <1>2, <2>1, <2>2, <2>3, CountsNext DEF Numeric
  <1>8. CASE PrefixRow
    <2>1. /\ pc = "prefix" /\ pc' = "prefix" /\ row < a_rows /\ row' = row + 1
          /\ c_row_ptr' = [c_row_ptr EXCEPT ![row] = running]
          /\ running' = running + c_row_ptr[row] /\ total' = total
      BY <1>8 DEF PrefixRow, NextRow, StartOf
    <2>2. /\ running = EntriesBefore(row) /\ total = EntriesBefore(a_rows)
          /\ \A r \in Rows :
               c_row_ptr[r] = IF r < row THEN EntriesBefore(r) ELSE Cardinality(ColumnsIn(r))
      BY <2>1 DEF Counts
    <2>3. row \in Rows /\ row \in 0 .. a_rows /\ RowClean(row)
      BY <1>1, <1>2, <2>1 DEF Looking, Rows
    <2>4. EntriesBefore(row + 1) = EntriesBefore(row) + Cardinality(ColumnsIn(row))
      BY <1>1, <2>3, EntriesBeforeCounts
    <2>5. c_row_ptr[row] = Cardinality(ColumnsIn(row)) /\ c_row_ptr[row] \in Nat
      BY <1>1, <2>2, <2>3
    <2>6. c_row_ptr' \in [0 .. a_rows -> Nat] /\ running' \in Nat
      BY <1>1, <2>1, <2>5
    <2>7. \A r \in Rows : c_row_ptr'[r] = IF r < row + 1 THEN EntriesBefore(r)
                                          ELSE Cardinality(ColumnsIn(r))
      BY <1>1, <1>2, <2>1, <2>2, <2>3
    <2>8. running' = EntriesBefore(row')
      BY <2>1, <2>2, <2>4, <2>5
    <2>9. QED
      BY <1>1, <2>1, <2>2, <2>6, <2>7, <2>8, CountsNext DEF Numeric
  <1>9. CASE Allocating
    <2>1. /\ pc = "prefix" /\ pc' = "numeric" /\ row = a_rows /\ row' = 0
          /\ c_row_ptr' = [c_row_ptr EXCEPT ![a_rows] = running]
          /\ UNCHANGED <<total, running>>
      BY <1>9 DEF Allocating, Goto
    <2>2. /\ running = EntriesBefore(a_rows) /\ total = EntriesBefore(a_rows)
          /\ \A r \in Rows : r < a_rows => c_row_ptr[r] = EntriesBefore(r)
      BY <2>1 DEF Counts
    <2>3. c_row_ptr' \in [0 .. a_rows -> Nat]
      BY <1>1, <2>1
    <2>4. \A r \in 0 .. a_rows : c_row_ptr'[r] = EntriesBefore(r)
      BY <1>1, <1>2, <2>1, <2>2
    <2>5. c_row_ptr'[row'] <= EntriesBefore(row')
      BY <1>2, <2>1, <2>4
    <2>6. QED
      BY <1>1, <2>1, <2>2, <2>3, <2>4, <2>5, CountsNext
  <1>10. CASE Emitting
    <2>1. /\ pc = "numeric" /\ pc' = "numeric" /\ row < a_rows /\ row' = row + 1
          /\ c_row_ptr' = [c_row_ptr EXCEPT ![row + 1] = End]
          /\ UNCHANGED <<total, running>>
      BY <1>10 DEF Emitting, NextRow
    <2>2. /\ total = EntriesBefore(a_rows) /\ c_row_ptr[row] <= EntriesBefore(row)
          /\ \A r \in 0 .. a_rows : r > row => c_row_ptr[r] = EntriesBefore(r)
      BY <2>1 DEF Counts, Numeric
    <2>3. /\ Len(Kept) \in Nat /\ Len(Kept) <= Len(touched) /\ Len(touched) \in Nat
          /\ Len(touched) <= Cardinality(ColumnsIn(row)) /\ Cardinality(ColumnsIn(row)) \in Nat
          /\ EntriesBefore(row + 1) = EntriesBefore(row) + Cardinality(ColumnsIn(row))
          /\ row \in Rows /\ row + 1 \in 0 .. a_rows /\ row \in 0 .. a_rows
          /\ EntriesBefore(row) \in Nat
      BY <2>1, KeptFits DEF Numeric
    <2>4. c_row_ptr[row] \in Nat
      BY <1>1, <2>3
    <2>5. End \in Nat /\ End <= EntriesBefore(row + 1)
      BY <2>2, <2>3, <2>4 DEF End
    <2>6. c_row_ptr' \in [0 .. a_rows -> Nat] /\ c_row_ptr'[row + 1] = End
      BY <1>1, <2>1, <2>3, <2>5
    <2>7. \A r \in 0 .. a_rows : r > row + 1 => c_row_ptr'[r] = EntriesBefore(r)
      BY <1>1, <1>2, <2>1, <2>2
    <2>8. QED
      BY <1>1, <2>1, <2>2, <2>5, <2>6, <2>7, CountsNext
  <1>11. CASE Marking \/ AddEntry \/ NumericNext \/ AddRun \/ AddGathered \/ GatherRest \/ AddSpan
    <2>1. Numeric /\ Numeric' /\ UNCHANGED <<row, total, running, c_row_ptr>>
      BY <1>11 DEF Marking, AddEntry, NumericNext, NextEntry, AddRun, AddGathered, AddedTo,
         GatherRest, AddSpan, InVector, Numeric, output, loops
    <2>2. pc' # "count" /\ pc' # "prefix" /\ pc' \notin {"start", "flags"}
      BY <2>1 DEF Numeric
    <2>3. QED
      BY <1>1, <2>1, <2>2, CountsNext DEF Counts
  <1>12. CASE Resting
    <2>1. UNCHANGED <<pc, row, total, running, c_row_ptr>>
      BY <1>12 DEF Resting, loops, output
    <2>2. Numeric' <=> Numeric
      BY <2>1 DEF Numeric
    <2>3. QED
      BY <1>1, <2>1, <2>2, CountsNext DEF Counts
  <1>13. QED
    BY <1>3, <1>4, <1>5, <1>6, <1>7, <1>8, <1>9, <1>10, <1>11, <1>12, NextIs

LEMMA InitCounts == Init => Counts
  <1> SUFFICES ASSUME Init PROVE Counts
    OBVIOUS
  <1>1. /\ pc = "start" /\ total = 0 /\ running = 0
        /\ c_row_ptr = [r \in 0 .. a_rows |-> 0]
    BY DEF Init
  <1>2. QED
    BY <1>1 DEF Counts, Numeric

LEMMA Room ==
    ASSUME Place, Marks, Counts
    PROVE  RowsFitTheirRoom
  <1> SUFFICES ASSUME Numeric, row < a_rows
               PROVE  /\ c_row_ptr[row] + Len(touched) <= c_row_ptr[row + 1]
                      /\ \A r \in row + 1 .. a_rows - 1 : c_row_ptr[r] <= c_row_ptr[r + 1]
                      /\ c_row_ptr[a_rows] <= total
    BY DEF RowsFitTheirRoom
  <1>1. /\ total = EntriesBefore(a_rows) /\ c_row_ptr[row] <= EntriesBefore(row)
        /\ \A r \in 0 .. a_rows : r > row => c_row_ptr[r] = EntriesBefore(r)
        /\ c_row_ptr \in [0 .. a_rows -> Nat]
    BY DEF Counts
  <1>2. /\ Len(touched) \in Nat /\ Len(touched) <= Cardinality(ColumnsIn(row))
        /\ Cardinality(ColumnsIn(row)) \in Nat
        /\ EntriesBefore(row + 1) = EntriesBefore(row) + Cardinality(ColumnsIn(row))
        /\ row \in Nat /\ row + 1 \in 0 .. a_rows /\ row \in 0 .. a_rows
        /\ EntriesBefore(row) \in Nat
    BY KeptFits DEF Place, LoopTypes
  <1>3. c_row_ptr[row + 1] = EntriesBefore(row + 1) /\ c_row_ptr[row] \in Nat
    BY <1>1, <1>2
  <1>4. ASSUME NEW r \in row + 1 .. a_rows - 1
        PROVE  c_row_ptr[r] <= c_row_ptr[r + 1]
    <2>1. r \in 0 .. a_rows /\ r + 1 \in 0 .. a_rows /\ r > row /\ r + 1 > row /\ r <= r + 1
      BY <1>2, Shape
    <2>2. EntriesBefore(r) <= EntriesBefore(r + 1)
      BY <2>1, EntriesBeforeCounts
    <2>3. QED
      BY <1>1, <2>1, <2>2
  <1>5. c_row_ptr[a_rows] <= total
    <2>1. a_rows \in 0 .. a_rows /\ a_rows > row
      BY <1>2, Shape
    <2>2. EntriesBefore(a_rows) \in Nat
      BY <2>1, EntriesBeforeCounts
    <2>3. QED
      BY <1>1, <2>1, <2>2
  <1>6. QED
    BY <1>1, <1>2, <1>3, <1>4, <1>5

\* A row never needs more room than the symbolic pass found for it: the ends
\* written into c_row_ptr never pass the starts still to be read from it, and
\* the check for room before a write never fails.
THEOREM RoomSuffices == Spec => []RowsFitTheirRoom
  <1>1. Init => Place /\ Marks /\ Counts
    BY InitPlace, InitMarks, InitCounts
  <1>2. Place /\ Marks /\ Counts /\ [Next]_vars => Place' /\ Marks' /\ Counts'
    BY PlaceStep, MarksStep, CountsStep
  <1>3. Place /\ Marks /\ Counts => RowsFitTheirRoom
    BY Room
  <1>4. QED
    BY <1>1, <1>2, <1>3, PTL DEF Spec

-------------------------------------------------------------------------------
(* Refusals *)

LeftBroken == \E i \in Rows : \E p \in DOMAIN A[i] : A[i][p][1] \notin 0 .. a_cols - 1
BrokenRow(k) == Range(ColumnsOf(B[k])) \ Cols # {}
RightBroken == \E k \in DOMAIN B : BrokenRow(k)
HasReason == status \in {"INVALID_ARGUMENT", "INVALID_CSR"} => LeftBroken \/ RightBroken

LEMMA RangeOfRow ==
    ASSUME NEW s \in Seq(Int \X Int)
    PROVE  \A c : c \in Range(ColumnsOf(s)) <=> \E p \in 1 .. Len(s) : c = s[p][1]
  <1>1. DOMAIN s = 1 .. Len(s)
    BY PairFacts
  <1>2. QED
    BY <1>1 DEF Range, ColumnsOf

LEMMA OutIsBroken ==
    ASSUME OperandsFit, NEW k \in 0 .. a_cols - 1, NEW p \in 1 .. Len(B[k]),
           OutOfRange(B[k][p][1], b_cols)
    PROVE  RightBroken
  <1>1. /\ B[k] \in Seq(Int \X Int) /\ B[k][p][1] \in Int /\ DOMAIN B = 0 .. a_cols - 1
    BY RightFacts DEF OperandsFit
  <1>2. B[k][p][1] \in Range(ColumnsOf(B[k]))
    BY <1>1, RangeOfRow
  <1>3. B[k][p][1] \notin Cols
    BY <1>1, Shape DEF OutOfRange, Cols
  <1>4. QED
    BY <1>1, <1>2, <1>3 DEF RightBroken, BrokenRow

\* The step that refuses an operand has just met what is wrong with it; the
\* numeric pass meets nothing the count has not, and it has the room.
LEMMA HasReasonStep ==
    ASSUME Place, Marks, Counts, HasReason, [Next]_vars
    PROVE  HasReason'
  <1>1. /\ UNCHANGED operands /\ A' = A /\ B' = B /\ LoopTypes /\ OperandsFit /\ Looking
        /\ row \in Nat /\ ap \in Nat /\ ap >= 1 /\ bp \in Nat /\ bp >= 1 /\ upto \in Nat
        /\ status = "running" <=> pc # "returned"
    BY FixedOperands DEF Place, LoopTypes, operands
  <1>2. (LeftBroken \/ RightBroken)' <=> LeftBroken \/ RightBroken
    BY <1>1 DEF LeftBroken, RightBroken, BrokenRow, ColumnsOf
  <1>3. SUFFICES ASSUME status' # status, status' \in {"INVALID_ARGUMENT", "INVALID_CSR"}
                 PROVE  LeftBroken \/ RightBroken
    BY <1>2 DEF HasReason
  <1>4. CASE FlagRow
    <2>1. row < a_cols /\ Broken(B[row])
      BY <1>3, <1>4 DEF FlagRow, NextRow
    <2>2. row \in 0 .. a_cols - 1
      BY <1>1, <2>1, Shape
    <2>3. \E p \in 1 .. Len(B[row]) : OutOfRange(B[row][p][1], b_cols)
      BY <1>1, <2>1, <2>2, RightFacts DEF Broken
    <2>4. QED
      BY <1>1, <2>2, <2>3, OutIsBroken
  <1>5. CASE CountRefuses
    <2>1. /\ InA /\ OutOfRange(a_col, a_cols)
      BY <1>5 DEF CountRefuses
    <2>2. row \in Rows
      BY <1>1, <2>1, Shape DEF InA, Rows
    <2>3. ap \in DOMAIN A[row] /\ A[row][ap][1] \in Int
      BY <1>1, <2>1, <2>2, RowFacts DEF InA
    <2>4. A[row][ap][1] \notin 0 .. a_cols - 1
      BY <2>1, <2>3, Shape DEF OutOfRange, a_col
    <2>5. QED
      BY <2>2, <2>3, <2>4 DEF LeftBroken
  <1>6. CASE CountEntry
    <2>1. /\ InA /\ ~OutOfRange(a_col, a_cols) /\ InB /\ OutOfRange(BRow[bp][1], b_cols)
      BY <1>3, <1>6 DEF CountEntry
    <2>2. row \in Rows
      BY <1>1, <2>1, Shape DEF InA, Rows
    <2>3. A[row][ap][1] \in Int
      BY <1>1, <2>1, <2>2, RowFacts DEF InA
    <2>4. a_col \in 0 .. a_cols - 1
      BY <2>1, <2>3, Shape, InRange DEF a_col
    <2>5. bp \in 1 .. Len(B[a_col])
      BY <1>1, <2>1, <2>4, RightFacts DEF InB, BRow
    <2>6. QED
      BY <1>1, <2>1, <2>4, <2>5, OutIsBroken DEF BRow
  <1>7. CASE MarkEntry
    <2>1. pc = "numeric" /\ InA /\ InB /\ Refused
      BY <1>3, <1>7 DEF MarkEntry
    <2>2. /\ bp <= upto /\ upto < bp + Group /\ (UsesVector(a_col) => bp = 1)
      BY <2>1 DEF Place, InGroup
    <2>3. Group \in 1 .. Left /\ Left = Len(BRow) - bp + 1 /\ Len(BRow) \in Nat
      BY <2>1, <2>2, Here, GroupFacts DEF Numeric
    <2>4. \A q \in 1 .. Len(BRow) : BRow[q][1] \in Cols
      BY <2>1, Here DEF Numeric
    <2>5. PICK q \in IF UsesVector(a_col) THEN {upto} ELSE bp .. bp + Group - 1 :
                     OutOfRange(BRow[q][1], b_cols)
      BY <2>1 DEF Refused
    <2>6. q \in 1 .. Len(BRow)
      BY <1>1, <2>2, <2>3, <2>5
    <2>7. QED
      BY <2>4, <2>5, <2>6, Shape DEF OutOfRange, Cols
  <1>8. CASE EmitRow
    <2>1. /\ pc = "numeric" /\ row < a_rows /\ End > c_row_ptr[row + 1]
      BY <1>3, <1>8 DEF EmitRow, NextRow, Kept, End
    <2>2. c_row_ptr[row] + Len(touched) <= c_row_ptr[row + 1]
      BY <2>1, Room DEF RowsFitTheirRoom, Numeric
    <2>3. /\ Len(Kept) \in Nat /\ Len(Kept) <= Len(touched) /\ Len(touched) \in Nat
          /\ row + 1 \in 0 .. a_rows /\ row \in 0 .. a_rows
      BY <2>1, KeptFits DEF Numeric
    <2>4. c_row_ptr[row] \in Nat /\ c_row_ptr[row + 1] \in Nat
      BY <2>3 DEF Counts
    <2>5. QED
      BY <2>1, <2>2, <2>3, <2>4 DEF End
  <1>9. CASE AllocateWork \/ AllocateSeen \/ CountOverflows \/ AllocateC
    <2>1. status' = "ALLOCATION_FAILED"
      BY <1>3, <1>9 DEF AllocateWork, AllocateSeen, CountOverflows, AllocateC, Fails, Goto
    <2>2. QED
      BY <1>3, <2>1
  <1>10. CASE FlagsDone \/ CountNext \/ CountRow \/ StartPrefix \/ PrefixRow \/ AddEntry
              \/ NumericNext \/ AddRun \/ AddGathered \/ GatherRest \/ AddSpan \/ Return
              \/ UNCHANGED vars
    <2>1. status' = status \/ status' = "SUCCESS"
      BY <1>10 DEF FlagsDone, CountNext, CountRow, StartPrefix, PrefixRow, AddEntry, NumericNext,
         AddRun, AddGathered, GatherRest, AddSpan, Return, Goto, NextRow, NextEntry, AddedTo, vars
    <2>2. QED
      BY <1>3, <2>1
  <1>11. QED
    BY <1>4, <1>5, <1>6, <1>7, <1>8, <1>9, <1>10 DEF Next

LEMMA InitHasReason == Init => HasReason
  BY DEF Init, HasReason

LEMMA Refusals ==
    ASSUME Place, HasReason
    PROVE  RefusesWhatIsBroken
  <1>1. OperandsFit /\ DOMAIN B = 0 .. a_cols - 1
    BY DEF Place, LoopTypes, OperandsFit
  <1>2. ASSUME Numeric \/ status = "SUCCESS", NEW i \in Rows
        PROVE  \A p \in DOMAIN A[i] : /\ A[i][p][1] \in 0 .. a_cols - 1
                                      /\ ~BrokenRow(A[i][p][1])
    <2>1. RowClean(i) /\ DOMAIN A[i] = 1 .. Len(A[i])
      BY <1>1, <1>2, RowFacts DEF Place, Looking
    <2>2. ASSUME NEW p \in 1 .. Len(A[i])
          PROVE  A[i][p][1] \in 0 .. a_cols - 1 /\ ~BrokenRow(A[i][p][1])
      <3>1. EntryClean(i, p)
        BY <2>1 DEF RowClean
      <3>2. /\ A[i][p][1] \in 0 .. a_cols - 1 /\ B[A[i][p][1]] \in Seq(Int \X Int)
            /\ \A q \in 1 .. Len(B[A[i][p][1]]) : B[A[i][p][1]][q][1] \in Cols
        BY <1>1, <3>1, CleanFacts
      <3>3. \A c : c \in Range(ColumnsOf(B[A[i][p][1]]))
                    <=> \E q \in 1 .. Len(B[A[i][p][1]]) : c = B[A[i][p][1]][q][1]
        BY ONLY <3>2, RangeOfRow
      <3>4. ASSUME NEW c \in Range(ColumnsOf(B[A[i][p][1]]))
            PROVE  c \in Cols
        <4>1. PICK q \in 1 .. Len(B[A[i][p][1]]) : c = B[A[i][p][1]][q][1]
          BY <3>3
        <4>2. QED
          BY <3>2, <4>1
      <3>5. QED
        BY <3>2, <3>4 DEF BrokenRow
    <2>3. QED
      BY <2>1, <2>2
  <1>3. Numeric \/ status = "SUCCESS" => ~LeftBroken
    BY <1>2 DEF LeftBroken
  <1>4. ASSUME Numeric \/ status = "SUCCESS", NEW k \in DOMAIN B, NEW i \in Rows,
               k \in Range(ColumnsOf(A[i]))
        PROVE  ~BrokenRow(k)
    <2>1. A[i] \in Seq(Int \X Int) /\ DOMAIN A[i] = 1 .. Len(A[i])
      BY <1>1, RowFacts
    <2>2. \A c : c \in Range(ColumnsOf(A[i])) <=> \E p \in 1 .. Len(A[i]) : c = A[i][p][1]
      BY ONLY <2>1, RangeOfRow
    <2>3. PICK p \in 1 .. Len(A[i]) : k = A[i][p][1]
      BY <1>4, <2>2
    <2>4. QED
      BY <1>2, <1>4, <2>1, <2>3
  <1>5. QED
    BY <1>3, <1>4 DEF RefusesWhatIsBroken, HasReason, LeftBroken, RightBroken, BrokenRow

\* A call that gets past the count met no column out of range in A nor in the
\* rows of B it names, and one that refuses its operands had a reason to.
THEOREM RefusalsHaveReasons == Spec => []RefusesWhatIsBroken
  <1>1. Init => Place /\ Marks /\ Counts /\ HasReason
    BY InitPlace, InitMarks, InitCounts, InitHasReason
  <1>2. Place /\ Marks /\ Counts /\ HasReason /\ [Next]_vars
          => Place' /\ Marks' /\ Counts' /\ HasReason'
    BY PlaceStep, MarksStep, CountsStep, HasReasonStep
  <1>3. Place /\ HasReason => RefusesWhatIsBroken
    BY Refusals
  <1>4. QED
    BY <1>1, <1>2, <1>3, PTL DEF Spec

-------------------------------------------------------------------------------
(* The sums *)

\* Adding nothing but zeros changes no sum.
LEMMA SumOfZeros ==
    ASSUME NEW f, NEW S, NEW T, IsFiniteSet(S), IsFiniteSet(T), S \cap T = {},
           \A y \in S : f[y] \in Int, \A y \in T : f[y] = 0
    PROVE  SumFunctionOnSet(f, S \cup T) = SumFunctionOnSet(f, S)
  <1> DEFINE Reached == {n \in Nat : \A U \in Small(T, n) :
                            SumFunctionOnSet(f, S \cup U) = SumFunctionOnSet(f, S)}
  <1>1. 0 \in Reached
    <2>1. \A U \in Small(T, 0) : S \cup U = S
      BY SmallFacts
    <2>2. QED
      BY <2>1
  <1>2. ASSUME NEW n \in Reached PROVE n + 1 \in Reached
    <2>1. ASSUME NEW U \in Small(T, n + 1), U \notin Small(T, n)
          PROVE  SumFunctionOnSet(f, S \cup U) = SumFunctionOnSet(f, S)
      <3>1. n \in Nat /\ U # {} /\ U \in SUBSET T
        BY <2>1, SmallFacts DEF Small
      <3>2. PICK x \in U : TRUE
        BY <3>1
      <3> DEFINE R == S \cup (U \ {x})
      <3>3. SumFunctionOnSet(f, R) = SumFunctionOnSet(f, S)
        BY <3>1, <3>2, SmallFacts
      <3>4. IsFiniteSet(R) /\ x \notin R /\ \A y \in R \cup {x} : f[y] \in Int
        <4>1. IsFiniteSet(U \ {x})
          BY <3>1, FS_Subset
        <4>2. IsFiniteSet(S \cup (U \ {x}))
          BY ONLY <4>1, IsFiniteSet(S), FS_Union
        <4>3. x \notin R /\ \A y \in R \cup {x} : f[y] \in Int
          BY <3>1, <3>2
        <4>4. QED
          BY <4>2, <4>3
      <3>5. S \cup U = R \cup {x}
        BY <3>2
      <3> HIDE DEF R
      <3>6. /\ SumFunctionOnSet(f, R) \in Int
            /\ SumFunctionOnSet(f, R \cup {x}) = f[x] + SumFunctionOnSet(f, R)
        BY <3>4, SumOfOneMore
      <3>7. f[x] = 0
        BY <3>1, <3>2
      <3>8. SumFunctionOnSet(f, R \cup {x}) = SumFunctionOnSet(f, R)
        BY ONLY <3>6, <3>7
      <3>9. QED
        BY <3>3, <3>5, <3>8
    <2>2. QED
      BY <2>1
  <1>3. Reached = Nat
    <2>1. Reached \in SUBSET Nat
      OBVIOUS
    <2> HIDE DEF Reached
    <2>2. QED
      BY <1>1, <1>2, <2>1, Induction
  <1>4. Cardinality(T) \in Reached /\ T \in Small(T, Cardinality(T))
    BY <1>3, SmallFacts
  <1>5. QED
    BY <1>4

LEMMA NewEntry ==
    ASSUME Place, Numeric, InA, NEW q \in 1 .. Len(BRow)
    PROVE  /\ <<ap, q>> \in Entries(row) /\ Column(row, <<ap, q>>) = BRow[q][1]
           /\ Products(row)[<<ap, q>>] = a_val * BRow[q][2]
           /\ q >= bp => <<ap, q>> \notin Passed
  <1>1. /\ row \in Rows /\ ap \in 1 .. Len(A[row]) /\ ap \in Nat /\ bp \in Nat
        /\ BRow = B[A[row][ap][1]] /\ a_val = A[row][ap][2] /\ Len(BRow) \in Nat
    BY Here
  <1>2. OperandsFit /\ RowClean(row)
    BY PassedFit DEF InA
  <1>3. <<ap, q>> \in Entries(row)
    BY <1>1, <1>2, ColumnsInAre
  <1>4. Column(row, <<ap, q>>) = BRow[q][1] /\ Products(row)[<<ap, q>>] = a_val * BRow[q][2]
    BY <1>1, <1>2, <1>3, EntryFacts
  <1>5. q >= bp => <<ap, q>> \notin Passed
    BY <1>1, PassedAre
  <1>6. QED
    BY <1>3, <1>4, <1>5

LEMMA SumsNext ==
    ASSUME UNCHANGED operands, row' = row, IsFiniteSet(Passed'),
           \A c \in Cols : SumFunctionOnSet(Products(row), {e \in Passed' : Column(row, e) = c})
                             = IF c \in Range(touched') THEN acc'[c] ELSE 0
    PROVE  Sums'
  <1>1. A' = A /\ B' = B
    BY DEF operands
  <1>2. Products(row)' = Products(row)
    BY <1>1 DEF Products, Entries
  <1>3. \A e : Column(row, e)' = Column(row, e)
    BY <1>1 DEF Column
  <1>4. \A c : {e \in Passed : Column(row, e) = c}' = {e \in Passed' : Column(row, e) = c}
    BY <1>3
  <1>5. QED
    BY <1>2, <1>4 DEF Sums, SumPassed

LEMMA SumsBegin ==
    ASSUME ap' = 1, bp' = 1, touched' = <<>>
    PROVE  Sums'
  <1>1. Passed' = {}
    BY NothingPassed
  <1>2. IsFiniteSet(Passed)'
    BY <1>1, FS_EmptySet
  <1>3. \A c : {e \in Passed : Column(row, e) = c}' = {}
    BY <1>1
  <1>4. \A c : SumPassed(c)' = 0
    BY <1>3, SumOfNone DEF SumPassed
  <1>5. Range(touched') = {}
    BY DEF Range
  <1>6. QED
    BY <1>2, <1>4, <1>5 DEF Sums

\* What is passed stays as it is, so do the sums.
LEMMA SumsStay ==
    ASSUME Sums, Numeric, row < a_rows, UNCHANGED <<operands, row, touched, acc>>, Passed' = Passed
    PROVE  Sums'
  <1>1. QED
    BY SumsNext DEF Sums, SumPassed

\* The lanes of one addition go to different columns, each touched before.
LEMMA SumsGain ==
    ASSUME Place, Marks, Sums, Numeric, InA, UNCHANGED <<operands, row, ap, touched>>,
           NEW n \in Nat, n <= Left, bp' = bp + n, AddsLanes(n),
           \A i \in bp .. bp + n - 1 : BRow[i][1] \in Range(touched)
    PROVE  Sums'
  <1>1. /\ row \in Rows /\ ap \in Nat /\ bp \in Nat /\ bp >= 1 /\ Len(BRow) \in Nat
        /\ Left = Len(BRow) - bp + 1 /\ a_val \in Int
        /\ \A q \in 1 .. Len(BRow) : BRow[q][1] \in Cols /\ BRow[q][2] \in Int
    BY Here
  <1>2. OperandsFit /\ RowClean(row) /\ Passed \subseteq Entries(row) /\ row < a_rows
    BY PassedFit DEF InA
  <1>3. \A i \in bp .. bp + n - 1 : i \in 1 .. Len(BRow) /\ i >= bp
    BY <1>1
  <1> DEFINE New == {ap} \X (bp .. bp + n - 1)
  <1>4. Passed' = Passed \cup New
    BY <1>1, SomeMorePassed DEF operands
  <1>5. IsFiniteSet(Passed)
    BY <1>2 DEF Sums
  <1>6. IsFiniteSet(Passed')
    <2>1. IsFiniteSet(bp .. bp + n - 1)
      <3>1. bp \in Int /\ bp + n - 1 \in Int
        BY <1>1
      <3>2. QED
        BY ONLY <3>1, FS_Interval
    <2>2. IsFiniteSet(New)
      BY ONLY <2>1, Tagged
    <2> HIDE DEF New
    <2>3. QED
      BY <1>4, <1>5, <2>2, FS_Union
  <1>7. acc \in [Cols -> Int] /\ Range(touched) \subseteq Cols
    BY DistinctCount DEF Marks, Marked
  <1>8. ASSUME NEW c \in Cols
        PROVE  SumFunctionOnSet(Products(row), {e \in Passed' : Column(row, e) = c})
                 = IF c \in Range(touched') THEN acc'[c] ELSE 0
    <2> DEFINE S == {e \in Passed : Column(row, e) = c}
               S1 == {e \in Passed' : Column(row, e) = c}
    <2>1. IsFiniteSet(S) /\ S \in SUBSET Entries(row)
      <3>1. S \in SUBSET Passed
        OBVIOUS
      <3> HIDE DEF S
      <3>2. QED
        BY <1>2, <1>5, <3>1, FS_Subset
    <2>2. SumFunctionOnSet(Products(row), S) = IF c \in Range(touched) THEN acc[c] ELSE 0
      BY <1>2 DEF Sums, SumPassed
    <2>3. CASE \E i \in bp .. bp + n - 1 : BRow[i][1] = c
      <3>1. PICK i \in bp .. bp + n - 1 : BRow[i][1] = c
        BY <2>3
      <3>2. /\ <<ap, i>> \in Entries(row) /\ Column(row, <<ap, i>>) = BRow[i][1]
            /\ Products(row)[<<ap, i>>] = a_val * BRow[i][2] /\ <<ap, i>> \notin Passed
        BY <1>3, NewEntry
      <3>3. \A j \in bp .. bp + n - 1 : Column(row, <<ap, j>>) = c => j = i
        <4>1. \A j \in bp .. bp + n - 1 : Column(row, <<ap, j>>) = BRow[j][1]
          BY <1>3, NewEntry
        <4>2. QED
          BY <3>1, <4>1 DEF AddsLanes
      <3>4. S1 = S \cup {<<ap, i>>}
        BY <1>4, <3>1, <3>2, <3>3
      <3>5. \A y \in S \cup {<<ap, i>>} : Products(row)[y] \in Int
        BY <1>1, <1>2, <2>1, <3>2, EntryFacts
      <3>6. <<ap, i>> \notin S
        BY <3>2
      <3> HIDE DEF S, S1
      <3>7. SumFunctionOnSet(Products(row), S1)
              = Products(row)[<<ap, i>>] + SumFunctionOnSet(Products(row), S)
        BY <2>1, <3>4, <3>5, <3>6, SumOfOneMore
      <3>8. c \in Range(touched) /\ acc'[c] = acc[c] + a_val * BRow[i][2]
        BY <3>1 DEF AddsLanes
      <3>9. a_val * BRow[i][2] \in Int /\ acc[c] \in Int
        BY <1>1, <1>3, <1>7, <3>1
      <3>10. acc'[c] = a_val * BRow[i][2] + acc[c]
        BY <3>8, <3>9
      <3>11. SumFunctionOnSet(Products(row), S1) = acc'[c]
        BY <2>2, <3>2, <3>7, <3>8, <3>10
      <3>12. QED
        BY <3>8, <3>11 DEF S1
    <2>4. CASE \A i \in bp .. bp + n - 1 : BRow[i][1] # c
      <3>1. \A j \in bp .. bp + n - 1 : Column(row, <<ap, j>>) # c
        BY <1>3, <2>4, NewEntry
      <3>2. S1 = S
        BY <1>4, <3>1
      <3>3. acc'[c] = acc[c]
        BY <2>4 DEF AddsLanes
      <3>4. QED
        BY <2>2, <3>2, <3>3
    <2>5. QED
      BY <2>3, <2>4
  <1>9. QED
    BY <1>6, <1>8, SumsNext

\* The rest of a row of B is left out when what it is multiplied by is zero.
LEMMA SumsSkip ==
    ASSUME Place, Marks, Sums, Numeric, InA, UNCHANGED <<operands, row, touched, acc>>,
           ap' = ap + 1, bp' = 1, bp <= Len(BRow) + 1, ~InB \/ a_val = 0
    PROVE  Sums'
  <1>1. /\ row \in Rows /\ ap \in Nat /\ ap >= 1 /\ bp \in Nat /\ bp >= 1 /\ Len(BRow) \in Nat
        /\ BRow = B[A[row][ap][1]]
        /\ \A q \in 1 .. Len(BRow) : BRow[q][1] \in Cols /\ BRow[q][2] \in Int
    BY Here
  <1>2. OperandsFit /\ RowClean(row) /\ Passed \subseteq Entries(row) /\ row < a_rows
    BY PassedFit DEF InA
  <1> DEFINE New == {ap} \X (bp .. Len(BRow))
  <1>3. Passed' = Passed \cup New
    BY <1>1, RestPassed DEF operands
  <1>4. IsFiniteSet(Passed)
    BY <1>2 DEF Sums
  <1>5. CASE ~InB
    <2>1. bp .. Len(BRow) = {}
      BY <1>1, <1>5 DEF InB
    <2>2. Passed' = Passed
      BY <1>3, <2>1
    <2>3. QED
      BY <1>2, <2>2, SumsStay
  <1>6. CASE a_val = 0
    <2>1. IsFiniteSet(New)
      <3>1. bp \in Int /\ Len(BRow) \in Int
        BY <1>1
      <3>2. IsFiniteSet(bp .. Len(BRow))
        BY ONLY <3>1, FS_Interval
      <3>3. QED
        BY ONLY <3>2, Tagged
    <2>2. \A e \in New : e \notin Passed /\ Products(row)[e] = 0
      <3>1. ASSUME NEW q \in bp .. Len(BRow)
            PROVE  <<ap, q>> \notin Passed /\ Products(row)[<<ap, q>>] = 0
        <4>1. q \in 1 .. Len(BRow) /\ q >= bp
          BY <1>1
        <4>2. <<ap, q>> \notin Passed /\ Products(row)[<<ap, q>>] = a_val * BRow[q][2]
          BY <4>1, NewEntry
        <4>3. BRow[q][2] \in Int
          BY <1>1, <4>1
        <4>4. QED
          BY <1>6, <4>2, <4>3
      <3>2. QED
        BY <3>1
    <2> HIDE DEF New
    <2>3. IsFiniteSet(Passed')
      BY ONLY <1>3, <1>4, <2>1, FS_Union
    <2>4. ASSUME NEW c \in Cols
          PROVE  SumFunctionOnSet(Products(row), {e \in Passed' : Column(row, e) = c})
                   = IF c \in Range(touched') THEN acc'[c] ELSE 0
      <3> DEFINE S == {e \in Passed : Column(row, e) = c}
                 T == {e \in New : Column(row, e) = c}
      <3>1. {e \in Passed' : Column(row, e) = c} = S \cup T
        BY <1>3
      <3>2. S \in SUBSET Passed /\ T \in SUBSET New /\ S \cap T = {}
        BY <2>2
      <3>3. SumFunctionOnSet(Products(row), S) = IF c \in Range(touched) THEN acc[c] ELSE 0
        BY <1>2 DEF Sums, SumPassed
      <3> HIDE DEF S, T
      <3>4. IsFiniteSet(S) /\ IsFiniteSet(T)
        BY ONLY <1>4, <2>1, <3>2, FS_Subset
      <3>5. (\A y \in S : Products(row)[y] \in Int) /\ \A y \in T : Products(row)[y] = 0
        BY <1>1, <1>2, <2>2, <3>2, EntryFacts
      <3>6. SumFunctionOnSet(Products(row), S \cup T) = SumFunctionOnSet(Products(row), S)
        BY ONLY <3>2, <3>4, <3>5, SumOfZeros
      <3>7. QED
        BY <3>1, <3>3, <3>6
    <2>5. QED
      BY <2>3, <2>4, SumsNext
  <1>7. QED
    BY <1>5, <1>6

LEMMA SumsStep ==
    ASSUME Place, Marks, Sums, [Next]_vars
    PROVE  Sums'
  <1>1. /\ UNCHANGED operands /\ A' = A /\ B' = B /\ LoopTypes /\ InGroup
        /\ row \in Nat /\ ap \in Nat /\ ap >= 1 /\ bp \in Nat /\ bp >= 1 /\ upto \in Nat
        /\ Marked /\ touched \in Seq(Cols) /\ acc \in [Cols -> Int]
    BY FixedOperands DEF Place, LoopTypes, Marks, Marked, operands
  <1>2. CASE Failing \/ Return
    <2>1. pc' = "returned"
      BY <1>2 DEF Failing, Return
    <2>2. QED
      BY <2>1 DEF Sums, Numeric
  <1>3. CASE Starting \/ Flagging \/ FlagsDone \/ CountingEntry \/ CountNext \/ CountRow
             \/ StartPrefix \/ PrefixRow
    <2>1. pc' \in {"flags", "count", "prefix"}
      BY <1>3 DEF Starting, Flagging, FlagsDone, CountingEntry, CountNext, CountRow, StartPrefix,
         PrefixRow, Goto, NextRow, Counting
    <2>2. QED
      BY <2>1 DEF Sums, Numeric
  <1>4. CASE Allocating
    <2>1. pc = "prefix" /\ ap' = 1 /\ bp' = 1 /\ touched' = touched
      BY <1>4 DEF Allocating, Goto, work
    <2>2. touched = <<>>
      BY <2>1 DEF Marks
    <2>3. QED
      BY <2>1, <2>2, SumsBegin
  <1>5. CASE Emitting
    <2>1. ap' = 1 /\ bp' = 1 /\ touched' = <<>>
      BY <1>5 DEF Emitting, NextRow
    <2>2. QED
      BY <2>1, SumsBegin
  <1>6. CASE Marking
    <2>1. /\ pc = "numeric" /\ InA /\ InB /\ UNCHANGED <<row, ap, bp>>
          /\ Visit(BRow[upto][1])
          /\ acc' = IF Fresh(BRow[upto][1]) THEN [acc EXCEPT ![BRow[upto][1]] = 0] ELSE acc
      BY <1>6 DEF Marking
    <2>2. bp <= upto /\ upto < bp + Group /\ (UsesVector(a_col) => bp = 1)
      BY <1>1, <2>1 DEF InGroup
    <2>3. Group \in 1 .. Len(BRow) - bp + 1 /\ Len(BRow) \in Nat /\ Left = Len(BRow) - bp + 1
      BY <2>1, <2>2, GroupFacts, Here DEF Numeric
    <2>4. upto \in 1 .. Len(BRow)
      BY <1>1, <2>2, <2>3
    <2>5. BRow[upto][1] \in Cols
      BY <2>1, <2>4, Here DEF Numeric
    <2>6. Range(touched') = Range(touched) \cup {BRow[upto][1]}
          /\ (Fresh(BRow[upto][1]) <=> BRow[upto][1] \notin Range(touched))
      BY <1>1, <2>1, <2>5, VisitMarks
    <2>7. Passed' = Passed
      <3>1. Passed' = Passed \cup ({ap} \X (bp .. bp + 0 - 1))
        BY <1>1, <2>1, SomeMorePassed
      <3>2. bp .. bp + 0 - 1 = {}
        BY <1>1
      <3>3. QED
        BY <3>1, <3>2
    <2>8. row < a_rows /\ IsFiniteSet(Passed)
      BY <2>1 DEF Sums, Numeric, InA
    <2>9. ASSUME NEW c \in Cols
          PROVE  SumFunctionOnSet(Products(row), {e \in Passed' : Column(row, e) = c})
                   = IF c \in Range(touched') THEN acc'[c] ELSE 0
      <3>1. SumFunctionOnSet(Products(row), {e \in Passed' : Column(row, e) = c})
              = IF c \in Range(touched) THEN acc[c] ELSE 0
        BY <2>1, <2>7, <2>8 DEF Sums, SumPassed, Numeric
      <3>2. (IF c \in Range(touched) THEN acc[c] ELSE 0)
              = IF c \in Range(touched') THEN acc'[c] ELSE 0
        BY <1>1, <2>1, <2>5, <2>6
      <3>3. QED
        BY <3>1, <3>2
    <2>10. QED
      BY <1>1, <2>1, <2>7, <2>8, <2>9, SumsNext
  <1>7. CASE AddEntry
    <2>1. /\ pc = "add" /\ UNCHANGED <<row, ap, touched>> /\ bp' = bp + 1
          /\ acc' = [acc EXCEPT ![BRow[bp][1]] = @ + a_val * BRow[bp][2]]
      BY <1>7 DEF AddEntry
    <2>2. InA /\ bp < upto /\ upto <= Len(BRow) + 1
      BY <1>1, <2>1 DEF InGroup
    <2>3. /\ Len(BRow) \in Nat /\ Left = Len(BRow) - bp + 1 /\ a_val \in Int
          /\ \A q \in 1 .. Len(BRow) : BRow[q][1] \in Cols /\ BRow[q][2] \in Int
      BY <2>1, <2>2, Here DEF Numeric
    <2>4. bp \in 1 .. Len(BRow) /\ 1 <= Left /\ bp .. bp + 1 - 1 = {bp} /\ bp \in bp .. upto - 1
      BY <1>1, <2>2, <2>3
    <2>5. BRow[bp][1] \in Range(touched)
      BY <2>1, <2>2, <2>4 DEF Marks
    <2>6. AddsLanes(1)
      <3>1. BRow[bp][1] \in Cols /\ a_val * BRow[bp][2] \in Int
        BY <2>3, <2>4
      <3>2. acc' \in [Cols -> Int]
        BY <1>1, <2>1, <3>1
      <3>3. acc'[BRow[bp][1]] = acc[BRow[bp][1]] + a_val * BRow[bp][2]
        BY <1>1, <2>1, <3>1
      <3>4. \A c \in Cols : BRow[bp][1] # c => acc'[c] = acc[c]
        BY <1>1, <2>1
      <3>5. QED
        BY <2>4, <3>2, <3>3, <3>4 DEF AddsLanes
    <2>7. QED
      BY <1>1, <2>1, <2>2, <2>4, <2>5, <2>6, SumsGain DEF Numeric
  <1>8. CASE NumericNext
    <2>1. /\ pc \in {"numeric", "gather", "vector"} /\ ap' = ap + 1 /\ bp' = 1
          /\ (~InB \/ a_val = 0) /\ UNCHANGED <<row, touched, acc>>
          /\ pc = "numeric" => InA
      BY <1>8 DEF NumericNext, NextEntry, Skipped, work
    <2>2. InA /\ bp <= Len(BRow) + 1
      BY <1>1, <2>1 DEF InGroup
    <2>3. UNCHANGED <<operands, row, touched, acc>> /\ Numeric /\ (~InB \/ a_val = 0)
      BY <1>1, <1>8, <2>1 DEF Numeric, NumericNext, Skipped
    <2>4. QED
      BY <2>1, <2>2, <2>3, SumsSkip
  <1>9. CASE AddRun \/ AddGathered
    <2>1. PICK n \in Nat : 1 <= n /\ n <= Left /\ AddsLanes(n) /\ AddedTo(n)
      BY <1>1, <1>9, RunLanes, GatheredLanes
    <2>2. /\ bp' = bp + n /\ UNCHANGED <<operands, row, ap, touched>>
          /\ pc \in {"vector", "gather"}
      BY <1>1, <1>9, <2>1 DEF AddedTo, AddRun, AddGathered, InVector
    <2>3. InA /\ UsesVector(a_col)
      BY <1>1, <2>2 DEF InGroup
    <2>4. \A q \in 1 .. Len(BRow) : BRow[q][1] \in Range(touched)
      BY <2>2, <2>3 DEF Marks
    <2>5. \A i \in bp .. bp + n - 1 : i \in 1 .. Len(BRow)
      <3>1. Len(BRow) \in Nat /\ Left = Len(BRow) - bp + 1
        BY <2>2, <2>3, Here DEF Numeric
      <3>2. QED
        BY <1>1, <2>1, <3>1
    <2>6. QED
      BY <2>1, <2>2, <2>3, <2>4, <2>5, SumsGain DEF Numeric
  <1>10. CASE GatherRest \/ AddSpan \/ Resting
    <2>1. /\ UNCHANGED <<operands, row, ap, bp, touched, acc>>
          /\ Numeric' => Numeric
      BY <1>1, <1>10 DEF GatherRest, AddSpan, InVector, Resting, loops, work, Numeric
    <2>2. Passed' = Passed
      <3>1. Passed' = Passed \cup ({ap} \X (bp .. bp + 0 - 1))
        BY <1>1, <2>1, SomeMorePassed
      <3>2. bp .. bp + 0 - 1 = {}
        BY <1>1
      <3>3. QED
        BY <3>1, <3>2
    <2>3. CASE Numeric /\ row < a_rows
      BY <2>1, <2>2, <2>3, SumsStay
    <2>4. CASE ~(Numeric /\ row < a_rows)
      BY <2>1, <2>4 DEF Sums
    <2>5. QED
      BY <2>3, <2>4
  <1>11. QED
    BY <1>2, <1>3, <1>4, <1>5, <1>6, <1>7, <1>8, <1>9, <1>10, NextIs

LEMMA InitSums == Init => Sums
  BY DEF Init, Sums, Numeric

-------------------------------------------------------------------------------
(* What is written *)

\* The columns of row r of the product.
ColumnsOut(r) == Ascending({c \in Cols : ProductAt(r, c) # 0})

LEMMA SameProduct ==
    ASSUME UNCHANGED operands
    PROVE  /\ \A r, c : ProductAt(r, c)' = ProductAt(r, c)
           /\ \A r : ColumnsOut(r)' = ColumnsOut(r)
  <1>1. A' = A /\ B' = B
    BY DEF operands
  <1>2. \A r : Products(r)' = Products(r) /\ Entries(r)' = Entries(r)
    BY <1>1 DEF Products, Entries
  <1>3. \A r, c : {e \in Entries(r) : Column(r, e) = c}' = {e \in Entries(r) : Column(r, e) = c}
    BY <1>1, <1>2 DEF Column
  <1>4. \A r, c : ProductAt(r, c)' = ProductAt(r, c)
    BY <1>2, <1>3 DEF ProductAt
  <1>5. \A r : {c \in Cols : ProductAt(r, c) # 0}' = {c \in Cols : ProductAt(r, c) # 0}
    BY <1>4
  <1>6. \A r : ColumnsOut(r)' = ColumnsOut(r)
    BY <1>5 DEF ColumnsOut
  <1>7. QED
    BY <1>4, <1>6

LEMMA ReturnedNext ==
    ASSUME UNCHANGED operands, NEW r,
           c_row_ptr'[r + 1] = c_row_ptr'[r] + Len(ColumnsOut(r)),
           \A n \in 1 .. Len(ColumnsOut(r)) :
               /\ c_col_idx'[c_row_ptr'[r] + n - 1] = ColumnsOut(r)[n]
               /\ c_values'[c_row_ptr'[r] + n - 1] = ProductAt(r, ColumnsOut(r)[n])
    PROVE  RowReturned(r)'
  <1>1. ColumnsOut(r)' = ColumnsOut(r) /\ \A c : ProductAt(r, c)' = ProductAt(r, c)
    BY SameProduct
  <1>2. RowReturned(r)' <=>
          /\ c_row_ptr'[r + 1] = c_row_ptr'[r] + Len(ColumnsOut(r)')
          /\ \A n \in 1 .. Len(ColumnsOut(r)') :
               /\ c_col_idx'[c_row_ptr'[r] + n - 1] = ColumnsOut(r)'[n]
               /\ c_values'[c_row_ptr'[r] + n - 1] = ProductAt(r, ColumnsOut(r)[n])'
    BY DEF RowReturned, ColumnsOut
  <1>3. \A n : ProductAt(r, ColumnsOut(r)[n])' = ProductAt(r, ColumnsOut(r)[n])
    <2>1. Products(r)' = Products(r) /\ Entries(r)' = Entries(r)
      BY DEF Products, Entries, operands
    <2>2. \A n : {e \in Entries(r) : Column(r, e) = ColumnsOut(r)[n]}'
                  = {e \in Entries(r) : Column(r, e) = ColumnsOut(r)[n]}
      BY <1>1, <2>1 DEF Column, operands
    <2>3. QED
      BY <2>1, <2>2 DEF ProductAt
  <1>4. QED
    BY <1>1, <1>2, <1>3

\* Between two writes the rows returned stay.
LEMMA WrittenStays ==
    ASSUME Written, Numeric \/ status = "SUCCESS", UNCHANGED <<operands, row, output>>
    PROVE  Written'
  <1>1. UNCHANGED <<total, c_row_ptr, c_col_idx, c_values>>
    BY DEF output
  <1>2. ASSUME NEW r, RowReturned(r)
        PROVE  RowReturned(r)'
    <2>1. /\ c_row_ptr[r + 1] = c_row_ptr[r] + Len(ColumnsOut(r))
          /\ \A n \in 1 .. Len(ColumnsOut(r)) :
               /\ c_col_idx[c_row_ptr[r] + n - 1] = ColumnsOut(r)[n]
               /\ c_values[c_row_ptr[r] + n - 1] = ProductAt(r, ColumnsOut(r)[n])
      BY <1>2 DEF RowReturned, ColumnsOut
    <2>2. QED
      BY <1>1, <2>1, ReturnedNext
  <1>3. Slots' = Slots
    BY <1>1 DEF Slots
  <1>4. QED
    BY <1>1, <1>2, <1>3 DEF Written

\* When the loops are through with a row, its sums are the row of the product.
LEMMA RowSummed ==
    ASSUME Place, Marks, Sums, pc = "numeric", row < a_rows, ~InA
    PROVE  /\ row \in Rows /\ ColumnsOut(row) = Kept
           /\ \A n \in 1 .. Len(Kept) : ProductAt(row, Kept[n]) = acc[Kept[n]]
  <1>1. row \in Rows /\ OperandsFit /\ RowClean(row) /\ Len(A[row]) \in Nat /\ ap \in Nat
    BY PassedFit, RowFacts DEF Numeric, Place, LoopTypes
  <1>2. ap = Len(A[row]) + 1 /\ bp = 1
    BY <1>1 DEF Place, Looking, InGroup, Numeric, InA
  <1>3. Passed = Entries(row)
    BY <1>1, <1>2, AllPassed
  <1>4. \A c \in Cols : ProductAt(row, c) = IF c \in Range(touched) THEN acc[c] ELSE 0
    BY <1>3 DEF Sums, SumPassed, ProductAt, Numeric
  <1>5. Range(touched) \subseteq Cols
    BY DistinctCount DEF Marks, Marked
  <1> DEFINE S == {c \in Range(touched) : acc[c] # 0}
  <1>6. {c \in Cols : ProductAt(row, c) # 0} = S
    BY <1>4, <1>5
  <1>7. ColumnsOut(row) = Kept
    BY <1>6 DEF ColumnsOut, Kept
  <1>8. S \in SUBSET Cols /\ Kept = Ascending(S)
    BY <1>5 DEF Kept
  <1>9. \A n \in 1 .. Len(Kept) : Kept[n] \in S
    <2> HIDE DEF S
    <2>1. QED
      BY <1>8, AscendingFacts
  <1>10. QED
    BY <1>1, <1>4, <1>5, <1>7, <1>9

LEMMA Position ==
    ASSUME NEW first \in Nat, NEW k \in Nat, NEW n \in 1 .. k
    PROVE  /\ first + n - 1 \in Nat /\ first + n - 1 < first + k
           /\ first + n - 1 \in first .. first + k - 1
           /\ (first + n - 1) - first + 1 = n
  OBVIOUS

LEMMA EmitWrites ==
    ASSUME Place, Marks, Counts, Sums, Written, UNCHANGED operands, Emitting
    PROVE  Written'
  <1>1. /\ pc = "numeric" /\ row < a_rows /\ ~InA /\ row' = row + 1
        /\ c_col_idx' = [i \in DOMAIN c_col_idx |->
               IF i \in c_row_ptr[row] .. End - 1 THEN Kept[i - c_row_ptr[row] + 1]
                                                  ELSE c_col_idx[i]]
        /\ c_values' = [i \in DOMAIN c_values |->
               IF i \in c_row_ptr[row] .. End - 1 THEN acc[Kept[i - c_row_ptr[row] + 1]]
                                                  ELSE c_values[i]]
        /\ c_row_ptr' = [c_row_ptr EXCEPT ![row + 1] = End]
        /\ total' = total /\ row \in Nat
    BY DEF Emitting, NextRow, Place, LoopTypes
  <1>2. /\ Len(Kept) \in Nat /\ Len(Kept) <= Len(touched) /\ Len(touched) \in Nat
        /\ Len(touched) <= Cardinality(ColumnsIn(row)) /\ Cardinality(ColumnsIn(row)) \in Nat
        /\ EntriesBefore(row + 1) = EntriesBefore(row) + Cardinality(ColumnsIn(row))
        /\ row \in Rows /\ row + 1 \in 0 .. a_rows /\ row \in 0 .. a_rows
        /\ EntriesBefore(row) \in Nat
    BY <1>1, KeptFits DEF Numeric
  <1>3. /\ total = EntriesBefore(a_rows) /\ c_row_ptr[row] <= EntriesBefore(row)
        /\ c_row_ptr \in [0 .. a_rows -> Nat] /\ total \in Nat
    BY <1>1 DEF Counts, Numeric
  <1>4. EntriesBefore(row + 1) <= EntriesBefore(a_rows) /\ EntriesBefore(row) <= EntriesBefore(a_rows)
    <2>1. a_rows \in 0 .. a_rows /\ row + 1 <= a_rows /\ row <= a_rows
      BY <1>2, Shape
    <2>2. QED
      BY <1>2, <2>1, EntriesBeforeCounts
  <1>5. /\ c_row_ptr[row] \in Nat /\ End \in Nat /\ End = c_row_ptr[row] + Len(Kept)
        /\ c_row_ptr[row] <= End /\ End <= total /\ c_row_ptr[row] <= total
    BY <1>2, <1>3, <1>4 DEF End
  <1>6. /\ DOMAIN c_col_idx = Slots /\ DOMAIN c_values = Slots /\ c_row_ptr[0] = 0
        /\ \A r \in Rows : r < row => RowReturned(r) /\ c_row_ptr[r + 1] <= c_row_ptr[row]
    BY <1>1 DEF Written, Numeric
  <1>7. Slots' = Slots /\ \A i \in Nat : i < total => i \in Slots
    BY <1>1, <1>3 DEF Slots
  <1>8. DOMAIN c_col_idx' = Slots' /\ DOMAIN c_values' = Slots'
    BY <1>1, <1>6, <1>7
  <1>9. /\ c_row_ptr'[row + 1] = End
        /\ \A r \in 0 .. a_rows : r # row + 1 => c_row_ptr'[r] = c_row_ptr[r]
    BY <1>1, <1>2, <1>3
  <1>10. c_row_ptr'[0] = 0
    <2>1. 0 \in 0 .. a_rows /\ 0 # row + 1
      BY <1>1, Shape
    <2>2. QED
      BY <1>6, <1>9, <2>1
  <1>11. ASSUME NEW r \in Rows, r < row
         PROVE  RowReturned(r)' /\ c_row_ptr'[r + 1] <= c_row_ptr'[row + 1]
    <2>1. /\ r \in Nat /\ r \in 0 .. a_rows /\ r + 1 \in 0 .. a_rows
          /\ r # row + 1 /\ r + 1 # row + 1
      BY <1>1, <1>11, Shape DEF Rows
    <2>2. c_row_ptr'[r] = c_row_ptr[r] /\ c_row_ptr'[r + 1] = c_row_ptr[r + 1]
      BY <1>9, <2>1
    <2>3. /\ c_row_ptr[r + 1] = c_row_ptr[r] + Len(ColumnsOut(r))
          /\ \A n \in 1 .. Len(ColumnsOut(r)) :
               /\ c_col_idx[c_row_ptr[r] + n - 1] = ColumnsOut(r)[n]
               /\ c_values[c_row_ptr[r] + n - 1] = ProductAt(r, ColumnsOut(r)[n])
          /\ c_row_ptr[r + 1] <= c_row_ptr[row]
      BY <1>6, <1>11 DEF RowReturned, ColumnsOut
    <2>4. Len(ColumnsOut(r)) \in Nat /\ c_row_ptr[r] \in Nat /\ c_row_ptr[r + 1] \in Nat
      BY <1>3, <2>1, AscendingFacts DEF ColumnsOut
    <2>5. ASSUME NEW n \in 1 .. Len(ColumnsOut(r))
          PROVE  /\ c_col_idx'[c_row_ptr[r] + n - 1] = c_col_idx[c_row_ptr[r] + n - 1]
                 /\ c_values'[c_row_ptr[r] + n - 1] = c_values[c_row_ptr[r] + n - 1]
      <3>1. /\ c_row_ptr[r] + n - 1 \in Nat /\ c_row_ptr[r] + n - 1 < c_row_ptr[row]
        <4>1. /\ c_row_ptr[r] + n - 1 \in Nat
              /\ c_row_ptr[r] + n - 1 < c_row_ptr[r] + Len(ColumnsOut(r))
          BY <2>4, Position
        <4>2. c_row_ptr[r] + n - 1 < c_row_ptr[r + 1] /\ c_row_ptr[r + 1] <= c_row_ptr[row]
          BY <2>3, <4>1
        <4>3. QED
          BY <1>5, <2>4, <4>1, <4>2
      <3>2. c_row_ptr[r] + n - 1 \in Slots /\ c_row_ptr[r] + n - 1 \notin c_row_ptr[row] .. End - 1
        BY <1>3, <1>5, <1>7, <3>1
      <3>3. QED
        BY <1>1, <1>6, <3>2
    <2>6. c_row_ptr'[r + 1] <= c_row_ptr'[row + 1]
      BY <1>5, <1>9, <2>2, <2>3, <2>4
    <2>7. QED
      BY <2>2, <2>3, <2>5, <2>6, ReturnedNext
  <1>12. \A r : r = row => RowReturned(r)'
    <2>1. /\ ColumnsOut(row) = Kept
          /\ \A n \in 1 .. Len(Kept) : ProductAt(row, Kept[n]) = acc[Kept[n]]
      BY <1>1, RowSummed
    <2>2. c_row_ptr'[row] = c_row_ptr[row]
      BY <1>1, <1>2, <1>9
    <2>3. c_row_ptr'[row + 1] = c_row_ptr'[row] + Len(ColumnsOut(row))
      BY <1>5, <1>9, <2>1, <2>2
    <2>4. ASSUME NEW n \in 1 .. Len(Kept)
          PROVE  /\ c_col_idx'[c_row_ptr[row] + n - 1] = Kept[n]
                 /\ c_values'[c_row_ptr[row] + n - 1] = acc[Kept[n]]
      <3> DEFINE i == c_row_ptr[row] + n - 1
      <3>1. i \in c_row_ptr[row] .. End - 1 /\ i - c_row_ptr[row] + 1 = n /\ i \in Nat /\ i < total
        <4>1. /\ i \in Nat /\ i < End /\ i \in c_row_ptr[row] .. End - 1
              /\ i - c_row_ptr[row] + 1 = n
          <5>1. /\ i \in Nat /\ i < c_row_ptr[row] + Len(Kept)
                /\ i \in c_row_ptr[row] .. c_row_ptr[row] + Len(Kept) - 1
                /\ i - c_row_ptr[row] + 1 = n
            BY <1>2, <1>5, Position
          <5> HIDE DEF i
          <5>2. QED
            BY <1>5, <5>1
        <4> HIDE DEF i
        <4>2. i < total
          BY <1>3, <1>5, <4>1
        <4>3. QED
          BY <4>1, <4>2
      <3>2. i \in Slots
        BY <1>7, <3>1
      <3> HIDE DEF i
      <3>3. c_col_idx'[i] = Kept[n] /\ c_values'[i] = acc[Kept[n]]
        BY <1>1, <1>6, <3>1, <3>2
      <3>4. QED
        BY <3>3 DEF i
    <2>5. QED
      BY <2>1, <2>2, <2>3, <2>4, ReturnedNext
  <1>13. \A r \in Rows : r < row + 1 =>
            RowReturned(r)' /\ c_row_ptr'[r + 1] <= c_row_ptr'[row + 1]
    <2>1. \A r \in Rows : r < row + 1 => r < row \/ r = row
      BY <1>1, Shape DEF Rows
    <2>2. c_row_ptr'[row + 1] <= c_row_ptr'[row + 1]
      BY <1>5, <1>9
    <2>3. QED
      BY <1>11, <1>12, <2>1, <2>2
  <1>14. QED
    BY <1>1, <1>8, <1>10, <1>13 DEF Written

LEMMA WrittenStep ==
    ASSUME Place, Marks, Counts, Sums, Written, [Next]_vars
    PROVE  Written'
  <1>1. /\ UNCHANGED operands /\ A' = A /\ B' = B /\ LoopTypes
        /\ status = "running" <=> pc # "returned"
    BY FixedOperands DEF Place, LoopTypes, operands
  <1>2. CASE Failing
    <2>1. pc' = "returned" /\ status' # "SUCCESS"
      BY <1>2 DEF Failing, Errors
    <2>2. QED
      BY <2>1 DEF Written, Numeric
  <1>3. CASE Starting \/ Flagging \/ FlagsDone \/ CountingEntry \/ CountNext \/ CountRow
             \/ StartPrefix \/ PrefixRow
    <2>1. /\ pc \in {"start", "flags", "count", "prefix"}
          /\ pc' \in {"flags", "count", "prefix"} /\ status' = status
      BY <1>3 DEF Starting, Flagging, FlagsDone, CountingEntry, CountNext, CountRow, StartPrefix,
         PrefixRow, Goto, NextRow, NextEntry, Counting
    <2>2. QED
      BY <1>1, <2>1 DEF Written, Numeric
  <1>4. CASE Allocating
    <2>1. /\ pc = "prefix" /\ row = a_rows /\ row' = 0 /\ total' = total
          /\ c_row_ptr' = [c_row_ptr EXCEPT ![a_rows] = running]
          /\ DOMAIN c_col_idx' = 0 .. (IF total > 0 THEN total ELSE 1) - 1
          /\ DOMAIN c_values' = 0 .. (IF total > 0 THEN total ELSE 1) - 1
      BY <1>4 DEF Allocating, Goto
    <2>2. 0 \in Rows /\ 0 < a_rows /\ \A r \in Rows : ~(r < 0)
      BY Shape DEF Rows
    <2>3. c_row_ptr[0] = 0 /\ c_row_ptr \in [0 .. a_rows -> Nat]
      BY <2>1, <2>2, EntriesBeforeCounts DEF Counts
    <2>4. c_row_ptr'[0] = 0
      BY <2>1, <2>2, <2>3, Shape
    <2>5. Slots' = 0 .. (IF total > 0 THEN total ELSE 1) - 1
      BY <2>1 DEF Slots
    <2>6. QED
      BY <2>1, <2>2, <2>4, <2>5 DEF Written
  <1>5. CASE Emitting
    BY <1>1, <1>5, EmitWrites
  <1>6. CASE Marking \/ AddEntry \/ NumericNext \/ AddRun \/ AddGathered \/ GatherRest \/ AddSpan
             \/ Return
    <2>1. Numeric /\ UNCHANGED <<row, output>>
      BY <1>6 DEF Marking, AddEntry, NumericNext, NextEntry, AddRun, AddGathered, AddedTo,
         GatherRest, AddSpan, InVector, Numeric, loops, Return
    <2>2. QED
      BY <1>1, <2>1, WrittenStays
  <1>7. CASE Resting
    <2>1. UNCHANGED <<operands, row, output, pc, status>>
      BY <1>7 DEF Resting, loops
    <2>2. CASE Numeric \/ status = "SUCCESS"
      BY <2>1, <2>2, WrittenStays
    <2>3. CASE ~(Numeric \/ status = "SUCCESS")
      BY <2>1, <2>3 DEF Written, Numeric
    <2>4. QED
      BY <2>2, <2>3
  <1>8. QED
    BY <1>2, <1>3, <1>4, <1>5, <1>6, <1>7, NextIs

LEMMA InitWritten == Init => Written
  BY DEF Init, Written, Numeric

\* A successful call returns the product: every row in the order of its columns,
\* every sum right whichever loops added it, in whatever order the lanes of a
\* scatter land, and no zero stored.
THEOREM ProductIsReturned == Spec => []ReturnsProduct
  <1> DEFINE IInv == Place /\ Marks /\ Counts /\ Sums /\ Written
  <1>1. Init => IInv
    BY InitPlace, InitMarks, InitCounts, InitSums, InitWritten
  <1>2. IInv /\ [Next]_vars => IInv'
    BY PlaceStep, MarksStep, CountsStep, SumsStep, WrittenStep
  <1>3. IInv => ReturnsProduct
    <2>1. Place => (status = "SUCCESS" => row = a_rows)
      BY DEF Place, LoopTypes
    <2>2. \A r \in Rows : r < a_rows
      BY Shape DEF Rows
    <2>3. QED
      BY <2>1, <2>2 DEF Written, ReturnsProduct
  <1>4. QED
    BY <1>1, <1>2, <1>3, PTL DEF Spec

-------------------------------------------------------------------------------
(* The form of the result *)

LEMMA AscendingOrder ==
    ASSUME NEW S \in SUBSET Cols
    PROVE  \A m, n \in 1 .. Cardinality(S) : m < n => Ascending(S)[m] < Ascending(S)[n]
  <1> SUFFICES ASSUME NEW m \in 1 .. Cardinality(S), NEW n \in 1 .. Cardinality(S), m < n
               PROVE  Ascending(S)[m] < Ascending(S)[n]
    OBVIOUS
  <1>1. Cardinality(S) \in Nat
    BY AscendingFacts
  <1>2. Ascending(S) = [i \in 1 .. Cardinality(S) |-> CHOOSE c \in S : Rank(S, c) = i - 1]
    BY DEF Ascending, Rank
  <1>3. m - 1 \in 0 .. Cardinality(S) - 1 /\ n - 1 \in 0 .. Cardinality(S) - 1
    BY <1>1
  <1>4. \A i \in 0 .. Cardinality(S) - 1 : \E c \in S : Rank(S, c) = i
    BY Ranks
  <1>5. /\ Ascending(S)[m] \in S /\ Rank(S, Ascending(S)[m]) = m - 1
        /\ Ascending(S)[n] \in S /\ Rank(S, Ascending(S)[n]) = n - 1
    BY <1>2, <1>3, <1>4
  <1>6. ASSUME NEW c \in S, NEW d \in S, Rank(S, c) = m - 1, Rank(S, d) = n - 1
        PROVE  c < d
    <2>1. c \in Nat /\ d \in Nat
      BY Shape
    <2>2. ~(d < c)
      <3>1. d < c => Rank(S, d) < Rank(S, c)
        BY Ranks
      <3>2. QED
        BY <1>1, <1>6, <3>1
    <2>3. c # d
      BY <1>1, <1>6
    <2>4. QED
      BY <2>1, <2>2, <2>3
  <1>7. QED
    BY <1>5, <1>6

\* The rows of C follow each other, and each is in the strict order of its
\* columns, all of them columns of B, with no value that is zero.
CanonicalRows ==
    status = "SUCCESS" =>
        /\ c_row_ptr[0] = 0
        /\ \A r \in Rows :
            /\ c_row_ptr[r] <= c_row_ptr[r + 1]
            /\ \A i \in c_row_ptr[r] .. c_row_ptr[r + 1] - 1 :
                c_col_idx[i] \in Cols /\ c_values[i] # 0
            /\ \A i, j \in c_row_ptr[r] .. c_row_ptr[r + 1] - 1 :
                i < j => c_col_idx[i] < c_col_idx[j]

\* A successful call of an older kernel returns C in the form that bench/csr_check.c
\* asks of an operand, whatever the order and the duplicates in its own operands.
THEOREM RowsAreCanonical == Spec => []CanonicalRows
  <1>1. Init => Place /\ Marks /\ Counts
    BY InitPlace, InitMarks, InitCounts
  <1>2. Place /\ Marks /\ Counts /\ [Next]_vars => Place' /\ Marks' /\ Counts'
    BY PlaceStep, MarksStep, CountsStep
  <1>3. ReturnsProduct /\ Counts => CanonicalRows
    <2> SUFFICES ASSUME ReturnsProduct, Counts, status = "SUCCESS", NEW r \in Rows
                 PROVE  /\ c_row_ptr[r] <= c_row_ptr[r + 1]
                        /\ \A i \in c_row_ptr[r] .. c_row_ptr[r + 1] - 1 :
                             c_col_idx[i] \in Cols /\ c_values[i] # 0
                        /\ \A i, j \in c_row_ptr[r] .. c_row_ptr[r + 1] - 1 :
                             i < j => c_col_idx[i] < c_col_idx[j]
      BY DEF CanonicalRows, ReturnsProduct
    <2> DEFINE S == {c \in Cols : ProductAt(r, c) # 0}
               first == c_row_ptr[r]
    <2>1. first \in Nat
      BY Shape DEF Counts, Rows
    <2>2. S \in SUBSET Cols /\ ColumnsOut(r) = Ascending(S) /\ \A c \in S : ProductAt(r, c) # 0
      BY DEF ColumnsOut
    <2>3. /\ c_row_ptr[r + 1] = first + Len(ColumnsOut(r))
          /\ \A n \in 1 .. Len(ColumnsOut(r)) :
               /\ c_col_idx[first + n - 1] = ColumnsOut(r)[n]
               /\ c_values[first + n - 1] = ProductAt(r, ColumnsOut(r)[n])
      BY DEF ReturnsProduct, RowReturned, ColumnsOut
    <2> HIDE DEF S
    <2>4. /\ Len(ColumnsOut(r)) = Cardinality(S) /\ Cardinality(S) \in Nat
          /\ \A n \in 1 .. Cardinality(S) : ColumnsOut(r)[n] \in S
          /\ \A m, n \in 1 .. Cardinality(S) :
               m < n => ColumnsOut(r)[m] < ColumnsOut(r)[n]
      BY <2>2, AscendingFacts, AscendingOrder
    <2> HIDE DEF first
    <2>5. ASSUME NEW i \in first .. c_row_ptr[r + 1] - 1
          PROVE  /\ i - first + 1 \in 1 .. Cardinality(S) /\ i \in Int
                 /\ c_col_idx[i] = ColumnsOut(r)[i - first + 1]
                 /\ c_values[i] = ProductAt(r, ColumnsOut(r)[i - first + 1])
      <3>1. i - first + 1 \in 1 .. Cardinality(S) /\ i = first + (i - first + 1) - 1 /\ i \in Int
        BY <2>1, <2>3, <2>4
      <3>2. QED
        BY <2>3, <2>4, <3>1
    <2>6. \A i \in first .. c_row_ptr[r + 1] - 1 : c_col_idx[i] \in Cols /\ c_values[i] # 0
      BY <2>2, <2>4, <2>5
    <2>7. \A i, j \in first .. c_row_ptr[r + 1] - 1 : i < j => c_col_idx[i] < c_col_idx[j]
      <3>1. \A i, j \in first .. c_row_ptr[r + 1] - 1 : i < j => i - first + 1 < j - first + 1
        BY <2>1, <2>5
      <3>2. QED
        BY <2>4, <2>5, <3>1
    <2>8. first <= c_row_ptr[r + 1]
      BY <2>1, <2>3, <2>4
    <2>9. QED
      BY <2>6, <2>7, <2>8 DEF first
  <1>4. QED
    BY <1>1, <1>2, <1>3, ProductIsReturned, PTL DEF Spec

===============================================================================
