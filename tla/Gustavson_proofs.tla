---------------------------- MODULE Gustavson_proofs ----------------------------
(***************************************************************************)
(* Proofs about a run of a SpGEMM kernel, for operands of every shape and  *)
(* with any rows, sorted or not.                                           *)
(*                                                                         *)
(* The invariant ties each scratch array to the part of the row that the   *)
(* loops have passed, and the counts to the number of entries the rows     *)
(* before this one have in the product.                                    *)
(***************************************************************************)
EXTENDS Gustavson, FiniteSetTheorems, TLAPS

Types ==
    /\ A \in [Rows -> LeftRows] /\ B \in [0 .. a_cols - 1 -> RightRows]
    /\ pc \in {"start", "count", "prefix", "fill", "numeric", "done", "failed"}
    /\ row \in 0 .. a_rows
    /\ ap \in Nat /\ ap >= 1 /\ bp \in Nat /\ bp >= 1 /\ ops \in Nat
    /\ mark \in [Cols -> {0, 1, Junk}]
    /\ touched \in Seq(Cols)
    /\ op_counts \in [Rows -> Nat \cup {Junk}]
    /\ c_row_ptr \in [0 .. a_rows -> Nat]
    /\ total \in Nat /\ running \in Nat
    /\ c_col_idx \in [DOMAIN c_col_idx -> Cols \cup {Junk}]
    /\ c_values \in [DOMAIN c_values -> Seq((Nat \X Nat)) \cup {Junk}]
    /\ acc \in [Cols -> Seq((Nat \X Nat)) \cup {Junk}]
    /\ pc # "start" => acc \in [Cols -> Seq(Nat \X Nat)]

HeapInv ==
    /\ pc = "start" => heap = {}
    /\ pc \in {"count", "prefix"} => heap = {"c_row_ptr"}
    /\ pc \in {"fill", "numeric"} => heap = {"c_row_ptr", "c_col_idx", "c_values"}
    /\ pc # "done" => given = {}
    /\ HeapOnReturn

MarkInv ==
    /\ pc \notin {"count", "fill"} => touched = <<>>
    /\ MarksMatchRow
    /\ pc \in {"prefix", "numeric", "done", "failed"} => \A c \in Cols : mark[c] = 0

\* The entries of the rows of B that the count has added up.
CountedEntries == {e \in Entries(row) : e[1] < ap}

CountInv ==
    /\ pc = "start" => total = 0 /\ running = 0 /\ ops = 0
    /\ pc = "count" =>
         /\ running = 0 /\ total <= MaxNnz
         /\ InRow => IsFiniteSet(CountedEntries) /\ ops = Cardinality(CountedEntries)
         /\ ~InRow => ops = 0
    /\ CountsRows

Slots == 0 .. (IF total > 0 THEN total ELSE 1) - 1

FillInv ==
    /\ pc \in {"fill", "numeric", "done"} => DOMAIN c_col_idx = Slots /\ DOMAIN c_values = Slots
    /\ FillsRows

SumInv ==
    /\ pc \in {"count", "prefix", "fill", "done", "failed"} => \A c \in Cols : acc[c] = <<>>
    /\ SumsRow
    /\ pc = "done" => \A r \in Rows : RowSummed(r)

Inv == Types /\ HeapInv /\ MarkInv /\ CountInv /\ FillInv /\ SumInv

-------------------------------------------------------------------------------
(* Sequences of distinct columns *)

LEMMA Shape ==
    /\ a_rows \in Nat /\ a_rows >= 1 /\ a_cols \in Nat /\ a_cols >= 1
    /\ b_cols \in Nat /\ b_cols >= 1 /\ MaxNnz \in Nat
    /\ IsFiniteSet(Cols) /\ Cardinality(Cols) = b_cols
    /\ Cols \subseteq Nat
  <1>1. /\ a_rows \in Nat /\ a_rows >= 1 /\ a_cols \in Nat /\ a_cols >= 1
        /\ b_cols \in Nat /\ b_cols >= 1 /\ MaxNnz \in Nat
    BY ShapeAssumption
  <1>2. IsFiniteSet(Cols) /\ Cardinality(Cols) = b_cols
    BY <1>1, FS_Interval DEF Cols
  <1>3. QED
    BY <1>1, <1>2 DEF Cols

LEMMA DistinctCount ==
    ASSUME NEW s \in Seq(Cols), IsInjective(s)
    PROVE  /\ Range(s) \subseteq Cols /\ IsFiniteSet(Range(s))
           /\ Cardinality(Range(s)) = Len(s)
  <1>1. Len(s) \in Nat /\ DOMAIN s = 1 .. Len(s)
    OBVIOUS
  <1>2. Range(s) \subseteq Cols
    BY <1>1 DEF Range
  <1>3. s \in Bijection(1 .. Len(s), Range(s))
    BY <1>1 DEF IsInjective, Range, Bijection, Injection, Surjection
  <1>4. ExistsBijection(1 .. Len(s), Range(s))
    BY <1>3 DEF ExistsBijection
  <1>5. IsFiniteSet(1 .. Len(s)) /\ Cardinality(1 .. Len(s)) = Len(s)
    BY <1>1, FS_Interval
  <1>6. QED
    BY <1>2, <1>4, <1>5, FS_Bijection

\* Distinct columns out of n different ones are at most n.
LEMMA DistinctFit ==
    ASSUME NEW s \in Seq(Cols), IsInjective(s), NEW S \in SUBSET Cols, Range(s) \subseteq S
    PROVE  /\ Len(s) <= Cardinality(S)
           /\ \A c \in S : c \notin Range(s) => Len(s) + 1 <= Cardinality(S)
  <1>1. IsFiniteSet(S) /\ IsFiniteSet(Range(s)) /\ Cardinality(Range(s)) = Len(s)
    BY Shape, FS_Subset, DistinctCount
  <1>2. Len(s) <= Cardinality(S)
    BY <1>1, FS_Subset
  <1>3. ASSUME NEW c \in S, c \notin Range(s)
        PROVE  Len(s) + 1 <= Cardinality(S)
    <2>1. IsFiniteSet(Range(s) \cup {c}) /\ Cardinality(Range(s) \cup {c}) = Len(s) + 1
      BY <1>1, <1>3, FS_AddElement
    <2>2. QED
      BY <1>1, <2>1, FS_Subset
  <1>4. QED
    BY <1>2, <1>3

\* One more column that was not among them.
LEMMA AppendDistinct ==
    ASSUME NEW s \in Seq(Cols), IsInjective(s), NEW c \in Cols, c \notin Range(s)
    PROVE  /\ Append(s, c) \in Seq(Cols) /\ IsInjective(Append(s, c))
           /\ Range(Append(s, c)) = Range(s) \cup {c}
           /\ Len(Append(s, c)) = Len(s) + 1
           /\ \A n \in 1 .. Len(s) + 1 : Append(s, c)[n] = IF n <= Len(s) THEN s[n] ELSE c
  <1> DEFINE t == Append(s, c)
  <1>1. /\ t \in Seq(Cols) /\ Len(t) = Len(s) + 1 /\ DOMAIN t = 1 .. Len(s) + 1
        /\ Len(s) \in Nat /\ DOMAIN s = 1 .. Len(s)
        /\ \A n \in 1 .. Len(s) + 1 : t[n] = IF n <= Len(s) THEN s[n] ELSE c
    OBVIOUS
  <1> HIDE DEF t
  <1>2. IsInjective(t)
    BY <1>1 DEF IsInjective, Range
  <1>3. Range(t) = Range(s) \cup {c}
    <2>1. t[Len(s) + 1] = c /\ Len(s) + 1 \in DOMAIN t
      BY <1>1
    <2>2. \A n \in DOMAIN s : n \in DOMAIN t /\ t[n] = s[n]
      BY <1>1
    <2>3. \A n \in DOMAIN t : t[n] \in Range(s) \cup {c}
      BY <1>1 DEF Range
    <2>4. QED
      BY <2>1, <2>2, <2>3 DEF Range
  <1>4. QED
    BY <1>1, <1>2, <1>3 DEF t

\* The rank of a column among those of a set.
Rank(S, c) == Cardinality({d \in S : d < c})

\* Every place in a finite set of columns is taken by one column, and larger
\* places by larger columns.
LEMMA Ranks ==
    ASSUME NEW S \in SUBSET Cols
    PROVE  /\ \A c, d \in S : c < d => Rank(S, c) < Rank(S, d)
           /\ \A n \in 0 .. Cardinality(S) - 1 : \E c \in S : Rank(S, c) = n
           /\ \A c \in S : Rank(S, c) \in 0 .. Cardinality(S) - 1
  <1>1. IsFiniteSet(S) /\ Cardinality(S) \in Nat /\ S \subseteq Nat
    BY Shape, FS_Subset, FS_CardinalityType
  <1>2. ASSUME NEW c \in S
        PROVE  IsFiniteSet({d \in S : d < c}) /\ Rank(S, c) \in Nat /\ Rank(S, c) < Cardinality(S)
    <2>1. IsFiniteSet({d \in S : d < c}) /\ Rank(S, c) <= Cardinality(S)
      BY <1>1, FS_Subset DEF Rank
    <2>2. Rank(S, c) \in Nat
      BY <2>1, FS_CardinalityType DEF Rank
    <2>3. c \in S /\ c \notin {d \in S : d < c}
      BY <1>1
    <2>4. Rank(S, c) # Cardinality(S)
      BY <1>1, <2>3, FS_Subset DEF Rank
    <2>5. QED
      BY <1>1, <2>1, <2>2, <2>4
  <1>r. \A c \in S : Rank(S, c) \in Nat /\ Rank(S, c) < Cardinality(S)
    BY ONLY <1>2
  <1>3. ASSUME NEW c \in S, NEW d \in S, c < d
        PROVE  Rank(S, c) < Rank(S, d)
    <2> DEFINE U == {x \in S : x < c}
               V == {x \in S : x < d}
    <2>1. U \in SUBSET V /\ c \in V /\ c \notin U
      <3>1. \A x \in S : x \in Nat
        BY <1>1
      <3>2. \A x \in S : x < c => x < d
        BY ONLY <1>3, <3>1
      <3>3. c \in V /\ c \notin U
        BY ONLY <1>3, <3>1
      <3>4. QED
        BY <3>2, <3>3
    <2>2. IsFiniteSet(V) /\ IsFiniteSet(U) /\ Rank(S, c) \in Nat /\ Rank(S, d) \in Nat
      BY <1>2
    <2>3. Rank(S, c) = Cardinality(U) /\ Rank(S, d) = Cardinality(V)
      BY DEF Rank
    <2> HIDE DEF U, V
    <2>4. Cardinality(U) <= Cardinality(V) /\ Cardinality(U) # Cardinality(V)
      BY <2>1, <2>2, FS_Subset
    <2>5. QED
      BY <2>2, <2>3, <2>4
  <1>4. ASSUME NEW n \in 0 .. Cardinality(S) - 1
        PROVE  \E c \in S : Rank(S, c) = n
    <2> DEFINE T == 0 .. Cardinality(S) - 1
               f == [c \in S |-> Rank(S, c)]
    <2>1. IsFiniteSet(T) /\ Cardinality(T) = Cardinality(S)
      BY <1>1, FS_Interval
    <2>2. f \in [S -> T] /\ \A c, d \in S : f[c] = f[d] => c = d
      <3>1. \A c \in S : Rank(S, c) \in T
        BY ONLY <1>1, <1>r
      <3>2. \A c, d \in S : Rank(S, c) = Rank(S, d) => c = d
        <4>1. \A c, d \in S : c < d => Rank(S, c) < Rank(S, d)
          BY <1>3
        <4>2. \A c \in S : c \in Nat
          BY <1>1
        <4>3. QED
          BY ONLY <1>r, <4>1, <4>2
      <3>3. QED
        BY <3>1, <3>2
    <2>3. f \in Injection(S, T)
      BY <2>2 DEF Injection, IsInjective
    <2> HIDE DEF T
    <2>4. f \in Surjection(S, T)
      BY <2>1, <2>3, FS_Injection
    <2>5. \E c \in S : f[c] = n
      BY <2>4 DEF Surjection, T
    <2>6. QED
      BY <2>5
  <1>5. \A c \in S : Rank(S, c) \in 0 .. Cardinality(S) - 1
    BY ONLY <1>1, <1>r
  <1>6. \A c, d \in S : c < d => Rank(S, c) < Rank(S, d)
    BY <1>3
  <1>7. QED
    BY <1>4, <1>5, <1>6

\* What the sort does to distinct columns.
LEMMA SortedColumns ==
    ASSUME NEW s \in Seq(Cols), IsInjective(s)
    PROVE  /\ Ascending(s) \in [1 .. Len(s) -> Range(s)]
           /\ \A i, j \in 1 .. Len(s) : i < j => Ascending(s)[i] < Ascending(s)[j]
           /\ Range(Ascending(s)) = Range(s)
  <1> DEFINE S == Range(s)
             t == Ascending(s)
  <1>1. S \in SUBSET Cols /\ Cardinality(S) = Len(s) /\ Len(s) \in Nat /\ DOMAIN s = 1 .. Len(s)
        /\ S \subseteq Nat
    <2>1. S \subseteq Cols /\ Cardinality(S) = Len(s)
      BY DistinctCount
    <2>2. Len(s) \in Nat /\ DOMAIN s = 1 .. Len(s)
      OBVIOUS
    <2>3. Cols \subseteq Nat
      BY Shape
    <2> HIDE DEF S
    <2>4. QED
      BY <2>1, <2>2, <2>3
  <1>2. t = [i \in 1 .. Len(s) |-> CHOOSE c \in S : Rank(S, c) = i - 1]
    BY <1>1 DEF Ascending, Rank
  <1> HIDE DEF S, t
  <1>3. ASSUME NEW i \in 1 .. Len(s)
        PROVE  t[i] \in S /\ Rank(S, t[i]) = i - 1
    <2>1. \E c \in S : Rank(S, c) = i - 1
      BY <1>1, Ranks
    <2>2. t[i] = CHOOSE c \in S : Rank(S, c) = i - 1
      BY <1>2
    <2>3. QED
      BY <2>1, <2>2
  <1>4. t \in [1 .. Len(s) -> S]
    BY <1>2, <1>3
  <1>5. \A c, d \in S : c < d => Rank(S, c) < Rank(S, d)
    BY <1>1, Ranks
  <1>6. ASSUME NEW i \in 1 .. Len(s), NEW j \in 1 .. Len(s), i < j
        PROVE  t[i] < t[j]
    <2>1. ~(t[j] < t[i]) /\ t[i] # t[j]
      <3>1. t[i] \in S /\ t[j] \in S /\ Rank(S, t[i]) = i - 1 /\ Rank(S, t[j]) = j - 1
        BY <1>3
      <3>2. i \in Int /\ j \in Int
        BY <1>1
      <3>3. QED
        BY <1>5, <1>6, <3>1, <3>2
    <2>2. t[i] \in Nat /\ t[j] \in Nat
      BY <1>1, <1>3
    <2>3. QED
      BY <2>1, <2>2
  <1>7. Range(t) = S
    <2>1. DOMAIN t = 1 .. Len(s)
      BY <1>2
    <2>2. ASSUME NEW c \in S
          PROVE  \E i \in 1 .. Len(s) : t[i] = c
      <3> DEFINE k == Rank(S, c)
                 i == k + 1
      <3>1. Rank(S, c) \in 0 .. Len(s) - 1
        BY <1>1, Ranks
      <3>2. i \in 1 .. Len(s) /\ i - 1 = k
        <4>1. k \in 0 .. Len(s) - 1 /\ Len(s) \in Nat
          BY <1>1, <3>1
        <4> HIDE DEF k
        <4>2. QED
          BY <4>1
      <3> HIDE DEF i
      <3>3. t[i] \in S /\ Rank(S, t[i]) = Rank(S, c)
        BY <1>3, <3>2
      <3>4. t[i] \in Nat /\ c \in Nat
        BY <1>1, <3>3
      <3>5. Rank(S, c) \in Int
        BY <3>1
      <3>6. t[i] = c
        BY <1>5, <3>3, <3>4, <3>5
      <3>7. QED
        BY <3>2, <3>6
    <2>3. QED
      BY <1>4, <2>1, <2>2 DEF Range
  <1>8. QED
    BY <1>4, <1>6, <1>7 DEF S, t

-------------------------------------------------------------------------------
(* The operands and the counts *)

LEMMA SeqFacts ==
    ASSUME NEW S, NEW s \in Seq(S)
    PROVE  Len(s) \in Nat /\ DOMAIN s = 1 .. Len(s) /\ \A n \in 1 .. Len(s) : s[n] \in S
  OBVIOUS

LEMMA RowFacts ==
    ASSUME Types, NEW r \in Rows
    PROVE  /\ r \in Nat /\ r + 1 \in 0 .. a_rows /\ r \in 0 .. a_rows
           /\ Len(A[r]) \in Nat /\ DOMAIN A[r] = 1 .. Len(A[r])
           /\ \A p \in 1 .. Len(A[r]) :
                /\ B[A[r][p]] \in Seq(Cols) /\ Len(B[A[r][p]]) \in Nat
                /\ DOMAIN B[A[r][p]] = 1 .. Len(B[A[r][p]])
                /\ \A q \in 1 .. Len(B[A[r][p]]) : B[A[r][p]][q] \in Cols
  <1>1. A[r] \in Seq(0 .. a_cols - 1)
    BY ShapeAssumption DEF Types
  <1>2. \A k \in 0 .. a_cols - 1 : B[k] \in Seq(Cols)
    BY ShapeAssumption DEF Types
  <1>3. Len(A[r]) \in Nat /\ DOMAIN A[r] = 1 .. Len(A[r])
        /\ \A p \in 1 .. Len(A[r]) : A[r][p] \in 0 .. a_cols - 1
    BY <1>1, SeqFacts
  <1>4. ASSUME NEW p \in 1 .. Len(A[r])
        PROVE  /\ B[A[r][p]] \in Seq(Cols) /\ Len(B[A[r][p]]) \in Nat
               /\ DOMAIN B[A[r][p]] = 1 .. Len(B[A[r][p]])
               /\ \A q \in 1 .. Len(B[A[r][p]]) : B[A[r][p]][q] \in Cols
    <2>1. B[A[r][p]] \in Seq(Cols)
      BY <1>2, <1>3
    <2>2. QED
      BY ONLY <2>1, SeqFacts
  <1>5. r \in Nat /\ r + 1 \in 0 .. a_rows /\ r \in 0 .. a_rows
    BY Shape DEF Rows
  <1>6. QED
    BY <1>3, <1>4, <1>5

\* The entries of row r are its places in A with the places in the row of B.
LEMMA EntriesAre ==
    ASSUME Types, NEW r \in Rows
    PROVE  \A e : e \in Entries(r) <=>
             \E p \in 1 .. Len(A[r]) : \E q \in 1 .. Len(B[A[r][p]]) : e = <<p, q>>
  <1>1. DOMAIN A[r] = 1 .. Len(A[r])
    BY RowFacts
  <1>2. \A p \in 1 .. Len(A[r]) : DOMAIN B[A[r][p]] = 1 .. Len(B[A[r][p]])
    BY RowFacts
  <1>3. ASSUME NEW e
        PROVE  e \in Entries(r) <=>
                 \E p \in DOMAIN A[r] : \E q \in DOMAIN B[A[r][p]] : e = <<p, q>>
    <2>1. e \in Entries(r) <=> \E p \in DOMAIN A[r] : e \in {p} \X DOMAIN B[A[r][p]]
      BY DEF Entries
    <2>2. ASSUME NEW p \in DOMAIN A[r]
          PROVE  e \in {p} \X DOMAIN B[A[r][p]] <=> \E q \in DOMAIN B[A[r][p]] : e = <<p, q>>
      OBVIOUS
    <2>3. QED
      BY <2>1, <2>2
  <1>4. QED
    BY <1>1, <1>2, <1>3

\* Every entry is a pair of places, and its column one of the product's.
LEMMA EntryFacts ==
    ASSUME Types, NEW r \in Rows, NEW e \in Entries(r)
    PROVE  /\ e[1] \in 1 .. Len(A[r]) /\ e[2] \in 1 .. Len(B[A[r][e[1]]])
           /\ e[1] \in Nat /\ e[2] \in Nat /\ e = <<e[1], e[2]>> /\ e \in Nat \X Nat
           /\ B[A[r][e[1]]][e[2]] \in Cols
  <1>1. PICK p \in 1 .. Len(A[r]) : \E q \in 1 .. Len(B[A[r][p]]) : e = <<p, q>>
    BY EntriesAre
  <1>2. PICK q \in 1 .. Len(B[A[r][p]]) : e = <<p, q>>
    BY <1>1
  <1>3. e[1] = p /\ e[2] = q
    BY <1>2
  <1>4. p \in Nat /\ q \in Nat /\ B[A[r][p]][q] \in Cols
    <2>1. Len(A[r]) \in Nat /\ Len(B[A[r][p]]) \in Nat /\ B[A[r][p]][q] \in Cols
      BY RowFacts
    <2>2. p \in Nat
      BY ONLY <2>1
    <2>3. q \in Nat
      BY ONLY <2>1
    <2>4. QED
      BY ONLY <2>1, <2>2, <2>3
  <1>5. QED
    BY <1>2, <1>3, <1>4

LEMMA ProductRowIs ==
    ASSUME Types, NEW r \in Rows
    PROVE  /\ ProductRow(r) = {B[A[r][e[1]]][e[2]] : e \in Entries(r)}
           /\ ProductRow(r) \in SUBSET Cols /\ IsFiniteSet(ProductRow(r))
           /\ Cardinality(ProductRow(r)) \in Nat
  <1>1. \A c : c \in ProductRow(r) <=>
          \E p \in DOMAIN A[r] : \E q \in DOMAIN B[A[r][p]] : c = B[A[r][p]][q]
    <2>1. \A c : c \in ProductRow(r) <=> \E k \in Range(A[r]) : c \in Range(B[k])
      BY DEF ProductRow
    <2>2. \A c : c \in ProductRow(r) <=> \E p \in DOMAIN A[r] : c \in Range(B[A[r][p]])
      BY <2>1 DEF Range
    <2>3. QED
      BY <2>2 DEF Range
  <1>2. DOMAIN A[r] = 1 .. Len(A[r])
    BY RowFacts
  <1>3. \A p \in 1 .. Len(A[r]) : DOMAIN B[A[r][p]] = 1 .. Len(B[A[r][p]])
    BY RowFacts
  <1>4. \A c : c \in ProductRow(r) <=>
          \E p \in 1 .. Len(A[r]) : \E q \in 1 .. Len(B[A[r][p]]) : c = B[A[r][p]][q]
    BY ONLY <1>1, <1>2, <1>3
  <1>5. ASSUME NEW c \in ProductRow(r)
        PROVE  \E e \in Entries(r) : c = B[A[r][e[1]]][e[2]]
    <2>1. PICK p \in 1 .. Len(A[r]) : \E q \in 1 .. Len(B[A[r][p]]) : c = B[A[r][p]][q]
      BY <1>4
    <2>2. PICK q \in 1 .. Len(B[A[r][p]]) : c = B[A[r][p]][q]
      BY <2>1
    <2>3. <<p, q>> \in Entries(r)
      BY EntriesAre
    <2>4. QED
      BY <2>2, <2>3
  <1>6. ASSUME NEW e \in Entries(r)
        PROVE  B[A[r][e[1]]][e[2]] \in ProductRow(r)
    BY <1>4, EntryFacts
  <1>7. ProductRow(r) = {B[A[r][e[1]]][e[2]] : e \in Entries(r)}
    BY <1>5, <1>6
  <1>8. ProductRow(r) \in SUBSET Cols
    BY <1>5, EntryFacts
  <1>9. IsFiniteSet(ProductRow(r)) /\ Cardinality(ProductRow(r)) \in Nat
    BY <1>8, Shape, FS_Subset, FS_CardinalityType
  <1>10. QED
    BY <1>7, <1>8, <1>9

\* A set and the pairs of its elements with one value are equally many.
LEMMA Tagged ==
    ASSUME NEW r, NEW S, IsFiniteSet(S)
    PROVE  IsFiniteSet({r} \X S) /\ Cardinality({r} \X S) = Cardinality(S)
  <1>1. IsFiniteSet({r}) /\ Cardinality({r}) = 1
    BY FS_Singleton
  <1>2. Cardinality(S) \in Nat
    BY FS_CardinalityType
  <1>3. QED
    BY <1>1, <1>2, FS_Product

LEMMA DisjointUnion ==
    ASSUME NEW S, NEW T, IsFiniteSet(S), IsFiniteSet(T), S \cap T = {}
    PROVE  /\ IsFiniteSet(S \cup T) /\ Cardinality(S \cup T) = Cardinality(S) + Cardinality(T)
           /\ Cardinality(S) \in Nat /\ Cardinality(T) \in Nat
  <1>1. Cardinality(S) \in Nat /\ Cardinality(T) \in Nat /\ Cardinality({}) = 0
    BY FS_CardinalityType, FS_EmptySet
  <1>2. Cardinality(S \cap T) = 0
    BY <1>1
  <1>3. /\ IsFiniteSet(S \cup T)
        /\ Cardinality(S \cup T) = Cardinality(S) + Cardinality(T) - Cardinality(S \cap T)
    BY FS_Union
  <1> DEFINE both == Cardinality(S \cap T)
             all == Cardinality(S \cup T)
  <1>4. both = 0 /\ all = Cardinality(S) + Cardinality(T) - both
    BY <1>2, <1>3
  <1> HIDE DEF both, all
  <1>5. all = Cardinality(S) + Cardinality(T)
    BY ONLY <1>1, <1>4
  <1>6. QED
    BY <1>1, <1>3, <1>5 DEF all

\* What EntriesBefore counts: pairs of a row and a column it has in the product.
Before(r) == {e \in Rows \X Cols : e[1] < r /\ e[2] \in ProductRow(e[1])}

LEMMA EntriesBeforeCounts ==
    ASSUME Types
    PROVE  /\ EntriesBefore(0) = 0
           /\ \A r \in 0 .. a_rows : EntriesBefore(r) \in Nat
           /\ \A r \in Rows : EntriesBefore(r + 1) = EntriesBefore(r) + Cardinality(ProductRow(r))
           /\ \A r, s \in 0 .. a_rows : r <= s => EntriesBefore(r) <= EntriesBefore(s)
  <1>1. IsFiniteSet(Rows \X Cols)
    <2>1. IsFiniteSet(Rows) /\ IsFiniteSet(Cols)
      BY Shape, FS_Interval DEF Rows
    <2>2. QED
      BY ONLY <2>1, FS_Product
  <1>2. ASSUME NEW r \in 0 .. a_rows
        PROVE  /\ IsFiniteSet(Before(r)) /\ EntriesBefore(r) = Cardinality(Before(r))
               /\ EntriesBefore(r) \in Nat
    <2>1. IsFiniteSet(Before(r))
      BY <1>1, FS_Subset DEF Before
    <2>2. QED
      BY <2>1, FS_CardinalityType DEF Before, EntriesBefore
  <1>3. EntriesBefore(0) = 0
    <2>1. Before(0) = {}
      BY Shape DEF Before, Rows
    <2>2. 0 \in 0 .. a_rows
      BY Shape
    <2>3. QED
      BY <1>2, <2>1, <2>2, FS_EmptySet
  <1>4. ASSUME NEW r \in Rows
        PROVE  EntriesBefore(r + 1) = EntriesBefore(r) + Cardinality(ProductRow(r))
    <2>1. r \in 0 .. a_rows /\ r + 1 \in 0 .. a_rows /\ \A q \in Rows : q \in Nat /\ r \in Nat
      BY RowFacts
    <2>2. Before(r + 1) = Before(r) \cup ({r} \X ProductRow(r))
      <3>1. ASSUME NEW q \in Rows, NEW c \in Cols
            PROVE  <<q, c>> \in Before(r + 1) <=> <<q, c>> \in Before(r) \cup ({r} \X ProductRow(r))
        <4>1. q < r + 1 <=> q < r \/ q = r
          BY <2>1
        <4>2. QED
          BY <4>1 DEF Before
      <3>2. \A e \in Before(r + 1) \cup Before(r) : e \in Rows \X Cols
        BY DEF Before
      <3>3. ProductRow(r) \subseteq Cols
        BY ProductRowIs
      <3>4. \A e \in {r} \X ProductRow(r) : e \in Rows \X Cols
        BY <3>3
      <3>5. \A e \in Rows \X Cols : \E q \in Rows, c \in Cols : e = <<q, c>>
        OBVIOUS
      <3>6. QED
        BY <3>1, <3>2, <3>4, <3>5
    <2>3. Before(r) \cap ({r} \X ProductRow(r)) = {}
      BY <2>1 DEF Before
    <2>4. /\ IsFiniteSet({r} \X ProductRow(r))
          /\ Cardinality({r} \X ProductRow(r)) = Cardinality(ProductRow(r))
      BY Tagged, ProductRowIs
    <2>5. QED
      BY <1>2, <2>1, <2>2, <2>3, <2>4, DisjointUnion
  <1>5. ASSUME NEW r \in 0 .. a_rows, NEW s \in 0 .. a_rows, r <= s
        PROVE  EntriesBefore(r) <= EntriesBefore(s)
    <2>1. Before(r) \in SUBSET Before(s)
      BY <1>5, RowFacts, Shape DEF Before, Rows
    <2>2. QED
      BY <1>2, <2>1, FS_Subset
  <1>6. QED
    BY <1>2, <1>3, <1>4, <1>5

\* The row pointers, once they are right, give each row its own entries of C,
\* as many as the product has in it.
LEMMA PositionsFit ==
    ASSUME Types, \A r \in 0 .. a_rows : c_row_ptr[r] = EntriesBefore(r)
    PROVE  /\ \A r \in Rows :
                /\ c_row_ptr[r] \in Nat /\ c_row_ptr[r + 1] \in Nat
                /\ c_row_ptr[r + 1] = c_row_ptr[r] + Cardinality(ProductRow(r))
                /\ \A i \in Positions(r) : i \in Nat /\ i < EntriesBefore(a_rows)
           /\ \A r, q \in Rows : r < q => c_row_ptr[r + 1] <= c_row_ptr[q]
           /\ \A r, q \in Rows : r # q => Positions(r) \cap Positions(q) = {}
  <1>1. ASSUME NEW r \in Rows
        PROVE  /\ c_row_ptr[r] \in Nat /\ c_row_ptr[r + 1] \in Nat
               /\ c_row_ptr[r + 1] = c_row_ptr[r] + Cardinality(ProductRow(r))
    BY RowFacts, EntriesBeforeCounts
  <1>2. ASSUME NEW r \in Rows, NEW i \in Positions(r)
        PROVE  i \in Nat /\ i < EntriesBefore(a_rows)
    <2>1. i \in Nat /\ i < c_row_ptr[r + 1]
      BY <1>1 DEF Positions
    <2>2. r + 1 \in 0 .. a_rows /\ a_rows \in 0 .. a_rows /\ r + 1 <= a_rows
      BY RowFacts, Shape
    <2>3. c_row_ptr[r + 1] <= EntriesBefore(a_rows) /\ EntriesBefore(a_rows) \in Nat
      BY <2>2, EntriesBeforeCounts
    <2>4. QED
      BY <1>1, <2>1, <2>3
  <1>3. ASSUME NEW r \in Rows, NEW q \in Rows, r < q
        PROVE  c_row_ptr[r + 1] <= c_row_ptr[q]
    <2>1. r + 1 \in 0 .. a_rows /\ q \in 0 .. a_rows /\ r + 1 <= q
      BY <1>3, RowFacts
    <2>2. QED
      BY <2>1, EntriesBeforeCounts
  <1>4. ASSUME NEW r \in Rows, NEW q \in Rows, r < q
        PROVE  Positions(r) \cap Positions(q) = {}
    <2>1. /\ c_row_ptr[r] \in Nat /\ c_row_ptr[r + 1] \in Nat
          /\ c_row_ptr[q] \in Nat /\ c_row_ptr[q + 1] \in Nat
      BY <1>1
    <2>2. c_row_ptr[r + 1] <= c_row_ptr[q]
      BY <1>3, <1>4
    <2>3. QED
      BY ONLY <2>1, <2>2 DEF Positions
  <1>5. \A r, q \in Rows : r < q \/ r = q \/ q < r
    BY DEF Rows
  <1>6. QED
    BY <1>1, <1>2, <1>3, <1>4, <1>5

-------------------------------------------------------------------------------
(* Where the loops are *)

LEMMA InitInv ==
    ASSUME Init
    PROVE  Inv
  <1>1. Types
    <2>1. A \in [Rows -> LeftRows] /\ B \in [0 .. a_cols - 1 -> RightRows]
      BY DEF Init
    <2>2. /\ pc = "start" /\ row \in 0 .. a_rows /\ ap = 1 /\ bp = 1 /\ ops = 0
          /\ touched = <<>> /\ total = 0 /\ running = 0
      BY Shape DEF Init
    <2>3. mark \in [Cols -> {0, 1, Junk}] /\ acc \in [Cols -> Seq(Nat \X Nat) \cup {Junk}]
      BY DEF Init
    <2>4. op_counts \in [Rows -> Nat \cup {Junk}] /\ c_row_ptr \in [0 .. a_rows -> Nat]
      BY DEF Init
    <2>5. c_col_idx \in [DOMAIN c_col_idx -> Cols \cup {Junk}]
      BY DEF Init
    <2>6. c_values \in [DOMAIN c_values -> Seq((Nat \X Nat)) \cup {Junk}]
      BY DEF Init
    <2>7. QED
      BY <2>1, <2>2, <2>3, <2>4, <2>5, <2>6 DEF Types
  <1>2. HeapInv
    BY DEF Init, HeapInv, HeapOnReturn
  <1>3. MarkInv
    BY DEF Init, MarkInv, MarksMatchRow
  <1>4. CountInv
    BY DEF Init, CountInv, CountsRows
  <1>5. FillInv
    BY DEF Init, FillInv, FillsRows
  <1>6. SumInv
    BY DEF Init, SumInv, SumsRow
  <1>7. QED
    BY <1>1, <1>2, <1>3, <1>4, <1>5, <1>6 DEF Inv

\* No step changes the operands.
LEMMA Fixed ==
    ASSUME UNCHANGED operands
    PROVE  /\ A' = A /\ B' = B
           /\ \A r : ProductRow(r)' = ProductRow(r) /\ Entries(r)' = Entries(r)
           /\ \A r : EntriesBefore(r)' = EntriesBefore(r)
           /\ \A r, c : Products(r, c)' = Products(r, c)
  <1>1. A' = A /\ B' = B
    BY DEF operands
  <1>2. \A r : ProductRow(r)' = ProductRow(r) /\ Entries(r)' = Entries(r)
    BY <1>1 DEF ProductRow, Entries
  <1>3. \A r : EntriesBefore(r)' = EntriesBefore(r)
    BY <1>1 DEF ProductRow, EntriesBefore
  <1>4. \A r, c : Products(r, c)' = Products(r, c)
    BY <1>1 DEF Products, Entries
  <1>5. QED
    BY <1>1, <1>2, <1>3, <1>4

LEMMA AtRow ==
    ASSUME Types
    PROVE  /\ InRow => row \in Rows /\ row + 1 \in 0 .. a_rows /\ row \in Nat
           /\ ~InRow => row = a_rows
           /\ InRow /\ ~InA => ap > Len(A[row])
           /\ row \in Rows => InRow
  <1>1. row \in Nat /\ row <= a_rows /\ ap \in Nat
    BY Shape DEF Types
  <1>2. InRow => row \in Rows /\ row + 1 \in 0 .. a_rows
    BY <1>1, Shape DEF InRow, Rows
  <1>3. InRow /\ ~InA => ap > Len(A[row])
    BY <1>1, <1>2, RowFacts DEF InA
  <1>4. row \in Rows => InRow
    BY <1>1, Shape DEF InRow, Rows
  <1>5. QED
    BY <1>1, <1>2, <1>3, <1>4, Shape DEF InRow

LEMMA AtEntryOfA ==
    ASSUME Types, InA
    PROVE  /\ InRow /\ row \in Rows /\ ap \in 1 .. Len(A[row])
           /\ Len(BRow) \in Nat /\ BRow = B[A[row][ap]]
  <1>1. InRow /\ row \in Rows
    BY AtRow DEF InA
  <1>2. ap \in 1 .. Len(A[row])
    BY <1>1, RowFacts DEF InA, Types
  <1>3. QED
    BY <1>1, <1>2, RowFacts DEF BRow

LEMMA AtEntry ==
    ASSUME Types, InB
    PROVE  /\ InA /\ InRow /\ row \in Rows /\ ap \in 1 .. Len(A[row])
           /\ BRow = B[A[row][ap]]
           /\ bp \in 1 .. Len(BRow) /\ BRow[bp] \in Cols
           /\ <<ap, bp>> \in Entries(row) /\ <<ap, bp>> \in Nat \X Nat
  <1>1. InA /\ InRow /\ row \in Rows /\ ap \in 1 .. Len(A[row]) /\ BRow = B[A[row][ap]]
        /\ Len(BRow) \in Nat
    BY AtEntryOfA DEF InB
  <1>2. bp \in 1 .. Len(BRow)
    BY <1>1 DEF InB, Types
  <1>3. BRow[bp] \in Cols
    BY <1>1, <1>2, RowFacts
  <1>4. <<ap, bp>> \in Entries(row)
    BY <1>1, <1>2, EntriesAre
  <1>5. <<ap, bp>> \in Nat \X Nat
    BY DEF Types
  <1>6. QED
    BY <1>1, <1>2, <1>3, <1>4, <1>5

-------------------------------------------------------------------------------
(* What the loops have passed *)

\* A row begins with nothing passed.
LEMMA NothingPassed ==
    ASSUME Types, UNCHANGED <<A, B>>, row' \in Rows, ap' = 1, bp' = 1
    PROVE  Passed' = {}
  <1>1. \A e \in Entries(row') : e[1] \in Nat /\ e[2] \in Nat /\ e[1] >= 1 /\ e[2] >= 1
    <2>1. /\ Len(A[row']) \in Nat
          /\ \A p \in 1 .. Len(A[row']) : Len(B[A[row'][p]]) \in Nat
      BY RowFacts
    <2>2. QED
      BY <2>1, EntryFacts
  <1>2. Entries(row)' = Entries(row')
    BY DEF Entries
  <1>3. Passed' = {e \in Entries(row') : Earlier(e, <<1, 1>>)}
    BY <1>2 DEF Passed, Earlier
  <1>4. QED
    BY <1>1, <1>3 DEF Earlier

\* At its end every entry is.
LEMMA AllPassed ==
    ASSUME Types, InRow, ~InA
    PROVE  Passed = Entries(row)
  <1>1. row \in Rows /\ ap > Len(A[row]) /\ ap \in Nat /\ Len(A[row]) \in Nat
    BY AtRow, RowFacts DEF Types
  <1>2. \A e \in Entries(row) : e[1] \in 1 .. Len(A[row])
    BY <1>1, EntryFacts
  <1>3. \A e \in Entries(row) : e[1] < ap
    BY <1>1, <1>2
  <1>4. QED
    BY <1>3 DEF Passed, Earlier

\* One more entry of B.
LEMMA OneMorePassed ==
    ASSUME Types, InB, UNCHANGED <<A, B, row, ap>>, bp' = bp + 1
    PROVE  /\ Passed' = Passed \cup {<<ap, bp>>} /\ <<ap, bp>> \notin Passed
           /\ \A e \in Passed : Earlier(e, <<ap, bp>>)
  <1>1. row \in Rows /\ <<ap, bp>> \in Entries(row) /\ ap \in Nat /\ bp \in Nat
    BY AtEntry DEF Types
  <1>2. Entries(row)' = Entries(row)
    BY DEF Entries
  <1>3. ASSUME NEW e \in Entries(row)
        PROVE  Earlier(e, <<ap, bp + 1>>) <=> Earlier(e, <<ap, bp>>) \/ e = <<ap, bp>>
    <2>1. e[1] \in Nat /\ e[2] \in Nat /\ e = <<e[1], e[2]>>
      BY <1>1, EntryFacts
    <2>2. e = <<ap, bp>> <=> e[1] = ap /\ e[2] = bp
      BY <2>1
    <2>3. QED
      BY <1>1, <2>1, <2>2 DEF Earlier
  <1>4. Passed' = {e \in Entries(row) : Earlier(e, <<ap, bp + 1>>)}
    BY <1>2 DEF Passed, Earlier
  <1>5. ~Earlier(<<ap, bp>>, <<ap, bp>>)
    BY <1>1 DEF Earlier
  <1>6. QED
    BY <1>1, <1>3, <1>4, <1>5 DEF Passed

\* The next entry of A, behind the last entry of its row of B.
LEMMA SamePassed ==
    ASSUME Types, InA, ~InB, UNCHANGED <<A, B, row>>, ap' = ap + 1, bp' = 1
    PROVE  Passed' = Passed
  <1>1. /\ row \in Rows /\ ap \in Nat /\ bp \in Nat /\ Len(BRow) \in Nat /\ bp > Len(BRow)
        /\ BRow = B[A[row][ap]]
    BY AtEntryOfA DEF Types, InB
  <1>2. Entries(row)' = Entries(row)
    BY DEF Entries
  <1>3. ASSUME NEW e \in Entries(row)
        PROVE  Earlier(e, <<ap + 1, 1>>) <=> Earlier(e, <<ap, bp>>)
    <2>1. e[1] \in Nat /\ e[2] \in Nat /\ e[2] \in 1 .. Len(B[A[row][e[1]]])
      BY <1>1, EntryFacts
    <2>2. e[2] >= 1
      <3>1. Len(B[A[row][e[1]]]) \in Nat
        BY <1>1, RowFacts, EntryFacts
      <3>2. QED
        BY <2>1, <3>1
    <2>3. e[1] = ap => e[2] < bp
      BY <1>1, <2>1
    <2>4. Earlier(e, <<ap + 1, 1>>) <=> e[1] < ap + 1 \/ (e[1] = ap + 1 /\ e[2] < 1)
      BY DEF Earlier
    <2>5. Earlier(e, <<ap, bp>>) <=> e[1] < ap \/ (e[1] = ap /\ e[2] < bp)
      BY DEF Earlier
    <2>6. QED
      BY ONLY <1>1, <2>1, <2>2, <2>3, <2>4, <2>5
  <1>4. Passed' = {e \in Entries(row) : Earlier(e, <<ap + 1, 1>>)}
    BY <1>2 DEF Passed, Earlier
  <1>5. QED
    BY <1>3, <1>4 DEF Passed

-------------------------------------------------------------------------------
(* The heap *)

LEMMA HeapStep ==
    ASSUME Inv, [Next]_vars
    PROVE  HeapInv'
  <1> USE DEF HeapInv, HeapOnReturn, memory
  <1>1. HeapInv /\ pc \in {"start", "count", "prefix", "fill", "numeric", "done", "failed"}
    BY DEF Inv, Types
  <1>2. CASE AllocateRowPtr
    BY <1>1, <1>2 DEF AllocateRowPtr, EnterPhase
  <1>3. CASE AllocateRowPtrFails
    BY <1>1, <1>3 DEF AllocateRowPtrFails, Fails
  <1>4. CASE CountEntry \/ FillEntry \/ AccumEntry \/ NextEntryOfA
    BY <1>1, <1>4 DEF CountEntry, FillEntry, AccumEntry, NextEntryOfA, Visit
  <1>5. CASE CountRow
    BY <1>1, <1>5 DEF CountRow, Fails, FreedOnOverflow
  <1>6. CASE StartPrefix \/ PrefixRow \/ StartNumeric \/ FillRow \/ DrainRow
    BY <1>1, <1>6 DEF StartPrefix, PrefixRow, StartNumeric, FillRow, DrainRow, EnterPhase
  <1>7. CASE AllocateC
    BY <1>1, <1>7 DEF AllocateC, CArrays, EnterPhase
  <1>8. CASE AllocateCFails
    <2>1. PICK got \in SUBSET CArrays : Fails((heap \cup got) \ FreedWithoutC)
      BY <1>8 DEF AllocateCFails
    <2>2. (heap \cup got) \ FreedWithoutC = {}
      BY <1>1, <1>8 DEF AllocateCFails, FreedWithoutC, CArrays
    <2>3. QED
      BY <1>1, <1>8, <2>1, <2>2 DEF AllocateCFails, Fails
  <1>9. CASE Return
    BY <1>1, <1>9 DEF Return
  <1>10. CASE UNCHANGED vars
    BY <1>1, <1>10 DEF vars
  <1>11. QED
    BY <1>2, <1>3, <1>4, <1>5, <1>6, <1>7, <1>8, <1>9, <1>10 DEF Next

-------------------------------------------------------------------------------
(* The marks *)

LEMMA NextFixesOperands ==
    ASSUME [Next]_vars
    PROVE  UNCHANGED operands
  BY DEF Next, vars, AllocateRowPtr, AllocateRowPtrFails, CountEntry, FillEntry, AccumEntry,
     NextEntryOfA, CountRow, StartPrefix, PrefixRow, AllocateC, AllocateCFails, FillRow,
     StartNumeric, DrainRow, Return, Visit

\* The columns of the entries that have been passed.
Met == {B[A[row][e[1]]][e[2]] : e \in Passed}

LEMMA InRowNext ==
    ASSUME Types'
    PROVE  InRow' => row' \in Rows
  <1>1. row' \in 0 .. a_rows /\ a_rows \in Nat
    BY Shape DEF Types
  <1>2. QED
    BY ONLY <1>1 DEF InRow, Rows

LEMMA NothingMet ==
    ASSUME Types, Types', UNCHANGED operands, ap' = 1, bp' = 1
    PROVE  InRow' => Met' = {}
  <1>1. InRow' => row' \in Rows
    BY InRowNext
  <1>2. InRow' => Passed' = {}
    BY <1>1, NothingPassed DEF operands
  <1>3. QED
    BY <1>2 DEF Met

\* In a symbolic pass the marks and the touched columns are those met so far.
Marked ==
    /\ IsInjective(touched)
    /\ Range(touched) = IF InRow THEN Met ELSE {}
    /\ \A c \in Cols : mark[c] = IF c \in Range(touched) THEN 1 ELSE 0

LEMMA MarkedIs == MarksMatchRow <=> (pc \in {"count", "fill"} => Marked)
  BY DEF MarksMatchRow, Marked, Met

\* A row begins with no marks.
LEMMA NothingMarked ==
    ASSUME Types, Types', UNCHANGED operands, ap' = 1, bp' = 1,
           touched' = <<>>, \A c \in Cols : mark'[c] = 0
    PROVE  Marked'
  <1>1. IsInjective(touched') /\ Range(touched') = {}
    BY DEF IsInjective, Range
  <1>2. QED
    BY <1>1, NothingMet DEF Marked

\* Entering a row clears them: a column that is not touched was not marked.
LEMMA Unmarking ==
    ASSUME Types, Marked, NEW cols, Range(cols) = Range(touched)
    PROVE  Unmarked(cols) = [c \in Cols |-> 0]
  BY DEF Unmarked, Marked

LEMMA VisitMarks ==
    ASSUME Types, Marked, InB, Visit
    PROVE  Marked' /\ touched' \in Seq(Cols) /\ mark' \in [Cols -> {0, 1, Junk}]
  <1> DEFINE col == BRow[bp]
  <1>1. /\ InRow /\ row \in Rows /\ col \in Cols /\ BRow = B[A[row][ap]]
        /\ UNCHANGED <<A, B, pc, row, ap>> /\ bp' = bp + 1
    BY AtEntry DEF Visit, operands
  <1>2. Passed' = Passed \cup {<<ap, bp>>}
    BY <1>1, OneMorePassed
  <1>3. Met' = Met \cup {col}
    <2>1. Met' = {B[A[row][e[1]]][e[2]] : e \in Passed \cup {<<ap, bp>>}}
      BY <1>1, <1>2 DEF Met
    <2>2. col = B[A[row][<<ap, bp>>[1]]][<<ap, bp>>[2]]
      BY <1>1
    <2>3. QED
      BY <2>1, <2>2 DEF Met
  <1>4. InRow' = InRow
    BY <1>1 DEF InRow
  <1> HIDE DEF col
  <1>5. CASE Fresh(col)
    <2>1. mark' = [mark EXCEPT ![col] = 1] /\ touched' = Append(touched, col)
      BY <1>5 DEF Visit, col
    <2>2. col \notin Range(touched)
      BY <1>1, <1>5 DEF Marked, Fresh
    <2>3. touched \in Seq(Cols) /\ IsInjective(touched) /\ mark \in [Cols -> {0, 1, Junk}]
      BY DEF Types, Marked
    <2>4. /\ touched' \in Seq(Cols) /\ IsInjective(touched')
          /\ Range(touched') = Range(touched) \cup {col}
      BY <1>1, <2>1, <2>2, <2>3, AppendDistinct
    <2>5. \A c \in Cols : mark'[c] = IF c = col THEN 1 ELSE mark[c]
      BY <1>1, <2>1, <2>3
    <2>6. mark' \in [Cols -> {0, 1, Junk}]
      BY <1>1, <2>1, <2>3
    <2>7. QED
      BY <1>1, <1>3, <1>4, <2>4, <2>5, <2>6 DEF Marked
  <1>6. CASE ~Fresh(col)
    <2>1. mark' = mark /\ touched' = touched
      BY <1>6 DEF Visit, marks, col
    <2>2. col \in Range(touched)
      BY <1>1, <1>6 DEF Marked, Fresh
    <2>3. QED
      BY <1>1, <1>3, <1>4, <2>1, <2>2 DEF Marked, Types
  <1>7. QED
    BY <1>5, <1>6

LEMMA MarkStep ==
    ASSUME Inv, Types', [Next]_vars
    PROVE  MarkInv'
  <1>1. /\ Types /\ MarkInv /\ UNCHANGED operands
        /\ pc \in {"start", "count", "prefix", "fill", "numeric", "done", "failed"}
        /\ pc \in {"count", "fill"} => Marked
    BY NextFixesOperands, MarkedIs DEF Inv, Types, MarkInv
  <1>2. MarksMatchRow' <=> (pc' \in {"count", "fill"} => Marked')
    BY DEF MarksMatchRow, Marked, Met
  <1> USE DEF MarkInv
  <1>3. CASE AllocateRowPtr
    <2>1. /\ pc' = "count" /\ ap' = 1 /\ bp' = 1 /\ touched' = <<>>
          /\ \A c \in Cols : mark'[c] = 0
      BY <1>1, <1>3 DEF AllocateRowPtr, EnterPhase, ZeroWorkspace
    <2>2. Marked'
      BY <1>1, <2>1, NothingMarked
    <2>3. QED
      BY <1>2, <2>1, <2>2
  <1>4. CASE AllocateRowPtrFails
    BY <1>1, <1>2, <1>4 DEF AllocateRowPtrFails, Fails, ZeroWorkspace
  <1>5. CASE CountEntry \/ FillEntry
    <2>1. pc \in {"count", "fill"} /\ InB /\ Visit /\ pc' = pc
      BY <1>5 DEF CountEntry, FillEntry, Visit
    <2>2. Marked'
      BY <1>1, <2>1, VisitMarks
    <2>3. QED
      BY <1>2, <2>1, <2>2
  <1>6. CASE AccumEntry
    BY <1>1, <1>2, <1>6 DEF AccumEntry, marks
  <1>7. CASE NextEntryOfA
    <2>1. /\ InA /\ ~InB /\ UNCHANGED <<A, B, row, pc, mark, touched>> /\ ap' = ap + 1 /\ bp' = 1
      BY <1>7 DEF NextEntryOfA, marks, operands
    <2>2. Passed' = Passed
      BY <1>1, <2>1, SamePassed
    <2>3. Met' = Met /\ InRow' = InRow
      BY <2>1, <2>2 DEF Met, InRow
    <2>4. Marked => Marked'
      BY <2>1, <2>3 DEF Marked
    <2>5. QED
      BY <1>1, <1>2, <2>1, <2>4
  <1>8. CASE CountRow
    <2>1. /\ pc = "count" /\ mark' = Unmarked(touched) /\ touched' = <<>>
          /\ pc' = "failed" \/ (pc' = "count" /\ ap' = 1 /\ bp' = 1)
      BY <1>8 DEF CountRow, Fails, NewRow
    <2>2. \A c \in Cols : mark'[c] = 0
      BY <1>1, <2>1, Unmarking
    <2>3. pc' = "count" => Marked'
      BY <1>1, <2>1, <2>2, NothingMarked
    <2>4. QED
      BY <1>2, <2>1, <2>2, <2>3
  <1>9. CASE StartPrefix \/ StartNumeric
    <2>1. pc \in {"count", "fill"} /\ ~InRow /\ UNCHANGED <<mark, touched>>
          /\ pc' \in {"prefix", "numeric"}
      BY <1>9 DEF StartPrefix, StartNumeric, EnterPhase, marks
    <2>2. Range(touched) = {} /\ touched \in Seq(Cols)
      BY <1>1, <2>1 DEF Marked, Types
    <2>3. touched = <<>>
      BY <2>2 DEF Range
    <2>4. \A c \in Cols : mark[c] = 0
      BY <1>1, <2>1, <2>2 DEF Marked
    <2>5. QED
      BY <1>2, <2>1, <2>3, <2>4
  <1>10. CASE PrefixRow \/ DrainRow \/ Return
    BY <1>1, <1>2, <1>10 DEF PrefixRow, DrainRow, Return, marks
  <1>11. CASE AllocateC
    <2>1. /\ pc = "prefix" /\ pc' = "fill" /\ ap' = 1 /\ bp' = 1 /\ UNCHANGED <<mark, touched>>
      BY <1>11 DEF AllocateC, EnterPhase, marks
    <2>2. Marked'
      BY <1>1, <2>1, NothingMarked
    <2>3. QED
      BY <1>1, <1>2, <2>1, <2>2
  <1>12. CASE AllocateCFails
    BY <1>1, <1>2, <1>12 DEF AllocateCFails, Fails, marks
  <1>13. CASE FillRow
    <2>1. /\ pc = "fill" /\ pc' = "fill" /\ mark' = Unmarked(Ascending(touched)) /\ touched' = <<>>
          /\ ap' = 1 /\ bp' = 1
      BY <1>13 DEF FillRow, NewRow
    <2>2. Range(Ascending(touched)) = Range(touched)
      BY <1>1, <2>1, SortedColumns DEF Types, Marked
    <2>3. \A c \in Cols : mark'[c] = 0
      BY <1>1, <2>1, <2>2, Unmarking
    <2>4. Marked'
      BY <1>1, <2>1, <2>3, NothingMarked
    <2>5. QED
      BY <1>2, <2>1, <2>4
  <1>14. CASE UNCHANGED vars
    <2>1. UNCHANGED <<A, B, pc, row, ap, bp, mark, touched>>
      BY <1>14 DEF vars, operands, marks
    <2>2. Marked' <=> Marked
      BY <2>1 DEF Marked, Met, Passed, Entries, InRow, Earlier
    <2>3. QED
      BY <1>1, <1>2, <2>1, <2>2
  <1>15. QED
    BY <1>3, <1>4, <1>5, <1>6, <1>7, <1>8, <1>9, <1>10, <1>11, <1>12, <1>13, <1>14 DEF Next

-------------------------------------------------------------------------------
(* The counts *)

\* CountsRows after a step, in terms of the operands, which the step keeps.
LEMMA CountsNext ==
    ASSUME UNCHANGED operands
    PROVE  CountsRows' <=>
             /\ pc' = "count" =>
                  /\ total' = EntriesBefore(row')
                  /\ \A r \in 0 .. row' - 1 :
                       /\ c_row_ptr'[r] = Cardinality(ProductRow(r))
                       /\ op_counts'[r] = Cardinality(Entries(r))
             /\ pc' = "prefix" =>
                  /\ running' = EntriesBefore(row')
                  /\ \A r \in Rows :
                       c_row_ptr'[r] = IF r < row' THEN EntriesBefore(r)
                                                   ELSE Cardinality(ProductRow(r))
             /\ pc' \in {"fill", "numeric", "done"} =>
                  \A r \in 0 .. a_rows : c_row_ptr'[r] = EntriesBefore(r)
             /\ pc' \in {"prefix", "fill", "numeric", "done"} =>
                  total' = EntriesBefore(a_rows) /\ total' <= MaxNnz
  <1>1. A' = A /\ B' = B
    BY DEF operands
  <1>2. \A r : EntriesBefore(r)' = EntriesBefore(r) /\ ProductRow(r)' = ProductRow(r)
               /\ Entries(r)' = Entries(r)
    BY Fixed
  <1>3. EntriesBefore(row)' = EntriesBefore(row') /\ EntriesBefore(a_rows)' = EntriesBefore(a_rows)
    BY <1>1 DEF EntriesBefore, ProductRow
  <1>4. QED
    BY <1>2, <1>3 DEF CountsRows

LEMMA NothingCounted ==
    ASSUME Types, UNCHANGED operands, row' \in Rows, ap' = 1
    PROVE  IsFiniteSet(CountedEntries') /\ Cardinality(CountedEntries') = 0
  <1>1. \A e \in Entries(row') : ~(e[1] < 1)
    <2>1. Len(A[row']) \in Nat
      BY RowFacts
    <2>2. \A e \in Entries(row') : e[1] \in 1 .. Len(A[row'])
      BY EntryFacts
    <2>3. QED
      BY ONLY <2>1, <2>2
  <1>2. Entries(row)' = Entries(row')
    BY DEF Entries, operands
  <1>3. CountedEntries' = {}
    BY <1>1, <1>2 DEF CountedEntries
  <1>4. QED
    BY <1>3, FS_EmptySet

LEMMA UpTo ==
    ASSUME NEW n \in Nat
    PROVE  IsFiniteSet(1 .. n) /\ Cardinality(1 .. n) = n
  BY FS_Interval

\* The row of B behind the next entry of A adds as many entries as it has.
LEMMA OneMoreCounted ==
    ASSUME Types, InA, UNCHANGED <<A, B, row>>, ap' = ap + 1, IsFiniteSet(CountedEntries)
    PROVE  /\ IsFiniteSet(CountedEntries')
           /\ Cardinality(CountedEntries') = Cardinality(CountedEntries) + Len(BRow)
  <1> DEFINE new == {ap} \X (1 .. Len(BRow))
  <1>1. /\ row \in Rows /\ ap \in 1 .. Len(A[row]) /\ Len(BRow) \in Nat /\ ap \in Nat
        /\ BRow = B[A[row][ap]]
    BY AtEntryOfA DEF Types
  <1>2. Entries(row)' = Entries(row)
    BY DEF Entries
  <1>3. CountedEntries' = {e \in Entries(row) : e[1] < ap + 1}
    BY <1>2 DEF CountedEntries
  <1>4. \A e : e \in new <=> e \in Entries(row) /\ e[1] = ap
    <2>1. ASSUME NEW e \in new
          PROVE  e \in Entries(row) /\ e[1] = ap
      <3>1. PICK q \in 1 .. Len(BRow) : e = <<ap, q>>
        OBVIOUS
      <3>2. QED
        BY <1>1, <3>1, EntriesAre
    <2>2. ASSUME NEW e \in Entries(row), e[1] = ap
          PROVE  e \in new
      BY <1>1, <2>2, EntryFacts
    <2>3. QED
      BY <2>1, <2>2
  <1>5. \A e \in Entries(row) : e[1] \in Nat
    BY <1>1, EntryFacts
  <1>6. IsFiniteSet(new) /\ Cardinality(new) = Len(BRow)
    <2>1. IsFiniteSet(1 .. Len(BRow)) /\ Cardinality(1 .. Len(BRow)) = Len(BRow)
      BY ONLY <1>1, UpTo
    <2>2. QED
      BY <2>1, Tagged
  <1> HIDE DEF new
  <1>7. CountedEntries' = CountedEntries \cup new
    <2>1. \A e \in Entries(row) : e[1] < ap + 1 <=> e[1] < ap \/ e[1] = ap
      BY <1>1, <1>5
    <2>2. QED
      BY <1>3, <1>4, <2>1 DEF CountedEntries
  <1>8. CountedEntries \cap new = {}
    BY <1>1, <1>4 DEF CountedEntries
  <1>9. QED
    BY <1>6, <1>7, <1>8, DisjointUnion

LEMMA AllCounted ==
    ASSUME Types, InRow, ~InA
    PROVE  CountedEntries = Entries(row)
  <1>1. row \in Rows /\ ap > Len(A[row]) /\ ap \in Nat /\ Len(A[row]) \in Nat
    BY AtRow, RowFacts DEF Types
  <1>2. \A e \in Entries(row) : e[1] \in 1 .. Len(A[row])
    BY <1>1, EntryFacts
  <1>3. \A e \in Entries(row) : e[1] < ap
    BY ONLY <1>1, <1>2
  <1>4. QED
    BY <1>3 DEF CountedEntries

\* At the end of a row the touched columns are those the product has there.
LEMMA RowTouched ==
    ASSUME Types, Marked, InRow, ~InA
    PROVE  Range(touched) = ProductRow(row) /\ Len(touched) = Cardinality(ProductRow(row))
  <1>1. row \in Rows /\ Passed = Entries(row)
    BY AtRow, AllPassed
  <1>2. Range(touched) = ProductRow(row)
    BY <1>1, ProductRowIs DEF Marked, Met
  <1>3. QED
    BY <1>2, DistinctCount DEF Types, Marked

LEMMA CountRowStep ==
    ASSUME Types, Types', UNCHANGED operands, CountRow, Marked, CountInv, pc = "count"
    PROVE  CountInv'
  <1>1. /\ InRow /\ row \in Rows /\ row + 1 \in 0 .. a_rows /\ row \in Nat /\ ~InA
    BY AtRow DEF CountRow
  <1>2. /\ Len(touched) = Cardinality(ProductRow(row)) /\ Len(touched) \in Nat
        /\ ops = Cardinality(Entries(row))
    BY <1>1, RowTouched, AllCounted, SeqFacts DEF CountInv, CountRow, Types
  <1>3. /\ total' = total + Len(touched) /\ ops' = 0 /\ running' = running
        /\ c_row_ptr' = [c_row_ptr EXCEPT ![row] = Len(touched)]
        /\ op_counts' = [op_counts EXCEPT ![row] = ops]
        /\ pc' = "failed" \/ (pc' = "count" /\ row' = row + 1 /\ ap' = 1 /\ ~(total' > MaxNnz))
    BY DEF CountRow, Fails, NewRow, NextRow, Overflows
  <1>4. CASE pc' = "failed"
    BY <1>4, CountsNext DEF CountInv
  <1>5. CASE pc' = "count" /\ row' = row + 1 /\ ap' = 1 /\ ~(total' > MaxNnz)
    <2>1. total' = EntriesBefore(row')
      BY <1>1, <1>2, <1>3, <1>5, EntriesBeforeCounts DEF CountInv, CountsRows
    <2>2. \A r \in 0 .. row' - 1 : /\ c_row_ptr'[r] = Cardinality(ProductRow(r))
                                   /\ op_counts'[r] = Cardinality(Entries(r))
      <3>1. c_row_ptr \in [0 .. a_rows -> Nat] /\ op_counts \in [Rows -> Nat \cup {Junk}]
            /\ row \in 0 .. a_rows
        BY DEF Types
      <3>2. \A r \in 0 .. row' - 1 : r = row \/ r \in 0 .. row - 1
        BY <1>1, <1>5
      <3>3. \A r \in 0 .. row - 1 : /\ r # row /\ r \in Rows /\ r \in 0 .. a_rows
                                    /\ c_row_ptr[r] = Cardinality(ProductRow(r))
                                    /\ op_counts[r] = Cardinality(Entries(r))
        BY <1>1, Shape DEF CountInv, CountsRows, Rows
      <3>4. QED
        BY ONLY <1>1, <1>2, <1>3, <3>1, <3>2, <3>3
    <2>3. running' = 0 /\ total' <= MaxNnz
      <3>1. running' = 0 /\ ~(total' > MaxNnz)
        BY <1>3, <1>5 DEF CountInv
      <3>2. total' \in Nat /\ MaxNnz \in Nat
        BY Shape DEF Types
      <3>3. QED
        BY ONLY <3>1, <3>2
    <2>4. InRow' => IsFiniteSet(CountedEntries') /\ ops' = Cardinality(CountedEntries')
      <3>1. InRow' => row' \in Rows
        BY <1>1, <1>5, Shape DEF InRow, Rows
      <3>2. QED
        BY <1>3, <1>5, <3>1, NothingCounted
    <2>5. CountsRows'
      BY <1>5, <2>1, <2>2, CountsNext
    <2>6. QED
      BY <1>3, <1>5, <2>3, <2>4, <2>5 DEF CountInv
  <1>6. QED
    BY <1>3, <1>4, <1>5

LEMMA PrefixStep ==
    ASSUME Types, Types', UNCHANGED operands, CountInv, pc = "prefix",
           PrefixRow \/ AllocateC \/ AllocateCFails
    PROVE  CountInv'
  <1>1. /\ total = EntriesBefore(a_rows) /\ total <= MaxNnz
        /\ running = EntriesBefore(row)
        /\ \A r \in Rows : c_row_ptr[r] = IF r < row THEN EntriesBefore(r)
                                                     ELSE Cardinality(ProductRow(r))
        /\ c_row_ptr \in [0 .. a_rows -> Nat]
    BY DEF CountInv, CountsRows, Types
  <1>2. CASE PrefixRow
    <2>1. /\ row \in Rows /\ row + 1 \in 0 .. a_rows /\ row \in Nat /\ row \in 0 .. a_rows
          /\ pc' = "prefix" /\ total' = total /\ row' = row + 1
          /\ running' = running + c_row_ptr[row]
          /\ c_row_ptr' = [c_row_ptr EXCEPT ![row] = running]
      BY <1>2, AtRow DEF PrefixRow, NewRow, NextRow, Exclusive, Types
    <2>2. c_row_ptr[row] = Cardinality(ProductRow(row))
      BY <1>1, <2>1
    <2>3. running' = EntriesBefore(row')
      BY <1>1, <2>1, <2>2, EntriesBeforeCounts
    <2>4. \A r \in Rows : c_row_ptr'[r] = IF r < row' THEN EntriesBefore(r)
                                                      ELSE Cardinality(ProductRow(r))
      <3>1. \A r \in Rows : r \in Nat /\ r \in 0 .. a_rows
        BY RowFacts
      <3>2. \A r \in Rows : r < row' <=> r < row \/ r = row
        BY <2>1, <3>1
      <3>3. \A r \in Rows : c_row_ptr'[r] = IF r = row THEN running ELSE c_row_ptr[r]
        BY <1>1, <2>1, <3>1
      <3>4. QED
        BY ONLY <1>1, <3>2, <3>3
    <2>5. CountsRows'
      BY <1>1, <2>1, <2>3, <2>4, CountsNext
    <2>6. QED
      BY <2>1, <2>5 DEF CountInv
  <1>3. CASE AllocateC
    <2>1. /\ row = a_rows /\ pc' = "fill" /\ total' = total
          /\ c_row_ptr' = [c_row_ptr EXCEPT ![a_rows] = running]
      BY <1>3, AtRow DEF AllocateC, EnterPhase
    <2>2. \A r \in 0 .. a_rows : c_row_ptr'[r] = EntriesBefore(r)
      <3>1. \A r \in 0 .. a_rows : r = a_rows \/ (r \in Rows /\ r < a_rows)
        BY Shape DEF Rows
      <3>2. QED
        BY <1>1, <2>1, <3>1
    <2>3. CountsRows'
      BY <1>1, <2>1, <2>2, CountsNext
    <2>4. QED
      BY <2>1, <2>3 DEF CountInv
  <1>4. CASE AllocateCFails
    <2>1. pc' = "failed"
      BY <1>4 DEF AllocateCFails, Fails
    <2>2. QED
      BY <2>1, CountsNext DEF CountInv
  <1>5. QED
    BY <1>2, <1>3, <1>4

LEMMA CountStep ==
    ASSUME Inv, Types', [Next]_vars
    PROVE  CountInv'
  <1>1. /\ Types /\ CountInv /\ UNCHANGED operands
        /\ pc \in {"start", "count", "prefix", "fill", "numeric", "done", "failed"}
        /\ pc \in {"count", "fill"} => Marked
        /\ row \in 0 .. a_rows
    BY NextFixesOperands, MarkedIs DEF Inv, Types, MarkInv
  <1>2. CASE AllocateRowPtr
    <2>1. /\ pc' = "count" /\ row' = 0 /\ ap' = 1 /\ UNCHANGED <<ops, counts>>
          /\ total = 0 /\ running = 0 /\ ops = 0
      BY <1>1, <1>2 DEF AllocateRowPtr, EnterPhase, CountInv
    <2>2. row' \in Rows /\ InRow' /\ 0 <= MaxNnz /\ EntriesBefore(0) = 0 /\ 0 .. 0 - 1 = {}
      BY <1>1, <2>1, Shape, EntriesBeforeCounts DEF Rows, InRow
    <2>3. CountsRows'
      BY <1>1, <2>1, <2>2, CountsNext DEF counts
    <2>4. IsFiniteSet(CountedEntries') /\ Cardinality(CountedEntries') = 0
      BY <1>1, <2>1, <2>2, NothingCounted
    <2>5. QED
      BY <2>1, <2>2, <2>3, <2>4 DEF CountInv, counts
  <1>3. CASE AllocateRowPtrFails
    <2>1. pc' = "failed"
      BY <1>3 DEF AllocateRowPtrFails, Fails
    <2>2. QED
      BY <1>1, <2>1, CountsNext DEF CountInv
  <1>4. CASE CountEntry \/ FillEntry \/ AccumEntry \/ UNCHANGED vars
    <2>1. UNCHANGED <<A, B, pc, row, ap, ops, op_counts, c_row_ptr, total, running>>
      BY <1>1, <1>4 DEF CountEntry, FillEntry, AccumEntry, Visit, vars, counts, operands
    <2>2. CountsRows' <=> CountsRows
      BY <1>1, <2>1, CountsNext DEF CountsRows
    <2>3. CountedEntries' = CountedEntries /\ InRow' = InRow
      BY <2>1 DEF CountedEntries, Entries, InRow
    <2>4. QED
      BY <1>1, <2>1, <2>2, <2>3 DEF CountInv
  <1>5. CASE NextEntryOfA
    <2>1. /\ InA /\ UNCHANGED <<A, B, pc, row, op_counts, c_row_ptr, total, running>>
          /\ ap' = ap + 1 /\ ops' = IF pc = "count" THEN ops + Len(BRow) ELSE ops
          /\ pc \in {"count", "fill", "numeric"}
      BY <1>5 DEF NextEntryOfA, counts, operands
    <2>2. CountsRows' <=> CountsRows
      BY <1>1, <2>1, CountsNext DEF CountsRows
    <2>3. InRow' = InRow /\ InRow
      BY <1>1, <2>1, AtEntryOfA DEF InRow
    <2>4. IsFiniteSet(CountedEntries) =>
            /\ IsFiniteSet(CountedEntries')
            /\ Cardinality(CountedEntries') = Cardinality(CountedEntries) + Len(BRow)
      BY <1>1, <2>1, OneMoreCounted
    <2>5. QED
      BY <1>1, <2>1, <2>2, <2>3, <2>4 DEF CountInv
  <1>6. CASE CountRow
    <2>1. pc = "count"
      BY <1>6 DEF CountRow
    <2>2. QED
      BY <1>1, <1>6, <2>1, CountRowStep
  <1>7. CASE StartPrefix
    <2>1. /\ pc = "count" /\ ~InRow /\ row = a_rows /\ pc' = "prefix" /\ row' = 0
          /\ UNCHANGED <<op_counts, c_row_ptr, total, running>>
      BY <1>1, <1>7, AtRow DEF StartPrefix, EnterPhase, counts
    <2>2. running' = EntriesBefore(row')
      BY <1>1, <2>1, EntriesBeforeCounts DEF CountInv
    <2>3. \A r \in Rows : c_row_ptr'[r] = IF r < row' THEN EntriesBefore(r)
                                                      ELSE Cardinality(ProductRow(r))
      <3>1. \A r \in Rows : r \in 0 .. row - 1 /\ ~(r < 0)
        BY <2>1, Shape DEF Rows
      <3>2. QED
        BY <1>1, <2>1, <3>1 DEF CountInv, CountsRows
    <2>4. total' = EntriesBefore(a_rows) /\ total' <= MaxNnz
      BY <1>1, <2>1 DEF CountInv, CountsRows
    <2>5. QED
      BY <1>1, <2>1, <2>2, <2>3, <2>4, CountsNext DEF CountInv
  <1>8. CASE PrefixRow \/ AllocateC \/ AllocateCFails
    <2>1. pc = "prefix"
      BY <1>8 DEF PrefixRow, AllocateC, AllocateCFails
    <2>2. QED
      BY <1>1, <1>8, <2>1, PrefixStep
  <1>9. CASE FillRow \/ StartNumeric \/ DrainRow \/ Return
    <2>1. /\ pc \in {"fill", "numeric"} /\ pc' \in {"fill", "numeric", "done"}
          /\ UNCHANGED <<c_row_ptr, total>>
      BY <1>9 DEF FillRow, StartNumeric, DrainRow, Return, counts, EnterPhase
    <2>2. QED
      BY <1>1, <2>1, CountsNext DEF CountInv, CountsRows
  <1>10. QED
    BY <1>2, <1>3, <1>4, <1>5, <1>6, <1>7, <1>8, <1>9 DEF Next

-------------------------------------------------------------------------------
(* Types *)

LEMMA LoopTypes ==
    ASSUME Types, [Next]_vars
    PROVE  /\ pc' \in {"start", "count", "prefix", "fill", "numeric", "done", "failed"}
           /\ row' \in 0 .. a_rows
           /\ ap' \in Nat /\ ap' >= 1 /\ bp' \in Nat /\ bp' >= 1 /\ ops' \in Nat
  <1> USE DEF Next, AllocateRowPtr, AllocateRowPtrFails, CountEntry, FillEntry, AccumEntry,
      NextEntryOfA, CountRow, StartPrefix, PrefixRow, AllocateC, AllocateCFails, FillRow,
      StartNumeric, DrainRow, Return, Visit, EnterPhase, NewRow, NextRow, Fails
  <1>1. /\ pc' = pc \/ pc' \in {"count", "prefix", "fill", "numeric", "done", "failed"}
        /\ row' = row \/ row' = 0 \/ (InRow /\ row' = row + 1)
    BY DEF vars
  <1>2. /\ ap' = ap \/ ap' = 1 \/ ap' = ap + 1
        /\ bp' = bp \/ bp' = 1 \/ bp' = bp + 1
        /\ ops' = ops \/ ops' = 0 \/ (InA /\ ops' = ops + Len(BRow))
    BY DEF vars
  <1>3. row' \in 0 .. a_rows
    <2>1. InRow => row + 1 \in 0 .. a_rows
      BY AtRow
    <2>2. row \in 0 .. a_rows /\ 0 \in 0 .. a_rows
      BY Shape DEF Types
    <2>3. QED
      BY ONLY <1>1, <2>1, <2>2
  <1>4. ops' \in Nat
    BY <1>2, AtEntryOfA DEF Types
  <1>5. /\ pc \in {"start", "count", "prefix", "fill", "numeric", "done", "failed"}
        /\ ap \in Nat /\ ap >= 1 /\ bp \in Nat /\ bp >= 1
    BY DEF Types
  <1>6. ap' \in Nat /\ ap' >= 1 /\ bp' \in Nat /\ bp' >= 1
    BY ONLY <1>2, <1>5
  <1>7. QED
    BY ONLY <1>1, <1>3, <1>4, <1>5, <1>6

LEMMA MarkTypes ==
    ASSUME Inv, [Next]_vars
    PROVE  mark' \in [Cols -> {0, 1, Junk}] /\ touched' \in Seq(Cols)
  <1>1. Types /\ (pc \in {"count", "fill"} => Marked)
    BY MarkedIs DEF Inv, MarkInv
  <1>2. \/ UNCHANGED marks
        \/ mark' = [c \in Cols |-> 0] /\ touched' = touched
        \/ mark' = Unmarked(touched) /\ touched' = <<>>
        \/ mark' = Unmarked(Ascending(touched)) /\ touched' = <<>>
        \/ pc \in {"count", "fill"} /\ InB /\ Visit
    BY DEF Next, AllocateRowPtr, AllocateRowPtrFails, ZeroWorkspace, CountEntry, FillEntry,
       AccumEntry, NextEntryOfA, CountRow, StartPrefix, PrefixRow, AllocateC, AllocateCFails,
       FillRow, StartNumeric, DrainRow, Return, vars, marks
  <1>3. mark \in [Cols -> {0, 1, Junk}] /\ touched \in Seq(Cols) /\ <<>> \in Seq(Cols)
    BY <1>1 DEF Types
  <1>4. \A cols : Unmarked(cols) \in [Cols -> {0, 1, Junk}]
    BY <1>3 DEF Unmarked
  <1>5. CASE pc \in {"count", "fill"} /\ InB /\ Visit
    BY <1>1, <1>5, VisitMarks
  <1>6. QED
    BY <1>2, <1>3, <1>4, <1>5 DEF marks

LEMMA CountTypes ==
    ASSUME Types, [Next]_vars
    PROVE  /\ op_counts' \in [Rows -> Nat \cup {Junk}]
           /\ c_row_ptr' \in [0 .. a_rows -> Nat]
           /\ total' \in Nat /\ running' \in Nat
  <1>1. /\ op_counts \in [Rows -> Nat \cup {Junk}] /\ c_row_ptr \in [0 .. a_rows -> Nat]
        /\ total \in Nat /\ running \in Nat /\ ops \in Nat /\ Len(touched) \in Nat
        /\ row \in 0 .. a_rows
    BY SeqFacts DEF Types
  <1>2. CASE CountRow
    <2>1. /\ op_counts' = [op_counts EXCEPT ![row] = ops]
          /\ c_row_ptr' = [c_row_ptr EXCEPT ![row] = Len(touched)]
          /\ total' = total + Len(touched) /\ running' = running
      BY <1>2 DEF CountRow
    <2>2. op_counts' \in [Rows -> Nat \cup {Junk}]
      BY ONLY <1>1, <2>1
    <2>3. c_row_ptr' \in [0 .. a_rows -> Nat]
      BY ONLY <1>1, <2>1
    <2>4. total' \in Nat /\ running' \in Nat
      BY ONLY <1>1, <2>1
    <2>5. QED
      BY ONLY <2>2, <2>3, <2>4
  <1>3. CASE PrefixRow
    BY <1>1, <1>3 DEF PrefixRow, Exclusive
  <1>4. CASE AllocateC \/ AllocateCFails
    <2>1. c_row_ptr' = [c_row_ptr EXCEPT ![a_rows] = running]
          /\ UNCHANGED <<op_counts, total, running>>
      BY <1>4 DEF AllocateC, AllocateCFails
    <2>2. QED
      BY <1>1, <2>1
  <1>5. CASE UNCHANGED counts
    BY <1>1, <1>5 DEF counts
  <1>6. CountRow \/ PrefixRow \/ AllocateC \/ AllocateCFails \/ UNCHANGED counts
    BY DEF Next, AllocateRowPtr, AllocateRowPtrFails, CountEntry, FillEntry, AccumEntry,
       NextEntryOfA, StartPrefix, FillRow, StartNumeric, DrainRow, Return, Visit, vars, counts
  <1>7. QED
    BY <1>2, <1>3, <1>4, <1>5, <1>6

LEMMA ColumnTypes ==
    ASSUME Inv, [Next]_vars
    PROVE  c_col_idx' \in [DOMAIN c_col_idx' -> Cols \cup {Junk}]
  <1>1. Types /\ (pc \in {"count", "fill"} => Marked)
        /\ c_col_idx \in [DOMAIN c_col_idx -> Cols \cup {Junk}]
    BY MarkedIs DEF Inv, MarkInv, Types
  <1>2. CASE FillEntry
    <2>1. BRow[bp] \in Cols
      BY <1>1, <1>2, AtEntry DEF FillEntry
    <2>2. c_col_idx' = c_col_idx
          \/ \E k : c_col_idx' = [c_col_idx EXCEPT ![k] = BRow[bp]]
      BY <1>2 DEF FillEntry, columns
    <2>3. QED
      BY <1>1, <2>1, <2>2
  <1>3. CASE AllocateC
    BY <1>3 DEF AllocateC
  <1>4. CASE FillRow
    <2>1. /\ touched \in Seq(Cols) /\ IsInjective(touched) /\ Len(touched) \in Nat
          /\ c_row_ptr[row] \in Nat
      <3>1. row \in 0 .. a_rows /\ touched \in Seq(Cols) /\ Len(touched) \in Nat
        BY <1>1, SeqFacts DEF Types
      <3>2. QED
        BY <1>1, <1>4, <3>1 DEF FillRow, Types, Marked
    <2>2. Ascending(touched) \in [1 .. Len(touched) -> Cols]
      BY <2>1, SortedColumns, DistinctCount
    <2>3. ASSUME NEW i, i - c_row_ptr[row] \in 0 .. Len(touched) - 1
          PROVE  Ascending(touched)[i - c_row_ptr[row] + 1] \in Cols
      <3> DEFINE k == i - c_row_ptr[row]
      <3>1. k \in 0 .. Len(touched) - 1
        BY <2>3
      <3> HIDE DEF k
      <3>2. k + 1 \in 1 .. Len(touched)
        BY <2>1, <3>1
      <3>3. QED
        BY <2>2, <3>2 DEF k
    <2>4. c_col_idx' = [i \in DOMAIN c_col_idx |->
             IF i - c_row_ptr[row] \in 0 .. Len(touched) - 1
               THEN Ascending(touched)[i - c_row_ptr[row] + 1] ELSE c_col_idx[i]]
      BY <1>4 DEF FillRow
    <2>5. QED
      BY <1>1, <2>3, <2>4
  <1>5. CASE UNCHANGED columns
    BY <1>1, <1>5 DEF columns
  <1>6. FillEntry \/ AllocateC \/ FillRow \/ UNCHANGED columns
    BY DEF Next, AllocateRowPtr, AllocateRowPtrFails, CountEntry, AccumEntry, NextEntryOfA,
       CountRow, StartPrefix, PrefixRow, AllocateCFails, StartNumeric, DrainRow, Return, vars
  <1>7. QED
    BY <1>2, <1>3, <1>4, <1>5, <1>6

\* The columns of a row that is filled are columns of C.
LEMMA FilledColumns ==
    ASSUME Types, NEW r \in Rows, RowFilled(r)
    PROVE  \A i \in Positions(r) : c_col_idx[i] \in ProductRow(r) /\ c_col_idx[i] \in Cols
  BY ProductRowIs DEF RowFilled

LEMMA SumTypes ==
    ASSUME Inv, [Next]_vars
    PROVE  /\ c_values' \in [DOMAIN c_values' -> Seq((Nat \X Nat)) \cup {Junk}]
           /\ acc' \in [Cols -> Seq((Nat \X Nat)) \cup {Junk}]
           /\ pc' # "start" => acc' \in [Cols -> Seq(Nat \X Nat)]
  <1>1. /\ Types /\ c_values \in [DOMAIN c_values -> Seq((Nat \X Nat)) \cup {Junk}]
        /\ acc \in [Cols -> Seq((Nat \X Nat)) \cup {Junk}]
        /\ pc # "start" => acc \in [Cols -> Seq(Nat \X Nat)]
        /\ <<>> \in Seq(Nat \X Nat)
    BY DEF Inv, Types
  <1>2. CASE AllocateRowPtr \/ AllocateRowPtrFails
    <2>1. acc' = [c \in Cols |-> <<>>] /\ UNCHANGED c_values
      BY <1>2 DEF AllocateRowPtr, AllocateRowPtrFails, ZeroWorkspace, sums
    <2>2. QED
      BY ONLY <1>1, <2>1
  <1>3. CASE AccumEntry
    <2>1. BRow[bp] \in Cols /\ <<ap, bp>> \in Nat \X Nat
      BY <1>1, <1>3, AtEntry DEF AccumEntry
    <2>2. /\ pc # "start" /\ UNCHANGED c_values
          /\ acc' = [acc EXCEPT ![BRow[bp]] = Append(acc[BRow[bp]], <<ap, bp>>)]
      BY <1>3 DEF AccumEntry
    <2>3. acc' \in [Cols -> Seq(Nat \X Nat)]
      <3>1. Append(acc[BRow[bp]], <<ap, bp>>) \in Seq(Nat \X Nat)
        BY <1>1, <2>1, <2>2
      <3>2. QED
        BY <1>1, <2>1, <2>2, <3>1
    <2>4. QED
      BY ONLY <1>1, <2>2, <2>3
  <1>4. CASE AllocateC
    <2>1. UNCHANGED acc /\ pc # "start" /\ \E S : c_values' = [i \in S |-> Junk]
      BY <1>4 DEF AllocateC
    <2>2. QED
      BY ONLY <1>1, <2>1
  <1>5. CASE DrainRow
    <2>1. /\ pc = "numeric" /\ row \in Rows
          /\ c_values' = [i \in DOMAIN c_values |->
                            IF i \in Positions(row) THEN acc[c_col_idx[i]] ELSE c_values[i]]
          /\ acc' = Drained(row)
      BY <1>1, <1>5, AtRow DEF DrainRow
    <2>2. \A i \in Positions(row) : c_col_idx[i] \in Cols
      BY <1>1, <2>1, FilledColumns DEF Inv, FillInv, FillsRows
    <2>3. acc \in [Cols -> Seq(Nat \X Nat)]
      BY <1>1, <2>1
    <2>4. acc' \in [Cols -> Seq(Nat \X Nat)]
      BY ONLY <1>1, <2>1, <2>3 DEF Drained
    <2>5. c_values' \in [DOMAIN c_values' -> Seq((Nat \X Nat)) \cup {Junk}]
      BY ONLY <1>1, <2>1, <2>2, <2>3
    <2>6. QED
      BY ONLY <2>4, <2>5
  <1>6. CASE UNCHANGED sums /\ pc # "start"
    BY ONLY <1>1, <1>6 DEF sums
  <1>7. CASE UNCHANGED vars
    BY ONLY <1>1, <1>7 DEF sums, vars
  <1>8. \/ AllocateRowPtr \/ AllocateRowPtrFails \/ AccumEntry \/ AllocateC \/ DrainRow
        \/ UNCHANGED sums /\ pc # "start"
        \/ UNCHANGED vars
    BY DEF Next, CountEntry, FillEntry, NextEntryOfA, Visit, CountRow, StartPrefix, PrefixRow,
       AllocateCFails, FillRow, StartNumeric, Return
  <1>9. QED
    BY <1>2, <1>3, <1>4, <1>5, <1>6, <1>7, <1>8

LEMMA TypesStep ==
    ASSUME Inv, [Next]_vars
    PROVE  Types'
  <1>1. Types /\ A' = A /\ B' = B
    BY NextFixesOperands DEF Inv, operands
  <1>2. A' \in [Rows -> LeftRows] /\ B' \in [0 .. a_cols - 1 -> RightRows]
    BY <1>1 DEF Types
  <1>3. QED
    BY <1>1, <1>2, LoopTypes, MarkTypes, CountTypes, ColumnTypes, SumTypes DEF Types

-------------------------------------------------------------------------------
(* The fill *)

LEMMA InSlots ==
    ASSUME Types, NEW i \in Nat, i < total
    PROVE  i \in Slots
  BY DEF Types, Slots

LEMMA EarlierRows ==
    ASSUME Types
    PROVE  \A r \in 0 .. row - 1 : r \in Rows /\ r < row /\ r # row /\ r \in Nat
  <1>1. row \in Nat /\ row <= a_rows /\ a_rows \in Nat
    BY Shape DEF Types
  <1>2. QED
    BY ONLY <1>1 DEF Rows

\* A row stays filled when its entries of C stay.
LEMMA StaysFilled ==
    ASSUME Types, UNCHANGED operands, UNCHANGED c_row_ptr, NEW r \in Rows, RowFilled(r),
           \A i \in Positions(r) : c_col_idx'[i] = c_col_idx[i]
    PROVE  RowFilled(r)'
  <1>1. Positions(r)' = Positions(r) /\ ProductRow(r)' = ProductRow(r)
    BY Fixed DEF Positions
  <1>2. QED
    BY <1>1 DEF RowFilled

LEMMA FillEntryStep ==
    ASSUME Inv, UNCHANGED operands, FillEntry
    PROVE  FillInv'
  <1> DEFINE col == BRow[bp]
             P == c_row_ptr[row] + Len(touched)
  <1>1. /\ Types /\ Marked /\ pc = "fill" /\ InB /\ InRow /\ row \in Rows /\ col \in Cols
        /\ ap \in 1 .. Len(A[row]) /\ BRow = B[A[row][ap]] /\ <<ap, bp>> \in Entries(row)
    BY AtEntry, MarkedIs DEF Inv, MarkInv, FillEntry
  <1>2. /\ UNCHANGED <<pc, row, ap, c_row_ptr, total, c_values>> /\ pc' = "fill"
        /\ bp' = bp + 1
    BY <1>1 DEF FillEntry, Visit, counts, sums
  <1>3. /\ \A r \in 0 .. a_rows : c_row_ptr[r] = EntriesBefore(r)
        /\ total = EntriesBefore(a_rows)
    BY <1>1 DEF Inv, CountInv, CountsRows
  <1>4. /\ DOMAIN c_col_idx = Slots /\ DOMAIN c_values = Slots
        /\ \A r \in 0 .. row - 1 : RowFilled(r)
        /\ \A n \in DOMAIN touched : /\ c_row_ptr[row] + n - 1 \in Positions(row)
                                     /\ c_col_idx[c_row_ptr[row] + n - 1] = touched[n]
    BY <1>1 DEF Inv, FillInv, FillsRows
  <1>5. Slots' = Slots /\ Positions(row)' = Positions(row)
    BY <1>2 DEF Slots, Positions
  <1>6. touched \in Seq(Cols) /\ IsInjective(touched) /\ Len(touched) \in Nat
        /\ DOMAIN touched = 1 .. Len(touched) /\ c_row_ptr[row] \in Nat
    BY <1>1, <1>3, PositionsFit, SeqFacts DEF Types, Marked
  <1>7. \A r \in 0 .. row - 1 : r \in Rows /\ r < row /\ r # row
    BY <1>1, EarlierRows
  <1> HIDE DEF col
  <1>8. CASE Fresh(col)
    <2>1. /\ c_col_idx' = [c_col_idx EXCEPT ![P] = col]
          /\ touched' = Append(touched, col)
      BY <1>1, <1>8 DEF FillEntry, Visit, col
    <2>2. col \notin Range(touched)
      BY <1>1, <1>8 DEF Marked, Fresh
    <2>3. Range(touched) \subseteq ProductRow(row) /\ col \in ProductRow(row)
      <3>1. ProductRow(row) = {B[A[row][e[1]]][e[2]] : e \in Entries(row)}
        BY <1>1, ProductRowIs
      <3>2. Range(touched) \subseteq {B[A[row][e[1]]][e[2]] : e \in Entries(row)}
        BY <1>1 DEF Marked, Met, Passed
      <3>3. col = B[A[row][<<ap, bp>>[1]]][<<ap, bp>>[2]]
        BY <1>1 DEF col
      <3>4. QED
        BY <1>1, <3>1, <3>2, <3>3
    <2>4. Len(touched) + 1 <= Cardinality(ProductRow(row)) /\ Cardinality(ProductRow(row)) \in Nat
      BY <1>1, <1>6, <2>2, <2>3, DistinctFit, ProductRowIs
    <2>5. /\ c_row_ptr[row + 1] = c_row_ptr[row] + Cardinality(ProductRow(row))
          /\ \A i \in Positions(row) : i \in Nat /\ i < total
          /\ \A r \in Rows : r # row => Positions(r) \cap Positions(row) = {}
      BY <1>1, <1>3, PositionsFit
    <2>6. P \in Positions(row)
      BY <1>6, <2>4, <2>5 DEF Positions
    <2>7. P \in DOMAIN c_col_idx
      BY <1>1, <1>4, <2>5, <2>6, InSlots
    <2> HIDE DEF P
    <2>8. \A i : i # P => c_col_idx'[i] = c_col_idx[i] \/ i \notin DOMAIN c_col_idx
      BY <2>1
    <2>9. DOMAIN c_col_idx' = Slots' /\ DOMAIN c_values' = Slots' /\ c_col_idx'[P] = col
      BY <1>2, <1>4, <1>5, <2>1, <2>7
    <2>10. ASSUME NEW r \in 0 .. row - 1
           PROVE  RowFilled(r)'
      <3>1. r \in Rows /\ r # row /\ RowFilled(r)
        BY <1>4, <1>7
      <3>2. P \notin Positions(r)
        BY <2>5, <2>6, <3>1
      <3>3. \A i \in Positions(r) : i \in DOMAIN c_col_idx
        <4>1. \A i \in Positions(r) : i \in Nat /\ i < total
          BY <1>1, <1>3, <3>1, PositionsFit
        <4>2. QED
          BY <1>1, <1>4, <4>1, InSlots
      <3>4. \A i \in Positions(r) : c_col_idx'[i] = c_col_idx[i]
        BY <2>8, <3>2, <3>3
      <3>5. QED
        BY <1>1, <1>2, <3>1, <3>4, StaysFilled
    <2>11. ASSUME NEW n \in DOMAIN touched'
           PROVE  /\ c_row_ptr'[row'] + n - 1 \in Positions(row)'
                  /\ c_col_idx'[c_row_ptr'[row'] + n - 1] = touched'[n]
      <3>1. n \in 1 .. Len(touched) + 1 /\ touched'[n] = IF n <= Len(touched) THEN touched[n] ELSE col
        BY <1>1, <1>6, <2>1, <2>2, AppendDistinct, SeqFacts
      <3>2. CASE n <= Len(touched)
        <4>1. /\ n \in DOMAIN touched /\ c_row_ptr[row] + n - 1 # P
              /\ c_row_ptr[row] + n - 1 \in Positions(row)
              /\ c_col_idx[c_row_ptr[row] + n - 1] = touched[n]
          BY <1>4, <1>6, <3>1, <3>2 DEF P
        <4>2. c_row_ptr[row] + n - 1 \in DOMAIN c_col_idx
          BY <1>1, <1>4, <2>5, <4>1, InSlots
        <4>3. QED
          BY <1>2, <1>5, <2>8, <3>1, <3>2, <4>1, <4>2
      <3>3. CASE n = Len(touched) + 1
        <4>1. c_row_ptr[row] + n - 1 = P /\ touched'[n] = col
          BY <1>6, <3>1, <3>3 DEF P
        <4>2. QED
          BY <1>2, <1>5, <2>6, <2>9, <4>1
      <3>4. QED
        BY <1>6, <3>1, <3>2, <3>3
    <2>12. QED
      BY <1>2, <2>9, <2>10, <2>11 DEF FillInv, FillsRows
  <1>9. CASE ~Fresh(col)
    <2>1. UNCHANGED <<c_col_idx, touched>>
      BY <1>1, <1>9 DEF FillEntry, Visit, marks, columns, col
    <2>2. \A r \in 0 .. row - 1 : RowFilled(r)'
      BY <1>1, <1>2, <1>4, <1>7, <2>1, StaysFilled
    <2>3. QED
      BY <1>2, <1>4, <1>5, <2>1, <2>2 DEF FillInv, FillsRows
  <1>10. QED
    BY <1>8, <1>9

LEMMA FillRowStep ==
    ASSUME Inv, Types', UNCHANGED operands, FillRow
    PROVE  FillInv'
  <1> DEFINE sorted == Ascending(touched)
             first == c_row_ptr[row]
             n == Len(touched)
  <1>1. /\ Types /\ Marked /\ pc = "fill" /\ InRow /\ ~InA /\ row \in Rows /\ row \in Nat
    BY AtRow, MarkedIs DEF Inv, MarkInv, FillRow
  <1>2. /\ UNCHANGED <<pc, c_row_ptr, total, c_values>> /\ pc' = "fill"
        /\ row' = row + 1 /\ touched' = <<>>
        /\ c_col_idx' = [i \in DOMAIN c_col_idx |->
              IF i - first \in 0 .. n - 1 THEN sorted[i - first + 1] ELSE c_col_idx[i]]
    BY <1>1 DEF FillRow, counts, sums, NewRow, NextRow
  <1>3. /\ \A r \in 0 .. a_rows : c_row_ptr[r] = EntriesBefore(r)
        /\ total = EntriesBefore(a_rows)
    BY <1>1 DEF Inv, CountInv, CountsRows
  <1>4. /\ DOMAIN c_col_idx = Slots /\ DOMAIN c_values = Slots
        /\ \A r \in 0 .. row - 1 : RowFilled(r)
    BY <1>1 DEF Inv, FillInv, FillsRows
  <1>5. /\ sorted \in [1 .. n -> ProductRow(row)]
        /\ \A i, j \in 1 .. n : i < j => sorted[i] < sorted[j]
        /\ Range(sorted) = ProductRow(row) /\ n = Cardinality(ProductRow(row)) /\ n \in Nat
    BY <1>1, SortedColumns, RowTouched, SeqFacts DEF Types, Marked
  <1>6. /\ first \in Nat /\ c_row_ptr[row + 1] = first + n
        /\ \A r \in Rows : r # row => Positions(r) \cap Positions(row) = {}
        /\ \A r \in Rows : \A i \in Positions(r) : i \in Nat /\ i < total
    BY <1>1, <1>3, <1>5, PositionsFit
  <1>7. Slots' = Slots
    BY <1>2 DEF Slots
  <1> HIDE DEF sorted, n, first
  <1>8. /\ \A i \in Positions(row) : i - first + 1 \in 1 .. n /\ i - first \in 0 .. n - 1
        /\ \A i \in Nat : i - first \in 0 .. n - 1 => i \in Positions(row)
        /\ Positions(row) = first .. first + n - 1
    <2>1. first \in Nat /\ n \in Nat
      BY <1>5, <1>6
    <2>2. Positions(row) = first .. first + n - 1
      BY ONLY <1>6, <2>1 DEF Positions, first
    <2>3. /\ \A i \in Positions(row) : i - first + 1 \in 1 .. n /\ i - first \in 0 .. n - 1
          /\ \A i \in Nat : i - first \in 0 .. n - 1 => i \in Positions(row)
      BY ONLY <2>1, <2>2
    <2>4. QED
      BY ONLY <2>2, <2>3
  <1>9. \A r \in Rows : \A i \in Positions(r) : i \in DOMAIN c_col_idx
    BY <1>1, <1>4, <1>6, InSlots
  <1>10. \A i \in Positions(row) : c_col_idx'[i] = sorted[i - first + 1]
    BY <1>1, <1>2, <1>8, <1>9
  <1>11. ASSUME NEW r \in Rows, r = row
         PROVE  RowFilled(r)'
    <2>1. Positions(r)' = Positions(r) /\ ProductRow(r)' = ProductRow(r)
      BY <1>2, Fixed DEF Positions
    <2>2. ASSUME NEW i \in Positions(r)
          PROVE  c_col_idx'[i] \in ProductRow(r)
      BY <1>5, <1>8, <1>10, <1>11
    <2>3. ASSUME NEW c \in ProductRow(r)
          PROVE  \E i \in Positions(r) : c_col_idx'[i] = c
      <3>1. PICK k \in 1 .. n : sorted[k] = c
        BY <1>5, <1>11 DEF Range
      <3> DEFINE i == first + k - 1
      <3>2. i \in Positions(row) /\ i - first + 1 = k
        <4>1. first \in Nat /\ n \in Nat /\ Positions(row) = first .. first + n - 1
          BY <1>5, <1>6, <1>8
        <4>2. QED
          BY ONLY <4>1, k \in 1 .. n
      <3> HIDE DEF i
      <3>3. c_col_idx'[i] = c
        BY <1>10, <3>1, <3>2
      <3>4. QED
        BY <1>11, <3>2, <3>3
    <2>4. ASSUME NEW i \in Positions(r), NEW j \in Positions(r), i < j
          PROVE  c_col_idx'[i] < c_col_idx'[j]
      <3>1. i - first + 1 < j - first + 1
        BY <1>6, <2>4
      <3>2. QED
        BY <1>5, <1>8, <1>10, <1>11, <3>1
    <2>5. QED
      BY <2>1, <2>2, <2>3, <2>4 DEF RowFilled
  <1>12. ASSUME NEW r \in 0 .. row - 1
         PROVE  RowFilled(r)'
    <2>1. r \in Rows /\ r # row /\ RowFilled(r)
      BY <1>1, <1>4, EarlierRows
    <2>2. \A i \in Positions(r) : i \in DOMAIN c_col_idx /\ i \in Nat /\ i \notin Positions(row)
      BY <1>6, <1>9, <2>1
    <2>3. \A i \in Positions(r) : c_col_idx'[i] = c_col_idx[i]
      BY <1>2, <1>8, <2>2
    <2>4. QED
      BY <1>1, <1>2, <2>1, <2>3, StaysFilled
  <1>13. \A r \in 0 .. row' - 1 : RowFilled(r)'
    <2>1. \A r \in 0 .. row' - 1 : r = row \/ r \in 0 .. row - 1
      BY <1>1, <1>2
    <2>2. QED
      BY <1>1, <1>11, <1>12, <2>1
  <1>14. DOMAIN c_col_idx' = Slots' /\ DOMAIN c_values' = Slots' /\ DOMAIN touched' = {}
    BY <1>2, <1>4, <1>7
  <1>15. QED
    BY <1>2, <1>13, <1>14 DEF FillInv, FillsRows

\* A step that leaves the columns of C alone.
LEMMA SameColumns ==
    ASSUME Types, FillInv, UNCHANGED operands,
           UNCHANGED <<c_row_ptr, total, c_col_idx, touched>>,
           DOMAIN c_values' = DOMAIN c_values,
           pc \in {"fill", "numeric"}, pc' \in {"fill", "numeric", "done"},
           pc = "fill" /\ pc' # "fill" => row = a_rows,
           pc = "numeric" => pc' # "fill",
           pc' = "fill" => row' = row
    PROVE  FillInv'
  <1>1. Slots' = Slots
    BY DEF Slots
  <1>2. \A r \in Rows : RowFilled(r) => RowFilled(r)'
    BY StaysFilled
  <1>3. /\ pc = "numeric" => \A r \in Rows : RowFilled(r)
        /\ pc = "fill" => \A r \in 0 .. row - 1 : RowFilled(r)
    BY DEF FillInv, FillsRows
  <1>4. pc' # "fill" => \A r \in Rows : RowFilled(r)'
    BY <1>2, <1>3 DEF Rows
  <1>5. pc' = "fill" => \A r \in 0 .. row' - 1 : RowFilled(r)'
    <2>1. \A r \in 0 .. row - 1 : r \in Rows
      BY EarlierRows
    <2>2. QED
      BY <1>2, <1>3, <2>1
  <1>6. pc' = "fill" => Positions(row)' = Positions(row)
    BY DEF Positions
  <1>7. QED
    BY <1>1, <1>4, <1>5, <1>6 DEF FillInv, FillsRows

LEMMA FillStep ==
    ASSUME Inv, Types', [Next]_vars
    PROVE  FillInv'
  <1>1. /\ Types /\ FillInv /\ UNCHANGED operands
        /\ pc \in {"start", "count", "prefix", "fill", "numeric", "done", "failed"}
    BY NextFixesOperands DEF Inv, Types
  <1>2. CASE pc' \in {"start", "count", "prefix", "failed"}
    BY <1>2 DEF FillInv, FillsRows
  <1>3. CASE AllocateC
    <2>1. /\ pc' = "fill" /\ row' = 0 /\ touched' = <<>> /\ total' = total
          /\ DOMAIN c_col_idx' = Slots /\ DOMAIN c_values' = Slots
      BY <1>3 DEF AllocateC, EnterPhase, marks, Slots, Inv, MarkInv
    <2>2. Slots' = Slots /\ 0 .. 0 - 1 = {} /\ DOMAIN touched' = {}
      BY <2>1 DEF Slots
    <2>3. QED
      BY <2>1, <2>2 DEF FillInv, FillsRows
  <1>4. CASE FillEntry
    BY <1>1, <1>4, FillEntryStep
  <1>5. CASE FillRow
    BY <1>1, <1>5, FillRowStep
  <1>6. CASE AccumEntry \/ Return \/ DrainRow \/ StartNumeric
             \/ (NextEntryOfA /\ pc # "count")
    <2>1. /\ UNCHANGED <<c_row_ptr, total, c_col_idx, touched>>
          /\ DOMAIN c_values' = DOMAIN c_values
          /\ pc \in {"fill", "numeric"} /\ pc' \in {"fill", "numeric", "done"}
          /\ pc = "numeric" => pc' # "fill"
          /\ pc' = "fill" => row' = row
          /\ pc = "fill" /\ pc' # "fill" => ~InRow
      BY <1>6 DEF AccumEntry, Return, DrainRow, StartNumeric, NextEntryOfA, EnterPhase,
         counts, marks, sums, columns
    <2>2. ~InRow => row = a_rows
      BY <1>1, AtRow
    <2>3. QED
      BY <1>1, <2>1, <2>2, SameColumns
  <1>7. CASE UNCHANGED vars
    <2>1. UNCHANGED <<A, B, pc, row, touched, c_row_ptr, total, c_col_idx, c_values>>
      BY <1>7 DEF vars, operands, marks, counts, columns, sums
    <2>2. Slots' = Slots /\ Positions(row)' = Positions(row)
          /\ \A r \in Rows : RowFilled(r)' <=> RowFilled(r)
      BY <2>1 DEF Slots, Positions, RowFilled, ProductRow
    <2>3. \A r \in 0 .. row - 1 : r \in Rows
      BY <1>1, EarlierRows
    <2>4. QED
      BY <1>1, <2>1, <2>2, <2>3 DEF FillInv, FillsRows
  <1>8. \/ pc' \in {"start", "count", "prefix", "failed"}
        \/ AllocateC \/ FillEntry \/ FillRow
        \/ AccumEntry \/ Return \/ DrainRow \/ StartNumeric \/ (NextEntryOfA /\ pc # "count")
        \/ UNCHANGED vars
    BY DEF Next, AllocateRowPtr, AllocateRowPtrFails, CountEntry, Visit, CountRow, StartPrefix,
       PrefixRow, AllocateCFails, EnterPhase, Fails, NextEntryOfA
  <1>9. QED
    BY <1>2, <1>3, <1>4, <1>5, <1>6, <1>7, <1>8

-------------------------------------------------------------------------------
(* The sums *)

LEMMA InOrderNothing ==
    ASSUME NEW s \in Seq(Nat \X Nat)
    PROVE  InOrder(s, {}) <=> s = <<>>
  BY DEF InOrder, Range

\* A product behind all that were added before.
LEMMA InOrderAppend ==
    ASSUME NEW s \in Seq(Nat \X Nat), NEW S, InOrder(s, S),
           NEW e \in Nat \X Nat, \A d \in S : Earlier(d, e)
    PROVE  InOrder(Append(s, e), S \cup {e})
  <1> DEFINE t == Append(s, e)
  <1>1. /\ Len(s) \in Nat /\ DOMAIN s = 1 .. Len(s) /\ DOMAIN t = 1 .. Len(s) + 1
        /\ \A n \in 1 .. Len(s) + 1 : t[n] = IF n <= Len(s) THEN s[n] ELSE e
    OBVIOUS
  <1> HIDE DEF t
  <1>2. \A n \in DOMAIN t : (n \in DOMAIN s /\ t[n] = s[n]) \/ (n = Len(s) + 1 /\ t[n] = e)
    BY <1>1
  <1>3. \A n \in DOMAIN s : n \in DOMAIN t /\ t[n] = s[n] /\ s[n] \in S
    BY <1>1 DEF InOrder, Range
  <1>4. Len(s) + 1 \in DOMAIN t /\ t[Len(s) + 1] = e
    BY <1>1
  <1>5. Range(t) = S \cup {e}
    <2>1. \A n \in DOMAIN t : t[n] \in S \cup {e}
      BY <1>2, <1>3
    <2>2. \A d \in S : \E n \in DOMAIN s : s[n] = d
      BY DEF InOrder, Range
    <2>3. QED
      BY <1>3, <1>4, <2>1, <2>2 DEF Range
  <1>6. ASSUME NEW i \in DOMAIN t, NEW j \in DOMAIN t, i < j
        PROVE  Earlier(t[i], t[j])
    <2>1. i \in DOMAIN s
      BY <1>1, <1>6
    <2>2. CASE j \in DOMAIN s
      BY <1>3, <1>6, <2>1, <2>2 DEF InOrder
    <2>3. CASE t[j] = e
      BY <1>3, <2>1, <2>3
    <2>4. QED
      BY <1>2, <2>2, <2>3
  <1>7. QED
    BY <1>5, <1>6 DEF InOrder, t

\* acc holds the products of the row that have been passed.
Summed == \A c \in Cols : InOrder(acc[c], IF InRow THEN Products(row, c) \cap Passed ELSE {})

\* A row whose entries of C stay keeps its sums.
LEMMA StaysSummed ==
    ASSUME UNCHANGED operands, UNCHANGED <<c_row_ptr, c_col_idx>>, NEW r \in Rows, RowSummed(r),
           \A i \in Positions(r) : c_values'[i] = c_values[i]
    PROVE  RowSummed(r)'
  <1>1. Positions(r)' = Positions(r)
    BY DEF Positions
  <1>2. \A i : InOrder(c_values[i], Products(r, c_col_idx[i]))'
                 = InOrder(c_values'[i], Products(r, c_col_idx[i]))
    BY DEF InOrder, Products, Entries, operands, Earlier
  <1>3. QED
    BY <1>1, <1>2 DEF RowSummed

\* A row begins with no sums.
LEMMA NothingSummed ==
    ASSUME Types, Types', UNCHANGED operands, ap' = 1, bp' = 1, \A c \in Cols : acc'[c] = <<>>
    PROVE  Summed'
  <1>1. InOrder(<<>>, {})
    BY DEF InOrder, Range
  <1>2. InRow' => row' \in Rows
    BY InRowNext
  <1>3. InRow' => Passed' = {}
    BY <1>2, NothingPassed DEF operands
  <1>4. \A c : (IF InRow THEN Products(row, c) \cap Passed ELSE {})' = {}
    BY <1>3
  <1>5. QED
    BY <1>1, <1>4 DEF Summed

LEMMA AccumEntrySums ==
    ASSUME Inv, Types', UNCHANGED operands, AccumEntry
    PROVE  Summed'
  <1> DEFINE col == BRow[bp]
             e == <<ap, bp>>
  <1>1. /\ Types /\ pc = "numeric" /\ InB /\ InRow /\ row \in Rows /\ col \in Cols
        /\ BRow = B[A[row][ap]] /\ e \in Entries(row) /\ e \in Nat \X Nat
    BY AtEntry DEF Inv, AccumEntry
  <1>2. /\ acc \in [Cols -> Seq(Nat \X Nat)]
        /\ \A c \in Cols : InOrder(acc[c], Products(row, c) \cap Passed)
    BY <1>1 DEF Inv, Types, SumInv, SumsRow
  <1>3. /\ UNCHANGED <<A, B, row, ap>> /\ bp' = bp + 1
        /\ acc' = [acc EXCEPT ![col] = Append(acc[col], e)]
    BY <1>1 DEF AccumEntry, operands
  <1>4. /\ Passed' = Passed \cup {e} /\ \A d \in Passed : Earlier(d, e)
        /\ InRow' /\ \A c : Products(row, c)' = Products(row, c)
    <2>1. Passed' = Passed \cup {e} /\ \A d \in Passed : Earlier(d, e)
      BY <1>1, <1>3, OneMorePassed
    <2>2. InRow' /\ \A c : Products(row, c)' = Products(row, c)
      <3>1. UNCHANGED <<A, B, row>> /\ InRow
        BY <1>1, <1>3
      <3>2. QED
        BY ONLY <3>1 DEF InRow, Products, Entries
    <2>3. QED
      BY <2>1, <2>2
  <1>5. \A c : e \in Products(row, c) <=> c = col
    <2>1. B[A[row][e[1]]][e[2]] = col
      BY <1>1
    <2>2. QED
      BY <1>1, <2>1 DEF Products
  <1> HIDE DEF col, e
  <1>6. ASSUME NEW c \in Cols
        PROVE  InOrder(acc'[c], Products(row, c) \cap (Passed \cup {e}))
    <2>1. CASE c = col
      <3>1. acc'[c] = Append(acc[c], e) /\ acc[c] \in Seq(Nat \X Nat)
        BY <1>1, <1>2, <1>3, <2>1
      <3>2. Products(row, c) \cap (Passed \cup {e}) = (Products(row, c) \cap Passed) \cup {e}
        BY <1>5, <2>1
      <3>3. InOrder(Append(acc[c], e), (Products(row, c) \cap Passed) \cup {e})
        BY <1>1, <1>2, <1>4, <3>1, InOrderAppend
      <3>4. QED
        BY <3>1, <3>2, <3>3
    <2>2. CASE c # col
      <3>1. acc'[c] = acc[c]
        BY <1>2, <1>3, <2>2
      <3>2. Products(row, c) \cap (Passed \cup {e}) = Products(row, c) \cap Passed
        BY <1>5, <2>2
      <3>3. QED
        BY <1>2, <3>1, <3>2
    <2>3. QED
      BY <2>1, <2>2
  <1>7. ASSUME NEW c \in Cols
        PROVE  InOrder(acc[c], IF InRow THEN Products(row, c) \cap Passed ELSE {})'
    <2>1. (IF InRow THEN Products(row, c) \cap Passed ELSE {})' = Products(row, c) \cap (Passed \cup {e})
      BY <1>4
    <2>2. QED
      BY <1>6, <2>1 DEF InOrder, Earlier
  <1>8. QED
    BY <1>7 DEF Summed

LEMMA DrainRowSums ==
    ASSUME Inv, Types', UNCHANGED operands, DrainRow
    PROVE  Summed' /\ \A r \in 0 .. row' - 1 : RowSummed(r)'
  <1>1. /\ Types /\ pc = "numeric" /\ InRow /\ ~InA /\ row \in Rows /\ row \in Nat
    BY AtRow DEF Inv, DrainRow
  <1>2. /\ UNCHANGED <<c_row_ptr, c_col_idx>> /\ row' = row + 1 /\ ap' = 1 /\ bp' = 1
        /\ c_values' = [i \in DOMAIN c_values |->
                          IF i \in Positions(row) THEN acc[c_col_idx[i]] ELSE c_values[i]]
        /\ acc' = Drained(row)
    BY <1>1 DEF DrainRow, counts, columns, NewRow, NextRow
  <1>3. /\ \A r \in 0 .. a_rows : c_row_ptr[r] = EntriesBefore(r)
        /\ total = EntriesBefore(a_rows) /\ DOMAIN c_values = Slots /\ RowFilled(row)
    BY <1>1 DEF Inv, CountInv, CountsRows, FillInv, FillsRows
  <1>4. /\ acc \in [Cols -> Seq(Nat \X Nat)]
        /\ \A c \in Cols : InOrder(acc[c], Products(row, c))
        /\ \A r \in 0 .. row - 1 : RowSummed(r)
    <2>1. \A c : Products(row, c) \cap Passed = Products(row, c)
      BY <1>1, AllPassed DEF Products
    <2>2. QED
      BY <1>1, <2>1 DEF Inv, Types, SumInv, SumsRow
  <1>5. /\ \A r \in Rows : r # row => Positions(r) \cap Positions(row) = {}
        /\ \A r \in Rows : \A i \in Positions(r) : i \in DOMAIN c_values
    <2>1. \A r \in Rows : \A i \in Positions(r) : i \in Nat /\ i < total
      BY <1>1, <1>3, PositionsFit
    <2>2. QED
      BY <1>1, <1>3, <2>1, PositionsFit, InSlots
  <1>6. ASSUME NEW c \in Cols
        PROVE  acc'[c] = <<>>
    <2>1. CASE c \in ProductRow(row)
      <3>1. \E i \in Positions(row) : c_col_idx[i] = c
        BY <1>3, <2>1 DEF RowFilled
      <3>2. QED
        BY <1>2, <3>1 DEF Drained
    <2>2. CASE c \notin ProductRow(row)
      <3>1. Products(row, c) = {}
        BY <1>1, <2>2, ProductRowIs DEF Products
      <3>2. acc[c] = <<>>
        BY <1>4, <3>1, InOrderNothing
      <3>3. QED
        BY <1>2, <3>2 DEF Drained
    <2>3. QED
      BY <2>1, <2>2
  <1>7. Summed'
    BY <1>1, <1>2, <1>6, NothingSummed
  <1>8. ASSUME NEW r \in Rows, r = row
        PROVE  RowSummed(r)'
    <2>1. Positions(r)' = Positions(r) /\ \A c : Products(r, c)' = Products(r, c)
      BY <1>2, Fixed DEF Positions
    <2>2. ASSUME NEW i \in Positions(r)
          PROVE  InOrder(c_values'[i], Products(r, c_col_idx[i]))
      <3>1. c_values'[i] = acc[c_col_idx[i]] /\ c_col_idx[i] \in Cols
        BY <1>1, <1>2, <1>3, <1>5, <1>8, FilledColumns
      <3>2. QED
        BY <1>4, <1>8, <3>1
    <2>3. QED
      BY <1>2, <2>1, <2>2 DEF RowSummed, InOrder, Products, Entries, operands, Earlier
  <1>9. ASSUME NEW r \in 0 .. row - 1
        PROVE  RowSummed(r)'
    <2>1. r \in Rows /\ r # row /\ RowSummed(r)
      BY <1>1, <1>4, EarlierRows
    <2>2. \A i \in Positions(r) : c_values'[i] = c_values[i]
      BY <1>2, <1>5, <2>1
    <2>3. QED
      BY <1>2, <2>1, <2>2, StaysSummed
  <1>10. \A r \in 0 .. row' - 1 : r = row \/ r \in 0 .. row - 1
    BY <1>1, <1>2
  <1>11. QED
    BY <1>1, <1>7, <1>8, <1>9, <1>10

LEMMA SumStep ==
    ASSUME Inv, Types', [Next]_vars
    PROVE  SumInv'
  <1>1. /\ Types /\ SumInv /\ UNCHANGED operands
        /\ pc \in {"start", "count", "prefix", "fill", "numeric", "done", "failed"}
    BY NextFixesOperands DEF Inv, Types
  <1>2. SumsRow' <=> (pc' = "numeric" => Summed' /\ \A r \in 0 .. row' - 1 : RowSummed(r)')
    BY DEF SumsRow, Summed
  <1>3. SumsRow <=> (pc = "numeric" => Summed /\ \A r \in 0 .. row - 1 : RowSummed(r))
    BY DEF SumsRow, Summed
  <1>4. CASE AllocateRowPtr \/ AllocateRowPtrFails
    <2>1. (\A c \in Cols : acc'[c] = <<>>) /\ pc' \in {"count", "failed"}
      BY <1>4 DEF AllocateRowPtr, AllocateRowPtrFails, ZeroWorkspace, EnterPhase, Fails
    <2>2. QED
      BY <1>2, <2>1 DEF SumInv
  <1>5. CASE pc \in {"count", "prefix", "fill"} /\ UNCHANGED acc
             /\ pc' \in {"count", "prefix", "fill", "failed"}
    BY <1>1, <1>2, <1>5 DEF SumInv
  <1>6. CASE StartNumeric
    <2>1. /\ pc = "fill" /\ UNCHANGED acc /\ pc' = "numeric" /\ row' = 0 /\ ap' = 1 /\ bp' = 1
      BY <1>6 DEF StartNumeric, EnterPhase, sums
    <2>2. Summed'
      BY <1>1, <2>1, NothingSummed DEF SumInv
    <2>3. 0 .. 0 - 1 = {}
      OBVIOUS
    <2>4. QED
      BY <1>2, <2>1, <2>2, <2>3 DEF SumInv
  <1>7. CASE AccumEntry
    <2>1. /\ UNCHANGED <<row, c_row_ptr, c_col_idx, c_values>> /\ pc = "numeric" /\ pc' = "numeric"
      BY <1>7 DEF AccumEntry, counts, columns
    <2>2. Summed'
      BY <1>1, <1>7, AccumEntrySums
    <2>3. \A r \in 0 .. row' - 1 : RowSummed(r)'
      BY <1>1, <1>3, <2>1, EarlierRows, StaysSummed DEF SumInv
    <2>4. QED
      BY <1>2, <2>1, <2>2, <2>3 DEF SumInv
  <1>8. CASE NextEntryOfA /\ pc = "numeric"
    <2>1. /\ UNCHANGED <<A, B, row, pc, c_row_ptr, c_col_idx, c_values, acc>>
          /\ InA /\ ~InB /\ ap' = ap + 1 /\ bp' = 1
      BY <1>8 DEF NextEntryOfA, counts, columns, sums, operands
    <2>2. Passed' = Passed /\ InRow' = InRow /\ \A c : Products(row, c)' = Products(row, c)
      BY <1>1, <2>1, SamePassed DEF InRow, Products, Entries
    <2>3. Summed => Summed'
      <3>1. \A c : (IF InRow THEN Products(row, c) \cap Passed ELSE {})'
                     = IF InRow THEN Products(row, c) \cap Passed ELSE {}
        BY <2>2
      <3>2. ASSUME NEW c, InOrder(acc[c], IF InRow THEN Products(row, c) \cap Passed ELSE {})
            PROVE  InOrder(acc[c], IF InRow THEN Products(row, c) \cap Passed ELSE {})'
        BY ONLY <2>1, <3>1, <3>2 DEF InOrder, Earlier
      <3>3. QED
        BY <3>2 DEF Summed
    <2>4. \A r \in 0 .. row - 1 : RowSummed(r) => RowSummed(r)'
      BY <1>1, <2>1, EarlierRows, StaysSummed
    <2>5. QED
      BY <1>1, <1>2, <1>3, <1>8, <2>1, <2>3, <2>4 DEF SumInv
  <1>9. CASE DrainRow
    <2>1. pc' = "numeric"
      BY <1>9 DEF DrainRow
    <2>2. Summed' /\ \A r \in 0 .. row' - 1 : RowSummed(r)'
      BY <1>1, <1>9, DrainRowSums
    <2>3. QED
      BY <1>2, <2>1, <2>2 DEF SumInv
  <1>10. CASE Return
    <2>1. /\ UNCHANGED <<c_row_ptr, c_col_idx, c_values, acc>> /\ pc = "numeric" /\ pc' = "done"
          /\ ~InRow /\ row = a_rows
      BY <1>1, <1>10, AtRow DEF Return, counts, columns, sums
    <2>2. \A c \in Cols : acc'[c] = <<>>
      <3>1. \A c \in Cols : InOrder(acc[c], {}) /\ acc[c] \in Seq(Nat \X Nat)
        BY <1>1, <2>1 DEF SumInv, SumsRow, Types
      <3>2. QED
        BY <2>1, <3>1, InOrderNothing
    <2>3. \A r \in Rows : RowSummed(r)'
      BY <1>1, <1>3, <2>1, StaysSummed DEF SumInv, Rows
    <2>4. QED
      BY <1>2, <2>1, <2>2, <2>3 DEF SumInv
  <1>11. CASE UNCHANGED vars
    <2>1. UNCHANGED <<A, B, pc, row, ap, bp, c_row_ptr, c_col_idx, c_values, acc>>
      BY <1>11 DEF vars, operands, counts, columns, sums
    <2>2. Summed' <=> Summed
      BY <2>1 DEF Summed, InRow, Passed, Products, Entries, Earlier, InOrder
    <2>3. \A r \in Rows : RowSummed(r) => RowSummed(r)'
      BY <1>1, <2>1, StaysSummed
    <2>4. \A r \in 0 .. row - 1 : r \in Rows
      BY <1>1, EarlierRows
    <2>5. QED
      BY <1>1, <1>2, <1>3, <2>1, <2>2, <2>3, <2>4 DEF SumInv
  <1>12. \/ AllocateRowPtr \/ AllocateRowPtrFails
         \/ pc \in {"count", "prefix", "fill"} /\ UNCHANGED acc
              /\ pc' \in {"count", "prefix", "fill", "failed"}
         \/ StartNumeric \/ AccumEntry \/ (NextEntryOfA /\ pc = "numeric") \/ DrainRow \/ Return
         \/ UNCHANGED vars
    BY DEF Next, CountEntry, FillEntry, Visit, CountRow, StartPrefix, PrefixRow, AllocateC,
       AllocateCFails, FillRow, NextEntryOfA, EnterPhase, Fails, sums
  <1>13. QED
    BY <1>4, <1>5, <1>6, <1>7, <1>8, <1>9, <1>10, <1>11, <1>12

-------------------------------------------------------------------------------
(* The properties of the runs *)

LEMMA StepInv ==
    ASSUME Inv, [Next]_vars
    PROVE  Inv'
  <1>1. Types'
    BY TypesStep
  <1>2. QED
    BY <1>1, HeapStep, MarkStep, CountStep, FillStep, SumStep DEF Inv

\* The scratch arrays follow the row, the counts and the filled rows the
\* operands, in every phase of a run.
THEOREM SpecInv == Spec => []Inv
  <1>1. Init => Inv
    BY InitInv
  <1>2. Inv /\ [Next]_vars => Inv'
    BY StepInv
  <1>3. QED
    BY <1>1, <1>2, PTL DEF Spec

\* Every index stays inside the array it indexes; in particular the list of
\* touched columns never outgrows its b_cols slots.
THEOREM Typed == Spec => []TypeOK
  <1>1. Inv => TypeOK
    <2> SUFFICES ASSUME Inv PROVE TypeOK
      OBVIOUS
    <2>1. Types /\ HeapInv /\ MarkInv
      BY DEF Inv
    <2>2. Len(touched) <= b_cols
      <3>1. touched \in Seq(Cols) /\ IsInjective(touched)
        BY <2>1 DEF Types, MarkInv, MarksMatchRow, IsInjective
      <3>2. Range(touched) \subseteq Cols
        BY <3>1, DistinctCount
      <3>3. QED
        BY <3>1, <3>2, DistinctFit, Shape
    <2>3. heap \subseteq {"c_row_ptr", "c_col_idx", "c_values"} /\ given \subseteq heap
      BY <2>1 DEF Types, HeapInv, HeapOnReturn
    <2>4. ap \in Nat \ {0} /\ bp \in Nat \ {0}
      BY <2>1 DEF Types
    <2>5. QED
      BY <2>1, <2>2, <2>3, <2>4 DEF Types, TypeOK
  <1>2. QED
    BY <1>1, SpecInv, PTL

\* The marks, the touched columns and the sums are those of the row alone: no
\* row of any product can leave anything behind for the next one.
THEOREM ScratchIsClean == Spec => []ScratchMatchesRow
  <1>1. Inv => MarksMatchRow /\ SumsRow
    BY DEF Inv, MarkInv, SumInv
  <1>2. MarksMatchRow /\ SumsRow /\ TypeOK => ScratchMatchesRow
    BY DEF ScratchMatchesRow
  <1>3. QED
    BY <1>1, <1>2, SpecInv, Typed, PTL

\* The fill meets exactly the columns that the count counted, so that it never
\* leaves the entries of its row.
THEOREM PassesDoAgree == Spec => []PassesAgree
  <1>1. Inv => PassesAgree
    BY DEF Inv, CountInv, FillInv, PassesAgree
  <1>2. QED
    BY <1>1, SpecInv, PTL

\* A run that ends well has computed A*B, in canonical rows and with the sums in
\* the order of the entries.
THEOREM ProductIsReturned == Spec => []ReturnsProduct
  <1>1. Inv => ReturnsProduct
    <2> SUFFICES ASSUME Inv, pc = "done" PROVE ReturnsProduct
      BY DEF ReturnsProduct
    <2>1. \A r \in Rows : RowFilled(r) /\ RowSummed(r)
      BY DEF Inv, FillInv, FillsRows, SumInv
    <2>2. /\ Types /\ total = EntriesBefore(a_rows)
          /\ \A r \in 0 .. a_rows : c_row_ptr[r] = EntriesBefore(r)
      BY DEF Inv, CountInv, CountsRows
    <2>3. 0 \in 0 .. a_rows /\ a_rows \in 0 .. a_rows /\ EntriesBefore(0) = 0
      BY <2>2, Shape, EntriesBeforeCounts
    <2>4. QED
      BY <2>1, <2>2, <2>3 DEF ReturnsProduct
  <1>2. QED
    BY <1>1, SpecInv, PTL

\* Each phase leaves the marks and the sums zeroed, as the header promises.
THEOREM PhasesLeaveZeroes == Spec => []LeavesZeroed
  <1>1. Inv => LeavesZeroed
    BY DEF Inv, MarkInv, SumInv, LeavesZeroed
  <1>2. QED
    BY <1>1, SpecInv, PTL

\* The caller gets all of the three arrays or none, whatever fails.
THEOREM AllOrNothing == Spec => []HeapOnReturn
  <1>1. Inv => HeapOnReturn
    BY DEF Inv, HeapInv
  <1>2. QED
    BY <1>1, SpecInv, PTL

===============================================================================
