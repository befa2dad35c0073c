---------------------------- MODULE AccumRow_proofs ----------------------------
(***************************************************************************)
(* Proofs about rvsp_accum_row, for every row of B, every value of the     *)
(* macros and every length that vsetvl may answer.                         *)
(*                                                                         *)
(* The scan for runs is right on any row.  That each entry is added once   *)
(* needs the two facts the comments of the kernels rely on: a row repeats  *)
(* no column, and the byte offsets of the columns fit their 32 bits.       *)
(***************************************************************************)
EXTENDS AccumRow, FiniteSetTheorems, TLAPS

\* No row of B repeats a column.
NoRepeats == \A r \in BRows : \A m, n \in DOMAIN r : m # n => r[m] # r[n]

\* The largest byte offset is below the range.
OffsetsFit == 4 * b_cols <= OFFSET_RANGE

Types ==
    /\ algo \in {"DEFAULT", "RVV", "CONTIG", "ADAPTIVE"} /\ b_col_idx \in BRows
    /\ pc \in {"enter", "loop", "scan", "span", "done"}
    /\ p \in Nat /\ p <= b_nnz /\ q \in Nat /\ q <= b_nnz /\ i \in Nat /\ i <= b_nnz
    /\ acc \in [0 .. b_cols - 1 -> Seq(Nat)]

\* What the scan has passed over holds no run, and a span lies in the row.
ScanInv ==
    /\ pc = "enter" => p = 0
    /\ pc = "scan" => p < b_nnz /\ p + i <= b_nnz
    /\ pc = "span" =>
         /\ span.first = p /\ span.end \in Nat /\ p <= span.end /\ span.end <= b_nnz
         /\ q >= p /\ q <= span.end
    /\ pc = "done" => p = b_nnz
    /\ RunsAreFound

Inv == Types /\ ScanInv

-------------------------------------------------------------------------------
(* Sets of positions *)

LEMMA Constants ==
    /\ b_cols \in Nat /\ CONTIG_MIN \in Nat /\ CONTIG_MIN >= 2
    /\ SCAN_AHEAD \in Nat /\ SCAN_AHEAD >= 1 /\ GATHER_MIN \in Nat /\ UNROLL \in Nat /\ UNROLL >= 1
    /\ VLMAX_M2 \in Nat /\ VLMAX_M2 >= 1 /\ VLMAX_M4 \in Nat /\ VLMAX_M4 >= 1
    /\ OFFSET_RANGE \in Nat
  BY AccumAssumption

Rank(S, c) == Cardinality({d \in S : d < c})

\* Each place in a finite set is taken by one of its elements.
LEMMA Places ==
    ASSUME NEW S \in SUBSET Nat, IsFiniteSet(S)
    PROVE  /\ Cardinality(S) \in Nat
           /\ \A c, d \in S : c < d => Rank(S, c) < Rank(S, d)
           /\ \A c \in S : Rank(S, c) \in Nat /\ Rank(S, c) < Cardinality(S)
           /\ \A n \in 0 .. Cardinality(S) - 1 : \E c \in S : Rank(S, c) = n
  <1>1. Cardinality(S) \in Nat
    BY FS_CardinalityType
  <1>2. ASSUME NEW c \in S
        PROVE  /\ IsFiniteSet({d \in S : d < c})
               /\ Rank(S, c) \in Nat /\ Rank(S, c) < Cardinality(S)
    <2>1. IsFiniteSet({d \in S : d < c}) /\ Rank(S, c) <= Cardinality(S)
      BY FS_Subset DEF Rank
    <2>2. Rank(S, c) \in Nat
      BY <2>1, FS_CardinalityType DEF Rank
    <2>3. c \in S /\ c \notin {d \in S : d < c}
      OBVIOUS
    <2>4. Rank(S, c) # Cardinality(S)
      BY <2>3, FS_Subset DEF Rank
    <2>5. QED
      BY <1>1, <2>1, <2>2, <2>4
  <1>3. \A c \in S : Rank(S, c) \in Nat /\ Rank(S, c) < Cardinality(S)
    BY ONLY <1>2
  <1>4. ASSUME NEW c \in S, NEW d \in S, c < d
        PROVE  Rank(S, c) < Rank(S, d)
    <2> DEFINE U == {x \in S : x < c}
               V == {x \in S : x < d}
    <2>1. U \in SUBSET V /\ c \in V /\ c \notin U
      <3>1. \A x \in S : x \in Nat
        OBVIOUS
      <3>2. \A x \in S : x < c => x < d
        BY ONLY <1>4, <3>1
      <3>3. c \in V /\ c \notin U
        BY ONLY <1>4, <3>1
      <3>4. QED
        BY <3>2, <3>3
    <2>2. IsFiniteSet(V) /\ IsFiniteSet(U) /\ Rank(S, c) \in Nat /\ Rank(S, d) \in Nat
      BY <1>2
    <2>3. Rank(S, c) = Cardinality(U) /\ Rank(S, d) = Cardinality(V)
      BY DEF Rank
    <2> HIDE DEF U, V
    <2>4. Cardinality(U) <= Cardinality(V) /\ Cardinality(U) # Cardinality(V)
      BY <2>1, <2>2, FS_Subset
    <2>5. QED
      BY ONLY <2>2, <2>3, <2>4
  <1>5. \A c, d \in S : c < d => Rank(S, c) < Rank(S, d)
    BY <1>4
  <1>6. ASSUME NEW n \in 0 .. Cardinality(S) - 1
        PROVE  \E c \in S : Rank(S, c) = n
    <2> DEFINE T == 0 .. Cardinality(S) - 1
               f == [c \in S |-> Rank(S, c)]
    <2>1. IsFiniteSet(T) /\ Cardinality(T) = Cardinality(S)
      BY <1>1, FS_Interval
    <2>2. \A c \in S : Rank(S, c) \in T
      BY ONLY <1>1, <1>3
    <2>3. \A c, d \in S : Rank(S, c) = Rank(S, d) => c = d
      <3>1. \A c \in S : c \in Nat
        OBVIOUS
      <3>2. QED
        BY ONLY <1>3, <1>5, <3>1
    <2>4. f \in Injection(S, T)
      BY <2>2, <2>3 DEF Injection, IsInjective
    <2> HIDE DEF T
    <2>5. f \in Surjection(S, T)
      BY <2>1, <2>4, FS_Injection
    <2>6. \E c \in S : f[c] = n
      BY <2>5 DEF Surjection, T
    <2>7. QED
      BY <2>6
  <1>7. QED
    BY <1>1, <1>3, <1>5, <1>6

\* A set of positions that is not empty has a last one, which Max names.
LEMMA MaxIs ==
    ASSUME NEW k \in Nat, NEW S \in SUBSET (1 .. k), S # {}
    PROVE  Max(S) \in S /\ \A x \in S : x <= Max(S)
  <1>1. S \in SUBSET Nat /\ IsFiniteSet(S)
    <2>1. IsFiniteSet(1 .. k)
      BY FS_Interval
    <2>2. \A x \in 1 .. k : x \in Nat
      OBVIOUS
    <2>3. QED
      BY <2>1, <2>2, FS_Subset
  <1>2. Cardinality(S) \in Nat /\ Cardinality(S) # 0
    BY <1>1, FS_CardinalityType, FS_EmptySet
  <1>3. PICK c \in S : Rank(S, c) = Cardinality(S) - 1
    BY <1>1, <1>2, Places
  <1>4. \A x \in S : x <= c
    <2>1. \A x \in S : ~(c < x)
      <3>1. \A x \in S : c < x => Rank(S, c) < Rank(S, x)
        BY <1>1, Places
      <3>2. \A x \in S : Rank(S, x) \in Nat /\ Rank(S, x) < Cardinality(S)
        BY <1>1, Places
      <3>3. QED
        BY ONLY <1>2, <1>3, <3>1, <3>2
    <2>2. \A x \in S : x \in Nat
      BY <1>1
    <2>3. QED
      BY ONLY <2>1, <2>2, <1>3
  <1>5. \E x \in S : \A y \in S : x >= y
    BY <1>1, <1>4
  <1>6. QED
    BY <1>1, <1>5 DEF Max

LEMMA MinOfTwo ==
    ASSUME NEW m \in Nat, NEW n \in Nat
    PROVE  Min({m, n}) = IF m <= n THEN m ELSE n
  BY DEF Min

\* Entries added in turn are positions of the set.
LEMMA InTurnIs ==
    ASSUME NEW S \in SUBSET Nat, IsFiniteSet(S)
    PROVE  InTurn(S) \in Seq(Nat)
  <1>1. Cardinality(S) \in Nat
    BY FS_CardinalityType
  <1>2. ASSUME NEW k \in 1 .. Cardinality(S)
        PROVE  (CHOOSE n \in S : Rank(S, n) = k - 1) \in Nat
    <2>1. k - 1 \in 0 .. Cardinality(S) - 1
      BY <1>1
    <2>2. \E n \in S : Rank(S, n) = k - 1
      BY <2>1, Places
    <2>3. QED
      BY <2>2
  <1>3. InTurn(S) = [k \in 1 .. Cardinality(S) |-> CHOOSE n \in S : Rank(S, n) = k - 1]
    BY DEF InTurn, Rank
  <1> DEFINE N == Cardinality(S)
             s == InTurn(S)
  <1>4. s \in [1 .. N -> Nat] /\ N \in Nat
    BY <1>1, <1>2, <1>3
  <1> HIDE DEF N, s
  <1>5. s \in Seq(Nat)
    BY ONLY <1>4
  <1>6. QED
    BY <1>5 DEF s

LEMMA InTurnNothing == InTurn({}) = <<>>
  BY FS_EmptySet DEF InTurn

LEMMA InTurnOne ==
    ASSUME NEW n \in Nat
    PROVE  InTurn({n}) = <<n>>
  <1>1. Cardinality({n}) = 1
    BY FS_Singleton
  <1>2. {m \in {n} : m < n} = {} /\ Cardinality({}) = 0
    BY FS_EmptySet
  <1>3. (CHOOSE x \in {n} : Cardinality({m \in {n} : m < x}) = 0) = n
    BY <1>2
  <1>4. InTurn({n}) = [k \in 1 .. 1 |-> n]
    <2>1. \A k \in 1 .. 1 : k - 1 = 0
      OBVIOUS
    <2>2. QED
      BY <1>1, <1>3, <2>1 DEF InTurn
  <1>5. QED
    BY <1>4

-------------------------------------------------------------------------------
(* Runs and lanes *)

LEMMA SeqFacts ==
    ASSUME NEW S, NEW s \in Seq(S)
    PROVE  Len(s) \in Nat /\ DOMAIN s = 1 .. Len(s) /\ \A n \in 1 .. Len(s) : s[n] \in S
  OBVIOUS

LEMMA RowFacts ==
    ASSUME Types
    PROVE  /\ b_nnz \in Nat
           /\ \A n \in Nat : n < b_nnz => Col(n) \in 0 .. b_cols - 1 /\ Col(n) \in Nat
  <1>1. b_col_idx \in Seq(0 .. b_cols - 1)
    BY AccumAssumption DEF Types
  <1>2. b_nnz \in Nat /\ \A k \in 1 .. b_nnz : b_col_idx[k] \in 0 .. b_cols - 1
    BY <1>1, SeqFacts DEF b_nnz
  <1>3. \A n \in Nat : n < b_nnz => n + 1 \in 1 .. b_nnz
    BY <1>2
  <1>4. QED
    BY <1>2, <1>3, Constants DEF Col

\* r entries from entry n on have consecutive columns.
IsRun(n, r) == \A k \in 0 .. r - 1 : Col(n + k) = Col(n) + k

\* RunAt is the longest run at an entry.
LEMMA RunAtIs ==
    ASSUME Types, NEW n \in Nat, n < b_nnz
    PROVE  /\ RunAt(n) \in Nat /\ RunAt(n) >= 1 /\ n + RunAt(n) <= b_nnz
           /\ IsRun(n, RunAt(n))
           /\ \A r \in Nat : r >= 1 /\ n + r <= b_nnz /\ IsRun(n, r) => r <= RunAt(n)
  <1> DEFINE S == {r \in 1 .. b_nnz - n : IsRun(n, r)}
  <1>1. b_nnz \in Nat /\ b_nnz - n \in Nat /\ Col(n) \in Nat
    BY RowFacts
  <1>2. RunAt(n) = Max(S)
    BY DEF RunAt, IsRun
  <1>3. 1 \in S
    <2>1. 1 \in 1 .. b_nnz - n
      BY <1>1
    <2>2. \A k \in 0 .. 1 - 1 : k = 0
      OBVIOUS
    <2>3. IsRun(n, 1)
      BY <1>1, <2>2 DEF IsRun
    <2>4. QED
      BY <2>1, <2>3
  <1>4. S \in SUBSET (1 .. b_nnz - n) /\ \A r : r \in S <=> r \in 1 .. b_nnz - n /\ IsRun(n, r)
    OBVIOUS
  <1> HIDE DEF S
  <1>5. Max(S) \in S /\ \A x \in S : x <= Max(S)
    BY <1>1, <1>3, <1>4, MaxIs
  <1>6. Max(S) \in 1 .. b_nnz - n /\ IsRun(n, Max(S))
    BY <1>4, <1>5
  <1>7. \A r \in Nat : r >= 1 /\ n + r <= b_nnz /\ IsRun(n, r) => r \in S
    BY <1>1, <1>4
  <1>8. RunAt(n) \in Nat /\ RunAt(n) >= 1 /\ n + RunAt(n) <= b_nnz
    BY ONLY <1>1, <1>2, <1>6, n \in Nat
  <1>9. QED
    BY <1>2, <1>5, <1>6, <1>7, <1>8

\* A run that starts inside another one ends with it or before.
LEMMA InsideARun ==
    ASSUME Types, NEW n \in Nat, n < b_nnz, NEW m \in Nat, n <= m, m < n + RunAt(n)
    PROVE  m < b_nnz /\ (m - n) + RunAt(m) <= RunAt(n)
  <1>1. /\ b_nnz \in Nat /\ RunAt(n) \in Nat /\ n + RunAt(n) <= b_nnz /\ IsRun(n, RunAt(n))
        /\ Col(n) \in Nat
    BY RowFacts, RunAtIs
  <1>2. m < b_nnz
    BY <1>1
  <1>3. /\ RunAt(m) \in Nat /\ RunAt(m) >= 1 /\ m + RunAt(m) <= b_nnz /\ IsRun(m, RunAt(m))
    BY <1>2, RunAtIs
  <1> DEFINE d == m - n
             r == d + RunAt(m)
  <1>4. d \in Nat /\ d < RunAt(n) /\ m = n + d /\ r \in Nat /\ r >= 1 /\ n + r <= b_nnz
    BY <1>1, <1>3
  <1> HIDE DEF d
  <1>5. Col(m) = Col(n) + d
    BY <1>1, <1>4 DEF IsRun
  <1>6. ASSUME NEW k \in 0 .. r - 1
        PROVE  Col(n + k) = Col(n) + k
    <2>1. CASE k < d
      BY <1>1, <1>4, <2>1 DEF IsRun
    <2>2. CASE ~(k < d)
      <3> DEFINE j == k - d
      <3>1. j \in 0 .. RunAt(m) - 1 /\ n + k = m + j /\ k = d + j /\ j \in Nat
        BY <1>3, <1>4, <2>2
      <3> HIDE DEF j
      <3>2. Col(m + j) = Col(m) + j
        BY <1>3, <3>1 DEF IsRun
      <3>3. QED
        BY ONLY <1>1, <1>4, <1>5, <3>1, <3>2
    <2>3. QED
      BY <2>1, <2>2
  <1>7. IsRun(n, r)
    BY <1>6 DEF IsRun
  <1>8. QED
    BY <1>2, <1>4, <1>7, RunAtIs DEF d

\* Two entries make a run when their columns follow each other.
LEMMA LoneEntry ==
    ASSUME Types, NEW n \in Nat, n + 1 < b_nnz, Col(n + 1) # Col(n) + 1
    PROVE  RunAt(n) = 1
  <1>1. n < b_nnz /\ b_nnz \in Nat
    BY RowFacts
  <1>2. RunAt(n) \in Nat /\ RunAt(n) >= 1 /\ IsRun(n, RunAt(n))
    BY <1>1, RunAtIs
  <1>3. RunAt(n) >= 2 => 1 \in 0 .. RunAt(n) - 1
    BY <1>2
  <1>4. ~(RunAt(n) >= 2)
    BY <1>2, <1>3 DEF IsRun
  <1>5. QED
    BY <1>2, <1>4

LEMMA LimitIs ==
    ASSUME Types, p < b_nnz
    PROVE  /\ Limit \in Nat /\ Limit >= 1 /\ p + Limit <= b_nnz
  <1>1. b_nnz \in Nat /\ p \in Nat /\ b_nnz - p \in Nat /\ b_nnz - p >= 1
    BY RowFacts DEF Types
  <1>2. Limit = IF b_nnz - p <= SCAN_AHEAD THEN b_nnz - p ELSE SCAN_AHEAD
    BY <1>1, Constants, MinOfTwo DEF Limit
  <1>3. QED
    BY <1>1, <1>2, Constants

\* A vector has a lane at least, and none for an entry that is not there.
LEMMA LanesAre ==
    ASSUME NEW avl \in Nat, avl >= 1, NEW vlmax \in Nat, vlmax >= 1, NEW vl \in Lanes(avl, vlmax)
    PROVE  vl \in Nat /\ vl >= 1 /\ vl <= avl /\ vl <= vlmax
  BY DEF Lanes

-------------------------------------------------------------------------------
(* The scan *)

LEMMA SameRow ==
    ASSUME UNCHANGED b_col_idx
    PROVE  b_nnz' = b_nnz /\ \A n : Col(n)' = Col(n) /\ RunAt(n)' = RunAt(n)
  BY DEF b_nnz, Col, RunAt

LEMMA FoundNext ==
    ASSUME UNCHANGED b_col_idx
    PROVE  RunsAreFound' <=>
             /\ pc' = "scan" => \A n \in 0 .. i' - 1 :
                  n + CONTIG_MIN <= Limit' => RunAt(p' + n) < CONTIG_MIN
             /\ pc' = "span" /\ span'.kind = "contig" =>
                  RunAt(span'.first) = span'.end - span'.first
  <1>1. \A n : RunAt(p + n)' = RunAt(p' + n)
    BY DEF RunAt, Col, b_nnz
  <1>2. RunAt(span.first)' = RunAt(span'.first)
    BY DEF RunAt, Col, b_nnz
  <1>3. QED
    BY <1>1, <1>2 DEF RunsAreFound

LEMMA TypesAre ==
    ASSUME Types
    PROVE  /\ b_nnz \in Nat /\ p \in Nat /\ q \in Nat /\ i \in Nat
           /\ p <= b_nnz /\ q <= b_nnz /\ i <= b_nnz
           /\ pc \in {"enter", "loop", "scan", "span", "done"}
  BY RowFacts DEF Types

\* A span that begins where the last one ended, and is a run if it says so.
LEMMA ExecuteStep ==
    ASSUME Types, NEW kind, NEW end \in Nat, Execute(kind, p, end), p <= end, end <= b_nnz,
           kind = "contig" => RunAt(p) = end - p
    PROVE  Inv'
  <1>1. /\ pc' = "span" /\ q' = p /\ UNCHANGED <<algo, b_col_idx, p, i, acc>>
        /\ span' = [kind |-> kind, first |-> p, end |-> end]
    BY DEF Execute
  <1>2. span'.kind = kind /\ span'.first = p /\ span'.end = end /\ b_nnz' = b_nnz
    BY <1>1, SameRow
  <1>3. RunsAreFound'
    BY <1>1, <1>2, FoundNext
  <1>4. Types'
    BY <1>1, <1>2, TypesAre DEF Types
  <1>5. q' >= p' /\ q' <= span'.end
    BY <1>1, <1>2, TypesAre
  <1>6. QED
    BY <1>1, <1>2, <1>3, <1>4, <1>5 DEF Inv, ScanInv

LEMMA EnterStep ==
    ASSUME Inv, EnterWhole \/ EnterLoop
    PROVE  Inv'
  <1>1. Types /\ pc = "enter" /\ p = 0 /\ b_nnz \in Nat /\ p <= b_nnz
    BY TypesAre DEF Inv, ScanInv, EnterWhole, EnterLoop
  <1>2. CASE EnterWhole
    <2>1. \E kind \in {"scalar", "gather"} : Execute(kind, p, b_nnz)
      BY <1>1, <1>2 DEF EnterWhole, Irregular
    <2>2. PICK kind \in {"scalar", "gather"} : Execute(kind, p, b_nnz)
      BY <2>1
    <2>3. kind # "contig" /\ b_nnz <= b_nnz
      BY <1>1
    <2>4. QED
      BY <1>1, <2>2, <2>3, ExecuteStep
  <1>3. CASE EnterLoop
    <2>1. pc' = "loop" /\ UNCHANGED <<algo, b_col_idx, p, i, span, q, acc>>
      BY <1>3 DEF EnterLoop
    <2>2. Types' /\ RunsAreFound'
      BY <1>1, <2>1, SameRow, FoundNext DEF Types
    <2>3. QED
      BY <2>1, <2>2 DEF Inv, ScanInv
  <1>4. QED
    BY <1>2, <1>3

LEMMA ScanSteps ==
    ASSUME Inv, StartScan \/ ScanEnds \/ ScanFinds
    PROVE  Inv'
  <1>1. /\ Types /\ p < b_nnz /\ b_nnz \in Nat /\ p \in Nat /\ i \in Nat
        /\ Limit \in Nat /\ Limit >= 1 /\ p + Limit <= b_nnz
    <2>1. Types /\ p < b_nnz
      BY DEF Inv, ScanInv, StartScan, ScanEnds, ScanFinds
    <2>2. QED
      BY <2>1, TypesAre, LimitIs
  <1>2. CASE (StartScan /\ Limit < CONTIG_MIN) \/ ScanEnds
    <2>1. PICK kind \in {"scalar", "gather"} : Execute(kind, p, p + Limit)
      BY <1>2 DEF StartScan, ScanEnds, Irregular
    <2>2. p + Limit \in Nat /\ p <= p + Limit /\ kind # "contig"
      BY <1>1
    <2>3. QED
      BY <1>1, <2>1, <2>2, ExecuteStep
  <1>3. CASE StartScan /\ ~(Limit < CONTIG_MIN)
    <2>1. pc' = "scan" /\ i' = 0 /\ UNCHANGED <<algo, b_col_idx, p, span, q, acc>>
      BY <1>3 DEF StartScan
    <2>2. b_nnz' = b_nnz /\ p + 0 <= b_nnz /\ 0 <= b_nnz /\ 0 .. 0 - 1 = {}
      BY <1>1, <2>1, SameRow
    <2>3. RunsAreFound'
      BY <2>1, <2>2, FoundNext
    <2>4. Types'
      BY <1>1, <2>1, <2>2 DEF Types
    <2>5. QED
      BY <1>1, <2>1, <2>2, <2>3, <2>4 DEF Inv, ScanInv
  <1>4. CASE ScanFinds /\ i > 0
    <2>1. PICK kind \in {"scalar", "gather"} : Execute(kind, p, p + i)
      BY <1>4 DEF ScanFinds, Irregular
    <2>2. i + CONTIG_MIN <= Limit
      BY <1>4 DEF ScanFinds
    <2>3. p + i \in Nat /\ p <= p + i /\ p + i <= b_nnz /\ kind # "contig"
      BY <1>1, <2>2, Constants
    <2>4. QED
      BY <1>1, <2>1, <2>3, ExecuteStep
  <1>5. CASE ScanFinds /\ ~(i > 0)
    <2>1. Execute("contig", p, p + RunAt(p))
      BY <1>5 DEF ScanFinds
    <2>2. RunAt(p) \in Nat /\ p + RunAt(p) <= b_nnz
      BY <1>1, RunAtIs
    <2>3. p + RunAt(p) \in Nat /\ p <= p + RunAt(p) /\ RunAt(p) = (p + RunAt(p)) - p
      BY <1>1, <2>2
    <2>4. QED
      BY <1>1, <2>1, <2>2, <2>3, ExecuteStep
  <1>6. QED
    BY <1>2, <1>3, <1>4, <1>5

\* What the scan passes over with a short run holds no long one.
LEMMA ScanAdvancesStep ==
    ASSUME Inv, ScanAdvances
    PROVE  Inv'
  <1>1. /\ Types /\ pc = "scan" /\ p < b_nnz /\ p + i <= b_nnz /\ RunsAreFound
        /\ b_nnz \in Nat /\ p \in Nat /\ i \in Nat /\ i + CONTIG_MIN <= Limit
        /\ i' = Advanced /\ UNCHANGED <<algo, b_col_idx, pc, p, span, q, acc>>
    BY TypesAre DEF Inv, ScanInv, ScanAdvances
  <1>2. Limit \in Nat /\ p + Limit <= b_nnz /\ CONTIG_MIN \in Nat /\ CONTIG_MIN >= 2
    BY <1>1, LimitIs, Constants
  <1>3. p + i + 1 < b_nnz /\ p + i < b_nnz /\ p + i \in Nat
    BY ONLY <1>1, <1>2
  <1>4. /\ RunAt(p + i) \in Nat /\ RunAt(p + i) >= 1 /\ (p + i) + RunAt(p + i) <= b_nnz
        /\ RunAt(p + i) < CONTIG_MIN /\ i' = i + RunAt(p + i)
    <2>1. RunAt(p + i) \in Nat /\ RunAt(p + i) >= 1 /\ (p + i) + RunAt(p + i) <= b_nnz
      BY <1>1, <1>3, RunAtIs
    <2>2. CASE Consecutive
      BY <1>1, <2>1, <2>2 DEF ScanAdvances, Advanced
    <2>3. CASE ~Consecutive
      <3>1. RunAt(p + i) = 1
        BY <1>1, <1>3, <2>3, LoneEntry DEF Consecutive
      <3>2. i' = i + 1
        BY <1>1, <2>3 DEF Advanced
      <3>3. QED
        BY <1>2, <2>1, <3>1, <3>2
    <2>4. QED
      BY <2>2, <2>3
  <1>5. ASSUME NEW k \in 0 .. i' - 1, k + CONTIG_MIN <= Limit
        PROVE  RunAt(p + k) < CONTIG_MIN
    <2>1. CASE k < i
      <3>1. k \in 0 .. i - 1
        BY <1>1, <1>4, <2>1
      <3>2. QED
        BY <1>1, <1>5, <3>1 DEF RunsAreFound
    <2>2. CASE ~(k < i)
      <3>1. /\ p + k \in Nat /\ p + i <= p + k /\ p + k < (p + i) + RunAt(p + i)
            /\ (p + k) - (p + i) \in Nat /\ k \in Nat
        BY ONLY <1>1, <1>4, <2>2, k \in 0 .. i' - 1
      <3>2. /\ (p + k) - (p + i) + RunAt(p + k) <= RunAt(p + i) /\ p + k < b_nnz
        BY <1>1, <1>3, <3>1, InsideARun
      <3>3. RunAt(p + k) \in Nat
        BY <1>1, <3>1, <3>2, RunAtIs
      <3>4. QED
        BY ONLY <1>2, <1>4, <3>1, <3>2, <3>3
    <2>3. QED
      BY <2>1, <2>2
  <1>6. Limit' = Limit /\ b_nnz' = b_nnz
    BY <1>1, SameRow DEF Limit
  <1>7. RunsAreFound'
    BY <1>1, <1>5, <1>6, FoundNext
  <1>8. i' \in Nat /\ i' <= b_nnz /\ p + i' <= b_nnz
    BY ONLY <1>1, <1>4
  <1>9. Types'
    BY <1>1, <1>6, <1>8 DEF Types
  <1>10. QED
    BY <1>1, <1>6, <1>7, <1>8, <1>9 DEF Inv, ScanInv

-------------------------------------------------------------------------------
(* The spans *)

\* What a scalar step or a vector takes is in the span, and at least one entry.
LEMMA StepsForward ==
    ASSUME Inv, pc = "span", q < span.end
    PROVE  /\ p \in Nat /\ q \in Nat /\ span.end \in Nat /\ span.end <= b_nnz /\ b_nnz \in Nat
           /\ \A vl \in Lanes(span.end - q, VLMAX_M2) \cup Lanes(span.end - q, VLMAX_M4) :
                vl \in Nat /\ vl >= 1 /\ q + vl <= span.end
           /\ \A vl \in Lanes(span.end - q, VLMAX_M2) : vl <= VLMAX_M2
           /\ LET n == IF q + UNROLL <= span.end THEN UNROLL ELSE 1
              IN  n \in Nat /\ n >= 1 /\ q + n <= span.end
  <1>1. /\ p \in Nat /\ q \in Nat /\ span.end \in Nat /\ span.end <= b_nnz /\ b_nnz \in Nat
    BY TypesAre DEF Inv, ScanInv
  <1>2. span.end - q \in Nat /\ span.end - q >= 1
    BY <1>1
  <1>3. /\ VLMAX_M2 \in Nat /\ VLMAX_M2 >= 1 /\ VLMAX_M4 \in Nat /\ VLMAX_M4 >= 1
        /\ UNROLL \in Nat /\ UNROLL >= 1
    BY Constants
  <1>4. ASSUME NEW vl \in Lanes(span.end - q, VLMAX_M2)
        PROVE  vl \in Nat /\ vl >= 1 /\ q + vl <= span.end /\ vl <= VLMAX_M2
    <2>1. vl \in Nat /\ vl >= 1 /\ vl <= span.end - q /\ vl <= VLMAX_M2
      BY <1>2, <1>3, LanesAre
    <2>2. QED
      BY ONLY <1>1, <2>1
  <1>5. ASSUME NEW vl \in Lanes(span.end - q, VLMAX_M4)
        PROVE  vl \in Nat /\ vl >= 1 /\ q + vl <= span.end
    <2>1. vl \in Nat /\ vl >= 1 /\ vl <= span.end - q
      BY <1>2, <1>3, LanesAre
    <2>2. QED
      BY ONLY <1>1, <2>1
  <1>6. LET n == IF q + UNROLL <= span.end THEN UNROLL ELSE 1
        IN  n \in Nat /\ n >= 1 /\ q + n <= span.end
    BY ONLY <1>1, <1>2, <1>3
  <1>7. QED
    BY <1>1, <1>4, <1>5, <1>6

\* Part of a span is done, with sums that are still sequences of positions.
LEMMA SpanPart ==
    ASSUME Inv, pc = "span", NEW next \in Nat, next >= q, next <= span.end, Advance(next),
           acc' \in [0 .. b_cols - 1 -> Seq(Nat)]
    PROVE  Inv'
  <1>1. /\ q' = next /\ UNCHANGED <<algo, b_col_idx, pc, p, i, span>> /\ b_nnz' = b_nnz
    BY SameRow DEF Advance
  <1>2. /\ Types /\ ScanInv /\ p \in Nat /\ q \in Nat /\ span.end \in Nat /\ b_nnz \in Nat
        /\ p <= q /\ span.end <= b_nnz
    BY TypesAre DEF Inv, ScanInv
  <1>3. next <= b_nnz /\ next >= p
    BY ONLY <1>2, next \in Nat, next >= q, next <= span.end
  <1>4. RunsAreFound'
    <2>1. RunsAreFound
      BY <1>2 DEF ScanInv
    <2>2. QED
      BY <1>1, <2>1, FoundNext DEF RunsAreFound
  <1>5. Types'
    BY <1>1, <1>2, <1>3 DEF Types
  <1>6. QED
    BY <1>1, <1>2, <1>3, <1>4, <1>5 DEF Inv, ScanInv

LEMMA InTurnTypes ==
    ASSUME Types, NEW first \in Nat, NEW end \in Nat
    PROVE  AddedInTurn(first, end) \in [0 .. b_cols - 1 -> Seq(Nat)]
  <1>1. ASSUME NEW c
        PROVE  InTurn({n \in first .. end - 1 : Col(n) = c}) \in Seq(Nat)
    <2> DEFINE S == {n \in first .. end - 1 : Col(n) = c}
    <2>1. IsFiniteSet(first .. end - 1)
      BY FS_Interval
    <2>2. S \in SUBSET (first .. end - 1) /\ S \in SUBSET Nat
      OBVIOUS
    <2> HIDE DEF S
    <2>3. IsFiniteSet(S)
      BY <2>1, <2>2, FS_Subset
    <2>4. InTurn(S) \in Seq(Nat)
      BY <2>2, <2>3, InTurnIs
    <2>5. QED
      BY <2>4 DEF S
  <1>2. acc \in [0 .. b_cols - 1 -> Seq(Nat)]
    BY DEF Types
  <1>3. \A c \in 0 .. b_cols - 1 :
          acc[c] \o InTurn({n \in first .. end - 1 : Col(n) = c}) \in Seq(Nat)
    <2>1. \A s, t \in Seq(Nat) : s \o t \in Seq(Nat)
      OBVIOUS
    <2>2. QED
      BY <1>1, <1>2, <2>1
  <1>4. QED
    BY <1>2, <1>3 DEF AddedInTurn

\* A vector adds to each of its slots the entry of one of the lanes on it.
LEMMA AtOnceIs ==
    ASSUME Types, NEW first \in Nat, NEW end \in Nat, NEW slot,
           acc' \in AddedAtOnce(first, end, slot)
    PROVE  /\ acc' \in [0 .. b_cols - 1 -> Seq(Nat)]
           /\ \A c \in 0 .. b_cols - 1 :
                \/ /\ \A n \in first .. end - 1 : slot[n] # c
                   /\ acc'[c] = acc[c]
                \/ \E n \in first .. end - 1 : slot[n] = c /\ acc'[c] = Append(acc[c], n)
  <1> DEFINE slots == {slot[n] : n \in first .. end - 1}
  <1>1. PICK w \in [slots -> first .. end - 1] :
          /\ \A c \in slots : slot[w[c]] = c
          /\ acc' = [c \in DOMAIN acc |-> IF c \in slots THEN Plus(acc[c], w[c]) ELSE acc[c]]
    BY DEF AddedAtOnce
  <1>2. acc \in [0 .. b_cols - 1 -> Seq(Nat)] /\ DOMAIN acc = 0 .. b_cols - 1
    BY DEF Types
  <1>3. \A c \in slots : w[c] \in first .. end - 1 /\ w[c] \in Nat
    BY <1>1
  <1>4. \A c : c \notin slots => \A n \in first .. end - 1 : slot[n] # c
    OBVIOUS
  <1> HIDE DEF slots
  <1>5. ASSUME NEW c \in 0 .. b_cols - 1
        PROVE  /\ acc'[c] \in Seq(Nat)
               /\ \/ /\ \A n \in first .. end - 1 : slot[n] # c
                     /\ acc'[c] = acc[c]
                  \/ \E n \in first .. end - 1 : slot[n] = c /\ acc'[c] = Append(acc[c], n)
    <2>1. CASE c \in slots
      <3>1. acc'[c] = Append(acc[c], w[c]) /\ slot[w[c]] = c
        BY <1>1, <1>2, <2>1 DEF Plus
      <3>2. Append(acc[c], w[c]) \in Seq(Nat)
        BY <1>2, <1>3, <2>1
      <3>3. QED
        BY <1>3, <2>1, <3>1, <3>2
    <2>2. CASE c \notin slots
      BY <1>1, <1>2, <1>4, <2>2
    <2>3. QED
      BY <2>1, <2>2
  <1>6. acc' = [c \in 0 .. b_cols - 1 |-> acc'[c]]
    BY <1>1, <1>2
  <1>7. QED
    BY <1>5, <1>6

LEMMA SpanSteps ==
    ASSUME Inv, ScalarStep \/ GatherStep \/ ContigStep
    PROVE  Inv'
  <1>1. Types /\ pc = "span" /\ q < span.end /\ q \in Nat /\ span.end \in Nat
    BY StepsForward DEF Inv, ScalarStep, GatherStep, ContigStep
  <1>2. CASE ScalarStep
    <2> DEFINE n == IF q + UNROLL <= span.end THEN UNROLL ELSE 1
    <2>1. acc' = AddedInTurn(q, q + n) /\ Advance(q + n)
      BY <1>2 DEF ScalarStep
    <2>2. n \in Nat /\ n >= 1 /\ q + n <= span.end
      BY <1>1, StepsForward
    <2> HIDE DEF n
    <2>3. q + n \in Nat /\ q + n >= q
      BY <1>1, <2>2
    <2>4. acc' \in [0 .. b_cols - 1 -> Seq(Nat)]
      BY <1>1, <2>1, <2>3, InTurnTypes
    <2>5. QED
      BY <1>1, <2>1, <2>2, <2>3, <2>4, SpanPart
  <1>3. CASE GatherStep \/ ContigStep
    <2>1. PICK vl \in Lanes(span.end - q, VLMAX_M2) \cup Lanes(span.end - q, VLMAX_M4) :
            Advance(q + vl) /\ \E slot : acc' \in AddedAtOnce(q, q + vl, slot)
      BY <1>3 DEF GatherStep, ContigStep
    <2>2. vl \in Nat /\ vl >= 1 /\ q + vl <= span.end
      BY <1>1, StepsForward
    <2>3. q + vl \in Nat /\ q + vl >= q
      BY <1>1, <2>2
    <2>4. acc' \in [0 .. b_cols - 1 -> Seq(Nat)]
      BY <1>1, <2>1, <2>3, AtOnceIs
    <2>5. QED
      BY <1>1, <2>1, <2>2, <2>3, <2>4, SpanPart
  <1>4. QED
    BY <1>2, <1>3

LEMMA RowEnds ==
    ASSUME Inv, SpanDone \/ Return \/ UNCHANGED vars
    PROVE  Inv'
  <1>1. Types /\ ScanInv /\ b_nnz \in Nat /\ p \in Nat
    BY TypesAre DEF Inv
  <1>2. CASE SpanDone
    <2>1. /\ pc = "span" /\ pc' = "loop" /\ p' = span.end
          /\ UNCHANGED <<algo, b_col_idx, i, q, acc>>
      BY <1>2 DEF SpanDone, AfterSpan
    <2>2. b_nnz' = b_nnz /\ span.end \in Nat /\ span.end <= b_nnz
      BY <1>1, <2>1, SameRow DEF ScanInv
    <2>3. Types' /\ RunsAreFound'
      BY <1>1, <2>1, <2>2, FoundNext DEF Types
    <2>4. QED
      BY <2>1, <2>3 DEF Inv, ScanInv
  <1>3. CASE Return
    <2>1. /\ pc' = "done" /\ p >= b_nnz /\ UNCHANGED <<algo, b_col_idx, p, i, span, q, acc>>
      BY <1>3 DEF Return
    <2>2. b_nnz' = b_nnz /\ p = b_nnz
      BY <1>1, <2>1, SameRow DEF Types
    <2>3. Types' /\ RunsAreFound'
      BY <1>1, <2>1, <2>2, FoundNext DEF Types
    <2>4. QED
      BY <2>1, <2>2, <2>3 DEF Inv, ScanInv
  <1>4. CASE UNCHANGED vars
    <2>1. UNCHANGED <<algo, b_col_idx, pc, p, i, span, q, acc>>
      BY <1>4 DEF vars
    <2>2. b_nnz' = b_nnz /\ Limit' = Limit
      BY <2>1, SameRow DEF Limit
    <2>3. RunsAreFound'
      BY <1>1, <2>1, <2>2, FoundNext DEF ScanInv, RunsAreFound
    <2>4. QED
      BY <1>1, <2>1, <2>2, <2>3 DEF Inv, ScanInv, Types
  <1>5. QED
    BY <1>2, <1>3, <1>4

LEMMA StepInv ==
    ASSUME Inv, [Next]_vars
    PROVE  Inv'
  BY EnterStep, ScanSteps, ScanAdvancesStep, SpanSteps, RowEnds DEF Next

LEMMA InitInv ==
    ASSUME Init
    PROVE  Inv
  <1>1. b_nnz \in Nat
    BY AccumAssumption, SeqFacts DEF Init, b_nnz
  <1>2. acc \in [0 .. b_cols - 1 -> Seq(Nat)]
    BY DEF Init
  <1>3. QED
    BY <1>1, <1>2 DEF Init, Inv, Types, ScanInv, RunsAreFound

\* The row is cut as the scan promises, whatever the row holds.
THEOREM SpecInv == Spec => []Inv
  <1>1. Init => Inv
    BY InitInv
  <1>2. Inv /\ [Next]_vars => Inv'
    BY StepInv
  <1>3. QED
    BY <1>1, <1>2, PTL DEF Spec

\* rvsp_next_contig_run: no entry behind the row is read, the spans follow each
\* other to its end, and no run that starts early enough is missed.
THEOREM RunsAreNotMissed == Spec => []ScanIsRight
  <1>1. ASSUME Inv
        PROVE  ScanIsRight
    <2>1. Types /\ ScanInv /\ RunsAreFound
      BY <1>1 DEF Inv, ScanInv
    <2>2. /\ b_nnz \in Nat /\ p \in Nat /\ q \in Nat /\ i \in Nat
          /\ p <= b_nnz /\ q <= b_nnz /\ i <= b_nnz
      BY <2>1, TypesAre
    <2>3. p \in 0 .. b_nnz /\ q \in 0 .. b_nnz /\ i \in 0 .. b_nnz
      BY ONLY <2>2
    <2>4. pc = "scan" /\ i + CONTIG_MIN <= Limit => p + i + 1 < b_nnz
      <3>1. pc = "scan" => Limit \in Nat /\ p + Limit <= b_nnz
        BY <2>1, LimitIs DEF ScanInv
      <3>2. CONTIG_MIN \in Nat /\ CONTIG_MIN >= 2
        BY Constants
      <3>3. QED
        BY ONLY <2>2, <3>1, <3>2
    <2>5. pc = "span" => span.first = p /\ span.end <= b_nnz /\ q \in p .. span.end
      <3>1. pc = "span" => /\ span.first = p /\ span.end \in Nat /\ span.end <= b_nnz
                           /\ q >= p /\ q <= span.end
        BY <2>1 DEF ScanInv
      <3>2. QED
        BY ONLY <2>2, <3>1
    <2>6. TypeOK
      BY <2>1, <2>3, <2>4, <2>5 DEF TypeOK, Types
    <2>7. QED
      BY <2>1, <2>6 DEF ScanIsRight
  <1>2. QED
    BY <1>1, SpecInv, PTL

-------------------------------------------------------------------------------
(* The sums *)

\* In a canonical row a column belongs to one entry.
LEMMA OneEntry ==
    ASSUME NoRepeats, Types, NEW m \in Nat, m < b_nnz, NEW n \in Nat, n < b_nnz, Col(m) = Col(n)
    PROVE  m = n
  <1>1. DOMAIN b_col_idx = 1 .. b_nnz /\ b_nnz \in Nat
    BY AccumAssumption, SeqFacts DEF Types, b_nnz
  <1>2. m + 1 \in DOMAIN b_col_idx /\ n + 1 \in DOMAIN b_col_idx
    BY <1>1
  <1>3. b_col_idx[m + 1] = b_col_idx[n + 1] => m + 1 = n + 1
    BY <1>2 DEF NoRepeats, Types
  <1>4. QED
    BY <1>3 DEF Col

\* Offsets that fit reach the column's own slot.
LEMMA OwnSlot ==
    ASSUME OffsetsFit, NEW c \in 0 .. b_cols - 1
    PROVE  Slot(c) = c
  <1>1. c \in Nat /\ 4 * c < OFFSET_RANGE /\ OFFSET_RANGE \in Nat /\ c * 4 = 4 * c
    BY Constants DEF OffsetsFit
  <1> DEFINE x == c * 4
  <1>2. x \in Nat /\ x < OFFSET_RANGE
    BY <1>1
  <1> HIDE DEF x
  <1>3. x % OFFSET_RANGE = x
    BY ONLY <1>1, <1>2
  <1>4. (c * 4) \div 4 = c
    BY ONLY <1>1
  <1>5. QED
    BY <1>3, <1>4 DEF Slot, x

\* The entries from first to end - 1 are added, each to its own sum.
Adds(first, end) ==
    \A c \in 0 .. b_cols - 1 :
      /\ \A n \in first .. end - 1 : Col(n) = c => acc'[c] = Append(acc[c], n)
      /\ (\A n \in first .. end - 1 : Col(n) # c) => acc'[c] = acc[c]

LEMMA InTurnAdds ==
    ASSUME NoRepeats, Types, NEW first \in Nat, NEW end \in Nat, end <= b_nnz,
           acc' = AddedInTurn(first, end)
    PROVE  Adds(first, end)
  <1>1. acc \in [0 .. b_cols - 1 -> Seq(Nat)] /\ b_nnz \in Nat
    BY TypesAre DEF Types
  <1>2. ASSUME NEW c \in 0 .. b_cols - 1
        PROVE  /\ \A n \in first .. end - 1 : Col(n) = c => acc'[c] = Append(acc[c], n)
               /\ (\A n \in first .. end - 1 : Col(n) # c) => acc'[c] = acc[c]
    <2> DEFINE S == {n \in first .. end - 1 : Col(n) = c}
    <2>1. acc'[c] = acc[c] \o InTurn(S) /\ acc[c] \in Seq(Nat)
      BY <1>1 DEF AddedInTurn
    <2>2. \A s \in Seq(Nat) : s \o <<>> = s /\ \A n \in Nat : s \o <<n>> = Append(s, n)
      OBVIOUS
    <2>3. ASSUME NEW n \in first .. end - 1, Col(n) = c
          PROVE  acc'[c] = Append(acc[c], n)
      <3>1. \A m \in first .. end - 1 : m \in Nat /\ m < b_nnz
        BY <1>1
      <3>2. S = {n} /\ n \in Nat
        BY <2>3, <3>1, OneEntry
      <3>3. QED
        BY <2>1, <2>2, <3>2, InTurnOne
    <2>4. ASSUME \A n \in first .. end - 1 : Col(n) # c
          PROVE  acc'[c] = acc[c]
      <3>1. S = {}
        BY <2>4
      <3>2. QED
        BY <2>1, <2>2, <3>1, InTurnNothing
    <2>5. QED
      BY <2>3, <2>4
  <1>3. QED
    BY <1>2 DEF Adds

\* The lanes of a vector are the slots of their columns.
OwnSlots(first, end, slot) == \A n \in first .. end - 1 : slot[n] = Col(n)

LEMMA AtOnceAdds ==
    ASSUME NoRepeats, Types, NEW first \in Nat, NEW end \in Nat, end <= b_nnz, NEW slot,
           acc' \in AddedAtOnce(first, end, slot),
           OwnSlots(first, end, slot)
    PROVE  Adds(first, end)
  <1>1. b_nnz \in Nat
    BY TypesAre
  <1>2. \A m \in first .. end - 1 : m \in Nat /\ m < b_nnz
    BY <1>1
  <1>3. \A c \in 0 .. b_cols - 1 :
          \/ /\ \A n \in first .. end - 1 : Col(n) # c
             /\ acc'[c] = acc[c]
          \/ \E n \in first .. end - 1 : Col(n) = c /\ acc'[c] = Append(acc[c], n)
    <2>1. \A c \in 0 .. b_cols - 1 :
            \/ /\ \A n \in first .. end - 1 : slot[n] # c
               /\ acc'[c] = acc[c]
            \/ \E n \in first .. end - 1 : slot[n] = c /\ acc'[c] = Append(acc[c], n)
      BY AtOnceIs
    <2>2. QED
      BY ONLY <2>1, OwnSlots(first, end, slot) DEF OwnSlots
  <1>4. \A m, n \in first .. end - 1 : Col(m) = Col(n) => m = n
    BY <1>2, OneEntry
  <1>5. QED
    BY ONLY <1>3, <1>4 DEF Adds

\* In each kind of span the step adds the entries it moves over.
LEMMA SpanAdds ==
    ASSUME NoRepeats, OffsetsFit, Inv, ScalarStep \/ GatherStep \/ ContigStep
    PROVE  \E next \in Nat : next >= q /\ next <= b_nnz /\ Advance(next) /\ Adds(q, next)
  <1>1. /\ Types /\ pc = "span" /\ q < span.end /\ q \in Nat /\ span.end \in Nat
        /\ span.end <= b_nnz /\ b_nnz \in Nat /\ p \in Nat
    BY StepsForward DEF Inv, ScalarStep, GatherStep, ContigStep
  <1>2. CASE ScalarStep
    <2> DEFINE n == IF q + UNROLL <= span.end THEN UNROLL ELSE 1
    <2>1. acc' = AddedInTurn(q, q + n) /\ Advance(q + n)
      BY <1>2 DEF ScalarStep
    <2>2. n \in Nat /\ n >= 1 /\ q + n <= span.end
      BY <1>1, StepsForward
    <2> HIDE DEF n
    <2>3. q + n \in Nat /\ q + n >= q /\ q + n <= b_nnz
      BY <1>1, <2>2
    <2>4. Adds(q, q + n)
      BY <1>1, <2>1, <2>3, InTurnAdds
    <2>5. QED
      BY <2>1, <2>3, <2>4
  <1>3. CASE GatherStep
    <2>1. PICK vl \in Lanes(span.end - q, VLMAX_M2) :
            /\ Advance(q + vl)
            /\ acc' \in AddedAtOnce(q, q + vl, [n \in q .. q + vl - 1 |-> Slot(Col(n))])
      BY <1>3 DEF GatherStep
    <2>2. vl \in Nat /\ vl >= 1 /\ q + vl <= span.end
      BY <1>1, StepsForward
    <2>3. q + vl \in Nat /\ q + vl >= q /\ q + vl <= b_nnz
      BY <1>1, <2>2
    <2>4. \A n \in q .. q + vl - 1 : Slot(Col(n)) = Col(n)
      <3>1. \A n \in q .. q + vl - 1 : n \in Nat /\ n < b_nnz
        BY ONLY <1>1, <2>2, <2>3
      <3>2. QED
        BY <1>1, <3>1, RowFacts, OwnSlot
    <2>5. OwnSlots(q, q + vl, [n \in q .. q + vl - 1 |-> Slot(Col(n))])
      <3>1. (q + vl) - 1 = q + vl - 1
        BY ONLY <1>1, <2>2
      <3>2. QED
        BY <2>4, <3>1 DEF OwnSlots
    <2>6. Adds(q, q + vl)
      BY <1>1, <2>1, <2>3, <2>5, AtOnceAdds
    <2>7. QED
      BY <2>1, <2>3, <2>6
  <1>4. CASE ContigStep
    <2>1. PICK vl \in Lanes(span.end - q, VLMAX_M4) :
            /\ Advance(q + vl)
            /\ acc' \in AddedAtOnce(q, q + vl, [n \in q .. q + vl - 1 |-> RunSlot(n)])
      BY <1>4 DEF ContigStep
    <2>2. vl \in Nat /\ vl >= 1 /\ q + vl <= span.end
      BY <1>1, StepsForward
    <2>3. q + vl \in Nat /\ q + vl >= q /\ q + vl <= b_nnz
      BY <1>1, <2>2
    <2>4. \A n \in q .. q + vl - 1 : RunSlot(n) = Col(n)
      <3>1. /\ span.first = p /\ p <= q /\ p < b_nnz /\ RunAt(p) = span.end - p
        BY <1>1, <1>4 DEF Inv, ScanInv, RunsAreFound, ContigStep
      <3>2. \A k \in 0 .. (span.end - p) - 1 : Col(p + k) = Col(p) + k
        BY <1>1, <3>1, RunAtIs DEF IsRun
      <3>3. ASSUME NEW n \in q .. q + vl - 1
            PROVE  RunSlot(n) = Col(n)
        <4> DEFINE k == n - p
        <4>1. k \in 0 .. (span.end - p) - 1 /\ p + k = n
          BY ONLY <1>1, <2>2, <3>1, n \in q .. q + vl - 1
        <4> HIDE DEF k
        <4>2. Col(n) = Col(p) + k
          BY <3>2, <4>1
        <4>3. QED
          BY <3>1, <4>2 DEF RunSlot, k
      <3>4. QED
        BY <3>3
    <2>5. OwnSlots(q, q + vl, [n \in q .. q + vl - 1 |-> RunSlot(n)])
      <3>1. (q + vl) - 1 = q + vl - 1
        BY ONLY <1>1, <2>2
      <3>2. QED
        BY <2>4, <3>1 DEF OwnSlots
    <2>6. Adds(q, q + vl)
      BY <1>1, <2>1, <2>3, <2>5, AtOnceAdds
    <2>7. QED
      BY <2>1, <2>3, <2>6
  <1>5. QED
    BY <1>2, <1>3, <1>4

\* The sums after the first n entries of the row.
SumsOf(n) ==
    \A c \in DOMAIN acc :
        /\ \A m \in 0 .. n - 1 : Col(m) = c => acc[c] = <<m>>
        /\ (\A m \in 0 .. n - 1 : Col(m) # c) => acc[c] = <<>>

LEMMA OnceIs == EachEntryOnce <=> SumsOf(IF pc = "span" THEN q ELSE p)
  BY DEF EachEntryOnce, SumsOf

LEMMA MoreSums ==
    ASSUME NoRepeats, Types, Types', UNCHANGED b_col_idx, NEW next \in Nat, next >= q, next <= b_nnz,
           Adds(q, next), SumsOf(q), q' = next
    PROVE  SumsOf(q)'
  <1>1. /\ DOMAIN acc = 0 .. b_cols - 1 /\ DOMAIN acc' = 0 .. b_cols - 1 /\ q \in Nat
        /\ b_nnz \in Nat
    BY TypesAre DEF Types
  <1>2. \A m \in 0 .. next - 1 : m \in Nat /\ m < b_nnz /\ (m \in 0 .. q - 1 \/ m \in q .. next - 1)
    BY <1>1
  <1>3. \A m \in 0 .. q - 1 : m \in 0 .. next - 1
    BY <1>1
  <1>4. \A m \in q .. next - 1 : m \in 0 .. next - 1 /\ m \notin 0 .. q - 1
    BY <1>1
  <1>5. \A m, n \in 0 .. next - 1 : Col(m) = Col(n) => m = n
    BY <1>2, OneEntry
  <1>6. ASSUME NEW c \in DOMAIN acc', NEW m \in 0 .. next - 1, Col(m) = c
        PROVE  acc'[c] = <<m>>
    <2>1. CASE m \in 0 .. q - 1
      <3>1. acc[c] = <<m>>
        BY <1>1, <1>6, <2>1 DEF SumsOf
      <3>2. \A n \in q .. next - 1 : Col(n) # c
        BY <1>3, <1>4, <1>5, <1>6, <2>1
      <3>3. QED
        BY <1>1, <3>1, <3>2 DEF Adds
    <2>2. CASE m \in q .. next - 1
      <3>1. \A n \in 0 .. q - 1 : Col(n) # c
        BY <1>3, <1>4, <1>5, <1>6, <2>2
      <3>2. acc[c] = <<>>
        BY <1>1, <3>1 DEF SumsOf
      <3>3. acc'[c] = Append(<<>>, m)
        BY <1>1, <1>6, <2>2, <3>2 DEF Adds
      <3>4. QED
        BY <3>3
    <2>3. QED
      BY <1>2, <2>1, <2>2
  <1>7. ASSUME NEW c \in DOMAIN acc', \A m \in 0 .. next - 1 : Col(m) # c
        PROVE  acc'[c] = <<>>
    <2>1. acc[c] = <<>>
      BY <1>1, <1>3, <1>7 DEF SumsOf
    <2>2. \A n \in q .. next - 1 : Col(n) # c
      BY <1>4, <1>7
    <2>3. QED
      BY <1>1, <2>1, <2>2 DEF Adds
  <1>8. QED
    BY <1>6, <1>7 DEF SumsOf, Col

LEMMA OnceStep ==
    ASSUME NoRepeats, OffsetsFit, Inv, Inv', EachEntryOnce, [Next]_vars
    PROVE  EachEntryOnce'
  <1>1. SumsOf(IF pc = "span" THEN q ELSE p) /\ Types /\ Types' /\ ScanInv
    BY OnceIs DEF Inv
  <1>2. EachEntryOnce' <=> SumsOf(IF pc = "span" THEN q ELSE p)'
    BY DEF EachEntryOnce, SumsOf
  <1>3. CASE ScalarStep \/ GatherStep \/ ContigStep
    <2>1. PICK next \in Nat : next >= q /\ next <= b_nnz /\ Advance(next) /\ Adds(q, next)
      BY <1>3, SpanAdds
    <2>2. pc = "span" /\ pc' = "span" /\ q' = next /\ UNCHANGED b_col_idx
      BY <1>3, <2>1 DEF ScalarStep, GatherStep, ContigStep, Advance
    <2>3. SumsOf(q)'
      BY <1>1, <2>1, <2>2, MoreSums
    <2>4. QED
      BY <1>2, <2>2, <2>3
  <1>4. CASE UNCHANGED <<b_col_idx, acc>> /\
             (IF pc = "span" THEN q ELSE p)' = IF pc = "span" THEN q ELSE p
    BY <1>1, <1>2, <1>4 DEF SumsOf, Col
  <1>5. CASE \E kind, end : Execute(kind, p, end) /\ pc # "span"
    BY <1>4, <1>5 DEF Execute
  <1>6. CASE SpanDone
    <2>1. q = span.end
      BY <1>1, <1>6, TypesAre DEF SpanDone, ScanInv
    <2>2. QED
      BY <1>4, <1>6, <2>1 DEF SpanDone, AfterSpan
  <1>7. CASE EnterLoop \/ ScanAdvances \/ Return \/ UNCHANGED vars
    BY <1>4, <1>7 DEF EnterLoop, ScanAdvances, Return, vars
  <1>8. CASE EnterWhole
    <2>1. p = 0 /\ pc # "span"
      BY <1>1, <1>8 DEF EnterWhole, ScanInv
    <2>2. QED
      BY <1>5, <1>8, <2>1 DEF EnterWhole
  <1>9. CASE StartScan
    BY <1>4, <1>5, <1>9 DEF StartScan
  <1>10. CASE ScanEnds \/ ScanFinds
    BY <1>5, <1>10 DEF ScanEnds, ScanFinds
  <1>11. QED
    BY <1>3, <1>6, <1>7, <1>8, <1>9, <1>10 DEF Next

\* On canonical rows whose offsets fit, every strategy adds each entry once, to
\* the sum of its own column, in spans and vectors of any length.
THEOREM EntriesAddedOnce ==
    ASSUME NoRepeats, OffsetsFit
    PROVE  Spec => []EachEntryOnce
  <1>1. Init => EachEntryOnce
    BY DEF Init, EachEntryOnce
  <1>2. Inv /\ Inv' /\ EachEntryOnce /\ [Next]_vars => EachEntryOnce'
    BY OnceStep
  <1>3. QED
    BY <1>1, <1>2, SpecInv, PTL DEF Spec

\* "cannot alias within one vl" holds of the gather under the same two facts:
\* the second one is what the comment leaves out.
THEOREM GathersDoNotAlias ==
    ASSUME NoRepeats, OffsetsFit
    PROVE  Spec => []GatherCannotAlias
  <1>1. ASSUME Inv
        PROVE  GatherCannotAlias
    <2>1. SUFFICES ASSUME pc = "span",
                          NEW m \in q .. Min({span.end, q + VLMAX_M2}) - 1,
                          NEW n \in q .. Min({span.end, q + VLMAX_M2}) - 1, m # n
                   PROVE  Slot(Col(m)) # Slot(Col(n))
      BY DEF GatherCannotAlias
    <2>2. /\ Types /\ q \in Nat /\ span.end \in Nat /\ span.end <= b_nnz /\ b_nnz \in Nat
          /\ q + VLMAX_M2 \in Nat
      BY <1>1, <2>1, TypesAre, Constants DEF Inv, ScanInv
    <2>3. Min({span.end, q + VLMAX_M2}) \in Nat /\ Min({span.end, q + VLMAX_M2}) <= span.end
      BY <2>2, MinOfTwo
    <2>4. m \in Nat /\ n \in Nat /\ m < b_nnz /\ n < b_nnz
      BY <2>1, <2>2, <2>3
    <2>5. Col(m) # Col(n) /\ Col(m) \in 0 .. b_cols - 1 /\ Col(n) \in 0 .. b_cols - 1
      BY <2>1, <2>2, <2>4, OneEntry, RowFacts
    <2>6. QED
      BY <2>5, OwnSlot
  <1>2. QED
    BY <1>1, SpecInv, PTL

\* What the scalar loop leaves in the sums of a row.
ScalarResult ==
    pc = "done" =>
        \A c \in 0 .. b_cols - 1 :
            /\ \A n \in 0 .. b_nnz - 1 : Col(n) = c => acc[c] = <<n>>
            /\ (\A n \in 0 .. b_nnz - 1 : Col(n) # c) => acc[c] = <<>>

\* The strategies agree: each leaves the sums that the scalar loop leaves.
THEOREM StrategiesAgree ==
    ASSUME NoRepeats, OffsetsFit
    PROVE  Spec => []ScalarResult
  <1>1. Inv /\ EachEntryOnce => ScalarResult
    BY DEF Inv, Types, ScanInv, EachEntryOnce, ScalarResult
  <1>2. QED
    BY <1>1, SpecInv, EntriesAddedOnce, PTL

===============================================================================
