--------------------------- MODULE ColumnSort_proofs ---------------------------
(***************************************************************************)
(* Proofs about rvsp_sort_columns, for rows of any length, any number of   *)
(* buckets and of passes: both sorts leave the columns they were given, in *)
(* ascending order, in the array they were given them in.  And about the   *)
(* layout of the workspace that holds the scratch array, for any b_cols.   *)
(***************************************************************************)
EXTENDS ColumnSort, Workspace, FiniteSetTheorems, FunctionTheorems, TLAPS

Columns == 0 .. max_col
D(x) == Digit(x, pass)
Source == Here(src)         \* the array a pass reads
Target == Here(Other(src))  \* the one it writes

\* An array holds the columns of the input, each as often.
Permuted(a) ==
    \E f \in [Places -> 1 .. n] :
      /\ \A k, m \in Places : f[k] = f[m] => k = m
      /\ \A y \in 1 .. n : \E k \in Places : f[k] = y
      /\ \A k \in Places : a[k] = input[1][f[k]]

\* The elements whose digit is smaller, and those up to i with the digit d.
Less(d) == {k \in Places : D(Source[k]) < d}
With(d, end) == {k \in Places : k < end /\ D(Source[k]) = d}
\* The elements that go in front of element k, and the place that leaves it.
Before(k) == {m \in Places : D(Source[m]) < D(Source[k]) \/ (D(Source[m]) = D(Source[k]) /\ m < k)}
PlaceOf(k) == Cardinality(Before(k))

OrderedBy(a, w) == \A k, m \in Places : k < m => a[k] % w <= a[m] % w

Types ==
    /\ input \in Inputs
    /\ pc \in {"enter", "insert", "shift", "passes", "count", "prefix", "scatter", "back", "done"}
    /\ cols \in [Places -> Columns]
    /\ tmp \in [Places -> Columns \cup {Junk}]
    /\ i \in Nat /\ i <= n + 1 /\ j \in Int /\ -1 <= j /\ j <= n /\ key \in Columns
    /\ passes \in Nat /\ 1 <= passes /\ passes <= MAX_PASSES /\ pass \in Nat /\ pass <= passes
    /\ src \in {"cols", "tmp"}
    /\ count \in [0 .. BUCKETS - 1 -> Nat] /\ \A d \in 0 .. BUCKETS - 1 : count[d] <= n
    /\ running \in Nat /\ running <= n /\ b \in Nat /\ b <= BUCKETS

InsertInv ==
    /\ pc \in {"enter", "insert", "passes", "done"} => Permuted(cols)
    /\ pc = "enter" => i = 1
    /\ pc = "insert" =>
         /\ 1 <= i /\ i <= n
         /\ \A k, m \in Places : k < m /\ m < i => cols[k] <= cols[m]
    /\ pc = "shift" =>
         /\ 1 <= i /\ i < n /\ j < i
         /\ Permuted([cols EXCEPT ![j + 1] = key])
         /\ \A k, m \in Places : k < m /\ m <= i /\ k # j + 1 /\ m # j + 1 => cols[k] <= cols[m]
         /\ \A m \in Places : j + 1 < m /\ m <= i => key <= cols[m]
    /\ pc = "done" => \A k, m \in Places : k < m => cols[k] <= cols[m]

\* In each loop of a pass: what the buckets hold, and where elements went.
RadixInv ==
    /\ pc \in {"enter", "passes"} =>
         src = "cols" /\ pass = 0 /\ passes >= 1 /\ count = [d \in 0 .. BUCKETS - 1 |-> 0]
    /\ pc \in {"count", "prefix", "scatter", "back"} =>
         /\ Source \in [Places -> Columns] /\ Permuted(Source)
         /\ OrderedBy(Source, Weight[pass])
         /\ max_col < Weight[passes]
    /\ pc \in {"count", "prefix", "scatter"} => pass < passes
    /\ pc = "back" => pass = passes
    /\ pc = "count" => i <= n /\ \A d \in 0 .. BUCKETS - 1 : count[d] = Cardinality(With(d, i))
    /\ pc = "prefix" =>
         /\ \A d \in 0 .. BUCKETS - 1 :
              count[d] = IF d < b THEN Cardinality(Less(d)) ELSE Cardinality(With(d, n))
         /\ running = Cardinality(Less(b))
    /\ pc = "scatter" =>
         /\ i <= n
         /\ \A d \in 0 .. BUCKETS - 1 : count[d] = Cardinality(Less(d)) + Cardinality(With(d, i))
         /\ \A k \in Places : k < i => Target[PlaceOf(k)] = Source[k]

Inv == Types /\ InsertInv /\ RadixInv

-------------------------------------------------------------------------------
(* Numbers *)

LEMMA Constants ==
    /\ BUCKETS \in Nat /\ BUCKETS >= 2 /\ MAX_PASSES \in Nat /\ MAX_PASSES >= 1
    /\ \A p \in 0 .. MAX_PASSES : Weight[p] \in Nat /\ Weight[p] >= 1
    /\ Weight[0] = 1
    /\ \A p \in 0 .. MAX_PASSES - 1 : Weight[p + 1] = BUCKETS * Weight[p]
  BY SortAssumption

LEMMA InputFacts ==
    ASSUME input \in Inputs
    PROVE  /\ n \in Nat /\ max_col \in Nat /\ max_col < Weight[MAX_PASSES]
           /\ input[1] \in Seq(Columns)
           /\ \A k \in 1 .. n : input[1][k] \in Columns
  <1>1. max_col \in Nat /\ max_col < Weight[MAX_PASSES] /\ input[1] \in Seq(Columns)
    BY SortAssumption DEF max_col, Columns
  <1>2. \A s \in Seq(Columns) : Len(s) \in Nat /\ \A k \in 1 .. Len(s) : s[k] \in Columns
    OBVIOUS
  <1>3. QED
    BY <1>1, <1>2 DEF n

Quotient(x, w) == x \div w
Remainder(x, w) == x % w

LEMMA Division ==
    ASSUME NEW x \in Nat, NEW w \in Nat, w >= 1
    PROVE  /\ Quotient(x, w) \in Nat /\ Remainder(x, w) \in Nat /\ Remainder(x, w) < w
           /\ x = w * Quotient(x, w) + Remainder(x, w)
  BY ONLY x \in Nat, w \in Nat, w >= 1 DEF Quotient, Remainder

Rest(x, p) == x % Weight[p]

\* The remainder by the next weight is the digit followed by the remainder.
LEMMA DigitAndRest ==
    ASSUME NEW x \in Nat, NEW p \in 0 .. MAX_PASSES - 1
    PROVE  /\ Rest(x, p) \in Nat /\ Rest(x, p) < Weight[p]
           /\ Digit(x, p) \in Nat /\ Digit(x, p) < BUCKETS
           /\ Rest(x, p + 1) = Weight[p] * Digit(x, p) + Rest(x, p)
  <1>1. PICK w \in Nat, base \in Nat :
          w = Weight[p] /\ base = BUCKETS /\ w >= 1 /\ base >= 1 /\ Weight[p + 1] = base * w
    BY Constants
  <1> DEFINE q == Quotient(x, w)
             r == Remainder(x, w)
             c == Quotient(q, base)
             d == Remainder(q, base)
  <1>2. q \in Nat /\ r \in Nat /\ r < w /\ x = w * q + r
    BY <1>1, Division
  <1>3. c \in Nat /\ d \in Nat /\ d < base /\ q = base * c + d
    BY <1>1, <1>2, Division
  <1> HIDE DEF q, r, c, d
  <1> DEFINE m == base * w
             rest == w * d + r
  <1>4. m \in Nat /\ rest \in Nat /\ rest < m
    <2>1. d + 1 <= base
      BY <1>3
    <2>2. w * (d + 1) <= w * base
      BY <1>3, <2>1
    <2>3. w * (d + 1) = w * d + w /\ w * base = base * w
      BY <1>3
    <2>4. QED
      BY <1>2, <1>3, <2>2, <2>3
  <1>5. x = m * c + rest
    <2>1. w * (base * c + d) = w * (base * c) + w * d /\ w * (base * c) = (base * w) * c
      BY <1>3
    <2>2. x = w * (base * c + d) + r
      BY <1>2, <1>3
    <2>3. QED
      BY <1>2, <1>3, <2>1, <2>2
  <1> HIDE DEF m, rest
  <1>6. (m * c + rest) % m = rest
    BY ONLY <1>3, <1>4
  <1>7. x % m = rest
    BY ONLY <1>5, <1>6
  <1>8. Rest(x, p + 1) = w * d + r
    BY ONLY <1>1, <1>7 DEF m, rest, Rest
  <1>9. Rest(x, p) = r /\ Digit(x, p) = d
    BY <1>1 DEF Rest, Digit, Quotient, Remainder, q, r, d
  <1>10. QED
    BY ONLY <1>1, <1>2, <1>3, <1>8, <1>9

LEMMA RestOfSmall ==
    ASSUME NEW x \in Nat, NEW p \in 0 .. MAX_PASSES, x < Weight[p]
    PROVE  Rest(x, p) = x
  BY Constants DEF Rest

\* Elements ordered by a digit, and by the rest where it is equal, are ordered
\* by both.
LEMMA OrderOfDigits ==
    ASSUME NEW x \in Nat, NEW y \in Nat, NEW p \in 0 .. MAX_PASSES - 1,
           \/ Digit(x, p) < Digit(y, p)
           \/ Digit(x, p) = Digit(y, p) /\ Rest(x, p) <= Rest(y, p)
    PROVE  Rest(x, p + 1) <= Rest(y, p + 1)
  <1> DEFINE d == Digit(x, p)
             e == Digit(y, p)
             r == Rest(x, p)
             t == Rest(y, p)
             w == Weight[p]
  <1>1. d \in Nat /\ r \in Nat /\ w \in Nat /\ r < w /\ Rest(x, p + 1) = w * d + r
    <2>1. w \in Nat
      BY Constants
    <2>2. QED
      BY <2>1, DigitAndRest
  <1>2. e \in Nat /\ t \in Nat /\ Rest(y, p + 1) = w * e + t
    BY DigitAndRest
  <1> HIDE DEF d, e, r, t, w
  <1>3. CASE d < e
    <2>1. d + 1 <= e
      BY <1>1, <1>2, <1>3
    <2>2. w * (d + 1) <= w * e /\ w * (d + 1) = w * d + w
      BY <1>1, <1>2, <2>1
    <2>3. w * d + r <= w * e + t
      BY <1>1, <1>2, <2>2
    <2>4. QED
      BY ONLY <1>1, <1>2, <2>3
  <1>4. CASE d = e /\ r <= t
    <2>1. w * d + r <= w * e + t
      BY <1>1, <1>2, <1>4
    <2>2. QED
      BY ONLY <1>1, <1>2, <2>1
  <1>5. QED
    BY <1>3, <1>4 DEF d, e, r, t

-------------------------------------------------------------------------------
(* Places *)

\* What the buckets count are sets of places.
LEMMA Counting ==
    ASSUME n \in Nat
    PROVE  /\ IsFiniteSet(Places) /\ Cardinality(Places) = n
           /\ \A X \in SUBSET Places :
                IsFiniteSet(X) /\ Cardinality(X) \in Nat /\ Cardinality(X) <= n
           /\ \A k \in Places : k \in Nat /\ k < n
  <1>1. IsFiniteSet(Places) /\ Cardinality(Places) = n
    BY FS_Interval DEF Places
  <1>2. \A X \in SUBSET Places : IsFiniteSet(X) /\ Cardinality(X) <= n
    BY <1>1, FS_Subset
  <1>3. \A X \in SUBSET Places : Cardinality(X) \in Nat
    BY <1>2, FS_CardinalityType
  <1>4. \A k \in Places : k \in Nat /\ k < n
    BY DEF Places
  <1>5. QED
    BY <1>1, <1>2, <1>3, <1>4

LEMMA CountsAdd ==
    ASSUME NEW X, NEW Y, IsFiniteSet(X), IsFiniteSet(Y), X \cap Y = {}
    PROVE  Cardinality(X \cup Y) = Cardinality(X) + Cardinality(Y)
  <1>1. Cardinality(X \cup Y) = Cardinality(X) + Cardinality(Y) - Cardinality(X \cap Y)
    BY FS_Union
  <1>2. Cardinality(X \cap Y) = 0
    BY FS_EmptySet
  <1>3. Cardinality(X) \in Nat /\ Cardinality(Y) \in Nat
    BY FS_CardinalityType
  <1>4. QED
    BY <1>1, <1>2, <1>3

\* The arrays of a pass that is under way.
PassRuns ==
    /\ input \in Inputs /\ Source \in [Places -> Columns]
    /\ pass \in Nat /\ pass < MAX_PASSES

LEMMA PassFacts ==
    ASSUME PassRuns
    PROVE  /\ n \in Nat /\ pass \in 0 .. MAX_PASSES - 1
           /\ \A k \in Places : /\ k \in Nat /\ k < n /\ Source[k] \in Nat
                                /\ D(Source[k]) \in Nat /\ D(Source[k]) < BUCKETS
  <1>1. n \in Nat /\ max_col \in Nat /\ pass \in 0 .. MAX_PASSES - 1
    BY InputFacts, Constants DEF PassRuns
  <1>2. \A k \in Places : k \in Nat /\ k < n /\ Source[k] \in Nat
    BY <1>1, Counting DEF PassRuns, Columns
  <1>3. \A k \in Places : D(Source[k]) \in Nat /\ D(Source[k]) < BUCKETS
    BY <1>1, <1>2, DigitAndRest DEF D
  <1>4. QED
    BY <1>1, <1>2, <1>3

\* Elements go to different places, in the order of their digits, and equal
\* digits in the order they are met.
LEMMA PlacesTaken ==
    ASSUME PassRuns
    PROVE  /\ \A k \in Places : PlaceOf(k) \in Places
           /\ \A k, m \in Places : k \in Before(m) => PlaceOf(k) < PlaceOf(m)
           /\ \A k, m \in Places : k = m \/ k \in Before(m) \/ m \in Before(k)
           /\ \A k, m \in Places : PlaceOf(k) = PlaceOf(m) => k = m
           /\ \A x \in Places : \E k \in Places : PlaceOf(k) = x
  <1>1. /\ n \in Nat
        /\ \A k \in Places : k \in Nat /\ k < n /\ D(Source[k]) \in Nat
    BY PassFacts
  <1>2. ASSUME NEW k \in Places
        PROVE  PlaceOf(k) \in Nat /\ PlaceOf(k) < n
    <2>1. Before(k) \in SUBSET Places /\ k \notin Before(k)
      BY <1>1 DEF Before
    <2>2. Before(k) # Places
      BY <2>1
    <2>3. Cardinality(Before(k)) # n
      BY <1>1, <2>1, <2>2, Counting, FS_Subset
    <2>4. QED
      BY <1>1, <2>1, <2>3, Counting DEF PlaceOf
  <1>3. \A k \in Places : PlaceOf(k) \in Places
    BY <1>1, <1>2 DEF Places
  <1>4. ASSUME NEW k \in Places, NEW m \in Places, k \in Before(m)
        PROVE  PlaceOf(k) < PlaceOf(m)
    <2>1. Before(k) \in SUBSET Before(m)
      <3>1. \A l \in Places : l \in Before(k) => l \in Before(m)
        BY <1>1, <1>4 DEF Before
      <3>2. QED
        BY <3>1 DEF Before
    <2>2. k \notin Before(k) /\ Before(m) \in SUBSET Places
      BY <1>1 DEF Before
    <2>3. IsFiniteSet(Before(m))
      BY <1>1, <2>2, Counting
    <2>4. Cardinality(Before(k)) <= Cardinality(Before(m))
          /\ Cardinality(Before(k)) # Cardinality(Before(m))
      BY <1>4, <2>1, <2>2, <2>3, FS_Subset
    <2>5. QED
      BY <1>2, <2>4 DEF PlaceOf
  <1>5. \A k, m \in Places : k = m \/ k \in Before(m) \/ m \in Before(k)
    BY <1>1 DEF Before
  <1>6. \A k, m \in Places : PlaceOf(k) = PlaceOf(m) => k = m
    BY <1>2, <1>4, <1>5
  <1>7. \A x \in Places : \E k \in Places : PlaceOf(k) = x
    <2> DEFINE f == [k \in Places |-> PlaceOf(k)]
    <2>1. f \in Injection(Places, Places)
      <3>1. f \in [Places -> Places] /\ \A k, m \in Places : f[k] = f[m] => k = m
        BY <1>3, <1>6
      <3>2. QED
        BY <3>1, Fun_IsInj
    <2>2. f \in Surjection(Places, Places)
      BY <1>1, <2>1, Counting, FS_Injection
    <2>3. \A x \in Places : \E k \in Places : f[k] = x
      BY <2>2, Fun_SurjectionProperties
    <2>4. QED
      BY <2>3
  <1>8. QED
    BY <1>3, <1>4, <1>5, <1>6, <1>7

\* The bucket of a digit starts behind the smaller digits.
LEMMA PlaceIs ==
    ASSUME PassRuns, NEW k \in Places
    PROVE  /\ Cardinality(Less(D(Source[k]))) \in Nat /\ Cardinality(With(D(Source[k]), k)) \in Nat
           /\ PlaceOf(k) = Cardinality(Less(D(Source[k]))) + Cardinality(With(D(Source[k]), k))
  <1> DEFINE d == D(Source[k])
  <1>1. n \in Nat /\ \A m \in Places : D(Source[m]) \in Nat
    BY PassFacts
  <1>2. Before(k) = Less(d) \cup With(d, k) /\ Less(d) \cap With(d, k) = {}
    <2>1. \A m \in Places : ~(D(Source[m]) < d /\ D(Source[m]) = d)
      BY <1>1
    <2>2. QED
      BY <2>1 DEF Before, Less, With
  <1>3. Less(d) \in SUBSET Places /\ With(d, k) \in SUBSET Places
    BY DEF Less, With
  <1>4. /\ IsFiniteSet(Less(d)) /\ Cardinality(Less(d)) \in Nat
        /\ IsFiniteSet(With(d, k)) /\ Cardinality(With(d, k)) \in Nat
    BY <1>1, <1>3, Counting
  <1> HIDE DEF d
  <1>5. Cardinality(Before(k)) = Cardinality(Less(d)) + Cardinality(With(d, k))
    BY <1>2, <1>4, CountsAdd
  <1>6. QED
    BY <1>4, <1>5 DEF d, PlaceOf

\* Counting goes on by one element, and the sum of the buckets by one digit.
LEMMA CountGrows ==
    ASSUME PassRuns, NEW d \in Nat, NEW end \in Places
    PROVE  /\ Cardinality(With(d, end)) \in Nat /\ Cardinality(With(d, end)) < n
           /\ Cardinality(With(d, end + 1)) =
                IF D(Source[end]) = d THEN Cardinality(With(d, end)) + 1
                                      ELSE Cardinality(With(d, end))
  <1>1. n \in Nat /\ end \in Nat /\ \A m \in Places : m \in Nat
    BY PassFacts
  <1>2. With(d, end) \in SUBSET Places /\ end \notin With(d, end)
    BY <1>1 DEF With
  <1>3. /\ IsFiniteSet(With(d, end)) /\ Cardinality(With(d, end)) \in Nat
        /\ Cardinality(With(d, end)) <= n
    BY <1>1, <1>2, Counting
  <1>4. \A m \in Places : m < end + 1 <=> m < end \/ m = end
    BY <1>1
  <1>5. Cardinality(With(d, end)) # n
    BY <1>1, <1>2, Counting, FS_Subset
  <1>6. CASE D(Source[end]) = d
    <2>1. With(d, end + 1) = With(d, end) \cup {end}
      BY <1>4, <1>6 DEF With
    <2>2. QED
      BY <1>1, <1>2, <1>3, <1>5, <1>6, <2>1, FS_AddElement
  <1>7. CASE D(Source[end]) # d
    <2>1. With(d, end + 1) = With(d, end)
      BY <1>4, <1>7 DEF With
    <2>2. QED
      BY <1>1, <1>3, <1>5, <1>7, <2>1
  <1>8. QED
    BY <1>6, <1>7

LEMMA CountStarts ==
    ASSUME PassRuns
    PROVE  \A d : Cardinality(With(d, 0)) = 0
  <1>1. \A d : With(d, 0) = {}
    BY PassFacts DEF With
  <1>2. QED
    BY <1>1, FS_EmptySet

LEMMA SumGrows ==
    ASSUME PassRuns, NEW d \in Nat
    PROVE  /\ Cardinality(Less(d)) \in Nat /\ Cardinality(With(d, n)) \in Nat
           /\ Cardinality(Less(d)) <= n /\ Cardinality(With(d, n)) <= n
           /\ Cardinality(Less(d + 1)) = Cardinality(Less(d)) + Cardinality(With(d, n))
           /\ Cardinality(Less(d + 1)) <= n
           /\ Cardinality(Less(0)) = 0
  <1>1. n \in Nat /\ \A m \in Places : D(Source[m]) \in Nat /\ m < n
    BY PassFacts
  <1>2. Less(d + 1) = Less(d) \cup With(d, n) /\ Less(d) \cap With(d, n) = {}
    <2>1. \A m \in Places : D(Source[m]) < d + 1 <=> D(Source[m]) < d \/ D(Source[m]) = d
      BY <1>1
    <2>2. \A m \in Places : ~(D(Source[m]) < d /\ D(Source[m]) = d)
      BY <1>1
    <2>3. QED
      BY <1>1, <2>1, <2>2 DEF Less, With
  <1>3. Less(d) \in SUBSET Places /\ With(d, n) \in SUBSET Places /\ Less(d + 1) \in SUBSET Places
    BY DEF Less, With
  <1>4. /\ IsFiniteSet(Less(d)) /\ Cardinality(Less(d)) \in Nat /\ Cardinality(Less(d)) <= n
        /\ IsFiniteSet(With(d, n)) /\ Cardinality(With(d, n)) \in Nat /\ Cardinality(With(d, n)) <= n
        /\ Cardinality(Less(d + 1)) <= n
    BY <1>1, <1>3, Counting
  <1>5. Less(0) = {}
    BY <1>1 DEF Less
  <1>6. Cardinality(Less(d + 1)) = Cardinality(Less(d)) + Cardinality(With(d, n))
    BY <1>2, <1>4, CountsAdd
  <1>7. QED
    BY <1>4, <1>5, <1>6, FS_EmptySet

-------------------------------------------------------------------------------
(* Permutations *)

\* Moving the elements of an array about keeps what it holds.
LEMMA MovedAbout ==
    ASSUME NEW a, NEW c, Permuted(a), NEW g \in [Places -> Places],
           \A k, m \in Places : g[k] = g[m] => k = m,
           \A x \in Places : \E k \in Places : g[k] = x,
           \A k \in Places : c[g[k]] = a[k]
    PROVE  Permuted(c)
  <1>1. PICK f \in [Places -> 1 .. n] :
          /\ \A k, m \in Places : f[k] = f[m] => k = m
          /\ \A y \in 1 .. n : \E k \in Places : f[k] = y
          /\ \A k \in Places : a[k] = input[1][f[k]]
    BY DEF Permuted
  <1> DEFINE from(x) == CHOOSE k \in Places : g[k] = x
             h == [x \in Places |-> f[from(x)]]
  <1>2. \A x \in Places : from(x) \in Places /\ g[from(x)] = x
    OBVIOUS
  <1>3. \A k \in Places : g[k] \in Places /\ from(g[k]) = k
    BY <1>2
  <1>4. h \in [Places -> 1 .. n] /\ \A x \in Places : h[x] = f[from(x)]
    BY <1>2
  <1> HIDE DEF from, h
  <1>5. \A x, y \in Places : h[x] = h[y] => x = y
    BY <1>1, <1>2, <1>4
  <1>6. ASSUME NEW y \in 1 .. n
        PROVE  \E x \in Places : h[x] = y
    <2>1. PICK k \in Places : f[k] = y
      BY <1>1
    <2>2. h[g[k]] = y /\ g[k] \in Places
      BY <1>3, <1>4, <2>1
    <2>3. QED
      BY <2>2
  <1>7. \A x \in Places : c[x] = input[1][h[x]]
    BY <1>1, <1>2, <1>4
  <1>8. QED
    BY <1>4, <1>5, <1>6, <1>7 DEF Permuted

LEMMA Swapped ==
    ASSUME NEW a, NEW c, Permuted(a), NEW x \in Places, NEW y \in Places,
           c[x] = a[y], c[y] = a[x], \A k \in Places \ {x, y} : c[k] = a[k]
    PROVE  Permuted(c)
  <1> DEFINE g == [k \in Places |-> IF k = x THEN y ELSE IF k = y THEN x ELSE k]
  <1>1. g \in [Places -> Places]
    OBVIOUS
  <1>2. \A k, m \in Places : g[k] = g[m] => k = m
    OBVIOUS
  <1>3. \A z \in Places : g[z] \in Places /\ g[g[z]] = z
    OBVIOUS
  <1>4. \A k \in Places : c[g[k]] = a[k]
    OBVIOUS
  <1> HIDE DEF g
  <1>5. \A z \in Places : \E k \in Places : g[k] = z
    BY <1>3
  <1>6. QED
    BY <1>1, <1>2, <1>4, <1>5, MovedAbout

LEMMA SameElements ==
    ASSUME NEW a, NEW c, Permuted(a), \A k \in Places : c[k] = a[k]
    PROVE  Permuted(c)
  BY DEF Permuted

\* A pass moves every element to its place.
LEMMA PassMoves ==
    ASSUME PassRuns, Permuted(Source), NEW c, \A k \in Places : c[PlaceOf(k)] = Source[k]
    PROVE  Permuted(c)
  <1> DEFINE g == [k \in Places |-> PlaceOf(k)]
  <1>1. g \in [Places -> Places] /\ \A k \in Places : g[k] = PlaceOf(k)
    BY PlacesTaken
  <1> HIDE DEF g
  <1>2. /\ \A k, m \in Places : g[k] = g[m] => k = m
        /\ \A x \in Places : \E k \in Places : g[k] = x
        /\ \A k \in Places : c[g[k]] = Source[k]
    BY <1>1, PlacesTaken
  <1>3. QED
    BY <1>1, <1>2, MovedAbout

\* An array that is a permutation of the input has its columns, each as often.
LEMMA PermutedIsSame ==
    ASSUME input \in Inputs, NEW a, Permuted(a)
    PROVE  SameColumns(a)
  <1>1. n \in Nat
    BY InputFacts
  <1>2. PICK f \in [Places -> 1 .. n] :
          /\ \A k, m \in Places : f[k] = f[m] => k = m
          /\ \A y \in 1 .. n : \E k \in Places : f[k] = y
          /\ \A k \in Places : a[k] = input[1][f[k]]
    BY DEF Permuted
  <1>3. ASSUME NEW x
        PROVE  Occurrences(a, x) = Cardinality({m \in 1 .. n : input[1][m] = x})
    <2> DEFINE X == {k \in Places : a[k] = x}
               Y == {m \in 1 .. n : input[1][m] = x}
               g == [k \in X |-> f[k]]
    <2>1. g \in [X -> Y] /\ \A k, m \in X : g[k] = g[m] => k = m
      BY <1>2
    <2>2. \A y \in Y : \E k \in X : g[k] = y
      BY <1>2
    <2>3. X \in SUBSET Places
      OBVIOUS
    <2> HIDE DEF X, Y, g
    <2>4. g \in Bijection(X, Y)
      <3>1. g \in Injection(X, Y)
        BY <2>1, Fun_IsInj
      <3>2. g \in Surjection(X, Y)
        BY <2>1, <2>2, Fun_IsSurj
      <3>3. QED
        BY <3>1, <3>2, Fun_IsBij
    <2>5. IsFiniteSet(X)
      BY <1>1, <2>3, Counting
    <2>6. Cardinality(Y) = Cardinality(X)
      <3>1. ExistsBijection(X, Y)
        BY <2>4, Fun_ExistsBij
      <3>2. QED
        BY <2>5, <3>1, FS_Bijection
    <2>7. QED
      BY <2>6 DEF Occurrences, X, Y
  <1>4. QED
    BY <1>3 DEF SameColumns

LEMMA PermutedColumns ==
    ASSUME input \in Inputs, NEW a, Permuted(a)
    PROVE  \A k \in Places : a[k] \in Columns
  BY InputFacts DEF Permuted

-------------------------------------------------------------------------------
(* The steps *)

LEMMA InitInv ==
    ASSUME Init
    PROVE  Inv
  <1>1. input \in Inputs /\ n \in Nat /\ max_col \in Nat /\ \A k \in 1 .. n : input[1][k] \in Columns
    BY InputFacts DEF Init
  <1>2. cols \in [Places -> Columns] /\ tmp \in [Places -> Columns \cup {Junk}]
    <2>1. \A k \in 0 .. n - 1 : k + 1 \in 1 .. n
      BY <1>1
    <2>2. cols = [k \in Places |-> input[1][k + 1]] /\ tmp = [k \in Places |-> Junk]
      BY DEF Init, Places, n
    <2>3. QED
      BY <1>1, <2>1, <2>2 DEF Places
  <1>3. Permuted(cols)
    <2> DEFINE f == [k \in Places |-> k + 1]
    <2>1. f \in [Places -> 1 .. n] /\ \A k, m \in Places : f[k] = f[m] => k = m
      BY <1>1 DEF Places
    <2>2. \A k \in Places : f[k] = k + 1 /\ cols[k] = input[1][f[k]]
      BY DEF Init, Places, n
    <2> HIDE DEF f
    <2>3. ASSUME NEW y \in 1 .. n
          PROVE  \E k \in Places : f[k] = y
      <3>1. y - 1 \in Places /\ (y - 1) + 1 = y
        BY <1>1 DEF Places
      <3>2. QED
        BY <2>2, <3>1
    <2>4. QED
      BY <2>1, <2>2, <2>3 DEF Permuted
  <1>4. 0 \in Columns /\ key \in Columns
    BY <1>1 DEF Init, Columns
  <1>5. Types
    BY <1>1, <1>2, <1>4, Constants DEF Init, Types
  <1>6. QED
    BY <1>3, <1>5 DEF Inv, Init, InsertInv, RadixInv

LEMMA TypesAre ==
    ASSUME Types
    PROVE  /\ n \in Nat /\ max_col \in Nat /\ \A k \in Places : k \in Nat /\ k < n
           /\ \A k \in Int : k \in Places <=> 0 <= k /\ k < n
           /\ \A x \in Columns : x \in Nat
           /\ \A a \in [Places -> Columns] : \A k \in Places : a[k] \in Nat
  <1>1. n \in Nat /\ max_col \in Nat
    BY InputFacts DEF Types
  <1>2. \A k \in Int : k \in Places <=> 0 <= k /\ k < n
    BY <1>1 DEF Places
  <1>3. \A k \in Places : k \in Nat /\ k < n
    BY <1>1 DEF Places
  <1>4. \A x \in Columns : x \in Nat
    BY <1>1 DEF Columns
  <1>5. \A a \in [Places -> Columns] : \A k \in Places : a[k] \in Nat
    BY <1>4
  <1>6. QED
    BY <1>1, <1>2, <1>3, <1>4, <1>5

LEMMA EnterStep ==
    ASSUME Inv, Enter
    PROVE  Inv'
  <1>1. Types /\ pc = "enter" /\ UNCHANGED <<input, cols, tmp, insertion, radix>>
    BY DEF Inv, Enter
  <1>2. UNCHANGED <<input, cols, tmp, i, j, key, passes, pass, src, count, running, b>>
    BY <1>1 DEF insertion, radix
  <1>3. Permuted(cols)' /\ n' = n /\ Places' = Places /\ Columns' = Columns
    BY <1>1, <1>2 DEF Inv, InsertInv, Permuted, n, Places, Columns, max_col
  <1>4. n \in Nat /\ \A k, m \in Places : k < m => n > 1
    BY <1>1, TypesAre
  <1>5. /\ src = "cols" /\ pass = 0 /\ passes >= 1 /\ count = [d \in 0 .. BUCKETS - 1 |-> 0]
    BY <1>1 DEF Inv, RadixInv
  <1>6. CASE n <= 1
    <2>1. pc' = "done"
      BY <1>6 DEF Enter
    <2>2. \A k, m \in Places : ~(k < m)
      BY <1>4, <1>6
    <2>3. QED
      BY <1>1, <1>2, <1>3, <2>1, <2>2 DEF Inv, Types, InsertInv, RadixInv
  <1>7. CASE n > 1 /\ n <= INSERTION_LIMIT
    <2>1. pc' = "insert" /\ i' = 1
      BY <1>1, <1>2, <1>4, <1>7 DEF Enter, Inv, InsertInv
    <2>2. \A k, m \in Places : ~(k < m /\ m < 1)
      BY <1>1, TypesAre
    <2>3. QED
      BY <1>1, <1>2, <1>3, <1>4, <1>7, <2>1, <2>2 DEF Inv, Types, InsertInv, RadixInv
  <1>8. CASE n > 1 /\ ~(n <= INSERTION_LIMIT)
    <2>1. pc' = "passes"
      BY <1>4, <1>8 DEF Enter
    <2>2. QED
      BY <1>1, <1>2, <1>3, <1>5, <2>1 DEF Inv, Types, InsertInv, RadixInv
  <1>9. QED
    BY <1>4, <1>6, <1>7, <1>8

\* While cols alone changes the phases of the radix sort are not concerned.
LEMMA TakeKeyStep ==
    ASSUME Inv, TakeKey
    PROVE  Inv'
  <1>1. /\ Types /\ pc = "insert" /\ pc' = "shift" /\ i < n /\ key' = cols[i] /\ j' = i - 1
        /\ UNCHANGED <<input, cols, tmp, i, passes, pass, src, count, running, b>>
    BY DEF Inv, TakeKey, radix
  <1>2. /\ 1 <= i /\ Permuted(cols)
        /\ \A k, m \in Places : k < m /\ m < i => cols[k] <= cols[m]
    BY <1>1 DEF Inv, InsertInv
  <1>3. n \in Nat /\ i \in Nat /\ i \in Places /\ n' = n /\ Places' = Places /\ Columns' = Columns
    BY <1>1, TypesAre DEF Types, n, Places, Columns, max_col
  <1>4. key' \in Columns /\ j' \in Int /\ -1 <= j' /\ j' <= n /\ j' < i /\ j' + 1 = i
    BY <1>1, <1>2, <1>3 DEF Types
  <1>5. [cols EXCEPT ![j' + 1] = key'] = cols
    BY <1>1, <1>3, <1>4 DEF Types
  <1>6. Permuted([cols EXCEPT ![j + 1] = key])'
    BY <1>1, <1>2, <1>3, <1>5 DEF Permuted
  <1>7. \A k, m \in Places : k < m /\ m <= i /\ k # i /\ m # i => cols[k] <= cols[m]
    BY <1>1, <1>2, <1>3, TypesAre
  <1>8. \A m \in Places : ~(i < m /\ m <= i)
    BY <1>1, <1>3, TypesAre
  <1>9. Types'
    BY <1>1, <1>3, <1>4 DEF Types
  <1>10. InsertInv'
    BY <1>1, <1>2, <1>3, <1>4, <1>6, <1>7, <1>8 DEF InsertInv
  <1>11. QED
    BY <1>1, <1>9, <1>10 DEF Inv, RadixInv

LEMMA ShiftStep ==
    ASSUME Inv, Shift
    PROVE  Inv'
  <1>1. /\ Types /\ pc = "shift" /\ pc' = "shift" /\ j >= 0 /\ cols[j] > key
        /\ cols' = [cols EXCEPT ![j + 1] = cols[j]] /\ j' = j - 1
        /\ UNCHANGED <<input, tmp, i, key, passes, pass, src, count, running, b>>
    BY DEF Inv, Shift, MustShift, radix
  <1>2. /\ 1 <= i /\ i < n /\ j < i
        /\ Permuted([cols EXCEPT ![j + 1] = key])
        /\ \A k, m \in Places : k < m /\ m <= i /\ k # j + 1 /\ m # j + 1 => cols[k] <= cols[m]
        /\ \A m \in Places : j + 1 < m /\ m <= i => key <= cols[m]
    BY <1>1 DEF Inv, InsertInv
  <1>3. /\ n \in Nat /\ i \in Nat /\ j \in Int /\ n' = n /\ Places' = Places /\ Columns' = Columns
        /\ \A k \in Places : k \in Nat /\ cols[k] \in Nat
        /\ key \in Nat
    BY <1>1, TypesAre DEF Types, n, Places, Columns, max_col
  <1>4. j \in Places /\ j + 1 \in Places /\ j # j + 1
    BY <1>1, <1>2, <1>3, TypesAre
  <1>5. /\ cols' \in [Places -> Columns]
        /\ cols'[j + 1] = cols[j]
        /\ \A k \in Places : k # j + 1 => cols'[k] = cols[k]
    BY <1>1, <1>4 DEF Types
  <1>6. Permuted([cols EXCEPT ![j + 1] = key])'
    <2> DEFINE a == [cols EXCEPT ![j + 1] = key]
               c == [cols' EXCEPT ![j' + 1] = key']
    <2>1. j' + 1 = j /\ key' = key
      BY <1>1, <1>3
    <2>2. a[j] = cols[j] /\ a[j + 1] = key /\ \A k \in Places \ {j, j + 1} : a[k] = cols[k]
      BY <1>1, <1>4 DEF Types
    <2>3. c[j] = key /\ c[j + 1] = cols[j] /\ \A k \in Places \ {j, j + 1} : c[k] = cols[k]
      BY <1>4, <1>5, <2>1
    <2>4. Permuted(a)
      BY <1>2
    <2> HIDE DEF a, c
    <2>5. Permuted(c)
      BY <1>4, <2>2, <2>3, <2>4, Swapped
    <2>6. PICK f \in [Places -> 1 .. n] :
            /\ \A k, m \in Places : f[k] = f[m] => k = m
            /\ \A y \in 1 .. n : \E k \in Places : f[k] = y
            /\ \A k \in Places : c[k] = input[1][f[k]]
      BY <2>5 DEF Permuted
    <2>7. \A k \in Places : [cols' EXCEPT ![j' + 1] = key'][k] = input'[1][f[k]]
      BY <1>1, <2>6 DEF c
    <2>8. QED
      BY ONLY <1>3, <2>6, <2>7 DEF Permuted
  <1>7. ASSUME NEW k \in Places, NEW m \in Places, k < m, m <= i, k # j, m # j
        PROVE  cols'[k] <= cols'[m]
    <2>1. CASE k = j + 1
      BY <1>2, <1>3, <1>4, <1>5, <1>7, <2>1
    <2>2. CASE m = j + 1
      BY <1>2, <1>3, <1>4, <1>5, <1>7, <2>2
    <2>3. CASE k # j + 1 /\ m # j + 1
      BY <1>2, <1>5, <1>7, <2>3
    <2>4. QED
      BY <2>1, <2>2, <2>3
  <1>8. ASSUME NEW m \in Places, j < m, m <= i
        PROVE  key <= cols'[m]
    BY <1>1, <1>2, <1>3, <1>4, <1>5, <1>8
  <1>9. Types'
    BY <1>1, <1>3, <1>5 DEF Types
  <1>10. InsertInv'
    <2>1. j' + 1 = j /\ j' < i /\ i' = i /\ key' = key
      BY <1>1, <1>2, <1>3
    <2>2. QED
      BY <1>1, <1>2, <1>3, <1>6, <1>7, <1>8, <2>1 DEF InsertInv
  <1>11. QED
    BY <1>1, <1>9, <1>10 DEF Inv, RadixInv

LEMMA PlaceKeyStep ==
    ASSUME Inv, PlaceKey
    PROVE  Inv'
  <1>1. /\ Types /\ pc = "shift" /\ pc' = "insert" /\ ~MustShift
        /\ cols' = [cols EXCEPT ![j + 1] = key] /\ i' = i + 1
        /\ UNCHANGED <<input, tmp, j, key, passes, pass, src, count, running, b>>
    BY DEF Inv, PlaceKey, radix
  <1>2. /\ 1 <= i /\ i < n /\ j < i
        /\ Permuted([cols EXCEPT ![j + 1] = key])
        /\ \A k, m \in Places : k < m /\ m <= i /\ k # j + 1 /\ m # j + 1 => cols[k] <= cols[m]
        /\ \A m \in Places : j + 1 < m /\ m <= i => key <= cols[m]
    BY <1>1 DEF Inv, InsertInv
  <1>3. /\ n \in Nat /\ i \in Nat /\ j \in Int /\ -1 <= j
        /\ n' = n /\ Places' = Places /\ Columns' = Columns
        /\ \A k \in Places : k \in Nat /\ cols[k] \in Nat
        /\ key \in Nat
    BY <1>1, TypesAre DEF Types, n, Places, Columns, max_col
  <1>4. j + 1 \in Places
    BY <1>1, <1>2, <1>3, TypesAre
  <1>5. /\ cols' \in [Places -> Columns]
        /\ cols'[j + 1] = key
        /\ \A k \in Places : k # j + 1 => cols'[k] = cols[k]
    BY <1>1, <1>4 DEF Types
  <1>6. ASSUME NEW k \in Places, NEW m \in Places, k < m, m <= i
        PROVE  cols'[k] <= cols'[m]
    <2>1. CASE k = j + 1
      BY <1>2, <1>3, <1>5, <1>6, <2>1
    <2>2. CASE m = j + 1
      <3>1. j \in Places /\ cols[j] <= key
        BY <1>1, <1>2, <1>3, <1>4, <1>6, <2>2, TypesAre DEF MustShift
      <3>2. cols[k] <= cols[j]
        BY <1>2, <1>3, <1>6, <2>2, <3>1
      <3>3. cols'[k] = cols[k] /\ cols'[m] = key
        BY <1>5, <1>6, <2>2, <1>3
      <3>4. QED
        BY <1>3, <3>1, <3>2, <3>3
    <2>3. CASE k # j + 1 /\ m # j + 1
      BY <1>2, <1>5, <1>6, <2>3
    <2>4. QED
      BY <2>1, <2>2, <2>3
  <1>7. Types'
    BY <1>1, <1>2, <1>3, <1>5 DEF Types
  <1>8. InsertInv'
    <2>1. Permuted(cols)'
      <3>1. PICK f \in [Places -> 1 .. n] :
              /\ \A k, m \in Places : f[k] = f[m] => k = m
              /\ \A y \in 1 .. n : \E k \in Places : f[k] = y
              /\ \A k \in Places : [cols EXCEPT ![j + 1] = key][k] = input[1][f[k]]
        BY <1>2 DEF Permuted
      <3>2. QED
        BY <1>1, <1>3, <3>1 DEF Permuted
    <2>2. \A k, m \in Places : k < m /\ m < i' => cols'[k] <= cols'[m]
      BY <1>1, <1>3, <1>6
    <2>3. 1 <= i' /\ i' <= n
      BY <1>1, <1>2, <1>3
    <2>4. QED
      BY <1>1, <1>3, <2>1, <2>2, <2>3 DEF InsertInv
  <1>9. QED
    BY <1>1, <1>7, <1>8 DEF Inv, RadixInv

LEMMA InsertedStep ==
    ASSUME Inv, Inserted
    PROVE  Inv'
  <1>1. /\ Types /\ pc = "insert" /\ pc' = "done" /\ i >= n
        /\ UNCHANGED <<input, cols, tmp, i, j, key, passes, pass, src, count, running, b>>
    BY DEF Inv, Inserted, insertion, radix
  <1>2. n' = n /\ Places' = Places /\ Columns' = Columns
    BY <1>1 DEF n, Places, Columns, max_col
  <1>3. Permuted(cols)' /\ \A k, m \in Places : k < m => cols[k] <= cols[m]
    <2>1. \A m \in Places : m < i
      BY <1>1, TypesAre DEF Types
    <2>2. QED
      BY <1>1, <1>2, <2>1 DEF Inv, InsertInv, Permuted
  <1>4. QED
    BY <1>1, <1>2, <1>3 DEF Inv, Types, InsertInv, RadixInv

\* The arrays of a pass are read, not written, while it counts.
LEMMA Frozen ==
    ASSUME UNCHANGED <<input, cols, tmp, src, pass>>
    PROVE  /\ n' = n /\ max_col' = max_col /\ Places' = Places /\ Columns' = Columns
           /\ Source' = Source /\ Target' = Target
           /\ \A d, e : With(d, e)' = With(d, e)
           /\ \A d : Less(d)' = Less(d)
           /\ \A k : PlaceOf(k)' = PlaceOf(k)
           /\ Permuted(cols)' = Permuted(cols)
           /\ Permuted(Source)' = Permuted(Source)
           /\ OrderedBy(Source, Weight[pass])' = OrderedBy(Source, Weight[pass])
  <1>1. /\ n' = n /\ max_col' = max_col /\ Places' = Places /\ Columns' = Columns
        /\ Source' = Source /\ Target' = Target
    BY DEF n, max_col, Places, Columns, Source, Target, Here, Other
  <1>2. \A x : D(x)' = D(x)
    BY DEF D, Digit
  <1>3. /\ \A d, e : With(d, e)' = With(d, e)
        /\ \A d : Less(d)' = Less(d)
        /\ \A k : PlaceOf(k)' = PlaceOf(k)
    BY <1>1, <1>2 DEF With, Less, PlaceOf, Before, D, Digit
  <1>4. /\ Permuted(cols)' = Permuted(cols)
        /\ Permuted(Source)' = Permuted(Source)
        /\ OrderedBy(Source, Weight[pass])' = OrderedBy(Source, Weight[pass])
    BY <1>1 DEF Permuted, OrderedBy
  <1>5. QED
    BY <1>1, <1>3, <1>4

LEMMA WithStays ==
    ASSUME UNCHANGED <<input, cols, tmp, src, pass>>, NEW e, i' = e
    PROVE  \A d : With(d, i)' = With(d, e)
  BY Frozen DEF With, D, Digit

InPass == pc \in {"count", "prefix", "scatter"}

LEMMA PassInv ==
    ASSUME Inv, InPass
    PROVE  /\ Types /\ PassRuns /\ Permuted(Source) /\ OrderedBy(Source, Weight[pass])
           /\ max_col < Weight[passes] /\ pass < passes /\ passes <= MAX_PASSES
           /\ passes \in Nat /\ pass \in Nat
  BY Constants DEF Inv, InPass, Types, RadixInv, PassRuns

LEMMA CountPassesStep ==
    ASSUME Inv, CountPasses
    PROVE  Inv'
  <1>1. /\ Types /\ pc = "passes" /\ i' = 0 /\ Permuted(cols)
        /\ src = "cols" /\ pass = 0 /\ count = [d \in 0 .. BUCKETS - 1 |-> 0]
        /\ UNCHANGED <<input, cols, tmp, j, key, pass, src, count, running, b>>
    BY DEF Inv, InsertInv, RadixInv, CountPasses
  <1>2. n \in Nat /\ max_col \in Nat /\ passes \in Nat /\ 1 <= passes /\ passes <= MAX_PASSES
    BY <1>1, TypesAre DEF Types
  <1>3. /\ n' = n /\ max_col' = max_col /\ Places' = Places /\ Columns' = Columns
        /\ Permuted(cols)' = Permuted(cols) /\ Source = cols /\ Source' = cols
    BY <1>1, Frozen DEF Source, Here
  <1>4. CASE NeedsPass
    <2>1. pc' = "passes" /\ passes' = passes + 1 /\ passes < MAX_PASSES
      BY <1>1, <1>4 DEF CountPasses, NeedsPass
    <2>2. Types'
      BY <1>1, <1>2, <1>3, <2>1, Constants DEF Types
    <2>3. QED
      BY <1>1, <1>2, <1>3, <2>1, <2>2 DEF Inv, InsertInv, RadixInv
  <1>5. CASE ~NeedsPass
    <2>1. pc' = "count" /\ passes' = passes
      BY <1>1, <1>5 DEF CountPasses
    <2>2. Types'
      BY <1>1, <1>2, <1>3, <2>1 DEF Types
    <2>3. max_col < Weight[passes]
      <3>1. CASE passes = MAX_PASSES
        BY <1>1, <3>1, InputFacts DEF Types
      <3>2. CASE passes < MAX_PASSES
        <4>1. ~(Quotient(max_col, Weight[passes]) > 0)
          BY <1>5, <3>2 DEF NeedsPass, Quotient
        <4>2. Weight[passes] \in Nat /\ Weight[passes] >= 1
          BY <1>2, Constants
        <4>3. Quotient(max_col, Weight[passes]) = 0
          <5>1. Quotient(max_col, Weight[passes]) \in Nat
            BY <1>2, <4>2, Division
          <5>2. QED
            BY ONLY <4>1, <5>1
        <4>4. max_col = Weight[passes] * 0 + Remainder(max_col, Weight[passes])
              /\ Remainder(max_col, Weight[passes]) < Weight[passes]
              /\ Remainder(max_col, Weight[passes]) \in Nat
          BY <1>2, <4>2, <4>3, Division
        <4>5. QED
          BY <1>2, <4>2, <4>4
      <3>3. QED
        BY <1>2, <3>1, <3>2, Constants
    <2>4. OrderedBy(cols, 1)
      <3>1. \A x \in Nat : x % 1 = 0
        OBVIOUS
      <3>2. QED
        BY <1>1, <3>1, TypesAre DEF OrderedBy, Types
    <2>5. PassRuns
      BY <1>1, <1>3, Constants DEF PassRuns, Types
    <2>6. \A d \in 0 .. BUCKETS - 1 : count[d] = 0 /\ Cardinality(With(d, 0)) = 0
      BY <1>1, <2>5, CountStarts
    <2>7. \A d : With(d, i)' = With(d, 0)
      BY <1>1, WithStays
    <2>8. RadixInv'
      <3>1. Weight[pass'] = 1 /\ Permuted(Source)' /\ OrderedBy(Source, Weight[pass])'
        BY <1>1, <1>3, <2>4, Constants, Frozen
      <3>2. Source' \in [Places' -> Columns']
        BY <1>1, <1>3 DEF Types
      <3>3. \A d \in 0 .. BUCKETS - 1 : count'[d] = Cardinality(With(d, i)')
        BY <1>1, <2>6, <2>7
      <3>4. QED
        BY <1>1, <1>2, <1>3, <2>1, <2>3, <3>1, <3>2, <3>3 DEF RadixInv
    <2>9. QED
      BY <2>1, <2>2, <2>8 DEF Inv, InsertInv
  <1>6. QED
    BY <1>4, <1>5

LEMMA CountDigitStep ==
    ASSUME Inv, CountDigit
    PROVE  Inv'
  <1>1. /\ pc = "count" /\ pc' = "count" /\ i < n /\ i' = i + 1
        /\ count' = [count EXCEPT ![D(Source[i])] = @ + 1]
        /\ UNCHANGED <<input, cols, tmp, j, key, passes, pass, src, running, b>>
    BY DEF CountDigit, D, Source
  <1>2. /\ Types /\ PassRuns /\ Permuted(Source) /\ OrderedBy(Source, Weight[pass])
        /\ max_col < Weight[passes] /\ pass < passes
    BY <1>1, PassInv DEF InPass
  <1>3. /\ \A d \in 0 .. BUCKETS - 1 : count[d] = Cardinality(With(d, i))
        /\ Source \in [Places -> Columns]
    BY <1>1 DEF Inv, RadixInv
  <1>4. i \in Nat /\ n \in Nat /\ i \in Places /\ count \in [0 .. BUCKETS - 1 -> Nat] /\ BUCKETS \in Nat
    <2>1. i \in Nat /\ count \in [0 .. BUCKETS - 1 -> Nat]
      BY <1>2 DEF Types
    <2>2. n \in Nat /\ i \in Places
      BY <1>1, <1>2, <2>1, TypesAre
    <2>3. QED
      BY <2>1, <2>2, Constants
  <1>5. D(Source[i]) \in 0 .. BUCKETS - 1
    BY <1>2, <1>4, PassFacts
  <1>6. \A d \in 0 .. BUCKETS - 1 : count'[d] = Cardinality(With(d, i + 1))
    <2>1. ASSUME NEW d \in 0 .. BUCKETS - 1
          PROVE  count'[d] = Cardinality(With(d, i + 1))
      <3>1. d \in Nat
        BY <1>4
      <3>2. Cardinality(With(d, i + 1)) = IF D(Source[i]) = d THEN count[d] + 1 ELSE count[d]
        BY <1>2, <1>3, <1>4, <3>1, CountGrows
      <3>3. count'[d] = IF D(Source[i]) = d THEN count[d] + 1 ELSE count[d]
        BY <1>1, <1>4, <1>5
      <3>4. QED
        BY <3>2, <3>3
    <2>2. QED
      BY <2>1
  <1>7. \A d : With(d, i)' = With(d, i + 1)
    BY <1>1, WithStays
  <1>8. count' \in [0 .. BUCKETS - 1 -> Nat]
    BY <1>1, <1>4, <1>5
  <1>9. Types'
    <2>1. i' \in Nat /\ i' <= n + 1
      BY <1>1, <1>4
    <2>2. \A d \in 0 .. BUCKETS - 1 : count'[d] <= n
      <3>1. \A d : With(d, i + 1) \in SUBSET Places
        BY DEF With
      <3>2. QED
        BY <1>4, <1>6, <3>1, Counting
    <2>3. QED
      BY <1>1, <1>2, <1>8, <2>1, <2>2, Frozen DEF Types
  <1>10. i' <= n' /\ \A d \in 0 .. BUCKETS - 1 : count'[d] = Cardinality(With(d, i)')
    BY <1>1, <1>4, <1>6, <1>7, Frozen
  <1>11. RadixInv'
    BY <1>1, <1>2, <1>3, <1>10, Frozen DEF RadixInv
  <1>12. QED
    BY <1>1, <1>9, <1>11 DEF Inv, InsertInv

LEMMA CountedStep ==
    ASSUME Inv, Counted
    PROVE  Inv'
  <1>1. /\ pc = "count" /\ pc' = "prefix" /\ i >= n /\ running' = 0 /\ b' = 0
        /\ UNCHANGED <<input, cols, tmp, i, j, key, passes, pass, src, count>>
    BY DEF Counted, insertion
  <1>2. /\ Types /\ PassRuns /\ Permuted(Source) /\ OrderedBy(Source, Weight[pass])
        /\ max_col < Weight[passes] /\ pass < passes
    BY <1>1, PassInv DEF InPass
  <1>3. /\ \A d \in 0 .. BUCKETS - 1 : count[d] = Cardinality(With(d, i))
        /\ Source \in [Places -> Columns] /\ i <= n
    BY <1>1 DEF Inv, RadixInv
  <1>4. i = n
    BY <1>1, <1>2, <1>3, TypesAre DEF Types
  <1>5. Cardinality(Less(0)) = 0
    BY <1>2, SumGrows
  <1>6. Types'
    <2>1. 0 <= n /\ 0 <= BUCKETS
      BY <1>2, TypesAre, Constants
    <2>2. n' = n /\ Places' = Places /\ Columns' = Columns
      BY <1>1, Frozen
    <2>3. QED
      BY <1>1, <1>2, <2>1, <2>2 DEF Types
  <1>7. \A d : With(d, n)' = With(d, n) /\ Less(b)' = Less(0)
    BY <1>1, Frozen DEF With, Less
  <1>8. \A d \in 0 .. BUCKETS - 1 : ~(d < 0)
    BY Constants
  <1>9. RadixInv'
    BY <1>1, <1>2, <1>3, <1>4, <1>5, <1>7, <1>8, Frozen DEF RadixInv
  <1>10. QED
    BY <1>1, <1>6, <1>9 DEF Inv, InsertInv

LEMMA PrefixBucketStep ==
    ASSUME Inv, PrefixBucket
    PROVE  Inv'
  <1>1. /\ pc = "prefix" /\ pc' = "prefix" /\ b < BUCKETS
        /\ count' = [count EXCEPT ![b] = running] /\ running' = running + count[b] /\ b' = b + 1
        /\ UNCHANGED <<input, cols, tmp, i, j, key, passes, pass, src>>
    BY DEF PrefixBucket, insertion
  <1>2. /\ Types /\ PassRuns /\ Permuted(Source) /\ OrderedBy(Source, Weight[pass])
        /\ max_col < Weight[passes] /\ pass < passes
    BY <1>1, PassInv DEF InPass
  <1>3. /\ Source \in [Places -> Columns]
        /\ \A d \in 0 .. BUCKETS - 1 :
             count[d] = IF d < b THEN Cardinality(Less(d)) ELSE Cardinality(With(d, n))
        /\ running = Cardinality(Less(b))
    BY <1>1 DEF Inv, RadixInv
  <1>4. /\ b \in Nat /\ BUCKETS \in Nat /\ b \in 0 .. BUCKETS - 1
        /\ count \in [0 .. BUCKETS - 1 -> Nat]
    BY <1>1, <1>2, Constants DEF Types
  <1>5. /\ Cardinality(Less(b)) \in Nat /\ Cardinality(With(b, n)) \in Nat
        /\ Cardinality(Less(b + 1)) = Cardinality(Less(b)) + Cardinality(With(b, n))
        /\ Cardinality(Less(b)) <= n /\ Cardinality(Less(b + 1)) <= n
    BY <1>2, <1>4, SumGrows
  <1>6. count[b] = Cardinality(With(b, n))
    BY <1>3, <1>4
  <1>7. running' = Cardinality(Less(b + 1)) /\ running' \in Nat /\ running \in Nat
    BY <1>1, <1>3, <1>5, <1>6
  <1>8. \A d \in 0 .. BUCKETS - 1 :
          count'[d] = IF d < b + 1 THEN Cardinality(Less(d)) ELSE Cardinality(With(d, n))
    <2>1. ASSUME NEW d \in 0 .. BUCKETS - 1
          PROVE  count'[d] = IF d < b + 1 THEN Cardinality(Less(d)) ELSE Cardinality(With(d, n))
      <3>1. CASE d = b
        BY <1>1, <1>3, <1>4, <3>1
      <3>2. CASE d # b
        <4>1. count'[d] = count[d] /\ (d < b <=> d < b + 1)
          BY <1>1, <1>4, <3>2
        <4>2. QED
          BY <1>3, <4>1
      <3>3. QED
        BY <3>1, <3>2
    <2>2. QED
      BY <2>1
  <1>9. count' \in [0 .. BUCKETS - 1 -> Nat]
    BY <1>1, <1>4, <1>7
  <1>10. b' \in Nat /\ b' <= BUCKETS
    BY <1>1, <1>4
  <1>11. Types'
    <2>1. running' <= n /\ \A d \in 0 .. BUCKETS - 1 : count'[d] <= n
      BY <1>1, <1>2, <1>3, <1>4, <1>5, <1>7 DEF Types
    <2>2. QED
      BY <1>1, <1>2, <1>7, <1>9, <1>10, <2>1, Frozen DEF Types
  <1>12. Less(b)' = Less(b + 1) /\ \A d : With(d, n)' = With(d, n)
    BY <1>1, Frozen DEF With, Less, D, Digit
  <1>13. /\ \A d \in 0 .. BUCKETS - 1 :
              count'[d] = IF d < b' THEN Cardinality(Less(d)') ELSE Cardinality(With(d, n)')
         /\ running' = Cardinality(Less(b)')
    BY <1>1, <1>7, <1>8, <1>12, Frozen
  <1>14. RadixInv'
    BY <1>1, <1>2, <1>3, <1>13, Frozen DEF RadixInv
  <1>15. QED
    BY <1>1, <1>11, <1>14 DEF Inv, InsertInv

LEMMA StartScatterStep ==
    ASSUME Inv, StartScatter
    PROVE  Inv'
  <1>1. /\ pc = "prefix" /\ pc' = "scatter" /\ b >= BUCKETS /\ i' = 0
        /\ UNCHANGED <<input, cols, tmp, j, key, passes, pass, src, count, running, b>>
    BY DEF StartScatter, radix
  <1>2. /\ Types /\ PassRuns /\ Permuted(Source) /\ OrderedBy(Source, Weight[pass])
        /\ max_col < Weight[passes] /\ pass < passes
    BY <1>1, PassInv DEF InPass
  <1>3. /\ Source \in [Places -> Columns]
        /\ \A d \in 0 .. BUCKETS - 1 :
             count[d] = IF d < b THEN Cardinality(Less(d)) ELSE Cardinality(With(d, n))
    BY <1>1 DEF Inv, RadixInv
  <1>4. /\ n \in Nat /\ \A d \in 0 .. BUCKETS - 1 : d \in Nat /\ d < b
        /\ \A k \in Places : ~(k < 0)
    <2>1. n \in Nat /\ \A k \in Places : ~(k < 0)
      BY <1>2, TypesAre
    <2>2. b \in Nat /\ BUCKETS \in Nat
      BY <1>2, Constants DEF Types
    <2>3. QED
      BY ONLY <1>1, <2>1, <2>2
  <1>5. \A d \in 0 .. BUCKETS - 1 : count[d] = Cardinality(Less(d)) + Cardinality(With(d, 0))
    <2>1. ASSUME NEW d \in 0 .. BUCKETS - 1
          PROVE  count[d] = Cardinality(Less(d)) + Cardinality(With(d, 0))
      <3>1. count[d] = Cardinality(Less(d)) /\ d \in Nat
        BY <1>3, <1>4
      <3>2. Cardinality(Less(d)) \in Nat /\ Cardinality(With(d, 0)) = 0
        BY <1>2, <3>1, SumGrows, CountStarts
      <3>3. QED
        BY <3>1, <3>2
    <2>2. QED
      BY <2>1
  <1>6. Types'
    BY <1>1, <1>2, <1>4, Frozen DEF Types
  <1>7. \A d : With(d, i)' = With(d, 0)
    BY <1>1, WithStays
  <1>8. RadixInv'
    <2>1. /\ i' <= n'
          /\ \A d \in 0 .. BUCKETS - 1 : count'[d] = Cardinality(Less(d)') + Cardinality(With(d, i)')
          /\ \A k \in Places' : ~(k < i')
      BY <1>1, <1>4, <1>5, <1>7, Frozen
    <2>2. QED
      BY <1>1, <1>2, <1>3, <2>1, Frozen DEF RadixInv
  <1>9. QED
    BY <1>1, <1>6, <1>8 DEF Inv, InsertInv

\* The place of the element at hand, and what is written there.
LEMMA ScatterWrites ==
    ASSUME Inv, Scatter
    PROVE  LET d == D(Source[i]) IN
           /\ i \in Places /\ d \in 0 .. BUCKETS - 1
           /\ count[d] = PlaceOf(i) /\ PlaceOf(i) \in Places
           /\ Target \in [Places -> Columns \cup {Junk}]
           /\ Target' = [Target EXCEPT ![PlaceOf(i)] = Source[i]]
           /\ Source' = Source
           /\ cols' \in [Places -> Columns] /\ tmp' \in [Places -> Columns \cup {Junk}]
  <1> DEFINE d == D(Source[i])
  <1>1. /\ pc = "scatter" /\ i < n /\ UNCHANGED src
        /\ IF src = "cols" THEN tmp' = [tmp EXCEPT ![count[d]] = Source[i]] /\ UNCHANGED cols
                           ELSE cols' = [cols EXCEPT ![count[d]] = Source[i]] /\ UNCHANGED tmp
    BY DEF Scatter, D, Source
  <1>2. /\ Types /\ PassRuns
    BY <1>1, PassInv DEF InPass
  <1>3. /\ \A e \in 0 .. BUCKETS - 1 : count[e] = Cardinality(Less(e)) + Cardinality(With(e, i))
        /\ Source \in [Places -> Columns]
    BY <1>1 DEF Inv, RadixInv
  <1>4. i \in Places
    BY <1>1, <1>2, TypesAre DEF Types
  <1>5. d \in 0 .. BUCKETS - 1
    BY <1>2, <1>4, PassFacts, Constants
  <1>6. count[d] = PlaceOf(i) /\ PlaceOf(i) \in Places
    BY <1>2, <1>3, <1>4, <1>5, PlaceIs, PlacesTaken
  <1> HIDE DEF d
  <1>7. Source[i] \in Columns
    BY <1>3, <1>4
  <1>8. CASE src = "cols"
    <2>1. Target = tmp /\ Target' = tmp' /\ Source' = cols' /\ Source = cols
      BY <1>1, <1>8 DEF Source, Target, Here, Other
    <2>2. QED
      BY <1>1, <1>2, <1>4, <1>5, <1>6, <1>7, <1>8, <2>1 DEF d, Types
  <1>9. CASE src = "tmp"
    <2>1. Target = cols /\ Target' = cols' /\ Source' = tmp' /\ Source = tmp
      BY <1>1, <1>9 DEF Source, Target, Here, Other
    <2>2. cols \in [Places -> Columns \cup {Junk}]
      BY <1>2 DEF Types
    <2>3. QED
      BY <1>1, <1>2, <1>4, <1>5, <1>6, <1>7, <1>9, <2>1, <2>2 DEF d, Types
  <1>10. QED
    BY <1>2, <1>8, <1>9 DEF Types

\* Writing the array of the next pass leaves the one that is read as it is.
LEMMA SourceFrozen ==
    ASSUME UNCHANGED <<input, pass>>, Source' = Source
    PROVE  /\ n' = n /\ max_col' = max_col /\ Places' = Places /\ Columns' = Columns
           /\ \A d, e : i' = e => With(d, i)' = With(d, e)
           /\ \A d : Less(d)' = Less(d)
           /\ \A k : PlaceOf(k)' = PlaceOf(k)
           /\ Permuted(Source)' = Permuted(Source)
           /\ OrderedBy(Source, Weight[pass])' = OrderedBy(Source, Weight[pass])
  <1>1. n' = n /\ max_col' = max_col /\ Places' = Places /\ Columns' = Columns
    BY DEF n, max_col, Places, Columns
  <1>2. /\ \A d, e : i' = e => With(d, i)' = With(d, e)
        /\ \A d : Less(d)' = Less(d)
        /\ \A k : PlaceOf(k)' = PlaceOf(k)
    BY <1>1 DEF With, Less, PlaceOf, Before, D, Digit
  <1>3. /\ Permuted(Source)' = Permuted(Source)
        /\ OrderedBy(Source, Weight[pass])' = OrderedBy(Source, Weight[pass])
    BY <1>1 DEF Permuted, OrderedBy
  <1>4. QED
    BY <1>1, <1>2, <1>3

LEMMA ScatterStep ==
    ASSUME Inv, Scatter
    PROVE  Inv'
  <1> DEFINE d == D(Source[i])
  <1>1. /\ pc = "scatter" /\ pc' = "scatter" /\ i < n /\ i' = i + 1
        /\ count' = [count EXCEPT ![d] = @ + 1]
        /\ UNCHANGED <<input, j, key, passes, pass, src, running, b>>
    BY DEF Scatter, D, Source
  <1>2. /\ i \in Places /\ d \in 0 .. BUCKETS - 1
        /\ count[d] = PlaceOf(i) /\ PlaceOf(i) \in Places
        /\ Target \in [Places -> Columns \cup {Junk}]
        /\ Target' = [Target EXCEPT ![PlaceOf(i)] = Source[i]]
        /\ Source' = Source
        /\ cols' \in [Places -> Columns] /\ tmp' \in [Places -> Columns \cup {Junk}]
    BY ScatterWrites
  <1>3. /\ Types /\ PassRuns /\ Permuted(Source) /\ OrderedBy(Source, Weight[pass])
        /\ max_col < Weight[passes] /\ pass < passes
    BY <1>1, PassInv DEF InPass
  <1>4. /\ \A e \in 0 .. BUCKETS - 1 : count[e] = Cardinality(Less(e)) + Cardinality(With(e, i))
        /\ Source \in [Places -> Columns]
        /\ \A k \in Places : k < i => Target[PlaceOf(k)] = Source[k]
    BY <1>1 DEF Inv, RadixInv
  <1>5. /\ i \in Nat /\ n \in Nat /\ BUCKETS \in Nat /\ count \in [0 .. BUCKETS - 1 -> Nat]
        /\ \A k \in Places : k \in Nat
    BY <1>3, Constants, TypesAre DEF Types
  <1>6. ASSUME NEW e \in 0 .. BUCKETS - 1
        PROVE  count'[e] = Cardinality(Less(e)) + Cardinality(With(e, i + 1))
    <2>1. e \in Nat
      BY <1>5
    <2>2. Cardinality(Less(e)) \in Nat /\ Cardinality(With(e, i)) \in Nat
      BY <1>2, <1>3, <2>1, SumGrows, CountGrows
    <2>3. Cardinality(With(e, i + 1)) = IF d = e THEN Cardinality(With(e, i)) + 1
                                                 ELSE Cardinality(With(e, i))
      BY <1>2, <1>3, <2>1, CountGrows
    <2> HIDE DEF d
    <2>4. count'[e] = IF d = e THEN count[e] + 1 ELSE count[e]
      BY <1>1, <1>2, <1>5
    <2>5. count[e] = Cardinality(Less(e)) + Cardinality(With(e, i))
      BY <1>4
    <2>6. QED
      BY <2>2, <2>3, <2>4, <2>5
  <1>7. ASSUME NEW k \in Places, k < i + 1
        PROVE  Target'[PlaceOf(k)] = Source[k]
    <2>1. CASE k = i
      BY <1>2, <2>1
    <2>2. CASE k < i
      <3>1. PlaceOf(k) # PlaceOf(i) /\ PlaceOf(k) \in Places
        BY <1>2, <1>3, <1>5, <2>2, PlacesTaken
      <3>2. QED
        BY <1>2, <1>4, <2>2, <3>1
    <2>3. QED
      BY <1>5, <1>7, <2>1, <2>2
  <1> HIDE DEF d
  <1>8. i' \in Nat /\ i' <= n /\ i' <= n + 1 /\ count' \in [0 .. BUCKETS - 1 -> Nat]
    BY <1>1, <1>2, <1>5
  <1>9. Types'
    <2>1. \A e \in 0 .. BUCKETS - 1 : count'[e] <= n
      <3>1. count[d] + 1 <= n
        BY <1>2, <1>5, TypesAre, <1>3
      <3>2. \A e \in 0 .. BUCKETS - 1 : count[e] <= n
        BY <1>3 DEF Types
      <3>3. QED
        BY <1>1, <1>2, <1>5, <3>1, <3>2
    <2>2. QED
      BY <1>1, <1>2, <1>3, <1>8, <2>1, SourceFrozen DEF Types
  <1>10. RadixInv'
    <2>1. \A e : With(e, i)' = With(e, i + 1)
      BY <1>1, <1>2, SourceFrozen
    <2>2. /\ \A e \in 0 .. BUCKETS - 1 : count'[e] = Cardinality(Less(e)') + Cardinality(With(e, i)')
          /\ \A k \in Places' : k < i' => Target'[PlaceOf(k)'] = Source'[k]
      BY <1>1, <1>2, <1>6, <1>7, <2>1, SourceFrozen
    <2>3. QED
      BY <1>1, <1>2, <1>3, <1>4, <1>8, <2>2, SourceFrozen DEF RadixInv
  <1>11. QED
    BY <1>1, <1>9, <1>10 DEF Inv, InsertInv

\* What a finished pass has written is ordered by one more digit.
LEMMA PassOrders ==
    ASSUME PassRuns, OrderedBy(Source, Weight[pass]), NEW a,
           \A k \in Places : a[PlaceOf(k)] = Source[k]
    PROVE  OrderedBy(a, Weight[pass + 1])
  <1>1. /\ n \in Nat /\ pass \in 0 .. MAX_PASSES - 1
        /\ \A k \in Places : k \in Nat /\ Source[k] \in Nat
    BY PassFacts
  <1>2. ASSUME NEW x \in Places, NEW y \in Places, x < y
        PROVE  Rest(a[x], pass + 1) <= Rest(a[y], pass + 1)
    <2>1. PICK k \in Places, m \in Places : PlaceOf(k) = x /\ PlaceOf(m) = y
      BY <1>1, PlacesTaken
    <2>2. k \in Before(m)
      <3>1. x \in Nat /\ y \in Nat
        BY <1>1
      <3>2. k # m /\ m \notin Before(k)
        BY <1>2, <2>1, <3>1, PlacesTaken
      <3>3. QED
        BY <3>2, PlacesTaken
    <2>3. D(Source[k]) < D(Source[m]) \/ (D(Source[k]) = D(Source[m]) /\ k < m)
      BY <2>2 DEF Before
    <2>4. k < m => Rest(Source[k], pass) <= Rest(Source[m], pass)
      BY DEF OrderedBy, Rest
    <2>5. Rest(Source[k], pass + 1) <= Rest(Source[m], pass + 1)
      BY <1>1, <2>3, <2>4, OrderOfDigits DEF D
    <2>6. QED
      BY <2>1, <2>5
  <1>3. QED
    BY <1>2 DEF OrderedBy, Rest

LEMMA PassDoneStep ==
    ASSUME Inv, PassDone
    PROVE  Inv'
  <1>1. /\ pc = "scatter" /\ i >= n /\ src' = Other(src) /\ pass' = pass + 1
        /\ pc' = IF pass + 1 < passes THEN "count" ELSE "back"
        /\ count' = [d \in DOMAIN count |-> 0] /\ i' = 0
        /\ UNCHANGED <<input, cols, tmp, j, key, passes, running, b>>
    BY DEF PassDone, ZeroCount
  <1>2. /\ Types /\ PassRuns /\ Permuted(Source) /\ OrderedBy(Source, Weight[pass])
        /\ max_col < Weight[passes] /\ pass < passes /\ passes \in Nat /\ pass \in Nat
    BY <1>1, PassInv DEF InPass
  <1>3. /\ Source \in [Places -> Columns]
        /\ \A k \in Places : k < i => Target[PlaceOf(k)] = Source[k]
    BY <1>1 DEF Inv, RadixInv
  <1>4. /\ n \in Nat /\ n' = n /\ max_col' = max_col /\ Places' = Places /\ Columns' = Columns
        /\ \A k \in Places : k \in Nat /\ k < n
    BY <1>1, <1>2, TypesAre DEF n, max_col, Places, Columns
  <1>5. \A k \in Places : Target[PlaceOf(k)] = Source[k]
    BY <1>1, <1>2, <1>3, <1>4 DEF Types
  <1>6. Target \in [Places -> Columns]
    <2>1. \E V : Target \in [Places -> V]
      BY <1>2 DEF Target, Here, Types
    <2>2. \A x \in Places : Target[x] \in Columns
      BY <1>2, <1>3, <1>5, PlacesTaken
    <2>3. QED
      BY <2>1, <2>2
  <1>7. Permuted(Target)
    BY <1>2, <1>5, PassMoves
  <1>8. OrderedBy(Target, Weight[pass + 1])
    BY <1>2, <1>5, PassOrders
  <1>9. Source' = Target /\ src' \in {"cols", "tmp"}
    BY <1>1 DEF Source, Target, Here, Other
  <1>10. /\ Source' \in [Places' -> Columns'] /\ Permuted(Source)'
         /\ OrderedBy(Source, Weight[pass])'
    <2>1. Permuted(Source)'
      BY <1>1, <1>4, <1>7, <1>9 DEF Permuted
    <2>2. OrderedBy(Source, Weight[pass])'
      BY <1>1, <1>4, <1>8, <1>9 DEF OrderedBy
    <2>3. QED
      BY <1>4, <1>6, <1>9, <2>1, <2>2
  <1>11. count' = [d \in 0 .. BUCKETS - 1 |-> 0]
    BY <1>1, <1>2 DEF Types
  <1>12. \A d : Cardinality(With(d, i)') = 0
    <2>1. \A d : With(d, i)' = {}
      <3>1. \A k \in Places' : ~(k < i')
        BY <1>1, <1>4
      <3>2. QED
        BY <3>1 DEF With
    <2>2. QED
      BY <2>1, FS_EmptySet
  <1>13. Types'
    <2>1. i' \in Nat /\ i' <= n' + 1 /\ pass' \in Nat /\ count' \in [0 .. BUCKETS - 1 -> Nat]
          /\ pc' \in {"count", "back"}
      BY <1>1, <1>2, <1>4, <1>11
    <2>2. QED
      BY <1>1, <1>2, <1>4, <1>9, <2>1 DEF Types
  <1>14. CASE pass + 1 < passes
    <2>1. pc' = "count" /\ pass' < passes' /\ i' <= n'
      BY <1>1, <1>4, <1>14
    <2>2. \A d \in 0 .. BUCKETS - 1 : count'[d] = Cardinality(With(d, i)')
      BY <1>11, <1>12
    <2>3. QED
      BY <1>1, <1>2, <1>4, <1>10, <1>13, <2>1, <2>2 DEF Inv, InsertInv, RadixInv
  <1>15. CASE ~(pass + 1 < passes)
    <2>1. pc' = "back" /\ pass' = passes'
      BY <1>1, <1>2, <1>15
    <2>2. QED
      BY <1>1, <1>2, <1>4, <1>10, <1>13, <2>1 DEF Inv, InsertInv, RadixInv
  <1>16. QED
    BY <1>14, <1>15

\* After the last pass the remainder is the column itself.
LEMMA CopyBackStep ==
    ASSUME Inv, CopyBack
    PROVE  Inv'
  <1>1. /\ pc = "back" /\ pc' = "done" /\ cols' = IF src = "tmp" THEN tmp ELSE cols
        /\ UNCHANGED <<input, tmp, i, j, key, passes, pass, src, count, running, b>>
    BY DEF CopyBack, insertion, radix
  <1>2. Types
    BY DEF Inv
  <1>3. /\ Source \in [Places -> Columns] /\ Permuted(Source)
        /\ OrderedBy(Source, Weight[passes]) /\ max_col < Weight[passes]
    BY <1>1 DEF Inv, RadixInv
  <1>4. cols' = Source
    BY <1>1, <1>2 DEF Source, Here, Types
  <1>5. /\ n \in Nat /\ max_col \in Nat
        /\ n' = n /\ max_col' = max_col /\ Places' = Places /\ Columns' = Columns
    BY <1>1, <1>2, TypesAre DEF n, max_col, Places, Columns
  <1>6. passes \in 0 .. MAX_PASSES
    BY <1>2, Constants DEF Types
  <1>7. \A k \in Places : Rest(Source[k], passes) = Source[k]
    <2>1. \A x \in Columns : x \in Nat /\ x < Weight[passes]
      <3>1. Weight[passes] \in Nat
        BY <1>6, Constants
      <3>2. QED
        BY <1>3, <1>5, <3>1 DEF Columns
    <2>2. QED
      BY <1>3, <1>6, <2>1, RestOfSmall
  <1>8. \A k, m \in Places : k < m => cols'[k] <= cols'[m]
    BY <1>3, <1>4, <1>7 DEF OrderedBy, Rest
  <1>9. Permuted(cols)'
    BY <1>1, <1>3, <1>4, <1>5 DEF Permuted
  <1>10. Types'
    BY <1>1, <1>2, <1>3, <1>4, <1>5 DEF Types
  <1>11. QED
    BY <1>1, <1>5, <1>8, <1>9, <1>10 DEF Inv, InsertInv, RadixInv

LEMMA StepInv ==
    ASSUME Inv, [Next]_vars
    PROVE  Inv'
  <1>1. CASE Next
    BY <1>1, EnterStep, TakeKeyStep, ShiftStep, PlaceKeyStep, InsertedStep, CountPassesStep,
       CountDigitStep, CountedStep, PrefixBucketStep, StartScatterStep, ScatterStep, PassDoneStep,
       CopyBackStep DEF Next
  <1>2. CASE UNCHANGED vars
    <2>1. UNCHANGED <<input, pc, cols, tmp, i, j, key, passes, pass, src, count, running, b>>
      BY <1>2 DEF vars, insertion, radix
    <2>2. Types'
      BY <2>1, Frozen DEF Inv, Types
    <2>3. InsertInv'
      BY <2>1, Frozen DEF Inv, InsertInv, Permuted
    <2>4. \A d : With(d, i)' = With(d, i) /\ With(d, n)' = With(d, n) /\ Less(b)' = Less(b)
      BY <2>1 DEF With, Less, D, Digit, Source, Here, Places, n
    <2>5. RadixInv'
      BY <2>1, <2>4, Frozen DEF Inv, RadixInv
    <2>6. QED
      BY <2>2, <2>3, <2>5 DEF Inv
  <1>3. QED
    BY <1>1, <1>2

\* The invariant of both sorts, for rows of any length.
THEOREM SpecInv == Spec => []Inv
  <1>1. Init => Inv
    BY InitInv
  <1>2. Inv /\ [Next]_vars => Inv'
    BY StepInv
  <1>3. QED
    BY <1>1, <1>2, PTL DEF Spec

\* Indices stay inside the row, the scratch array and the buckets, no column is
\* lost or doubled, and what was sorted so far stays in order.
THEOREM KeepsOrder == Spec => []PassesKeepOrder
  <1>1. ASSUME Inv
        PROVE  PassesKeepOrder
    <2>1. Types /\ InsertInv /\ RadixInv /\ input \in Inputs
      BY <1>1 DEF Inv, Types
    <2>2. n \in Nat /\ max_col \in Nat /\ BUCKETS \in Nat
      BY <2>1, TypesAre, Constants
    <2>3. TypeOK
      <3>1. i \in 0 .. n + 1 /\ j \in -1 .. n /\ running \in 0 .. n /\ b \in 0 .. BUCKETS
        BY <2>1, <2>2 DEF Types
      <3>2. passes \in 1 .. MAX_PASSES /\ pass \in 0 .. passes
        BY <2>1, Constants DEF Types
      <3>3. count \in [0 .. BUCKETS - 1 -> 0 .. n]
        <4>1. \A d \in 0 .. BUCKETS - 1 : count[d] \in 0 .. n
          BY <2>1, <2>2 DEF Types
        <4>2. QED
          BY <2>1, <4>1 DEF Types
      <3>4. QED
        BY <2>1, <3>1, <3>2, <3>3 DEF TypeOK, Types, Columns
    <2>4. NothingLost
      BY <2>1, PermutedIsSame DEF NothingLost, InsertInv, RadixInv, Source
    <2>5. DigitsSorted
      <3>1. pc \in {"count", "prefix", "scatter", "back"} => OrderedBy(Here(src), Weight[pass])
        BY <2>1 DEF RadixInv, Source
      <3>2. pc = "insert" => \A k, m \in 0 .. i - 1 : k < m => cols[k] <= cols[m]
        <4>1. pc = "insert" =>
                 i \in Nat /\ i <= n /\ \A k, m \in Places : k < m /\ m < i => cols[k] <= cols[m]
          BY <2>1 DEF InsertInv, Types
        <4>2. pc = "insert" => \A k \in 0 .. i - 1 : k \in Places /\ k < i
          BY <2>2, <4>1 DEF Places
        <4>3. QED
          BY <4>1, <4>2
      <3>3. QED
        BY <3>1, <3>2 DEF DigitsSorted, OrderedBy
    <2>6. QED
      BY <2>3, <2>4, <2>5 DEF PassesKeepOrder
  <1>2. QED
    BY <1>1, SpecInv, PTL

\* rvsp_sort_columns returns the columns it was given in ascending order, in
\* the array it was given: for every length, either sort and any number of passes.
THEOREM SortIsRight == Spec => []SortsInPlace
  <1>1. ASSUME Inv
        PROVE  SortsInPlace
    BY <1>1, PermutedIsSame DEF Inv, Types, InsertInv, SortsInPlace
  <1>2. QED
    BY <1>1, SpecInv, PTL

-------------------------------------------------------------------------------
(* The workspace, in which the scratch array lies *)

\* AlignUp rounds up to a multiple of 64, and by less than 64.
LEMMA AlignUpBounds ==
    ASSUME NEW x \in Nat
    PROVE  /\ AlignUp(x) \in Nat /\ AlignUp(x) % 64 = 0
           /\ x <= AlignUp(x) /\ AlignUp(x) < x + 64
<1> DEFINE q == (x + 63) \div 64
            r == (x + 63) % 64
<1>1. q \in Nat /\ r \in 0 .. 63 /\ x + 63 = 64 * q + r
    OBVIOUS
<1>2. AlignUp(x) = 64 * q
    BY <1>1 DEF AlignUp
<1> QED  BY <1>1, <1>2

\* Sums of multiples of 64 are multiples of 64.
LEMMA AlignedSum ==
    ASSUME NEW x \in Nat, NEW y \in Nat, x % 64 = 0, y % 64 = 0
    PROVE  (x + y) % 64 = 0
OBVIOUS

LEMMA CountPositive ==
    ASSUME NEW b_cols \in Int
    PROVE  Count(b_cols) \in Nat \ {0} /\ (b_cols <= INT32_MAX => Count(b_cols) <= INT32_MAX)
BY DEF Count, INT32_MAX

\* The buffer that rvsp_spgemm_buffer_size asks for holds its four arrays, that
\* of work_estimation its two and that of compute its three, for every b_cols.
THEOREM LayoutsFit ==
    ASSUME NEW b_cols \in Int
    PROVE  /\ FitsIn(WsBind(b_cols), WsBytes(b_cols))
           /\ FitsIn(CountWsBind(b_cols), CountWsBytes(b_cols))
           /\ FitsIn(ComputeWsBind(b_cols), ComputeWsBytes(b_cols))
<1> DEFINE elems == Count(b_cols)
            w == AlignUp(elems * 4)
            m == AlignUp(elems)
<1>1. elems \in Nat /\ elems * 4 \in Nat
    BY CountPositive
<1>2. w \in Nat /\ m \in Nat /\ w % 64 = 0 /\ m % 64 = 0 /\ elems * 4 <= w /\ elems <= m
    BY <1>1, AlignUpBounds
<1>3. (w + m) % 64 = 0 /\ (w + m + w) % 64 = 0 /\ w + m \in Nat
    BY <1>2, AlignedSum
<1>4. FitsIn(WsBind(b_cols), WsBytes(b_cols))
  <2> DEFINE L == WsBind(b_cols)
  <2>1. /\ DOMAIN L = {"acc", "mark", "touched", "scratch"} /\ WsBytes(b_cols) = w + m + w + w
        /\ L["acc"].at = 0 /\ L["acc"].len = elems * 4
        /\ L["mark"].at = w /\ L["mark"].len = elems
        /\ L["touched"].at = w + m /\ L["touched"].len = elems * 4
        /\ L["scratch"].at = w + m + w /\ L["scratch"].len = elems * 4
    BY DEF WsBind, WsBytes
  <2> HIDE DEF L, elems, w, m
  <2>2. \A f \in DOMAIN L : /\ L[f].at % 64 = 0 /\ L[f].at >= 0
                            /\ L[f].at + L[f].len <= WsBytes(b_cols)
    BY ONLY <1>1, <1>2, <1>3, <2>1
  <2>3. \A f, g \in DOMAIN L :
          f # g => L[f].at + L[f].len <= L[g].at \/ L[g].at + L[g].len <= L[f].at
    BY ONLY <1>1, <1>2, <2>1
  <2> QED  BY <2>2, <2>3 DEF FitsIn, L
<1>5. FitsIn(CountWsBind(b_cols), CountWsBytes(b_cols))
  <2> DEFINE L == CountWsBind(b_cols)
  <2>1. /\ DOMAIN L = {"mark", "touched"} /\ CountWsBytes(b_cols) = m + w
        /\ L["mark"].at = 0 /\ L["mark"].len = elems
        /\ L["touched"].at = m /\ L["touched"].len = elems * 4
    BY DEF CountWsBind, CountWsBytes
  <2> HIDE DEF L, elems, w, m
  <2>2. \A f \in DOMAIN L : /\ L[f].at % 64 = 0 /\ L[f].at >= 0
                            /\ L[f].at + L[f].len <= CountWsBytes(b_cols)
    BY ONLY <1>1, <1>2, <1>3, <2>1
  <2>3. \A f, g \in DOMAIN L :
          f # g => L[f].at + L[f].len <= L[g].at \/ L[g].at + L[g].len <= L[f].at
    BY ONLY <1>1, <1>2, <2>1
  <2> QED  BY <2>2, <2>3 DEF FitsIn, L
<1>6. FitsIn(ComputeWsBind(b_cols), ComputeWsBytes(b_cols))
  <2> DEFINE L == ComputeWsBind(b_cols)
  <2>1. /\ DOMAIN L = {"acc", "mark", "scratch"} /\ ComputeWsBytes(b_cols) = w + m + w
        /\ L["acc"].at = 0 /\ L["acc"].len = elems * 4
        /\ L["mark"].at = w /\ L["mark"].len = elems
        /\ L["scratch"].at = w + m /\ L["scratch"].len = elems * 4
    BY DEF ComputeWsBind, ComputeWsBytes
  <2> HIDE DEF L, elems, w, m
  <2>2. \A f \in DOMAIN L : /\ L[f].at % 64 = 0 /\ L[f].at >= 0
                            /\ L[f].at + L[f].len <= ComputeWsBytes(b_cols)
    BY ONLY <1>1, <1>2, <1>3, <2>1
  <2>3. \A f, g \in DOMAIN L :
          f # g => L[f].at + L[f].len <= L[g].at \/ L[g].at + L[g].len <= L[f].at
    BY ONLY <1>1, <1>2, <2>1
  <2> QED  BY <2>2, <2>3 DEF FitsIn, L
<1> QED  BY <1>4, <1>5, <1>6

\* No size wraps around: the widest b_cols an int32_t holds asks for less than
\* 2^35 bytes.
THEOREM SizesDoNotWrap ==
    ASSUME NEW b_cols \in Int, b_cols <= INT32_MAX
    PROVE  WsBytes(b_cols) <= SIZE_MAX /\ CountWsBytes(b_cols) <= SIZE_MAX
           /\ ComputeWsBytes(b_cols) <= SIZE_MAX
<1> DEFINE elems == Count(b_cols)
<1>1. elems \in Nat /\ elems <= 2147483647
    BY CountPositive DEF INT32_MAX
<1>2. /\ AlignUp(elems * 4) \in Nat /\ AlignUp(elems * 4) < elems * 4 + 64
      /\ AlignUp(elems) \in Nat /\ AlignUp(elems) < elems + 64
    BY <1>1, AlignUpBounds
<1> QED  BY <1>1, <1>2 DEF WsBytes, CountWsBytes, ComputeWsBytes, SIZE_MAX

===============================================================================
