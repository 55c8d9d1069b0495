--------------------------- MODULE ReductionsProofs ----------------------------
(***************************************************************************)
(* Proofs about the modifiers of rows and columns: what their edits make   *)
(* of a problem, whatever the problem, the reference and the tolerances;   *)
(* that visits do not interfere; and that what a success hands back is the *)
(* problem that was solved last, though it was rebuilt from the edits.     *)
(***************************************************************************)
EXTENDS Reductions, FiniteSetTheorems, SequenceTheorems, TLAPS

Plus(x, t) == t + x
Chosen(T)  == CHOOSE x \in T : TRUE

Editing == INSTANCE FoldLemmas WITH Op <- Apply, Pick <- Max
Joining == INSTANCE FoldLemmas WITH Op <- Join, Pick <- Max
Summing == INSTANCE FoldLemmas WITH Op <- Plus, Pick <- Chosen

-------------------------------------------------------------------------------
(* The folds of the model are those of FoldLemmas. *)
LEMMA EditingIsFold ==
  ASSUME NEW p, NEW q
  PROVE  FoldLeft(Apply, p, q) = Editing!Over(p, q)
BY DEF FoldLeft, MapThenFoldSet, Editing!Over, Editing!Fold, Editing!IsFold,
       Editing!FoldStep

(* The fold of Join is the one of FoldLemmas.                              *)
LEMMA JoiningIsFold ==
  ASSUME NEW e, NEW q
  PROVE  FoldLeft(Join, e, q) = Joining!Over(e, q)
BY DEF FoldLeft, MapThenFoldSet, Joining!Over, Joining!Fold, Joining!IsFold,
       Joining!FoldStep

(* The largest of a set of naturals up to n.                               *)
LEMMA LargestUpTo ==
  ASSUME NEW n \in Nat, NEW T \in SUBSET (1..n), T # {}
  PROVE  Max(T) \in T /\ \A x \in T : x <= Max(T)
<1> DEFINE N == {n - x : x \in T}
<1>1. N \in SUBSET Nat /\ N # {}
  <2>1. ASSUME NEW x \in T  PROVE n - x \in Nat
    <3>1. x \in 1..n
      OBVIOUS
    <3> QED BY <3>1
  <2>2. PICK x \in T : TRUE
    OBVIOUS
  <2>3. n - x \in N
    OBVIOUS
  <2> QED BY <2>1, <2>3
<1>2. PICK m \in N : \A k \in N : m <= k
  BY <1>1, Editing!LeastNatural
<1>3. PICK x \in T : m = n - x
  BY <1>2
<1>4. \A y \in T : y <= x
  <2>1. ASSUME NEW y \in T  PROVE y <= x
    <3>1. n - x <= n - y
      BY <1>2, <1>3
    <3> QED BY <3>1
  <2> QED BY <2>1
<1>5. \E y \in T : \A z \in T : y >= z
  BY <1>4
<1> QED BY <1>5 DEF Max

(* Both steps of FoldLemmas take the last element of a sequence.           *)
LEMMA LastIsPicked == Editing!TakesLast /\ Joining!TakesLast
<1>2. ASSUME NEW n \in Nat, n > 0  PROVE Max(1..n) = n
  <2>0. n \in 1..n /\ 1..n \in SUBSET (1..n) /\ 1..n # {}
    BY <1>2
  <2>1. Max(1..n) \in 1..n /\ n <= Max(1..n)
    BY <2>0, LargestUpTo
  <2> QED BY <2>1
<1>3. \A n \in Nat : \A T \in SUBSET (1..n) : T # {} => Max(T) \in T
  BY LargestUpTo
<1> QED BY <1>2, <1>3 DEF Editing!TakesLast, Joining!TakesLast, Editing!Picks, Joining!Picks

(* The sum over a finite set is an integer. *)
LEMMA SumIsInteger ==
  ASSUME NEW S, IsFiniteSet(S), NEW f, \A c \in S : f[c] \in Int
  PROVE  Summing!Fold(0, f, S) \in Int
<1>0. Summing!IsFiniteSet(S)
  BY DEF IsFiniteSet, Summing!IsFiniteSet
<1>1. Summing!Picks(S)
  BY DEF Summing!Picks, Chosen
<1>2. \A v \in Int : \A x \in S : Plus(v, f[x]) \in Int
  BY DEF Plus
<1> QED BY <1>0, <1>1, <1>2, Summing!FoldKeeps


-------------------------------------------------------------------------------
(* Whole numbers are multiples of One, and their squares are whole.        *)
Whole(v) == v \in Int /\ \E k \in Int : v = k * One

(* Quotient and remainder of integers by One are as expected.              *)
LEMMA Division ==
  ASSUME NEW a \in Int
  PROVE  a % One \in Int /\ a \div One \in Int /\ a = One * (a \div One) + (a % One)
BY TolerancesAssumption DEF TolerancesAssumption

(* Sums, negations and products of whole numbers are whole.                *)
LEMMA WholeArithmetic ==
  /\ Whole(0)
  /\ \A v : Whole(v) => Whole(-v) /\ v \in Steps
  /\ \A v \in Int : Whole(Floor(v)) /\ Whole(Ceil(v)) /\ Whole(Round(v))
<1>0. One \in Nat \ {0} /\ One % 2 = 0 /\ One \div 2 \in Int
  BY TolerancesAssumption DEF TolerancesAssumption
<1>1. Whole(0)
  <2>1. 0 = 0 * One
    BY <1>0
  <2> QED BY <2>1 DEF Whole
<1>2. ASSUME NEW v, Whole(v)  PROVE Whole(-v)
  <2>1. PICK k \in Int : v = k * One
    BY <1>2 DEF Whole
  <2>2. -v = (-k) * One /\ -k \in Int /\ -v \in Int
    BY <1>0, <2>1
  <2> QED BY <2>2 DEF Whole
<1>3. ASSUME NEW v, Whole(v)  PROVE v \in Steps
  <2>1. PICK k \in Int : v = k * One
    BY <1>3 DEF Whole
  <2>2. v \in Int
    BY <1>3 DEF Whole
  <2>3. v * v = One * (k * v) /\ k * v \in Int
    BY <1>0, <2>1, <2>2
  <2>4. \A j \in Int : (One * j) % One = 0
    BY <1>0
  <2>5. (v * v) % One = 0
    BY <2>3, <2>4
  <2> QED BY <2>2, <2>5 DEF Steps, Step
<1>4. ASSUME NEW v \in Int  PROVE Whole(Floor(v))
  <2>1. v % One \in Int /\ v \div One \in Int /\ v = One * (v \div One) + (v % One)
    BY Division
  <2>2. Floor(v) = One * (v \div One) /\ Floor(v) \in Int
    BY <1>0, <2>1 DEF Floor
  <2>3. Floor(v) = (v \div One) * One
    BY <1>0, <2>1, <2>2
  <2> QED BY <2>1, <2>2, <2>3 DEF Whole
<1>5. ASSUME NEW v \in Int  PROVE Whole(Ceil(v))
  BY <1>2, <1>4 DEF Ceil
<1>6. ASSUME NEW v \in Int  PROVE Whole(Round(v))
  <2>1. -v + One \div 2 \in Int /\ v + One \div 2 \in Int
    BY <1>0
  <2> QED BY <1>2, <1>4, <2>1 DEF Round
<1> QED BY <1>1, <1>2, <1>3, <1>4, <1>5, <1>6

(* Rounding makes steps of numbers.                                        *)
LEMMA StepArithmetic ==
  /\ 0 \in Steps /\ Steps \subseteq Int
  /\ \A v \in Int : /\ Round(v) \in Steps
                    /\ EpsFloor(v) \in Steps /\ EpsCeil(v) \in Steps
<1>1. 0 \in Steps /\ Steps \subseteq Int
  BY WholeArithmetic DEF Steps
<1>2. ASSUME NEW v \in Int
      PROVE  Round(v) \in Steps /\ EpsFloor(v) \in Steps /\ EpsCeil(v) \in Steps
  <2>1. v + Epsilon \in Int /\ v - Epsilon \in Int
    BY TolerancesAssumption DEF TolerancesAssumption
  <2> QED BY <2>1, WholeArithmetic DEF EpsFloor, EpsCeil
<1> QED BY <1>1, <1>2

(* A product of two steps is an integer.                                   *)
LEMMA TimesInteger ==
  ASSUME NEW a \in Int, NEW b \in Int
  PROVE  Times(a, b) \in Int
<1>1. a * b \in Int
  OBVIOUS
<1> QED BY <1>1, Division DEF Times

-------------------------------------------------------------------------------
(* A set of numbers can be listed from the largest to the smallest, and so *)
(* the other way, and no number is listed twice.                           *)
Falls(g, S) ==
  /\ g \in [1..Cardinality(S) -> S]
  /\ \A i, j \in 1..Cardinality(S) : i < j => g[i] > g[j]

(* A finite set of integers can be listed from the last to the first.      *)
LEMMA FallingExists ==
  ASSUME NEW n \in Nat, NEW S \in SUBSET (1..n)
  PROVE  \E g : Falls(g, S)
<1> DEFINE Bad == {T \in SUBSET S : ~ \E g : Falls(g, T)}
<1>0. IsFiniteSet(S) /\ Editing!IsFiniteSet(S)
  <2>0. IsFiniteSet(1..n)
    BY FS_Interval
  <2>1. IsFiniteSet(S)
    BY <2>0, FS_Subset
  <2> QED BY <2>1 DEF IsFiniteSet, Editing!IsFiniteSet
<1>1. ASSUME Bad # {}  PROVE FALSE
  <2>1. PICK T \in Bad : \A U \in Bad : Cardinality(T) <= Cardinality(U)
    <3>1. \E T \in Bad : \A U \in Bad : Editing!Cardinality(T) <= Editing!Cardinality(U)
      BY <1>0, <1>1, Editing!SmallestSet
    <3> QED BY <3>1 DEF Cardinality, Editing!Cardinality
  <2>2. IsFiniteSet(T) /\ T \in SUBSET (1..n)
    BY <1>0, FS_Subset
  <2>3. ASSUME T = {}  PROVE FALSE
    <3>1. Cardinality(T) = 0
      BY <2>3, FS_EmptySet
    <3>2. 1..0 = {}
      OBVIOUS
    <3>3. Falls(<< >>, T)
      BY <2>3, <3>1, <3>2 DEF Falls
    <3> QED BY <2>1, <3>3
  <2> DEFINE x == Max(T)
             U == T \ {x}
             m == Cardinality(T)
  <2>4. x \in T /\ \A y \in T : y <= x
    BY <2>2, <2>3, LargestUpTo
  <2>5. m \in Nat /\ IsFiniteSet(U) /\ Cardinality(U) = m - 1 /\ m # 0
    BY <2>2, <2>4, FS_RemoveElement, FS_CardinalityType, FS_EmptySet
  <2>6. U \notin Bad /\ U \in SUBSET S
    <3>1. ~ (m <= m - 1)
      BY <2>5
    <3>2. U \in SUBSET S
      OBVIOUS
    <3> HIDE DEF m, U, Bad
    <3>3. ~ (Cardinality(T) <= Cardinality(U))
      BY <2>5, <3>1 DEF m
    <3> QED BY <2>1, <3>2, <3>3
  <2>7. PICK h : Falls(h, U)
    BY <2>6
  <2> DEFINE g == [i \in 1..m |-> IF i = 1 THEN x ELSE h[i - 1]]
  <2> HIDE DEF x
  <2>8. ASSUME NEW i \in 1..m, i # 1  PROVE i - 1 \in 1..Cardinality(U) /\ g[i] = h[i - 1] /\ g[i] \in U
    <3>1. i - 1 \in 1..m - 1
      BY <2>5, <2>8
    <3>2. i - 1 \in 1..Cardinality(U)
      BY <2>5, <3>1
    <3>3. h[i - 1] \in U
      BY <2>7, <3>2 DEF Falls
    <3> QED BY <2>8, <3>2, <3>3
  <2>9. g[1] = x /\ 1 \in 1..m
    BY <2>5
  <2>10. g \in [1..m -> T]
    BY <2>4, <2>8, <2>9
  <2>12. ASSUME NEW i \in 1..m, NEW j \in 1..m, i < j  PROVE g[i] > g[j]
    <3>0. j # 1 /\ g[j] \in U /\ g[j] = h[j - 1] /\ j - 1 \in 1..Cardinality(U)
      BY <2>8, <2>12
    <3>1. CASE i = 1
      <4>0. \A y \in T : y \in Int
        BY <2>2
      <4>1. g[j] # x /\ g[j] <= x /\ g[j] \in Int /\ x \in Int
        BY <2>4, <3>0, <4>0
      <4> QED BY <2>9, <3>1, <4>1
    <3>2. CASE i # 1
      <4>0. i \in Int /\ j \in Int /\ i - 1 < j - 1
        BY <2>5, <2>12
      <4>1. i - 1 \in 1..Cardinality(U) /\ g[i] = h[i - 1]
        BY <2>8, <3>2
      <4>2. h[i - 1] > h[j - 1]
        BY <2>7, <3>0, <4>0, <4>1 DEF Falls
      <4> QED BY <3>0, <4>1, <4>2
    <3> QED BY <3>1, <3>2
  <2> HIDE DEF g
  <2>13. Falls(g, T)
    BY <2>10, <2>12 DEF Falls
  <2> QED BY <2>1, <2>13
<1> QED BY <1>1

ListsOnce(q, S) ==
  /\ Cardinality(S) \in Nat /\ q \in [1..Cardinality(S) -> S]
  /\ \A i, j \in 1..Cardinality(S) : i # j => q[i] # q[j]

(* Falling and Rising list each member of a finite set once.               *)
LEMMA SortedSets ==
  ASSUME NEW n \in Nat, NEW S \in SUBSET (1..n)
  PROVE  ListsOnce(Falling(S), S) /\ ListsOnce(Rising(S), S)
<1> DEFINE m == Cardinality(S)
<1>0. IsFiniteSet(1..n)
  BY FS_Interval
<1>1. IsFiniteSet(S) /\ m \in Nat
  BY <1>0, FS_Subset, FS_CardinalityType
<1>2. \A x \in S : x \in Int
  OBVIOUS
<1>3. PICK g : Falls(g, S)
  BY FallingExists
<1> HIDE DEF m
<1>4. g \in [1..m -> S] /\ \A i, j \in 1..m : i < j => g[i] > g[j]
  BY <1>3 DEF Falls, m
<1> DEFINE h == [i \in 1..m |-> g[m + 1 - i]]
<1>5. ASSUME NEW i \in 1..m  PROVE m + 1 - i \in 1..m /\ h[i] = g[m + 1 - i] /\ h[i] \in S
  <2>1. m + 1 - i \in 1..m
    BY <1>1
  <2> QED BY <1>4, <2>1
<1>6. ASSUME NEW i \in 1..m, NEW j \in 1..m, i < j  PROVE h[i] < h[j]
  <2>1. m + 1 - j < m + 1 - i
    BY <1>1, <1>6
  <2>2. g[m + 1 - j] > g[m + 1 - i]
    BY <1>4, <1>5, <2>1
  <2>3. h[i] \in Int /\ h[j] \in Int
    BY <1>2, <1>5
  <2> QED BY <1>5, <2>2, <2>3
<1>7. h \in [1..m -> S]
  BY <1>5
<1> HIDE DEF h
<1> DEFINE q == Falling(S)
           r == Rising(S)
<1>8. q \in [1..m -> S] /\ \A i, j \in 1..m : i < j => q[i] > q[j]
  <2>1. q \in [1..m -> S] /\ \A i, j \in DOMAIN q : i < j => q[i] > q[j]
    BY <1>4 DEF Falling, m
  <2> QED BY <2>1
<1>9. r \in [1..m -> S] /\ \A i, j \in 1..m : i < j => r[i] < r[j]
  <2>1. r \in [1..m -> S] /\ \A i, j \in DOMAIN r : i < j => r[i] < r[j]
    BY <1>6, <1>7 DEF Rising, m
  <2> QED BY <2>1
<1> HIDE DEF q, r
<1>10. ASSUME NEW i \in 1..m, NEW j \in 1..m, i # j  PROVE q[i] # q[j] /\ r[i] # r[j]
  <2>1. i < j \/ j < i
    BY <1>1, <1>10
  <2>2. q[i] \in Int /\ q[j] \in Int /\ r[i] \in Int /\ r[j] \in Int
    BY <1>2, <1>8, <1>9
  <2> QED BY <1>8, <1>9, <2>1, <2>2
<1> QED BY <1>1, <1>8, <1>9, <1>10 DEF ListsOnce, q, r, m

-------------------------------------------------------------------------------
(* Rows stay rows, with the mark of equations where it belongs.            *)
LEMMA RowFields ==
  ASSUME NEW row, NEW n, IsRow(row, n)
  PROVE  /\ row = [lhs |-> row.lhs, rhs |-> row.rhs, flags |-> row.flags, coef |-> row.coef]
         /\ row.lhs \in Int /\ row.rhs \in Int /\ row.flags \in SUBSET RowFlag
         /\ DOMAIN row.coef \subseteq 1..n /\ row.coef \in [DOMAIN row.coef -> Steps]
BY DEF IsRow

(* A row is made of its four fields.                                       *)
LEMMA RowMade ==
  ASSUME NEW n, NEW a \in Int, NEW b \in Int, NEW F \in SUBSET RowFlag,
         NEW D \in SUBSET (1..n), NEW f \in [D -> Steps]
  PROVE  IsRow([lhs |-> a, rhs |-> b, flags |-> F, coef |-> f], n)
BY DEF IsRow

(* Changing one field of a row leaves a row.                               *)
LEMMA MarkedRow ==
  ASSUME NEW n, NEW row, IsRow(row, n)
  PROVE  /\ row.flags \cap {"LhsInf"} = {} =>
              LET m == Marked(row, "RhsInf")
              IN  IsRow(m, n) /\ EquationRight(m) /\ m.coef = row.coef
         /\ row.flags \cap {"RhsInf"} = {} =>
              LET m == Marked(row, "LhsInf")
              IN  IsRow(m, n) /\ EquationRight(m) /\ m.coef = row.coef
<1> DEFINE F(x) == IF x \notin row.flags /\ row.lhs = row.rhs
                     THEN row.flags \cup {"Equation"} ELSE row.flags \ {"Equation"}
           m(x) == [lhs |-> row.lhs, rhs |-> row.rhs, flags |-> F(x), coef |-> row.coef]
<1>1. Marked(row, "RhsInf") = m("RhsInf") /\ Marked(row, "LhsInf") = m("LhsInf")
  BY RowFields DEF Marked
<1>2. /\ row.lhs \in Int /\ row.rhs \in Int /\ row.flags \in SUBSET RowFlag
      /\ DOMAIN row.coef \in SUBSET (1..n) /\ row.coef \in [DOMAIN row.coef -> Steps]
  BY RowFields
<1>3. F("RhsInf") \in SUBSET RowFlag /\ F("LhsInf") \in SUBSET RowFlag
  BY <1>2 DEF RowFlag
<1>4. IsRow(m("RhsInf"), n) /\ IsRow(m("LhsInf"), n)
  <2> HIDE DEF F
  <2> QED BY <1>2, <1>3, RowMade
<1>5. row.flags \cap {"LhsInf"} = {} => EquationRight(m("RhsInf"))
  BY DEF EquationRight
<1>6. row.flags \cap {"RhsInf"} = {} => EquationRight(m("LhsInf"))
  BY DEF EquationRight
<1> QED BY <1>1, <1>4, <1>5, <1>6

(* A changed side leaves a row with the same coefficients, rightly flagged.*)
LEMMA SideRow ==
  ASSUME NEW n, NEW row, IsRow(row, n), NEW v \in Int
  PROVE  /\ IsRow(ModifyLeft(row, v), n) /\ EquationRight(ModifyLeft(row, v))
         /\ ModifyLeft(row, v).coef = row.coef
         /\ IsRow(ModifyRight(row, v), n) /\ EquationRight(ModifyRight(row, v))
         /\ ModifyRight(row, v).coef = row.coef
<1>1. /\ row.lhs \in Int /\ row.rhs \in Int /\ row.flags \in SUBSET RowFlag
      /\ DOMAIN row.coef \in SUBSET (1..n) /\ row.coef \in [DOMAIN row.coef -> Steps]
  BY RowFields
<1>2. Snapped(v, row.rhs) \in Int /\ Snapped(v, row.lhs) \in Int
  BY <1>1 DEF Snapped
<1> DEFINE left  == [row EXCEPT !.flags = @ \ {"LhsInf"}, !.lhs = Snapped(v, row.rhs)]
           right == [row EXCEPT !.flags = @ \ {"RhsInf"}, !.rhs = Snapped(v, row.lhs)]
<1>3. /\ left = [lhs |-> Snapped(v, row.rhs), rhs |-> row.rhs, flags |-> row.flags \ {"LhsInf"},
                 coef |-> row.coef]
      /\ right = [lhs |-> row.lhs, rhs |-> Snapped(v, row.lhs), flags |-> row.flags \ {"RhsInf"},
                  coef |-> row.coef]
  <2>0. row = [lhs |-> row.lhs, rhs |-> row.rhs, flags |-> row.flags, coef |-> row.coef]
    BY RowFields
  <2> HIDE DEF left, right
  <2> DEFINE ml == [row EXCEPT !.flags = @ \ {"LhsInf"}]
             mr == [row EXCEPT !.flags = @ \ {"RhsInf"}]
  <2>1. /\ ml = [lhs |-> row.lhs, rhs |-> row.rhs, flags |-> row.flags \ {"LhsInf"}, coef |-> row.coef]
        /\ mr = [lhs |-> row.lhs, rhs |-> row.rhs, flags |-> row.flags \ {"RhsInf"}, coef |-> row.coef]
    BY <2>0
  <2>2. /\ left = [ml EXCEPT !.lhs = Snapped(v, row.rhs)]
        /\ right = [mr EXCEPT !.rhs = Snapped(v, row.lhs)]
    BY <2>0 DEF left, right
  <2> HIDE DEF ml, mr
  <2>3. [ml EXCEPT !.lhs = Snapped(v, row.rhs)] =
          [lhs |-> Snapped(v, row.rhs), rhs |-> row.rhs, flags |-> row.flags \ {"LhsInf"},
           coef |-> row.coef]
    BY <2>1
  <2>4. [mr EXCEPT !.rhs = Snapped(v, row.lhs)] =
          [lhs |-> row.lhs, rhs |-> Snapped(v, row.lhs), flags |-> row.flags \ {"RhsInf"},
           coef |-> row.coef]
    BY <2>1
  <2> QED BY <2>2, <2>3, <2>4
<1>4. IsRow(left, n) /\ IsRow(right, n)
  <2>1. row.flags \ {"LhsInf"} \in SUBSET RowFlag /\ row.flags \ {"RhsInf"} \in SUBSET RowFlag
    BY <1>1
  <2> HIDE DEF left, right
  <2> QED BY <1>1, <1>2, <1>3, <2>1, RowMade
<1>5. /\ left.flags \cap {"LhsInf"} = {} /\ right.flags \cap {"RhsInf"} = {}
      /\ left.coef = row.coef /\ right.coef = row.coef
  BY <1>3
<1>6. ModifyLeft(row, v) = Marked(left, "RhsInf") /\ ModifyRight(row, v) = Marked(right, "LhsInf")
  BY DEF ModifyLeft, ModifyRight
<1> HIDE DEF left, right
<1> QED BY <1>4, <1>5, <1>6, MarkedRow

(* A redundant row is a row, rightly flagged.                              *)
LEMMA RedundantRow ==
  ASSUME NEW n, NEW row, IsRow(row, n), EquationRight(row)
  PROVE  LET m == [row EXCEPT !.flags = @ \cup {"Redundant"}]
         IN  IsRow(m, n) /\ EquationRight(m) /\ m.coef = row.coef
<1> DEFINE m == [lhs |-> row.lhs, rhs |-> row.rhs, flags |-> row.flags \cup {"Redundant"},
                 coef |-> row.coef]
<1>1. [row EXCEPT !.flags = @ \cup {"Redundant"}] = m
  BY RowFields
<1>2. /\ row.lhs \in Int /\ row.rhs \in Int /\ row.flags \cup {"Redundant"} \in SUBSET RowFlag
      /\ DOMAIN row.coef \in SUBSET (1..n) /\ row.coef \in [DOMAIN row.coef -> Steps]
  BY RowFields DEF RowFlag
<1>3. IsRow(m, n)
  BY <1>2, RowMade
<1>4. EquationRight(m)
  BY DEF EquationRight
<1> QED BY <1>1, <1>3, <1>4

(* A changed coefficient leaves a row; it may only be taken out.           *)
LEMMA CoefficientRow ==
  ASSUME NEW n, NEW row, IsRow(row, n), EquationRight(row), NEW c, NEW v \in Steps
  PROVE  LET m == ChangeCoefficient(row, c, v)
         IN  IsRow(m, n) /\ EquationRight(m) /\ DOMAIN m.coef \subseteq DOMAIN row.coef
<1> DEFINE f == IF v = 0 THEN [d \in DOMAIN row.coef \ {c} |-> row.coef[d]]
                         ELSE [row.coef EXCEPT ![c] = v]
           m == [lhs |-> row.lhs, rhs |-> row.rhs, flags |-> row.flags, coef |-> f]
<1>1. ChangeCoefficient(row, c, v) = m
  BY RowFields DEF ChangeCoefficient
<1>2. /\ row.lhs \in Int /\ row.rhs \in Int /\ row.flags \in SUBSET RowFlag
      /\ DOMAIN row.coef \in SUBSET (1..n) /\ row.coef \in [DOMAIN row.coef -> Steps]
  BY RowFields
<1>3. DOMAIN f \subseteq DOMAIN row.coef /\ f \in [DOMAIN f -> Steps]
  BY <1>2
<1>4. DOMAIN f \in SUBSET (1..n)
  BY <1>2, <1>3
<1> HIDE DEF f
<1>5. IsRow(m, n)
  BY <1>2, <1>3, <1>4, RowMade
<1>6. EquationRight(m)
  BY DEF EquationRight
<1> QED BY <1>1, <1>3, <1>5, <1>6
-------------------------------------------------------------------------------
(* Edits as changes of one row or column.                                  *)
WithRow(q, r, row)    == [cols |-> q.cols, rows |-> [q.rows EXCEPT ![r] = row]]
WithColumn(q, c, col) == [cols |-> [q.cols EXCEPT ![c] = col], rows |-> q.rows]

IsPair(q) == q = [cols |-> q.cols, rows |-> q.rows]

(* The edits of rows replace one row by its changed version.               *)
LEMMA RowEdits ==
  ASSUME NEW q, IsPair(q), NEW r, NEW s
  PROVE  /\ Redundancy(q, r) = WithRow(q, r, [q.rows[r] EXCEPT !.flags = @ \cup {"Redundant"}])
         /\ LeftSide(q, s) = WithRow(q, s[1], ModifyLeft(q.rows[s[1]], s[2]))
         /\ RightSide(q, s) = WithRow(q, s[1], ModifyRight(q.rows[s[1]], s[2]))
         /\ Entry(q, s) = WithRow(q, s[1], ChangeCoefficient(q.rows[s[1]], s[2], s[3]))
<1>1. Redundancy(q, r) = WithRow(q, r, [q.rows[r] EXCEPT !.flags = @ \cup {"Redundant"}])
  BY DEF IsPair, Redundancy, WithRow
<1>2. LeftSide(q, s) = WithRow(q, s[1], ModifyLeft(q.rows[s[1]], s[2]))
  BY DEF IsPair, LeftSide, WithRow
<1>3. RightSide(q, s) = WithRow(q, s[1], ModifyRight(q.rows[s[1]], s[2]))
  BY DEF IsPair, RightSide, WithRow
<1>4. Entry(q, s) = WithRow(q, s[1], ChangeCoefficient(q.rows[s[1]], s[2], s[3]))
  BY DEF IsPair, Entry, WithRow
<1> QED BY <1>1, <1>2, <1>3, <1>4

(* The edits of columns replace one column by its changed version.         *)
LEMMA ColumnEdits ==
  ASSUME NEW q, IsPair(q), NEW c \in DOMAIN q.cols, NEW s, s[1] \in DOMAIN q.cols
  PROVE  /\ Fixation(q, c) = WithColumn(q, c, [q.cols[c] EXCEPT !.flags = @ \cup {"Fixed"}])
         /\ Profit(q, s) = WithColumn(q, s[1], [q.cols[s[1]] EXCEPT !.obj = s[2]])
         /\ LowerBound(q, s) = WithColumn(q, s[1], [q.cols[s[1]] EXCEPT !.lb = s[2]])
         /\ UpperBound(q, s) = WithColumn(q, s[1], [q.cols[s[1]] EXCEPT !.ub = s[2]])
         /\ Domain(q, s) = WithColumn(q, s[1], OnlyValue(q.cols[s[1]], s[2]))
<1>1. Fixation(q, c) = WithColumn(q, c, [q.cols[c] EXCEPT !.flags = @ \cup {"Fixed"}])
  BY DEF IsPair, Fixation, WithColumn
<1>2. Profit(q, s) = WithColumn(q, s[1], [q.cols[s[1]] EXCEPT !.obj = s[2]])
  BY DEF IsPair, Profit, WithColumn
<1>3. LowerBound(q, s) = WithColumn(q, s[1], [q.cols[s[1]] EXCEPT !.lb = s[2]])
  BY DEF IsPair, LowerBound, WithColumn
<1>4. UpperBound(q, s) = WithColumn(q, s[1], [q.cols[s[1]] EXCEPT !.ub = s[2]])
  BY DEF IsPair, UpperBound, WithColumn
<1>5. Domain(q, s) = WithColumn(q, s[1], OnlyValue(q.cols[s[1]], s[2]))
  BY DEF IsPair, Domain, WithColumn
<1> QED BY <1>1, <1>2, <1>3, <1>4, <1>5

(* The parts of a variant of a problem.                                    *)
LEMMA VariantParts ==
  ASSUME NEW q, NEW p, NEW R, NEW C, IsVariant(q, p, R, C)
  PROVE  /\ IsPair(q) /\ DOMAIN q.cols = Columns(p) /\ DOMAIN q.rows = Rows(p)
         /\ q.cols \in [Columns(p) -> ColumnOf]
         /\ q.rows = [r \in Rows(p) |-> q.rows[r]]
BY DEF IsVariant, IsPair

(* A variant remains one when a row that may change is replaced.           *)
LEMMA RowChange ==
  ASSUME NEW q, NEW p, NEW R, NEW C, IsVariant(q, p, R, C), NEW r \in Rows(p), r \in R,
         NEW row, IsRow(row, Len(p.cols)), EquationRight(row),
         DOMAIN row.coef \subseteq DOMAIN p.rows[r].coef
  PROVE  IsVariant(WithRow(q, r, row), p, R, C)
<1> DEFINE rows == [q.rows EXCEPT ![r] = row]
<1>1. WithRow(q, r, row) = [cols |-> q.cols, rows |-> rows]
  BY DEF WithRow
<1>2. /\ rows = [k \in Rows(p) |-> rows[k]] /\ rows[r] = row
      /\ \A k \in Rows(p) : k # r => rows[k] = q.rows[k]
  BY VariantParts
<1> HIDE DEF rows
<1>3. rows \in [Rows(p) -> Range(rows)]
  BY <1>2 DEF Range
<1>4. ASSUME NEW k \in Rows(p)
      PROVE  /\ IsRow(rows[k], Len(p.cols)) /\ EquationRight(rows[k])
             /\ DOMAIN rows[k].coef \subseteq DOMAIN p.rows[k].coef
  BY <1>2 DEF IsVariant
<1>5. ASSUME NEW k \in Rows(p) \ R  PROVE rows[k] = p.rows[k]
  BY <1>2 DEF IsVariant
<1>6. q.cols \in [Columns(p) -> ColumnOf] /\ \A c \in Columns(p) \ C : q.cols[c] = p.cols[c]
  BY DEF IsVariant
<1> QED BY <1>1, <1>3, <1>4, <1>5, <1>6 DEF IsVariant

(* A variant remains one when a column that may change is replaced.        *)
LEMMA ColumnChange ==
  ASSUME NEW q, NEW p, NEW R, NEW C, IsVariant(q, p, R, C), NEW c \in Columns(p), c \in C,
         NEW col \in ColumnOf
  PROVE  IsVariant(WithColumn(q, c, col), p, R, C)
<1> DEFINE cols == [q.cols EXCEPT ![c] = col]
<1>1. WithColumn(q, c, col) = [cols |-> cols, rows |-> q.rows]
  BY DEF WithColumn
<1>2. cols \in [Columns(p) -> ColumnOf] /\ \A k \in Columns(p) : k # c => cols[k] = q.cols[k]
  BY VariantParts
<1> HIDE DEF cols
<1>3. \A k \in Columns(p) \ C : cols[k] = p.cols[k]
  BY <1>2 DEF IsVariant
<1>4. /\ q.rows \in [Rows(p) -> Range(q.rows)]
      /\ \A k \in Rows(p) \ R : q.rows[k] = p.rows[k]
      /\ \A k \in Rows(p) : /\ IsRow(q.rows[k], Len(p.cols)) /\ EquationRight(q.rows[k])
                            /\ DOMAIN q.rows[k].coef \subseteq DOMAIN p.rows[k].coef
  BY DEF IsVariant
<1> QED BY <1>1, <1>2, <1>3, <1>4 DEF IsVariant
-------------------------------------------------------------------------------
(* The edits of rows in R and columns in C, each with its list.            *)
Entries(p, R, E) == {t \in R \X E \X Steps : t[2] \in DOMAIN p.rows[t[1]].coef}

Tagged(p, R, C, E) ==
  UNION { {"rows"} \X R, {"domains"} \X (C \X Steps), {"sides"} \X (R \X Int),
          {"fixed"} \X C, {"entries"} \X Entries(p, R, E),
          {"lefts"} \X (R \X Int), {"rights"} \X (R \X Int),
          {"objs"} \X (C \X Steps), {"lowers"} \X (C \X Steps),
          {"uppers"} \X (C \X Steps) }

(* The rows of a variant are rows of the same size, rightly flagged.       *)
LEMMA RowOfVariant ==
  ASSUME NEW q, NEW p, NEW R, NEW C, IsVariant(q, p, R, C), NEW r \in Rows(p)
  PROVE  /\ IsRow(q.rows[r], Len(p.cols)) /\ EquationRight(q.rows[r])
         /\ DOMAIN q.rows[r].coef \subseteq DOMAIN p.rows[r].coef
BY DEF IsVariant

(* Edits of sides lead from variant to variant.                            *)
LEMMA SidesKeep ==
  ASSUME NEW q, NEW p, NEW R \in SUBSET Rows(p), NEW C, IsVariant(q, p, R, C),
         NEW s \in R \X Int
  PROVE  /\ IsVariant(LeftSide(q, s), p, R, C)
         /\ IsVariant(RightSide(q, s), p, R, C)
         /\ IsVariant(BothSides(q, s), p, R, C)
<1>0. s[1] \in R /\ s[1] \in Rows(p) /\ s[2] \in Int
  OBVIOUS
<1>1. ASSUME NEW u, IsVariant(u, p, R, C)
      PROVE  IsVariant(LeftSide(u, s), p, R, C) /\ IsVariant(RightSide(u, s), p, R, C)
  <2> DEFINE left == ModifyLeft(u.rows[s[1]], s[2])
             right == ModifyRight(u.rows[s[1]], s[2])
  <2>1. /\ IsRow(u.rows[s[1]], Len(p.cols))
        /\ DOMAIN u.rows[s[1]].coef \subseteq DOMAIN p.rows[s[1]].coef
    BY <1>0, <1>1, RowOfVariant
  <2>2. /\ IsRow(left, Len(p.cols)) /\ EquationRight(left) /\ left.coef = u.rows[s[1]].coef
        /\ IsRow(right, Len(p.cols)) /\ EquationRight(right) /\ right.coef = u.rows[s[1]].coef
    BY <1>0, <2>1, SideRow
  <2>3. /\ LeftSide(u, s) = WithRow(u, s[1], left)
        /\ RightSide(u, s) = WithRow(u, s[1], right)
    BY <1>1, VariantParts, RowEdits
  <2> HIDE DEF left, right
  <2> QED BY <1>0, <1>1, <2>1, <2>2, <2>3, RowChange
<1> QED BY <1>1 DEF BothSides

(* Removing a row and changing a coefficient lead from variant to variant. *)
LEMMA RowsKeep ==
  ASSUME NEW q, NEW p, NEW R \in SUBSET Rows(p), NEW C, IsVariant(q, p, R, C)
  PROVE  /\ \A r \in R : IsVariant(Redundancy(q, r), p, R, C)
         /\ \A t : t[1] \in R /\ t[3] \in Steps => IsVariant(Entry(q, t), p, R, C)
<1>1. ASSUME NEW r \in R  PROVE IsVariant(Redundancy(q, r), p, R, C)
  <2> DEFINE row == [q.rows[r] EXCEPT !.flags = @ \cup {"Redundant"}]
  <2>1. /\ IsRow(row, Len(p.cols)) /\ EquationRight(row)
        /\ DOMAIN row.coef \subseteq DOMAIN p.rows[r].coef
    BY RowOfVariant, RedundantRow
  <2>2. Redundancy(q, r) = WithRow(q, r, row)
    BY VariantParts, RowEdits
  <2> HIDE DEF row
  <2> QED BY <2>1, <2>2, RowChange
<1>2. ASSUME NEW t, t[1] \in R, t[3] \in Steps  PROVE IsVariant(Entry(q, t), p, R, C)
  <2> DEFINE row == ChangeCoefficient(q.rows[t[1]], t[2], t[3])
  <2>0. t[1] \in Rows(p)
    BY <1>2
  <2>1. /\ IsRow(row, Len(p.cols)) /\ EquationRight(row)
        /\ DOMAIN row.coef \subseteq DOMAIN q.rows[t[1]].coef
    BY <1>2, <2>0, RowOfVariant, CoefficientRow
  <2>2. DOMAIN row.coef \subseteq DOMAIN p.rows[t[1]].coef
    BY <2>0, <2>1, RowOfVariant
  <2>3. Entry(q, t) = WithRow(q, t[1], row)
    BY VariantParts, RowEdits
  <2> HIDE DEF row
  <2> QED BY <1>2, <2>0, <2>1, <2>2, <2>3, RowChange
<1> QED BY <1>1, <1>2

(* The edits of columns lead from variant to variant.                      *)
LEMMA ColumnsKeep ==
  ASSUME NEW q, NEW p, NEW R, NEW C \in SUBSET Columns(p), IsVariant(q, p, R, C)
  PROVE  /\ \A c \in C : IsVariant(Fixation(q, c), p, R, C)
         /\ \A s \in C \X Steps :
              /\ IsVariant(Domain(q, s), p, R, C) /\ IsVariant(Profit(q, s), p, R, C)
              /\ IsVariant(LowerBound(q, s), p, R, C) /\ IsVariant(UpperBound(q, s), p, R, C)
<1>0. IsPair(q) /\ DOMAIN q.cols = Columns(p) /\ \A c \in C : q.cols[c] \in ColumnOf /\ c \in Columns(p)
  BY VariantParts
<1>1. ASSUME NEW c \in C  PROVE IsVariant(Fixation(q, c), p, R, C)
  <2>1. [q.cols[c] EXCEPT !.flags = @ \cup {"Fixed"}] \in ColumnOf
    BY <1>0 DEF ColumnOf, ColFlag
  <2>2. Fixation(q, c) = WithColumn(q, c, [q.cols[c] EXCEPT !.flags = @ \cup {"Fixed"}])
    BY <1>0 DEF IsPair, Fixation, WithColumn
  <2> QED BY <1>0, <2>1, <2>2, ColumnChange
<1>2. ASSUME NEW s \in C \X Steps
      PROVE  /\ IsVariant(Domain(q, s), p, R, C) /\ IsVariant(Profit(q, s), p, R, C)
             /\ IsVariant(LowerBound(q, s), p, R, C) /\ IsVariant(UpperBound(q, s), p, R, C)
  <2> DEFINE col == q.cols[s[1]]
  <2>0. s[1] \in C /\ s[1] \in Columns(p) /\ s[1] \in DOMAIN q.cols /\ s[2] \in Steps /\ col \in ColumnOf
    BY <1>0
  <2>1. [col EXCEPT !.obj = s[2]] \in ColumnOf /\ [col EXCEPT !.lb = s[2]] \in ColumnOf
        /\ [col EXCEPT !.ub = s[2]] \in ColumnOf
    BY <2>0 DEF ColumnOf
  <2>2. OnlyValue(col, s[2]) \in ColumnOf
    <3> HIDE DEF col
    <3> QED BY <2>0 DEF ColumnOf, OnlyValue
  <2>3. /\ Profit(q, s) = WithColumn(q, s[1], [col EXCEPT !.obj = s[2]])
        /\ LowerBound(q, s) = WithColumn(q, s[1], [col EXCEPT !.lb = s[2]])
        /\ UpperBound(q, s) = WithColumn(q, s[1], [col EXCEPT !.ub = s[2]])
        /\ Domain(q, s) = WithColumn(q, s[1], OnlyValue(col, s[2]))
    BY <1>0, <2>0, ColumnEdits
  <2> HIDE DEF col
  <2> QED BY <2>0, <2>1, <2>2, <2>3, ColumnChange
<1> QED BY <1>1, <1>2
-------------------------------------------------------------------------------
(* So does every edit of the lists.                                        *)
LEMMA ApplyKeeps ==
  ASSUME NEW q, NEW p, NEW R \in SUBSET Rows(p), NEW C \in SUBSET Columns(p), NEW E,
         IsVariant(q, p, R, C), NEW edit \in Tagged(p, R, C, E)
  PROVE  IsVariant(Apply(q, edit), p, R, C)
<1>1. CASE edit \in {"rows"} \X R
  <2>1. edit[1] = "rows" /\ edit[2] \in R
    BY <1>1
  <2> QED BY <2>1, RowsKeep DEF Apply
<1>2. CASE edit \in {"sides"} \X (R \X Int)
  <2>1. edit[1] = "sides" /\ edit[2] \in R \X Int
    BY <1>2
  <2> QED BY <2>1, SidesKeep DEF Apply
<1>3. CASE edit \in {"lefts"} \X (R \X Int)
  <2>1. edit[1] = "lefts" /\ edit[2] \in R \X Int
    BY <1>3
  <2> QED BY <2>1, SidesKeep DEF Apply
<1>4. CASE edit \in {"rights"} \X (R \X Int)
  <2>1. edit[1] = "rights" /\ edit[2] \in R \X Int
    BY <1>4
  <2> QED BY <2>1, SidesKeep DEF Apply
<1>5. CASE edit \in {"entries"} \X Entries(p, R, E)
  <2>1. edit[1] = "entries" /\ edit[2][1] \in R /\ edit[2][3] \in Steps
    BY <1>5 DEF Entries
  <2> QED BY <2>1, RowsKeep DEF Apply
<1>6. CASE edit \in {"fixed"} \X C
  <2>1. edit[1] = "fixed" /\ edit[2] \in C
    BY <1>6
  <2> QED BY <2>1, ColumnsKeep DEF Apply
<1>7. CASE edit \in {"domains"} \X (C \X Steps)
  <2>1. edit[1] = "domains" /\ edit[2] \in C \X Steps
    BY <1>7
  <2> QED BY <2>1, ColumnsKeep DEF Apply
<1>8. CASE edit \in {"objs"} \X (C \X Steps)
  <2>1. edit[1] = "objs" /\ edit[2] \in C \X Steps
    BY <1>8
  <2> QED BY <2>1, ColumnsKeep DEF Apply
<1>9. CASE edit \in {"lowers"} \X (C \X Steps)
  <2>1. edit[1] = "lowers" /\ edit[2] \in C \X Steps
    BY <1>9
  <2> QED BY <2>1, ColumnsKeep DEF Apply
<1>10. CASE edit \in {"uppers"} \X (C \X Steps)
  <2>1. edit[1] = "uppers" /\ edit[2] \in C \X Steps
    BY <1>10
  <2> QED BY <2>1, ColumnsKeep DEF Apply
<1> QED
  BY <1>1, <1>2, <1>3, <1>4, <1>5, <1>6, <1>7, <1>8, <1>9, <1>10 DEF Tagged

-------------------------------------------------------------------------------
(* The variants of a problem as a set, and sequences of edits.             *)
RowsOf(n) ==
  UNION {[lhs : Int, rhs : Int, flags : SUBSET RowFlag, coef : [D -> Steps]] :
           D \in SUBSET (1..n)}

Variants(p, R, C) ==
  {q \in [cols : [Columns(p) -> ColumnOf], rows : [Rows(p) -> RowsOf(Len(p.cols))]] :
     IsVariant(q, p, R, C)}

(* The set of variants has exactly the variants.                           *)
LEMMA VariantsAre ==
  ASSUME NEW q, NEW p, NEW R, NEW C
  PROVE  q \in Variants(p, R, C) <=> IsVariant(q, p, R, C)
<1>1. ASSUME IsVariant(q, p, R, C)  PROVE q \in Variants(p, R, C)
  <2>1. ASSUME NEW r \in Rows(p)  PROVE q.rows[r] \in RowsOf(Len(p.cols))
    <3>1. IsRow(q.rows[r], Len(p.cols))
      BY <1>1, RowOfVariant
    <3> QED BY <3>1 DEF IsRow, RowsOf
  <2>2. q.rows \in [Rows(p) -> RowsOf(Len(p.cols))]
    BY <1>1, <2>1, VariantParts
  <2>3. q = [cols |-> q.cols, rows |-> q.rows] /\ q.cols \in [Columns(p) -> ColumnOf]
    BY <1>1, VariantParts DEF IsPair
  <2> QED BY <1>1, <2>2, <2>3 DEF Variants
<1> QED BY <1>1 DEF Variants

(* A list with its name is a sequence of tagged edits.                     *)
LEMMA ListedTyped ==
  ASSUME NEW list, NEW S, NEW s \in Seq(S), NEW U, {list} \X S \subseteq U
  PROVE  Listed(list, s) \in Seq(U) /\ Len(Listed(list, s)) = Len(s)
<1>1. DOMAIN s = 1..Len(s) /\ Len(s) \in Nat /\ \A i \in 1..Len(s) : s[i] \in S
  OBVIOUS
<1>2. \A i \in 1..Len(s) : <<list, s[i]>> \in U
  BY <1>1
<1> DEFINE f == [i \in 1..Len(s) |-> <<list, s[i]>>]
<1>3. f \in Seq(U) /\ Len(f) = Len(s)
  BY <1>1, <1>2
<1> QED BY <1>1, <1>3 DEF Listed

(* All edits of a visit, as one sequence. *)
InOrder(e) ==
  Listed("rows", e.rows) \o Listed("domains", e.domains) \o Listed("sides", e.sides)
    \o Listed("fixed", e.fixed) \o Listed("entries", e.entries)
    \o Listed("lefts", e.lefts) \o Listed("rights", e.rights)
    \o Listed("objs", e.objs) \o Listed("lowers", e.lowers)
    \o Listed("uppers", e.uppers)

(* The ten lists of a record of edits, each with its name.                 *)
LEMMA EditsTyped ==
  ASSUME NEW p, NEW R, NEW C, NEW E, NEW e \in EditsIn(p, R, C, E)
  PROVE  LET U == Tagged(p, R, C, E)
         IN  /\ Listed("rows", e.rows) \in Seq(U) /\ Listed("domains", e.domains) \in Seq(U)
             /\ Listed("sides", e.sides) \in Seq(U) /\ Listed("fixed", e.fixed) \in Seq(U)
             /\ Listed("entries", e.entries) \in Seq(U)
             /\ Listed("lefts", e.lefts) \in Seq(U) /\ Listed("rights", e.rights) \in Seq(U)
             /\ Listed("objs", e.objs) \in Seq(U) /\ Listed("lowers", e.lowers) \in Seq(U)
             /\ Listed("uppers", e.uppers) \in Seq(U)
<1> DEFINE U == Tagged(p, R, C, E)
<1>1. /\ e.rows \in Seq(R) /\ e.domains \in Seq(C \X Steps) /\ e.sides \in Seq(R \X Int)
      /\ e.fixed \in Seq(C) /\ e.entries \in Seq(Entries(p, R, E))
      /\ e.lefts \in Seq(R \X Int) /\ e.rights \in Seq(R \X Int)
      /\ e.objs \in Seq(C \X Steps) /\ e.lowers \in Seq(C \X Steps)
      /\ e.uppers \in Seq(C \X Steps)
  BY DEF EditsIn, Entries
<1>2. /\ {"rows"} \X R \subseteq U /\ {"domains"} \X (C \X Steps) \subseteq U
      /\ {"sides"} \X (R \X Int) \subseteq U /\ {"fixed"} \X C \subseteq U
      /\ {"entries"} \X Entries(p, R, E) \subseteq U
      /\ {"lefts"} \X (R \X Int) \subseteq U /\ {"rights"} \X (R \X Int) \subseteq U
      /\ {"objs"} \X (C \X Steps) \subseteq U /\ {"lowers"} \X (C \X Steps) \subseteq U
      /\ {"uppers"} \X (C \X Steps) \subseteq U
  BY DEF Tagged
<1> HIDE DEF U
<1>3. Listed("rows", e.rows) \in Seq(U) /\ Listed("domains", e.domains) \in Seq(U)
  BY <1>1, <1>2, ListedTyped
<1>4. Listed("sides", e.sides) \in Seq(U) /\ Listed("fixed", e.fixed) \in Seq(U)
  BY <1>1, <1>2, ListedTyped
<1>5. Listed("entries", e.entries) \in Seq(U)
  BY <1>1, <1>2, ListedTyped
<1>6. Listed("lefts", e.lefts) \in Seq(U) /\ Listed("rights", e.rights) \in Seq(U)
  BY <1>1, <1>2, ListedTyped
<1>7. Listed("objs", e.objs) \in Seq(U) /\ Listed("lowers", e.lowers) \in Seq(U)
  BY <1>1, <1>2, ListedTyped
<1>8. Listed("uppers", e.uppers) \in Seq(U)
  BY <1>1, <1>2, ListedTyped
<1> QED BY <1>3, <1>4, <1>5, <1>6, <1>7, <1>8 DEF U

(* A sequence of edits leads from variant to variant.                      *)
LEMMA EditsKeep ==
  ASSUME NEW p, NEW R \in SUBSET Rows(p), NEW C \in SUBSET Columns(p), NEW E,
         NEW q, IsVariant(q, p, R, C), NEW s \in Seq(Tagged(p, R, C, E))
  PROVE  IsVariant(FoldLeft(Apply, q, s), p, R, C)
<1>1. Editing!TakesLast
  BY LastIsPicked
<1> DEFINE U == Tagged(p, R, C, E)
           V == Variants(p, R, C)
<1>2. \A v \in V : \A t \in U : Apply(v, t) \in V
  BY VariantsAre, ApplyKeeps
<1>3. q \in V
  BY VariantsAre
<1>4. s \in Seq(U)
  OBVIOUS
<1> HIDE DEF U, V
<1>5. Editing!Over(q, s) \in V
  BY <1>1, <1>2, <1>3, <1>4, Editing!OverKeeps
<1>6. FoldLeft(Apply, q, s) \in V
  BY <1>5, EditingIsFold
<1> QED BY <1>6, VariantsAre DEF V

(* Replaying edits makes a variant of a variant, and so do its coefficients. *)
LEMMA ReplayKeeps ==
  ASSUME NEW p, NEW R \in SUBSET Rows(p), NEW C \in SUBSET Columns(p), NEW E,
         NEW q, IsVariant(q, p, R, C), NEW e \in EditsIn(p, R, C, E)
  PROVE  /\ IsVariant(Replay(q, e), p, R, C)
         /\ IsVariant(ApplyEntries(q, e.entries), p, R, C)
<1> DEFINE U == Tagged(p, R, C, E)
<1>1. InOrder(e) \in Seq(U) /\ Listed("entries", e.entries) \in Seq(U)
  <2>1. /\ Listed("rows", e.rows) \in Seq(U) /\ Listed("domains", e.domains) \in Seq(U)
        /\ Listed("sides", e.sides) \in Seq(U) /\ Listed("fixed", e.fixed) \in Seq(U)
        /\ Listed("entries", e.entries) \in Seq(U)
        /\ Listed("lefts", e.lefts) \in Seq(U) /\ Listed("rights", e.rights) \in Seq(U)
        /\ Listed("objs", e.objs) \in Seq(U) /\ Listed("lowers", e.lowers) \in Seq(U)
        /\ Listed("uppers", e.uppers) \in Seq(U)
    BY EditsTyped
  <2> HIDE DEF U
  <2> QED BY <2>1 DEF InOrder
<1>2. Replay(q, e) = FoldLeft(Apply, q, InOrder(e))
  BY DEF Replay, InOrder
<1> QED BY <1>1, <1>2, EditsKeep DEF ApplyEntries
-------------------------------------------------------------------------------
(* Sums of integers are integers, and so are the numbers an edit holds.    *)
LEMMA TotalIsInteger ==
  ASSUME NEW f, IsFiniteSet(DOMAIN f), \A x \in DOMAIN f : f[x] \in Int
  PROVE  SumFunction(f) \in Int
<1>1. SumFunction(f) = Summing!Fold(0, f, DOMAIN f)
  BY DEF SumFunction, SumFunctionOnSet, FoldFunctionOnSet, MapThenFoldSet,
         Summing!Fold, Summing!IsFold, Summing!FoldStep, Plus, Chosen
<1> QED BY <1>1, SumIsInteger

Fits(p) == WellFormed(p) /\ ReferenceFits(p, solution)

(* The parts of a problem that is well formed.                             *)
LEMMA ProblemParts ==
  ASSUME NEW p, WellFormed(p)
  PROVE  /\ Len(p.cols) \in Nat /\ Columns(p) = 1..Len(p.cols)
         /\ Len(p.rows) \in Nat /\ Rows(p) = 1..Len(p.rows)
         /\ IsFiniteSet(Columns(p)) /\ IsFiniteSet(Rows(p))
<1>1. p.cols \in Seq(ColumnOf) /\ p.rows \in Seq(Range(p.rows))
  BY DEF WellFormed
<1>2. /\ Len(p.cols) \in Nat /\ Columns(p) = 1..Len(p.cols)
      /\ Len(p.rows) \in Nat /\ Rows(p) = 1..Len(p.rows)
  BY <1>1 DEF Columns, Rows
<1>3. IsFiniteSet(1..Len(p.cols)) /\ IsFiniteSet(1..Len(p.rows))
  <2>1. \A n \in Nat : IsFiniteSet(1..n)
    BY FS_Interval
  <2> QED BY <1>2, <2>1
<1> QED BY <1>2, <1>3

(* A row of a variant in reach of the reference. *)
LEMMA CoefficientsOf ==
  ASSUME NEW p, WellFormed(p), NEW R, NEW C, NEW q, IsVariant(q, p, R, C), NEW r \in Rows(p)
  PROVE  LET row == q.rows[r]
         IN  /\ row.lhs \in Int /\ row.rhs \in Int
             /\ DOMAIN row.coef \in SUBSET Columns(p) /\ IsFiniteSet(DOMAIN row.coef)
             /\ DOMAIN row.coef \in SUBSET (1..Len(p.cols))
             /\ \A c \in DOMAIN row.coef : row.coef[c] \in Steps /\ row.coef[c] \in Int
<1> DEFINE row == q.rows[r]
<1>1. IsRow(row, Len(p.cols))
  BY RowOfVariant
<1>2. /\ row.lhs \in Int /\ row.rhs \in Int
      /\ DOMAIN row.coef \subseteq 1..Len(p.cols) /\ row.coef \in [DOMAIN row.coef -> Steps]
  <2> HIDE DEF row
  <2> QED BY <1>1, RowFields
<1>3. IsFiniteSet(Columns(p)) /\ Columns(p) = 1..Len(p.cols)
  BY ProblemParts
<1>4. Steps \subseteq Int
  BY StepArithmetic
<1> HIDE DEF row
<1>5. IsFiniteSet(DOMAIN row.coef)
  BY <1>2, <1>3, FS_Subset
<1>6. \A c \in DOMAIN row.coef : row.coef[c] \in Steps /\ row.coef[c] \in Int
  BY <1>2, <1>4
<1> QED BY <1>2, <1>3, <1>5, <1>6 DEF row

(* Activities at the reference solution are integers.                      *)
LEMMA ActivitiesInteger ==
  ASSUME NEW p, Fits(p), solution.status = "feasible",
         NEW R, NEW C, NEW q, IsVariant(q, p, R, C), NEW r \in Rows(p)
  PROVE  /\ Activity(q.rows[r], solution.primal) \in Int
         /\ RoundedActivity(q.rows[r], solution.primal) \in Int
<1> DEFINE row == q.rows[r]
           f == [c \in DOMAIN row.coef |-> Times(row.coef[c], solution.primal[c])]
           g == [c \in DOMAIN row.coef |-> Times(Round(row.coef[c]), solution.primal[c])]
<1>1. /\ DOMAIN row.coef \in SUBSET Columns(p) /\ IsFiniteSet(DOMAIN row.coef)
      /\ \A c \in DOMAIN row.coef : row.coef[c] \in Int
  BY CoefficientsOf DEF Fits
<1>2. \A c \in Columns(p) : solution.primal[c] \in Int
  BY StepArithmetic DEF Fits, ReferenceFits
<1> HIDE DEF row
<1>3. ASSUME NEW c \in DOMAIN row.coef  PROVE f[c] \in Int /\ g[c] \in Int
  <2>1. row.coef[c] \in Int /\ solution.primal[c] \in Int /\ Round(row.coef[c]) \in Int
    BY <1>1, <1>2, StepArithmetic
  <2>2. /\ Times(row.coef[c], solution.primal[c]) \in Int
        /\ Times(Round(row.coef[c]), solution.primal[c]) \in Int
    BY <2>1, TimesInteger
  <2> QED BY <2>2
<1>4. DOMAIN f = DOMAIN row.coef /\ DOMAIN g = DOMAIN row.coef
  OBVIOUS
<1>5. Activity(row, solution.primal) = SumFunction(f)
      /\ RoundedActivity(row, solution.primal) = SumFunction(g)
  BY DEF Activity, RoundedActivity
<1> HIDE DEF f, g
<1>6. SumFunction(f) \in Int /\ SumFunction(g) \in Int
  BY <1>1, <1>3, <1>4, TotalIsInteger
<1> QED BY <1>5, <1>6 DEF row

(* The values that columns and sides are given.                            *)
LEMMA ValuesTyped ==
  ASSUME NEW p, Fits(p), NEW R, NEW C, NEW q, IsVariant(q, p, R, C)
  PROVE  /\ \A c \in Columns(p) : FixedValue(q, c) \in Steps /\ FixedValue(q, c) \in Int
         /\ \A r \in Rows(p) : SideValue(q, r) \in Int
<1>0. Steps \subseteq Int /\ 0 \in Steps
  BY StepArithmetic
<1>1. ASSUME NEW c \in Columns(p)  PROVE FixedValue(q, c) \in Steps
  <2> DEFINE col == q.cols[c]
  <2>1. col.lb \in Steps /\ col.ub \in Steps
    BY VariantParts DEF ColumnOf
  <2>2. /\ EpsCeil(col.lb) \in Steps /\ EpsFloor(col.ub) \in Steps
    BY <1>0, <2>1, StepArithmetic
  <2>3. solution.status = "feasible" =>
          solution.primal[c] \in Steps /\ Round(solution.primal[c]) \in Steps
    BY <1>0, StepArithmetic DEF Fits, ReferenceFits
  <2>4. \A lower, upper \in BOOLEAN : \A lo, hi \in Steps : ClosestToZero(lower, upper, lo, hi) \in Steps
    BY <1>0 DEF ClosestToZero, Least, Most
  <2> DEFINE lo == IF Integral(q, c) THEN EpsCeil(col.lb) ELSE col.lb
             hi == IF Integral(q, c) THEN EpsFloor(col.ub) ELSE col.ub
             lower == "LbInf" \notin col.flags
             upper == "UbInf" \notin col.flags
  <2>5. lo \in Steps /\ hi \in Steps /\ lower \in BOOLEAN /\ upper \in BOOLEAN
    BY <2>1, <2>2
  <2>6. FixedValue(q, c) =
          IF solution.status = "feasible"
            THEN IF Integral(q, c) THEN Round(solution.primal[c]) ELSE solution.primal[c]
            ELSE ClosestToZero(lower, upper, lo, hi)
    BY DEF FixedValue
  <2> HIDE DEF lo, hi, lower, upper
  <2> QED BY <2>3, <2>4, <2>5, <2>6
<1>2. ASSUME NEW r \in Rows(p)  PROVE SideValue(q, r) \in Int
  <2> DEFINE row == q.rows[r]
  <2>1. row.lhs \in Int /\ row.rhs \in Int
    BY CoefficientsOf DEF Fits
  <2>2. EpsCeil(row.lhs) \in Int /\ EpsFloor(row.rhs) \in Int
    BY <1>0, <2>1, StepArithmetic
  <2>3. solution.status = "feasible" =>
          /\ Activity(row, solution.primal) \in Int
          /\ Round(Activity(row, solution.primal)) \in Int
    BY <1>0, ActivitiesInteger, StepArithmetic
  <2>4. \A lower, upper \in BOOLEAN : \A lo, hi \in Int : ClosestToZero(lower, upper, lo, hi) \in Int
    BY DEF ClosestToZero, Least, Most
  <2> DEFINE integral == IntegralRow(q, r, {})
             lo == IF integral THEN EpsCeil(row.lhs) ELSE row.lhs
             hi == IF integral THEN EpsFloor(row.rhs) ELSE row.rhs
             lower == "LhsInf" \notin row.flags
             upper == "RhsInf" \notin row.flags
  <2>5. lo \in Int /\ hi \in Int /\ lower \in BOOLEAN /\ upper \in BOOLEAN
    BY <2>1, <2>2
  <2>6. SideValue(q, r) =
          IF solution.status = "feasible"
            THEN IF integral THEN Round(Activity(row, solution.primal))
                             ELSE Activity(row, solution.primal)
            ELSE ClosestToZero(lower, upper, lo, hi)
    BY DEF SideValue
  <2> HIDE DEF lo, hi, lower, upper, integral
  <2> QED BY <2>3, <2>4, <2>5, <2>6
<1> QED BY <1>0, <1>1, <1>2
-------------------------------------------------------------------------------
(* Edits by their lists.                                                   *)
AllEdits(a, b, c, d, e, f, g, h, i, j) ==
  [rows |-> a, domains |-> b, sides |-> c, fixed |-> d, entries |-> e,
   lefts |-> f, rights |-> g, objs |-> h, lowers |-> i, uppers |-> j]

(* Joining edits appends each list of the one to that of the other.        *)
LEMMA JoinFields ==
  ASSUME NEW p, NEW R, NEW C, NEW E, NEW e \in EditsIn(p, R, C, E), NEW f
  PROVE  Join(e, f) =
           AllEdits(e.rows \o f.rows, e.domains \o f.domains, e.sides \o f.sides,
                    e.fixed \o f.fixed, e.entries \o f.entries, e.lefts \o f.lefts,
                    e.rights \o f.rights, e.objs \o f.objs, e.lowers \o f.lowers,
                    e.uppers \o f.uppers)
<1>1. DOMAIN e = {"rows", "domains", "sides", "fixed", "entries", "lefts", "rights",
                  "objs", "lowers", "uppers"}
  BY DEF EditsIn
<1> DEFINE D == {"rows", "domains", "sides", "fixed", "entries", "lefts", "rights",
                 "objs", "lowers", "uppers"}
           J == [k \in D |-> e[k] \o f[k]]
           K(g) == [rows |-> g.rows, domains |-> g.domains, sides |-> g.sides,
                   fixed |-> g.fixed, entries |-> g.entries,
                   lefts |-> g.lefts, rights |-> g.rights, objs |-> g.objs,
                   lowers |-> g.lowers, uppers |-> g.uppers]
<1>2. J = K(J)
  <2>1. J = [k \in D |-> J[k]]
    OBVIOUS
  <2> HIDE DEF J
  <2>2. DOMAIN K(J) = D /\ K(J) = [k \in D |-> K(J)[k]]
    OBVIOUS
  <2>3. \A k \in D : K(J)[k] = J[k]
    OBVIOUS
  <2> QED BY <2>1, <2>2, <2>3
<1>3. /\ J.rows = e.rows \o f.rows
      /\ J.domains = e.domains \o f.domains
      /\ J.sides = e.sides \o f.sides
      /\ J.fixed = e.fixed \o f.fixed
      /\ J.entries = e.entries \o f.entries
      /\ J.lefts = e.lefts \o f.lefts
      /\ J.rights = e.rights \o f.rights
      /\ J.objs = e.objs \o f.objs
      /\ J.lowers = e.lowers \o f.lowers
      /\ J.uppers = e.uppers \o f.uppers
  OBVIOUS
<1> HIDE DEF J
<1>4. J = AllEdits(e.rows \o f.rows, e.domains \o f.domains,
                   e.sides \o f.sides, e.fixed \o f.fixed,
                   e.entries \o f.entries, e.lefts \o f.lefts,
                   e.rights \o f.rights, e.objs \o f.objs,
                   e.lowers \o f.lowers, e.uppers \o f.uppers)
  BY <1>2, <1>3 DEF AllEdits
<1>5. Join(e, f) = J
  BY <1>1 DEF Join, J
<1> QED BY <1>4, <1>5

(* A record of ten such lists is a record of edits.                        *)
LEMMA EditsMade ==
  ASSUME NEW p, NEW R, NEW C, NEW E,
         NEW a \in Seq(R), NEW b \in Seq(C \X Steps), NEW c \in Seq(R \X Int), NEW d \in Seq(C),
         NEW e \in Seq(Entries(p, R, E)), NEW f \in Seq(R \X Int), NEW g \in Seq(R \X Int),
         NEW h \in Seq(C \X Steps), NEW i \in Seq(C \X Steps), NEW j \in Seq(C \X Steps)
  PROVE  AllEdits(a, b, c, d, e, f, g, h, i, j) \in EditsIn(p, R, C, E)
BY DEF AllEdits, EditsIn, Entries

(* Edits are the record of their ten lists.                                *)
LEMMA EditsFields ==
  ASSUME NEW p, NEW R, NEW C, NEW E, NEW e \in EditsIn(p, R, C, E)
  PROVE  /\ e = AllEdits(e.rows, e.domains, e.sides, e.fixed, e.entries, e.lefts,
                         e.rights, e.objs, e.lowers, e.uppers)
         /\ DOMAIN e = {"rows", "domains", "sides", "fixed", "entries", "lefts", "rights",
                        "objs", "lowers", "uppers"}
         /\ e.rows \in Seq(R) /\ e.domains \in Seq(C \X Steps) /\ e.sides \in Seq(R \X Int)
         /\ e.fixed \in Seq(C) /\ e.entries \in Seq(Entries(p, R, E))
         /\ e.lefts \in Seq(R \X Int) /\ e.rights \in Seq(R \X Int)
         /\ e.objs \in Seq(C \X Steps) /\ e.lowers \in Seq(C \X Steps)
         /\ e.uppers \in Seq(C \X Steps)
BY DEF AllEdits, EditsIn, Entries

(* No edits are ten empty lists.                                           *)
LEMMA NoEditsAre == NoEdits = AllEdits(<<>>, <<>>, <<>>, <<>>, <<>>, <<>>, <<>>, <<>>, <<>>, <<>>)
BY DEF NoEdits, AllEdits

(* One list of edits, the others empty.                                    *)
LEMMA OneList ==
  ASSUME NEW s
  PROVE  /\ [NoEdits EXCEPT !.rows = s] =
              AllEdits(s, <<>>, <<>>, <<>>, <<>>, <<>>, <<>>, <<>>, <<>>, <<>>)
         /\ [NoEdits EXCEPT !.domains = s] =
              AllEdits(<<>>, s, <<>>, <<>>, <<>>, <<>>, <<>>, <<>>, <<>>, <<>>)
         /\ [NoEdits EXCEPT !.sides = s] =
              AllEdits(<<>>, <<>>, s, <<>>, <<>>, <<>>, <<>>, <<>>, <<>>, <<>>)
         /\ [NoEdits EXCEPT !.fixed = s] =
              AllEdits(<<>>, <<>>, <<>>, s, <<>>, <<>>, <<>>, <<>>, <<>>, <<>>)
         /\ [NoEdits EXCEPT !.objs = s] =
              AllEdits(<<>>, <<>>, <<>>, <<>>, <<>>, <<>>, <<>>, s, <<>>, <<>>)
BY DEF NoEdits, AllEdits

(* The lists of an edited row.                                             *)
LEMMA RowLists ==
  ASSUME NEW a, NEW b, NEW c
  PROVE  [NoEdits EXCEPT !.entries = a, !.lefts = b, !.rights = c] =
           AllEdits(<<>>, <<>>, <<>>, <<>>, a, b, c, <<>>, <<>>, <<>>)
<1>1. [NoEdits EXCEPT !.entries = a] = AllEdits(<<>>, <<>>, <<>>, <<>>, a, <<>>, <<>>, <<>>, <<>>, <<>>)
  BY DEF NoEdits, AllEdits
<1>2. [AllEdits(<<>>, <<>>, <<>>, <<>>, a, <<>>, <<>>, <<>>, <<>>, <<>>) EXCEPT !.lefts = b] =
        AllEdits(<<>>, <<>>, <<>>, <<>>, a, b, <<>>, <<>>, <<>>, <<>>)
  BY DEF AllEdits
<1>3. [AllEdits(<<>>, <<>>, <<>>, <<>>, a, b, <<>>, <<>>, <<>>, <<>>) EXCEPT !.rights = c] =
        AllEdits(<<>>, <<>>, <<>>, <<>>, a, b, c, <<>>, <<>>, <<>>)
  BY DEF AllEdits
<1>4. [NoEdits EXCEPT !.entries = a, !.lefts = b, !.rights = c] =
        [[[NoEdits EXCEPT !.entries = a] EXCEPT !.lefts = b] EXCEPT !.rights = c]
  BY NoEditsAre DEF AllEdits
<1> QED BY <1>1, <1>2, <1>3, <1>4

(* The lists of a rounded column.                                          *)
LEMMA ColumnLists ==
  ASSUME NEW a, NEW b, NEW c
  PROVE  [NoEdits EXCEPT !.objs = a, !.lowers = b, !.uppers = c] =
           AllEdits(<<>>, <<>>, <<>>, <<>>, <<>>, <<>>, <<>>, a, b, c)
<1>1. [NoEdits EXCEPT !.objs = a] = AllEdits(<<>>, <<>>, <<>>, <<>>, <<>>, <<>>, <<>>, a, <<>>, <<>>)
  BY DEF NoEdits, AllEdits
<1>2. [AllEdits(<<>>, <<>>, <<>>, <<>>, <<>>, <<>>, <<>>, a, <<>>, <<>>) EXCEPT !.lowers = b] =
        AllEdits(<<>>, <<>>, <<>>, <<>>, <<>>, <<>>, <<>>, a, b, <<>>)
  BY DEF AllEdits
<1>3. [AllEdits(<<>>, <<>>, <<>>, <<>>, <<>>, <<>>, <<>>, a, b, <<>>) EXCEPT !.uppers = c] =
        AllEdits(<<>>, <<>>, <<>>, <<>>, <<>>, <<>>, <<>>, a, b, c)
  BY DEF AllEdits
<1>4. [NoEdits EXCEPT !.objs = a, !.lowers = b, !.uppers = c] =
        [[[NoEdits EXCEPT !.objs = a] EXCEPT !.lowers = b] EXCEPT !.uppers = c]
  BY NoEditsAre DEF AllEdits
<1> QED BY <1>1, <1>2, <1>3, <1>4

-------------------------------------------------------------------------------
(* What a visit yields: edits of the row or column visited.                *)
IsMap(f) == f = [x \in DOMAIN f |-> f[x]]

(* A sequence that is given by its elements.                               *)
LEMMA SequenceMade ==
  ASSUME NEW n \in Nat, NEW T, NEW s, IsMap(s), DOMAIN s = 1..n,
         \A i \in 1..n : s[i] \in T
  PROVE  s \in Seq(T) /\ Len(s) = n
<1>1. s \in [1..n -> T]
  BY DEF IsMap
<1>2. s \in Seq(T)
  BY <1>1, SeqDef
<1>3. Len(s) = n
  BY <1>2, LenProperties
<1> QED BY <1>2, <1>3

EntriesOf(entries, r, q, m) ==
  /\ IsMap(entries) /\ DOMAIN entries = 1..m
  /\ \A i \in 1..m : entries[i] = <<r, q[i], entries[i][3]>> /\ entries[i][3] \in Steps

(* The coefficients of a row that change are entries of that row.          *)
LEMMA EntriesListed ==
  ASSUME NEW p, NEW r, NEW n \in Nat, NEW S \in SUBSET (1..n), NEW q, ListsOnce(q, S),
         S \subseteq DOMAIN p.rows[r].coef,
         NEW entries, EntriesOf(entries, r, q, Cardinality(S))
  PROVE  entries \in Seq(Entries(p, {r}, S)) /\ Distinct(entries)
<1> DEFINE m == Cardinality(S)
<1>1. m \in Nat /\ q \in [1..m -> S] /\ \A i, j \in 1..m : i # j => q[i] # q[j]
  BY DEF ListsOnce
<1>2. /\ DOMAIN entries = 1..m /\ IsMap(entries)
      /\ \A i \in 1..m : entries[i] = <<r, q[i], entries[i][3]>> /\ entries[i][3] \in Steps
  BY DEF EntriesOf
<1> HIDE DEF m
<1>3. ASSUME NEW i \in 1..m  PROVE entries[i] \in Entries(p, {r}, S)
  <2>1. q[i] \in S /\ q[i] \in DOMAIN p.rows[r].coef
    BY <1>1
  <2> DEFINE v == entries[i][3]
  <2>2. entries[i] = <<r, q[i], v>> /\ v \in Steps
    BY <1>2
  <2> HIDE DEF v
  <2>3. <<r, q[i], v>> \in Entries(p, {r}, S)
    BY <2>1, <2>2 DEF Entries
  <2> QED BY <2>2, <2>3
<1>4. entries \in Seq(Entries(p, {r}, S))
  BY <1>1, <1>2, <1>3, SequenceMade
<1>5. ASSUME NEW i \in 1..m, NEW j \in 1..m, i # j
      PROVE  <<entries[i][1], entries[i][2]>> # <<entries[j][1], entries[j][2]>>
  <2>1. entries[i][2] = q[i] /\ entries[j][2] = q[j] /\ q[i] # q[j]
    BY <1>1, <1>2, <1>5
  <2> QED BY <2>1
<1> QED BY <1>2, <1>4, <1>5 DEF Distinct

(* A side changes at most once, by an integer.                             *)
LEMMA SideEdits ==
  ASSUME NEW row, NEW r, NEW v \in Int
  PROVE  LeftEdit(row, r, v) \in Seq({r} \X Int) /\ RightEdit(row, r, v) \in Seq({r} \X Int)
<1>1. <<r, v>> \in {r} \X Int
  OBVIOUS
<1>2. << <<r, v>> >> \in Seq({r} \X Int) /\ << >> \in Seq({r} \X Int)
  BY <1>1
<1> QED BY <1>2 DEF LeftEdit, RightEdit

ShiftOf(entries, lefts, rights) ==
  AllEdits(<<>>, <<>>, <<>>, <<>>, entries, lefts, rights, <<>>, <<>>, <<>>)

IsShift(e, entries, T) ==
  \E lefts, rights \in Seq(T) : e = ShiftOf(entries, lefts, rights)

Zeros(r, cs) == [i \in 1..Cardinality(cs) |-> <<r, Falling(cs)[i], 0>>]

(* Taking columns out of a row edits that row alone, each entry once.      *)
LEMMA ShiftTyped ==
  ASSUME NEW p, WellFormed(p), NEW R, NEW C, NEW q, IsVariant(q, p, R, C), NEW r \in Rows(p),
         NEW cs \in SUBSET DOMAIN q.rows[r].coef, NEW offset \in Int
  PROVE  /\ IsShift(Shift(q, r, cs, offset), Zeros(r, cs), {r} \X Int)
         /\ Zeros(r, cs) \in Seq(Entries(p, {r}, cs)) /\ Distinct(Zeros(r, cs))
<1> DEFINE row == q.rows[r]
           integral == IntegralRow(q, r, cs)
           lefts == LeftEdit(row, r, Shifted(row.lhs, offset, integral))
           rights == RightEdit(row, r, Shifted(row.rhs, offset, integral))
           entries == [i \in 1..Cardinality(cs) |-> <<r, Falling(cs)[i], 0>>]
<1>1. /\ row.lhs \in Int /\ row.rhs \in Int
      /\ DOMAIN row.coef \in SUBSET (1..Len(p.cols)) /\ Len(p.cols) \in Nat
  BY CoefficientsOf, ProblemParts
<1>2. DOMAIN row.coef \subseteq DOMAIN p.rows[r].coef
  BY RowOfVariant
<1>3. Shifted(row.lhs, offset, integral) \in Int /\ Shifted(row.rhs, offset, integral) \in Int
  <2>1. row.lhs + offset \in Int /\ row.rhs + offset \in Int
    BY <1>1
  <2>2. Round(row.lhs + offset) \in Int /\ Round(row.rhs + offset) \in Int
    BY <2>1, StepArithmetic
  <2> QED BY <2>1, <2>2 DEF Shifted
<1>4. lefts \in Seq({r} \X Int) /\ rights \in Seq({r} \X Int)
  <2> HIDE DEF integral, row
  <2> QED BY <1>3, SideEdits
<1>5. cs \in SUBSET (1..Len(p.cols)) /\ cs \subseteq DOMAIN p.rows[r].coef
  BY <1>1, <1>2
<1>6. ListsOnce(Falling(cs), cs)
  BY <1>1, <1>5, SortedSets
<1>9. entries \in Seq(Entries(p, {r}, cs)) /\ Distinct(entries)
  <2> DEFINE f == Falling(cs)
             n == Len(p.cols)
  <2>1. ListsOnce(f, cs) /\ n \in Nat /\ cs \in SUBSET (1..n)
    BY <1>1, <1>5, <1>6
  <2>2. EntriesOf(entries, r, f, Cardinality(cs))
    BY StepArithmetic DEF EntriesOf, IsMap
  <2> HIDE DEF entries, f, n, row, integral, lefts, rights
  <2>3. cs \subseteq DOMAIN p.rows[r].coef
    BY <1>5
  <2> QED BY <2>1, <2>2, <2>3, EntriesListed
<1>10. Shift(q, r, cs, offset) = ShiftOf(entries, lefts, rights)
  <2>1. Shift(q, r, cs, offset) =
          [NoEdits EXCEPT !.entries = entries, !.lefts = lefts, !.rights = rights]
    BY DEF Shift
  <2> HIDE DEF entries, lefts, rights
  <2> QED BY <2>1, RowLists DEF ShiftOf
<1>11. entries = Zeros(r, cs)
  BY DEF Zeros
<1> HIDE DEF lefts, rights, entries
<1> QED BY <1>4, <1>9, <1>10, <1>11 DEF IsShift
-------------------------------------------------------------------------------
(* The empty sequence and that of one element.                             *)
LEMMA SomeSequences ==
  ASSUME NEW T
  PROVE  << >> \in Seq(T) /\ \A t \in T : << t >> \in Seq(T)
OBVIOUS

(* A sequence over a set is one over a larger set.                         *)
LEMMA SubsetSequence ==
  ASSUME NEW S, NEW T, S \subseteq T, NEW s \in Seq(S)
  PROVE  s \in Seq(T)
<1>1. s \in [1..Len(s) -> S] /\ Len(s) \in Nat
  BY LenProperties
<1>2. s \in [1..Len(s) -> T]
  BY <1>1
<1> QED BY <1>1, <1>2, SeqDef

IsRowEdit(e, p, r) ==
  \E entries \in Seq(Entries(p, {r}, Columns(p))), lefts, rights \in Seq({r} \X Int) :
    e = ShiftOf(entries, lefts, rights) /\ Distinct(entries)

(* Rounding a row edits that row alone, each entry once.                   *)
LEMMA ConsroundTyped ==
  ASSUME NEW p, Fits(p), NEW R, NEW C, NEW q, IsVariant(q, p, R, C), NEW r \in Rows(p)
  PROVE  IsRowEdit(ConsroundEdits(q, r), p, r)
<1> DEFINE row == q.rows[r]
           S == {c \in DOMAIN row.coef : ~ IsZetaIntegral(row.coef[c])}
           cs == Rising(S)
           v == IF solution.status = "feasible" THEN RoundedActivity(row, solution.primal) ELSE 0
           lefts == LeftEdit(row, r, Lowered(row.lhs, v))
           rights == RightEdit(row, r, Raised(row.rhs, v))
           entries == [i \in DOMAIN cs |-> <<r, cs[i], Round(row.coef[cs[i]])>>]
<1>1. /\ row.lhs \in Int /\ row.rhs \in Int
      /\ DOMAIN row.coef \in SUBSET (1..Len(p.cols)) /\ Len(p.cols) \in Nat
      /\ Columns(p) = 1..Len(p.cols)
      /\ \A c \in DOMAIN row.coef : row.coef[c] \in Int
  BY CoefficientsOf, ProblemParts DEF Fits
<1>2. DOMAIN row.coef \subseteq DOMAIN p.rows[r].coef
  BY RowOfVariant
<1>3. v \in Int
  BY ActivitiesInteger
<1>4. Lowered(row.lhs, v) \in Int /\ Raised(row.rhs, v) \in Int
  <2>1. /\ Round(row.lhs) \in Int /\ Round(row.rhs) \in Int
        /\ EpsFloor(v) \in Int /\ EpsCeil(v) \in Int
    <3> HIDE DEF v, row
    <3> QED BY <1>1, <1>3, StepArithmetic
  <2> HIDE DEF v, row
  <2> QED BY <2>1 DEF Lowered, Raised, Least, Most
<1>5. lefts \in Seq({r} \X Int) /\ rights \in Seq({r} \X Int)
  <2> HIDE DEF v, row
  <2> QED BY <1>4, SideEdits
<1>6. S \in SUBSET (1..Len(p.cols)) /\ S \subseteq DOMAIN p.rows[r].coef /\ S \subseteq Columns(p)
  BY <1>1, <1>2
<1>7. ListsOnce(cs, S)
  <2> HIDE DEF S
  <2> QED BY <1>1, <1>6, SortedSets
<1>8. ASSUME NEW i \in DOMAIN cs  PROVE Round(row.coef[cs[i]]) \in Steps
  <2>1. cs[i] \in S
    <3> HIDE DEF S, cs
    <3> QED BY <1>7 DEF ListsOnce
  <2>2. row.coef[cs[i]] \in Int
    <3> HIDE DEF cs, row
    <3> QED BY <1>1, <2>1
  <2> HIDE DEF cs, row
  <2> QED BY <2>2, StepArithmetic
<1>9. EntriesOf(entries, r, cs, Cardinality(S))
  <2>1. DOMAIN cs = 1..Cardinality(S)
    <3> HIDE DEF S, cs
    <3> QED BY <1>7 DEF ListsOnce
  <2> HIDE DEF S, cs, row
  <2> QED BY <1>8, <2>1 DEF EntriesOf, IsMap
<1>10. entries \in Seq(Entries(p, {r}, S)) /\ Distinct(entries)
  <2> DEFINE n == Len(p.cols)
  <2>1. n \in Nat /\ S \in SUBSET (1..n)
    BY <1>1, <1>6
  <2> HIDE DEF entries, cs, S, row, v, lefts, rights, n
  <2> QED BY <1>6, <1>7, <1>9, <2>1, EntriesListed
<1>11. Entries(p, {r}, S) \subseteq Entries(p, {r}, Columns(p))
  <2> HIDE DEF S
  <2> QED BY <1>6 DEF Entries
<1>12. ConsroundEdits(q, r) = ShiftOf(entries, lefts, rights)
  <2>1. ConsroundEdits(q, r) =
          [NoEdits EXCEPT !.entries = entries, !.lefts = lefts, !.rights = rights]
    BY DEF ConsroundEdits
  <2> HIDE DEF entries, lefts, rights
  <2> QED BY <2>1, RowLists DEF ShiftOf
<1> HIDE DEF lefts, rights, entries, S
<1>13. entries \in Seq(Entries(p, {r}, Columns(p)))
  BY <1>10, <1>11, SubsetSequence
<1> QED BY <1>5, <1>10, <1>12, <1>13 DEF IsRowEdit

RoundedOf(objs, lowers, uppers) ==
  AllEdits(<<>>, <<>>, <<>>, <<>>, <<>>, <<>>, <<>>, objs, lowers, uppers)

IsRounded(e, T) ==
  \E objs, lowers, uppers \in Seq(T) : e = RoundedOf(objs, lowers, uppers)

(* Rounding a column edits that column alone.                              *)
LEMMA VarroundTyped ==
  ASSUME NEW p, Fits(p), NEW R, NEW C, NEW q, IsVariant(q, p, R, C), NEW c \in Columns(p)
  PROVE  IsRounded(VarroundEdits(q, c), {c} \X Steps)
<1> DEFINE col == q.cols[c]
           v == IF solution.status = "feasible" THEN solution.primal[c] ELSE 0
           objs == IF IsZetaIntegral(col.obj) THEN <<>> ELSE << <<c, Round(col.obj)>> >>
           lowers == BoundEdit(col, c, "LbInf", col.lb, Lowered(col.lb, v))
           uppers == BoundEdit(col, c, "UbInf", col.ub, Raised(col.ub, v))
<1>1. col.obj \in Steps /\ col.lb \in Steps /\ col.ub \in Steps
  BY VariantParts DEF ColumnOf
<1>2. v \in Steps
  BY StepArithmetic DEF Fits, ReferenceFits
<1>3. /\ Round(col.obj) \in Steps
      /\ Round(col.lb) \in Steps /\ Round(col.ub) \in Steps
      /\ EpsFloor(v) \in Steps /\ EpsCeil(v) \in Steps
  <2> HIDE DEF v, col
  <2> QED BY <1>1, <1>2, StepArithmetic
<1>4. Lowered(col.lb, v) \in Steps /\ Raised(col.ub, v) \in Steps
  <2> HIDE DEF v, col
  <2> QED BY <1>3 DEF Lowered, Raised, Least, Most
<1>5. \A w \in Steps : <<c, w>> \in {c} \X Steps
  OBVIOUS
<1>6. \A w \in Steps : << <<c, w>> >> \in Seq({c} \X Steps)
  BY <1>5
<1>7. << >> \in Seq({c} \X Steps)
  OBVIOUS
<1>8. objs \in Seq({c} \X Steps) /\ lowers \in Seq({c} \X Steps) /\ uppers \in Seq({c} \X Steps)
  <2> HIDE DEF v, col
  <2> QED BY <1>3, <1>4, <1>6, <1>7 DEF BoundEdit
<1>9. VarroundEdits(q, c) = RoundedOf(objs, lowers, uppers)
  <2>1. VarroundEdits(q, c) =
          [NoEdits EXCEPT !.objs = objs, !.lowers = lowers, !.uppers = uppers]
    BY DEF VarroundEdits
  <2> HIDE DEF objs, lowers, uppers
  <2> QED BY <2>1, ColumnLists DEF RoundedOf
<1> HIDE DEF objs, lowers, uppers
<1> QED BY <1>8, <1>9 DEF IsRounded

(* The value of the columns that leave a row is an integer.                *)
LEMMA FixedEntriesInteger ==
  ASSUME NEW p, Fits(p), NEW R, NEW C, NEW q, IsVariant(q, p, R, C), NEW r \in Rows(p)
  PROVE  /\ FixedEntries(q, r) \in Int
         /\ Removable(q, r) \in SUBSET DOMAIN q.rows[r].coef
<1> DEFINE f == [c \in Removable(q, r) |-> Times(q.rows[r].coef[c], FixedValue(q, c))]
<1>1. Removable(q, r) \in SUBSET DOMAIN q.rows[r].coef
  BY DEF Removable
<1>2. /\ DOMAIN q.rows[r].coef \in SUBSET Columns(p) /\ IsFiniteSet(DOMAIN q.rows[r].coef)
      /\ \A c \in DOMAIN q.rows[r].coef : q.rows[r].coef[c] \in Int
  BY CoefficientsOf DEF Fits
<1>3. IsFiniteSet(Removable(q, r))
  BY <1>1, <1>2, FS_Subset
<1>4. ASSUME NEW c \in Removable(q, r)  PROVE f[c] \in Int
  <2>1. q.rows[r].coef[c] \in Int /\ FixedValue(q, c) \in Int
    BY <1>1, <1>2, ValuesTyped
  <2> QED BY <2>1, TimesInteger
<1>5. DOMAIN f = Removable(q, r)
  OBVIOUS
<1>6. FixedEntries(q, r) = - SumFunction(f)
  BY DEF FixedEntries
<1> HIDE DEF f
<1>7. SumFunction(f) \in Int
  BY <1>3, <1>4, <1>5, TotalIsInteger
<1> QED BY <1>1, <1>6, <1>7

(* Which edits belong to which modifier. *)
EmptyBut(e, L) == \A k \in DOMAIN e \ L : e[k] = <<>>

(* What edits of row modifiers are.                                        *)
LEMMA EditsOfRows ==
  ASSUME NEW m \in ByRow, NEW p, NEW V, NEW e
  PROVE  e \in EditsOf(m, p, V) <=>
           e \in EditsIn(p, V, {}, Columns(p)) /\ EmptyBut(e, Lists(m))
BY DEF EditsOf, RowsWith, ColumnsWith, PlacesWith, EmptyBut

(* What edits of column modifiers are.                                     *)
LEMMA EditsOfColumns ==
  ASSUME NEW m \in ByColumn, NEW p, NEW V, NEW e
  PROVE  e \in EditsOf(m, p, V) <=>
           e \in EditsIn(p, Rows(p), V, V) /\ EmptyBut(e, Lists(m))
BY DEF EditsOf, RowsWith, ColumnsWith, PlacesWith, EmptyBut, ByRow, ByColumn

(* The lists of a record that was made of them.                            *)
LEMMA FieldsOfMade ==
  ASSUME NEW a, NEW b, NEW c, NEW d, NEW e, NEW f, NEW g, NEW h, NEW i, NEW j
  PROVE  LET x == AllEdits(a, b, c, d, e, f, g, h, i, j)
         IN  /\ x.rows = a /\ x.domains = b /\ x.sides = c /\ x.fixed = d /\ x.entries = e
             /\ x.lefts = f /\ x.rights = g /\ x.objs = h /\ x.lowers = i /\ x.uppers = j
             /\ x["rows"] = a /\ x["domains"] = b /\ x["sides"] = c /\ x["fixed"] = d
             /\ x["entries"] = e /\ x["lefts"] = f /\ x["rights"] = g /\ x["objs"] = h
             /\ x["lowers"] = i /\ x["uppers"] = j
             /\ DOMAIN x = {"rows", "domains", "sides", "fixed", "entries", "lefts",
                            "rights", "objs", "lowers", "uppers"}
BY DEF AllEdits

(* No changes of coefficients are distinct.                                *)
LEMMA NothingDistinct == Distinct(<< >>)
BY DEF Distinct

(* A visit that removes a row, or its open sides, edits that row.          *)
LEMMA RowVisitTyped ==
  ASSUME NEW p, NEW r \in Rows(p), NEW m \in {"coefficient", "consround"},
         NEW entries \in Seq(Entries(p, {r}, Columns(p))),
         NEW lefts \in Seq({r} \X Int), NEW rights \in Seq({r} \X Int)
  PROVE  ShiftOf(entries, lefts, rights) \in EditsOf(m, p, {r})
<1> DEFINE x == ShiftOf(entries, lefts, rights)
<1>1. x \in EditsIn(p, {r}, {}, Columns(p))
  <2>1. << >> \in Seq({r}) /\ << >> \in Seq({} \X Steps) /\ << >> \in Seq({r} \X Int) /\ << >> \in Seq({})
    BY SomeSequences
  <2> QED BY <2>1, EditsMade DEF ShiftOf
<1>2. x["rows"] = <<>> /\ x["domains"] = <<>> /\ x["sides"] = <<>> /\ x["fixed"] = <<>>
      /\ x["objs"] = <<>> /\ x["lowers"] = <<>> /\ x["uppers"] = <<>>
      /\ DOMAIN x = {"rows", "domains", "sides", "fixed", "entries", "lefts", "rights",
                     "objs", "lowers", "uppers"}
  BY FieldsOfMade DEF ShiftOf
<1>3. m \in ByRow /\ Lists(m) = {"entries", "lefts", "rights"}
  BY DEF ByRow, Lists
<1> HIDE DEF x
<1>4. EmptyBut(x, Lists(m))
  BY <1>2, <1>3 DEF EmptyBut
<1>5. x \in EditsOf(m, p, {r})
  BY <1>1, <1>3, <1>4, EditsOfRows
<1> QED BY <1>5 DEF x

(* The visits of the modifiers that change no coefficients.                *)
LEMMA PlainVisitTyped ==
  ASSUME NEW p, Fits(p), NEW R, NEW C, NEW q, IsVariant(q, p, R, C), NEW i
  PROVE  /\ i \in Rows(p) =>
              /\ Edits("constraint", q, i) \in EditsOf("constraint", p, {i})
              /\ Edits("side", q, i) \in EditsOf("side", p, {i})
              /\ Edits("constraint", q, i).entries = <<>> /\ Edits("side", q, i).entries = <<>>
         /\ i \in Columns(p) =>
              /\ Edits("variable", q, i) \in EditsOf("variable", p, {i})
              /\ Edits("objective", q, i) \in EditsOf("objective", p, {i})
              /\ Edits("varround", q, i) \in EditsOf("varround", p, {i})
              /\ Edits("variable", q, i).entries = <<>> /\ Edits("objective", q, i).entries = <<>>
              /\ Edits("varround", q, i).entries = <<>>
<1>0. \A T : << >> \in Seq(T)
  OBVIOUS
<1>1. ASSUME i \in Rows(p)
      PROVE  /\ Edits("constraint", q, i) \in EditsOf("constraint", p, {i})
             /\ Edits("constraint", q, i).entries = <<>>
  <2> DEFINE s == << i >>
             x == AllEdits(s, <<>>, <<>>, <<>>, <<>>, <<>>, <<>>, <<>>, <<>>, <<>>)
  <2>1. Edits("constraint", q, i) = x
    <3>1. Edits("constraint", q, i) = [NoEdits EXCEPT !.rows = s]
      BY DEF Edits
    <3> QED BY <3>1, OneList
  <2>2. s \in Seq({i})
    OBVIOUS
  <2> HIDE DEF s
  <2>3. x \in EditsIn(p, {i}, {}, Columns(p))
    BY <1>0, <2>2, EditsMade
  <2>4. /\ x["domains"] = <<>> /\ x["sides"] = <<>> /\ x["fixed"] = <<>> /\ x["entries"] = <<>>
        /\ x["lefts"] = <<>> /\ x["rights"] = <<>> /\ x["objs"] = <<>>
        /\ x["lowers"] = <<>> /\ x["uppers"] = <<>>
        /\ DOMAIN x = {"rows", "domains", "sides", "fixed", "entries", "lefts", "rights",
                       "objs", "lowers", "uppers"}
        /\ x.entries = <<>>
    BY FieldsOfMade
  <2>5. "constraint" \in ByRow /\ Lists("constraint") = {"rows"}
    BY DEF ByRow, Lists
  <2> HIDE DEF x
  <2>6. EmptyBut(x, Lists("constraint"))
    BY <2>4, <2>5 DEF EmptyBut
  <2>7. x \in EditsOf("constraint", p, {i})
    BY <2>3, <2>5, <2>6, EditsOfRows
  <2> QED BY <2>1, <2>4, <2>7
<1>2. ASSUME i \in Rows(p)
      PROVE  /\ Edits("side", q, i) \in EditsOf("side", p, {i})
             /\ Edits("side", q, i).entries = <<>>
  <2> DEFINE s == << <<i, SideValue(q, i)>> >>
             x == AllEdits(<<>>, <<>>, s, <<>>, <<>>, <<>>, <<>>, <<>>, <<>>, <<>>)
  <2>1. Edits("side", q, i) = x
    <3>1. Edits("side", q, i) = [NoEdits EXCEPT !.sides = s]
      BY DEF Edits
    <3> HIDE DEF s
    <3> QED BY <3>1, OneList
  <2>2. s \in Seq({i} \X Int)
    <3>1. <<i, SideValue(q, i)>> \in {i} \X Int
      BY <1>2, ValuesTyped
    <3> QED BY <3>1, SomeSequences
  <2> HIDE DEF s
  <2>3. x \in EditsIn(p, {i}, {}, Columns(p))
    BY <1>0, <2>2, EditsMade
  <2>4. /\ x["rows"] = <<>> /\ x["domains"] = <<>> /\ x["fixed"] = <<>> /\ x["entries"] = <<>>
        /\ x["lefts"] = <<>> /\ x["rights"] = <<>> /\ x["objs"] = <<>>
        /\ x["lowers"] = <<>> /\ x["uppers"] = <<>>
        /\ DOMAIN x = {"rows", "domains", "sides", "fixed", "entries", "lefts", "rights",
                       "objs", "lowers", "uppers"}
        /\ x.entries = <<>>
    BY FieldsOfMade
  <2>5. "side" \in ByRow /\ Lists("side") = {"sides"}
    BY DEF ByRow, Lists
  <2> HIDE DEF x
  <2>6. EmptyBut(x, Lists("side"))
    BY <2>4, <2>5 DEF EmptyBut
  <2>7. x \in EditsOf("side", p, {i})
    BY <2>3, <2>5, <2>6, EditsOfRows
  <2> QED BY <2>1, <2>4, <2>7
<1>3. ASSUME i \in Columns(p)
      PROVE  /\ Edits("variable", q, i) \in EditsOf("variable", p, {i})
             /\ Edits("variable", q, i).entries = <<>>
  <2> DEFINE s == << <<i, FixedValue(q, i)>> >>
             x == AllEdits(<<>>, s, <<>>, <<>>, <<>>, <<>>, <<>>, <<>>, <<>>, <<>>)
  <2>1. Edits("variable", q, i) = x
    <3>1. Edits("variable", q, i) = [NoEdits EXCEPT !.domains = s]
      BY DEF Edits
    <3> HIDE DEF s
    <3> QED BY <3>1, OneList
  <2>2. s \in Seq({i} \X Steps)
    <3>1. <<i, FixedValue(q, i)>> \in {i} \X Steps
      BY <1>3, ValuesTyped
    <3> QED BY <3>1, SomeSequences
  <2> HIDE DEF s
  <2>3. x \in EditsIn(p, Rows(p), {i}, {i})
    BY <1>0, <2>2, EditsMade
  <2>4. /\ x["rows"] = <<>> /\ x["sides"] = <<>> /\ x["fixed"] = <<>> /\ x["entries"] = <<>>
        /\ x["lefts"] = <<>> /\ x["rights"] = <<>> /\ x["objs"] = <<>>
        /\ x["lowers"] = <<>> /\ x["uppers"] = <<>>
        /\ DOMAIN x = {"rows", "domains", "sides", "fixed", "entries", "lefts", "rights",
                       "objs", "lowers", "uppers"}
        /\ x.entries = <<>>
    BY FieldsOfMade
  <2>5. "variable" \in ByColumn /\ Lists("variable") = {"domains"}
    BY DEF ByColumn, Lists
  <2> HIDE DEF x
  <2>6. EmptyBut(x, Lists("variable"))
    BY <2>4, <2>5 DEF EmptyBut
  <2>7. x \in EditsOf("variable", p, {i})
    BY <2>3, <2>5, <2>6, EditsOfColumns
  <2> QED BY <2>1, <2>4, <2>7
<1>4. ASSUME i \in Columns(p)
      PROVE  /\ Edits("objective", q, i) \in EditsOf("objective", p, {i})
             /\ Edits("objective", q, i).entries = <<>>
  <2> DEFINE s == << <<i, 0>> >>
             x == AllEdits(<<>>, <<>>, <<>>, <<>>, <<>>, <<>>, <<>>, s, <<>>, <<>>)
  <2>1. Edits("objective", q, i) = x
    <3>1. Edits("objective", q, i) = [NoEdits EXCEPT !.objs = s]
      BY DEF Edits
    <3> HIDE DEF s
    <3> QED BY <3>1, OneList
  <2>2. s \in Seq({i} \X Steps)
    <3>1. <<i, 0>> \in {i} \X Steps
      BY StepArithmetic
    <3> QED BY <3>1, SomeSequences
  <2> HIDE DEF s
  <2>3. x \in EditsIn(p, Rows(p), {i}, {i})
    BY <1>0, <2>2, EditsMade
  <2>4. /\ x["rows"] = <<>> /\ x["domains"] = <<>> /\ x["sides"] = <<>> /\ x["fixed"] = <<>>
        /\ x["entries"] = <<>> /\ x["lefts"] = <<>> /\ x["rights"] = <<>>
        /\ x["lowers"] = <<>> /\ x["uppers"] = <<>>
        /\ DOMAIN x = {"rows", "domains", "sides", "fixed", "entries", "lefts", "rights",
                       "objs", "lowers", "uppers"}
        /\ x.entries = <<>>
    BY FieldsOfMade
  <2>5. "objective" \in ByColumn /\ Lists("objective") = {"objs"}
    BY DEF ByColumn, Lists
  <2> HIDE DEF x
  <2>6. EmptyBut(x, Lists("objective"))
    BY <2>4, <2>5 DEF EmptyBut
  <2>7. x \in EditsOf("objective", p, {i})
    BY <2>3, <2>5, <2>6, EditsOfColumns
  <2> QED BY <2>1, <2>4, <2>7
<1>5. ASSUME i \in Columns(p)
      PROVE  /\ Edits("varround", q, i) \in EditsOf("varround", p, {i})
             /\ Edits("varround", q, i).entries = <<>>
  <2>1. Edits("varround", q, i) = VarroundEdits(q, i)
    BY DEF Edits
  <2>2. PICK objs, lowers, uppers \in Seq({i} \X Steps) :
          VarroundEdits(q, i) = RoundedOf(objs, lowers, uppers)
    <3>1. IsRounded(VarroundEdits(q, i), {i} \X Steps)
      BY <1>5, VarroundTyped
    <3> QED BY <3>1 DEF IsRounded
  <2> DEFINE x == RoundedOf(objs, lowers, uppers)
  <2>3. x \in EditsIn(p, Rows(p), {i}, {i})
    BY <1>0, <2>2, EditsMade DEF RoundedOf
  <2>4. /\ x["rows"] = <<>> /\ x["domains"] = <<>> /\ x["sides"] = <<>> /\ x["fixed"] = <<>>
        /\ x["entries"] = <<>> /\ x["lefts"] = <<>> /\ x["rights"] = <<>>
        /\ DOMAIN x = {"rows", "domains", "sides", "fixed", "entries", "lefts", "rights",
                       "objs", "lowers", "uppers"}
        /\ x.entries = <<>>
    BY FieldsOfMade DEF RoundedOf
  <2>5. "varround" \in ByColumn /\ Lists("varround") = {"objs", "lowers", "uppers"}
    BY DEF ByColumn, Lists
  <2> HIDE DEF x
  <2>6. EmptyBut(x, Lists("varround"))
    BY <2>4, <2>5 DEF EmptyBut
  <2>7. x \in EditsOf("varround", p, {i})
    BY <2>3, <2>5, <2>6, EditsOfColumns
  <2> QED BY <2>1, <2>4, <2>7, <2>2 DEF x
<1> QED BY <1>1, <1>2, <1>3, <1>4, <1>5

(* Edits of a row are edits of a visit to it.                              *)
LEMMA RowEditTyped ==
  ASSUME NEW p, NEW r \in Rows(p), NEW m \in {"coefficient", "consround"}, NEW e,
         IsRowEdit(e, p, r)
  PROVE  e \in EditsOf(m, p, {r}) /\ Distinct(e.entries)
<1>1. PICK entries \in Seq(Entries(p, {r}, Columns(p))),
           lefts \in Seq({r} \X Int), rights \in Seq({r} \X Int) :
        e = ShiftOf(entries, lefts, rights) /\ Distinct(entries)
  BY DEF IsRowEdit
<1>2. ShiftOf(entries, lefts, rights) \in EditsOf(m, p, {r})
  BY RowVisitTyped
<1>3. e.entries = entries
  BY <1>1, FieldsOfMade DEF ShiftOf
<1> QED BY <1>1, <1>2, <1>3

(* The visits of the modifiers that change the coefficients of a row.      *)
LEMMA RowVisits ==
  ASSUME NEW p, Fits(p), NEW R, NEW C, NEW q, IsVariant(q, p, R, C), NEW r \in Rows(p)
  PROVE  IsRowEdit(Edits("coefficient", q, r), p, r) /\ IsRowEdit(Edits("consround", q, r), p, r)
<1>1. Edits("consround", q, r) = ConsroundEdits(q, r)
      /\ Edits("coefficient", q, r) = Shift(q, r, Removable(q, r), FixedEntries(q, r))
  BY DEF Edits
<1> DEFINE cs == Removable(q, r)
           offset == FixedEntries(q, r)
           x == Shift(q, r, cs, offset)
<1>2. offset \in Int /\ cs \in SUBSET DOMAIN q.rows[r].coef
  BY FixedEntriesInteger
<1>3. DOMAIN q.rows[r].coef \subseteq Columns(p)
  BY CoefficientsOf DEF Fits
<1> HIDE DEF cs, offset
<1>4. IsShift(x, Zeros(r, cs), {r} \X Int)
      /\ Zeros(r, cs) \in Seq(Entries(p, {r}, cs)) /\ Distinct(Zeros(r, cs))
  BY <1>2, ShiftTyped DEF Fits
<1>5. Entries(p, {r}, cs) \subseteq Entries(p, {r}, Columns(p))
  BY <1>2, <1>3 DEF Entries
<1>6. Zeros(r, cs) \in Seq(Entries(p, {r}, Columns(p)))
  BY <1>4, <1>5, SubsetSequence
<1> HIDE DEF x
<1>7. IsRowEdit(x, p, r)
  BY <1>4, <1>6 DEF IsRowEdit, IsShift
<1>8. IsRowEdit(ConsroundEdits(q, r), p, r)
  BY ConsroundTyped
<1> QED BY <1>1, <1>7, <1>8 DEF cs, offset, x

(* Edits joined are edits. *)
LEMMA JoinTyped ==
  ASSUME NEW p, NEW R, NEW C, NEW E, NEW e \in EditsIn(p, R, C, E),
         NEW f \in EditsIn(p, R, C, E), NEW L, EmptyBut(e, L), EmptyBut(f, L)
  PROVE  Join(e, f) \in EditsIn(p, R, C, E) /\ EmptyBut(Join(e, f), L)
<1> DEFINE x == AllEdits(e.rows \o f.rows, e.domains \o f.domains, e.sides \o f.sides,
                    e.fixed \o f.fixed, e.entries \o f.entries, e.lefts \o f.lefts,
                    e.rights \o f.rights, e.objs \o f.objs, e.lowers \o f.lowers,
                    e.uppers \o f.uppers)
<1>1. Join(e, f) = x
  BY JoinFields
<1>2. \A T : \A s, t \in Seq(T) : s \o t \in Seq(T)
  OBVIOUS
<1>3. x \in EditsIn(p, R, C, E)
  <2>1. /\ e.rows \o f.rows \in Seq(R) /\ e.domains \o f.domains \in Seq(C \X Steps)
        /\ e.sides \o f.sides \in Seq(R \X Int) /\ e.fixed \o f.fixed \in Seq(C)
        /\ e.entries \o f.entries \in Seq(Entries(p, R, E))
        /\ e.lefts \o f.lefts \in Seq(R \X Int) /\ e.rights \o f.rights \in Seq(R \X Int)
        /\ e.objs \o f.objs \in Seq(C \X Steps) /\ e.lowers \o f.lowers \in Seq(C \X Steps)
        /\ e.uppers \o f.uppers \in Seq(C \X Steps)
    BY <1>2, EditsFields
  <2> QED BY <2>1 DEF AllEdits, EditsIn, Entries
<1> DEFINE D == {"rows", "domains", "sides", "fixed", "entries", "lefts", "rights",
                 "objs", "lowers", "uppers"}
<1>4. DOMAIN e = D /\ DOMAIN f = D /\ Join(e, f) = [k \in D |-> e[k] \o f[k]]
  BY EditsFields DEF Join
<1>5. EmptyBut(Join(e, f), L)
  <2>1. ASSUME NEW k \in D \ L  PROVE e[k] \o f[k] = <<>>
    <3>1. e[k] = <<>> /\ f[k] = <<>>
      BY <1>4, <2>1 DEF EmptyBut
    <3> QED BY <3>1
  <2> HIDE DEF D
  <2> QED BY <1>4, <2>1 DEF EmptyBut
<1> HIDE DEF x
<1> QED BY <1>1, <1>3, <1>5


-------------------------------------------------------------------------------
(* A column that is fixed: the column, and in each of its rows its         *)
(* coefficient and the sides.                                              *)
FixingUpTo(p, c, rows, k) ==
  {e \in EditsIn(p, Rows(p), {c}, {c}) :
     /\ EmptyBut(e, Lists("fixing")) /\ e.fixed = << c >> /\ Len(e.entries) = k
     /\ \A j \in 1..k : e.entries[j] = <<rows[j], c, 0>>}

OneEntry(f, r, c) == f.entries = << <<r, c, 0>> >>

IsPart(f, r, c) == IsShift(f, << <<r, c, 0>> >>, {r} \X Int)

(* Substituting a column in one row edits that row at that column.         *)
LEMMA FixingPart ==
  ASSUME NEW p, NEW c, NEW r \in Rows(p), c \in DOMAIN p.rows[r].coef,
         NEW f, IsPart(f, r, c)
  PROVE  /\ f \in EditsIn(p, Rows(p), {c}, {c}) /\ EmptyBut(f, Lists("fixing"))
         /\ OneEntry(f, r, c) /\ f.fixed = <<>>
<1> DEFINE R == Rows(p)
           s == << <<r, c, 0>> >>
<1>1. PICK lefts, rights \in Seq({r} \X Int) : f = ShiftOf(s, lefts, rights)
  BY DEF IsShift, IsPart
<1>2. {r} \X Int \subseteq R \X Int
  OBVIOUS
<1>3. lefts \in Seq(R \X Int) /\ rights \in Seq(R \X Int)
  <2> HIDE DEF R
  <2> QED BY <1>2, SubsetSequence
<1>4. s \in Seq(Entries(p, R, {c}))
  <2>1. <<r, c, 0>> \in Entries(p, R, {c})
    BY StepArithmetic DEF Entries
  <2> QED BY <2>1, SomeSequences
<1>5. \A T : << >> \in Seq(T)
  OBVIOUS
<1> HIDE DEF R, s
<1>6. ShiftOf(s, lefts, rights) \in EditsIn(p, R, {c}, {c})
  BY <1>3, <1>4, <1>5, EditsMade DEF ShiftOf
<1>7. f["rows"] = <<>> /\ f["domains"] = <<>> /\ f["sides"] = <<>> /\ f["fixed"] = <<>> /\ f.fixed = <<>>
      /\ f["objs"] = <<>> /\ f["lowers"] = <<>> /\ f["uppers"] = <<>> /\ f.entries = s
      /\ DOMAIN f = {"rows", "domains", "sides", "fixed", "entries", "lefts", "rights",
                     "objs", "lowers", "uppers"}
  BY <1>1, FieldsOfMade DEF ShiftOf
<1>8. EmptyBut(f, Lists("fixing"))
  BY <1>7 DEF EmptyBut, Lists
<1> QED BY <1>1, <1>6, <1>7, <1>8 DEF R, s, OneEntry

(* Substitutions in several rows are edits at the same column.             *)
LEMMA FixingJoins ==
  ASSUME NEW p, NEW c, NEW rows, NEW k \in Nat \ {0}, rows[k] \in Rows(p),
         c \in DOMAIN p.rows[rows[k]].coef,
         NEW e \in FixingUpTo(p, c, rows, k - 1),
         NEW f, IsPart(f, rows[k], c)
  PROVE  Join(e, f) \in FixingUpTo(p, c, rows, k)
<1> DEFINE R == Rows(p)
           s == << <<rows[k], c, 0>> >>
<1>4. s \in Seq(Entries(p, R, {c}))
  <2>1. <<rows[k], c, 0>> \in Entries(p, R, {c})
    BY StepArithmetic DEF Entries
  <2> QED BY <2>1, SomeSequences
<1>7. f \in EditsIn(p, R, {c}, {c}) /\ EmptyBut(f, Lists("fixing")) /\ f.entries = s
      /\ f.fixed = <<>>
  <2>1. f \in EditsIn(p, R, {c}, {c}) /\ EmptyBut(f, Lists("fixing")) /\ OneEntry(f, rows[k], c)
        /\ f.fixed = <<>>
    BY FixingPart
  <2> QED BY <2>1 DEF OneEntry
<1>8. /\ e \in EditsIn(p, R, {c}, {c}) /\ EmptyBut(e, Lists("fixing"))
      /\ e.fixed = << c >> /\ Len(e.entries) = k - 1 /\ \A j \in 1..k-1 : e.entries[j] = <<rows[j], c, 0>>
  BY DEF FixingUpTo
<1>9. /\ Join(e, f) \in EditsIn(p, R, {c}, {c}) /\ EmptyBut(Join(e, f), Lists("fixing"))
      /\ Join(e, f).entries = e.entries \o s /\ Join(e, f).fixed = << c >>
  <2> DEFINE V == {c}
             L == Lists("fixing")
  <2>1. /\ e \in EditsIn(p, R, V, V) /\ EmptyBut(e, L)
        /\ f \in EditsIn(p, R, V, V) /\ EmptyBut(f, L)
    BY <1>7, <1>8
  <2> HIDE DEF R, s, V, L
  <2>2. Join(e, f) \in EditsIn(p, R, V, V) /\ EmptyBut(Join(e, f), L)
    BY <2>1, JoinTyped
  <2>3. Join(e, f).entries = e.entries \o f.entries
    <3>1. "entries" \in DOMAIN e
      BY <2>1 DEF EditsIn
    <3> QED BY <3>1 DEF Join
  <2>4. Join(e, f).fixed = << c >>
    <3> DEFINE one == << c >>
    <3>1. one \in Seq({c})
      OBVIOUS
    <3>2. "fixed" \in DOMAIN e
      BY <2>1 DEF EditsIn
    <3>3. Join(e, f).fixed = e.fixed \o f.fixed
      BY <3>2 DEF Join
    <3> HIDE DEF one
    <3>4. one \o <<>> = one
      BY <3>1
    <3> QED BY <1>7, <1>8, <3>3, <3>4 DEF one
  <2> QED BY <1>7, <2>2, <2>3, <2>4 DEF V, L
<1>10. e.entries \in Seq(Entries(p, R, {c}))
  BY <1>8, EditsFields
<1> DEFINE t == e.entries
<1>11. Len(t \o s) = k /\ \A j \in 1..k : (t \o s)[j] = <<rows[j], c, 0>>
  <2>1. Len(s) = 1 /\ s[1] = <<rows[k], c, 0>> /\ t \in Seq(Entries(p, R, {c})) /\ Len(t) = k - 1
    BY <1>8, <1>10
  <2>2. \A j \in 1..k-1 : t[j] = <<rows[j], c, 0>>
    BY <1>8
  <2> HIDE DEF t, s
  <2>3. s \in Seq(Entries(p, R, {c}))
    BY <1>4
  <2>4. Len(t) + Len(s) = k /\ k - Len(t) = 1
    BY <2>1
  <2>5. /\ Len(t \o s) = Len(t) + Len(s)
        /\ \A j \in 1..Len(t) + Len(s) :
             (t \o s)[j] = IF j <= Len(t) THEN t[j] ELSE s[j - Len(t)]
    BY <2>1, <2>3, ConcatProperties
  <2>6. ASSUME NEW j \in 1..k  PROVE (t \o s)[j] = <<rows[j], c, 0>>
    <3>1. CASE j \in 1..k-1
      <4>1. j <= Len(t)
        BY <2>1, <3>1
      <4> QED BY <2>2, <2>4, <2>5, <3>1, <4>1
    <3>2. CASE j = k
      <4>1. ~ (k <= Len(t)) /\ k \in 1..k
        BY <2>1
      <4>2. (t \o s)[k] = s[1]
        BY <2>4, <2>5, <4>1
      <4> QED BY <2>1, <3>2, <4>2
    <3>3. j = k \/ j \in 1..k-1
      OBVIOUS
    <3> QED BY <3>1, <3>2, <3>3
  <2> QED BY <2>4, <2>5, <2>6
<1> HIDE DEF s, t, R
<1> QED BY <1>9, <1>11 DEF FixingUpTo, t, R

(* A single column is one entry of its row.                                *)
LEMMA SingleZero ==
  ASSUME NEW n \in Nat, NEW c \in 1..n, NEW r
  PROVE  Zeros(r, {c}) = << <<r, c, 0>> >>
<1>1. ListsOnce(Falling({c}), {c})
  BY SortedSets
<1>2. Cardinality({c}) = 1
  BY FS_Singleton
<1>3. Falling({c}) \in [1..1 -> {c}]
  BY <1>1, <1>2 DEF ListsOnce
<1>4. Falling({c})[1] = c
  BY <1>3
<1> DEFINE f == Falling({c})
<1> HIDE DEF f
<1>5. [i \in 1..1 |-> <<r, f[i], 0>>] = << <<r, f[1], 0>> >>
  OBVIOUS
<1>6. Zeros(r, {c}) = [i \in 1..1 |-> <<r, f[i], 0>>]
  BY <1>2 DEF Zeros, f
<1> QED BY <1>4, <1>5, <1>6 DEF f

(* Fixing a column edits the rows it occurs in, each once.                 *)
LEMMA FixingTyped ==
  ASSUME NEW p, Fits(p), NEW R, NEW C, NEW q, IsVariant(q, p, R, C), NEW c \in Columns(p)
  PROVE  /\ Edits("fixing", q, c) \in EditsOf("fixing", p, {c})
         /\ Distinct(Edits("fixing", q, c).entries)
         /\ Edits("fixing", q, c).fixed = << c >>
<1> DEFINE O == Occurrences(q, c)
           rows == Falling(O)
           m == Cardinality(O)
           fixed == Fixation(q, c)
           In(r) == Shift(fixed, r, {c}, -Times(q.rows[r].coef[c], FixedValue(q, c)))
           s == [k \in DOMAIN rows |-> In(rows[k])]
           b == [NoEdits EXCEPT !.fixed = << c >>]
           U == EditsIn(p, Rows(p), {c}, {c})
           G == [k \in Nat |-> FixingUpTo(p, c, rows, k)]
<1>1. O \in SUBSET (1..Len(p.rows)) /\ Len(p.rows) \in Nat
      /\ \A r \in O : r \in Rows(p) /\ c \in DOMAIN q.rows[r].coef
  <2>1. Rows(q) = Rows(p) /\ Rows(p) = 1..Len(p.rows) /\ Len(p.rows) \in Nat
    BY VariantParts, ProblemParts DEF Fits, Rows
  <2> QED BY <2>1 DEF Occurrences
<1>2. ListsOnce(rows, O)
  <2> HIDE DEF O
  <2> QED BY <1>1, SortedSets
<1>3. /\ m \in Nat /\ rows \in [1..m -> O] /\ \A i, j \in 1..m : i # j => rows[i] # rows[j]
  <2> HIDE DEF O, rows
  <2> QED BY <1>2 DEF ListsOnce
<1>4. b \in FixingUpTo(p, c, rows, 0)
  <2>1. b = AllEdits(<<>>, <<>>, <<>>, << c >>, <<>>, <<>>, <<>>, <<>>, <<>>, <<>>)
    BY OneList
  <2>2. << c >> \in Seq({c}) /\ \A T : << >> \in Seq(T)
    OBVIOUS
  <2>3. b \in EditsIn(p, Rows(p), {c}, {c})
    <3> DEFINE V == {c}
               one == << c >>
    <3>1. one \in Seq(V)
      BY <2>2
    <3> HIDE DEF V, one, b
    <3>2. AllEdits(<<>>, <<>>, <<>>, one, <<>>, <<>>, <<>>, <<>>, <<>>, <<>>)
            \in EditsIn(p, Rows(p), V, V)
      BY <2>2, <3>1, EditsMade
    <3> QED BY <2>1, <3>2 DEF V, one
  <2>4. b["rows"] = <<>> /\ b["domains"] = <<>> /\ b["sides"] = <<>>
        /\ b["objs"] = <<>> /\ b["lowers"] = <<>> /\ b["uppers"] = <<>> /\ b.entries = <<>>
        /\ b.fixed = << c >>
        /\ DOMAIN b = {"rows", "domains", "sides", "fixed", "entries", "lefts", "rights",
                       "objs", "lowers", "uppers"}
    BY <2>1, FieldsOfMade
  <2> HIDE DEF b
  <2>5. EmptyBut(b, Lists("fixing"))
    BY <2>4 DEF EmptyBut, Lists
  <2>6. b.fixed = << c >> /\ Len(b.entries) = 0 /\ 1..0 = {}
    BY <2>4
  <2> QED BY <2>3, <2>5, <2>6 DEF FixingUpTo
<1>5. IsVariant(fixed, p, R, Columns(p)) /\ fixed.rows = q.rows
  <2>1. IsVariant(q, p, R, Columns(p))
    BY DEF IsVariant
  <2>2. IsVariant(Fixation(q, c), p, R, Columns(p))
    BY <2>1, ColumnsKeep
  <2>3. Fixation(q, c).rows = q.rows
    BY VariantParts DEF Fixation, IsPair
  <2> QED BY <2>2, <2>3
<1>6. ASSUME NEW r \in O
      PROVE  /\ r \in Rows(p) /\ c \in DOMAIN p.rows[r].coef
             /\ IsPart(In(r), r, c)
  <2> DEFINE offset == -Times(q.rows[r].coef[c], FixedValue(q, c))
  <2>1. r \in Rows(p) /\ c \in DOMAIN q.rows[r].coef
    BY <1>1
  <2>2. offset \in Int
    <3>1. q.rows[r].coef[c] \in Int /\ FixedValue(q, c) \in Int
      BY <2>1, CoefficientsOf, ValuesTyped DEF Fits
    <3>2. Times(q.rows[r].coef[c], FixedValue(q, c)) \in Int
      BY <3>1, TimesInteger
    <3> QED BY <3>2
  <2>3. {c} \in SUBSET DOMAIN fixed.rows[r].coef
    BY <1>5, <2>1
  <2>4. Zeros(r, {c}) = << <<r, c, 0>> >>
    BY ProblemParts, SingleZero DEF Fits
  <2>5. c \in DOMAIN p.rows[r].coef
    BY <2>1, RowOfVariant
  <2> HIDE DEF fixed, offset, O
  <2>6. IsShift(Shift(fixed, r, {c}, offset), Zeros(r, {c}), {r} \X Int)
    BY <1>5, <2>1, <2>2, <2>3, ShiftTyped DEF Fits
  <2> QED BY <2>1, <2>4, <2>5, <2>6 DEF offset, IsPart
<1>7. s \in Seq(U) /\ Len(s) = m /\ \A k \in 1..m : s[k] = In(rows[k])
  <2>1. DOMAIN rows = 1..m
    BY <1>3
  <2>2. ASSUME NEW k \in 1..m  PROVE In(rows[k]) \in U
    <3>1. rows[k] \in O
      BY <1>3
    <3> HIDE DEF O, rows, In
    <3> QED BY <1>6, <3>1, FixingPart
  <2> HIDE DEF O, rows, In, U, m
  <2>3. IsMap(s) /\ DOMAIN s = 1..m /\ \A k \in 1..m : s[k] = In(rows[k])
    BY <2>1 DEF IsMap
  <2> HIDE DEF s
  <2> QED BY <1>3, <2>2, <2>3, SequenceMade
<1>8. ASSUME NEW k \in 1..m, NEW v \in G[k - 1]  PROVE Join(v, s[k]) \in G[k]
  <2>1. k \in Nat \ {0} /\ k - 1 \in Nat
    BY <1>3
  <2>2. G[k - 1] = FixingUpTo(p, c, rows, k - 1) /\ G[k] = FixingUpTo(p, c, rows, k)
    BY <2>1
  <2>3. rows[k] \in O
    BY <1>3
  <2>4. v \in FixingUpTo(p, c, rows, k - 1)
    BY <2>2
  <2> HIDE DEF O, rows, In, G, m, s
  <2>5. rows[k] \in Rows(p) /\ c \in DOMAIN p.rows[rows[k]].coef /\ IsPart(s[k], rows[k], c)
    BY <1>6, <1>7, <2>3
  <2>6. Join(v, s[k]) \in FixingUpTo(p, c, rows, k)
    BY <2>1, <2>4, <2>5, FixingJoins
  <2> QED BY <2>2, <2>6
<1>9. FoldLeft(Join, b, s) \in FixingUpTo(p, c, rows, m)
  <2>1. Joining!TakesLast
    BY LastIsPicked
  <2>2. b \in G[0] /\ G[m] = FixingUpTo(p, c, rows, m)
    BY <1>3, <1>4
  <2> HIDE DEF b, G, O, rows, In, s, m, U
  <2>3. Joining!Over(b, s) \in G[Len(s)]
    BY <1>7, <1>8, <2>1, <2>2, Joining!OverReaches
  <2> QED BY <1>7, <2>2, <2>3, JoiningIsFold
<1>10. Edits("fixing", q, c) = FoldLeft(Join, b, s)
  BY DEF Edits, FixingEdits
<1> DEFINE x == FoldLeft(Join, b, s)
<1> HIDE DEF x
<1>11. /\ x \in EditsIn(p, Rows(p), {c}, {c}) /\ EmptyBut(x, Lists("fixing"))
       /\ x.fixed = << c >> /\ Len(x.entries) = m /\ \A j \in 1..m : x.entries[j] = <<rows[j], c, 0>>
  BY <1>9 DEF FixingUpTo, x
<1>12. x \in EditsOf("fixing", p, {c})
  <2>1. "fixing" \in ByColumn
    BY DEF ByColumn
  <2> QED BY <1>11, <2>1, EditsOfColumns
<1>13. Distinct(x.entries)
  <2> DEFINE t == x.entries
  <2>1. DOMAIN t = 1..m
    BY <1>3, <1>11, EditsFields
  <2> HIDE DEF t, rows, O, m
  <2>2. \A j \in 1..m : t[j] = <<rows[j], c, 0>>
    BY <1>11 DEF t
  <2>3. ASSUME NEW i \in 1..m, NEW j \in 1..m, i # j
        PROVE  <<t[i][1], t[i][2]>> # <<t[j][1], t[j][2]>>
    <3>1. rows[i] # rows[j] /\ t[i][1] = rows[i] /\ t[j][1] = rows[j]
      BY <1>3, <2>2, <2>3
    <3> QED BY <3>1
  <2> QED BY <2>1, <2>3 DEF Distinct, t
<1> QED BY <1>10, <1>11, <1>12, <1>13 DEF x

(* A visit edits what it visits and changes no coefficient twice.          *)
LEMMA VisitTyped ==
  ASSUME NEW p, Fits(p), NEW R, NEW C, NEW q, IsVariant(q, p, R, C),
         NEW m \in ByRow \cup ByColumn, NEW i,
         m \in ByRow => i \in Rows(p), m \in ByColumn => i \in Columns(p)
  PROVE  Edits(m, q, i) \in EditsOf(m, p, {i}) /\ Distinct(Edits(m, q, i).entries)
<1>0. /\ m \in {"constraint", "coefficient", "side", "consround"} => i \in Rows(p)
      /\ m \in {"variable", "fixing", "objective", "varround"} => i \in Columns(p)
      /\ m \in {"constraint", "coefficient", "side", "consround",
                "variable", "fixing", "objective", "varround"}
  BY DEF ByRow, ByColumn
<1>1. CASE m \in {"coefficient", "consround"}
  <2>1. i \in Rows(p) /\ IsRowEdit(Edits("coefficient", q, i), p, i)
        /\ IsRowEdit(Edits("consround", q, i), p, i)
    BY <1>0, <1>1, RowVisits
  <2>2. IsRowEdit(Edits(m, q, i), p, i)
    BY <1>1, <2>1
  <2> DEFINE e == Edits(m, q, i)
  <2> HIDE DEF e
  <2>3. e \in EditsOf(m, p, {i}) /\ Distinct(e.entries)
    BY <1>1, <2>1, <2>2, RowEditTyped DEF e
  <2> QED BY <2>3 DEF e
<1>2. CASE m = "fixing"
  BY <1>0, <1>2, FixingTyped
<1>3. CASE m \in {"constraint", "side"}
  BY <1>0, <1>3, PlainVisitTyped, NothingDistinct
<1>4. CASE m \in {"variable", "objective", "varround"}
  BY <1>0, <1>4, PlainVisitTyped, NothingDistinct
<1> QED BY <1>0, <1>1, <1>2, <1>3, <1>4

-------------------------------------------------------------------------------
(* More visits make more edits and more variants.                          *)
Reach(m, p) == IF m \in ByRow THEN Rows(p) ELSE Columns(p)

(* What may change in fewer places may change in more.                     *)
LEMMA MoreVariants ==
  ASSUME NEW m, NEW p, NEW V, NEW W, V \subseteq W, NEW q, VariantOf(m, q, p, V)
  PROVE  VariantOf(m, q, p, W)
<1>1. RowsWith(m, p, V) \subseteq RowsWith(m, p, W)
      /\ ColumnsWith(m, p, V) \subseteq ColumnsWith(m, p, W)
  BY DEF RowsWith, ColumnsWith
<1> QED BY <1>1 DEF VariantOf, IsVariant

(* Edits of fewer visits are edits of more.                                *)
LEMMA MoreEdits ==
  ASSUME NEW m \in ByRow \cup ByColumn, NEW p, NEW V, NEW W, V \subseteq W,
         NEW e \in EditsOf(m, p, V)
  PROVE  e \in EditsOf(m, p, W)
<1> DEFINE R == RowsWith(m, p, V)
           C == ColumnsWith(m, p, V)
           E == PlacesWith(m, p, V)
           R2 == RowsWith(m, p, W)
           C2 == ColumnsWith(m, p, W)
           E2 == PlacesWith(m, p, W)
<1>1. R \subseteq R2 /\ C \subseteq C2 /\ E \subseteq E2
  BY DEF RowsWith, ColumnsWith, PlacesWith
<1>2. e \in EditsIn(p, R, C, E) /\ \A k \in DOMAIN e \ Lists(m) : e[k] = <<>>
  BY DEF EditsOf
<1> HIDE DEF R, C, E, R2, C2, E2
<1>3. /\ R \X Int \subseteq R2 \X Int /\ C \X Steps \subseteq C2 \X Steps
      /\ Entries(p, R, E) \subseteq Entries(p, R2, E2)
  BY <1>1 DEF Entries
<1>4. e = AllEdits(e.rows, e.domains, e.sides, e.fixed, e.entries, e.lefts, e.rights,
                   e.objs, e.lowers, e.uppers)
  BY <1>2, EditsFields
<1>5. /\ e.rows \in Seq(R2) /\ e.domains \in Seq(C2 \X Steps) /\ e.sides \in Seq(R2 \X Int)
      /\ e.fixed \in Seq(C2) /\ e.entries \in Seq(Entries(p, R2, E2))
      /\ e.lefts \in Seq(R2 \X Int) /\ e.rights \in Seq(R2 \X Int)
      /\ e.objs \in Seq(C2 \X Steps) /\ e.lowers \in Seq(C2 \X Steps)
      /\ e.uppers \in Seq(C2 \X Steps)
  <2>1. /\ e.rows \in Seq(R) /\ e.domains \in Seq(C \X Steps) /\ e.sides \in Seq(R \X Int)
        /\ e.fixed \in Seq(C) /\ e.entries \in Seq(Entries(p, R, E))
        /\ e.lefts \in Seq(R \X Int) /\ e.rights \in Seq(R \X Int)
        /\ e.objs \in Seq(C \X Steps) /\ e.lowers \in Seq(C \X Steps)
        /\ e.uppers \in Seq(C \X Steps)
    BY <1>2, EditsFields
  <2> QED BY <1>1, <1>3, <2>1, SubsetSequence
<1>6. e \in EditsIn(p, R2, C2, E2)
  <2>1. AllEdits(e.rows, e.domains, e.sides, e.fixed, e.entries, e.lefts, e.rights,
                 e.objs, e.lowers, e.uppers) \in EditsIn(p, R2, C2, E2)
    BY <1>5, EditsMade
  <2> QED BY <1>4, <2>1
<1> QED BY <1>2, <1>6 DEF EditsOf, R2, C2, E2

(* No edits are edits of any visits.                                       *)
LEMMA NothingEdited ==
  ASSUME NEW m, NEW p, NEW V
  PROVE  NoEdits \in EditsOf(m, p, V) /\ NoEdits.entries = <<>> /\ Join(NoEdits, NoEdits) = NoEdits
<1>1. \A T : << >> \in Seq(T)
  OBVIOUS
<1>2. NoEdits \in EditsIn(p, RowsWith(m, p, V), ColumnsWith(m, p, V), PlacesWith(m, p, V))
  BY <1>1, NoEditsAre, EditsMade
<1>3. /\ \A k \in DOMAIN NoEdits : NoEdits[k] = <<>>
      /\ NoEdits.entries = <<>>
  BY DEF NoEdits
<1>4. Join(NoEdits, NoEdits) = [k \in DOMAIN NoEdits |-> NoEdits[k] \o NoEdits[k]]
  BY DEF Join
<1>5. \A k \in DOMAIN NoEdits : NoEdits[k] \o NoEdits[k] = NoEdits[k]
  <2>1. << >> \o << >> = << >>
    OBVIOUS
  <2> QED BY <1>3, <2>1
<1>6. NoEdits = [k \in DOMAIN NoEdits |-> NoEdits[k]]
  BY DEF NoEdits
<1>7. Join(NoEdits, NoEdits) = NoEdits
  BY <1>4, <1>5, <1>6
<1> QED BY <1>2, <1>3, <1>7 DEF EditsOf

(* Edits of visits joined are edits of these visits.                       *)
LEMMA JoinOf ==
  ASSUME NEW m, NEW p, NEW V, NEW e \in EditsOf(m, p, V), NEW f \in EditsOf(m, p, V)
  PROVE  Join(e, f) \in EditsOf(m, p, V)
<1> DEFINE R == RowsWith(m, p, V)
           C == ColumnsWith(m, p, V)
           E == PlacesWith(m, p, V)
           L == Lists(m)
<1>1. /\ e \in EditsIn(p, R, C, E) /\ EmptyBut(e, L)
      /\ f \in EditsIn(p, R, C, E) /\ EmptyBut(f, L)
  BY DEF EditsOf, EmptyBut
<1> HIDE DEF R, C, E, L
<1>2. Join(e, f) \in EditsIn(p, R, C, E) /\ EmptyBut(Join(e, f), L)
  BY <1>1, JoinTyped
<1> QED BY <1>2 DEF EditsOf, EmptyBut, R, C, E, L

-------------------------------------------------------------------------------
(* Visits differ, and so do the coefficients they change.                  *)
LEMMA DistinctTogether ==
  ASSUME NEW U, NEW s \in Seq(U), NEW t \in Seq(U), Distinct(s), Distinct(t),
         \A i \in DOMAIN s, j \in DOMAIN t : <<s[i][1], s[i][2]>> # <<t[j][1], t[j][2]>>
  PROVE  Distinct(s \o t)
<1>1. Len(s) \in Nat /\ Len(t) \in Nat /\ DOMAIN s = 1..Len(s) /\ DOMAIN t = 1..Len(t)
  BY LenProperties
<1>2. /\ DOMAIN (s \o t) = 1..Len(s) + Len(t)
      /\ \A i \in 1..Len(s) + Len(t) :
           (s \o t)[i] = IF i <= Len(s) THEN s[i] ELSE t[i - Len(s)]
  BY ConcatProperties, LenProperties
<1> DEFINE n == Len(s)
           m == Len(t)
           Key(x) == <<x[1], x[2]>>
           u == s \o t
<1>3. /\ \A i, j \in 1..n : i # j => Key(s[i]) # Key(s[j])
      /\ \A i, j \in 1..m : i # j => Key(t[i]) # Key(t[j])
      /\ \A i \in 1..n, j \in 1..m : Key(s[i]) # Key(t[j])
  BY <1>1 DEF Distinct
<1>4. /\ n \in Nat /\ m \in Nat
      /\ \A i \in 1..n+m : u[i] = IF i <= n THEN s[i] ELSE t[i - n]
  BY <1>1, <1>2
<1>5. DOMAIN u = 1..n+m
  BY <1>2
<1> HIDE DEF n, m, Key, u
<1>6. ASSUME NEW i \in 1..n+m, NEW j \in 1..n+m, i # j  PROVE Key(u[i]) # Key(u[j])
  <2>1. CASE i <= n /\ j <= n
    <3>1. i \in 1..n /\ j \in 1..n
      BY <1>4, <2>1
    <3> QED BY <1>3, <1>4, <1>6, <2>1, <3>1
  <2>2. CASE i <= n /\ ~ (j <= n)
    <3>1. i \in 1..n /\ j - n \in 1..m
      BY <1>4, <2>2
    <3> QED BY <1>3, <1>4, <2>2, <3>1
  <2>3. CASE ~ (i <= n) /\ j <= n
    <3>1. j \in 1..n /\ i - n \in 1..m
      BY <1>4, <2>3
    <3>2. Key(u[i]) = Key(t[i - n]) /\ Key(u[j]) = Key(s[j])
      BY <1>4, <2>3
    <3> QED BY <1>3, <3>1, <3>2
  <2>4. CASE ~ (i <= n) /\ ~ (j <= n)
    <3>1. i - n \in 1..m /\ j - n \in 1..m /\ i - n # j - n
      BY <1>4, <1>6, <2>4
    <3> QED BY <1>3, <1>4, <2>4, <3>1
  <2> QED BY <2>1, <2>2, <2>3, <2>4
<1> QED BY <1>5, <1>6 DEF Distinct, u, Key

(* The first part of distinct changes is distinct.                         *)
LEMMA DistinctFirst ==
  ASSUME NEW U, NEW s \in Seq(U), NEW t \in Seq(U), Distinct(s \o t)
  PROVE  Distinct(s)
<1>1. Len(s) \in Nat /\ Len(t) \in Nat /\ DOMAIN s = 1..Len(s)
      /\ DOMAIN (s \o t) = 1..Len(s) + Len(t)
  BY ConcatProperties, LenProperties
<1>2. \A i \in 1..Len(s) : i \in 1..Len(s) + Len(t) /\ (s \o t)[i] = s[i]
  <2>1. \A i \in 1..Len(s) + Len(t) :
          (s \o t)[i] = IF i <= Len(s) THEN s[i] ELSE t[i - Len(s)]
    BY ConcatProperties
  <2> QED BY <1>1, <2>1
<1> DEFINE u == s \o t
<1> HIDE DEF u
<1>3. \A i, j \in DOMAIN u : i # j => <<u[i][1], u[i][2]>> # <<u[j][1], u[j][2]>>
  BY DEF Distinct, u
<1>4. \A i \in 1..Len(s) : i \in DOMAIN u /\ u[i] = s[i]
  BY <1>1, <1>2 DEF u
<1>5. ASSUME NEW i \in 1..Len(s), NEW j \in 1..Len(s), i # j
      PROVE  <<s[i][1], s[i][2]>> # <<s[j][1], s[j][2]>>
  BY <1>3, <1>4, <1>5
<1> QED BY <1>1, <1>5 DEF Distinct

(* The changed coefficients lie in what was visited.                       *)
LEMMA EntriesIn ==
  ASSUME NEW m \in ByRow \cup ByColumn, NEW p, NEW V, NEW e \in EditsOf(m, p, V)
  PROVE  /\ e.entries \in Seq(Entries(p, RowsWith(m, p, V), PlacesWith(m, p, V)))
         /\ \A j \in DOMAIN e.entries :
              /\ e.entries[j] \in Entries(p, RowsWith(m, p, V), PlacesWith(m, p, V))
              /\ IF m \in ByRow THEN e.entries[j][1] \in V ELSE e.entries[j][2] \in V
<1> DEFINE T == Entries(p, RowsWith(m, p, V), PlacesWith(m, p, V))
<1>1. e.entries \in Seq(T)
  BY EditsFields DEF EditsOf
<1>2. \A t \in T : IF m \in ByRow THEN t[1] \in V ELSE t[2] \in V
  BY DEF Entries, RowsWith, PlacesWith
<1> HIDE DEF T
<1>3. \A j \in DOMAIN e.entries : e.entries[j] \in T
  BY <1>1
<1> QED BY <1>1, <1>2, <1>3 DEF T

(* The coefficients of a new visit are none of those changed before.       *)
LEMMA EntriesApart ==
  ASSUME NEW m \in ByRow \cup ByColumn, NEW p, NEW V, NEW i, i \notin V,
         NEW a \in EditsOf(m, p, V), NEW b \in EditsOf(m, p, V), NEW e \in EditsOf(m, p, {i}),
         Distinct(a.entries \o b.entries), Distinct(e.entries)
  PROVE  Distinct(a.entries \o (b.entries \o e.entries))
<1> DEFINE U == V \cup {i}
           T == Entries(p, RowsWith(m, p, U), PlacesWith(m, p, U))
           Own(S) == \A t \in S : IF m \in ByRow THEN t[1] \in V ELSE t[2] \in V
<1>1. a \in EditsOf(m, p, U) /\ b \in EditsOf(m, p, U) /\ e \in EditsOf(m, p, U)
  BY MoreEdits
<1>2. a.entries \in Seq(T) /\ b.entries \in Seq(T) /\ e.entries \in Seq(T)
  <2> HIDE DEF U
  <2> QED BY <1>1, EntriesIn
<1> DEFINE s == a.entries
           t == b.entries
           w == e.entries
<1>3. /\ \A j \in DOMAIN s : IF m \in ByRow THEN s[j][1] \in V ELSE s[j][2] \in V
      /\ \A j \in DOMAIN t : IF m \in ByRow THEN t[j][1] \in V ELSE t[j][2] \in V
      /\ \A j \in DOMAIN w : IF m \in ByRow THEN w[j][1] = i ELSE w[j][2] = i
  BY EntriesIn
<1>4. s \in Seq(T) /\ t \in Seq(T) /\ w \in Seq(T) /\ Distinct(s \o t) /\ Distinct(w)
  BY <1>2
<1> HIDE DEF s, t, w, T, U
<1>5. s \o t \in Seq(T) /\ s \o (t \o w) = (s \o t) \o w
  BY <1>4
<1>6. \A j \in DOMAIN (s \o t) : IF m \in ByRow THEN (s \o t)[j][1] \in V ELSE (s \o t)[j][2] \in V
  <2>1. Len(s) \in Nat /\ Len(t) \in Nat /\ DOMAIN s = 1..Len(s) /\ DOMAIN t = 1..Len(t)
        /\ DOMAIN (s \o t) = 1..Len(s) + Len(t)
    BY <1>4, <1>5, ConcatProperties, LenProperties
  <2>2. \A k \in 1..Len(s) + Len(t) : (s \o t)[k] = IF k <= Len(s) THEN s[k] ELSE t[k - Len(s)]
    BY <1>4, ConcatProperties
  <2>3. ASSUME NEW j \in 1..Len(s) + Len(t)
        PROVE  IF m \in ByRow THEN (s \o t)[j][1] \in V ELSE (s \o t)[j][2] \in V
    <3>1. CASE j <= Len(s)
      <4>1. j \in DOMAIN s
        BY <2>1, <3>1
      <4> QED BY <1>3, <2>2, <3>1, <4>1
    <3>2. CASE ~ (j <= Len(s))
      <4>1. j - Len(s) \in DOMAIN t
        BY <2>1, <3>2
      <4> QED BY <1>3, <2>2, <3>2, <4>1
    <3> QED BY <3>1, <3>2
  <2> QED BY <2>1, <2>3
<1> DEFINE u == s \o t
<1> HIDE DEF u
<1>7. ASSUME NEW j \in DOMAIN u, NEW k \in DOMAIN w
      PROVE  <<u[j][1], u[j][2]>> # <<w[k][1], w[k][2]>>
  <2>1. CASE m \in ByRow
    <3>1. u[j][1] \in V /\ w[k][1] = i
      BY <1>3, <1>6, <2>1 DEF u
    <3> QED BY <3>1
  <2>2. CASE m \notin ByRow
    <3>1. u[j][2] \in V /\ w[k][2] = i
      BY <1>3, <1>6, <2>2 DEF u
    <3> QED BY <3>1
  <2> QED BY <2>1, <2>2
<1>8. Distinct(u \o w)
  BY <1>4, <1>5, <1>7, DistinctTogether DEF u
<1> QED BY <1>5, <1>8 DEF u, s, t, w

-------------------------------------------------------------------------------
(* The scan visits each row or column once.                                *)
LEMMA VisitsDiffer ==
  ASSUME Length(modifier) \in Nat, NEW n \in Nat, n < Length(modifier)
  PROVE  /\ Visited(n + 1) \in 1..Length(modifier)
         /\ Visited(n + 1) \notin {Visited(k) : k \in 1..n}
         /\ {Visited(k) : k \in 1..n} \subseteq 1..Length(modifier)
         /\ {Visited(k) : k \in 1..n+1} = {Visited(k) : k \in 1..n} \cup {Visited(n + 1)}
<1> DEFINE L == Length(modifier)
           up == modifier \in Upwards
<1>1. \A k : Visited(k) = IF up THEN k ELSE L + 1 - k
  BY DEF Visited
<1> HIDE DEF L, up
<1>2. L \in Nat /\ n < L
  BY DEF L
<1>3. Visited(n + 1) \in 1..L
  BY <1>1, <1>2
<1>4. \A k \in 1..n : Visited(k) \in 1..L /\ Visited(k) # Visited(n + 1)
  BY <1>1, <1>2
<1>5. 1..n+1 = (1..n) \cup {n + 1}
  BY <1>2
<1> QED BY <1>3, <1>4, <1>5 DEF L

(* The scan runs over the rows or the columns of the problem.              *)
LEMMA LengthReach ==
  ASSUME NEW m \in ByRow \cup ByColumn, WellFormed(problem)
  PROVE  /\ Length(m) \in Nat /\ 1..Length(m) = Reach(m, problem)
         /\ \A i \in 1..Length(m) : /\ m \in ByRow => i \in Rows(problem)
                                    /\ m \in ByColumn => i \in Columns(problem)
<1>1. ByRow \cap ByColumn = {}
  BY DEF ByRow, ByColumn
<1> QED BY <1>1, ProblemParts DEF Length, Reach

(* The number of what is admissible, and the size of a batch.              *)
LEMMA BatchesNotEmpty ==
  ASSUME NEW m \in ByRow \cup ByColumn, WellFormed(problem), NEW n \in Nat, ~ Refused(m, n)
  PROVE  BatchSize(m, n) \in Nat \ {0}
<1> DEFINE L == Length(m)
           S == {i \in 1..L : IsAdmissible(m, problem, i)}
<1>1. L \in Nat
  BY LengthReach
<1>2. Count(m) \in Nat
  <2>1. IsFiniteSet(1..L)
    BY <1>1, FS_Interval
  <2>2. S \subseteq 1..L
    OBVIOUS
  <2> HIDE DEF S
  <2>3. IsFiniteSet(S)
    BY <2>1, <2>2, FS_Subset
  <2>4. Cardinality(S) \in Nat
    BY <2>3, FS_CardinalityType
  <2> QED BY <2>4 DEF Count, S
<1>3. CASE n = 0
  BY <1>3 DEF BatchSize
<1>4. CASE n > 0
  <2>1. Count(m) # 0
    BY <1>4 DEF Refused
  <2> DEFINE a == n - 1 + Count(m)
  <2>2. a \in Nat /\ a >= n
    BY <1>2, <1>4, <2>1
  <2> HIDE DEF a
  <2>3. a \div n \in Int /\ a % n \in 0..n-1 /\ a = n * (a \div n) + (a % n)
    BY <1>4, <2>2
  <2>4. a \div n > 0
    <3>1. ASSUME a \div n <= 0  PROVE FALSE
      <4> DEFINE d == a \div n
      <4>1. d \in Int /\ d <= 0 /\ a = n * d + (a % n) /\ a % n \in 0..n-1
        BY <2>3, <3>1
      <4> HIDE DEF d
      <4>2. n * d <= 0
        BY <1>4, <4>1
      <4>3. a <= n - 1
        BY <2>2, <4>1, <4>2
      <4> QED BY <2>2, <4>3
    <3> QED BY <2>3, <3>1
  <2>5. BatchSize(m, n) = a \div n
    BY <1>4 DEF BatchSize, a
  <2> QED BY <2>3, <2>4, <2>5
<1> QED BY <1>3, <1>4

(* A problem is a variant of itself.                                       *)
LEMMA OwnVariant ==
  ASSUME NEW m \in ByRow \cup ByColumn, NEW p, WellFormed(p), NEW V
  PROVE  VariantOf(m, p, p, V)
<1>1. p.cols \in [Columns(p) -> ColumnOf] /\ p.rows \in [Rows(p) -> Range(p.rows)]
      /\ p = [cols |-> p.cols, rows |-> p.rows]
  <2>1. p.cols \in Seq(ColumnOf) /\ p.rows \in Seq(Range(p.rows))
        /\ p = [cols |-> p.cols, rows |-> p.rows]
    BY DEF WellFormed
  <2> QED BY <2>1 DEF Columns, Rows
<1>2. p \in [cols : [Columns(p) -> ColumnOf], rows : [Rows(p) -> Range(p.rows)]]
  BY <1>1
<1>3. \A r \in Rows(p) : IsRow(p.rows[r], Len(p.cols)) /\ EquationRight(p.rows[r])
  BY DEF WellFormed
<1> QED BY <1>2, <1>3 DEF VariantOf, IsVariant

(* A variant is well formed and has the same rows and columns.             *)
LEMMA VariantWellFormed ==
  ASSUME NEW p, WellFormed(p), NEW R, NEW C, NEW q, IsVariant(q, p, R, C)
  PROVE  WellFormed(q) /\ Columns(q) = Columns(p) /\ Rows(q) = Rows(p)
         /\ Len(q.cols) = Len(p.cols)
<1>1. /\ Len(p.cols) \in Nat /\ Columns(p) = 1..Len(p.cols)
      /\ Len(p.rows) \in Nat /\ Rows(p) = 1..Len(p.rows)
  BY ProblemParts
<1>2. /\ q = [cols |-> q.cols, rows |-> q.rows]
      /\ q.cols \in [Columns(p) -> ColumnOf] /\ q.rows \in [Rows(p) -> Range(q.rows)]
  BY DEF IsVariant
<1>3. q.cols \in Seq(ColumnOf) /\ q.rows \in Seq(Range(q.rows))
  BY <1>1, <1>2, SeqDef
<1>4. Len(q.cols) = Len(p.cols)
  BY <1>1, <1>2, <1>3
<1>5. Columns(q) = Columns(p) /\ Rows(q) = Rows(p)
  BY <1>2 DEF Columns, Rows
<1>6. \A r \in Rows(p) : IsRow(q.rows[r], Len(p.cols)) /\ EquationRight(q.rows[r])
  BY DEF IsVariant
<1> QED BY <1>2, <1>3, <1>4, <1>5, <1>6 DEF WellFormed

(* The invariant holds at the start.                                       *)
LEMMA Initially == Init => IInv
<1> SUFFICES ASSUME Init  PROVE IInv
  OBVIOUS
<1>1. WellFormed(problem) /\ ReferenceFits(problem, solution)
  BY InstancesAssumption DEF Init, InstancesAssumption
<1>2. modifier \in ByRow \cup ByColumn /\ modifier \in Modifiers
  BY ModifiersAssumption DEF Init, ModifiersAssumption
<1>3. Length(modifier) \in Nat
  BY <1>1, <1>2, LengthReach
<1>4. PositionInv
  <2> DEFINE L == Length(modifier)
  <2>1. L \in Nat
    BY <1>3
  <2>2. PositionInv <=> /\ pc \in {"idle", "scan", "solve", "finish"}
                        /\ modifier \in Modifiers /\ nbatches \in BatchNumbers
                        /\ admissible \in BOOLEAN
                        /\ status \in {"NotAdmissible", "Unsuccesful", "Successful"}
                        /\ position \in 0..L
                        /\ batchsize \in Nat \ {0} /\ batch \in 0..batchsize
                        /\ batch = 0 => batches = NoEdits
                        /\ pc = "idle" => position = 0 /\ batch = 0
                        /\ pc = "scan" => position < L /\ batch < batchsize
                        /\ pc = "finish" => position = L /\ batch = 0
    BY DEF PositionInv
  <2> HIDE DEF L
  <2>3. /\ pc = "idle" /\ modifier \in Modifiers /\ nbatches \in BatchNumbers
        /\ admissible = FALSE /\ status = "NotAdmissible"
        /\ position = 0 /\ batchsize = 1 /\ batch = 0 /\ batches = NoEdits
    BY DEF Init
  <2>4. admissible \in BOOLEAN
    BY <2>3
  <2>5. position \in 0..L /\ batchsize \in Nat \ {0} /\ batch \in 0..batchsize
    BY <2>1, <2>3
  <2> QED BY <2>2, <2>3, <2>4, <2>5, Zenon
<1>5. IdleInv
  BY DEF Init, IdleInv
<1>6. EditsInv
  <2>1. VariantOf(modifier, problem, problem, VisitedSoFar)
    BY <1>1, <1>2, OwnVariant
  <2>2. NoEdits \in EditsOf(modifier, problem, VisitedSoFar) /\ NoEdits.entries = <<>>
    BY NothingEdited
  <2>3. << >> \o << >> = << >>
    OBVIOUS
  <2> QED BY <1>1, <2>1, <2>2, <2>3, NothingDistinct DEF Init, EditsInv
<1> QED BY <1>4, <1>5, <1>6 DEF IInv

-------------------------------------------------------------------------------
(* The invariant, with the length of the scan and the visits named.        *)
PositionOf(L) ==
  /\ pc \in {"idle", "scan", "solve", "finish"}
  /\ modifier \in Modifiers /\ nbatches \in BatchNumbers
  /\ admissible \in BOOLEAN
  /\ status \in {"NotAdmissible", "Unsuccesful", "Successful"}
  /\ position \in 0..L
  /\ batchsize \in Nat \ {0} /\ batch \in 0..batchsize
  /\ batch = 0 => batches = NoEdits
  /\ pc = "idle" => position = 0 /\ batch = 0
  /\ pc = "scan" => position < L /\ batch < batchsize
  /\ pc = "finish" => position = L /\ batch = 0

EditsFor(V) ==
  /\ WellFormed(problem) /\ ReferenceFits(problem, solution)
  /\ VariantOf(modifier, copy, problem, V)
  /\ VariantOf(modifier, confirmed, problem, V)
  /\ applied \in EditsOf(modifier, problem, V)
  /\ batches \in EditsOf(modifier, problem, V)
  /\ Distinct(applied.entries \o batches.entries)

(* The named forms are the parts of the invariant.                         *)
LEMMA NamedParts ==
  /\ PositionInv <=> PositionOf(Length(modifier))
  /\ EditsInv <=> EditsFor(VisitedSoFar)
BY DEF PositionInv, PositionOf, EditsInv, EditsFor

(* The length is a number, and the modifier is one of those known.         *)
LEMMA Running ==
  ASSUME IInv
  PROVE  /\ modifier \in ByRow \cup ByColumn /\ Length(modifier) \in Nat
         /\ WellFormed(problem) /\ ReferenceFits(problem, solution)
         /\ PositionOf(Length(modifier)) /\ IdleInv /\ EditsFor(VisitedSoFar)
<1>1. PositionOf(Length(modifier)) /\ IdleInv /\ EditsFor(VisitedSoFar)
  BY NamedParts DEF IInv
<1>2. WellFormed(problem) /\ ReferenceFits(problem, solution)
  BY <1>1 DEF EditsFor
<1>3. modifier \in ByRow \cup ByColumn
  BY <1>1, ModifiersAssumption DEF PositionOf, ModifiersAssumption
<1> QED BY <1>1, <1>2, <1>3, LengthReach

(* As long as the modifier and the problem stay, so do the visits.         *)
LEMMA SameVisits ==
  ASSUME UNCHANGED <<modifier, problem>>
  PROVE  /\ Length(modifier)' = Length(modifier)
         /\ VisitedSoFar' = {Visited(k) : k \in 1..position'}
BY DEF Length, VisitedSoFar, Visited

(* Steps that leave the edits alone.                                       *)
LEMMA Unmoved ==
  ASSUME IInv, UNCHANGED <<modifier, solution, problem, copy, position, applied, batches, confirmed>>
  PROVE  EditsInv'
<1>1. VisitedSoFar' = VisitedSoFar
  BY SameVisits DEF VisitedSoFar
<1>2. EditsFor(VisitedSoFar)
  BY Running
<1>3. EditsInv' <=> EditsFor(VisitedSoFar)'
  BY DEF EditsInv, EditsFor
<1> QED BY <1>1, <1>2, <1>3 DEF EditsFor

(* A modifier that returns at once keeps the invariant.                    *)
LEMMA SkipKeeps == IInv /\ Skip => IInv'
<1> SUFFICES ASSUME IInv, Skip  PROVE IInv'
  OBVIOUS
<1>1. /\ UNCHANGED <<pc, modifier, nbatches, solution, problem, copy, position,
                     batchsize, batch, applied, batches, admissible, confirmed>>
      /\ status' = "NotAdmissible"
  BY DEF Skip
<1>2. EditsInv'
  BY <1>1, Unmoved
<1>3. IdleInv'
  BY <1>1 DEF IInv, IdleInv
<1>4. PositionInv'
  <2> DEFINE L == Length(modifier)
  <2>1. L' = L
    BY <1>1, SameVisits
  <2>2. PositionOf(L)
    BY Running
  <2>3. PositionInv' <=> PositionOf(L)'
    BY DEF PositionInv, PositionOf
  <2> HIDE DEF L
  <2>4. /\ admissible' \in BOOLEAN
        /\ status' \in {"NotAdmissible", "Unsuccesful", "Successful"}
    BY <1>1, <2>2 DEF PositionOf
  <2> QED BY <1>1, <2>1, <2>2, <2>3, <2>4 DEF PositionOf
<1> QED BY <1>2, <1>3, <1>4 DEF IInv

(* So does doing nothing.                                                  *)
LEMMA StutterKeeps == IInv /\ UNCHANGED vars => IInv'
<1> SUFFICES ASSUME IInv, UNCHANGED vars  PROVE IInv'
  OBVIOUS
<1>1. UNCHANGED <<pc, modifier, nbatches, solution, problem, copy, position,
                  batchsize, batch, applied, batches, admissible, confirmed, status>>
  BY DEF vars
<1>2. EditsInv'
  BY <1>1, Unmoved
<1>3. IdleInv'
  BY <1>1 DEF IInv, IdleInv
<1>4. PositionInv'
  <2> DEFINE L == Length(modifier)
  <2>1. L' = L
    BY <1>1, SameVisits
  <2>2. PositionOf(L)
    BY Running
  <2>3. PositionInv' <=> PositionOf(L)'
    BY DEF PositionInv, PositionOf
  <2> HIDE DEF L
  <2> QED BY <1>1, <2>1, <2>2, <2>3 DEF PositionOf
<1> QED BY <1>2, <1>3, <1>4 DEF IInv

(* A modifier starts with nothing visited.                                 *)
LEMMA StartKeeps == IInv /\ Start => IInv'
<1> SUFFICES ASSUME IInv, Start  PROVE IInv'
  OBVIOUS
<1> USE Running
<1>1. PICK m \in Modifiers, n \in BatchNumbers :
        /\ ~ Refused(m, n)
        /\ modifier' = m /\ nbatches' = n /\ batchsize' = BatchSize(m, n)
        /\ pc' = IF Length(m) = 0 THEN "finish" ELSE "scan"
  BY DEF Start
<1>2. /\ pc = "idle"
      /\ UNCHANGED <<solution, problem, copy, position, batch, applied, batches,
                     admissible, status, confirmed>>
  BY DEF Start
<1>3. /\ position = 0 /\ batch = 0 /\ batches = NoEdits
      /\ copy = problem /\ confirmed = problem /\ applied = NoEdits
  BY <1>2 DEF PositionOf, IdleInv
<1>4. m \in ByRow \cup ByColumn /\ n \in Nat
  BY ModifiersAssumption DEF ModifiersAssumption
<1> DEFINE L == Length(m)
<1>5. L \in Nat
  BY <1>4, LengthReach
<1>6. BatchSize(m, n) \in Nat \ {0}
  BY <1>1, <1>4, BatchesNotEmpty
<1>7. Length(modifier)' = L' /\ L' = L
  BY <1>1, <1>2 DEF Length
<1>8. PositionInv'
  <2>1. PositionInv' <=> PositionOf(Length(modifier))'
    BY DEF PositionInv, PositionOf
  <2> HIDE DEF L
  <2>2. /\ pc' = IF L = 0 THEN "finish" ELSE "scan"
        /\ modifier' = m /\ nbatches' = n /\ batchsize' = BatchSize(m, n)
    BY <1>1 DEF L
  <2>3. pc' \in {"scan", "finish"} /\ position' \in 0..L /\ batchsize' \in Nat \ {0}
        /\ batch' \in 0..batchsize' /\ batch' < batchsize' /\ position' = 0 /\ batch' = 0
        /\ (pc' = "scan" => position' < L) /\ (pc' = "finish" => position' = L)
    BY <1>2, <1>3, <1>5, <1>6, <2>2
  <2>4. /\ modifier' \in Modifiers /\ nbatches' \in BatchNumbers /\ batches' = NoEdits
    BY <1>2, <1>3, <2>2
  <2>5. /\ admissible' \in BOOLEAN
        /\ status' \in {"NotAdmissible", "Unsuccesful", "Successful"}
    BY <1>2 DEF PositionOf
  <2>6. PositionOf(L)'
    BY <1>7, <2>3, <2>4, <2>5 DEF PositionOf
  <2> QED BY <1>7, <2>1, <2>6 DEF PositionOf
<1>9. IdleInv'
  BY <1>1 DEF IdleInv
<1>10. EditsInv'
  <2> DEFINE V == VisitedSoFar
  <2>1. VariantOf(m, problem, problem, V')
    BY <1>4, OwnVariant
  <2>2. NoEdits \in EditsOf(m, problem, V') /\ NoEdits.entries = <<>>
    BY NothingEdited
  <2>3. << >> \o << >> = << >>
    OBVIOUS
  <2>4. EditsInv' <=> EditsFor(V)'
    BY DEF EditsInv, EditsFor
  <2> HIDE DEF V
  <2> QED BY <1>1, <1>2, <1>3, <2>1, <2>2, <2>3, <2>4, NothingDistinct DEF EditsFor
<1> QED BY <1>8, <1>9, <1>10 DEF IInv

-------------------------------------------------------------------------------
(* What was visited are rows or columns of the problem.                    *)
LEMMA VisitsReach ==
  ASSUME NEW m, NEW p, NEW V \in SUBSET Reach(m, p)
  PROVE  RowsWith(m, p, V) \in SUBSET Rows(p) /\ ColumnsWith(m, p, V) \in SUBSET Columns(p)
BY DEF Reach, RowsWith, ColumnsWith

(* The visits so far are in the range of the scan.                         *)
LEMMA VisitedReach ==
  ASSUME IInv
  PROVE  VisitedSoFar \in SUBSET Reach(modifier, problem)
<1> USE Running
<1> DEFINE L == Length(modifier)
           up == modifier \in Upwards
<1>1. \A k : Visited(k) = IF up THEN k ELSE L + 1 - k
  BY DEF Visited
<1>2. L \in Nat /\ position \in 0..L /\ 1..L = Reach(modifier, problem)
  BY LengthReach DEF PositionOf
<1>3. VisitedSoFar = {Visited(k) : k \in 1..position}
  BY DEF VisitedSoFar
<1> HIDE DEF L, up
<1>4. \A k \in 1..position : Visited(k) \in 1..L
  BY <1>1, <1>2
<1> QED BY <1>2, <1>3, <1>4

(* After a solve the scan goes on with no batch pending.                   *)
LEMMA ResumeKeeps ==
  ASSUME IInv, Resume
  PROVE  /\ PositionInv' /\ IdleInv' /\ VisitedSoFar' = VisitedSoFar
         /\ batches' = NoEdits
<1> USE Running
<1> DEFINE L == Length(modifier)
<1>1. /\ pc = "solve" /\ pc' = IF position = L THEN "finish" ELSE "scan"
      /\ batch' = 0 /\ batches' = NoEdits
      /\ UNCHANGED <<modifier, nbatches, solution, problem, position, batchsize,
                     admissible, status>>
  BY DEF Resume
<1>2. L' = L /\ VisitedSoFar' = VisitedSoFar
  BY <1>1, SameVisits DEF VisitedSoFar
<1>3. L \in Nat /\ PositionOf(L)
  OBVIOUS
<1>4. PositionInv' <=> PositionOf(L)'
  BY DEF PositionInv, PositionOf
<1> HIDE DEF L
<1>5. PositionOf(L)'
  <2>1. /\ modifier' \in Modifiers /\ nbatches' \in BatchNumbers
        /\ batches' = NoEdits
    BY <1>1, <1>3 DEF PositionOf
  <2>2. /\ admissible' \in BOOLEAN
        /\ status' \in {"NotAdmissible", "Unsuccesful", "Successful"}
    BY <1>1, <1>3 DEF PositionOf
  <2>3. /\ pc' \in {"scan", "finish"} /\ position' \in 0..L
        /\ batchsize' \in Nat \ {0} /\ batch' \in 0..batchsize' /\ batch' = 0
        /\ batch' < batchsize'
        /\ (pc' = "scan" => position' < L) /\ (pc' = "finish" => position' = L)
    BY <1>1, <1>3 DEF PositionOf
  <2> QED BY <1>2, <2>1, <2>2, <2>3 DEF PositionOf
<1>6. IdleInv'
  BY <1>1 DEF IdleInv
<1> QED BY <1>1, <1>2, <1>4, <1>5, <1>6

(* A rebuilt copy is a variant that the accepted edits make.               *)
LEMMA RejectKeeps == IInv /\ Reject => IInv'
<1> SUFFICES ASSUME IInv, Reject  PROVE IInv'
  OBVIOUS
<1> USE Running
<1>1. /\ Resume /\ copy' = Replay(problem, applied) /\ UNCHANGED <<applied, confirmed>>
      /\ UNCHANGED <<modifier, problem, solution>>
  BY DEF Reject, Rebuilt, Resume
<1>2. /\ PositionInv' /\ IdleInv' /\ VisitedSoFar' = VisitedSoFar
      /\ batches' = NoEdits
  BY <1>1, ResumeKeeps
<1> DEFINE V == VisitedSoFar
           R == RowsWith(modifier, problem, V)
           C == ColumnsWith(modifier, problem, V)
           E == PlacesWith(modifier, problem, V)
<1>3. EditsFor(V)
  OBVIOUS
<1>4. VariantOf(modifier, Replay(problem, applied), problem, V)
  <2>1. IsVariant(problem, problem, R, C)
    BY OwnVariant DEF VariantOf
  <2>2. R \in SUBSET Rows(problem) /\ C \in SUBSET Columns(problem)
    BY VisitedReach, VisitsReach
  <2>3. applied \in EditsIn(problem, R, C, E)
    BY <1>3 DEF EditsFor, EditsOf
  <2> HIDE DEF R, C, E
  <2>4. IsVariant(Replay(problem, applied), problem, R, C)
    BY <2>1, <2>2, <2>3, ReplayKeeps
  <2> QED BY <2>4 DEF VariantOf, R, C
<1>5. Distinct(applied.entries \o NoEdits.entries)
  <2> DEFINE T == Entries(problem, R, E)
  <2>1. applied.entries \in Seq(T) /\ batches.entries \in Seq(T)
    BY <1>3, EntriesIn DEF EditsFor
  <2>2. NoEdits.entries = << >>
    BY NothingEdited
  <2>3. Distinct(applied.entries \o batches.entries)
    BY <1>3 DEF EditsFor
  <2> HIDE DEF T
  <2>4. applied.entries \o << >> = applied.entries
    BY <2>1
  <2> QED BY <2>1, <2>2, <2>3, <2>4, DistinctFirst
<1>6. NoEdits \in EditsOf(modifier, problem, V)
  BY NothingEdited
<1>7. EditsInv' <=> EditsFor(V)'
  BY DEF EditsInv, EditsFor
<1> HIDE DEF V, R, C, E
<1>8. V' = V
  BY <1>2 DEF V
<1> QED BY <1>1, <1>2, <1>3, <1>4, <1>5, <1>6, <1>7, <1>8 DEF IInv, EditsFor

(* Accepted edits join those of before.                                    *)
LEMMA AcceptKeeps == IInv /\ Accept => IInv'
<1> SUFFICES ASSUME IInv, Accept  PROVE IInv'
  OBVIOUS
<1> USE Running
<1>1. /\ Resume /\ applied' = Join(applied, batches) /\ confirmed' = copy
      /\ UNCHANGED <<modifier, problem, solution, copy>>
  BY DEF Accept, Resume
<1>2. /\ PositionInv' /\ IdleInv' /\ VisitedSoFar' = VisitedSoFar
      /\ batches' = NoEdits
  BY <1>1, ResumeKeeps
<1> DEFINE V == VisitedSoFar
           R == RowsWith(modifier, problem, V)
           E == PlacesWith(modifier, problem, V)
           both == Join(applied, batches)
<1>3. EditsFor(V)
  OBVIOUS
<1>4. both \in EditsOf(modifier, problem, V)
  BY <1>3, JoinOf DEF EditsFor
<1>5. Distinct(both.entries \o NoEdits.entries)
  <2> DEFINE T == Entries(problem, R, E)
  <2>1. both.entries \in Seq(T)
    <3> HIDE DEF both
    <3> QED BY <1>4, EntriesIn
  <2>2. NoEdits.entries = << >>
    BY NothingEdited
  <2>3. both.entries = applied.entries \o batches.entries
    <3>1. applied \in EditsOf(modifier, problem, V)
      BY <1>3 DEF EditsFor
    <3>2. "entries" \in DOMAIN applied
      BY <3>1 DEF EditsOf, EditsIn
    <3> HIDE DEF V, R, E, T
    <3> QED BY <3>2 DEF Join
  <2>4. Distinct(applied.entries \o batches.entries)
    BY <1>3 DEF EditsFor
  <2> HIDE DEF T, both
  <2>5. both.entries \o << >> = both.entries
    BY <2>1
  <2> QED BY <2>2, <2>3, <2>4, <2>5
<1>6. NoEdits \in EditsOf(modifier, problem, V)
  BY NothingEdited
<1>7. EditsInv' <=> EditsFor(V)'
  BY DEF EditsInv, EditsFor
<1>8. applied' = both
  BY <1>1
<1> HIDE DEF V, R, E, both
<1>9. V' = V
  BY <1>2 DEF V
<1> QED BY <1>1, <1>2, <1>3, <1>4, <1>5, <1>6, <1>7, <1>8, <1>9 DEF IInv, EditsFor

(* The problem handed back is well formed, with nothing visited.           *)
LEMMA FinishKeeps == IInv /\ Finish => IInv'
<1> SUFFICES ASSUME IInv, Finish  PROVE IInv'
  OBVIOUS
<1> USE Running
<1>1. /\ pc = "finish" /\ pc' = "idle"
      /\ problem' = IF Succeeds THEN copy ELSE problem
      /\ copy' = problem' /\ confirmed' = problem'
      /\ position' = 0 /\ applied' = NoEdits /\ admissible' = FALSE
      /\ UNCHANGED <<modifier, nbatches, solution, batchsize, batch, batches>>
  BY DEF Finish
<1>2. status' \in {"NotAdmissible", "Unsuccesful", "Successful"}
  BY DEF Finish
<1>3. batch = 0 /\ batches = NoEdits /\ EditsFor(VisitedSoFar)
  BY <1>1 DEF PositionOf
<1>4. WellFormed(problem') /\ ReferenceFits(problem', solution)
  <2>1. VariantOf(modifier, copy, problem, VisitedSoFar)
    BY <1>3 DEF EditsFor
  <2>2. WellFormed(copy) /\ Columns(copy) = Columns(problem)
    BY <2>1, VariantWellFormed DEF VariantOf
  <2>3. ReferenceFits(copy, solution)
    BY <2>2 DEF ReferenceFits
  <2> QED BY <1>1, <2>2, <2>3
<1>5. Length(modifier)' \in Nat
  BY <1>1, <1>4, ProblemParts DEF Length
<1>6. PositionInv'
  <2> DEFINE L == Length(modifier)
  <2>1. PositionInv' <=> PositionOf(L)'
    BY DEF PositionInv, PositionOf
  <2>2. L' \in Nat
    BY <1>5
  <2> HIDE DEF L
  <2>3. /\ modifier' \in Modifiers /\ nbatches' \in BatchNumbers /\ batches' = NoEdits
        /\ batchsize \in Nat \ {0}
    BY <1>1, <1>3 DEF PositionOf
  <2>4. /\ pc' = "idle" /\ position' = 0 /\ batch' = 0 /\ position' \in 0..L'
        /\ batchsize' \in Nat \ {0} /\ batch' \in 0..batchsize'
    BY <1>1, <1>3, <2>2, <2>3
  <2>5. admissible' \in BOOLEAN
    BY <1>1
  <2>6. PositionOf(L)'
    BY <1>2, <2>3, <2>4, <2>5 DEF PositionOf
  <2> QED BY <2>1, <2>6
<1>7. IdleInv'
  BY <1>1 DEF IdleInv
<1>8. EditsInv'
  <2> DEFINE V == VisitedSoFar
  <2>1. VariantOf(modifier, problem', problem', V')
    BY <1>4, OwnVariant
  <2>2. NoEdits \in EditsOf(modifier, problem', V') /\ NoEdits.entries = <<>>
    BY NothingEdited
  <2>3. << >> \o << >> = << >>
    OBVIOUS
  <2>4. EditsInv' <=> EditsFor(V)'
    BY DEF EditsInv, EditsFor
  <2> HIDE DEF V
  <2>5. /\ copy' = problem' /\ confirmed' = problem' /\ applied' = NoEdits
        /\ batches' = NoEdits /\ modifier' = modifier /\ solution' = solution
    BY <1>1, <1>3
  <2> HIDE <1>1
  <2> QED BY <1>4, <2>1, <2>2, <2>3, <2>4, <2>5, NothingDistinct DEF EditsFor
<1> QED BY <1>6, <1>7, <1>8 DEF IInv

-------------------------------------------------------------------------------
(* A visit: the edits it makes and what they make of the copy.             *)
LEMMA WithoutEntries ==
  ASSUME NEW m, NEW p, NEW V, NEW e \in EditsOf(m, p, V)
  PROVE  [e EXCEPT !.entries = <<>>] \in EditsOf(m, p, V)
<1> DEFINE f == [e EXCEPT !.entries = <<>>]
           R == RowsWith(m, p, V)
           C == ColumnsWith(m, p, V)
           E == PlacesWith(m, p, V)
<1>1. e \in EditsIn(p, R, C, E) /\ \A k \in DOMAIN e \ Lists(m) : e[k] = <<>>
  BY DEF EditsOf
<1>2. << >> \in Seq({t \in R \X E \X Steps : t[2] \in DOMAIN p.rows[t[1]].coef})
  OBVIOUS
<1> HIDE DEF R, C, E
<1>3. f \in EditsIn(p, R, C, E)
  BY <1>1, <1>2 DEF EditsIn
<1>4. DOMAIN f = DOMAIN e /\ \A k \in DOMAIN e : f[k] = e[k] \/ f[k] = <<>>
  OBVIOUS
<1> HIDE DEF f
<1>5. f \in EditsOf(m, p, V)
  BY <1>1, <1>3, <1>4 DEF EditsOf, R, C, E
<1> QED BY <1>5 DEF f

(* Edits of visits lead from a variant for them to another.                *)
LEMMA VariantAfter ==
  ASSUME NEW m \in ByRow \cup ByColumn, NEW p, NEW W \in SUBSET Reach(m, p),
         NEW q, VariantOf(m, q, p, W), NEW e \in EditsOf(m, p, W)
  PROVE  VariantOf(m, Replay(q, e), p, W) /\ VariantOf(m, ApplyEntries(q, e.entries), p, W)
<1> DEFINE R == RowsWith(m, p, W)
           C == ColumnsWith(m, p, W)
           E == PlacesWith(m, p, W)
<1>1. R \in SUBSET Rows(p) /\ C \in SUBSET Columns(p)
  BY VisitsReach
<1>2. e \in EditsIn(p, R, C, E) /\ IsVariant(q, p, R, C)
  BY DEF EditsOf, VariantOf
<1> HIDE DEF R, C, E
<1>3. IsVariant(Replay(q, e), p, R, C) /\ IsVariant(ApplyEntries(q, e.entries), p, R, C)
  BY <1>1, <1>2, ReplayKeeps
<1> QED BY <1>3 DEF VariantOf, R, C

(* The edits of the next visit, and all of the batch.                      *)
LEMMA ScanTyped ==
  ASSUME IInv, position < Length(modifier), NEW e,
         LET i == Visited(position + 1)
         IN  e = Edits(modifier, copy, i) \/ e = NoEdits
  PROVE  LET W   == VisitedSoFar \cup {Visited(position + 1)}
             all == Join(batches, e)
         IN  /\ W \in SUBSET Reach(modifier, problem)
             /\ e \in EditsOf(modifier, problem, W)
             /\ all \in EditsOf(modifier, problem, W)
             /\ applied \in EditsOf(modifier, problem, W)
             /\ Distinct(applied.entries \o all.entries)
<1> DEFINE m == modifier
           V == VisitedSoFar
           i == Visited(position + 1)
           W == V \cup {i}
<1>1. /\ m \in ByRow \cup ByColumn /\ Length(m) \in Nat /\ WellFormed(problem)
      /\ ReferenceFits(problem, solution) /\ EditsFor(V) /\ position \in Nat
  BY Running DEF PositionOf
<1>2. i \in 1..Length(m) /\ i \notin V
  BY <1>1, VisitsDiffer DEF VisitedSoFar
<1>3. W \in SUBSET Reach(m, problem)
  <2>1. V \in SUBSET Reach(m, problem)
    BY VisitedReach
  <2>2. i \in Reach(m, problem)
    BY <1>1, <1>2, LengthReach
  <2> QED BY <2>1, <2>2
<1>4. e \in EditsOf(m, problem, {i}) /\ Distinct(e.entries)
  <2>1. CASE e = NoEdits
    BY <2>1, NothingEdited, NothingDistinct
  <2>2. CASE e = Edits(m, copy, i)
    <3>1. (m \in ByRow => i \in Rows(problem)) /\ (m \in ByColumn => i \in Columns(problem))
      BY <1>1, <1>2, LengthReach
    <3>2. Fits(problem)
      BY <1>1 DEF Fits
    <3>3. IsVariant(copy, problem, RowsWith(m, problem, V), ColumnsWith(m, problem, V))
      BY <1>1 DEF EditsFor, VariantOf
    <3> HIDE DEF m, i, V
    <3> QED BY <1>1, <2>2, <3>1, <3>2, <3>3, VisitTyped
  <2> QED BY <2>1, <2>2
<1>5. /\ applied \in EditsOf(m, problem, V) /\ batches \in EditsOf(m, problem, V)
      /\ Distinct(applied.entries \o batches.entries)
  BY <1>1 DEF EditsFor
<1>6. V \subseteq W /\ {i} \subseteq W
  OBVIOUS
<1> HIDE DEF m, i, V, W
<1>7. /\ applied \in EditsOf(m, problem, W) /\ batches \in EditsOf(m, problem, W)
      /\ e \in EditsOf(m, problem, W)
  BY <1>1, <1>4, <1>5, <1>6, MoreEdits
<1>8. Join(batches, e) \in EditsOf(m, problem, W)
  BY <1>7, JoinOf
<1>9. Join(batches, e).entries = batches.entries \o e.entries
  <2>1. "entries" \in DOMAIN batches
    BY <1>7 DEF EditsOf, EditsIn
  <2> QED BY <2>1 DEF Join
<1>10. Distinct(applied.entries \o (batches.entries \o e.entries))
  BY <1>1, <1>2, <1>4, <1>5, EntriesApart
<1> QED BY <1>3, <1>7, <1>8, <1>9, <1>10 DEF m, i, V, W

(* A visit keeps the invariant, whether it finds something or not.         *)
LEMMA ScanKeeps == IInv /\ Scan => IInv'
<1> SUFFICES ASSUME IInv, Scan  PROVE IInv'
  OBVIOUS
<1> DEFINE L    == Length(modifier)
           V    == VisitedSoFar
           i    == Visited(position + 1)
           W    == V \cup {i}
           hit  == IsAdmissible(modifier, copy, i)
           e    == IF hit THEN Edits(modifier, copy, i) ELSE NoEdits
           f    == [e EXCEPT !.entries = <<>>]
           all  == Join(batches, e)
           size == batch + (IF hit THEN 1 ELSE 0)
           last == position + 1 = L
           due  == size >= 1 /\ (size >= batchsize \/ last)
           seen == Replay(copy, f)
<1>1. /\ pc = "scan"
      /\ copy' = IF due THEN ApplyEntries(seen, all.entries) ELSE seen
      /\ batches' = all /\ batch' = size
      /\ admissible' = (admissible \/ hit)
      /\ pc' = IF due THEN "solve" ELSE IF last THEN "finish" ELSE "scan"
      /\ position' = position + 1
      /\ UNCHANGED <<modifier, nbatches, solution, problem, batchsize, applied,
                     status, confirmed>>
  BY DEF Scan
<1>2. /\ modifier \in ByRow \cup ByColumn /\ L \in Nat
      /\ PositionOf(L) /\ EditsFor(V)
  BY Running
<1>3. position < L /\ position \in Nat
  BY <1>1, <1>2 DEF PositionOf
<1>4. L' = L /\ VisitedSoFar' = {Visited(k) : k \in 1..position + 1}
  BY <1>1, SameVisits
<1>5. VisitedSoFar' = W
  BY <1>2, <1>3, <1>4, VisitsDiffer DEF VisitedSoFar
<1>6. e = Edits(modifier, copy, i) \/ e = NoEdits
  OBVIOUS
<1>7. /\ W \in SUBSET Reach(modifier, problem)
      /\ e \in EditsOf(modifier, problem, W)
      /\ all \in EditsOf(modifier, problem, W)
      /\ applied \in EditsOf(modifier, problem, W)
      /\ Distinct(applied.entries \o all.entries)
  <2> HIDE DEF e
  <2> QED BY <1>3, <1>6, ScanTyped
<1>8. ~ hit => e = NoEdits
  <2> HIDE DEF hit
  <2> QED OBVIOUS
<1>9. VariantOf(modifier, copy', problem, W)
  <2>1. VariantOf(modifier, copy, problem, W)
    <3>1. VariantOf(modifier, copy, problem, V) /\ V \subseteq W
      BY <1>2 DEF EditsFor
    <3> HIDE DEF V, W
    <3> QED BY <3>1, MoreVariants
  <2> HIDE DEF W, V, e, all
  <2>2. f \in EditsOf(modifier, problem, W)
    BY <1>7, WithoutEntries
  <2> HIDE DEF f
  <2>3. VariantOf(modifier, seen, problem, W)
    BY <1>2, <1>7, <2>1, <2>2, VariantAfter
  <2> HIDE DEF seen
  <2>4. VariantOf(modifier, ApplyEntries(seen, all.entries), problem, W)
    BY <1>2, <1>7, <2>3, VariantAfter
  <2> QED BY <1>1, <2>3, <2>4
<1>10. VariantOf(modifier, confirmed, problem, W)
  <2>1. VariantOf(modifier, confirmed, problem, V) /\ V \subseteq W
    BY <1>2 DEF EditsFor
  <2> HIDE DEF V, W
  <2> QED BY <2>1, MoreVariants
<1>11. EditsInv'
  <2>1. EditsInv' <=> EditsFor(VisitedSoFar)'
    BY DEF EditsInv, EditsFor
  <2>2. WellFormed(problem) /\ ReferenceFits(problem, solution)
    BY <1>2 DEF EditsFor
  <2> HIDE DEF W, V, all
  <2> QED BY <1>1, <1>5, <1>7, <1>9, <1>10, <2>1, <2>2 DEF EditsFor
<1>12. IdleInv'
  BY <1>1 DEF IdleInv
<1>13. PositionInv'
  <2>1. PositionInv' <=> PositionOf(L)'
    BY DEF PositionInv, PositionOf
  <2>2. ASSUME batch = 0, ~ hit  PROVE all = NoEdits
    <3>1. batches = NoEdits /\ e = NoEdits
      BY <1>2, <2>2 DEF PositionOf
    <3> QED BY <3>1, NothingEdited
  <2> HIDE DEF L, hit, all
  <2>3. /\ modifier' \in Modifiers /\ nbatches' \in BatchNumbers
        /\ status' \in {"NotAdmissible", "Unsuccesful", "Successful"}
    BY <1>1, <1>2 DEF PositionOf
  <2>4. admissible' \in BOOLEAN
    <3>1. admissible' = (admissible \/ hit)
      BY <1>1
    <3> QED BY <3>1
  <2>5. batch \in 0..batchsize /\ batchsize \in Nat \ {0} /\ batch < batchsize
    BY <1>1, <1>2 DEF PositionOf
  <2>6. size \in 0..batchsize /\ (size = 0 => batch = 0 /\ ~ hit)
    BY <1>8, <2>5
  <2> HIDE DEF size
  <2>7. /\ position' \in 0..L /\ batchsize' \in Nat \ {0} /\ batch' \in 0..batchsize'
    BY <1>1, <1>2, <1>3, <2>5, <2>6
  <2>8. batch' = 0 => batches' = NoEdits
    BY <1>1, <2>2, <2>6
  <2>9. /\ pc' \in {"scan", "solve", "finish"}
        /\ pc' = "scan" => position' < L /\ batch' < batchsize'
        /\ pc' = "finish" => position' = L /\ batch' = 0
    BY <1>1, <1>2, <1>3, <2>5, <2>6
  <2> QED BY <1>4, <2>1, <2>3, <2>4, <2>7, <2>8, <2>9 DEF PositionOf
<1> QED BY <1>11, <1>12, <1>13 DEF IInv

(***************************************************************************)
(* The invariant holds of every run of the modifiers.                      *)
(***************************************************************************)
THEOREM Invariant == Spec => []IInv
<1>1. IInv /\ [Next]_vars => IInv'
  BY SkipKeeps, StartKeeps, ScanKeeps, RejectKeeps, AcceptKeeps, FinishKeeps, StutterKeeps
     DEF Next
<1> QED BY <1>1, Initially, PTL DEF Spec

-------------------------------------------------------------------------------
(* A variant of a well formed problem has the right types and flags.       *)
LEMMA VariantIsProblem ==
  ASSUME NEW p, WellFormed(p), NEW R, NEW C, NEW q, IsVariant(q, p, R, C)
  PROVE  IsProblem(q) /\ \A r \in Rows(q) : EquationRight(q.rows[r])
<1>1. /\ WellFormed(q) /\ Columns(q) = Columns(p) /\ Rows(q) = Rows(p)
      /\ Len(q.cols) = Len(p.cols)
  BY VariantWellFormed
<1>2. /\ Len(p.cols) \in Nat /\ Columns(p) = 1..Len(p.cols)
  BY ProblemParts
<1>3. ASSUME NEW c \in Columns(q)
      PROVE  /\ q.cols[c].flags \subseteq ColFlag
             /\ Step(q.cols[c].lb) /\ Step(q.cols[c].ub) /\ Step(q.cols[c].obj)
  <2>1. q.cols[c] \in ColumnOf
    BY <1>1, <1>3 DEF IsVariant
  <2> QED BY <2>1 DEF ColumnOf, Steps
<1>4. ASSUME NEW r \in Rows(q)
      PROVE  /\ q.rows[r].flags \subseteq RowFlag
             /\ q.rows[r].lhs \in Int /\ q.rows[r].rhs \in Int
             /\ DOMAIN q.rows[r].coef \subseteq Columns(q)
             /\ \A c \in DOMAIN q.rows[r].coef : Step(q.rows[r].coef[c])
  <2>1. IsRow(q.rows[r], Len(p.cols))
    BY <1>1, <1>4 DEF IsVariant
  <2>2. PICK D \in SUBSET (1..Len(p.cols)) :
          q.rows[r] \in [lhs : Int, rhs : Int, flags : SUBSET RowFlag, coef : [D -> Steps]]
    BY <2>1 DEF IsRow
  <2>3. q.rows[r].coef \in [D -> Steps] /\ D \subseteq Columns(q)
    BY <1>1, <1>2, <2>2
  <2>4. \A c \in DOMAIN q.rows[r].coef : Step(q.rows[r].coef[c])
    BY <2>3 DEF Steps
  <2> QED BY <2>2, <2>3, <2>4
<1>5. IsProblem(q)
  BY <1>3, <1>4 DEF IsProblem
<1>6. \A r \in Rows(q) : EquationRight(q.rows[r])
  BY <1>1 DEF WellFormed
<1> QED BY <1>5, <1>6

(***************************************************************************)
(* Whatever the visits, the rebuilds and the delayed changes of            *)
(* coefficients do, the problem, the copy and the confirmed problem stay   *)
(* in the matrix, no coefficient is changed twice or outside of it, and    *)
(* the equation flags are right (SparseStorage.hpp, MpsWriter.hpp).        *)
(***************************************************************************)
THEOREM CopyRemainsConsistent == Spec => []ProblemsConsistent
<1>1. IInv => ProblemsConsistent
  <2> SUFFICES ASSUME IInv  PROVE ProblemsConsistent
    OBVIOUS
  <2> DEFINE m == modifier
             L == Length(modifier)
             V == VisitedSoFar
             R == RowsWith(m, problem, V)
             C == ColumnsWith(m, problem, V)
             T == Entries(problem, R, PlacesWith(m, problem, V))
  <2>1. /\ m \in ByRow \cup ByColumn /\ WellFormed(problem)
        /\ PositionOf(L) /\ EditsFor(V)
    BY Running
  <2>2. IsVariant(copy, problem, R, C) /\ IsVariant(confirmed, problem, R, C)
    BY <2>1 DEF EditsFor, VariantOf
  <2>3. IsVariant(problem, problem, R, C)
    BY <2>1, OwnVariant DEF VariantOf
  <2>4. applied.entries \in Seq(T) /\ batches.entries \in Seq(T)
        /\ Distinct(applied.entries \o batches.entries)
    BY <2>1, EntriesIn DEF EditsFor
  <2>5. \A t \in T : t[2] \in DOMAIN problem.rows[t[1]].coef
    BY DEF Entries
  <2> HIDE DEF m, L, V, R, C, T
  <2>6. /\ IsProblem(problem) /\ IsProblem(copy) /\ IsProblem(confirmed)
        /\ \A r \in Rows(problem) : EquationRight(problem.rows[r])
        /\ \A r \in Rows(copy) : EquationRight(copy.rows[r])
    BY <2>1, <2>2, <2>3, VariantIsProblem
  <2>7. TypeOK
    <3>1. /\ pc \in {"idle", "scan", "solve", "finish"}
          /\ modifier \in Modifiers /\ nbatches \in BatchNumbers
          /\ admissible \in BOOLEAN
          /\ status \in {"NotAdmissible", "Unsuccesful", "Successful"}
          /\ position \in 0..L
          /\ batchsize \in Nat \ {0} /\ batch \in 0..batchsize
          /\ pc \in {"idle", "finish"} => batch = 0 /\ batches = NoEdits
      BY <2>1 DEF PositionOf
    <3> QED BY <2>6, <3>1 DEF TypeOK, L
  <2>8. EntriesStored
    <3> DEFINE s == applied.entries \o batches.entries
    <3>1. s \in Seq(T) /\ Distinct(s)
      BY <2>4
    <3> HIDE DEF s
    <3>2. \A j \in DOMAIN s : s[j] \in T
      BY <3>1
    <3>3. \A j \in DOMAIN s : s[j][2] \in DOMAIN problem.rows[s[j][1]].coef
      BY <2>5, <3>2
    <3> QED BY <3>1, <3>3 DEF EntriesStored, Distinct, s
  <2>9. EquationFlag
    BY <2>6 DEF EquationFlag
  <2> QED BY <2>7, <2>8, <2>9 DEF ProblemsConsistent
<1> QED BY <1>1, Invariant, PTL

-------------------------------------------------------------------------------
(* What a modifier finds to do depends on what it visits, and on columns   *)
(* only for rows.                                                          *)
LEMMA SameView ==
  ASSUME NEW m \in ByRow \cup ByColumn, NEW q, NEW p, NEW i,
         m \in ByRow => q.cols = p.cols /\ q.rows[i] = p.rows[i],
         m \in ByColumn => q.cols[i] = p.cols[i]
  PROVE  IsAdmissible(m, q, i) = IsAdmissible(m, p, i)
<1>0. /\ m \in {"constraint", "coefficient", "side", "consround"} =>
           q.cols = p.cols /\ q.rows[i] = p.rows[i]
      /\ m \in {"variable", "fixing", "objective", "varround"} => q.cols[i] = p.cols[i]
      /\ m \in {"constraint", "coefficient", "side", "consround",
                "variable", "fixing", "objective", "varround"}
  BY DEF ByRow, ByColumn
<1>1. CASE m = "constraint"
  BY <1>0, <1>1 DEF IsAdmissible, Redundant
<1>2. CASE m = "side"
  <2>1. IsSideAdmissible(q, i) = IsSideAdmissible(p, i)
    BY <1>0, <1>2 DEF IsSideAdmissible, Redundant
  <2> QED BY <1>2, <2>1 DEF IsAdmissible
<1>3. CASE m = "coefficient"
  <2>1. \A c : Closed(q, c) = Closed(p, c)
    BY <1>0, <1>3 DEF Closed, Fixed
  <2>2. Removable(q, i) = Removable(p, i)
    BY <1>0, <1>3, <2>1 DEF Removable
  <2>3. Redundant(q, i) = Redundant(p, i)
    BY <1>0, <1>3 DEF Redundant
  <2>4. IsCoefficientAdmissible(q, i) = IsCoefficientAdmissible(p, i)
    BY <2>2, <2>3 DEF IsCoefficientAdmissible
  <2> QED BY <1>3, <2>4 DEF IsAdmissible
<1>4. CASE m = "consround"
  <2>1. IsConsroundAdmissible(q, i) = IsConsroundAdmissible(p, i)
    BY <1>0, <1>4 DEF IsConsroundAdmissible, Redundant
  <2> QED BY <1>4, <2>1 DEF IsAdmissible
<1>5. CASE m = "variable"
  <2>1. IsVariableAdmissible(q, i) = IsVariableAdmissible(p, i)
    BY <1>0, <1>5 DEF IsVariableAdmissible, Fixed
  <2> QED BY <1>5, <2>1 DEF IsAdmissible
<1>6. CASE m = "fixing"
  <2>1. IsFixingAdmissible(q, i) = IsFixingAdmissible(p, i)
    BY <1>0, <1>6 DEF IsFixingAdmissible, Closed, Fixed
  <2> QED BY <1>6, <2>1 DEF IsAdmissible
<1>7. CASE m = "objective"
  <2>1. IsObjectiveAdmissible(q, i) = IsObjectiveAdmissible(p, i)
    BY <1>0, <1>7 DEF IsObjectiveAdmissible, Fixed
  <2> QED BY <1>7, <2>1 DEF IsAdmissible
<1>8. CASE m = "varround"
  <2>1. IsVarroundAdmissible(q, i) = IsVarroundAdmissible(p, i)
    BY <1>0, <1>8 DEF IsVarroundAdmissible, Fixed
  <2> QED BY <1>8, <2>1 DEF IsAdmissible
<1> QED BY <1>0, <1>1, <1>2, <1>3, <1>4, <1>5, <1>6, <1>7, <1>8

(* What is still to be visited was not visited yet.                        *)
LEMMA StillToVisit ==
  ASSUME Length(modifier) \in Nat, NEW n \in Nat, NEW k \in (n + 1)..Length(modifier)
  PROVE  Visited(k) \in 1..Length(modifier) /\ Visited(k) \notin {Visited(j) : j \in 1..n}
<1> DEFINE L == Length(modifier)
           up == modifier \in Upwards
<1>1. \A j : Visited(j) = IF up THEN j ELSE L + 1 - j
  BY DEF Visited
<1>2. L \in Nat /\ k \in (n + 1)..L
  OBVIOUS
<1> HIDE DEF L, up
<1>3. Visited(k) \in 1..L
  BY <1>1, <1>2
<1>4. \A j \in 1..n : Visited(j) # Visited(k)
  BY <1>1, <1>2
<1> QED BY <1>3, <1>4 DEF L

(***************************************************************************)
(* The number of admissible rows or columns, from which the size of a      *)
(* batch is computed before the scan, remains that of the scan: visits do  *)
(* not make a row or column that is still to come admissible or cease to   *)
(* be so.                                                                  *)
(***************************************************************************)
THEOREM VisitsDoNotInterfere == Spec => []Bystanders
<1>1. IInv => Bystanders
  <2> SUFFICES ASSUME IInv, NEW k \in (position + 1)..Length(modifier)
               PROVE  IsAdmissible(modifier, copy, Visited(k))
                        = IsAdmissible(modifier, problem, Visited(k))
    BY DEF Bystanders
  <2> DEFINE m == modifier
             L == Length(m)
             V == VisitedSoFar
             i == Visited(k)
  <2>1. /\ m \in ByRow \cup ByColumn /\ L \in Nat /\ WellFormed(problem)
        /\ PositionOf(L) /\ EditsFor(V)
    BY Running
  <2>2. i \in 1..L /\ i \notin V
    <3>1. position \in Nat
      BY <2>1 DEF PositionOf
    <3> QED BY <2>1, <3>1, StillToVisit DEF VisitedSoFar
  <2>3. (m \in ByRow => i \in Rows(problem)) /\ (m \in ByColumn => i \in Columns(problem))
    BY <2>1, <2>2, LengthReach
  <2>4. IsVariant(copy, problem, RowsWith(m, problem, V), ColumnsWith(m, problem, V))
    BY <2>1 DEF EditsFor, VariantOf
  <2> HIDE DEF m, V, L, i
  <2>5. ASSUME m \in ByRow  PROVE copy.cols = problem.cols /\ copy.rows[i] = problem.rows[i]
    <3>1. \A c \in Columns(problem) : copy.cols[c] = problem.cols[c]
      BY <2>4, <2>5 DEF IsVariant, ColumnsWith
    <3>2. /\ copy.cols \in [Columns(problem) -> ColumnOf]
          /\ problem.cols \in [Columns(problem) -> ColumnOf]
      <4>1. copy.cols \in [Columns(problem) -> ColumnOf]
        BY <2>4 DEF IsVariant
      <4>2. problem.cols \in Seq(ColumnOf) /\ Columns(problem) = DOMAIN problem.cols
        BY <2>1 DEF WellFormed, Columns
      <4> QED BY <4>1, <4>2
    <3>3. copy.rows[i] = problem.rows[i]
      BY <2>2, <2>3, <2>4, <2>5 DEF IsVariant, RowsWith
    <3> QED BY <3>1, <3>2, <3>3
  <2>6. ASSUME m \in ByColumn  PROVE copy.cols[i] = problem.cols[i]
    <3>1. ColumnsWith(m, problem, V) = V
      BY <2>6 DEF ColumnsWith, ByRow, ByColumn
    <3> QED BY <2>2, <2>3, <2>4, <2>6, <3>1 DEF IsVariant
  <2>7. IsAdmissible(m, copy, i) = IsAdmissible(m, problem, i)
    BY <2>1, <2>5, <2>6, SameView
  <2> QED BY <2>7 DEF m, i
<1> QED BY <1>1, Invariant, PTL

-------------------------------------------------------------------------------
(* A row as the record of its fields, and its flags when Equation is set.  *)
MadeRow(a, b, F, f) == [lhs |-> a, rhs |-> b, flags |-> F, coef |-> f]

MarkedFlags(F, infinite, a, b) ==
  IF infinite \notin F /\ a = b THEN F \cup {"Equation"} ELSE F \ {"Equation"}

LeftFlags(F, a, b)  == MarkedFlags(F \ {"LhsInf"}, "RhsInf", a, b)
RightFlags(F, a, b) == MarkedFlags(F \ {"RhsInf"}, "LhsInf", a, b)

LeftMade(v, b, F, f)  == MadeRow(v, b, LeftFlags(F, v, b), f)
RightMade(a, v, F, f) == MadeRow(a, v, RightFlags(F, a, v), f)

(* The fields of a row whose equation is marked.                           *)
LEMMA MarkedFields ==
  ASSUME NEW a, NEW b, NEW F, NEW f, NEW infinite
  PROVE  Marked(MadeRow(a, b, F, f), infinite) = MadeRow(a, b, MarkedFlags(F, infinite, a, b), f)
BY DEF Marked, MadeRow, MarkedFlags

(* The fields of a row after a change of a side.                           *)
LEMMA SideFields ==
  ASSUME NEW a, NEW b, NEW F, NEW f, NEW v
  PROVE  /\ ModifyLeft(MadeRow(a, b, F, f), v) = LeftMade(Snapped(v, b), b, F, f)
         /\ ModifyRight(MadeRow(a, b, F, f), v) = RightMade(a, Snapped(v, a), F, f)
<1> DEFINE row   == MadeRow(a, b, F, f)
           left  == [row EXCEPT !.flags = @ \ {"LhsInf"}]
           right == [row EXCEPT !.flags = @ \ {"RhsInf"}]
<1>1. row.lhs = a /\ row.rhs = b
  BY DEF MadeRow
<1>2. left = MadeRow(a, b, F \ {"LhsInf"}, f) /\ right = MadeRow(a, b, F \ {"RhsInf"}, f)
  BY DEF MadeRow
<1>3. /\ [row EXCEPT !.flags = @ \ {"LhsInf"}, !.lhs = Snapped(v, row.rhs)]
           = [left EXCEPT !.lhs = Snapped(v, row.rhs)]
      /\ [row EXCEPT !.flags = @ \ {"RhsInf"}, !.rhs = Snapped(v, row.lhs)]
           = [right EXCEPT !.rhs = Snapped(v, row.lhs)]
  BY DEF MadeRow
<1> HIDE DEF left, right
<1>4. /\ ModifyLeft(row, v) = Marked([left EXCEPT !.lhs = Snapped(v, row.rhs)], "RhsInf")
      /\ ModifyRight(row, v) = Marked([right EXCEPT !.rhs = Snapped(v, row.lhs)], "LhsInf")
  <2> HIDE DEF row
  <2> QED BY <1>3 DEF ModifyLeft, ModifyRight
<1> HIDE DEF row
<1>5. [left EXCEPT !.lhs = Snapped(v, row.rhs)] = MadeRow(Snapped(v, b), b, F \ {"LhsInf"}, f)
  BY <1>1, <1>2 DEF MadeRow
<1>6. [right EXCEPT !.rhs = Snapped(v, row.lhs)] = MadeRow(a, Snapped(v, a), F \ {"RhsInf"}, f)
  BY <1>1, <1>2 DEF MadeRow
<1>7. ModifyLeft(row, v) = MadeRow(Snapped(v, b), b, LeftFlags(F, Snapped(v, b), b), f)
  BY <1>4, <1>5, MarkedFields DEF LeftFlags
<1>8. ModifyRight(row, v) = MadeRow(a, Snapped(v, a), RightFlags(F, a, Snapped(v, a)), f)
  BY <1>4, <1>6, MarkedFields DEF RightFlags
<1> QED BY <1>7, <1>8 DEF LeftMade, RightMade, row

(* Coefficients and sides are changed independently of each other.         *)
LEMMA CoefficientPastSides ==
  ASSUME NEW n, NEW row, IsRow(row, n), NEW v, NEW c, NEW w
  PROVE  /\ ChangeCoefficient(ModifyLeft(row, v), c, w) = ModifyLeft(ChangeCoefficient(row, c, w), v)
         /\ ChangeCoefficient(ModifyRight(row, v), c, w) = ModifyRight(ChangeCoefficient(row, c, w), v)
<1> DEFINE Changed(f) == IF w = 0 THEN [d \in DOMAIN f \ {c} |-> f[d]] ELSE [f EXCEPT ![c] = w]
           a == row.lhs
           b == row.rhs
           F == row.flags
           f == row.coef
           g == Changed(f)
<1>1. row = MadeRow(a, b, F, f)
  BY RowFields DEF MadeRow
<1>2. \A d, e, G : ChangeCoefficient(MadeRow(d, e, G, f), c, w) = MadeRow(d, e, G, g)
  BY DEF ChangeCoefficient, MadeRow
<1> HIDE DEF g, a, b, F, f
<1>3. /\ ModifyLeft(row, v) = LeftMade(Snapped(v, b), b, F, f)
      /\ ModifyRight(row, v) = RightMade(a, Snapped(v, a), F, f)
  BY <1>1, SideFields
<1>4. ChangeCoefficient(row, c, w) = MadeRow(a, b, F, g)
  BY <1>1, <1>2
<1>5. /\ ModifyLeft(ChangeCoefficient(row, c, w), v) = LeftMade(Snapped(v, b), b, F, g)
      /\ ModifyRight(ChangeCoefficient(row, c, w), v) = RightMade(a, Snapped(v, a), F, g)
  BY <1>4, SideFields
<1> QED BY <1>2, <1>3, <1>5 DEF LeftMade, RightMade

(* Without a tolerance the sides are changed independently.                *)
LEMMA LeftPastRight ==
  ASSUME Zeta = 0, NEW n, NEW row, IsRow(row, n), NEW v \in Int, NEW w \in Int
  PROVE  ModifyRight(ModifyLeft(row, v), w) = ModifyLeft(ModifyRight(row, w), v)
<1> DEFINE a == row.lhs
           b == row.rhs
           F == row.flags
           f == row.coef
<1>1. \A x, y \in Int : Snapped(x, y) = x
  BY DEF Snapped, IsZetaEq, Magnitude
<1>2. row = MadeRow(a, b, F, f) /\ a \in Int /\ b \in Int
  BY RowFields DEF MadeRow
<1> HIDE DEF a, b, F, f
<1>3. Snapped(v, b) = v /\ Snapped(w, a) = w /\ Snapped(w, v) = w /\ Snapped(v, w) = v
  BY <1>1, <1>2
<1>4. /\ ModifyLeft(row, v) = MadeRow(v, b, LeftFlags(F, v, b), f)
      /\ ModifyRight(row, w) = MadeRow(a, w, RightFlags(F, a, w), f)
  BY <1>2, <1>3, SideFields DEF LeftMade, RightMade
<1>5. /\ ModifyRight(ModifyLeft(row, v), w) = RightMade(v, w, LeftFlags(F, v, b), f)
      /\ ModifyLeft(ModifyRight(row, w), v) = LeftMade(v, w, RightFlags(F, a, w), f)
  BY <1>3, <1>4, SideFields
<1>6. RightFlags(LeftFlags(F, v, b), v, w) = LeftFlags(RightFlags(F, a, w), v, w)
  BY DEF RightFlags, LeftFlags, MarkedFlags
<1> QED BY <1>5, <1>6 DEF LeftMade, RightMade

-------------------------------------------------------------------------------
(* An edit changes one row or one column, and looks at nothing else.       *)
OfRows    == {"rows", "sides", "entries", "lefts", "rights"}
OfColumns == {"domains", "fixed", "objs", "lowers", "uppers"}

Place(u) == IF u[1] \in {"rows", "fixed"} THEN u[2] ELSE u[2][1]

OnRow(u, row) ==
  CASE u[1] = "rows"    -> [row EXCEPT !.flags = @ \cup {"Redundant"}]
    [] u[1] = "sides"   -> ModifyRight(ModifyLeft(row, u[2][2]), u[2][2])
    [] u[1] = "entries" -> ChangeCoefficient(row, u[2][2], u[2][3])
    [] u[1] = "lefts"   -> ModifyLeft(row, u[2][2])
    [] u[1] = "rights"  -> ModifyRight(row, u[2][2])

OnColumn(u, col) ==
  CASE u[1] = "domains" -> OnlyValue(col, u[2][2])
    [] u[1] = "fixed"   -> [col EXCEPT !.flags = @ \cup {"Fixed"}]
    [] u[1] = "objs"    -> [col EXCEPT !.obj = u[2][2]]
    [] u[1] = "lowers"  -> [col EXCEPT !.lb = u[2][2]]
    [] u[1] = "uppers"  -> [col EXCEPT !.ub = u[2][2]]

(* Where a tagged edit acts.                                               *)
LEMMA PlaceTyped ==
  ASSUME NEW p, NEW R, NEW C, NEW E, NEW u \in Tagged(p, R, C, E)
  PROVE  \/ u[1] \in OfRows /\ u[1] \notin OfColumns /\ Place(u) \in R
         \/ u[1] \in OfColumns /\ u[1] \notin OfRows /\ Place(u) \in C
<1>1. CASE u \in {"rows"} \X R \/ u \in {"fixed"} \X C
  BY <1>1 DEF Place, OfRows, OfColumns
<1>2. CASE u \in {"entries"} \X Entries(p, R, E)
  BY <1>2 DEF Place, OfRows, OfColumns, Entries
<1>3. CASE u \in {"sides"} \X (R \X Int) \/ u \in {"lefts"} \X (R \X Int) \/ u \in {"rights"} \X (R \X Int)
  BY <1>3 DEF Place, OfRows, OfColumns
<1>4. CASE u \in {"domains"} \X (C \X Steps) \/ u \in {"objs"} \X (C \X Steps)
  BY <1>4 DEF Place, OfRows, OfColumns
<1>5. CASE u \in {"lowers"} \X (C \X Steps) \/ u \in {"uppers"} \X (C \X Steps)
  BY <1>5 DEF Place, OfRows, OfColumns
<1> QED BY <1>1, <1>2, <1>3, <1>4, <1>5 DEF Tagged

(* Applying an edit replaces what stands at its place.                     *)
LEMMA ApplyActs ==
  ASSUME NEW q, IsPair(q), NEW u
  PROVE  /\ u[1] \in OfRows /\ Place(u) \in DOMAIN q.rows =>
              Apply(q, u) = WithRow(q, Place(u), OnRow(u, q.rows[Place(u)]))
         /\ u[1] \in OfColumns /\ Place(u) \in DOMAIN q.cols =>
              Apply(q, u) = WithColumn(q, Place(u), OnColumn(u, q.cols[Place(u)]))
<1> DEFINE s == u[2]
<1>1. ASSUME u[1] = "sides", s[1] \in DOMAIN q.rows
      PROVE  BothSides(q, s) = WithRow(q, s[1], ModifyRight(ModifyLeft(q.rows[s[1]], s[2]), s[2]))
  <2> DEFINE left == ModifyLeft(q.rows[s[1]], s[2])
             ql   == WithRow(q, s[1], left)
  <2>1. LeftSide(q, s) = ql
    BY RowEdits
  <2>2. IsPair(ql) /\ ql.rows = [q.rows EXCEPT ![s[1]] = left] /\ ql.cols = q.cols
    BY DEF WithRow, IsPair
  <2> HIDE DEF ql, left
  <2>3. RightSide(ql, s) = WithRow(ql, s[1], ModifyRight(ql.rows[s[1]], s[2]))
    BY <2>2, RowEdits
  <2>4. ql.rows[s[1]] = left
    BY <1>1, <2>2
  <2>5. WithRow(ql, s[1], ModifyRight(left, s[2])) = WithRow(q, s[1], ModifyRight(left, s[2]))
    BY <2>2 DEF WithRow
  <2> QED BY <2>1, <2>3, <2>4, <2>5 DEF BothSides, left
<1>2. ASSUME u[1] \in OfRows, Place(u) \in DOMAIN q.rows
      PROVE  Apply(q, u) = WithRow(q, Place(u), OnRow(u, q.rows[Place(u)]))
  <2>1. CASE u[1] = "rows"
    BY <2>1, RowEdits DEF Apply, Place, OnRow
  <2>2. CASE u[1] = "entries"
    BY <2>2, RowEdits DEF Apply, Place, OnRow
  <2>3. CASE u[1] = "lefts"
    BY <2>3, RowEdits DEF Apply, Place, OnRow
  <2>4. CASE u[1] = "rights"
    BY <2>4, RowEdits DEF Apply, Place, OnRow
  <2>5. CASE u[1] = "sides"
    BY <1>1, <1>2, <2>5 DEF Apply, Place, OnRow
  <2> QED BY <1>2, <2>1, <2>2, <2>3, <2>4, <2>5 DEF OfRows
<1>3. ASSUME u[1] \in OfColumns, Place(u) \in DOMAIN q.cols
      PROVE  Apply(q, u) = WithColumn(q, Place(u), OnColumn(u, q.cols[Place(u)]))
  <2> DEFINE c == Place(u)
  <2>1. CASE u[1] = "fixed"
    <3>1. s \in DOMAIN q.cols /\ c = s /\ << s >>[1] \in DOMAIN q.cols
      BY <1>3, <2>1 DEF Place
    <3>2. Fixation(q, s) = WithColumn(q, s, [q.cols[s] EXCEPT !.flags = @ \cup {"Fixed"}])
      BY <3>1, ColumnEdits
    <3> QED BY <2>1, <3>1, <3>2 DEF Apply, OnColumn
  <2>2. CASE u[1] # "fixed"
    <3>1. c = s[1] /\ s[1] \in DOMAIN q.cols
      BY <1>3, <2>2 DEF Place, OfColumns
    <3>2. /\ Profit(q, s) = WithColumn(q, c, [q.cols[c] EXCEPT !.obj = s[2]])
          /\ LowerBound(q, s) = WithColumn(q, c, [q.cols[c] EXCEPT !.lb = s[2]])
          /\ UpperBound(q, s) = WithColumn(q, c, [q.cols[c] EXCEPT !.ub = s[2]])
          /\ Domain(q, s) = WithColumn(q, c, OnlyValue(q.cols[c], s[2]))
      <4> HIDE DEF s
      <4>1. Profit(q, s) = WithColumn(q, s[1], [q.cols[s[1]] EXCEPT !.obj = s[2]])
        BY <3>1, ColumnEdits
      <4>2. LowerBound(q, s) = WithColumn(q, s[1], [q.cols[s[1]] EXCEPT !.lb = s[2]])
        BY <3>1, ColumnEdits
      <4>3. UpperBound(q, s) = WithColumn(q, s[1], [q.cols[s[1]] EXCEPT !.ub = s[2]])
        BY <3>1, ColumnEdits
      <4>4. Domain(q, s) = WithColumn(q, s[1], OnlyValue(q.cols[s[1]], s[2]))
        BY <3>1, ColumnEdits
      <4> QED BY <3>1, <4>1, <4>2, <4>3, <4>4
    <3> HIDE DEF c
    <3>3. u[1] \in {"domains", "objs", "lowers", "uppers"}
      BY <1>3, <2>2 DEF OfColumns
    <3> QED BY <3>2, <3>3 DEF Apply, OnColumn, c
  <2> QED BY <2>1, <2>2
<1> QED BY <1>2, <1>3

(* Edits of different places commute; so do two edits of one row that      *)
(* commute as changes of the row.                                          *)
LEMMA EditsCommute ==
  ASSUME NEW p, NEW R \in SUBSET Rows(p), NEW C \in SUBSET Columns(p), NEW E,
         NEW q, IsVariant(q, p, R, C),
         NEW t \in Tagged(p, R, C, E), NEW u \in Tagged(p, R, C, E),
         \/ t[1] \in OfRows /\ u[1] \in OfColumns
         \/ t[1] \in OfColumns /\ u[1] \in OfRows
         \/ Place(t) # Place(u)
         \/ /\ t[1] \in OfRows /\ u[1] \in OfRows
            /\ \A row : IsRow(row, Len(p.cols)) => OnRow(t, OnRow(u, row)) = OnRow(u, OnRow(t, row))
  PROVE  Apply(Apply(q, t), u) = Apply(Apply(q, u), t)
<1> DEFINE a == Place(t)
           b == Place(u)
           qt == Apply(q, t)
           qu == Apply(q, u)
<1>1. /\ IsVariant(qt, p, R, C) /\ IsVariant(qu, p, R, C)
      /\ IsPair(q) /\ DOMAIN q.rows = Rows(p) /\ DOMAIN q.cols = Columns(p)
  BY ApplyKeeps, VariantParts
<1>2. /\ IsPair(qt) /\ DOMAIN qt.rows = Rows(p) /\ DOMAIN qt.cols = Columns(p)
      /\ IsPair(qu) /\ DOMAIN qu.rows = Rows(p) /\ DOMAIN qu.cols = Columns(p)
  BY <1>1, VariantParts
<1>3. /\ \/ t[1] \in OfRows /\ t[1] \notin OfColumns /\ a \in R
         \/ t[1] \in OfColumns /\ t[1] \notin OfRows /\ a \in C
      /\ \/ u[1] \in OfRows /\ u[1] \notin OfColumns /\ b \in R
         \/ u[1] \in OfColumns /\ u[1] \notin OfRows /\ b \in C
  BY PlaceTyped
<1> HIDE DEF a, b, qt, qu
<1>4. ASSUME t[1] \in OfRows
      PROVE  /\ qt = WithRow(q, a, OnRow(t, q.rows[a]))
             /\ Apply(qu, t) = WithRow(qu, a, OnRow(t, qu.rows[a]))
  BY <1>1, <1>2, <1>3, <1>4, ApplyActs DEF a, qt
<1>5. ASSUME u[1] \in OfRows
      PROVE  /\ qu = WithRow(q, b, OnRow(u, q.rows[b]))
             /\ Apply(qt, u) = WithRow(qt, b, OnRow(u, qt.rows[b]))
  BY <1>1, <1>2, <1>3, <1>5, ApplyActs DEF b, qu
<1>6. ASSUME t[1] \in OfColumns
      PROVE  /\ qt = WithColumn(q, a, OnColumn(t, q.cols[a]))
             /\ Apply(qu, t) = WithColumn(qu, a, OnColumn(t, qu.cols[a]))
  BY <1>1, <1>2, <1>3, <1>6, ApplyActs DEF a, qt
<1>7. ASSUME u[1] \in OfColumns
      PROVE  /\ qu = WithColumn(q, b, OnColumn(u, q.cols[b]))
             /\ Apply(qt, u) = WithColumn(qt, b, OnColumn(u, qt.cols[b]))
  BY <1>1, <1>2, <1>3, <1>7, ApplyActs DEF b, qu
<1>8. CASE t[1] \in OfRows /\ u[1] \in OfColumns
  <2>1. qu.rows = q.rows /\ qt.cols = q.cols
    BY <1>4, <1>7, <1>8 DEF WithRow, WithColumn
  <2>2. /\ Apply(qt, u) = WithColumn(qt, b, OnColumn(u, q.cols[b]))
        /\ Apply(qu, t) = WithRow(qu, a, OnRow(t, q.rows[a]))
    BY <1>4, <1>7, <1>8, <2>1
  <2> QED BY <1>4, <1>7, <1>8, <2>2 DEF WithRow, WithColumn, qt, qu
<1>9. CASE t[1] \in OfColumns /\ u[1] \in OfRows
  <2>1. qt.rows = q.rows /\ qu.cols = q.cols
    BY <1>5, <1>6, <1>9 DEF WithRow, WithColumn
  <2>2. /\ Apply(qt, u) = WithRow(qt, b, OnRow(u, q.rows[b]))
        /\ Apply(qu, t) = WithColumn(qu, a, OnColumn(t, q.cols[a]))
    BY <1>5, <1>6, <1>9, <2>1
  <2> QED BY <1>5, <1>6, <1>9, <2>2 DEF WithRow, WithColumn, qt, qu
<1>10. CASE t[1] \in OfRows /\ u[1] \in OfRows
  <2> DEFINE x == OnRow(t, q.rows[a])
             y == OnRow(u, q.rows[b])
  <2>1. /\ qt = WithRow(q, a, x) /\ qu = WithRow(q, b, y)
        /\ Apply(qt, u) = WithRow(qt, b, OnRow(u, qt.rows[b]))
        /\ Apply(qu, t) = WithRow(qu, a, OnRow(t, qu.rows[a]))
    BY <1>4, <1>5, <1>10
  <2>2. a \in DOMAIN q.rows /\ b \in DOMAIN q.rows
    BY <1>1, <1>3, <1>10
  <2> HIDE DEF x, y
  <2>3. /\ qt.rows = [q.rows EXCEPT ![a] = x] /\ qu.rows = [q.rows EXCEPT ![b] = y]
        /\ qt.cols = q.cols /\ qu.cols = q.cols
    BY <2>1 DEF WithRow
  <2>4. CASE a # b
    <3>1. qt.rows[b] = q.rows[b] /\ qu.rows[a] = q.rows[a]
      BY <2>2, <2>3, <2>4
    <3>2. /\ Apply(qt, u) = WithRow(qt, b, y) /\ Apply(qu, t) = WithRow(qu, a, x)
      BY <2>1, <3>1 DEF x, y
    <3>3. [[q.rows EXCEPT ![a] = x] EXCEPT ![b] = y] = [[q.rows EXCEPT ![b] = y] EXCEPT ![a] = x]
      BY <2>2, <2>4
    <3> QED BY <2>3, <3>2, <3>3 DEF WithRow, qt, qu
  <2>5. CASE a = b
    <3>1. OnRow(t, OnRow(u, q.rows[a])) = OnRow(u, OnRow(t, q.rows[a]))
      <4>1. IsRow(q.rows[a], Len(p.cols))
        BY <1>1, <2>2, RowOfVariant
      <4> QED BY <1>3, <1>10, <2>5, <4>1 DEF a, b
    <3>2. qt.rows[b] = x /\ qu.rows[a] = y
      BY <2>2, <2>3, <2>5
    <3>3. OnRow(u, x) = OnRow(t, y)
      BY <2>5, <3>1 DEF x, y
    <3>4. \A z : [[q.rows EXCEPT ![a] = x] EXCEPT ![a] = z] = [[q.rows EXCEPT ![a] = y] EXCEPT ![a] = z]
      BY <2>2
    <3>5. /\ Apply(qt, u) = WithRow(qt, a, OnRow(u, x))
          /\ Apply(qu, t) = WithRow(qu, a, OnRow(u, x))
      BY <2>1, <2>5, <3>2, <3>3
    <3> QED BY <2>3, <2>5, <3>4, <3>5 DEF WithRow, qt, qu
  <2> QED BY <2>4, <2>5
<1>11. CASE t[1] \in OfColumns /\ u[1] \in OfColumns
  <2> DEFINE x == OnColumn(t, q.cols[a])
             y == OnColumn(u, q.cols[b])
  <2>1. /\ qt = WithColumn(q, a, x) /\ qu = WithColumn(q, b, y)
        /\ Apply(qt, u) = WithColumn(qt, b, OnColumn(u, qt.cols[b]))
        /\ Apply(qu, t) = WithColumn(qu, a, OnColumn(t, qu.cols[a]))
    BY <1>6, <1>7, <1>11
  <2>2. a \in DOMAIN q.cols /\ b \in DOMAIN q.cols /\ a # b
    BY <1>1, <1>3, <1>11 DEF a, b
  <2> HIDE DEF x, y
  <2>3. /\ qt.cols = [q.cols EXCEPT ![a] = x] /\ qu.cols = [q.cols EXCEPT ![b] = y]
        /\ qt.rows = q.rows /\ qu.rows = q.rows
    BY <2>1 DEF WithColumn
  <2>4. qt.cols[b] = q.cols[b] /\ qu.cols[a] = q.cols[a]
    BY <2>2, <2>3
  <2>5. Apply(qt, u) = WithColumn(qt, b, y) /\ Apply(qu, t) = WithColumn(qu, a, x)
    BY <2>1, <2>4 DEF x, y
  <2>6. [[q.cols EXCEPT ![a] = x] EXCEPT ![b] = y] = [[q.cols EXCEPT ![b] = y] EXCEPT ![a] = x]
    BY <2>2
  <2> QED BY <2>3, <2>5, <2>6 DEF WithColumn, qt, qu
<1> QED BY <1>3, <1>8, <1>9, <1>10, <1>11

-------------------------------------------------------------------------------
(* Two records of edits replayed one after the other make what the joined  *)
(* record makes, if edits of the second commute with those of the first    *)
(* that are in other lists.                                                *)
ListNames == {"rows", "domains", "sides", "fixed", "entries", "lefts", "rights",
              "objs", "lowers", "uppers"}

Commuting(V, a, b) ==
  \A v \in V : \A k, l \in ListNames : k # l =>
    \A x \in Range(Listed(k, a[k])), y \in Range(Listed(l, b[l])) :
      Apply(Apply(v, x), y) = Apply(Apply(v, y), x)

(* The edits that the lists in K hold. *)
Held(b, K) == UNION {Range(Listed(l, b[l])) : l \in K}

(* In the beginnings pa of a, pb of b and pj of both, the lists K.         *)
Merged(V, U, b, K, pa, pb, pj) ==
  /\ pa \in Seq(U) /\ pj \in Seq(U) /\ pb \in Seq(U) /\ pb \in Seq(Held(b, K))
  /\ \A v \in V : Editing!Over(v, pa \o pb) = Editing!Over(v, pj)

Named(k, x) == <<k, x>>

(* The joined list holds the edits of both.                                *)
LEMMA ListedJoin ==
  ASSUME NEW k, NEW S, NEW s \in Seq(S), NEW t \in Seq(S)
  PROVE  Listed(k, s \o t) = Listed(k, s) \o Listed(k, t)
<1> DEFINE x == Listed(k, s)
           y == Listed(k, t)
           z == Listed(k, s \o t)
           U == {k} \X S
<1>1. /\ x \in Seq(U) /\ y \in Seq(U) /\ z \in Seq(U) /\ s \o t \in Seq(S)
      /\ Len(x) = Len(s) /\ Len(y) = Len(t) /\ Len(z) = Len(s \o t)
  <2>1. s \o t \in Seq(S)
    OBVIOUS
  <2> HIDE DEF U
  <2>2. {k} \X S \subseteq U
    BY DEF U
  <2> QED BY <2>1, <2>2, ListedTyped
<1>2. /\ \A i \in 1..Len(s) : x[i] = Named(k, s[i])
      /\ \A i \in 1..Len(t) : y[i] = Named(k, t[i])
      /\ \A i \in 1..Len(s \o t) : z[i] = Named(k, (s \o t)[i])
  BY <1>1 DEF Listed, Named
<1> HIDE DEF x, y, z, U
<1>3. /\ Len(s) \in Nat /\ Len(t) \in Nat /\ Len(s \o t) = Len(s) + Len(t)
      /\ \A i \in 1..Len(s) : (s \o t)[i] = s[i]
      /\ \A i \in 1..Len(t) : (s \o t)[Len(s) + i] = t[i]
  OBVIOUS
<1>4. /\ x \o y \in Seq(U) /\ Len(x \o y) = Len(x) + Len(y)
      /\ \A i \in 1..Len(x) : (x \o y)[i] = x[i]
      /\ \A i \in 1..Len(y) : (x \o y)[Len(x) + i] = y[i]
  <2>1. x \in Seq(U) /\ y \in Seq(U)
    BY <1>1
  <2> QED BY <2>1
<1> DEFINE st == s \o t
           xy == x \o y
           ls == Len(s)
           lt == Len(t)
<1>5. /\ ls \in Nat /\ lt \in Nat /\ Len(x) = ls /\ Len(y) = lt /\ Len(z) = ls + lt
      /\ xy \in Seq(U) /\ z \in Seq(U) /\ Len(xy) = ls + lt
      /\ \A i \in 1..ls : x[i] = Named(k, s[i]) /\ st[i] = s[i] /\ xy[i] = x[i]
      /\ \A i \in 1..lt : y[i] = Named(k, t[i]) /\ st[ls + i] = t[i] /\ xy[ls + i] = y[i]
      /\ \A i \in 1..(ls + lt) : z[i] = Named(k, st[i])
  BY <1>1, <1>2, <1>3, <1>4
<1> HIDE DEF st, xy, ls, lt
<1>6. ASSUME NEW i \in 1..(ls + lt)  PROVE xy[i] = z[i]
  <2>1. CASE i <= ls
    BY <1>5, <2>1
  <2>2. CASE i > ls
    <3> DEFINE j == i - ls
    <3>1. j \in 1..lt /\ i = ls + j
      BY <1>5, <2>2
    <3> HIDE DEF j
    <3>2. y[j] = Named(k, t[j]) /\ st[ls + j] = t[j] /\ xy[ls + j] = y[j]
      BY <1>5, <3>1
    <3>3. z[i] = Named(k, st[i])
      BY <1>5
    <3> QED BY <3>1, <3>2, <3>3
  <2> QED BY <1>5, <2>1, <2>2
<1>7. xy = z
  BY <1>5, <1>6
<1> QED BY <1>7 DEF x, y, z, xy

(* A sequence is one of the elements it has.                               *)
LEMMA OfItsRange ==
  ASSUME NEW S, NEW s \in Seq(S)
  PROVE  s \in Seq(Range(s)) /\ Range(s) \subseteq S
BY DEF Range

(* Edits that lead from V to V, and edits that commute there.              *)
Stay(V, T)    == \A v \in V : \A t \in T : Apply(v, t) \in V
Swap(V, T, U) == \A v \in V : \A t \in T : \A u \in U : Apply(Apply(v, t), u) = Apply(Apply(v, u), t)

(* Edits that commute pairwise commute as sequences.                       *)
LEMMA EditsSwap ==
  ASSUME NEW T, NEW U, NEW q \in Seq(T), NEW r \in Seq(U), NEW V, NEW b \in V,
         Stay(V, T), Stay(V, U), Swap(V, T, U)
  PROVE  Editing!Over(Editing!Over(b, q), r) = Editing!Over(Editing!Over(b, r), q)
<1>1. Editing!TakesLast
  BY LastIsPicked
<1>2. /\ \A v \in V : \A t \in T : Apply(v, t) \in V
      /\ \A v \in V : \A u \in U : Apply(v, u) \in V
      /\ \A v \in V : \A t \in T : \A u \in U : Apply(Apply(v, t), u) = Apply(Apply(v, u), t)
  BY DEF Stay, Swap
<1> QED BY <1>1, <1>2, Editing!OverSwap

(* One list more.                                                          *)
LEMMA MergeStep ==
  ASSUME NEW V, NEW U, \A v \in V : \A u \in U : Apply(v, u) \in V,
         NEW a, NEW b, Commuting(V, a, b),
         NEW K \in SUBSET ListNames, NEW k \in ListNames, k \notin K,
         NEW pa, NEW pb, NEW pj, Merged(V, U, b, K, pa, pb, pj),
         NEW S, a[k] \in Seq(S), b[k] \in Seq(S), {k} \X S \subseteq U
  PROVE  Merged(V, U, b, K \cup {k}, pa \o Listed(k, a[k]), pb \o Listed(k, b[k]),
                pj \o Listed(k, a[k] \o b[k]))
<1> DEFINE A == Listed(k, a[k])
           B == Listed(k, b[k])
           T == Held(b, K)
           T2 == Held(b, K \cup {k})
<1>1. A \in Seq(U) /\ B \in Seq(U) /\ Listed(k, a[k] \o b[k]) = A \o B
  BY ListedTyped, ListedJoin
<1>2. /\ pa \in Seq(U) /\ pj \in Seq(U) /\ pb \in Seq(U) /\ pb \in Seq(T)
      /\ \A v \in V : Editing!Over(v, pa \o pb) = Editing!Over(v, pj)
  BY DEF Merged
<1>3. A \in Seq(Range(A)) /\ Range(A) \subseteq U /\ Range(pb) \subseteq U /\ pb \in Seq(Range(pb))
  <2> HIDE DEF A
  <2> QED BY <1>1, <1>2, OfItsRange
<1>4. Range(pb) \subseteq T
  <2> HIDE DEF T
  <2> QED BY <1>2, OfItsRange
<1>5. \A v \in V : \A x \in Range(A) : \A y \in Range(pb) :
        Apply(Apply(v, x), y) = Apply(Apply(v, y), x)
  <2> SUFFICES ASSUME NEW v \in V, NEW x \in Range(A), NEW y \in Range(pb)
               PROVE  Apply(Apply(v, x), y) = Apply(Apply(v, y), x)
    OBVIOUS
  <2>1. PICK l \in K : y \in Range(Listed(l, b[l]))
    BY <1>4 DEF Held
  <2>2. l \in ListNames /\ l # k
    OBVIOUS
  <2> QED BY <2>1, <2>2 DEF Commuting
<1>6. B \in Seq(T2) /\ T \subseteq T2
  <2>1. B \in Seq(Range(B))
    <3> HIDE DEF B
    <3> QED BY <1>1, OfItsRange
  <2>2. Range(B) \subseteq T2
    BY DEF Held
  <2>3. T \subseteq T2
    BY DEF Held
  <2> HIDE DEF B, T2, T
  <2> QED BY <2>1, <2>2, <2>3
<1> HIDE DEF A, B, T, T2
<1>7. /\ pa \o A \in Seq(U) /\ pj \o (A \o B) \in Seq(U) /\ pb \o B \in Seq(U)
      /\ pb \o B \in Seq(T2) /\ A \o B \in Seq(U) /\ pa \o pb \in Seq(U)
  <2>1. pb \in Seq(T2)
    BY <1>2, <1>6
  <2> QED BY <1>1, <1>2, <1>6, <2>1
<1>8. ASSUME NEW v \in V
      PROVE  Editing!Over(v, (pa \o A) \o (pb \o B)) = Editing!Over(v, pj \o (A \o B))
  <2> DEFINE w == Editing!Over(v, pa)
  <2>1. Editing!TakesLast
    BY LastIsPicked
  <2>2. w \in V
    BY <1>2, <2>1, Editing!OverKeeps
  <2>3. Editing!Over(v, (pa \o A) \o (pb \o B))
          = Editing!Over(Editing!Over(Editing!Over(w, A), pb), B)
    <3>1. Editing!Over(v, (pa \o A) \o (pb \o B)) = Editing!Over(Editing!Over(v, pa \o A), pb \o B)
      BY <1>7, <2>1, Editing!OverSplit
    <3>2. Editing!Over(v, pa \o A) = Editing!Over(w, A)
      BY <1>1, <1>2, <2>1, Editing!OverSplit
    <3>3. \A z : Editing!Over(z, pb \o B) = Editing!Over(Editing!Over(z, pb), B)
      BY <1>1, <1>2, <2>1, Editing!OverSplit
    <3> QED BY <3>1, <3>2, <3>3
  <2> HIDE DEF w
  <2>4. Editing!Over(Editing!Over(w, A), pb) = Editing!Over(Editing!Over(w, pb), A)
    <3> DEFINE X == Range(A)
               Y == Range(pb)
    <3>1. Stay(V, X) /\ Stay(V, Y)
      BY <1>3 DEF Stay
    <3>2. Swap(V, X, Y)
      BY <1>5 DEF Swap
    <3>3. A \in Seq(X) /\ pb \in Seq(Y)
      BY <1>3
    <3> HIDE DEF X, Y
    <3> QED BY <2>2, <3>1, <3>2, <3>3, EditsSwap
  <2>5. Editing!Over(w, pb) = Editing!Over(v, pj)
    <3>1. Editing!Over(v, pa \o pb) = Editing!Over(w, pb)
      BY <1>2, <2>1, Editing!OverSplit DEF w
    <3> QED BY <1>2, <3>1
  <2>6. Editing!Over(v, pj \o (A \o B)) = Editing!Over(Editing!Over(Editing!Over(v, pj), A), B)
    <3>1. Editing!Over(v, pj \o (A \o B)) = Editing!Over(Editing!Over(v, pj), A \o B)
      BY <1>2, <1>7, <2>1, Editing!OverSplit
    <3>2. \A z : Editing!Over(z, A \o B) = Editing!Over(Editing!Over(z, A), B)
      BY <1>1, <2>1, Editing!OverSplit
    <3> QED BY <3>1, <3>2
  <2> QED BY <2>3, <2>4, <2>5, <2>6
<1> QED BY <1>1, <1>7, <1>8 DEF Merged, A, B, T, T2

-------------------------------------------------------------------------------
(* Every list holds edits of one kind.                                     *)
LEMMA FieldTyped ==
  ASSUME NEW p, NEW R, NEW C, NEW E, NEW k \in ListNames
  PROVE  \E S : /\ {k} \X S \subseteq Tagged(p, R, C, E)
                /\ \A e \in EditsIn(p, R, C, E) : e[k] \in Seq(S)
<1>1. CASE k = "rows"
  <2>1. \A e \in EditsIn(p, R, C, E) : e["rows"] \in Seq(R)
    BY DEF EditsIn, Entries
  <2>2. {"rows"} \X R \subseteq Tagged(p, R, C, E)
    BY DEF Tagged
  <2> QED BY <1>1, <2>1, <2>2
<1>2. CASE k = "domains"
  <2>1. \A e \in EditsIn(p, R, C, E) : e["domains"] \in Seq(C \X Steps)
    BY DEF EditsIn, Entries
  <2>2. {"domains"} \X (C \X Steps) \subseteq Tagged(p, R, C, E)
    BY DEF Tagged
  <2> QED BY <1>2, <2>1, <2>2
<1>3. CASE k = "sides"
  <2>1. \A e \in EditsIn(p, R, C, E) : e["sides"] \in Seq(R \X Int)
    BY DEF EditsIn, Entries
  <2>2. {"sides"} \X (R \X Int) \subseteq Tagged(p, R, C, E)
    BY DEF Tagged
  <2> QED BY <1>3, <2>1, <2>2
<1>4. CASE k = "fixed"
  <2>1. \A e \in EditsIn(p, R, C, E) : e["fixed"] \in Seq(C)
    BY DEF EditsIn, Entries
  <2>2. {"fixed"} \X C \subseteq Tagged(p, R, C, E)
    BY DEF Tagged
  <2> QED BY <1>4, <2>1, <2>2
<1>5. CASE k = "entries"
  <2>1. \A e \in EditsIn(p, R, C, E) : e["entries"] \in Seq(Entries(p, R, E))
    BY DEF EditsIn, Entries
  <2>2. {"entries"} \X Entries(p, R, E) \subseteq Tagged(p, R, C, E)
    BY DEF Tagged
  <2> QED BY <1>5, <2>1, <2>2
<1>6. CASE k = "lefts"
  <2>1. \A e \in EditsIn(p, R, C, E) : e["lefts"] \in Seq(R \X Int)
    BY DEF EditsIn, Entries
  <2>2. {"lefts"} \X (R \X Int) \subseteq Tagged(p, R, C, E)
    BY DEF Tagged
  <2> QED BY <1>6, <2>1, <2>2
<1>7. CASE k = "rights"
  <2>1. \A e \in EditsIn(p, R, C, E) : e["rights"] \in Seq(R \X Int)
    BY DEF EditsIn, Entries
  <2>2. {"rights"} \X (R \X Int) \subseteq Tagged(p, R, C, E)
    BY DEF Tagged
  <2> QED BY <1>7, <2>1, <2>2
<1>8. CASE k = "objs"
  <2>1. \A e \in EditsIn(p, R, C, E) : e["objs"] \in Seq(C \X Steps)
    BY DEF EditsIn, Entries
  <2>2. {"objs"} \X (C \X Steps) \subseteq Tagged(p, R, C, E)
    BY DEF Tagged
  <2> QED BY <1>8, <2>1, <2>2
<1>9. CASE k = "lowers"
  <2>1. \A e \in EditsIn(p, R, C, E) : e["lowers"] \in Seq(C \X Steps)
    BY DEF EditsIn, Entries
  <2>2. {"lowers"} \X (C \X Steps) \subseteq Tagged(p, R, C, E)
    BY DEF Tagged
  <2> QED BY <1>9, <2>1, <2>2
<1>10. CASE k = "uppers"
  <2>1. \A e \in EditsIn(p, R, C, E) : e["uppers"] \in Seq(C \X Steps)
    BY DEF EditsIn, Entries
  <2>2. {"uppers"} \X (C \X Steps) \subseteq Tagged(p, R, C, E)
    BY DEF Tagged
  <2> QED BY <1>10, <2>1, <2>2
<1> QED BY <1>1, <1>2, <1>3, <1>4, <1>5, <1>6, <1>7, <1>8, <1>9, <1>10 DEF ListNames

(* One list more, with the list by its name.                               *)
LEMMA MergeList ==
  ASSUME NEW p, NEW R \in SUBSET Rows(p), NEW C \in SUBSET Columns(p), NEW E,
         NEW a \in EditsIn(p, R, C, E), NEW b \in EditsIn(p, R, C, E),
         Commuting(Variants(p, R, C), a, b),
         NEW K \in SUBSET ListNames, NEW k \in ListNames, k \notin K,
         NEW pa, NEW pb, NEW pj,
         Merged(Variants(p, R, C), Tagged(p, R, C, E), b, K, pa, pb, pj)
  PROVE  Merged(Variants(p, R, C), Tagged(p, R, C, E), b, K \cup {k}, pa \o Listed(k, a[k]),
                pb \o Listed(k, b[k]), pj \o Listed(k, Join(a, b)[k]))
<1> DEFINE U == Tagged(p, R, C, E)
           V == Variants(p, R, C)
<1>1. \A v \in V : \A u \in U : Apply(v, u) \in V
  BY VariantsAre, ApplyKeeps
<1>2. \E S : a[k] \in Seq(S) /\ b[k] \in Seq(S) /\ {k} \X S \subseteq U
  BY FieldTyped
<1>3. Join(a, b)[k] = a[k] \o b[k]
  <2>1. DOMAIN a = ListNames
    BY DEF EditsIn, ListNames
  <2> QED BY <2>1 DEF Join
<1> HIDE DEF U, V
<1>4. Commuting(V, a, b) /\ Merged(V, U, b, K, pa, pb, pj)
  BY DEF U, V
<1>5. Merged(V, U, b, K \cup {k}, pa \o Listed(k, a[k]), pb \o Listed(k, b[k]),
             pj \o Listed(k, a[k] \o b[k]))
  BY <1>1, <1>2, <1>4, MergeStep
<1> QED BY <1>3, <1>5 DEF U, V

(* The lists begin with the redundant rows.                                *)
LEMMA MergeFirst ==
  ASSUME NEW p, NEW R, NEW C, NEW E,
         NEW a \in EditsIn(p, R, C, E), NEW b \in EditsIn(p, R, C, E), NEW V
  PROVE  Merged(V, Tagged(p, R, C, E), b, {"rows"}, Listed("rows", a.rows), Listed("rows", b.rows),
                Listed("rows", Join(a, b).rows))
<1> DEFINE U == Tagged(p, R, C, E)
           A == Listed("rows", a.rows)
           B == Listed("rows", b.rows)
<1>1. A \in Seq(U) /\ B \in Seq(U)
  BY EditsTyped
<1>2. Listed("rows", Join(a, b).rows) = A \o B
  <2>1. a.rows \in Seq(R) /\ b.rows \in Seq(R) /\ "rows" \in DOMAIN a
    BY DEF EditsIn
  <2>2. Join(a, b).rows = a.rows \o b.rows
    BY <2>1 DEF Join
  <2>3. Listed("rows", a.rows \o b.rows) = A \o B
    BY <2>1, ListedJoin
  <2> QED BY <2>2, <2>3
<1>3. Held(b, {"rows"}) = Range(B)
  BY DEF Held
<1> HIDE DEF U, A, B
<1>4. B \in Seq(Range(B)) /\ A \o B \in Seq(U)
  BY <1>1, OfItsRange
<1> QED BY <1>1, <1>2, <1>3, <1>4 DEF Merged, U, A, B

(* Two records replayed one after the other, and the joined one.           *)
LEMMA ReplayJoin ==
  ASSUME NEW p, NEW R \in SUBSET Rows(p), NEW C \in SUBSET Columns(p), NEW E,
         NEW a \in EditsIn(p, R, C, E), NEW b \in EditsIn(p, R, C, E),
         Commuting(Variants(p, R, C), a, b), NEW q, IsVariant(q, p, R, C)
  PROVE  Replay(Replay(q, a), b) = Replay(q, Join(a, b))
<1> DEFINE U == Tagged(p, R, C, E)
           V == Variants(p, R, C)
           J == Join(a, b)
           a1  == Listed("rows", a["rows"])
           a2  == a1 \o Listed("domains", a["domains"])
           a3  == a2 \o Listed("sides", a["sides"])
           a4  == a3 \o Listed("fixed", a["fixed"])
           a5  == a4 \o Listed("entries", a["entries"])
           a6  == a5 \o Listed("lefts", a["lefts"])
           a7  == a6 \o Listed("rights", a["rights"])
           a8  == a7 \o Listed("objs", a["objs"])
           a9  == a8 \o Listed("lowers", a["lowers"])
           a10 == a9 \o Listed("uppers", a["uppers"])
           b1  == Listed("rows", b["rows"])
           b2  == b1 \o Listed("domains", b["domains"])
           b3  == b2 \o Listed("sides", b["sides"])
           b4  == b3 \o Listed("fixed", b["fixed"])
           b5  == b4 \o Listed("entries", b["entries"])
           b6  == b5 \o Listed("lefts", b["lefts"])
           b7  == b6 \o Listed("rights", b["rights"])
           b8  == b7 \o Listed("objs", b["objs"])
           b9  == b8 \o Listed("lowers", b["lowers"])
           b10 == b9 \o Listed("uppers", b["uppers"])
           j1  == Listed("rows", J["rows"])
           j2  == j1 \o Listed("domains", J["domains"])
           j3  == j2 \o Listed("sides", J["sides"])
           j4  == j3 \o Listed("fixed", J["fixed"])
           j5  == j4 \o Listed("entries", J["entries"])
           j6  == j5 \o Listed("lefts", J["lefts"])
           j7  == j6 \o Listed("rights", J["rights"])
           j8  == j7 \o Listed("objs", J["objs"])
           j9  == j8 \o Listed("lowers", J["lowers"])
           j10 == j9 \o Listed("uppers", J["uppers"])
           K1  == {"rows"}
           K2  == K1 \cup {"domains"}
           K3  == K2 \cup {"sides"}
           K4  == K3 \cup {"fixed"}
           K5  == K4 \cup {"entries"}
           K6  == K5 \cup {"lefts"}
           K7  == K6 \cup {"rights"}
           K8  == K7 \cup {"objs"}
           K9  == K8 \cup {"lowers"}
           K10 == K9 \cup {"uppers"}
<1>1. Merged(V, U, b, K1, a1, b1, j1)
  BY MergeFirst
<1>2. Merged(V, U, b, K2, a2, b2, j2)
  <2>1. K1 \in SUBSET ListNames /\ "domains" \in ListNames /\ "domains" \notin K1
    BY DEF ListNames
  <2> HIDE DEF K1, a1, b1, j1
  <2> QED BY <1>1, <2>1, MergeList
<1>3. Merged(V, U, b, K3, a3, b3, j3)
  <2>1. K2 \in SUBSET ListNames /\ "sides" \in ListNames /\ "sides" \notin K2
    BY DEF ListNames
  <2> HIDE DEF K2, a2, b2, j2
  <2> QED BY <1>2, <2>1, MergeList
<1>4. Merged(V, U, b, K4, a4, b4, j4)
  <2>1. K3 \in SUBSET ListNames /\ "fixed" \in ListNames /\ "fixed" \notin K3
    BY DEF ListNames
  <2> HIDE DEF K3, a3, b3, j3
  <2> QED BY <1>3, <2>1, MergeList
<1>5. Merged(V, U, b, K5, a5, b5, j5)
  <2>1. K4 \in SUBSET ListNames /\ "entries" \in ListNames /\ "entries" \notin K4
    BY DEF ListNames
  <2> HIDE DEF K4, a4, b4, j4
  <2> QED BY <1>4, <2>1, MergeList
<1>6. Merged(V, U, b, K6, a6, b6, j6)
  <2>1. K5 \in SUBSET ListNames /\ "lefts" \in ListNames /\ "lefts" \notin K5
    BY DEF ListNames
  <2> HIDE DEF K5, a5, b5, j5
  <2> QED BY <1>5, <2>1, MergeList
<1>7. Merged(V, U, b, K7, a7, b7, j7)
  <2>1. K6 \in SUBSET ListNames /\ "rights" \in ListNames /\ "rights" \notin K6
    BY DEF ListNames
  <2> HIDE DEF K6, a6, b6, j6
  <2> QED BY <1>6, <2>1, MergeList
<1>8. Merged(V, U, b, K8, a8, b8, j8)
  <2>1. K7 \in SUBSET ListNames /\ "objs" \in ListNames /\ "objs" \notin K7
    BY DEF ListNames
  <2> HIDE DEF K7, a7, b7, j7
  <2> QED BY <1>7, <2>1, MergeList
<1>9. Merged(V, U, b, K9, a9, b9, j9)
  <2>1. K8 \in SUBSET ListNames /\ "lowers" \in ListNames /\ "lowers" \notin K8
    BY DEF ListNames
  <2> HIDE DEF K8, a8, b8, j8
  <2> QED BY <1>8, <2>1, MergeList
<1>10. Merged(V, U, b, K10, a10, b10, j10)
  <2>1. K9 \in SUBSET ListNames /\ "uppers" \in ListNames /\ "uppers" \notin K9
    BY DEF ListNames
  <2> HIDE DEF K9, a9, b9, j9
  <2> QED BY <1>9, <2>1, MergeList
<1>11. InOrder(a) = a10 /\ InOrder(b) = b10 /\ InOrder(J) = j10
  <2> HIDE DEF J
  <2> QED BY DEF InOrder
<1> HIDE DEF a10, b10, j10, K10, J
<1>12. /\ a10 \in Seq(U) /\ b10 \in Seq(U)
       /\ \A v \in V : Editing!Over(v, a10 \o b10) = Editing!Over(v, j10)
  BY <1>10 DEF Merged
<1>13. q \in V /\ Editing!TakesLast
  BY VariantsAre, LastIsPicked
<1> HIDE DEF U, V
<1>14. Editing!Over(q, a10 \o b10) = Editing!Over(Editing!Over(q, a10), b10)
  BY <1>12, <1>13, Editing!OverSplit
<1>15. \A x, e : Replay(x, e) = Editing!Over(x, InOrder(e))
  BY EditingIsFold DEF Replay, InOrder
<1> QED BY <1>11, <1>12, <1>13, <1>14, <1>15 DEF J

-------------------------------------------------------------------------------
(* Which edits commute: those of different visits, and coefficients with   *)
(* all else.                                                               *)
LEMMA ElementOf ==
  ASSUME NEW p, NEW R, NEW C, NEW E, NEW e \in EditsIn(p, R, C, E),
         NEW k \in ListNames, NEW x \in Range(Listed(k, e[k]))
  PROVE  x \in Tagged(p, R, C, E) /\ x[1] = k /\ e[k] # << >>
<1>1. PICK S : {k} \X S \subseteq Tagged(p, R, C, E) /\ e[k] \in Seq(S)
  BY FieldTyped
<1> DEFINE s == e[k]
<1>2. Listed(k, s) = [i \in DOMAIN s |-> <<k, s[i]>>]
  BY DEF Listed
<1>3. s \in Seq(S)
  BY <1>1
<1> HIDE DEF s
<1>4. PICK i \in DOMAIN s : x = <<k, s[i]>>
  BY <1>2 DEF Range, s
<1>5. s[i] \in S /\ s # << >>
  BY <1>3, <1>4
<1> QED BY <1>1, <1>4, <1>5 DEF s

(* The numbers that edits of sides hold.                                   *)
LEMMA SideTyped ==
  ASSUME NEW p, NEW R, NEW C, NEW E, NEW u \in Tagged(p, R, C, E), u[1] \in {"lefts", "rights"}
  PROVE  u[2][2] \in Int
<1>1. u \in {"lefts"} \X (R \X Int) \/ u \in {"rights"} \X (R \X Int)
  BY DEF Tagged
<1> QED BY <1>1

(* Changes of one row commute if they are of different kinds.              *)
LEMMA RowChangesCommute ==
  ASSUME NEW p, NEW R, NEW C, NEW E, NEW t \in Tagged(p, R, C, E), NEW u \in Tagged(p, R, C, E),
         t[1] \in {"entries", "lefts", "rights"}, u[1] \in {"entries", "lefts", "rights"},
         t[1] # u[1], Zeta = 0 \/ t[1] = "entries" \/ u[1] = "entries",
         NEW n, NEW row, IsRow(row, n)
  PROVE  OnRow(t, OnRow(u, row)) = OnRow(u, OnRow(t, row))
<1> DEFINE v == t[2][2]
           w == u[2][2]
<1>1. CASE t[1] = "entries"
  <2>1. u[1] \in {"lefts", "rights"}
    BY <1>1
  <2> QED BY <1>1, <2>1, CoefficientPastSides DEF OnRow
<1>2. CASE u[1] = "entries"
  <2>1. t[1] \in {"lefts", "rights"}
    BY <1>2
  <2> QED BY <1>2, <2>1, CoefficientPastSides DEF OnRow
<1>3. CASE Zeta = 0 /\ t[1] = "lefts" /\ u[1] = "rights"
  <2>1. v \in Int /\ w \in Int
    BY <1>3, SideTyped
  <2> QED BY <1>3, <2>1, LeftPastRight DEF OnRow
<1>4. CASE Zeta = 0 /\ t[1] = "rights" /\ u[1] = "lefts"
  <2>1. v \in Int /\ w \in Int
    BY <1>4, SideTyped
  <2> QED BY <1>4, <2>1, LeftPastRight DEF OnRow
<1> QED BY <1>1, <1>2, <1>3, <1>4

(* A list that is not one of the modifier's is empty.                      *)
LEMMA ListUsed ==
  ASSUME NEW m, NEW p, NEW V, NEW e \in EditsOf(m, p, V),
         NEW k \in ListNames, e[k] # << >>
  PROVE  k \in Lists(m)
<1>1. DOMAIN e = ListNames /\ \A j \in DOMAIN e \ Lists(m) : e[j] = << >>
  BY DEF EditsOf, EditsIn, ListNames
<1> QED BY <1>1

(* Edits of a visit commute with those of other visits in other lists.     *)
LEMMA VisitsCommute ==
  ASSUME NEW m \in ByRow \cup ByColumn, Zeta = 0 \/ m # "fixing",
         NEW p, NEW V, NEW i, i \notin V, NEW W, W = V \cup {i}, W \in SUBSET Reach(m, p),
         NEW a \in EditsOf(m, p, V), NEW b \in EditsOf(m, p, {i})
  PROVE  Commuting(Variants(p, RowsWith(m, p, W), ColumnsWith(m, p, W)), a, b)
<1> DEFINE R == RowsWith(m, p, W)
           C == ColumnsWith(m, p, W)
           E == PlacesWith(m, p, W)
<1>1. a \in EditsOf(m, p, W) /\ b \in EditsOf(m, p, W)
  BY MoreEdits
<1>2. R \in SUBSET Rows(p) /\ C \in SUBSET Columns(p)
  BY VisitsReach
<1>3. a \in EditsIn(p, R, C, E) /\ b \in EditsIn(p, R, C, E)
  BY <1>1 DEF EditsOf
<1> HIDE DEF R, C, E
<1>4. SUFFICES ASSUME NEW q, IsVariant(q, p, R, C), NEW k \in ListNames, NEW l \in ListNames, k # l,
                      NEW x \in Range(Listed(k, a[k])), NEW y \in Range(Listed(l, b[l]))
               PROVE  Apply(Apply(q, x), y) = Apply(Apply(q, y), x)
  BY VariantsAre DEF Commuting, R, C
<1>5. /\ x \in Tagged(p, R, C, E) /\ x[1] = k /\ a[k] # << >>
      /\ y \in Tagged(p, R, C, E) /\ y[1] = l /\ b[l] # << >>
  BY <1>3, ElementOf
<1>6. k \in Lists(m) /\ l \in Lists(m)
  BY <1>5, ListUsed
<1>7. /\ x \in Tagged(p, RowsWith(m, p, V), ColumnsWith(m, p, V), PlacesWith(m, p, V))
      /\ y \in Tagged(p, RowsWith(m, p, {i}), ColumnsWith(m, p, {i}), PlacesWith(m, p, {i}))
  BY ElementOf DEF EditsOf
<1>8. /\ \/ k \in OfRows /\ k \notin OfColumns /\ Place(x) \in RowsWith(m, p, V)
         \/ k \in OfColumns /\ k \notin OfRows /\ Place(x) \in ColumnsWith(m, p, V)
      /\ \/ l \in OfRows /\ l \notin OfColumns /\ Place(y) \in RowsWith(m, p, {i})
         \/ l \in OfColumns /\ l \notin OfRows /\ Place(y) \in ColumnsWith(m, p, {i})
  BY <1>5, <1>7, PlaceTyped
<1>9. CASE m \in ByRow
  <2>1. Place(x) \in V /\ Place(y) = i
    BY <1>8, <1>9 DEF RowsWith, ColumnsWith
  <2>2. Place(x) # Place(y)
    BY <2>1
  <2> QED BY <1>2, <1>4, <1>5, <2>2, EditsCommute
<1>10. CASE m \in {"variable", "objective", "varround"}
  <2>1. k \in OfColumns /\ l \in OfColumns
    BY <1>6, <1>10 DEF Lists, OfColumns
  <2>2. Place(x) \in V /\ Place(y) = i
    BY <1>8, <1>10, <2>1 DEF ColumnsWith, ByRow
  <2>3. Place(x) # Place(y)
    BY <2>2
  <2> QED BY <1>2, <1>4, <1>5, <2>3, EditsCommute
<1>11. CASE m = "fixing"
  <2>1. k \in {"fixed", "entries", "lefts", "rights"} /\ l \in {"fixed", "entries", "lefts", "rights"}
    BY <1>6, <1>11 DEF Lists
  <2>2. CASE k = "fixed"
    <3>1. k \in OfColumns /\ l \in OfRows
      BY <1>4, <2>1, <2>2 DEF OfColumns, OfRows
    <3> QED BY <1>2, <1>4, <1>5, <3>1, EditsCommute
  <2>3. CASE l = "fixed"
    <3>1. k \in OfRows /\ l \in OfColumns
      BY <1>4, <2>1, <2>3 DEF OfColumns, OfRows
    <3> QED BY <1>2, <1>4, <1>5, <3>1, EditsCommute
  <2>4. CASE k # "fixed" /\ l # "fixed"
    <3>1. k \in OfRows /\ l \in OfRows
      BY <2>1, <2>4 DEF OfRows
    <3>2. \A row : IsRow(row, Len(p.cols)) => OnRow(x, OnRow(y, row)) = OnRow(y, OnRow(x, row))
      BY <1>4, <1>5, <1>11, <2>1, <2>4, RowChangesCommute
    <3> QED BY <1>2, <1>4, <1>5, <3>1, <3>2, EditsCommute
  <2> QED BY <2>2, <2>3, <2>4
<1> QED BY <1>9, <1>10, <1>11 DEF ByRow, ByColumn

(* Changed coefficients commute with the edits of the other lists.         *)
LEMMA EntriesCommute ==
  ASSUME NEW m \in ByRow \cup ByColumn, NEW p, NEW W \in SUBSET Reach(m, p),
         NEW a \in EditsOf(m, p, W), NEW b \in EditsOf(m, p, W),
         \A l \in ListNames \ {"entries"} : b[l] = << >>
  PROVE  Commuting(Variants(p, RowsWith(m, p, W), ColumnsWith(m, p, W)), a, b)
<1> DEFINE R == RowsWith(m, p, W)
           C == ColumnsWith(m, p, W)
           E == PlacesWith(m, p, W)
<1>2. R \in SUBSET Rows(p) /\ C \in SUBSET Columns(p)
  BY VisitsReach
<1>3. a \in EditsIn(p, R, C, E) /\ b \in EditsIn(p, R, C, E)
  BY DEF EditsOf
<1> HIDE DEF R, C, E
<1>4. SUFFICES ASSUME NEW q, IsVariant(q, p, R, C), NEW k \in ListNames, NEW l \in ListNames, k # l,
                      NEW x \in Range(Listed(k, a[k])), NEW y \in Range(Listed(l, b[l]))
               PROVE  Apply(Apply(q, x), y) = Apply(Apply(q, y), x)
  BY VariantsAre DEF Commuting, R, C
<1>5. /\ x \in Tagged(p, R, C, E) /\ x[1] = k /\ a[k] # << >>
      /\ y \in Tagged(p, R, C, E) /\ y[1] = l /\ b[l] # << >>
  BY <1>3, ElementOf
<1>6. l = "entries" /\ k \in Lists(m) /\ l \in Lists(m)
  BY <1>5, ListUsed
<1>7. k \in {"fixed", "lefts", "rights"}
  <2>1. m \in {"fixing", "coefficient", "consround"}
    BY <1>6 DEF Lists, ByRow, ByColumn
  <2> QED BY <1>4, <1>6, <2>1 DEF Lists
<1>8. CASE k = "fixed"
  <2>1. k \in OfColumns /\ l \in OfRows
    BY <1>6, <1>8 DEF OfColumns, OfRows
  <2> QED BY <1>2, <1>4, <1>5, <2>1, EditsCommute
<1>9. CASE k \in {"lefts", "rights"}
  <2>1. k \in OfRows /\ l \in OfRows
    BY <1>6, <1>9 DEF OfRows
  <2>2. \A row : IsRow(row, Len(p.cols)) => OnRow(x, OnRow(y, row)) = OnRow(y, OnRow(x, row))
    BY <1>5, <1>6, <1>9, RowChangesCommute
  <2> QED BY <1>2, <1>4, <1>5, <2>1, <2>2, EditsCommute
<1> QED BY <1>7, <1>8, <1>9

-------------------------------------------------------------------------------
(* Joined edits: with none, without coefficients, with only coefficients.  *)
Bare(e)        == [e EXCEPT !.entries = <<>>]
OnlyEntries(s) == [NoEdits EXCEPT !.entries = s]

HasLists(e) == DOMAIN e = ListNames /\ e = [k \in ListNames |-> e[k]]

(* The lists of such records.                                              *)
LEMMA ListsOf ==
  ASSUME NEW p, NEW R, NEW C, NEW E, NEW e \in EditsIn(p, R, C, E), NEW s
  PROVE  /\ HasLists(e) /\ HasLists(Bare(e)) /\ HasLists(NoEdits) /\ HasLists(OnlyEntries(s))
         /\ \A k \in ListNames :
              /\ Bare(e)[k] = IF k = "entries" THEN << >> ELSE e[k]
              /\ NoEdits[k] = << >>
              /\ OnlyEntries(s)[k] = IF k = "entries" THEN s ELSE << >>
<1>1. DOMAIN e = ListNames /\ e = [k \in ListNames |-> e[k]] /\ "entries" \in DOMAIN e
  BY DEF EditsIn, ListNames
<1>2. /\ DOMAIN NoEdits = ListNames /\ NoEdits = [k \in ListNames |-> NoEdits[k]]
      /\ \A k \in ListNames : NoEdits[k] = << >>
  BY DEF NoEdits, ListNames
<1>3. "entries" \in DOMAIN NoEdits
  BY <1>2 DEF ListNames
<1> QED BY <1>1, <1>2, <1>3 DEF Bare, OnlyEntries, HasLists

(* The lists of joined edits are joined.                                   *)
LEMMA ListsJoined ==
  ASSUME NEW e, HasLists(e), NEW f
  PROVE  HasLists(Join(e, f)) /\ \A k \in ListNames : Join(e, f)[k] = e[k] \o f[k]
BY DEF Join, HasLists

(* Edits are equal whose lists are.                                        *)
LEMMA SameLists ==
  ASSUME NEW e, NEW f, HasLists(e), HasLists(f), \A k \in ListNames : e[k] = f[k]
  PROVE  e = f
BY DEF HasLists

(* Joining with nothing; joining a visit to the batch, without its         *)
(* coefficients; joining the coefficients last.                            *)
LEMMA JoinAlgebra ==
  ASSUME NEW p, NEW R, NEW C, NEW E, NEW a \in EditsIn(p, R, C, E),
         NEW b \in EditsIn(p, R, C, E), NEW e \in EditsIn(p, R, C, E)
  PROVE  /\ Join(a, NoEdits) = a
         /\ Join(Join(a, Bare(b)), Bare(e)) = Join(a, Bare(Join(b, e)))
         /\ Join(Join(a, Bare(b)), OnlyEntries(b.entries)) = Join(a, b)
<1> DEFINE s  == b.entries
           be == Join(b, e)
           aB == Join(a, Bare(b))
<1>1. /\ HasLists(a) /\ HasLists(aB) /\ HasLists(be)
      /\ \A k \in ListNames : be[k] = b[k] \o e[k] /\ aB[k] = a[k] \o Bare(b)[k]
  <2>1. HasLists(a) /\ HasLists(b)
    BY ListsOf
  <2> QED BY <2>1, ListsJoined
<1>2. \A k \in ListNames : /\ Bare(b)[k] = IF k = "entries" THEN << >> ELSE b[k]
                           /\ Bare(e)[k] = IF k = "entries" THEN << >> ELSE e[k]
                           /\ NoEdits[k] = << >>
                           /\ OnlyEntries(s)[k] = IF k = "entries" THEN s ELSE << >>
  <2> HIDE DEF s
  <2> QED BY ListsOf
<1>3. \A k \in ListNames : Bare(be)[k] = IF k = "entries" THEN << >> ELSE be[k]
  BY <1>1 DEF Bare, HasLists
<1>4. s = b["entries"]
  OBVIOUS
<1> HIDE DEF s, be, aB
<1>5. ASSUME NEW k \in ListNames
      PROVE  /\ a[k] \o << >> = a[k]
             /\ (a[k] \o << >>) \o << >> = a[k] \o << >>
             /\ (a[k] \o b[k]) \o e[k] = a[k] \o (b[k] \o e[k])
             /\ (a[k] \o << >>) \o b[k] = a[k] \o b[k]
             /\ (a[k] \o b[k]) \o << >> = a[k] \o b[k]
  <2>1. PICK S : \A f \in EditsIn(p, R, C, E) : f[k] \in Seq(S)
    BY FieldTyped
  <2> DEFINE x == a[k]
             y == b[k]
             z == e[k]
  <2>2. x \in Seq(S) /\ y \in Seq(S) /\ z \in Seq(S)
    BY <2>1
  <2> HIDE DEF x, y, z
  <2>3. x \o << >> = x
    BY <2>2
  <2>4. x \o y \in Seq(S)
    BY <2>2
  <2>5. (x \o y) \o << >> = x \o y
    BY <2>4
  <2>6. (x \o y) \o z = x \o (y \o z)
    BY <2>2, ConcatAssociative
  <2> QED BY <2>3, <2>5, <2>6 DEF x, y, z
<1>6. Join(a, NoEdits) = a
  <2> DEFINE l == Join(a, NoEdits)
             r == a
  <2>1. /\ HasLists(l) /\ HasLists(r)
        /\ \A k \in ListNames : l[k] = a[k] \o NoEdits[k] /\ r[k] = a[k]
    BY <1>1, ListsJoined
  <2> HIDE DEF l, r
  <2>2. ASSUME NEW k \in ListNames  PROVE l[k] = r[k]
    <3>1. l[k] = a[k] \o NoEdits[k] /\ r[k] = a[k]
      BY <2>1
    <3>2. NoEdits[k] = << >>
      BY <1>2
    <3>3. a[k] \o << >> = a[k]
      BY <1>5
    <3> QED BY <3>1, <3>2, <3>3, <1>4
  <2> QED BY <2>1, <2>2, SameLists DEF l, r
<1>7. Join(aB, Bare(e)) = Join(a, Bare(be))
  <2> DEFINE l == Join(aB, Bare(e))
             r == Join(a, Bare(be))
  <2>1. /\ HasLists(l) /\ HasLists(r)
        /\ \A k \in ListNames : l[k] = aB[k] \o Bare(e)[k] /\ r[k] = a[k] \o Bare(be)[k]
    BY <1>1, ListsJoined
  <2> HIDE DEF l, r
  <2>2. ASSUME NEW k \in ListNames  PROVE l[k] = r[k]
    <3>1. l[k] = aB[k] \o Bare(e)[k] /\ r[k] = a[k] \o Bare(be)[k]
      BY <2>1
    <3>2. /\ aB[k] = a[k] \o Bare(b)[k] /\ be[k] = b[k] \o e[k]
          /\ Bare(b)[k] = (IF k = "entries" THEN << >> ELSE b[k])
          /\ Bare(e)[k] = (IF k = "entries" THEN << >> ELSE e[k])
          /\ Bare(be)[k] = (IF k = "entries" THEN << >> ELSE be[k])
      BY <1>1, <1>2, <1>3
    <3>3. /\ (a[k] \o << >>) \o << >> = a[k] \o << >>
          /\ (a[k] \o b[k]) \o e[k] = a[k] \o (b[k] \o e[k])
      BY <1>5
    <3> QED BY <3>1, <3>2, <3>3, <1>4
  <2> QED BY <2>1, <2>2, SameLists DEF l, r
<1>8. Join(aB, OnlyEntries(s)) = Join(a, b)
  <2> DEFINE l == Join(aB, OnlyEntries(s))
             r == Join(a, b)
  <2>1. /\ HasLists(l) /\ HasLists(r)
        /\ \A k \in ListNames : l[k] = aB[k] \o OnlyEntries(s)[k] /\ r[k] = a[k] \o b[k]
    BY <1>1, ListsJoined
  <2> HIDE DEF l, r
  <2>2. ASSUME NEW k \in ListNames  PROVE l[k] = r[k]
    <3>1. l[k] = aB[k] \o OnlyEntries(s)[k] /\ r[k] = a[k] \o b[k]
      BY <2>1
    <3>2. /\ aB[k] = a[k] \o Bare(b)[k]
          /\ Bare(b)[k] = (IF k = "entries" THEN << >> ELSE b[k])
          /\ OnlyEntries(s)[k] = (IF k = "entries" THEN s ELSE << >>)
      BY <1>1, <1>2
    <3>3. /\ (a[k] \o << >>) \o b[k] = a[k] \o b[k]
          /\ (a[k] \o b[k]) \o << >> = a[k] \o b[k]
      BY <1>5
    <3> QED BY <3>1, <3>2, <3>3, <1>4
  <2> QED BY <2>1, <2>2, SameLists DEF l, r
<1> QED BY <1>6, <1>7, <1>8 DEF s, be, aB

(* Replaying no edits, and only coefficients.                              *)
LEMMA ReplayFew ==
  ASSUME NEW q, NEW U, NEW s \in Seq(U)
  PROVE  /\ Replay(q, NoEdits) = q
         /\ Replay(q, OnlyEntries(s)) = ApplyEntries(q, s)
<1> DEFINE L == Listed("entries", s)
<1>1. \A k : Listed(k, << >>) = << >>
  BY DEF Listed
<1>2. L \in Seq({"entries"} \X U)
  BY ListedTyped
<1> HIDE DEF L
<1>3. << >> \o << >> = << >> /\ << >> \o L = L /\ L \o << >> = L
  BY <1>2
<1>4. \A k \in ListNames : NoEdits[k] = << >> /\ (k # "entries" => OnlyEntries(s)[k] = << >>)
  BY DEF NoEdits, OnlyEntries, ListNames
<1>5. OnlyEntries(s).entries = s
  BY DEF OnlyEntries, NoEdits
<1>6. InOrder(NoEdits) = << >>
  BY <1>1, <1>3 DEF NoEdits, InOrder
<1>7. InOrder(OnlyEntries(s)) = L
  <2> DEFINE o == OnlyEntries(s)
  <2>1. /\ o.rows = << >> /\ o.domains = << >> /\ o.sides = << >> /\ o.fixed = << >>
        /\ o.lefts = << >> /\ o.rights = << >> /\ o.objs = << >> /\ o.lowers = << >>
        /\ o.uppers = << >> /\ o.entries = s
    BY <1>5 DEF OnlyEntries, NoEdits
  <2> HIDE DEF o
  <2>2. InOrder(o) = L
    BY <1>1, <1>3, <2>1 DEF InOrder, L
  <2> QED BY <2>2 DEF o
<1>8. \A e : Replay(q, e) = Editing!Over(q, InOrder(e))
  BY EditingIsFold DEF Replay, InOrder
<1>9. ApplyEntries(q, s) = Editing!Over(q, L)
  BY EditingIsFold DEF ApplyEntries, L
<1> QED BY <1>6, <1>7, <1>8, <1>9, Editing!OverEmpty

-------------------------------------------------------------------------------
(* The copy is what the lists of edits make of the problem.                *)
ScannedEdits(i) ==
  IF IsAdmissible(modifier, copy, i) THEN Edits(modifier, copy, i) ELSE NoEdits

(* The edits of the next visit are edits of a place not yet visited.       *)
LEMMA VisitMade ==
  ASSUME IInv, position < Length(modifier)
  PROVE  LET i == Visited(position + 1)
         IN  /\ ScannedEdits(i) \in EditsOf(modifier, problem, {i}) /\ i \notin VisitedSoFar
             /\ VisitedSoFar \cup {i} \in SUBSET Reach(modifier, problem)
<1> DEFINE m == modifier
           V == VisitedSoFar
           i == Visited(position + 1)
           e == ScannedEdits(i)
<1>1. /\ m \in ByRow \cup ByColumn /\ Length(m) \in Nat /\ WellFormed(problem)
      /\ ReferenceFits(problem, solution) /\ EditsFor(V) /\ position \in Nat
  BY Running DEF PositionOf
<1>2. i \in 1..Length(m) /\ i \notin V
  BY <1>1, VisitsDiffer DEF VisitedSoFar
<1>3. V \cup {i} \in SUBSET Reach(m, problem)
  <2>1. V \in SUBSET Reach(m, problem)
    BY VisitedReach
  <2>2. i \in Reach(m, problem)
    BY <1>1, <1>2, LengthReach
  <2> QED BY <2>1, <2>2
<1>4. e \in EditsOf(m, problem, {i})
  <2>1. Edits(m, copy, i) \in EditsOf(m, problem, {i})
    <3>1. (m \in ByRow => i \in Rows(problem)) /\ (m \in ByColumn => i \in Columns(problem))
      BY <1>1, <1>2, LengthReach
    <3>2. Fits(problem)
      BY <1>1 DEF Fits
    <3>3. IsVariant(copy, problem, RowsWith(m, problem, V), ColumnsWith(m, problem, V))
      BY <1>1 DEF EditsFor, VariantOf
    <3> HIDE DEF m, i, V
    <3> QED BY <1>1, <3>1, <3>2, <3>3, VisitTyped
  <2>2. NoEdits \in EditsOf(m, problem, {i})
    BY NothingEdited
  <2> QED BY <2>1, <2>2 DEF ScannedEdits
<1> QED BY <1>2, <1>3, <1>4

(* A list of coefficients alone is an edit of the visits it is taken from. *)
LEMMA EntriesAlone ==
  ASSUME NEW m \in ByRow \cup ByColumn, NEW p, NEW V, NEW e \in EditsOf(m, p, V)
  PROVE  OnlyEntries(e.entries) \in EditsOf(m, p, V)
<1> DEFINE R == RowsWith(m, p, V)
           C == ColumnsWith(m, p, V)
           E == PlacesWith(m, p, V)
           s == e.entries
           o == OnlyEntries(s)
<1>1. s \in Seq(Entries(p, R, E))
  BY EntriesIn
<1>2. e \in EditsIn(p, R, C, E) /\ \A k \in DOMAIN e \ Lists(m) : e[k] = << >>
  BY DEF EditsOf
<1>3. HasLists(e) /\ HasLists(o) /\ \A k \in ListNames : o[k] = IF k = "entries" THEN s ELSE << >>
  <2> HIDE DEF R, C, E, s
  <2> QED BY <1>2, ListsOf
<1>4. \A k \in DOMAIN o \ Lists(m) : o[k] = << >>
  BY <1>2, <1>3 DEF HasLists
<1> HIDE DEF R, C, E
<1>5. o \in EditsIn(p, R, C, E)
  <2>1. o = AllEdits(<<>>, <<>>, <<>>, <<>>, s, <<>>, <<>>, <<>>, <<>>, <<>>)
    BY DEF OnlyEntries, NoEdits, AllEdits
  <2>2. \A T : << >> \in Seq(T)
    OBVIOUS
  <2> HIDE DEF s, o
  <2> QED BY <1>1, <2>1, <2>2, EditsMade
<1> HIDE DEF o
<1>6. o \in EditsOf(m, p, V)
  BY <1>4, <1>5 DEF EditsOf, R, C, E
<1> QED BY <1>6 DEF o, s

(* What a visit makes of the copy, before a solve or not.                  *)
LEMMA ScanReplays ==
  ASSUME IInv, Zeta = 0 \/ modifier # "fixing", position < Length(modifier),
         copy = Replay(problem, Join(applied, Bare(batches)))
  PROVE  LET e    == ScannedEdits(Visited(position + 1))
             all  == Join(batches, e)
             seen == Replay(copy, Bare(e))
         IN  /\ seen = Replay(problem, Join(applied, Bare(all)))
             /\ ApplyEntries(seen, all.entries) = Replay(problem, Join(applied, all))
<1> DEFINE m    == modifier
           i    == Visited(position + 1)
           V    == VisitedSoFar
           W    == V \cup {i}
           e    == ScannedEdits(i)
           all  == Join(batches, e)
           a    == Join(applied, Bare(batches))
           f    == Bare(e)
           b    == Join(applied, Bare(all))
           o    == OnlyEntries(all.entries)
           R    == RowsWith(m, problem, W)
           C    == ColumnsWith(m, problem, W)
           E    == PlacesWith(m, problem, W)
<1>1. /\ e \in EditsOf(m, problem, {i}) /\ i \notin V /\ W \in SUBSET Reach(m, problem)
      /\ V \subseteq W /\ {i} \subseteq W
  <2> HIDE DEF V
  <2> QED BY VisitMade DEF V
<1>2. /\ m \in ByRow \cup ByColumn /\ WellFormed(problem)
      /\ applied \in EditsOf(m, problem, V) /\ batches \in EditsOf(m, problem, V)
  BY Running DEF EditsFor
<1> HIDE DEF m, i, V, e
<1>3. a \in EditsOf(m, problem, V) /\ f \in EditsOf(m, problem, {i})
  BY <1>1, <1>2, WithoutEntries, JoinOf DEF Bare
<1>4. /\ applied \in EditsOf(m, problem, W) /\ batches \in EditsOf(m, problem, W)
      /\ e \in EditsOf(m, problem, W) /\ a \in EditsOf(m, problem, W) /\ f \in EditsOf(m, problem, W)
  <2> HIDE DEF a, f, W
  <2> QED BY <1>1, <1>2, <1>3, MoreEdits
<1>5. all \in EditsOf(m, problem, W) /\ b \in EditsOf(m, problem, W)
  <2>1. all \in EditsOf(m, problem, W)
    BY <1>4, JoinOf
  <2> HIDE DEF all
  <2>2. Bare(all) \in EditsOf(m, problem, W)
    BY <2>1, WithoutEntries DEF Bare
  <2> QED BY <1>4, <2>1, <2>2, JoinOf
<1>6. o \in EditsOf(m, problem, W) /\ \A l \in ListNames \ {"entries"} : o[l] = << >>
  <2>1. o \in EditsOf(m, problem, W)
    <3> HIDE DEF all
    <3> QED BY <1>2, <1>5, EntriesAlone
  <2>2. \A l \in ListNames \ {"entries"} : o[l] = << >>
    BY DEF OnlyEntries, NoEdits, ListNames
  <2> QED BY <2>1, <2>2
<1>7. Zeta = 0 \/ m # "fixing"
  BY DEF m
<1> HIDE DEF a, f, b, o, all
<1>8. Commuting(Variants(problem, R, C), a, f)
  <2>1. W = V \cup {i}
    OBVIOUS
  <2> HIDE DEF W
  <2> QED BY <1>1, <1>2, <1>3, <1>7, <2>1, VisitsCommute
<1> HIDE DEF W
<1>9. Commuting(Variants(problem, R, C), b, o)
  BY <1>1, <1>2, <1>5, <1>6, EntriesCommute
<1>10. /\ a \in EditsIn(problem, R, C, E) /\ f \in EditsIn(problem, R, C, E)
       /\ b \in EditsIn(problem, R, C, E) /\ o \in EditsIn(problem, R, C, E)
       /\ applied \in EditsIn(problem, R, C, E) /\ batches \in EditsIn(problem, R, C, E)
       /\ e \in EditsIn(problem, R, C, E) /\ all \in EditsIn(problem, R, C, E)
  BY <1>4, <1>5, <1>6 DEF EditsOf
<1>11. R \in SUBSET Rows(problem) /\ C \in SUBSET Columns(problem)
  BY <1>1, VisitsReach
<1>12. IsVariant(problem, problem, R, C)
  BY <1>2, OwnVariant DEF VariantOf
<1>13. all.entries \in Seq(Entries(problem, R, E))
  BY <1>2, <1>5, EntriesIn
<1> HIDE DEF R, C, E
<1>14. Replay(Replay(problem, a), f) = Replay(problem, Join(a, f))
  BY <1>8, <1>10, <1>11, <1>12, ReplayJoin
<1>15. Replay(Replay(problem, b), o) = Replay(problem, Join(b, o))
  BY <1>9, <1>10, <1>11, <1>12, ReplayJoin
<1>16. Join(a, f) = b
  BY <1>10, JoinAlgebra DEF a, f, b, all
<1>17. Join(b, o) = Join(applied, all)
  BY <1>10, JoinAlgebra DEF b, o
<1>18. Replay(copy, f) = Replay(problem, b)
  BY <1>14, <1>16 DEF a
<1>19. ApplyEntries(Replay(copy, f), all.entries) = Replay(Replay(copy, f), o)
  BY <1>13, ReplayFew DEF o
<1>20. ApplyEntries(Replay(copy, f), all.entries) = Replay(problem, Join(applied, all))
  BY <1>15, <1>17, <1>18, <1>19
<1> QED BY <1>18, <1>20 DEF f, b, all, e, i

-------------------------------------------------------------------------------
(* Accepted edits with none pending are the accepted edits.                *)
LEMMA NothingPending ==
  ASSUME IInv
  PROVE  Join(applied, NoEdits) = applied /\ Join(Join(applied, batches), NoEdits) = Join(applied, batches)
<1>1. /\ applied \in EditsOf(modifier, problem, VisitedSoFar)
      /\ batches \in EditsOf(modifier, problem, VisitedSoFar)
  BY Running DEF EditsFor
<1>2. Join(applied, batches) \in EditsOf(modifier, problem, VisitedSoFar)
  BY <1>1, JoinOf
<1> DEFINE b == Join(applied, batches)
<1> HIDE DEF b
<1>3. Join(b, NoEdits) = b
  BY <1>2, JoinAlgebra DEF EditsOf, b
<1> QED BY <1>1, <1>3, JoinAlgebra DEF EditsOf, b

(* No edits have no coefficients, and leave a problem as it is.            *)
LEMMA NothingReplayed ==
  Bare(NoEdits) = NoEdits /\ \A q : Replay(q, NoEdits) = q
<1>1. Bare(NoEdits) = NoEdits
  BY DEF Bare, NoEdits
<1>2. << >> \in Seq({})
  OBVIOUS
<1> QED BY <1>1, <1>2, ReplayFew

(* The copy is the replayed one when a modifier starts, scans ...          *)
LEMMA ScanReplaysInv ==
  ASSUME IInv, ReplayInv, Scan, Zeta = 0 \/ modifier # "fixing"
  PROVE  ReplayInv'
<1> DEFINE i    == Visited(position + 1)
           e    == ScannedEdits(i)
           hit  == IsAdmissible(modifier, copy, i)
           all  == Join(batches, e)
           size == batch + (IF hit THEN 1 ELSE 0)
           last == position + 1 = Length(modifier)
           due  == size >= 1 /\ (size >= batchsize \/ last)
           seen == Replay(copy, Bare(e))
<1>1. /\ pc = "scan"
      /\ copy' = IF due THEN ApplyEntries(seen, all.entries) ELSE seen
      /\ batches' = all
      /\ pc' = IF due THEN "solve" ELSE IF last THEN "finish" ELSE "scan"
      /\ UNCHANGED <<problem, applied, confirmed>>
  BY DEF Scan, ScannedEdits, Bare
<1>2. position < Length(modifier)
  BY <1>1, Running DEF PositionOf
<1>3. confirmed = Replay(problem, applied) /\ copy = Replay(problem, Join(applied, Bare(batches)))
  BY <1>1 DEF ReplayInv, Pending, Bare
<1>4. /\ seen = Replay(problem, Join(applied, Bare(all)))
      /\ ApplyEntries(seen, all.entries) = Replay(problem, Join(applied, all))
  BY <1>2, <1>3, ScanReplays
<1> HIDE DEF due, seen, all, last
<1>5. Pending' = IF due THEN all ELSE Bare(all)
  BY <1>1 DEF Pending, Bare
<1>6. copy' = Replay(problem, Join(applied, Pending'))
  BY <1>1, <1>4, <1>5
<1> QED BY <1>1, <1>3, <1>6 DEF ReplayInv

(* ... is solved ...                                                       *)
LEMMA ResumeReplays ==
  ASSUME IInv, ReplayInv, Reject \/ Accept
  PROVE  ReplayInv'
<1>1. /\ pc = "solve" /\ pc' # "solve" /\ batches' = NoEdits /\ problem' = problem
  BY DEF Reject, Accept, Resume
<1>2. Pending = batches /\ Pending' = NoEdits
  BY <1>1, NothingReplayed DEF Pending, Bare
<1>3. /\ confirmed = Replay(problem, applied)
      /\ copy = Replay(problem, Join(applied, batches))
  BY <1>2 DEF ReplayInv
<1>4. CASE Reject
  <2>1. copy' = Replay(problem, applied) /\ UNCHANGED <<applied, confirmed>>
    BY <1>4 DEF Reject, Rebuilt
  <2> QED BY <1>1, <1>2, <1>3, <2>1, NothingPending DEF ReplayInv
<1>5. CASE Accept
  <2>1. applied' = Join(applied, batches) /\ confirmed' = copy /\ copy' = copy
    BY <1>5 DEF Accept
  <2> QED BY <1>1, <1>2, <1>3, <2>1, NothingPending DEF ReplayInv
<1> QED BY <1>4, <1>5

(* ... and handed back.                                                    *)
LEMMA NextReplays ==
  ASSUME IInv, ReplayInv, [Next]_vars, Zeta = 0 \/ modifier # "fixing"
  PROVE  ReplayInv'
<1>1. CASE Start
  <2>1. /\ UNCHANGED <<problem, copy, applied, batches, confirmed>>
        /\ pc = "idle" /\ pc' \in {"scan", "finish"}
    BY <1>1, Zenon DEF Start
  <2>2. Pending' = Pending
    BY <2>1 DEF Pending
  <2> QED BY <2>1, <2>2 DEF ReplayInv
<1>2. CASE Skip \/ UNCHANGED vars
  <2>1. UNCHANGED <<pc, problem, copy, applied, batches, confirmed>>
    BY <1>2 DEF Skip, vars
  <2>2. Pending' = Pending
    BY <2>1 DEF Pending
  <2> QED BY <2>1, <2>2 DEF ReplayInv
<1>3. CASE Finish
  <2>1. /\ pc = "finish" /\ pc' = "idle" /\ copy' = problem' /\ confirmed' = problem'
        /\ applied' = NoEdits /\ batches' = batches
    BY <1>3 DEF Finish
  <2>2. batches = NoEdits
    BY <2>1, Running DEF PositionOf
  <2>3. Pending' = NoEdits
    BY <2>1, <2>2, NothingReplayed DEF Pending, Bare
  <2>4. Join(NoEdits, NoEdits) = NoEdits
    BY NothingEdited
  <2> QED BY <2>1, <2>3, <2>4, NothingReplayed DEF ReplayInv
<1> QED BY <1>1, <1>2, <1>3, ScanReplaysInv, ResumeReplays DEF Next

(* Nothing is edited before something was admissible.                      *)
LEMMA NextAdmissible ==
  ASSUME IInv, AdmissibleInv, [Next]_vars
  PROVE  AdmissibleInv'
<1>1. CASE Start
  <2>1. UNCHANGED <<applied, batch, admissible>> /\ pc' \in {"scan", "finish"}
    BY <1>1, Zenon DEF Start
  <2> QED BY <2>1 DEF AdmissibleInv
<1>2. CASE Skip \/ UNCHANGED vars
  <2>1. UNCHANGED <<pc, applied, batch, admissible>>
    BY <1>2 DEF Skip, vars
  <2> QED BY <2>1 DEF AdmissibleInv
<1>3. CASE Scan
  <2> DEFINE hit  == IsAdmissible(modifier, copy, Visited(position + 1))
             size == batch + (IF hit THEN 1 ELSE 0)
             last == position + 1 = Length(modifier)
             due  == size >= 1 /\ (size >= batchsize \/ last)
  <2>1. /\ batch' = size /\ admissible' = (admissible \/ hit) /\ applied' = applied
        /\ pc' = IF due THEN "solve" ELSE IF last THEN "finish" ELSE "scan"
    BY <1>3 DEF Scan
  <2>2. batch \in Nat
    BY Running DEF PositionOf
  <2> HIDE DEF hit, last
  <2>3. ASSUME ~ admissible'  PROVE batch' = 0 /\ applied' = NoEdits
    <3>1. ~ admissible /\ ~ hit
      BY <2>1, <2>3
    <3> QED BY <2>1, <3>1 DEF AdmissibleInv
  <2>4. pc' = "solve" => batch' > 0
    BY <2>1, <2>2
  <2> QED BY <2>3, <2>4 DEF AdmissibleInv
<1>4. CASE Reject \/ Accept
  <2>1. /\ pc = "solve" /\ pc' # "solve" /\ batch' = 0 /\ admissible' = admissible
    BY <1>4 DEF Reject, Accept, Resume
  <2>2. admissible
    <3>1. batch \in Nat
      BY Running DEF PositionOf
    <3> QED BY <2>1, <3>1 DEF AdmissibleInv
  <2> QED BY <2>1, <2>2 DEF AdmissibleInv
<1>5. CASE Finish
  <2>1. pc = "finish" /\ pc' = "idle" /\ applied' = NoEdits /\ batch' = batch
    BY <1>5 DEF Finish
  <2>2. batch = 0
    BY <2>1, Running DEF PositionOf
  <2> QED BY <2>1, <2>2 DEF AdmissibleInv
<1> QED BY <1>1, <1>2, <1>3, <1>4, <1>5 DEF Next

(***************************************************************************)
(* What a success hands back is what the last solve has shown to have the  *)
(* bug, whatever was tried and rejected in between (modifiers rebuild the  *)
(* copy from their lists).  With a zeta above zero the sides that the      *)
(* fixing modifier changes depend on each other, and the order of the      *)
(* lists on the order of the changes, which is why it is left out there.   *)
(***************************************************************************)
THEOREM SuccessIsConfirmed ==
  ASSUME Zeta = 0 \/ "fixing" \notin Modifiers
  PROVE  Spec => AdoptedIsConfirmed
<1> DEFINE Inv == IInv /\ ReplayInv /\ AdmissibleInv
<1>1. Init => Inv
  <2> SUFFICES ASSUME Init  PROVE Inv
    OBVIOUS
  <2>1. /\ copy = problem /\ confirmed = problem /\ pc = "idle" /\ batch = 0
        /\ applied = NoEdits /\ batches = NoEdits
    BY DEF Init
  <2>2. Pending = NoEdits /\ Join(NoEdits, NoEdits) = NoEdits
    BY <2>1, NothingReplayed, NothingEdited DEF Pending, Bare
  <2>3. ReplayInv /\ AdmissibleInv
    BY <2>1, <2>2, NothingReplayed DEF ReplayInv, AdmissibleInv
  <2> QED BY <2>3, Initially
<1>2. Inv /\ [Next]_vars => Inv'
  <2> SUFFICES ASSUME Inv, [Next]_vars  PROVE Inv'
    OBVIOUS
  <2>1. Zeta = 0 \/ modifier # "fixing"
    BY Running DEF PositionOf
  <2>2. IInv'
    BY SkipKeeps, StartKeeps, ScanKeeps, RejectKeeps, AcceptKeeps, FinishKeeps, StutterKeeps
       DEF Next
  <2> QED BY <2>1, <2>2, NextReplays, NextAdmissible
<1>3. Inv /\ [Next]_vars =>
        [pc = "finish" => IF status' = "Successful" THEN problem' = confirmed
                                                    ELSE UNCHANGED problem]_vars
  <2> SUFFICES ASSUME Inv, [Next]_vars, ~ UNCHANGED vars, pc = "finish"
               PROVE  IF status' = "Successful" THEN problem' = confirmed ELSE UNCHANGED problem
    OBVIOUS
  <2>1. Finish
    BY DEF Next, Skip, Start, Scan, Reject, Accept, Resume
  <2>2. /\ status' = IF ~ admissible THEN "NotAdmissible"
                     ELSE IF Succeeds THEN "Successful" ELSE "Unsuccesful"
        /\ problem' = IF Succeeds THEN copy ELSE problem
    BY <2>1 DEF Finish
  <2>3. batches = NoEdits
    BY Running DEF PositionOf
  <2>4. copy = confirmed
    <3>1. Pending = NoEdits
      BY <2>3, NothingReplayed DEF Pending, Bare
    <3> QED BY <3>1, NothingPending DEF ReplayInv
  <2>5. ASSUME ~ admissible  PROVE ~ Succeeds
    <3>1. applied = NoEdits /\ NoEdits.entries = << >>
      BY <2>5, NothingEdited DEF AdmissibleInv
    <3> QED BY <3>1 DEF Succeeds
  <2> QED BY <2>2, <2>4, <2>5
<1> QED BY <1>1, <1>2, <1>3, PTL DEF Spec, AdoptedIsConfirmed
===============================================================================
