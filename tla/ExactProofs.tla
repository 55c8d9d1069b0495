------------------------------ MODULE ExactProofs ------------------------------
(***************************************************************************)
(* Proofs about the modifiers of rows and columns that compute with exact  *)
(* numbers: the reference solution stays true of every problem that is     *)
(* solved, and every success hands back a problem that is lighter than the *)
(* one before.  The tolerances are zero where a theorem says so.           *)
(***************************************************************************)
EXTENDS ReductionsProofs

-------------------------------------------------------------------------------
(* Rounding to whole numbers, exactly.                                     *)
Exact == Zeta = 0 /\ Epsilon = 0

(* Rounding moves a number by less than One, and down or up if it is meant *)
(* to.                                                                     *)
LEMMA RoundNear ==
  ASSUME NEW s \in Int
  PROVE  /\ s - One < Round(s) /\ Round(s) < s + One /\ Round(s) \in Int
         /\ s - One < Floor(s) /\ Floor(s) <= s /\ Floor(s) \in Int
         /\ s <= Ceil(s) /\ Ceil(s) < s + One /\ Ceil(s) \in Int
<1> DEFINE h == One \div 2
<1>1. One \in Nat \ {0} /\ h \in Int /\ One = 2 * h /\ 0 < h
  BY TolerancesAssumption DEF TolerancesAssumption
<1>2. ASSUME NEW a \in Int  PROVE a - One < Floor(a) /\ Floor(a) <= a /\ Floor(a) \in Int
  <2>1. a % One \in Int /\ 0 <= a % One /\ a % One < One
    BY <1>1
  <2> QED BY <1>1, <2>1 DEF Floor
<1>3. Ceil(s) = -Floor(-s) /\ -s \in Int
  BY DEF Ceil
<1>4. /\ s < 0 => Round(s) = -Floor(-s + h)
      /\ ~ (s < 0) => Round(s) = Floor(s + h)
  BY DEF Round
<1> HIDE DEF h
<1>5. -s + h \in Int /\ s + h \in Int
  BY <1>1
<1>6. /\ -s - One < Floor(-s) /\ Floor(-s) <= -s /\ Floor(-s) \in Int
      /\ s - One < Floor(s) /\ Floor(s) <= s /\ Floor(s) \in Int
  BY <1>2, <1>3
<1>7. /\ (-s + h) - One < Floor(-s + h) /\ Floor(-s + h) <= -s + h /\ Floor(-s + h) \in Int
      /\ (s + h) - One < Floor(s + h) /\ Floor(s + h) <= s + h /\ Floor(s + h) \in Int
  BY <1>2, <1>5
<1>8. s - One < Round(s) /\ Round(s) < s + One /\ Round(s) \in Int
  <2>1. CASE s < 0
    BY <1>1, <1>4, <1>7, <2>1
  <2>2. CASE ~ (s < 0)
    BY <1>1, <1>4, <1>7, <2>2
  <2> QED BY <2>1, <2>2
<1> QED BY <1>1, <1>3, <1>6, <1>8

(* Whole numbers less than One apart are in order.                         *)
LEMMA WholeOrder ==
  ASSUME NEW u, Whole(u), NEW w, Whole(w), u < w + One
  PROVE  u <= w
<1>1. PICK j \in Int : u = j * One
  BY DEF Whole
<1>2. PICK k \in Int : w = k * One
  BY DEF Whole
<1>3. One \in Nat \ {0} /\ u \in Int /\ w \in Int
  BY TolerancesAssumption DEF TolerancesAssumption, Whole
<1>4. ASSUME j >= k + 1  PROVE FALSE
  <2>1. j * One >= (k + 1) * One
    BY <1>3, <1>4
  <2>2. (k + 1) * One = k * One + One
    BY <1>3
  <2> QED BY <1>1, <1>2, <1>3, <2>1, <2>2
<1>5. j <= k
  BY <1>4
<1>6. j * One <= k * One
  BY <1>3, <1>5
<1> QED BY <1>1, <1>2, <1>6

(* Rounding does not cross a whole number, and leaves it as it is.         *)
LEMMA RoundSafe ==
  ASSUME NEW a, Whole(a), NEW s \in Int
  PROVE  /\ a \in Int /\ Round(a) = a /\ Floor(a) = a /\ Ceil(a) = a
         /\ s <= a => Round(s) <= a
         /\ a <= s => a <= Round(s)
<1>1. a \in Int /\ One \in Int
  BY TolerancesAssumption DEF TolerancesAssumption, Whole
<1>2. Whole(Round(a)) /\ Whole(Floor(a)) /\ Whole(Ceil(a)) /\ Whole(Round(s))
  BY <1>1, WholeArithmetic
<1>3. /\ a - One < Round(a) /\ Round(a) < a + One /\ Round(a) \in Int
      /\ a - One < Floor(a) /\ Floor(a) <= a /\ Floor(a) \in Int
      /\ a <= Ceil(a) /\ Ceil(a) < a + One /\ Ceil(a) \in Int
      /\ s - One < Round(s) /\ Round(s) < s + One /\ Round(s) \in Int
  BY <1>1, RoundNear
<1>4. Round(a) <= a /\ a <= Round(a)
  <2>1. a < Round(a) + One
    BY <1>1, <1>3
  <2> QED BY <1>2, <1>3, <2>1, WholeOrder
<1>5. a <= Floor(a)
  <2>1. a < Floor(a) + One
    BY <1>1, <1>3
  <2> QED BY <1>2, <2>1, WholeOrder
<1>6. Ceil(a) <= a
  BY <1>2, <1>3, WholeOrder
<1>7. ASSUME s <= a  PROVE Round(s) <= a
  <2>1. Round(s) < a + One
    BY <1>1, <1>3, <1>7
  <2> QED BY <1>2, <2>1, WholeOrder
<1>8. ASSUME a <= s  PROVE a <= Round(s)
  <2>1. a < Round(s) + One
    BY <1>1, <1>3, <1>8
  <2> QED BY <1>2, <2>1, WholeOrder
<1> QED BY <1>1, <1>3, <1>4, <1>5, <1>6, <1>7, <1>8

(* A number that is its own rounding is whole; so is the product of two.   *)
LEMMA WholeProducts ==
  /\ \A v \in Int : v = Round(v) => Whole(v)
  /\ \A v, w : Whole(v) /\ Whole(w) => Whole(Times(v, w)) /\ Whole(v + w)
  /\ \A v \in Int : Times(0, v) = 0 /\ Times(v, 0) = 0
<1>1. One \in Nat \ {0}
  BY TolerancesAssumption DEF TolerancesAssumption
<1>2. ASSUME NEW v, NEW w, Whole(v), Whole(w)  PROVE Whole(Times(v, w)) /\ Whole(v + w)
  <2>1. PICK j \in Int : v = j * One
    BY <1>2 DEF Whole
  <2>2. PICK k \in Int : w = k * One
    BY <1>2 DEF Whole
  <2> DEFINE m == j * w
  <2>3. v * w = m * One /\ m \in Int /\ w \in Int
    <3>1. w \in Int
      BY <1>2 DEF Whole
    <3> QED BY <1>1, <2>1, <3>1
  <2>4. m = (j * k) * One /\ j * k \in Int
    BY <1>1, <2>2
  <2> HIDE DEF m
  <2>5. (m * One) \div One = m
    BY <1>1, <2>3
  <2>6. Times(v, w) = m
    BY <2>3, <2>5 DEF Times
  <2>7. v + w = (j + k) * One /\ j + k \in Int /\ v + w \in Int
    BY <1>1, <2>1, <2>2
  <2> QED BY <2>3, <2>4, <2>6, <2>7 DEF Whole
<1>3. ASSUME NEW v \in Int  PROVE Times(0, v) = 0 /\ Times(v, 0) = 0
  <2>1. 0 * v = 0 /\ v * 0 = 0 /\ 0 \div One = 0
    BY <1>1
  <2> QED BY <2>1 DEF Times
<1> QED BY <1>2, <1>3, WholeArithmetic

-------------------------------------------------------------------------------
(* Activities as sums, of which a part can be taken away.                  *)
Terms(row, x) == [c \in DOMAIN row.coef |-> Times(row.coef[c], x[c])]

Part(row, x, S) == Summing!Fold(0, Terms(row, x), S)

Valued(row, x) ==
  /\ IsFiniteSet(DOMAIN row.coef)
  /\ \A c \in DOMAIN row.coef : row.coef[c] \in Int /\ x[c] \in Int

(* The sums of the model add up numbers.                                   *)
LEMMA SumsAdd ==
  /\ Summing!Adds
  /\ \A f : SumFunction(f) = Summing!Fold(0, f, DOMAIN f)
  /\ \A S : IsFiniteSet(S) => Summing!IsFiniteSet(S) /\ Summing!Picks(S)
<1>1. Summing!Adds
  BY DEF Summing!Adds, Plus, Chosen
<1>2. ASSUME NEW f  PROVE SumFunction(f) = Summing!Fold(0, f, DOMAIN f)
  BY DEF SumFunction, SumFunctionOnSet, FoldFunctionOnSet, MapThenFoldSet,
         Summing!Fold, Summing!IsFold, Summing!FoldStep, Plus, Chosen
<1>3. ASSUME NEW S, IsFiniteSet(S)  PROVE Summing!IsFiniteSet(S) /\ Summing!Picks(S)
  BY <1>3 DEF IsFiniteSet, Summing!IsFiniteSet, Summing!Picks, Chosen
<1> QED BY <1>1, <1>2, <1>3

(* An activity is the sum of the terms of its row, which are integers.     *)
LEMMA ActivitySums ==
  ASSUME NEW row, NEW x, Valued(row, x)
  PROVE  /\ Activity(row, x) = Part(row, x, DOMAIN row.coef)
         /\ \A c \in DOMAIN row.coef : Terms(row, x)[c] = Times(row.coef[c], x[c])
         /\ \A S \in SUBSET DOMAIN row.coef : /\ IsFiniteSet(S) /\ Summing!IsFiniteSet(S)
                                              /\ Summing!Integers(Terms(row, x), S)
                                              /\ Part(row, x, S) \in Int
<1> DEFINE D == DOMAIN row.coef
           f == Terms(row, x)
<1>1. DOMAIN f = D /\ \A c \in D : f[c] = Times(row.coef[c], x[c])
  BY DEF Terms
<1>2. Activity(row, x) = SumFunction(f)
  BY DEF Activity, Terms
<1>3. \A c \in D : f[c] \in Int
  BY <1>1, TimesInteger DEF Valued
<1>4. ASSUME NEW S \in SUBSET D
      PROVE  /\ IsFiniteSet(S) /\ Summing!IsFiniteSet(S) /\ Summing!Integers(f, S)
             /\ Part(row, x, S) \in Int
  <2>1. IsFiniteSet(S) /\ Summing!IsFiniteSet(S) /\ Summing!Integers(f, S)
    BY <1>3, FS_Subset, SumsAdd DEF Valued, Summing!Integers
  <2> HIDE DEF f
  <2> QED BY <2>1, SumsAdd, Summing!SumTyped DEF Part, f
<1> HIDE DEF f
<1> QED BY <1>1, <1>2, <1>4, SumsAdd DEF Part, f

(* The activity of a row of which a part was taken away.                   *)
LEMMA ActivityLeft ==
  ASSUME NEW row, NEW new, NEW x, Valued(row, x), Valued(new, x),
         NEW cs \in SUBSET DOMAIN row.coef, DOMAIN new.coef \subseteq DOMAIN row.coef,
         \A c \in cs : Coefficient(new, c) = 0,
         \A c \in DOMAIN row.coef \ cs : Coefficient(new, c) = Coefficient(row, c)
  PROVE  Activity(row, x) = Part(row, x, cs) + Activity(new, x)
<1> DEFINE D == DOMAIN row.coef
           N == DOMAIN new.coef
           f == Terms(row, x)
           g == Terms(new, x)
           L == (D \ cs) \cap N
<1>1. /\ Activity(row, x) = Part(row, x, D) /\ Activity(new, x) = Part(new, x, N)
      /\ \A c \in D : f[c] = Times(row.coef[c], x[c])
      /\ \A c \in N : g[c] = Times(new.coef[c], x[c])
      /\ \A S \in SUBSET D : /\ IsFiniteSet(S) /\ Summing!IsFiniteSet(S)
                              /\ Summing!Integers(f, S)
      /\ \A S \in SUBSET N : /\ IsFiniteSet(S) /\ Summing!IsFiniteSet(S)
                              /\ Summing!Integers(g, S)
  BY ActivitySums
<1>2. \A c \in D : x[c] \in Int
  BY DEF Valued
<1>3. ASSUME NEW c \in N \ L  PROVE g[c] = 0
  <2>1. c \in cs /\ new.coef[c] = 0
    BY DEF Coefficient
  <2> QED BY <1>1, <1>2, <2>1, WholeProducts
<1>4. ASSUME NEW c \in (D \ cs) \ L  PROVE f[c] = 0
  <2>1. row.coef[c] = 0
    BY DEF Coefficient
  <2> QED BY <1>1, <1>2, <2>1, WholeProducts
<1>5. ASSUME NEW c \in L  PROVE f[c] = g[c]
  <2>1. row.coef[c] = new.coef[c]
    BY DEF Coefficient
  <2> QED BY <1>1, <2>1
<1>6. L \in SUBSET N /\ L \in SUBSET (D \ cs) /\ D \ cs \in SUBSET D
  OBVIOUS
<1> HIDE DEF f, g, D, N, L
<1>7. Summing!Fold(0, g, N) = Summing!Fold(0, g, L)
  BY <1>1, <1>3, <1>6, SumsAdd, Summing!SumSupport
<1>8. Summing!Fold(0, f, D \ cs) = Summing!Fold(0, f, L)
  BY <1>1, <1>4, <1>6, SumsAdd, Summing!SumSupport
<1>9. Summing!Fold(0, f, L) = Summing!Fold(0, g, L)
  <2>1. Summing!IsFiniteSet(L) /\ Summing!Picks(L)
    BY <1>1, <1>6, SumsAdd
  <2> QED BY <1>5, <2>1, Summing!FoldDepends
<1>10. Summing!Fold(0, f, D) = Summing!Fold(0, f, cs) + Summing!Fold(0, f, D \ cs)
  BY <1>1, SumsAdd, Summing!SumParts DEF D
<1> QED BY <1>1, <1>7, <1>8, <1>9, <1>10 DEF Part, f, g

(* The activity of a row whose coefficients were rounded.                  *)
LEMMA ActivityRounded ==
  ASSUME NEW row, NEW new, NEW x, Valued(row, x), Valued(new, x),
         DOMAIN new.coef \subseteq DOMAIN row.coef,
         \A c \in DOMAIN row.coef : Coefficient(new, c) = Round(row.coef[c])
  PROVE  Activity(new, x) = RoundedActivity(row, x)
<1> DEFINE D == DOMAIN row.coef
           N == DOMAIN new.coef
           f == [c \in D |-> Times(Round(row.coef[c]), x[c])]
           g == Terms(new, x)
<1>1. /\ Activity(new, x) = Part(new, x, N)
      /\ \A c \in N : g[c] = Times(new.coef[c], x[c])
      /\ DOMAIN f = D /\ \A c \in D : f[c] = Times(Round(row.coef[c]), x[c])
      /\ RoundedActivity(row, x) = SumFunction(f)
  BY ActivitySums DEF RoundedActivity
<1>2. /\ IsFiniteSet(D) /\ IsFiniteSet(N) /\ Summing!IsFiniteSet(D) /\ Summing!IsFiniteSet(N)
      /\ Summing!Picks(N)
  BY SumsAdd DEF Valued
<1>3. \A c \in D : x[c] \in Int /\ Round(row.coef[c]) \in Int /\ f[c] \in Int
  BY TimesInteger, RoundNear DEF Valued
<1>4. ASSUME NEW c \in D \ N  PROVE f[c] = 0
  <2>1. Round(row.coef[c]) = 0
    BY DEF Coefficient
  <2> QED BY <1>1, <1>3, <2>1, WholeProducts
<1>5. ASSUME NEW c \in N  PROVE g[c] = f[c]
  <2>1. new.coef[c] = Round(row.coef[c]) /\ c \in D
    BY DEF Coefficient
  <2> QED BY <1>1, <2>1
<1> HIDE DEF f, g
<1>6. Summing!Fold(0, f, D) = Summing!Fold(0, f, N)
  <2>1. Summing!Integers(f, D) /\ N \in SUBSET D
    BY <1>3 DEF Summing!Integers
  <2> HIDE DEF D, N
  <2> QED BY <1>2, <1>4, <2>1, SumsAdd, Summing!SumSupport
<1>7. Summing!Fold(0, g, N) = Summing!Fold(0, f, N)
  <2> HIDE DEF D, N
  <2> QED BY <1>2, <1>5, Summing!FoldDepends
<1> QED BY <1>1, <1>6, <1>7, SumsAdd DEF Part, g

(* An activity whose terms are whole is whole.                             *)
LEMMA ActivityWhole ==
  ASSUME NEW row, NEW x, Valued(row, x),
         \A c \in DOMAIN row.coef : Whole(Times(row.coef[c], x[c]))
  PROVE  Whole(Activity(row, x))
<1> DEFINE f == Terms(row, x)
           V == {v \in Int : Whole(v)}
<1>1. /\ Activity(row, x) = Part(row, x, DOMAIN row.coef)
      /\ \A c \in DOMAIN row.coef : f[c] = Times(row.coef[c], x[c])
      /\ Summing!IsFiniteSet(DOMAIN row.coef) /\ Summing!Picks(DOMAIN row.coef)
  BY ActivitySums, SumsAdd DEF Valued
<1>2. 0 \in V
  BY WholeArithmetic
<1> HIDE DEF f
<1>3. ASSUME NEW v \in V, NEW c \in DOMAIN row.coef  PROVE Plus(v, f[c]) \in V
  <2>1. Whole(f[c]) /\ Whole(v)
    BY <1>1
  <2>2. Whole(f[c] + v)
    BY <2>1, WholeProducts
  <2> QED BY <2>2 DEF Plus, Whole
<1> HIDE DEF V
<1>4. Summing!Fold(0, f, DOMAIN row.coef) \in V
  BY <1>1, <1>2, <1>3, Summing!FoldKeeps
<1> QED BY <1>1, <1>4 DEF Part, V, f

-------------------------------------------------------------------------------
(* What is true of the reference, column by column and row by row.         *)
Known == solution.status \in {"feasible", "unbounded"}
Directed == solution.status = "unbounded"

ColumnFits(col, c) ==
  LET v == solution.primal[c]
      d == solution.ray[c]
  IN  /\ \/ "Fixed" \in col.flags
         \/ /\ "LbInf" \notin col.flags => v >= col.lb
            /\ "UbInf" \notin col.flags => v <= col.ub
            /\ "Integral" \in col.flags => v = Round(v)
      /\ Directed => /\ "Fixed" \in col.flags => d = 0
                     /\ d < 0 => "LbInf" \in col.flags
                     /\ d > 0 => "UbInf" \in col.flags

WithinRay(row, activity) ==
  /\ "LhsInf" \notin row.flags => activity >= 0
  /\ "RhsInf" \notin row.flags => activity <= 0

SidesFit(row) ==
  /\ WithinSides(row, Activity(row, solution.primal))
  /\ Directed => WithinRay(row, Activity(row, solution.ray))

RowFits(row, cols) ==
  \/ "Redundant" \in row.flags
  \/ /\ SidesFit(row)
     /\ \A c \in DOMAIN cols : "Fixed" \in cols[c].flags => Coefficient(row, c) = 0

Improving(p) == Directed => ObjectiveOf(p, solution.ray) < 0

Agrees(p) ==
  /\ \A c \in DOMAIN p.cols : ColumnFits(p.cols[c], c)
  /\ \A r \in DOMAIN p.rows : RowFits(p.rows[r], p.cols)
  /\ Improving(p)

(* It is all that is meant by a true reference.                            *)
LEMMA AgreesParts ==
  ASSUME NEW p, Known
  PROVE  Agrees(p) <=> IsTrueOf(p) /\ Substituted(p)
<1> DEFINE F(c) == Fixed(p, c)
           D(r) == Redundant(p, r)
           X(c) == WithinDomain(p, c, solution.primal[c])
           Y(r) == WithinSides(p.rows[r], Activity(p.rows[r], solution.primal))
           Z(r) == WithinRay(p.rows[r], Activity(p.rows[r], solution.ray))
           N(r, c) == Coefficient(p.rows[r], c) = 0
           W(c) == /\ Fixed(p, c) => solution.ray[c] = 0
                   /\ solution.ray[c] < 0 => "LbInf" \in p.cols[c].flags
                   /\ solution.ray[c] > 0 => "UbInf" \in p.cols[c].flags
           G == ObjectiveOf(p, solution.ray) < 0
<1>1. Agrees(p) <=> /\ \A c \in Columns(p) : (F(c) \/ X(c)) /\ (Directed => W(c))
                    /\ \A r \in Rows(p) : \/ D(r)
                                           \/ /\ Y(r) /\ (Directed => Z(r))
                                              /\ \A c \in Columns(p) : F(c) => N(r, c)
                    /\ Directed => G
  BY DEF Agrees, ColumnFits, RowFits, SidesFit, Improving, Fixed, Redundant, WithinDomain, Integral,
         Columns, Rows
<1>2. IsFeasible(p, solution.primal) <=> /\ \A c \in Columns(p) : F(c) \/ X(c)
                                         /\ \A r \in Rows(p) : D(r) \/ Y(r)
  BY DEF IsFeasible
<1>3. IsRay(p, solution.ray) <=> /\ \A c \in Columns(p) : W(c)
                                 /\ \A r \in Rows(p) : D(r) \/ Z(r)
                                 /\ G
  BY DEF IsRay, WithinRay
<1>4. Substituted(p) <=> \A r \in Rows(p), c \in Columns(p) : ~ D(r) /\ F(c) => N(r, c)
  BY DEF Substituted
<1>5. IsTrueOf(p) <=> IsFeasible(p, solution.primal) /\ (Directed => IsRay(p, solution.ray))
  BY DEF IsTrueOf, Known, Directed
<1> HIDE DEF F, D, X, Y, Z, N, W, G
<1> QED BY <1>1, <1>2, <1>3, <1>4, <1>5

(* A problem of which one row changed.                                     *)
LEMMA AgreesRow ==
  ASSUME NEW p, Agrees(p), NEW q, q.cols = p.cols, DOMAIN q.rows = DOMAIN p.rows, NEW r,
         \A s \in DOMAIN p.rows \ {r} : q.rows[s] = p.rows[s],
         RowFits(q.rows[r], q.cols)
  PROVE  Agrees(q)
<1>1. Improving(q)
  BY DEF Agrees, Improving, ObjectiveOf, Columns, Fixed
<1>2. ASSUME NEW s \in DOMAIN q.rows  PROVE RowFits(q.rows[s], q.cols)
  <2>1. CASE s = r
    BY <2>1
  <2>2. CASE s # r
    BY <2>2 DEF Agrees
  <2> QED BY <2>1, <2>2
<1> QED BY <1>1, <1>2 DEF Agrees

(* A problem of which one column changed, but is not fixed by that.        *)
LEMMA AgreesColumn ==
  ASSUME NEW p, Agrees(p), ~ Directed, NEW q, q.rows = p.rows, DOMAIN q.cols = DOMAIN p.cols, NEW c,
         \A d \in DOMAIN p.cols \ {c} : q.cols[d] = p.cols[d],
         "Fixed" \in q.cols[c].flags => "Fixed" \in p.cols[c].flags,
         ColumnFits(q.cols[c], c)
  PROVE  Agrees(q)
<1>1. ASSUME NEW d \in DOMAIN q.cols  PROVE ColumnFits(q.cols[d], d)
  <2>1. CASE d = c
    BY <2>1
  <2>2. CASE d # c
    BY <2>2 DEF Agrees
  <2> QED BY <2>1, <2>2
<1>2. \A d \in DOMAIN q.cols : "Fixed" \in q.cols[d].flags => "Fixed" \in p.cols[d].flags
  OBVIOUS
<1>3. ASSUME NEW s \in DOMAIN q.rows  PROVE RowFits(q.rows[s], q.cols)
  <2>1. RowFits(p.rows[s], p.cols) /\ q.rows[s] = p.rows[s]
    BY DEF Agrees
  <2> QED BY <1>2, <2>1 DEF RowFits
<1> QED BY <1>1, <1>3 DEF Agrees, Improving

-------------------------------------------------------------------------------
(* A row of which terms moved into the sides.                              *)
Moved(new, row, a, b) ==
  /\ new.flags \ {"Equation"} = row.flags \ {"Equation"}
  /\ "LhsInf" \notin row.flags => new.lhs = a
  /\ "RhsInf" \notin row.flags => new.rhs = b

Without(new, row, cs) ==
  /\ cs \in SUBSET DOMAIN row.coef /\ DOMAIN new.coef \subseteq DOMAIN row.coef
  /\ \A c \in cs : Coefficient(new, c) = 0
  /\ \A c \in DOMAIN row.coef \ cs : Coefficient(new, c) = Coefficient(row, c)

(* Values of the reference that can be multiplied.                         *)
ValuedRow(row) ==
  /\ Valued(row, solution.primal)
  /\ Directed => Valued(row, solution.ray)
  /\ row.lhs \in Int /\ row.rhs \in Int

(* The columns of a row that do not move contribute whole numbers.         *)
LEMMA ShiftFits ==
  ASSUME NEW row, ValuedRow(row), SidesFit(row), NEW new, ValuedRow(new),
         NEW cs, Without(new, row, cs),
         NEW offset, offset = -Part(row, solution.primal, cs),
         Directed => \A c \in cs : solution.ray[c] = 0,
         NEW integral \in BOOLEAN, integral => Whole(Activity(new, solution.primal)),
         Moved(new, row, Shifted(row.lhs, offset, integral), Shifted(row.rhs, offset, integral))
  PROVE  SidesFit(new)
<1> DEFINE x == solution.primal
           d == solution.ray
           s == Activity(row, x)
           t == Activity(new, x)
           e == Part(row, x, cs)
<1>1. /\ Valued(row, x) /\ Valued(new, x) /\ cs \in SUBSET DOMAIN row.coef
      /\ row.lhs \in Int /\ row.rhs \in Int
  BY DEF ValuedRow, Without
<1>2. s = e + t
  BY <1>1, ActivityLeft DEF Without
<1>3. s \in Int /\ t \in Int /\ e \in Int
  BY <1>1, ActivitySums
<1>4. /\ "LhsInf" \notin row.flags => s >= row.lhs
      /\ "RhsInf" \notin row.flags => s <= row.rhs
  BY DEF SidesFit, WithinSides
<1>5. /\ "LhsInf" \in new.flags <=> "LhsInf" \in row.flags
      /\ "RhsInf" \in new.flags <=> "RhsInf" \in row.flags
      /\ "LhsInf" \notin row.flags => new.lhs = Shifted(row.lhs, offset, integral)
      /\ "RhsInf" \notin row.flags => new.rhs = Shifted(row.rhs, offset, integral)
  BY DEF Moved
<1>6. Directed => Activity(new, d) = Activity(row, d)
  <2> SUFFICES ASSUME Directed  PROVE Activity(new, d) = Activity(row, d)
    OBVIOUS
  <2>1. Valued(row, d) /\ Valued(new, d)
    BY DEF ValuedRow
  <2>2. Activity(row, d) = Part(row, d, cs) + Activity(new, d)
    BY <2>1, ActivityLeft DEF Without
  <2>3. Activity(new, d) \in Int
    BY <2>1, ActivitySums
  <2>4. Part(row, d, cs) = 0
    <3> DEFINE f == Terms(row, d)
    <3>1. /\ \A c \in cs : f[c] = Times(row.coef[c], d[c])
          /\ Summing!IsFiniteSet(cs) /\ Summing!Integers(f, cs)
      BY <1>1, <2>1, ActivitySums
    <3>2. \A c \in cs : f[c] = 0
      <4> TAKE c \in cs
      <4>1. row.coef[c] \in Int /\ d[c] = 0
        BY <1>1 DEF ValuedRow, Valued
      <4> QED BY <3>1, <4>1, WholeProducts
    <3>3. {} \in SUBSET cs /\ cs \ {} = cs
      OBVIOUS
    <3> HIDE DEF f
    <3>4. Summing!Fold(0, f, cs) = Summing!Fold(0, f, {})
      BY <3>1, <3>2, <3>3, SumsAdd, Summing!SumSupport
    <3> QED BY <3>4, Summing!FoldEmpty DEF Part, f
  <2> QED BY <2>2, <2>3, <2>4
<1> HIDE DEF x, d, s, t, e
<1>7. offset = -e
  BY DEF e, x
<1>8. WithinSides(new, t)
  <2> DEFINE u == row.lhs + offset
             w == row.rhs + offset
  <2>1. u \in Int /\ w \in Int
    BY <1>1, <1>3, <1>7
  <2>2. /\ "LhsInf" \notin row.flags => u <= t
        /\ "RhsInf" \notin row.flags => t <= w
    BY <1>1, <1>2, <1>3, <1>4, <1>7
  <2>3. /\ "LhsInf" \notin row.flags => new.lhs = IF integral THEN Round(u) ELSE u
        /\ "RhsInf" \notin row.flags => new.rhs = IF integral THEN Round(w) ELSE w
    BY <1>5 DEF Shifted
  <2> HIDE DEF u, w
  <2>4. ASSUME integral
        PROVE  (u <= t => Round(u) <= t) /\ (t <= w => t <= Round(w))
    BY <2>1, <2>4, RoundSafe DEF t, x
  <2> DEFINE l == new.lhs
             h == new.rhs
  <2>5. /\ "LhsInf" \notin row.flags => l <= t
        /\ "RhsInf" \notin row.flags => t <= h
    BY <2>2, <2>3, <2>4
  <2>6. /\ "LhsInf" \notin row.flags => l \in Int
        /\ "RhsInf" \notin row.flags => h \in Int
    BY DEF ValuedRow
  <2> QED BY <1>3, <1>5, <2>5, <2>6 DEF WithinSides
<1>9. Directed => WithinRay(new, Activity(new, d))
  BY <1>5, <1>6 DEF SidesFit, WithinRay, d
<1> QED BY <1>8, <1>9 DEF SidesFit, t, x, d

(* A row that was rounded, with the activity of the rounded one in view.   *)
LEMMA RoundFits ==
  ASSUME solution.status = "feasible", NEW row, Valued(row, solution.primal),
         NEW new, Valued(new, solution.primal), Exact, row.lhs \in Int, row.rhs \in Int,
         DOMAIN new.coef \subseteq DOMAIN row.coef,
         \A c \in DOMAIN row.coef : Coefficient(new, c) = Round(row.coef[c]),
         NEW v, v = RoundedActivity(row, solution.primal),
         Moved(new, row, Lowered(row.lhs, v), Raised(row.rhs, v))
  PROVE  SidesFit(new)
<1> DEFINE x == solution.primal
           t == Activity(new, x)
<1>1. t = v
  BY ActivityRounded
<1>2. t \in Int
  BY ActivitySums
<1>3. Lowered(row.lhs, v) <= t /\ t <= Raised(row.rhs, v)
  <2>1. EpsFloor(v) = Floor(v + 0) /\ EpsCeil(v) = Ceil(v - 0) /\ v + 0 = v /\ v - 0 = v
    BY <1>1, <1>2 DEF EpsFloor, EpsCeil, Exact
  <2>2. Floor(v) <= v /\ v <= Ceil(v) /\ Floor(v) \in Int /\ Ceil(v) \in Int
    BY <1>1, <1>2, RoundNear
  <2>3. Round(row.lhs) \in Int /\ Round(row.rhs) \in Int
    BY RoundNear
  <2> HIDE DEF t
  <2> QED BY <1>1, <1>2, <2>1, <2>2, <2>3 DEF Lowered, Raised, Least, Most
<1>4. /\ "LhsInf" \in new.flags <=> "LhsInf" \in row.flags
      /\ "RhsInf" \in new.flags <=> "RhsInf" \in row.flags
      /\ "LhsInf" \notin row.flags => new.lhs = Lowered(row.lhs, v)
      /\ "RhsInf" \notin row.flags => new.rhs = Raised(row.rhs, v)
  BY DEF Moved
<1>5. Lowered(row.lhs, v) \in Int /\ Raised(row.rhs, v) \in Int
  <2>1. EpsFloor(v) \in Int /\ EpsCeil(v) \in Int /\ Round(row.lhs) \in Int /\ Round(row.rhs) \in Int
    BY <1>1, <1>2, StepArithmetic, RoundNear
  <2> QED BY <2>1 DEF Lowered, Raised, Least, Most
<1> HIDE DEF t
<1>6. WithinSides(new, t)
  <2> DEFINE l == Lowered(row.lhs, v)
             h == Raised(row.rhs, v)
  <2> HIDE DEF l, h
  <2>1. l <= t /\ t <= h /\ l \in Int /\ h \in Int
    BY <1>3, <1>5 DEF l, h
  <2>2. ("LhsInf" \notin row.flags => new.lhs = l) /\ ("RhsInf" \notin row.flags => new.rhs = h)
    BY <1>4 DEF l, h
  <2> QED BY <1>2, <1>4, <2>1, <2>2 DEF WithinSides
<1> QED BY <1>6 DEF SidesFit, Directed, t

-------------------------------------------------------------------------------
(* Terms of integral columns are whole numbers.                            *)
LEMMA WholeLeft ==
  ASSUME Exact, Known, NEW row, NEW cols, RowFits(row, cols), "Redundant" \notin row.flags,
         \A c \in DOMAIN cols : ColumnFits(cols[c], c),
         DOMAIN row.coef \subseteq DOMAIN cols,
         NEW new, Valued(new, solution.primal), NEW cs, Without(new, row, cs),
         \A c \in DOMAIN row.coef \ cs :
           \/ "Fixed" \in cols[c].flags
           \/ "Integral" \in cols[c].flags /\ IsEpsIntegral(row.coef[c])
  PROVE  Whole(Activity(new, solution.primal))
<1> DEFINE x == solution.primal
<1>1. ASSUME NEW c \in DOMAIN new.coef  PROVE Whole(Times(new.coef[c], x[c]))
  <2>1. c \in DOMAIN row.coef /\ new.coef[c] \in Int /\ x[c] \in Int
    BY DEF Without, Valued
  <2>2. CASE new.coef[c] = 0
    <3>1. Times(new.coef[c], x[c]) = 0
      BY <2>1, <2>2, WholeProducts
    <3> QED BY <3>1, WholeArithmetic
  <2>3. CASE new.coef[c] # 0
    <3>1. Coefficient(new, c) = new.coef[c] /\ Coefficient(row, c) = row.coef[c]
      BY <2>1 DEF Coefficient
    <3>2. c \notin cs /\ row.coef[c] = new.coef[c]
      BY <2>1, <2>3, <3>1 DEF Without
    <3>3. "Fixed" \notin cols[c].flags
      BY <2>1, <2>3, <3>1, <3>2 DEF RowFits
    <3>4. "Integral" \in cols[c].flags /\ IsEpsIntegral(row.coef[c])
      BY <2>1, <3>2, <3>3
    <3>5. x[c] = Round(x[c])
      BY <2>1, <3>3, <3>4 DEF ColumnFits
    <3>6. row.coef[c] = Round(row.coef[c])
      <4> DEFINE v == row.coef[c]
                 w == Round(row.coef[c])
      <4>1. v \in Int /\ w \in Int
        BY <2>1, <3>2, RoundNear
      <4>2. Magnitude(v - w) <= 0
        BY <3>4 DEF IsEpsIntegral, Exact
      <4> HIDE DEF v, w
      <4>3. v = w
        BY <4>1, <4>2 DEF Magnitude
      <4> QED BY <4>3 DEF v, w
    <3>7. Whole(new.coef[c]) /\ Whole(x[c])
      BY <2>1, <3>2, <3>5, <3>6, WholeProducts
    <3> QED BY <3>7, WholeProducts
  <2> QED BY <2>2, <2>3
<1> QED BY <1>1, ActivityWhole

(* Nothing was taken away from a row.                                      *)
LEMMA WithoutNothing ==
  ASSUME NEW row
  PROVE  Without(row, row, {})
BY DEF Without

(* The value that a closed column is given is the only one there is.       *)
LEMMA FixedIsPrimal ==
  ASSUME Exact, Known, NEW p, NEW c, ColumnFits(p.cols[c], c), ~ Fixed(p, c),
         solution.primal[c] \in Int, p.cols[c].lb \in Int, p.cols[c].ub \in Int,
         Directed => solution.ray[c] \in Int
  PROVE  /\ solution.status = "feasible" => FixedValue(p, c) = solution.primal[c]
         /\ Closed(p, c) /\ p.cols[c].lb >= p.cols[c].ub =>
              /\ FixedValue(p, c) = solution.primal[c]
              /\ Directed => solution.ray[c] = 0
<1> DEFINE col == p.cols[c]
           v == solution.primal[c]
<1>1. /\ "Fixed" \notin col.flags
      /\ "LbInf" \notin col.flags => v >= col.lb
      /\ "UbInf" \notin col.flags => v <= col.ub
      /\ "Integral" \in col.flags => v = Round(v)
      /\ Directed => /\ solution.ray[c] < 0 => "LbInf" \in col.flags
                     /\ solution.ray[c] > 0 => "UbInf" \in col.flags
  BY DEF ColumnFits, Fixed
<1>2. CASE solution.status = "feasible"
  BY <1>1, <1>2 DEF FixedValue, Integral, Directed
<1>3. CASE solution.status = "unbounded"
  <2> SUFFICES ASSUME Closed(p, c), col.lb >= col.ub
               PROVE  FixedValue(p, c) = v /\ solution.ray[c] = 0
    BY <1>3
  <2>1. "LbInf" \notin col.flags /\ "UbInf" \notin col.flags
    BY DEF Closed
  <2>2. col.lb = v /\ col.ub = v
    BY <1>1, <2>1
  <2>3. solution.ray[c] = 0
    BY <1>1, <1>3, <2>1 DEF Directed
  <2>4. "Integral" \in col.flags => EpsCeil(v) = v /\ EpsFloor(v) = v
    <3>1. "Integral" \in col.flags => Whole(v)
      BY <1>1, WholeProducts
    <3>2. EpsFloor(v) = Floor(v) /\ EpsCeil(v) = Ceil(v)
      BY DEF EpsFloor, EpsCeil, Exact
    <3> QED BY <3>1, <3>2, RoundSafe
  <2>5. FixedValue(p, c) = ClosestToZero("LbInf" \notin col.flags, "UbInf" \notin col.flags, v, v)
    BY <1>3, <2>2, <2>4 DEF FixedValue, Integral
  <2>6. ClosestToZero("LbInf" \notin col.flags, "UbInf" \notin col.flags, v, v) = v
    <3> DEFINE l == "LbInf" \notin col.flags
               u == "UbInf" \notin col.flags
    <3>1. l /\ u
      BY <2>1
    <3> HIDE DEF l, u
    <3>2. ClosestToZero(l, u, v, v) = v
      <4>1. ClosestToZero(l, u, v, v) = Most(Least(0, v), v)
        BY <3>1 DEF ClosestToZero
      <4> QED BY <4>1 DEF Most, Least
    <3> QED BY <3>2 DEF l, u
  <2> QED BY <2>3, <2>5, <2>6
<1> QED BY <1>2, <1>3 DEF Known, Directed

-------------------------------------------------------------------------------
(* Replaying list by list.                                                 *)
Stage(q, k, s) == Editing!Over(q, Listed(k, s))

Single(s) == << s >>

(* A list that is empty, and one with a single edit.                       *)
LEMMA StageEmpty ==
  ASSUME NEW q, NEW k
  PROVE  Stage(q, k, <<>>) = q
<1>1. Listed(k, <<>>) = <<>>
  BY DEF Listed
<1> QED BY <1>1, Editing!OverEmpty DEF Stage

(* A list of one edit is that edit.                                        *)
LEMMA StageOne ==
  ASSUME NEW q, NEW k, NEW s
  PROVE  Stage(q, k, Single(s)) = Apply(q, Named(k, s))
<1>3. Stage(q, k, Single(s)) = Apply(q, Named(k, s))
  <2> DEFINE t == Named(k, s)
             one == << s >>
  <2>1. one \in Seq({s}) /\ Len(one) = 1 /\ one[1] = s
    OBVIOUS
  <2> HIDE DEF one
  <2>2. Listed(k, one) \in Seq({t}) /\ Len(Listed(k, one)) = 1
    <3> DEFINE S == {s}
               U == {t}
    <3>1. {k} \X S \subseteq U
      BY DEF Named
    <3>2. one \in Seq(S)
      BY <2>1
    <3> HIDE DEF S, U
    <3>3. Listed(k, one) \in Seq(U) /\ Len(Listed(k, one)) = Len(one)
      BY <3>1, <3>2, ListedTyped
    <3> QED BY <2>1, <3>3 DEF U
  <2> DEFINE L == Listed(k, one)
  <2>8. L[1] = t /\ L \in Seq({t}) /\ Len(L) = 1
    <3>1. 1 \in DOMAIN one
      BY <2>1
    <3>2. Listed(k, one)[1] = <<k, one[1]>>
      BY <3>1 DEF Listed
    <3> QED BY <2>1, <2>2, <3>2 DEF Named
  <2> HIDE DEF t, L
  <2>3. L = Append(<<>>, t)
    BY <2>8
  <2>4. t \in {t} /\ <<>> \in Seq({t}) /\ Editing!TakesLast
    BY LastIsPicked
  <2> DEFINE U == {t}
             none == <<>>
  <2>5. t \in U /\ none \in Seq(U)
    BY <2>4
  <2>6. Editing!Over(q, Append(none, t)) = Apply(Editing!Over(q, none), t)
    <3> HIDE DEF U, none
    <3> QED BY <2>4, <2>5, Editing!OverAppend
  <2>7. Editing!Over(q, none) = q
    BY Editing!OverEmpty
  <2> QED BY <2>3, <2>6, <2>7 DEF Stage, one, t, L, Single
<1> QED BY <1>3

(* All edits are the ten lists one after the other.                        *)
LEMMA ReplayStages ==
  ASSUME NEW p, NEW R, NEW C, NEW E, NEW e \in EditsIn(p, R, C, E), NEW q
  PROVE  Replay(q, e) =
           LET a == Stage(Stage(Stage(q, "rows", e.rows), "domains", e.domains), "sides", e.sides)
               b == Stage(Stage(a, "fixed", e.fixed), "entries", e.entries)
               c == Stage(Stage(b, "lefts", e.lefts), "rights", e.rights)
           IN  Stage(Stage(Stage(c, "objs", e.objs), "lowers", e.lowers), "uppers", e.uppers)
<1> DEFINE U == Tagged(p, R, C, E)
           x1 == Listed("rows", e.rows)
           x2 == Listed("domains", e.domains)
           x3 == Listed("sides", e.sides)
           x4 == Listed("fixed", e.fixed)
           x5 == Listed("entries", e.entries)
           x6 == Listed("lefts", e.lefts)
           x7 == Listed("rights", e.rights)
           x8 == Listed("objs", e.objs)
           x9 == Listed("lowers", e.lowers)
           x10 == Listed("uppers", e.uppers)
           y2 == x1 \o x2
           y3 == y2 \o x3
           y4 == y3 \o x4
           y5 == y4 \o x5
           y6 == y5 \o x6
           y7 == y6 \o x7
           y8 == y7 \o x8
           y9 == y8 \o x9
           y10 == y9 \o x10
<1>1. /\ x1 \in Seq(U) /\ x2 \in Seq(U) /\ x3 \in Seq(U) /\ x4 \in Seq(U) /\ x5 \in Seq(U)
      /\ x6 \in Seq(U) /\ x7 \in Seq(U) /\ x8 \in Seq(U) /\ x9 \in Seq(U) /\ x10 \in Seq(U)
  <2> HIDE DEF U
  <2> QED BY EditsTyped DEF U
<1>2. Replay(q, e) = Editing!Over(q, y10)
  <2>1. InOrder(e) = y10
    BY DEF InOrder
  <2> QED BY <2>1, EditingIsFold DEF Replay, InOrder
<1>3. Editing!TakesLast
  BY LastIsPicked
<1>4. \A s \in Seq(U) : \A t \in Seq(U) :
        s \o t \in Seq(U) /\ \A b : Editing!Over(b, s \o t) = Editing!Over(Editing!Over(b, s), t)
  <2> HIDE DEF U
  <2> TAKE s \in Seq(U)
  <2> TAKE t \in Seq(U)
  <2>1. s \o t \in Seq(U)
    OBVIOUS
  <2> QED BY <1>3, <2>1, Editing!OverSplit
<1> HIDE DEF U, x1, x2, x3, x4, x5, x6, x7, x8, x9, x10
<1>5. y2 \in Seq(U) /\ \A b : Editing!Over(b, y2) = Editing!Over(Editing!Over(b, x1), x2)
  BY <1>1, <1>4
<1>6. y3 \in Seq(U) /\ \A b : Editing!Over(b, y3) = Editing!Over(Editing!Over(b, y2), x3)
  <2> HIDE DEF y2
  <2> QED BY <1>1, <1>4, <1>5
<1>7. y4 \in Seq(U) /\ \A b : Editing!Over(b, y4) = Editing!Over(Editing!Over(b, y3), x4)
  <2> HIDE DEF y3
  <2> QED BY <1>1, <1>4, <1>6
<1>8. y5 \in Seq(U) /\ \A b : Editing!Over(b, y5) = Editing!Over(Editing!Over(b, y4), x5)
  <2> HIDE DEF y4
  <2> QED BY <1>1, <1>4, <1>7
<1>9. y6 \in Seq(U) /\ \A b : Editing!Over(b, y6) = Editing!Over(Editing!Over(b, y5), x6)
  <2> HIDE DEF y5
  <2> QED BY <1>1, <1>4, <1>8
<1>10. y7 \in Seq(U) /\ \A b : Editing!Over(b, y7) = Editing!Over(Editing!Over(b, y6), x7)
  <2> HIDE DEF y6
  <2> QED BY <1>1, <1>4, <1>9
<1>11. y8 \in Seq(U) /\ \A b : Editing!Over(b, y8) = Editing!Over(Editing!Over(b, y7), x8)
  <2> HIDE DEF y7
  <2> QED BY <1>1, <1>4, <1>10
<1>12. y9 \in Seq(U) /\ \A b : Editing!Over(b, y9) = Editing!Over(Editing!Over(b, y8), x9)
  <2> HIDE DEF y8
  <2> QED BY <1>1, <1>4, <1>11
<1>13. \A b : Editing!Over(b, y10) = Editing!Over(Editing!Over(b, y9), x10)
  <2> HIDE DEF y9
  <2> QED BY <1>1, <1>4, <1>12
<1> HIDE DEF y2, y3, y4, y5, y6, y7, y8, y9, y10
<1>14. Replay(q, e) =
         LET a == Editing!Over(Editing!Over(Editing!Over(q, x1), x2), x3)
             b == Editing!Over(Editing!Over(a, x4), x5)
             c == Editing!Over(Editing!Over(b, x6), x7)
         IN  Editing!Over(Editing!Over(Editing!Over(c, x8), x9), x10)
  BY <1>2, <1>5, <1>6, <1>7, <1>8, <1>9, <1>10, <1>11, <1>12, <1>13
<1> QED BY <1>14 DEF Stage, x1, x2, x3, x4, x5, x6, x7, x8, x9, x10

(* The edits of which there is one, those of a row, and those of a column. *)
LEMMA ReplayKinds ==
  ASSUME NEW p, NEW R, NEW C, NEW E, NEW e \in EditsIn(p, R, C, E), NEW q
  PROVE  /\ \A s : e = AllEdits(<< s >>, <<>>, <<>>, <<>>, <<>>, <<>>, <<>>, <<>>, <<>>, <<>>) =>
              Replay(q, e) = Apply(q, Named("rows", s))
         /\ \A s : e = AllEdits(<<>>, << s >>, <<>>, <<>>, <<>>, <<>>, <<>>, <<>>, <<>>, <<>>) =>
              Replay(q, e) = Apply(q, Named("domains", s))
         /\ \A s : e = AllEdits(<<>>, <<>>, << s >>, <<>>, <<>>, <<>>, <<>>, <<>>, <<>>, <<>>) =>
              Replay(q, e) = Apply(q, Named("sides", s))
         /\ \A s : e = AllEdits(<<>>, <<>>, <<>>, << s >>, <<>>, <<>>, <<>>, <<>>, <<>>, <<>>) =>
              Replay(q, e) = Apply(q, Named("fixed", s))
         /\ \A s : e = AllEdits(<<>>, <<>>, <<>>, <<>>, <<>>, <<>>, <<>>, << s >>, <<>>, <<>>) =>
              Replay(q, e) = Apply(q, Named("objs", s))
         /\ \A a, b, c : e = ShiftOf(a, b, c) =>
              Replay(q, e) = Stage(Stage(Stage(q, "entries", a), "lefts", b), "rights", c)
         /\ \A a, b, c : e = RoundedOf(a, b, c) =>
              Replay(q, e) = Stage(Stage(Stage(q, "objs", a), "lowers", b), "uppers", c)
<1>0. \A x, k : Stage(x, k, <<>>) = x
  BY StageEmpty
<1>1. ASSUME NEW s, e = AllEdits(<< s >>, <<>>, <<>>, <<>>, <<>>, <<>>, <<>>, <<>>, <<>>, <<>>)
      PROVE  Replay(q, e) = Apply(q, Named("rows", s))
  <2> DEFINE one == Single(s)
  <2>1. Stage(q, "rows", one) = Apply(q, Named("rows", s))
    BY StageOne
  <2>2. e = AllEdits(one, <<>>, <<>>, <<>>, <<>>, <<>>, <<>>, <<>>, <<>>, <<>>)
    BY <1>1 DEF Single
  <2> HIDE DEF one
  <2>3. /\ e.rows = one /\ e.domains = <<>> /\ e.sides = <<>> /\ e.fixed = <<>> /\ e.entries = <<>>
          /\ e.lefts = <<>> /\ e.rights = <<>> /\ e.objs = <<>> /\ e.lowers = <<>> /\ e.uppers = <<>>
    BY <2>2, FieldsOfMade
  <2> QED BY <2>1, <2>3, <1>0, ReplayStages
<1>2. ASSUME NEW s, e = AllEdits(<<>>, << s >>, <<>>, <<>>, <<>>, <<>>, <<>>, <<>>, <<>>, <<>>)
      PROVE  Replay(q, e) = Apply(q, Named("domains", s))
  <2> DEFINE one == Single(s)
  <2>1. Stage(q, "domains", one) = Apply(q, Named("domains", s))
    BY StageOne
  <2>2. e = AllEdits(<<>>, one, <<>>, <<>>, <<>>, <<>>, <<>>, <<>>, <<>>, <<>>)
    BY <1>2 DEF Single
  <2> HIDE DEF one
  <2>3. /\ e.rows = <<>> /\ e.domains = one /\ e.sides = <<>> /\ e.fixed = <<>> /\ e.entries = <<>>
          /\ e.lefts = <<>> /\ e.rights = <<>> /\ e.objs = <<>> /\ e.lowers = <<>> /\ e.uppers = <<>>
    BY <2>2, FieldsOfMade
  <2> QED BY <2>1, <2>3, <1>0, ReplayStages
<1>3. ASSUME NEW s, e = AllEdits(<<>>, <<>>, << s >>, <<>>, <<>>, <<>>, <<>>, <<>>, <<>>, <<>>)
      PROVE  Replay(q, e) = Apply(q, Named("sides", s))
  <2> DEFINE one == Single(s)
  <2>1. Stage(q, "sides", one) = Apply(q, Named("sides", s))
    BY StageOne
  <2>2. e = AllEdits(<<>>, <<>>, one, <<>>, <<>>, <<>>, <<>>, <<>>, <<>>, <<>>)
    BY <1>3 DEF Single
  <2> HIDE DEF one
  <2>3. /\ e.rows = <<>> /\ e.domains = <<>> /\ e.sides = one /\ e.fixed = <<>> /\ e.entries = <<>>
          /\ e.lefts = <<>> /\ e.rights = <<>> /\ e.objs = <<>> /\ e.lowers = <<>> /\ e.uppers = <<>>
    BY <2>2, FieldsOfMade
  <2> QED BY <2>1, <2>3, <1>0, ReplayStages
<1>4. ASSUME NEW s, e = AllEdits(<<>>, <<>>, <<>>, << s >>, <<>>, <<>>, <<>>, <<>>, <<>>, <<>>)
      PROVE  Replay(q, e) = Apply(q, Named("fixed", s))
  <2> DEFINE one == Single(s)
  <2>1. Stage(q, "fixed", one) = Apply(q, Named("fixed", s))
    BY StageOne
  <2>2. e = AllEdits(<<>>, <<>>, <<>>, one, <<>>, <<>>, <<>>, <<>>, <<>>, <<>>)
    BY <1>4 DEF Single
  <2> HIDE DEF one
  <2>3. /\ e.rows = <<>> /\ e.domains = <<>> /\ e.sides = <<>> /\ e.fixed = one /\ e.entries = <<>>
          /\ e.lefts = <<>> /\ e.rights = <<>> /\ e.objs = <<>> /\ e.lowers = <<>> /\ e.uppers = <<>>
    BY <2>2, FieldsOfMade
  <2> QED BY <2>1, <2>3, <1>0, ReplayStages
<1>5. ASSUME NEW s, e = AllEdits(<<>>, <<>>, <<>>, <<>>, <<>>, <<>>, <<>>, << s >>, <<>>, <<>>)
      PROVE  Replay(q, e) = Apply(q, Named("objs", s))
  <2> DEFINE one == Single(s)
  <2>1. Stage(q, "objs", one) = Apply(q, Named("objs", s))
    BY StageOne
  <2>2. e = AllEdits(<<>>, <<>>, <<>>, <<>>, <<>>, <<>>, <<>>, one, <<>>, <<>>)
    BY <1>5 DEF Single
  <2> HIDE DEF one
  <2>3. /\ e.rows = <<>> /\ e.domains = <<>> /\ e.sides = <<>> /\ e.fixed = <<>> /\ e.entries = <<>>
          /\ e.lefts = <<>> /\ e.rights = <<>> /\ e.objs = one /\ e.lowers = <<>> /\ e.uppers = <<>>
    BY <2>2, FieldsOfMade
  <2> QED BY <2>1, <2>3, <1>0, ReplayStages
<1>6. ASSUME NEW a, NEW b, NEW c, e = ShiftOf(a, b, c)
      PROVE  Replay(q, e) = Stage(Stage(Stage(q, "entries", a), "lefts", b), "rights", c)
  <2>1. e = AllEdits(<<>>, <<>>, <<>>, <<>>, a, b, c, <<>>, <<>>, <<>>)
    BY <1>6 DEF ShiftOf
  <2>2. /\ e.rows = <<>> /\ e.domains = <<>> /\ e.sides = <<>> /\ e.fixed = <<>> /\ e.entries = a
          /\ e.lefts = b /\ e.rights = c /\ e.objs = <<>> /\ e.lowers = <<>> /\ e.uppers = <<>>
    BY <2>1, FieldsOfMade
  <2> QED BY <2>2, <1>0, ReplayStages
<1>7. ASSUME NEW a, NEW b, NEW c, e = RoundedOf(a, b, c)
      PROVE  Replay(q, e) = Stage(Stage(Stage(q, "objs", a), "lowers", b), "uppers", c)
  <2>1. e = AllEdits(<<>>, <<>>, <<>>, <<>>, <<>>, <<>>, <<>>, a, b, c)
    BY <1>7 DEF RoundedOf
  <2>2. /\ e.rows = <<>> /\ e.domains = <<>> /\ e.sides = <<>> /\ e.fixed = <<>> /\ e.entries = <<>>
          /\ e.lefts = <<>> /\ e.rights = <<>> /\ e.objs = a /\ e.lowers = b /\ e.uppers = c
    BY <2>1, FieldsOfMade
  <2> QED BY <2>2, <1>0, ReplayStages
<1> QED BY <1>1, <1>2, <1>3, <1>4, <1>5, <1>6, <1>7

-------------------------------------------------------------------------------
(* A row of which the first k changes of coefficients were done.           *)
Done(new, row, es, k) ==
  /\ new.lhs = row.lhs /\ new.rhs = row.rhs /\ new.flags = row.flags
  /\ DOMAIN new.coef \subseteq DOMAIN row.coef
  /\ \A i \in 1..k : Coefficient(new, es[i][2]) = es[i][3]
  /\ \A i \in 1..k : es[i][3] = 0 => es[i][2] \notin DOMAIN new.coef
  /\ \A c \in DOMAIN row.coef :
       (\A i \in 1..k : es[i][2] # c) => c \in DOMAIN new.coef /\ new.coef[c] = row.coef[c]

(* What a change of a coefficient does to the row.                         *)
Changed(m, row, c, v) ==
  /\ m.lhs = row.lhs /\ m.rhs = row.rhs /\ m.flags = row.flags
  /\ DOMAIN m.coef \subseteq DOMAIN row.coef
  /\ Coefficient(m, c) = v /\ (v = 0 => c \notin DOMAIN m.coef)
  /\ \A d \in DOMAIN row.coef \ {c} : d \in DOMAIN m.coef /\ m.coef[d] = row.coef[d]

(* ChangeCoefficient does just that, and stores no zero.                   *)
LEMMA CoefficientChanged ==
  ASSUME NEW n, NEW row, IsRow(row, n), NEW c \in DOMAIN row.coef, NEW v
  PROVE  Changed(ChangeCoefficient(row, c, v), row, c, v)
<1> DEFINE f == row.coef
           g == IF v = 0 THEN [d \in DOMAIN f \ {c} |-> f[d]] ELSE [f EXCEPT ![c] = v]
<1>1. row = MadeRow(row.lhs, row.rhs, row.flags, f)
  BY RowFields DEF MadeRow
<1>2. [row EXCEPT !.coef = g] = MadeRow(row.lhs, row.rhs, row.flags, g)
  <2> HIDE DEF g
  <2>1. [MadeRow(row.lhs, row.rhs, row.flags, f) EXCEPT !.coef = g]
          = MadeRow(row.lhs, row.rhs, row.flags, g)
    BY DEF MadeRow
  <2> QED BY <1>1, <2>1
<1>3. ChangeCoefficient(row, c, v) = MadeRow(row.lhs, row.rhs, row.flags, g)
  BY <1>2 DEF ChangeCoefficient
<1>4. f = [d \in DOMAIN f |-> f[d]]
  BY RowFields
<1> HIDE DEF f
<1>5. /\ DOMAIN g = IF v = 0 THEN DOMAIN f \ {c} ELSE DOMAIN f
      /\ \A d \in DOMAIN f \ {c} : d \in DOMAIN g /\ g[d] = f[d]
      /\ c \in DOMAIN g <=> v # 0
      /\ v # 0 => g[c] = v
  BY <1>4 DEF f
<1> DEFINE m == MadeRow(row.lhs, row.rhs, row.flags, g)
<1>6. m.lhs = row.lhs /\ m.rhs = row.rhs /\ m.flags = row.flags /\ m.coef = g
  BY DEF MadeRow
<1> HIDE DEF g, m
<1>7. Coefficient(m, c) = v
  BY <1>5, <1>6 DEF Coefficient
<1>8. Changed(m, row, c, v)
  BY <1>5, <1>6, <1>7 DEF Changed, f
<1> QED BY <1>3, <1>8 DEF m

(* One more change of a coefficient.                                       *)
LEMMA DoneMore ==
  ASSUME NEW n, NEW new, IsRow(new, n), NEW row, NEW es, NEW k \in Nat \ {0},
         Done(new, row, es, k - 1), NEW c, NEW v, es[k][2] = c, es[k][3] = v,
         c \in DOMAIN row.coef, \A i \in 1..k-1 : es[i][2] # c
  PROVE  Done(ChangeCoefficient(new, c, v), row, es, k)
<1> DEFINE m == ChangeCoefficient(new, c, v)
<1>1. /\ new.lhs = row.lhs /\ new.rhs = row.rhs /\ new.flags = row.flags
      /\ DOMAIN new.coef \subseteq DOMAIN row.coef
      /\ \A i \in 1..k-1 : Coefficient(new, es[i][2]) = es[i][3]
      /\ \A i \in 1..k-1 : es[i][3] = 0 => es[i][2] \notin DOMAIN new.coef
      /\ \A d \in DOMAIN row.coef :
           (\A i \in 1..k-1 : es[i][2] # d) => d \in DOMAIN new.coef /\ new.coef[d] = row.coef[d]
  BY DEF Done
<1>2. c \in DOMAIN new.coef
  BY <1>1
<1>3. /\ m.lhs = new.lhs /\ m.rhs = new.rhs /\ m.flags = new.flags
      /\ DOMAIN m.coef \subseteq DOMAIN new.coef
      /\ Coefficient(m, c) = v /\ (v = 0 => c \notin DOMAIN m.coef)
      /\ \A d \in DOMAIN new.coef \ {c} : d \in DOMAIN m.coef /\ m.coef[d] = new.coef[d]
  <2>1. Changed(m, new, c, v)
    BY <1>2, CoefficientChanged
  <2> HIDE DEF m
  <2> QED BY <2>1 DEF Changed
<1> HIDE DEF m
<1>4. ASSUME NEW i \in 1..k  PROVE Coefficient(m, es[i][2]) = es[i][3]
  <2>1. CASE i = k
    BY <1>3, <2>1
  <2>2. CASE i \in 1..k-1
    <3> DEFINE d == es[i][2]
    <3>1. d # c /\ Coefficient(new, d) = es[i][3]
      BY <1>1, <2>2
    <3> HIDE DEF d
    <3>2. Coefficient(m, d) = Coefficient(new, d)
      BY <1>3, <3>1 DEF Coefficient
    <3> QED BY <3>1, <3>2 DEF d
  <2> QED BY <2>1, <2>2
<1>5. ASSUME NEW d \in DOMAIN row.coef, \A i \in 1..k : es[i][2] # d
      PROVE  d \in DOMAIN m.coef /\ m.coef[d] = row.coef[d]
  <2>1. k \in 1..k /\ \A i \in 1..k-1 : i \in 1..k
    OBVIOUS
  <2>2. d # c /\ \A i \in 1..k-1 : es[i][2] # d
    BY <1>5, <2>1
  <2>3. d \in DOMAIN new.coef /\ new.coef[d] = row.coef[d]
    BY <1>1, <2>2
  <2> QED BY <1>3, <2>2, <2>3
<1>6. ASSUME NEW i \in 1..k, es[i][3] = 0  PROVE es[i][2] \notin DOMAIN m.coef
  <2>1. CASE i = k
    BY <1>3, <1>6, <2>1
  <2>2. CASE i \in 1..k-1
    BY <1>1, <1>3, <1>6, <2>2
  <2> QED BY <2>1, <2>2
<1> QED BY <1>1, <1>3, <1>4, <1>5, <1>6 DEF Done, m

(* All changes of the coefficients of a row.                               *)
LEMMA EntriesStage ==
  ASSUME NEW q, WellFormed(q), NEW r \in Rows(q), NEW E, NEW es \in Seq(Entries(q, {r}, E)), Distinct(es)
  PROVE  LET w == Stage(q, "entries", es)
         IN  IsVariant(w, q, {r}, {}) /\ Done(w.rows[r], q.rows[r], es, Len(es))
<1> DEFINE V == Variants(q, {r}, {})
           row == q.rows[r]
           L == Listed("entries", es)
           U == {"entries"} \X Entries(q, {r}, E)
           G == [k \in Nat |-> {v \in V : Done(v.rows[r], row, es, k)}]
<1>1. L \in Seq(U) /\ Len(L) = Len(es)
  BY ListedTyped
<1>2. Len(es) \in Nat /\ DOMAIN es = 1..Len(es) /\ DOMAIN L = 1..Len(es)
  <2> HIDE DEF U, L
  <2> QED BY <1>1, LenProperties
<1>3. \A k \in 1..Len(es) : L[k] = Named("entries", es[k])
  BY <1>2 DEF Listed, Named
<1>4. q \in V
  <2>1. IsVariant(q, q, {r}, {})
    <3>1. /\ q \in [cols : Seq(ColumnOf), rows : Seq(Range(q.rows))]
          /\ \A s \in Rows(q) : IsRow(q.rows[s], Len(q.cols)) /\ EquationRight(q.rows[s])
      BY DEF WellFormed
    <3>2. q.cols \in [Columns(q) -> ColumnOf] /\ q.rows \in [Rows(q) -> Range(q.rows)]
          /\ q = [cols |-> q.cols, rows |-> q.rows]
      <4>1. q.cols \in Seq(ColumnOf) /\ q.rows \in Seq(Range(q.rows))
            /\ q = [cols |-> q.cols, rows |-> q.rows]
        BY <3>1
      <4>2. \A S : \A s \in Seq(S) : s \in [DOMAIN s -> S]
        BY LenProperties
      <4> QED BY <4>1, <4>2 DEF Columns, Rows
    <3> QED BY <3>1, <3>2 DEF IsVariant
  <2> QED BY <2>1, VariantsAre
<1>5. q \in G[0]
  <2>1. Done(row, row, es, 0)
    BY DEF Done
  <2> QED BY <1>4, <2>1
<1>6. ASSUME NEW k \in 1..Len(es), NEW v \in G[k - 1]  PROVE Apply(v, L[k]) \in G[k]
  <2>1. k \in Nat \ {0} /\ k - 1 \in Nat
    BY <1>2
  <2>2. v \in V /\ Done(v.rows[r], row, es, k - 1)
    BY <2>1
  <2>3. IsVariant(v, q, {r}, {})
    BY <2>2, VariantsAre
  <2> DEFINE t == es[k]
             c == t[2]
             x == t[3]
  <2>4. t \in Entries(q, {r}, E)
    BY <1>2
  <2>5. t[1] = r /\ x \in Steps /\ c \in DOMAIN row.coef
    BY <2>4 DEF Entries
  <2>6. \A i \in 1..k-1 : es[i][2] # c
    <3> TAKE i \in 1..k-1
    <3>1. i \in DOMAIN es /\ k \in DOMAIN es /\ i # k
      BY <1>2, <2>1
    <3>2. <<es[i][1], es[i][2]>> # <<es[k][1], es[k][2]>>
      BY <3>1 DEF Distinct
    <3>3. es[i] \in Entries(q, {r}, E)
      BY <3>1
    <3>4. es[i][1] = r /\ es[k][1] = r
      BY <2>5, <3>3 DEF Entries
    <3> QED BY <3>2, <3>4
  <2> DEFINE new == v.rows[r]
  <2>7. IsRow(new, Len(q.cols)) /\ IsPair(v) /\ r \in DOMAIN v.rows
    BY <2>3, VariantParts, RowOfVariant
  <2>8. Done(ChangeCoefficient(new, c, x), row, es, k)
    <3> HIDE DEF new, c, x, row
    <3> QED BY <2>1, <2>2, <2>5, <2>6, <2>7, DoneMore DEF new, c, x
  <2>9. Apply(v, L[k]) = Entry(v, t)
    BY <1>3 DEF Apply, Named
  <2>10. Entry(v, t) = WithRow(v, r, ChangeCoefficient(new, c, x))
    <3>1. Entry(v, t) = WithRow(v, t[1], ChangeCoefficient(v.rows[t[1]], t[2], t[3]))
      BY <2>7, RowEdits
    <3> QED BY <2>5, <3>1
  <2>11. IsVariant(Entry(v, t), q, {r}, {})
    <3> DEFINE R == {r}
    <3>1. R \in SUBSET Rows(q) /\ t[1] \in R /\ t[3] \in Steps
      BY <2>5
    <3>2. IsVariant(v, q, R, {})
      BY <2>3
    <3> HIDE DEF R, t
    <3>3. IsVariant(Entry(v, t), q, R, {})
      BY <3>1, <3>2, RowsKeep
    <3> QED BY <3>3 DEF R
  <2> DEFINE w == Entry(v, t)
  <2>12. w.rows[r] = ChangeCoefficient(new, c, x)
    <3> DEFINE z == ChangeCoefficient(new, c, x)
    <3> HIDE DEF z
    <3>1. WithRow(v, r, z).rows[r] = z
      BY <2>3, <2>7, VariantParts DEF WithRow
    <3> QED BY <2>10, <3>1 DEF z
  <2> HIDE DEF w, new, c, x, t, row
  <2>13. w \in V /\ Done(w.rows[r], row, es, k)
    BY <2>8, <2>11, <2>12, VariantsAre DEF w
  <2>14. w \in G[k]
    BY <2>1, <2>13
  <2> QED BY <2>9, <2>14 DEF w
<1>7. Stage(q, "entries", es) \in G[Len(es)]
  <2>1. Editing!TakesLast
    BY LastIsPicked
  <2> HIDE DEF G, L, U, V
  <2>2. Editing!Over(q, L) \in G[Len(L)]
    BY <1>1, <1>5, <1>6, <2>1, Editing!OverReaches
  <2> QED BY <1>1, <2>2 DEF Stage, L
<1> DEFINE w == Stage(q, "entries", es)
<1> HIDE DEF w
<1>8. w \in V /\ Done(w.rows[r], row, es, Len(es))
  BY <1>2, <1>7 DEF w
<1> QED BY <1>8, VariantsAre DEF w

(* With a zeta of zero a side becomes what it is set to.                   *)
LEMMA SideSet ==
  ASSUME Zeta = 0, NEW n, NEW row, IsRow(row, n), NEW a \in Int
  PROVE  /\ LET m == ModifyLeft(row, a)
            IN  /\ m.coef = row.coef /\ m.rhs = row.rhs /\ m.lhs = a
                /\ m.flags \ {"Equation"} = row.flags \ {"LhsInf", "Equation"}
         /\ LET m == ModifyRight(row, a)
            IN  /\ m.coef = row.coef /\ m.lhs = row.lhs /\ m.rhs = a
                /\ m.flags \ {"Equation"} = row.flags \ {"RhsInf", "Equation"}
<1> DEFINE l == row.lhs
           h == row.rhs
           F == row.flags
           f == row.coef
<1>1. row = MadeRow(l, h, F, f) /\ l \in Int /\ h \in Int
  BY RowFields DEF MadeRow
<1>2. \A o \in Int : Snapped(a, o) = a
  BY DEF Snapped, IsZetaEq, Magnitude
<1>3. ModifyLeft(row, a) = MadeRow(a, h, LeftFlags(F, a, h), f)
      /\ ModifyRight(row, a) = MadeRow(l, a, RightFlags(F, l, a), f)
  <2> HIDE DEF l, h, F, f
  <2>1. ModifyLeft(MadeRow(l, h, F, f), a) = LeftMade(Snapped(a, h), h, F, f)
        /\ ModifyRight(MadeRow(l, h, F, f), a) = RightMade(l, Snapped(a, l), F, f)
    BY SideFields
  <2> QED BY <1>1, <1>2, <2>1 DEF LeftMade, RightMade
<1> HIDE DEF l, h, F, f
<1>4. /\ LeftFlags(F, a, h) \ {"Equation"} = F \ {"LhsInf", "Equation"}
      /\ RightFlags(F, l, a) \ {"Equation"} = F \ {"RhsInf", "Equation"}
  BY DEF LeftFlags, RightFlags, MarkedFlags
<1> DEFINE A == LeftFlags(F, a, h)
           B == RightFlags(F, l, a)
<1> HIDE DEF A, B
<1>5. LET m == MadeRow(a, h, A, f)
      IN  m.coef = f /\ m.rhs = h /\ m.lhs = a /\ m.flags = A
  BY DEF MadeRow
<1>6. LET m == MadeRow(l, a, B, f)
      IN  m.coef = f /\ m.lhs = l /\ m.rhs = a /\ m.flags = B
  BY DEF MadeRow
<1> QED BY <1>3, <1>4, <1>5, <1>6 DEF A, B, l, h, F, f

(* A left side that was set, or needed not be.                             *)
LeftSet(new, row, a) ==
  /\ new.coef = row.coef /\ new.rhs = row.rhs
  /\ new.flags \ {"Equation"} = row.flags \ {"Equation"}
  /\ "LhsInf" \notin row.flags => new.lhs = a

RightSet(new, row, a) ==
  /\ new.coef = row.coef /\ new.lhs = row.lhs
  /\ new.flags \ {"Equation"} = row.flags \ {"Equation"}
  /\ "RhsInf" \notin row.flags => new.rhs = a

(* The left side of a row, replayed: it is the new one, unless it is       *)
(* infinite.                                                               *)
LEMMA LeftStage ==
  ASSUME Zeta = 0, NEW q, NEW r \in Rows(q), NEW v, IsVariant(v, q, {r}, {}), NEW a \in Int,
         NEW old, old.lhs = v.rows[r].lhs, "LhsInf" \in old.flags <=> "LhsInf" \in v.rows[r].flags
  PROVE  LET w == Stage(v, "lefts", LeftEdit(old, r, a))
         IN  IsVariant(w, q, {r}, {}) /\ LeftSet(w.rows[r], v.rows[r], a)
<1> DEFINE row == v.rows[r]
<1>1. IsRow(row, Len(q.cols)) /\ IsPair(v) /\ r \in DOMAIN v.rows /\ row.lhs \in Int
  BY VariantParts, RowOfVariant, RowFields
<1>2. CASE "LhsInf" \in old.flags \/ IsZetaEq(old.lhs, a)
  <2>1. Stage(v, "lefts", LeftEdit(old, r, a)) = v
    BY <1>2, StageEmpty DEF LeftEdit
  <2>2. "LhsInf" \notin row.flags => row.lhs = a
    <3> HIDE DEF row
    <3> QED BY <1>1, <1>2 DEF IsZetaEq, Magnitude, row
  <2> QED BY <2>1, <2>2 DEF LeftSet
<1>3. CASE "LhsInf" \notin old.flags /\ ~ IsZetaEq(old.lhs, a)
  <2> DEFINE s == <<r, a>>
             m == ModifyLeft(row, a)
  <2>1. LeftEdit(old, r, a) = Single(s)
    BY <1>3 DEF LeftEdit, Single
  <2> HIDE DEF s
  <2>2. Stage(v, "lefts", LeftEdit(old, r, a)) = Apply(v, Named("lefts", s))
    BY <2>1, StageOne
  <2>3. Apply(v, Named("lefts", s)) = LeftSide(v, s)
    BY DEF Apply, Named
  <2>4. LeftSide(v, s) = WithRow(v, r, m)
    <3>1. LeftSide(v, s) = WithRow(v, s[1], ModifyLeft(v.rows[s[1]], s[2]))
      BY <1>1, RowEdits
    <3> QED BY <3>1 DEF s
  <2>5. IsVariant(LeftSide(v, s), q, {r}, {})
    <3> DEFINE R == {r}
    <3>1. R \in SUBSET Rows(q) /\ s \in R \X Int /\ IsVariant(v, q, R, {})
      BY DEF s
    <3> HIDE DEF R
    <3>2. IsVariant(LeftSide(v, s), q, R, {})
      BY <3>1, SidesKeep
    <3> QED BY <3>2 DEF R
  <2>6. /\ m.coef = row.coef /\ m.rhs = row.rhs /\ m.lhs = a
        /\ m.flags \ {"Equation"} = row.flags \ {"LhsInf", "Equation"}
    BY <1>1, SideSet
  <2> HIDE DEF m
  <2>7. WithRow(v, r, m).rows[r] = m
    BY <1>1, VariantParts DEF WithRow
  <2>8. LeftSet(m, row, a)
    BY <1>3, <2>6 DEF LeftSet
  <2> QED BY <2>2, <2>3, <2>4, <2>5, <2>7, <2>8
<1> QED BY <1>2, <1>3

(* The right side of a row, replayed.                                      *)
LEMMA RightStage ==
  ASSUME Zeta = 0, NEW q, NEW r \in Rows(q), NEW v, IsVariant(v, q, {r}, {}), NEW a \in Int,
         NEW old, old.rhs = v.rows[r].rhs, "RhsInf" \in old.flags <=> "RhsInf" \in v.rows[r].flags
  PROVE  LET w == Stage(v, "rights", RightEdit(old, r, a))
         IN  IsVariant(w, q, {r}, {}) /\ RightSet(w.rows[r], v.rows[r], a)
<1> DEFINE row == v.rows[r]
<1>1. IsRow(row, Len(q.cols)) /\ IsPair(v) /\ r \in DOMAIN v.rows /\ row.rhs \in Int
  BY VariantParts, RowOfVariant, RowFields
<1>2. CASE "RhsInf" \in old.flags \/ IsZetaEq(old.rhs, a)
  <2>1. Stage(v, "rights", RightEdit(old, r, a)) = v
    BY <1>2, StageEmpty DEF RightEdit
  <2>2. "RhsInf" \notin row.flags => row.rhs = a
    <3> HIDE DEF row
    <3> QED BY <1>1, <1>2 DEF IsZetaEq, Magnitude, row
  <2> QED BY <2>1, <2>2 DEF RightSet
<1>3. CASE "RhsInf" \notin old.flags /\ ~ IsZetaEq(old.rhs, a)
  <2> DEFINE s == <<r, a>>
             m == ModifyRight(row, a)
  <2>1. RightEdit(old, r, a) = Single(s)
    BY <1>3 DEF RightEdit, Single
  <2> HIDE DEF s
  <2>2. Stage(v, "rights", RightEdit(old, r, a)) = Apply(v, Named("rights", s))
    BY <2>1, StageOne
  <2>3. Apply(v, Named("rights", s)) = RightSide(v, s)
    BY DEF Apply, Named
  <2>4. RightSide(v, s) = WithRow(v, r, m)
    <3>1. RightSide(v, s) = WithRow(v, s[1], ModifyRight(v.rows[s[1]], s[2]))
      BY <1>1, RowEdits
    <3> QED BY <3>1 DEF s
  <2>5. IsVariant(RightSide(v, s), q, {r}, {})
    <3> DEFINE R == {r}
    <3>1. R \in SUBSET Rows(q) /\ s \in R \X Int /\ IsVariant(v, q, R, {})
      BY DEF s
    <3> HIDE DEF R
    <3>2. IsVariant(RightSide(v, s), q, R, {})
      BY <3>1, SidesKeep
    <3> QED BY <3>2 DEF R
  <2>6. /\ m.coef = row.coef /\ m.lhs = row.lhs /\ m.rhs = a
        /\ m.flags \ {"Equation"} = row.flags \ {"RhsInf", "Equation"}
    BY <1>1, SideSet
  <2> HIDE DEF m
  <2>7. WithRow(v, r, m).rows[r] = m
    BY <1>1, VariantParts DEF WithRow
  <2>8. RightSet(m, row, a)
    BY <1>3, <2>6 DEF RightSet
  <2> QED BY <2>2, <2>3, <2>4, <2>5, <2>7, <2>8
<1> QED BY <1>2, <1>3

(***************************************************************************)
(* What the edits of a row make of it, all columns and other rows left     *)
(* alone.  The sides were looked up in a row with the same sides.          *)
(***************************************************************************)
Entered(new, row, es) ==
  /\ DOMAIN new.coef \subseteq DOMAIN row.coef
  /\ \A i \in 1..Len(es) : Coefficient(new, es[i][2]) = es[i][3]
  /\ \A i \in 1..Len(es) : es[i][3] = 0 => es[i][2] \notin DOMAIN new.coef
  /\ \A c \in DOMAIN row.coef :
       (\A i \in 1..Len(es) : es[i][2] # c) => Coefficient(new, c) = Coefficient(row, c)

(* Edits of a single row: its coefficients are entered, its sides moved.   *)
LEMMA RowReplayed ==
  ASSUME Zeta = 0, NEW q, WellFormed(q), NEW r \in Rows(q), NEW E,
         NEW es \in Seq(Entries(q, {r}, E)), Distinct(es), NEW a \in Int, NEW b \in Int,
         NEW old, old.lhs = q.rows[r].lhs, old.rhs = q.rows[r].rhs, old.flags = q.rows[r].flags,
         NEW e, e = ShiftOf(es, LeftEdit(old, r, a), RightEdit(old, r, b)),
         NEW R, NEW C, NEW D, e \in EditsIn(q, R, C, D)
  PROVE  LET w == Replay(q, e)
         IN  /\ IsVariant(w, q, {r}, {})
             /\ Entered(w.rows[r], q.rows[r], es) /\ Moved(w.rows[r], q.rows[r], a, b)
<1> DEFINE ls == LeftEdit(old, r, a)
           rs == RightEdit(old, r, b)
           x == Stage(q, "entries", es)
           y == Stage(x, "lefts", ls)
           z == Stage(y, "rights", rs)
<1>1. Replay(q, e) = z
  <2>1. e = ShiftOf(es, ls, rs)
    OBVIOUS
  <2> HIDE DEF ls, rs
  <2> QED BY <2>1, ReplayKinds
<1>2. IsVariant(x, q, {r}, {}) /\ Done(x.rows[r], q.rows[r], es, Len(es))
  BY EntriesStage
<1> HIDE DEF x
<1>3. /\ x.rows[r].lhs = q.rows[r].lhs /\ x.rows[r].rhs = q.rows[r].rhs
      /\ x.rows[r].flags = q.rows[r].flags
  BY <1>2 DEF Done
<1>4. IsVariant(y, q, {r}, {}) /\ LeftSet(y.rows[r], x.rows[r], a)
  BY <1>2, <1>3, LeftStage
<1> HIDE DEF y
<1>5. /\ y.rows[r].rhs = q.rows[r].rhs /\ y.rows[r].coef = x.rows[r].coef
      /\ y.rows[r].flags \ {"Equation"} = q.rows[r].flags \ {"Equation"}
  BY <1>3, <1>4 DEF LeftSet
<1>6. IsVariant(z, q, {r}, {}) /\ RightSet(z.rows[r], y.rows[r], b)
  <2>1. "RhsInf" \in old.flags <=> "RhsInf" \in y.rows[r].flags
    BY <1>5
  <2>2. old.rhs = y.rows[r].rhs
    BY <1>5
  <2> QED BY <1>4, <2>1, <2>2, RightStage
<1> HIDE DEF z
<1>7. Moved(z.rows[r], q.rows[r], a, b)
  <2>1. /\ "LhsInf" \in x.rows[r].flags <=> "LhsInf" \in q.rows[r].flags
        /\ "RhsInf" \in y.rows[r].flags <=> "RhsInf" \in q.rows[r].flags
    BY <1>3, <1>5
  <2> QED BY <1>3, <1>4, <1>5, <1>6, <2>1 DEF Moved, LeftSet, RightSet
<1>8. Entered(z.rows[r], q.rows[r], es)
  <2>1. z.rows[r].coef = x.rows[r].coef
    BY <1>5, <1>6 DEF RightSet
  <2> QED BY <1>2, <2>1 DEF Entered, Done, Coefficient
<1> QED BY <1>1, <1>6, <1>7, <1>8

-------------------------------------------------------------------------------
(* The numbers of the reference on the columns of a row.                   *)
LEMMA RowValued ==
  ASSUME Known, NEW q, Fits(q), NEW row, IsRow(row, Len(q.cols))
  PROVE  ValuedRow(row) /\ DOMAIN row.coef \in SUBSET Columns(q)
<1>1. /\ row.lhs \in Int /\ row.rhs \in Int
      /\ DOMAIN row.coef \subseteq 1..Len(q.cols) /\ row.coef \in [DOMAIN row.coef -> Steps]
  BY RowFields
<1>2. Columns(q) = 1..Len(q.cols) /\ IsFiniteSet(Columns(q))
  BY ProblemParts DEF Fits
<1>3. IsFiniteSet(DOMAIN row.coef)
  BY <1>1, <1>2, FS_Subset
<1>4. /\ \A c \in Columns(q) : solution.primal[c] \in Int
      /\ Directed => \A c \in Columns(q) : solution.ray[c] \in Int
  BY StepArithmetic DEF Fits, ReferenceFits, Known, Directed
<1>5. \A c \in DOMAIN row.coef : row.coef[c] \in Int
  BY <1>1, StepArithmetic
<1> QED BY <1>1, <1>2, <1>3, <1>4, <1>5 DEF ValuedRow, Valued

(* A row that fits still does when terms moved into its sides.             *)
LEMMA ShiftedRow ==
  ASSUME Exact, Known, NEW q, Fits(q), Agrees(q), NEW r \in Rows(q), ~ Redundant(q, r),
         NEW new, IsRow(new, Len(q.cols)), NEW cs, Without(new, q.rows[r], cs),
         Directed => \A c \in cs : solution.ray[c] = 0,
         NEW offset, offset = -Part(q.rows[r], solution.primal, cs), NEW integral \in BOOLEAN,
         integral => \A c \in DOMAIN q.rows[r].coef \ cs :
                       \/ "Fixed" \in q.cols[c].flags
                       \/ "Integral" \in q.cols[c].flags /\ IsEpsIntegral(q.rows[r].coef[c]),
         Moved(new, q.rows[r], Shifted(q.rows[r].lhs, offset, integral),
                               Shifted(q.rows[r].rhs, offset, integral))
  PROVE  SidesFit(new)
<1> DEFINE row == q.rows[r]
<1>1. /\ IsRow(row, Len(q.cols)) /\ "Redundant" \notin row.flags
      /\ RowFits(row, q.cols) /\ \A c \in DOMAIN q.cols : ColumnFits(q.cols[c], c)
  BY DEF Fits, WellFormed, Agrees, Rows, Redundant
<1>2. ValuedRow(row) /\ ValuedRow(new) /\ DOMAIN row.coef \subseteq DOMAIN q.cols
  BY <1>1, RowValued DEF Columns
<1>3. SidesFit(row)
  BY <1>1 DEF RowFits
<1> HIDE DEF row
<1>4. integral => Whole(Activity(new, solution.primal))
  <2> SUFFICES ASSUME integral  PROVE Whole(Activity(new, solution.primal))
    OBVIOUS
  <2>1. \A c \in DOMAIN row.coef \ cs :
           \/ "Fixed" \in q.cols[c].flags
           \/ "Integral" \in q.cols[c].flags /\ IsEpsIntegral(row.coef[c])
    BY DEF row
  <2>2. Valued(new, solution.primal) /\ Without(new, row, cs)
    BY <1>2 DEF ValuedRow, row
  <2> QED BY <1>1, <1>2, <2>1, <2>2, WholeLeft
<1>5. /\ Without(new, row, cs) /\ offset = -Part(row, solution.primal, cs)
      /\ Moved(new, row, Shifted(row.lhs, offset, integral), Shifted(row.rhs, offset, integral))
  BY DEF row
<1> QED BY <1>2, <1>3, <1>4, <1>5, ShiftFits

(* Fixed columns stay out of a row from which coefficients were taken.     *)
LEMMA StillOut ==
  ASSUME NEW row, NEW cols, RowFits(row, cols), "Redundant" \notin row.flags, NEW new,
         DOMAIN new.coef \subseteq DOMAIN row.coef,
         \A c \in DOMAIN row.coef :
           Coefficient(new, c) \in {0, Coefficient(row, c), Round(row.coef[c])}
  PROVE  \A c \in DOMAIN cols : "Fixed" \in cols[c].flags => Coefficient(new, c) = 0
<1> SUFFICES ASSUME NEW c \in DOMAIN cols, "Fixed" \in cols[c].flags
             PROVE  Coefficient(new, c) = 0
  OBVIOUS
<1>1. Coefficient(row, c) = 0
  BY DEF RowFits
<1>2. Round(0) = 0
  BY RoundSafe, WholeArithmetic
<1>3. CASE c \in DOMAIN row.coef
  <2>1. row.coef[c] = 0
    BY <1>1, <1>3 DEF Coefficient
  <2> QED BY <1>1, <1>2, <1>3, <2>1
<1>4. CASE c \notin DOMAIN row.coef
  BY <1>4 DEF Coefficient
<1> QED BY <1>3, <1>4

(* A list that has all of a set.                                           *)
Reaches(q, S) == \A c \in S : \E i \in 1..Cardinality(S) : q[i] = c

(* A list of all of the members, each once, leaves none out.               *)
LEMMA NoneLeftOut ==
  ASSUME NEW S, IsFiniteSet(S), NEW q, ListsOnce(q, S)
  PROVE  Reaches(q, S)
<1> DEFINE m == Cardinality(S)
<1>1. m \in Nat /\ q \in [1..m -> S] /\ \A i, j \in 1..m : i # j => q[i] # q[j]
  BY DEF ListsOnce
<1> HIDE DEF m
<1>2. q \in Injection(1..m, S)
  BY <1>1 DEF Injection, IsInjective
<1>3. Cardinality(1..m) = m
  BY <1>1, FS_Interval
<1>4. q \in Surjection(1..m, S)
  BY <1>2, <1>3, FS_Injection DEF m
<1> QED BY <1>4 DEF Surjection, Reaches, m

(* The row that is left when the zeros of a shift were entered.            *)
LEMMA ZerosEntered ==
  ASSUME NEW n \in Nat, NEW row, NEW new, NEW r, NEW cs \in SUBSET (1..n), cs \subseteq DOMAIN row.coef,
         Entered(new, row, Zeros(r, cs))
  PROVE  Without(new, row, cs)
<1> DEFINE q == Falling(cs)
<1>1. ListsOnce(q, cs)
  BY SortedSets
<1> HIDE DEF q
<1>0. Reaches(q, cs)
  <2>1. IsFiniteSet(cs)
    <3>1. IsFiniteSet(1..n)
      BY FS_Interval
    <3> QED BY <3>1, FS_Subset
  <2> QED BY <1>1, <2>1, NoneLeftOut
<1> DEFINE m == Cardinality(cs)
           z == Zeros(r, cs)
<1>2. m \in Nat /\ q \in [1..m -> cs] /\ (\A c \in cs : \E i \in 1..m : q[i] = c)
  BY <1>0, <1>1 DEF ListsOnce, Reaches
<1>3. z = [i \in 1..m |-> <<r, q[i], 0>>]
  BY DEF Zeros, q
<1> HIDE DEF q, m, z
<1>4. Len(z) = m
  <2>1. IsMap(z) /\ DOMAIN z = 1..m /\ \A i \in 1..m : z[i] \in {z[j] : j \in 1..m}
    BY <1>3 DEF IsMap
  <2> QED BY <1>2, <2>1, SequenceMade
<1>5. \A i \in 1..m : z[i][2] = q[i] /\ z[i][3] = 0
  BY <1>3
<1>6. /\ DOMAIN new.coef \subseteq DOMAIN row.coef
      /\ \A i \in 1..m : Coefficient(new, z[i][2]) = z[i][3]
      /\ \A c \in DOMAIN row.coef :
           (\A i \in 1..m : z[i][2] # c) => Coefficient(new, c) = Coefficient(row, c)
  BY <1>4 DEF Entered, z
<1>7. \A c \in cs : Coefficient(new, c) = 0
  BY <1>2, <1>5, <1>6
<1>8. \A c \in DOMAIN row.coef \ cs : Coefficient(new, c) = Coefficient(row, c)
  BY <1>2, <1>5, <1>6
<1> QED BY <1>6, <1>7, <1>8 DEF Without

-------------------------------------------------------------------------------
(* A problem is a variant of its own.                                      *)
LEMMA SelfVariant ==
  ASSUME NEW q, WellFormed(q), NEW R, NEW C
  PROVE  IsVariant(q, q, R, C)
<1>1. /\ q \in [cols : Seq(ColumnOf), rows : Seq(Range(q.rows))]
      /\ \A s \in Rows(q) : IsRow(q.rows[s], Len(q.cols)) /\ EquationRight(q.rows[s])
  BY DEF WellFormed
<1>2. q.cols \in [Columns(q) -> ColumnOf] /\ q.rows \in [Rows(q) -> Range(q.rows)]
      /\ q = [cols |-> q.cols, rows |-> q.rows]
  BY <1>1 DEF Columns, Rows
<1> QED BY <1>1, <1>2 DEF IsVariant

(* The edits that take columns out of a row, by their lists.               *)
LEMMA ShiftForm ==
  ASSUME NEW q, NEW r, NEW cs, NEW offset
  PROVE  Shift(q, r, cs, offset) =
           ShiftOf(Zeros(r, cs),
                   LeftEdit(q.rows[r], r, Shifted(q.rows[r].lhs, offset, IntegralRow(q, r, cs))),
                   RightEdit(q.rows[r], r, Shifted(q.rows[r].rhs, offset, IntegralRow(q, r, cs))))
<1> DEFINE row == q.rows[r]
           integral == IntegralRow(q, r, cs)
           lefts == LeftEdit(row, r, Shifted(row.lhs, offset, integral))
           rights == RightEdit(row, r, Shifted(row.rhs, offset, integral))
           entries == [i \in 1..Cardinality(cs) |-> <<r, Falling(cs)[i], 0>>]
<1>1. Shift(q, r, cs, offset) =
          [NoEdits EXCEPT !.entries = entries, !.lefts = lefts, !.rights = rights]
  BY DEF Shift
<1>2. entries = Zeros(r, cs)
  BY DEF Zeros
<1> HIDE DEF entries, lefts, rights
<1>3. Shift(q, r, cs, offset) = ShiftOf(entries, lefts, rights)
  BY <1>1, RowLists DEF ShiftOf
<1> QED BY <1>2, <1>3 DEF lefts, rights

(***************************************************************************)
(* Columns are taken out of row r of q.  The edits are done to v, which    *)
(* has that row, and were made from a row that has its sides.              *)
(***************************************************************************)
TakesOut(q, r, cs, offset, integral) ==
  /\ cs \in SUBSET DOMAIN q.rows[r].coef
  /\ Directed => \A c \in cs : solution.ray[c] = 0
  /\ offset = -Part(q.rows[r], solution.primal, cs)
  /\ integral \in BOOLEAN
  /\ integral => \A c \in DOMAIN q.rows[r].coef \ cs :
                   \/ "Fixed" \in q.cols[c].flags
                   \/ "Integral" \in q.cols[c].flags /\ IsEpsIntegral(q.rows[r].coef[c])

SameSides(old, row) == old.lhs = row.lhs /\ old.rhs = row.rhs /\ old.flags = row.flags

ShiftOfRow(old, r, cs, offset, integral) ==
  ShiftOf(Zeros(r, cs), LeftEdit(old, r, Shifted(old.lhs, offset, integral)),
                        RightEdit(old, r, Shifted(old.rhs, offset, integral)))

TakenOut(w, v, row, r, cs) ==
  /\ IsVariant(w, v, {r}, {}) /\ Without(w.rows[r], row, cs)
  /\ SidesFit(w.rows[r]) /\ "Redundant" \notin w.rows[r].flags

(* Shift substitutes the columns in the row, and the sides follow.         *)
LEMMA ShiftVisit ==
  ASSUME Exact, Known, NEW q, Fits(q), Agrees(q), NEW r \in Rows(q), ~ Redundant(q, r),
         NEW cs, NEW offset, NEW integral, TakesOut(q, r, cs, offset, integral),
         NEW v, WellFormed(v), r \in Rows(v), v.rows[r] = q.rows[r], Len(v.cols) = Len(q.cols),
         NEW old, SameSides(old, q.rows[r]),
         NEW R, NEW C, NEW D, ShiftOfRow(old, r, cs, offset, integral) \in EditsIn(v, R, C, D)
  PROVE  TakenOut(Replay(v, ShiftOfRow(old, r, cs, offset, integral)), v, q.rows[r], r, cs)
<1> DEFINE e == ShiftOfRow(old, r, cs, offset, integral)
<1>0. /\ cs \in SUBSET DOMAIN q.rows[r].coef
      /\ Directed => \A c \in cs : solution.ray[c] = 0
      /\ offset = -Part(q.rows[r], solution.primal, cs)
      /\ integral \in BOOLEAN
      /\ integral => \A c \in DOMAIN q.rows[r].coef \ cs :
                   \/ "Fixed" \in q.cols[c].flags
                   \/ "Integral" \in q.cols[c].flags /\ IsEpsIntegral(q.rows[r].coef[c])
  BY DEF TakesOut
<1>00. old.lhs = q.rows[r].lhs /\ old.rhs = q.rows[r].rhs /\ old.flags = q.rows[r].flags
  BY DEF SameSides
<1> DEFINE row == q.rows[r]
           a == Shifted(row.lhs, offset, integral)
           b == Shifted(row.rhs, offset, integral)
           w == Replay(v, e)
           n == Len(q.cols)
<1>1. IsRow(row, n) /\ ValuedRow(row) /\ n \in Nat /\ DOMAIN row.coef \subseteq 1..n
  <2>1. IsRow(row, Len(q.cols)) /\ Len(q.cols) \in Nat
    BY ProblemParts DEF Fits, WellFormed
  <2> HIDE DEF row
  <2> QED BY <2>1, RowValued, RowFields
<1>2. a \in Int /\ b \in Int
  <2>1. offset \in Int
    <3>1. Part(row, solution.primal, cs) \in Int
      BY <1>0, <1>1, ActivitySums DEF ValuedRow
    <3> QED BY <1>0, <3>1
  <2>2. row.lhs + offset \in Int /\ row.rhs + offset \in Int
    BY <1>1, <2>1 DEF ValuedRow
  <2>3. Round(row.lhs + offset) \in Int /\ Round(row.rhs + offset) \in Int
    BY <2>2, StepArithmetic
  <2> QED BY <2>2, <2>3 DEF Shifted
<1>3. Zeros(r, cs) \in Seq(Entries(v, {r}, cs)) /\ Distinct(Zeros(r, cs))
  <2>1. IsVariant(v, v, {}, {}) /\ cs \in SUBSET DOMAIN v.rows[r].coef /\ 0 \in Int
    BY <1>0, SelfVariant
  <2> QED BY <2>1, ShiftTyped
<1>4. e = ShiftOf(Zeros(r, cs), LeftEdit(old, r, a), RightEdit(old, r, b))
  BY <1>00 DEF ShiftOfRow
<1> HIDE DEF a, b, e
<1>5. /\ IsVariant(w, v, {r}, {})
      /\ Entered(w.rows[r], v.rows[r], Zeros(r, cs)) /\ Moved(w.rows[r], v.rows[r], a, b)
  <2>1. Zeta = 0
    BY DEF Exact
  <2>2. e \in EditsIn(v, R, C, D)
    BY DEF e
  <2> QED BY <1>00, <1>2, <1>3, <1>4, <2>1, <2>2, RowReplayed
<1> HIDE DEF w
<1>6. IsRow(w.rows[r], n) /\ Entered(w.rows[r], row, Zeros(r, cs)) /\ Moved(w.rows[r], row, a, b)
  BY <1>5, RowOfVariant
<1> DEFINE new == w.rows[r]
<1> HIDE DEF new, row, n
<1>7. Without(new, row, cs)
  <2>1. cs \in SUBSET (1..n) /\ cs \subseteq DOMAIN row.coef
    BY <1>0, <1>1 DEF row
  <2>2. Entered(new, row, Zeros(r, cs))
    BY <1>6 DEF new
  <2> QED BY <1>1, <2>1, <2>2, ZerosEntered
<1>8. SidesFit(new)
  <2>1. /\ IsRow(new, Len(q.cols)) /\ Without(new, q.rows[r], cs)
        /\ Moved(new, q.rows[r], Shifted(q.rows[r].lhs, offset, integral),
                                 Shifted(q.rows[r].rhs, offset, integral))
    BY <1>6, <1>7 DEF new, row, n, a, b
  <2> QED BY <1>0, <2>1, ShiftedRow
<1>9. "Redundant" \notin new.flags
  <2>1. new.flags \ {"Equation"} = row.flags \ {"Equation"} /\ "Redundant" \notin row.flags
    BY <1>6 DEF Moved, new, row, Redundant
  <2> QED BY <2>1
<1> QED BY <1>5, <1>7, <1>8, <1>9 DEF new, row, w, e, TakenOut

-------------------------------------------------------------------------------
(* Edits of rows alone leave the columns.                                  *)
LEMMA SameColumns ==
  ASSUME NEW q, WellFormed(q), NEW R, NEW w, IsVariant(w, q, R, {})
  PROVE  /\ w.cols = q.cols /\ DOMAIN w.rows = DOMAIN q.rows
         /\ \A s \in DOMAIN q.rows : s \notin R => w.rows[s] = q.rows[s]
<1>1. w.cols \in [Columns(q) -> ColumnOf] /\ \A c \in Columns(q) : w.cols[c] = q.cols[c]
  BY DEF IsVariant
<1>2. q.cols = [c \in Columns(q) |-> q.cols[c]]
  BY DEF WellFormed, Columns
<1>3. DOMAIN w.rows = Rows(q) /\ \A s \in Rows(q) \ R : w.rows[s] = q.rows[s]
  BY VariantParts DEF IsVariant
<1> QED BY <1>1, <1>2, <1>3 DEF Rows

(* A problem that agrees still does when a row of it fits in its new form. *)
LEMMA RowAgrees ==
  ASSUME NEW q, WellFormed(q), Agrees(q), NEW r \in Rows(q), ~ Redundant(q, r),
         NEW w, IsVariant(w, q, {r}, {}),
         SidesFit(w.rows[r]), DOMAIN w.rows[r].coef \subseteq DOMAIN q.rows[r].coef,
         \A c \in DOMAIN q.rows[r].coef :
           Coefficient(w.rows[r], c)
             \in {0, Coefficient(q.rows[r], c), Round(q.rows[r].coef[c])}
  PROVE  Agrees(w)
<1> DEFINE new == w.rows[r]
           row == q.rows[r]
<1>1. /\ w.cols = q.cols /\ DOMAIN w.rows = DOMAIN q.rows
      /\ \A s \in DOMAIN q.rows \ {r} : w.rows[s] = q.rows[s]
  BY SameColumns
<1>2. RowFits(row, q.cols) /\ "Redundant" \notin row.flags
  BY DEF Agrees, Rows, Redundant
<1>3. \A c \in DOMAIN q.cols : "Fixed" \in q.cols[c].flags => Coefficient(new, c) = 0
  <2>1. /\ DOMAIN new.coef \subseteq DOMAIN row.coef
        /\ \A c \in DOMAIN row.coef :
             Coefficient(new, c) \in {0, Coefficient(row, c), Round(row.coef[c])}
    OBVIOUS
  <2> HIDE DEF new, row
  <2> QED BY <1>2, <2>1, StillOut
<1>4. RowFits(new, w.cols)
  BY <1>1, <1>3 DEF RowFits
<1> QED BY <1>1, <1>4, AgreesRow

(* A row is marked.                                                        *)
LEMMA ConstraintReplayed ==
  ASSUME NEW q, Fits(q), NEW r \in Rows(q)
  PROVE  LET w == Replay(q, Edits("constraint", q, r))
         IN  IsVariant(w, q, {r}, {}) /\ "Redundant" \in w.rows[r].flags
<1> DEFINE s == Single(r)
           e == AllEdits(s, <<>>, <<>>, <<>>, <<>>, <<>>, <<>>, <<>>, <<>>, <<>>)
           w == Redundancy(q, r)
           m == [q.rows[r] EXCEPT !.flags = @ \cup {"Redundant"}]
<1>1. Edits("constraint", q, r) = e
  <2>1. Edits("constraint", q, r) = [NoEdits EXCEPT !.rows = s]
    BY DEF Edits, Single
  <2> HIDE DEF s
  <2> QED BY <2>1, OneList
<1>2. e \in EditsIn(q, {r}, {}, Columns(q))
  <2>1. IsVariant(q, q, {}, {})
    BY SelfVariant DEF Fits
  <2>2. Edits("constraint", q, r) \in EditsOf("constraint", q, {r})
    BY <2>1, PlainVisitTyped
  <2>3. "constraint" \in ByRow
    BY DEF ByRow
  <2> HIDE DEF e
  <2> QED BY <1>1, <2>2, <2>3, EditsOfRows
<1>3. Replay(q, e) = Apply(q, Named("rows", r))
  <2>1. e = AllEdits(<< r >>, <<>>, <<>>, <<>>, <<>>, <<>>, <<>>, <<>>, <<>>, <<>>)
    BY DEF Single
  <2> HIDE DEF e
  <2> QED BY <1>2, <2>1, ReplayKinds
<1>4. Apply(q, Named("rows", r)) = w
  BY DEF Apply, Named
<1>5. IsVariant(w, q, {r}, {})
  <2>1. IsVariant(q, q, {r}, {}) /\ r \in {r} /\ {r} \in SUBSET Rows(q)
    BY SelfVariant DEF Fits
  <2> QED BY <2>1, RowsKeep
<1>6. w.rows[r] = m
  <2>1. IsPair(q) /\ r \in DOMAIN q.rows
    BY DEF Fits, WellFormed, IsPair, Rows
  <2>2. w = WithRow(q, r, m)
    BY <2>1, RowEdits
  <2> HIDE DEF w, m
  <2> QED BY <2>1, <2>2 DEF WithRow
<1>7. "Redundant" \in m.flags
  <2>1. IsRow(q.rows[r], Len(q.cols))
    BY DEF Fits, WellFormed
  <2>2. q.rows[r] = MadeRow(q.rows[r].lhs, q.rows[r].rhs, q.rows[r].flags, q.rows[r].coef)
    BY <2>1, RowFields DEF MadeRow
  <2> QED BY <2>2 DEF MadeRow
<1> HIDE DEF w, m, e
<1> QED BY <1>1, <1>3, <1>4, <1>5, <1>6, <1>7

(* A removed row is not looked at.                                         *)
LEMMA ConstraintVisit ==
  ASSUME NEW q, Fits(q), Agrees(q), NEW r \in Rows(q)
  PROVE  Agrees(Replay(q, Edits("constraint", q, r)))
<1> DEFINE w == Replay(q, Edits("constraint", q, r))
<1>1. IsVariant(w, q, {r}, {}) /\ "Redundant" \in w.rows[r].flags
  BY ConstraintReplayed
<1> HIDE DEF w
<1>2. /\ w.cols = q.cols /\ DOMAIN w.rows = DOMAIN q.rows
      /\ \A t \in DOMAIN q.rows \ {r} : w.rows[t] = q.rows[t]
  BY <1>1, SameColumns DEF Fits
<1>3. RowFits(w.rows[r], w.cols)
  BY <1>1 DEF RowFits
<1>4. Agrees(w)
  BY <1>2, <1>3, AgreesRow
<1> QED BY <1>4 DEF w

(* The columns that leave a row are worth what they are in the reference.  *)
LEMMA RemovedPart ==
  ASSUME Exact, Known, NEW q, Fits(q), Agrees(q), NEW r \in Rows(q)
  PROVE  /\ FixedEntries(q, r) = -Part(q.rows[r], solution.primal, Removable(q, r))
         /\ Directed => \A c \in Removable(q, r) : solution.ray[c] = 0
<1> DEFINE row == q.rows[r]
           cs == Removable(q, r)
           x == solution.primal
           f == [c \in cs |-> Times(row.coef[c], FixedValue(q, c))]
           g == Terms(row, x)
<1>1. IsRow(row, Len(q.cols)) /\ cs \in SUBSET DOMAIN row.coef
  BY DEF Fits, WellFormed, Removable
<1>2. ValuedRow(row) /\ DOMAIN row.coef \in SUBSET Columns(q)
  <2> HIDE DEF row
  <2> QED BY <1>1, RowValued
<1>3. ASSUME NEW c \in cs
      PROVE  FixedValue(q, c) = x[c] /\ (Directed => solution.ray[c] = 0)
  <2>1. Closed(q, c) /\ IsZetaGE(q.cols[c].lb, q.cols[c].ub) /\ c \in Columns(q)
    BY <1>1, <1>2 DEF Removable
  <2>2. q.cols[c].lb \in Int /\ q.cols[c].ub \in Int
    <3>1. q.cols[c] \in ColumnOf
      BY <2>1 DEF Fits, WellFormed, Columns
    <3> QED BY <3>1, StepArithmetic DEF ColumnOf
  <2>3. solution.primal[c] \in Int /\ (Directed => solution.ray[c] \in Int)
    BY <2>1, StepArithmetic DEF Fits, ReferenceFits, Known, Directed
  <2>4. q.cols[c].lb >= q.cols[c].ub
    <3> DEFINE l == q.cols[c].lb
               h == q.cols[c].ub
    <3>1. l - h >= -Zeta /\ Zeta = 0 /\ l \in Int /\ h \in Int
      BY <2>1, <2>2 DEF IsZetaGE, Exact
    <3> HIDE DEF l, h
    <3>2. l >= h
      BY <3>1
    <3> QED BY <3>2 DEF l, h
  <2>5. ColumnFits(q.cols[c], c) /\ ~ Fixed(q, c)
    BY <2>1 DEF Agrees, Closed, Columns
  <2> QED BY <2>1, <2>2, <2>3, <2>4, <2>5, FixedIsPrimal
<1>4. \A c \in cs : g[c] = Times(row.coef[c], x[c])
  <2> HIDE DEF row, cs
  <2> QED BY <1>1, <1>2, ActivitySums DEF ValuedRow
<1>5. Summing!IsFiniteSet(cs) /\ Summing!Picks(cs)
  <2>1. IsFiniteSet(cs)
    <3> HIDE DEF row, cs
    <3> QED BY <1>1, <1>2, ActivitySums DEF ValuedRow
  <2> QED BY <2>1, SumsAdd
<1>6. DOMAIN f = cs /\ \A c \in cs : f[c] = g[c]
  BY <1>3, <1>4
<1>7. FixedEntries(q, r) = - SumFunction(f)
  BY DEF FixedEntries
<1> HIDE DEF f, g
<1>8. SumFunction(f) = Summing!Fold(0, g, cs)
  <2>1. SumFunction(f) = Summing!Fold(0, f, cs)
    BY <1>6, SumsAdd
  <2> HIDE DEF cs
  <2>2. Summing!Fold(0, f, cs) = Summing!Fold(0, g, cs)
    BY <1>5, <1>6, Summing!FoldDepends
  <2> QED BY <2>1, <2>2
<1> QED BY <1>3, <1>7, <1>8 DEF Part, g

(* Coefficients of columns that can be removed leave their row.            *)
LEMMA CoefficientVisit ==
  ASSUME Exact, Known, NEW q, Fits(q), Agrees(q), NEW r \in Rows(q),
         IsAdmissible("coefficient", q, r)
  PROVE  Agrees(Replay(q, Edits("coefficient", q, r)))
<1> DEFINE cs == Removable(q, r)
           offset == FixedEntries(q, r)
           integral == IntegralRow(q, r, cs)
           row == q.rows[r]
           e == ShiftOfRow(row, r, cs, offset, integral)
           w == Replay(q, e)
<1>1. Edits("coefficient", q, r) = e
  BY ShiftForm DEF Edits, ShiftOfRow
<1>2. e \in EditsIn(q, {r}, {}, Columns(q))
  <2>1. IsVariant(q, q, {}, {})
    BY SelfVariant DEF Fits
  <2>2. "coefficient" \in ByRow
    BY DEF ByRow
  <2>3. Edits("coefficient", q, r) \in EditsOf("coefficient", q, {r})
    BY <2>1, RowVisits, RowEditTyped
  <2> HIDE DEF e
  <2> QED BY <1>1, <2>2, <2>3, EditsOfRows
<1>3. ~ Redundant(q, r) /\ cs \in SUBSET DOMAIN row.coef
  BY DEF IsAdmissible, IsCoefficientAdmissible, Removable
<1>4. /\ offset = -Part(row, solution.primal, cs)
      /\ Directed => \A c \in cs : solution.ray[c] = 0
  BY RemovedPart
<1>5. TakesOut(q, r, cs, offset, integral)
  <2>1. integral \in BOOLEAN /\
        (integral => \A c \in DOMAIN row.coef \ cs :
           \/ "Fixed" \in q.cols[c].flags
           \/ "Integral" \in q.cols[c].flags /\ IsEpsIntegral(row.coef[c]))
    BY DEF IntegralRow, Fixed, Integral
  <2> HIDE DEF cs, offset, integral
  <2> QED BY <1>3, <1>4, <2>1 DEF TakesOut
<1> HIDE DEF cs, offset, integral, w
<1>6. TakenOut(w, q, row, r, cs)
  <2>1. WellFormed(q) /\ SameSides(row, q.rows[r])
    BY DEF Fits, SameSides
  <2> QED BY <1>2, <1>3, <1>5, <2>1, ShiftVisit DEF w
<1>7. Agrees(w)
  <2>1. /\ DOMAIN w.rows[r].coef \subseteq DOMAIN row.coef
        /\ \A c \in DOMAIN row.coef : Coefficient(w.rows[r], c) \in {0, Coefficient(row, c)}
    BY <1>6 DEF Without, TakenOut
  <2>2. WellFormed(q)
    BY DEF Fits
  <2> QED BY <1>3, <1>6, <2>1, <2>2, RowAgrees DEF TakenOut
<1> HIDE DEF e
<1> QED BY <1>1, <1>7 DEF w

-------------------------------------------------------------------------------
(* A row whose coefficients stay fits if its activity is within the sides. *)
LEMMA SidesAgree ==
  ASSUME NEW q, WellFormed(q), Agrees(q), NEW r \in Rows(q), ~ Redundant(q, r),
         NEW w, IsVariant(w, q, {r}, {}), w.rows[r].coef = q.rows[r].coef, SidesFit(w.rows[r])
  PROVE  Agrees(w)
<1>1. \A c \in DOMAIN q.rows[r].coef : Coefficient(w.rows[r], c) = Coefficient(q.rows[r], c)
  BY DEF Coefficient
<1>2. DOMAIN w.rows[r].coef \subseteq DOMAIN q.rows[r].coef
  OBVIOUS
<1> QED BY <1>1, <1>2, RowAgrees

(* The only side a row is given is the activity of the reference.          *)
LEMMA SideIsActivity ==
  ASSUME Exact, solution.status = "feasible", NEW q, Fits(q), Agrees(q), NEW r \in Rows(q),
         ~ Redundant(q, r)
  PROVE  SideValue(q, r) = Activity(q.rows[r], solution.primal)
<1> DEFINE row == q.rows[r]
           a == Activity(row, solution.primal)
<1>0. Known
  BY DEF Known
<1>1. /\ IsRow(row, Len(q.cols)) /\ "Redundant" \notin row.flags
      /\ RowFits(row, q.cols) /\ \A c \in DOMAIN q.cols : ColumnFits(q.cols[c], c)
  BY DEF Fits, WellFormed, Agrees, Rows, Redundant
<1>2. ValuedRow(row) /\ DOMAIN row.coef \subseteq DOMAIN q.cols
  <2> HIDE DEF row
  <2> QED BY <1>0, <1>1, RowValued DEF Columns
<1>3. ASSUME IntegralRow(q, r, {})  PROVE Round(a) = a
  <2>1. \A c \in DOMAIN row.coef \ {} :
           \/ "Fixed" \in q.cols[c].flags
           \/ "Integral" \in q.cols[c].flags /\ IsEpsIntegral(row.coef[c])
    BY <1>3 DEF IntegralRow, Fixed, Integral
  <2>2. Valued(row, solution.primal)
    BY <1>2 DEF ValuedRow
  <2> DEFINE none == {}
  <2>3. Without(row, row, none)
    BY WithoutNothing
  <2> HIDE DEF row, none
  <2>4. \A c \in DOMAIN row.coef \ none :
           \/ "Fixed" \in q.cols[c].flags
           \/ "Integral" \in q.cols[c].flags /\ IsEpsIntegral(row.coef[c])
    BY <2>1 DEF none
  <2>5. Whole(Activity(row, solution.primal))
    BY <1>0, <1>1, <1>2, <2>2, <2>3, <2>4, WholeLeft
  <2> QED BY <2>5, RoundSafe, WholeArithmetic DEF row
<1> QED BY <1>3 DEF SideValue

(* A row is given its only side.                                           *)
LEMMA SideReplayed ==
  ASSUME Exact, NEW q, Fits(q), NEW r \in Rows(q)
  PROVE  LET w == Replay(q, Edits("side", q, r))
         IN  /\ IsVariant(w, q, {r}, {}) /\ w.rows[r].coef = q.rows[r].coef
             /\ w.rows[r].lhs = SideValue(q, r) /\ w.rows[r].rhs = SideValue(q, r)
             /\ SideValue(q, r) \in Int
             /\ w.rows[r].flags \ {"Equation"} = q.rows[r].flags \ {"LhsInf", "RhsInf", "Equation"}
<1> DEFINE a == SideValue(q, r)
           s == <<r, a>>
           one == Single(s)
           e == AllEdits(<<>>, <<>>, one, <<>>, <<>>, <<>>, <<>>, <<>>, <<>>, <<>>)
           w == BothSides(q, s)
           row == q.rows[r]
           left == ModifyLeft(row, a)
           both == ModifyRight(left, a)
<1>1. Edits("side", q, r) = e
  <2>1. Edits("side", q, r) = [NoEdits EXCEPT !.sides = one]
    BY DEF Edits, Single
  <2> HIDE DEF one
  <2> QED BY <2>1, OneList
<1>2. e \in EditsIn(q, {r}, {}, Columns(q))
  <2>1. IsVariant(q, q, {}, {})
    BY SelfVariant DEF Fits
  <2>2. Edits("side", q, r) \in EditsOf("side", q, {r})
    BY <2>1, PlainVisitTyped
  <2>3. "side" \in ByRow
    BY DEF ByRow
  <2> HIDE DEF e
  <2> QED BY <1>1, <2>2, <2>3, EditsOfRows
<1>3. Replay(q, e) = w
  <2> HIDE DEF s, e
  <2>1. e = AllEdits(<<>>, <<>>, << s >>, <<>>, <<>>, <<>>, <<>>, <<>>, <<>>, <<>>)
    BY DEF e, Single
  <2>2. Replay(q, e) = Apply(q, Named("sides", s))
    BY <1>2, <2>1, ReplayKinds
  <2> QED BY <2>2 DEF Apply, Named
<1>4. a \in Int
  <2>1. IsVariant(q, q, {}, {})
    BY SelfVariant DEF Fits
  <2> QED BY <2>1, ValuesTyped
<1>5. IsRow(row, Len(q.cols)) /\ IsPair(q) /\ r \in DOMAIN q.rows
  BY DEF Fits, WellFormed, IsPair, Rows
<1> HIDE DEF a, row
<1>6. /\ left.coef = row.coef /\ left.lhs = a
      /\ left.flags \ {"Equation"} = row.flags \ {"LhsInf", "Equation"}
      /\ IsRow(left, Len(q.cols))
  <2> DEFINE n == Len(q.cols)
  <2>1. IsRow(row, n) /\ Zeta = 0
    BY <1>5 DEF Exact
  <2> HIDE DEF n
  <2>2. IsRow(left, n)
    BY <1>4, <2>1, SideRow
  <2> QED BY <1>4, <2>1, <2>2, SideSet DEF n
<1> HIDE DEF left
<1>7. /\ both.coef = row.coef /\ both.lhs = a /\ both.rhs = a
      /\ both.flags \ {"Equation"} = row.flags \ {"LhsInf", "RhsInf", "Equation"}
  <2>1. /\ both.coef = left.coef /\ both.lhs = left.lhs /\ both.rhs = a
        /\ both.flags \ {"Equation"} = left.flags \ {"RhsInf", "Equation"}
    BY <1>4, <1>6, SideSet DEF Exact
  <2> HIDE DEF both
  <2> QED BY <1>6, <2>1
<1> HIDE DEF both
<1>8. IsVariant(w, q, {r}, {})
  <2>1. IsVariant(q, q, {r}, {})
    BY SelfVariant DEF Fits
  <2>2. s \in {r} \X Int /\ {r} \in SUBSET Rows(q)
    BY <1>4
  <2> HIDE DEF s
  <2> QED BY <2>1, <2>2, SidesKeep
<1>9. w.rows[r] = both
  <2> HIDE DEF s
  <2>0. s[1] = r /\ s[2] = a
    BY DEF s
  <2>1. LeftSide(q, s) = WithRow(q, r, left)
    <3>1. LeftSide(q, s) = WithRow(q, s[1], ModifyLeft(q.rows[s[1]], s[2]))
      BY <1>5, RowEdits
    <3> QED BY <2>0, <3>1 DEF row, left
  <2> DEFINE u == WithRow(q, r, left)
  <2>2. IsPair(u) /\ u.rows[r] = left /\ r \in DOMAIN u.rows
    BY <1>5 DEF WithRow, IsPair
  <2> HIDE DEF u
  <2>3. RightSide(u, s) = WithRow(u, r, both)
    <3>1. RightSide(u, s) = WithRow(u, s[1], ModifyRight(u.rows[s[1]], s[2]))
      BY <2>2, RowEdits
    <3> QED BY <2>0, <2>2, <3>1 DEF both
  <2>4. w = WithRow(u, r, both)
    BY <2>1, <2>3 DEF BothSides, u
  <2> HIDE DEF w
  <2> QED BY <2>2, <2>4 DEF WithRow
<1> HIDE DEF w, s, e
<1> QED BY <1>1, <1>3, <1>4, <1>7, <1>8, <1>9 DEF a, row

(* It is the only one that the reference leaves the row.                   *)
LEMMA SideVisit ==
  ASSUME Exact, solution.status = "feasible", NEW q, Fits(q), Agrees(q), NEW r \in Rows(q),
         IsAdmissible("side", q, r)
  PROVE  Agrees(Replay(q, Edits("side", q, r)))
<1> DEFINE w == Replay(q, Edits("side", q, r))
           a == SideValue(q, r)
<1>1. ~ Redundant(q, r)
  BY DEF IsAdmissible, IsSideAdmissible
<1>2. /\ IsVariant(w, q, {r}, {}) /\ w.rows[r].coef = q.rows[r].coef
      /\ w.rows[r].lhs = a /\ w.rows[r].rhs = a /\ a \in Int
  BY SideReplayed
<1>3. a = Activity(q.rows[r], solution.primal)
  BY <1>1, SideIsActivity
<1> HIDE DEF w, a
<1>4. SidesFit(w.rows[r])
  <2>1. Activity(w.rows[r], solution.primal) = a
    BY <1>2, <1>3 DEF Activity
  <2>2. WithinSides(w.rows[r], a)
    BY <1>2 DEF WithinSides
  <2>3. ~ Directed
    BY DEF Directed
  <2> QED BY <2>1, <2>2, <2>3 DEF SidesFit
<1>5. Agrees(w)
  BY <1>1, <1>2, <1>4, SidesAgree DEF Fits
<1> QED BY <1>5 DEF w

-------------------------------------------------------------------------------
(* The coefficients of a row that are not whole, each with its rounding.   *)
Uneven(row) == {c \in DOMAIN row.coef : ~ IsZetaIntegral(row.coef[c])}

Roundings(row, r) ==
  [i \in DOMAIN Rising(Uneven(row)) |->
     <<r, Rising(Uneven(row))[i], Round(row.coef[Rising(Uneven(row))[i]])>>]

RoundTarget(row) ==
  IF solution.status = "feasible" THEN RoundedActivity(row, solution.primal) ELSE 0

(* What the rounding of a row consists of.                                 *)
LEMMA ConsroundForm ==
  ASSUME NEW q, NEW r
  PROVE  ConsroundEdits(q, r) =
           ShiftOf(Roundings(q.rows[r], r),
                   LeftEdit(q.rows[r], r, Lowered(q.rows[r].lhs, RoundTarget(q.rows[r]))),
                   RightEdit(q.rows[r], r, Raised(q.rows[r].rhs, RoundTarget(q.rows[r]))))
<1> DEFINE row == q.rows[r]
           v == RoundTarget(row)
           lefts == LeftEdit(row, r, Lowered(row.lhs, v))
           rights == RightEdit(row, r, Raised(row.rhs, v))
           entries == Roundings(row, r)
<1>1. ConsroundEdits(q, r) =
          [NoEdits EXCEPT !.entries = entries, !.lefts = lefts, !.rights = rights]
  BY DEF ConsroundEdits, Roundings, Uneven, RoundTarget
<1> HIDE DEF entries, lefts, rights
<1>2. ConsroundEdits(q, r) = ShiftOf(entries, lefts, rights)
  BY <1>1, RowLists DEF ShiftOf
<1> QED BY <1>2 DEF entries, lefts, rights

(* The list of a set of numbers has all of them.                           *)
LEMMA AllListed ==
  ASSUME NEW n \in Nat, NEW S \in SUBSET (1..n)
  PROVE  \A c \in S : \E i \in 1..Cardinality(S) : Rising(S)[i] = c
<1> DEFINE q == Rising(S)
<1>1. ListsOnce(q, S)
  BY SortedSets
<1> HIDE DEF q
<1>2. Reaches(q, S)
  <2>1. IsFiniteSet(S)
    <3>1. IsFiniteSet(1..n)
      BY FS_Interval
    <3> QED BY <3>1, FS_Subset
  <2> QED BY <1>1, <2>1, NoneLeftOut
<1> QED BY <1>2 DEF q, Reaches

(* Once they are entered, all coefficients of the row are whole.           *)
LEMMA RoundingsEntered ==
  ASSUME Exact, NEW n \in Nat, NEW row, IsRow(row, n), NEW new, NEW r,
         Entered(new, row, Roundings(row, r))
  PROVE  \A c \in DOMAIN row.coef : Coefficient(new, c) = Round(row.coef[c])
<1> DEFINE S == Uneven(row)
           q == Rising(S)
           m == Cardinality(S)
           z == Roundings(row, r)
<1>1. DOMAIN row.coef \subseteq 1..n /\ \A c \in DOMAIN row.coef : row.coef[c] \in Int
  BY RowFields, StepArithmetic
<1>2. S \in SUBSET (1..n) /\ S \subseteq DOMAIN row.coef
  BY <1>1 DEF Uneven
<1> HIDE DEF S
<1>3. ListsOnce(q, S)
  BY <1>2, SortedSets
<1> HIDE DEF q, z
<1>4. m \in Nat /\ q \in [1..m -> S] /\ (\A c \in S : \E i \in 1..m : q[i] = c)
  <2>1. \A c \in S : \E i \in 1..m : q[i] = c
    BY <1>2, AllListed DEF q
  <2> QED BY <1>3, <2>1 DEF ListsOnce
<1>5. z = [i \in 1..m |-> <<r, q[i], Round(row.coef[q[i]])>>]
  BY <1>4 DEF Roundings, q, S, z
<1> HIDE DEF m
<1>6. Len(z) = m
  <2>1. IsMap(z) /\ DOMAIN z = 1..m /\ \A i \in 1..m : z[i] \in {z[j] : j \in 1..m}
    BY <1>5 DEF IsMap
  <2> QED BY <1>4, <2>1, SequenceMade
<1>7. \A i \in 1..m : z[i][2] = q[i] /\ z[i][3] = Round(row.coef[q[i]])
  BY <1>5
<1>8. /\ \A i \in 1..m : Coefficient(new, z[i][2]) = z[i][3]
      /\ \A c \in DOMAIN row.coef :
           (\A i \in 1..m : z[i][2] # c) => Coefficient(new, c) = Coefficient(row, c)
  BY <1>6 DEF Entered, z
<1>9. ASSUME NEW c \in S  PROVE Coefficient(new, c) = Round(row.coef[c])
  <2>1. PICK i \in 1..m : q[i] = c
    BY <1>4
  <2> QED BY <1>7, <1>8, <2>1
<1>10. ASSUME NEW c \in DOMAIN row.coef, c \notin S
       PROVE  Coefficient(new, c) = Round(row.coef[c])
  <2>1. \A i \in 1..m : z[i][2] # c
    BY <1>4, <1>7, <1>10
  <2>2. Coefficient(new, c) = row.coef[c]
    BY <1>8, <2>1 DEF Coefficient
  <2> DEFINE v == row.coef[c]
             w == Round(row.coef[c])
  <2>3. v \in Int /\ w \in Int
    BY <1>1, RoundNear
  <2>4. Magnitude(v - w) <= 0
    BY <1>10 DEF Uneven, S, IsZetaIntegral, IsZetaEq, Exact
  <2> HIDE DEF v, w
  <2>5. v = w
    BY <2>3, <2>4 DEF Magnitude
  <2> QED BY <2>2, <2>5 DEF v, w
<1> QED BY <1>9, <1>10

(* A row is rounded.                                                       *)
LEMMA ConsroundReplayed ==
  ASSUME Exact, NEW q, Fits(q), NEW r \in Rows(q)
  PROVE  LET w   == Replay(q, Edits("consround", q, r))
             row == q.rows[r]
         IN  /\ IsVariant(w, q, {r}, {}) /\ DOMAIN w.rows[r].coef \subseteq DOMAIN row.coef
             /\ \A c \in DOMAIN row.coef : Coefficient(w.rows[r], c) = Round(row.coef[c])
             /\ RoundTarget(row) \in Int
             /\ Lowered(row.lhs, RoundTarget(row)) \in Int /\ Raised(row.rhs, RoundTarget(row)) \in Int
             /\ Moved(w.rows[r], row, Lowered(row.lhs, RoundTarget(row)),
                                      Raised(row.rhs, RoundTarget(row)))
<1> DEFINE row == q.rows[r]
           n == Len(q.cols)
           v == RoundTarget(row)
           a == Lowered(row.lhs, v)
           b == Raised(row.rhs, v)
           es == Roundings(row, r)
           e == ShiftOf(es, LeftEdit(row, r, a), RightEdit(row, r, b))
           w == Replay(q, e)
           new == w.rows[r]
<1>0. Zeta = 0 /\ WellFormed(q)
  BY DEF Exact, Fits
<1>1. Edits("consround", q, r) = e
  BY ConsroundForm DEF Edits
<1>2. e \in EditsIn(q, {r}, {}, Columns(q)) /\ es \in Seq(Entries(q, {r}, Columns(q))) /\ Distinct(es)
  <2>1. IsVariant(q, q, {}, {})
    BY SelfVariant DEF Fits
  <2>2. "consround" \in ByRow
    BY DEF ByRow
  <2>3. Edits("consround", q, r) \in EditsOf("consround", q, {r})
    BY <2>1, RowVisits, RowEditTyped
  <2>4. IsRowEdit(Edits("consround", q, r), q, r)
    BY <2>1, RowVisits
  <2>5. e.entries = es
    <3> HIDE DEF es, a, b, row
    <3> QED BY FieldsOfMade DEF ShiftOf
  <2> HIDE DEF e
  <2>6. e \in EditsIn(q, {r}, {}, Columns(q))
    BY <1>1, <2>2, <2>3, EditsOfRows
  <2>7. PICK entries \in Seq(Entries(q, {r}, Columns(q))),
             lefts \in Seq({r} \X Int), rights \in Seq({r} \X Int) :
          e = ShiftOf(entries, lefts, rights) /\ Distinct(entries)
    BY <1>1, <2>4 DEF IsRowEdit
  <2>8. e.entries = entries
    BY <2>7, FieldsOfMade DEF ShiftOf
  <2> QED BY <2>5, <2>6, <2>7, <2>8
<1>3. IsRow(row, n) /\ n \in Nat
  BY ProblemParts DEF Fits, WellFormed
<1>4. v \in Int /\ a \in Int /\ b \in Int
  <2>1. v \in Int
    <3>1. IsVariant(q, q, {}, {})
      BY <1>0, SelfVariant
    <3> QED BY <3>1, ActivitiesInteger DEF RoundTarget
  <2>2. row.lhs \in Int /\ row.rhs \in Int
    BY <1>3, RowFields
  <2> HIDE DEF v, row
  <2>3. EpsFloor(v) \in Int /\ EpsCeil(v) \in Int /\ Round(row.lhs) \in Int /\ Round(row.rhs) \in Int
    BY <2>1, <2>2, StepArithmetic
  <2> QED BY <2>1, <2>3 DEF Lowered, Raised, Least, Most
<1> HIDE DEF a, b, es, w, n, v
<1>5. IsVariant(w, q, {r}, {}) /\ Entered(w.rows[r], row, es) /\ Moved(w.rows[r], row, a, b)
  <2>1. e = ShiftOf(es, LeftEdit(row, r, a), RightEdit(row, r, b))
    OBVIOUS
  <2> HIDE DEF e
  <2> QED BY <1>0, <1>2, <1>4, <2>1, RowReplayed DEF w
<1> HIDE DEF new, row, e
<1>6. \A c \in DOMAIN row.coef : Coefficient(new, c) = Round(row.coef[c])
  BY <1>3, <1>5, RoundingsEntered DEF es, new
<1>7. DOMAIN new.coef \subseteq DOMAIN row.coef
  BY <1>5 DEF Entered, new
<1> QED BY <1>1, <1>4, <1>5, <1>6, <1>7 DEF w, new, a, b, v, row

(* It still fits, whatever is rounded.                                     *)
LEMMA ConsroundVisit ==
  ASSUME Exact, solution.status = "feasible", NEW q, Fits(q), Agrees(q), NEW r \in Rows(q),
         IsAdmissible("consround", q, r)
  PROVE  Agrees(Replay(q, Edits("consround", q, r)))
<1> DEFINE w == Replay(q, Edits("consround", q, r))
           row == q.rows[r]
           new == w.rows[r]
           v == RoundTarget(row)
<1>0. ~ Redundant(q, r) /\ Known /\ WellFormed(q)
  BY DEF IsAdmissible, IsConsroundAdmissible, Known, Fits
<1>1. /\ IsVariant(w, q, {r}, {}) /\ DOMAIN new.coef \subseteq DOMAIN row.coef
      /\ \A c \in DOMAIN row.coef : Coefficient(new, c) = Round(row.coef[c])
      /\ Moved(new, row, Lowered(row.lhs, v), Raised(row.rhs, v))
  BY ConsroundReplayed
<1>2. v = RoundedActivity(row, solution.primal)
  BY DEF RoundTarget
<1> HIDE DEF w, v
<1>3. IsRow(row, Len(q.cols)) /\ IsRow(new, Len(q.cols))
  BY <1>0, <1>1, RowOfVariant DEF WellFormed
<1> HIDE DEF row, new
<1>4. ValuedRow(row) /\ ValuedRow(new)
  BY <1>0, <1>3, RowValued
<1>5. SidesFit(new)
  BY <1>1, <1>2, <1>4, RoundFits DEF ValuedRow
<1>6. Agrees(w)
  BY <1>0, <1>1, <1>5, RowAgrees DEF new, row
<1> QED BY <1>6 DEF w

-------------------------------------------------------------------------------
(* A problem of which one column changed, as far as it says.               *)
ColumnIs(w, q, c, lb, ub, obj, flags) ==
  /\ IsVariant(w, q, Rows(q), {c}) /\ w.rows = q.rows
  /\ w.cols[c].lb = lb /\ w.cols[c].ub = ub /\ w.cols[c].obj = obj /\ w.cols[c].flags = flags

(* It agrees with the reference if the column does.                        *)
LEMMA ColumnAgrees ==
  ASSUME ~ Directed, NEW q, WellFormed(q), Agrees(q), NEW c \in Columns(q),
         NEW w, NEW lb, NEW ub, NEW obj, NEW flags, ColumnIs(w, q, c, lb, ub, obj, flags),
         "Fixed" \in flags => "Fixed" \in q.cols[c].flags, ColumnFits(w.cols[c], c)
  PROVE  Agrees(w)
<1>1. /\ w.rows = q.rows /\ DOMAIN w.cols = DOMAIN q.cols
      /\ \A d \in DOMAIN q.cols \ {c} : w.cols[d] = q.cols[d]
      /\ "Fixed" \in w.cols[c].flags => "Fixed" \in q.cols[c].flags
  BY DEF ColumnIs, IsVariant, Columns
<1> QED BY <1>1, AgreesColumn

(* One change of a column.                                                 *)
LEMMA ColumnStage ==
  ASSUME NEW q, NEW c \in Columns(q), NEW u, NEW lb, NEW ub, NEW obj, NEW flags,
         ColumnIs(u, q, c, lb, ub, obj, flags), NEW x \in Steps
  PROVE  /\ ColumnIs(Stage(u, "objs", Single(<<c, x>>)), q, c, lb, ub, x, flags)
         /\ ColumnIs(Stage(u, "lowers", Single(<<c, x>>)), q, c, x, ub, obj, flags)
         /\ ColumnIs(Stage(u, "uppers", Single(<<c, x>>)), q, c, lb, x, obj, flags)
<1> DEFINE s == <<c, x>>
           col == u.cols[c]
           m1 == [col EXCEPT !.obj = x]
           m2 == [col EXCEPT !.lb = x]
           m3 == [col EXCEPT !.ub = x]
<1>0. s[1] = c /\ s[2] = x
  OBVIOUS
<1>1. /\ IsVariant(u, q, Rows(q), {c}) /\ u.rows = q.rows
      /\ col.lb = lb /\ col.ub = ub /\ col.obj = obj /\ col.flags = flags
  BY DEF ColumnIs
<1>2. IsPair(u) /\ c \in DOMAIN u.cols /\ col \in ColumnOf
  BY <1>1, VariantParts
<1>3. s \in {c} \X Steps /\ {c} \in SUBSET Columns(q)
  OBVIOUS
<1> HIDE DEF s
<1>4. /\ Stage(u, "objs", Single(s)) = Profit(u, s)
      /\ Stage(u, "lowers", Single(s)) = LowerBound(u, s)
      /\ Stage(u, "uppers", Single(s)) = UpperBound(u, s)
  BY StageOne DEF Apply, Named
<1>5. /\ IsVariant(Profit(u, s), q, Rows(q), {c}) /\ IsVariant(LowerBound(u, s), q, Rows(q), {c})
      /\ IsVariant(UpperBound(u, s), q, Rows(q), {c})
  BY <1>1, <1>3, ColumnsKeep
<1>6. /\ m1.lb = lb /\ m1.ub = ub /\ m1.obj = x /\ m1.flags = flags
      /\ m2.lb = x /\ m2.ub = ub /\ m2.obj = obj /\ m2.flags = flags
      /\ m3.lb = lb /\ m3.ub = x /\ m3.obj = obj /\ m3.flags = flags
  BY <1>1, <1>2 DEF ColumnOf
<1>7. /\ Profit(u, s) = WithColumn(u, c, m1) /\ LowerBound(u, s) = WithColumn(u, c, m2)
      /\ UpperBound(u, s) = WithColumn(u, c, m3)
  <2>1. /\ Profit(u, s) = WithColumn(u, s[1], [u.cols[s[1]] EXCEPT !.obj = s[2]])
        /\ LowerBound(u, s) = WithColumn(u, s[1], [u.cols[s[1]] EXCEPT !.lb = s[2]])
        /\ UpperBound(u, s) = WithColumn(u, s[1], [u.cols[s[1]] EXCEPT !.ub = s[2]])
    BY <1>0, <1>2, ColumnEdits
  <2> QED BY <1>0, <2>1
<1> HIDE DEF m1, m2, m3, col
<1>8. \A m : WithColumn(u, c, m).rows = u.rows /\ WithColumn(u, c, m).cols[c] = m
  BY <1>2 DEF WithColumn
<1>9. ColumnIs(Profit(u, s), q, c, lb, ub, x, flags)
  BY <1>1, <1>5, <1>6, <1>7, <1>8 DEF ColumnIs
<1>10. ColumnIs(LowerBound(u, s), q, c, x, ub, obj, flags)
  BY <1>1, <1>5, <1>6, <1>7, <1>8 DEF ColumnIs
<1>11. ColumnIs(UpperBound(u, s), q, c, lb, x, obj, flags)
  BY <1>1, <1>5, <1>6, <1>7, <1>8 DEF ColumnIs
<1> QED BY <1>4, <1>9, <1>10, <1>11 DEF s

(* A change or none, if none is needed.                                    *)
LEMMA StageOrNone ==
  ASSUME NEW q, NEW c \in Columns(q), NEW u, NEW lb, NEW ub, NEW obj, NEW flags,
         ColumnIs(u, q, c, lb, ub, obj, flags), NEW x \in Steps, NEW a
  PROVE  /\ (a = <<>> /\ x = obj) \/ a = Single(<<c, x>>) =>
              ColumnIs(Stage(u, "objs", a), q, c, lb, ub, x, flags)
         /\ (a = <<>> /\ x = lb) \/ a = Single(<<c, x>>) =>
              ColumnIs(Stage(u, "lowers", a), q, c, x, ub, obj, flags)
         /\ (a = <<>> /\ x = ub) \/ a = Single(<<c, x>>) =>
              ColumnIs(Stage(u, "uppers", a), q, c, lb, x, obj, flags)
<1>1. a = <<>> => \A k : Stage(u, k, a) = u
  BY StageEmpty
<1> DEFINE s == Single(<<c, x>>)
<1>2. /\ ColumnIs(Stage(u, "objs", s), q, c, lb, ub, x, flags)
      /\ ColumnIs(Stage(u, "lowers", s), q, c, x, ub, obj, flags)
      /\ ColumnIs(Stage(u, "uppers", s), q, c, lb, x, obj, flags)
  BY ColumnStage
<1> HIDE DEF s
<1>3. /\ (a = <<>> /\ x = obj) \/ a = s => ColumnIs(Stage(u, "objs", a), q, c, lb, ub, x, flags)
      /\ (a = <<>> /\ x = lb) \/ a = s => ColumnIs(Stage(u, "lowers", a), q, c, x, ub, obj, flags)
      /\ (a = <<>> /\ x = ub) \/ a = s => ColumnIs(Stage(u, "uppers", a), q, c, lb, x, obj, flags)
  BY <1>1, <1>2
<1> QED BY <1>3 DEF s

(* A column is given its only value.                                       *)
LEMMA VariableReplayed ==
  ASSUME NEW q, Fits(q), NEW c \in Columns(q)
  PROVE  /\ ColumnIs(Replay(q, Edits("variable", q, c)), q, c, FixedValue(q, c), FixedValue(q, c),
                     q.cols[c].obj, q.cols[c].flags \ {"LbInf", "UbInf"})
         /\ FixedValue(q, c) \in Int
<1> DEFINE a == FixedValue(q, c)
           s == <<c, a>>
           one == Single(s)
           e == AllEdits(<<>>, one, <<>>, <<>>, <<>>, <<>>, <<>>, <<>>, <<>>, <<>>)
           w == Domain(q, s)
           col == q.cols[c]
           m == OnlyValue(col, a)
<1>1. Edits("variable", q, c) = e
  <2>1. Edits("variable", q, c) = [NoEdits EXCEPT !.domains = one]
    BY DEF Edits, Single
  <2> HIDE DEF one
  <2> QED BY <2>1, OneList
<1>2. e \in EditsIn(q, Rows(q), {c}, {c})
  <2>1. IsVariant(q, q, {}, {})
    BY SelfVariant DEF Fits
  <2>2. Edits("variable", q, c) \in EditsOf("variable", q, {c})
    BY <2>1, PlainVisitTyped
  <2>3. "variable" \in ByColumn
    BY DEF ByColumn
  <2> HIDE DEF e
  <2> QED BY <1>1, <2>2, <2>3, EditsOfColumns
<1>3. Replay(q, e) = w
  <2> HIDE DEF s, e
  <2>1. e = AllEdits(<<>>, << s >>, <<>>, <<>>, <<>>, <<>>, <<>>, <<>>, <<>>, <<>>)
    BY DEF e, Single
  <2>2. Replay(q, e) = Apply(q, Named("domains", s))
    BY <1>2, <2>1, ReplayKinds
  <2> QED BY <2>2 DEF Apply, Named
<1>4. a \in Steps /\ a \in Int /\ IsVariant(q, q, Rows(q), {c})
  BY SelfVariant, ValuesTyped DEF Fits
<1>5. IsPair(q) /\ c \in DOMAIN q.cols /\ col \in ColumnOf
  BY DEF Fits, WellFormed, IsPair, Columns
<1> HIDE DEF a
<1>6. w = WithColumn(q, c, m)
  <2> HIDE DEF s
  <2>1. s[1] = c /\ s[2] = a
    BY DEF s
  <2>2. Domain(q, s) = WithColumn(q, s[1], OnlyValue(q.cols[s[1]], s[2]))
    BY <1>5, <2>1, ColumnEdits
  <2> QED BY <2>1, <2>2
<1>7. m.lb = a /\ m.ub = a /\ m.obj = col.obj /\ m.flags = col.flags \ {"LbInf", "UbInf"}
  BY <1>5 DEF OnlyValue, ColumnOf
<1>8. IsVariant(w, q, Rows(q), {c})
  <2>1. s \in {c} \X Steps /\ {c} \in SUBSET Columns(q)
    BY <1>4
  <2> HIDE DEF s
  <2> QED BY <1>4, <2>1, ColumnsKeep
<1> HIDE DEF m, w
<1>9. w.rows = q.rows /\ w.cols[c] = m
  BY <1>5, <1>6 DEF WithColumn
<1>10. ColumnIs(w, q, c, a, a, col.obj, col.flags \ {"LbInf", "UbInf"})
  BY <1>7, <1>8, <1>9 DEF ColumnIs
<1> QED BY <1>1, <1>3, <1>4, <1>10 DEF a

(* It is that of the reference, if there is one.                           *)
LEMMA VariableVisit ==
  ASSUME Exact, solution.status = "feasible", NEW q, Fits(q), Agrees(q), NEW c \in Columns(q),
         IsAdmissible("variable", q, c)
  PROVE  Agrees(Replay(q, Edits("variable", q, c)))
<1> DEFINE w == Replay(q, Edits("variable", q, c))
           a == FixedValue(q, c)
           flags == q.cols[c].flags \ {"LbInf", "UbInf"}
<1>1. ~ Fixed(q, c) /\ ~ Directed /\ Known /\ c \in DOMAIN q.cols /\ WellFormed(q)
  BY DEF IsAdmissible, IsVariableAdmissible, Directed, Known, Columns, Fits
<1>2. ColumnIs(w, q, c, a, a, q.cols[c].obj, flags)
  BY VariableReplayed
<1>3. ColumnFits(q.cols[c], c) /\ solution.primal[c] \in Int
      /\ q.cols[c].lb \in Int /\ q.cols[c].ub \in Int
  <2>1. q.cols[c] \in ColumnOf
    BY <1>1 DEF WellFormed
  <2>2. solution.primal[c] \in Int
    BY StepArithmetic DEF Fits, ReferenceFits
  <2> QED BY <1>1, <2>1, <2>2, StepArithmetic DEF ColumnOf, Agrees
<1>4. a = solution.primal[c]
  BY <1>1, <1>3, FixedIsPrimal
<1> HIDE DEF w, a
<1>5. ColumnFits(w.cols[c], c)
  <2>1. /\ w.cols[c].lb = a /\ w.cols[c].ub = a /\ w.cols[c].flags = flags
    BY <1>2 DEF ColumnIs
  <2>2. "Fixed" \notin q.cols[c].flags
    BY <1>1 DEF Fixed
  <2> QED BY <1>1, <1>3, <1>4, <2>1, <2>2 DEF ColumnFits
<1>6. "Fixed" \in flags => "Fixed" \in q.cols[c].flags
  OBVIOUS
<1> HIDE DEF flags
<1>7. Agrees(w)
  BY <1>1, <1>2, <1>5, <1>6, ColumnAgrees
<1> QED BY <1>7 DEF w

-------------------------------------------------------------------------------
(* A problem is its own variant, with its own columns.                     *)
LEMMA ColumnIsItself ==
  ASSUME NEW q, Fits(q), NEW c \in Columns(q)
  PROVE  /\ ColumnIs(q, q, c, q.cols[c].lb, q.cols[c].ub, q.cols[c].obj, q.cols[c].flags)
         /\ q.cols[c] \in ColumnOf
         /\ q.cols[c].lb \in Int /\ q.cols[c].ub \in Int /\ q.cols[c].obj \in Int
         /\ q.cols[c].lb \in Steps /\ q.cols[c].ub \in Steps /\ q.cols[c].obj \in Steps
         /\ q.cols[c].flags \in SUBSET ColFlag
<1>1. IsVariant(q, q, Rows(q), {c})
  BY SelfVariant DEF Fits
<1>2. q.cols[c] \in ColumnOf
  BY DEF Fits, WellFormed, Columns
<1> QED BY <1>1, <1>2, StepArithmetic DEF ColumnIs, ColumnOf

(* The objective coefficient of a column becomes zero.                     *)
LEMMA ObjectiveReplayed ==
  ASSUME NEW q, Fits(q), NEW c \in Columns(q)
  PROVE  ColumnIs(Replay(q, Edits("objective", q, c)), q, c, q.cols[c].lb, q.cols[c].ub, 0,
                  q.cols[c].flags)
<1> DEFINE s == <<c, 0>>
           one == Single(s)
           e == AllEdits(<<>>, <<>>, <<>>, <<>>, <<>>, <<>>, <<>>, one, <<>>, <<>>)
           w == Stage(q, "objs", one)
           col == q.cols[c]
<1>1. Edits("objective", q, c) = e
  <2>1. Edits("objective", q, c) = [NoEdits EXCEPT !.objs = one]
    BY DEF Edits, Single
  <2> HIDE DEF one
  <2> QED BY <2>1, OneList
<1>2. e \in EditsIn(q, Rows(q), {c}, {c})
  <2>1. IsVariant(q, q, {}, {})
    BY SelfVariant DEF Fits
  <2>2. Edits("objective", q, c) \in EditsOf("objective", q, {c})
    BY <2>1, PlainVisitTyped
  <2>3. "objective" \in ByColumn
    BY DEF ByColumn
  <2> HIDE DEF e
  <2> QED BY <1>1, <2>2, <2>3, EditsOfColumns
<1>3. Replay(q, e) = w
  <2> HIDE DEF s, e
  <2>1. e = AllEdits(<<>>, <<>>, <<>>, <<>>, <<>>, <<>>, <<>>, << s >>, <<>>, <<>>)
    BY DEF e, Single
  <2>2. Replay(q, e) = Apply(q, Named("objs", s))
    BY <1>2, <2>1, ReplayKinds
  <2> QED BY <2>2, StageOne
<1>4. ColumnIs(q, q, c, col.lb, col.ub, col.obj, col.flags) /\ 0 \in Steps
  BY ColumnIsItself, StepArithmetic
<1> HIDE DEF col
<1>5. ColumnIs(w, q, c, col.lb, col.ub, 0, col.flags)
  BY <1>4, ColumnStage
<1> QED BY <1>1, <1>3, <1>5 DEF col

(* It does not matter to a solution.                                       *)
LEMMA ObjectiveVisit ==
  ASSUME solution.status = "feasible", NEW q, Fits(q), Agrees(q), NEW c \in Columns(q)
  PROVE  Agrees(Replay(q, Edits("objective", q, c)))
<1> DEFINE w == Replay(q, Edits("objective", q, c))
           col == q.cols[c]
<1>1. ColumnIs(w, q, c, col.lb, col.ub, 0, col.flags)
  BY ObjectiveReplayed
<1>2. ~ Directed /\ WellFormed(q) /\ ColumnFits(col, c)
  BY DEF Directed, Fits, Agrees, Columns
<1> HIDE DEF w
<1>3. ColumnFits(w.cols[c], c)
  BY <1>1, <1>2 DEF ColumnFits, ColumnIs
<1>4. Agrees(w)
  BY <1>1, <1>2, <1>3, ColumnAgrees
<1> QED BY <1>4 DEF w

(* Rounding a column, by its lists.                                        *)
ValueTarget(c) == IF solution.status = "feasible" THEN solution.primal[c] ELSE 0

(* What the rounding of a column consists of.                              *)
LEMMA VarroundForm ==
  ASSUME NEW q, NEW c
  PROVE  VarroundEdits(q, c) =
           RoundedOf(IF IsZetaIntegral(q.cols[c].obj) THEN <<>>
                       ELSE Single(<<c, Round(q.cols[c].obj)>>),
                     BoundEdit(q.cols[c], c, "LbInf", q.cols[c].lb,
                               Lowered(q.cols[c].lb, ValueTarget(c))),
                     BoundEdit(q.cols[c], c, "UbInf", q.cols[c].ub,
                               Raised(q.cols[c].ub, ValueTarget(c))))
<1> DEFINE col == q.cols[c]
           v == ValueTarget(c)
           objs == IF IsZetaIntegral(col.obj) THEN <<>> ELSE Single(<<c, Round(col.obj)>>)
           lowers == BoundEdit(col, c, "LbInf", col.lb, Lowered(col.lb, v))
           uppers == BoundEdit(col, c, "UbInf", col.ub, Raised(col.ub, v))
<1>1. VarroundEdits(q, c) = [NoEdits EXCEPT !.objs = objs, !.lowers = lowers, !.uppers = uppers]
  BY DEF VarroundEdits, Single, ValueTarget
<1> HIDE DEF objs, lowers, uppers
<1>2. VarroundEdits(q, c) = RoundedOf(objs, lowers, uppers)
  BY <1>1, ColumnLists DEF RoundedOf
<1> QED BY <1>2 DEF objs, lowers, uppers

(* What rounding makes of a column: infinite bounds stay as they are.      *)
NewLower(col, c) == IF "LbInf" \in col.flags THEN col.lb ELSE Lowered(col.lb, ValueTarget(c))
NewUpper(col, c) == IF "UbInf" \in col.flags THEN col.ub ELSE Raised(col.ub, ValueTarget(c))

(* Rounding, replayed: the bounds and the profit of the column are rounded.*)
LEMMA VarroundReplayed ==
  ASSUME Exact, NEW q, Fits(q), NEW c \in Columns(q)
  PROVE  /\ ColumnIs(Replay(q, Edits("varround", q, c)), q, c,
                     NewLower(q.cols[c], c), NewUpper(q.cols[c], c), Round(q.cols[c].obj),
                     q.cols[c].flags)
         /\ ValueTarget(c) \in Int
<1> DEFINE col == q.cols[c]
           v == ValueTarget(c)
           o == Round(col.obj)
           l == NewLower(col, c)
           h == NewUpper(col, c)
           objs == IF IsZetaIntegral(col.obj) THEN <<>> ELSE Single(<<c, o>>)
           lowers == BoundEdit(col, c, "LbInf", col.lb, Lowered(col.lb, v))
           uppers == BoundEdit(col, c, "UbInf", col.ub, Raised(col.ub, v))
           e == RoundedOf(objs, lowers, uppers)
           x == Stage(q, "objs", objs)
           y == Stage(x, "lowers", lowers)
           z == Stage(y, "uppers", uppers)
<1>1. Edits("varround", q, c) = e
  BY VarroundForm DEF Edits
<1>2. e \in EditsIn(q, Rows(q), {c}, {c})
  <2>1. IsVariant(q, q, {}, {})
    BY SelfVariant DEF Fits
  <2>2. Edits("varround", q, c) \in EditsOf("varround", q, {c})
    BY <2>1, PlainVisitTyped
  <2>3. "varround" \in ByColumn
    BY DEF ByColumn
  <2> HIDE DEF e
  <2> QED BY <1>1, <2>2, <2>3, EditsOfColumns
<1>3. v \in Int
  BY StepArithmetic DEF Fits, ReferenceFits, ValueTarget
<1>4. /\ ColumnIs(q, q, c, col.lb, col.ub, col.obj, col.flags)
      /\ col.lb \in Int /\ col.ub \in Int /\ col.obj \in Int
      /\ col.lb \in Steps /\ col.ub \in Steps /\ col.obj \in Steps
  BY ColumnIsItself
<1>5. \A a, b \in Int : IsZetaEq(a, b) => a = b
  BY DEF IsZetaEq, Magnitude, Exact
<1> HIDE DEF v, col
<1>6. o \in Steps /\ Lowered(col.lb, v) \in Steps /\ Raised(col.ub, v) \in Steps
  <2>1. /\ Round(col.obj) \in Steps /\ Round(col.lb) \in Steps /\ Round(col.ub) \in Steps
        /\ EpsFloor(v) \in Steps /\ EpsCeil(v) \in Steps
    BY <1>3, <1>4, StepArithmetic
  <2> QED BY <2>1 DEF Lowered, Raised, Least, Most
<1>7. (objs = <<>> /\ o = col.obj) \/ objs = Single(<<c, o>>)
  <2>1. o \in Int
    BY <1>6, StepArithmetic
  <2>2. IsZetaIntegral(col.obj) => o = col.obj
    BY <1>4, <1>5, <2>1 DEF IsZetaIntegral
  <2> QED BY <2>2
<1>8. (lowers = <<>> /\ l = col.lb) \/ lowers = Single(<<c, l>>)
  <2>1. "LbInf" \notin col.flags /\ IsZetaEq(col.lb, Lowered(col.lb, v)) => Lowered(col.lb, v) = col.lb
    BY <1>4, <1>5, <1>6, StepArithmetic
  <2> QED BY <2>1 DEF BoundEdit, NewLower, Single, v
<1>9. (uppers = <<>> /\ h = col.ub) \/ uppers = Single(<<c, h>>)
  <2>1. "UbInf" \notin col.flags /\ IsZetaEq(col.ub, Raised(col.ub, v)) => Raised(col.ub, v) = col.ub
    BY <1>4, <1>5, <1>6, StepArithmetic
  <2> QED BY <2>1 DEF BoundEdit, NewUpper, Single, v
<1>10. l \in Steps /\ h \in Steps
  BY <1>4, <1>6 DEF NewLower, NewUpper, v
<1> HIDE DEF o, l, h, objs, lowers, uppers
<1>11. Replay(q, e) = z
  BY <1>2, ReplayKinds
<1> HIDE DEF e
<1>12. ColumnIs(x, q, c, col.lb, col.ub, o, col.flags)
  BY <1>4, <1>6, <1>7, StageOrNone
<1> HIDE DEF x
<1>13. ColumnIs(y, q, c, l, col.ub, o, col.flags)
  BY <1>8, <1>10, <1>12, StageOrNone
<1> HIDE DEF y
<1>14. ColumnIs(z, q, c, l, h, o, col.flags)
  BY <1>9, <1>10, <1>13, StageOrNone
<1> QED BY <1>1, <1>3, <1>11, <1>14 DEF l, h, o, v, col

(* The value of a solution stays within the bounds.                        *)
LEMMA VarroundVisit ==
  ASSUME Exact, solution.status = "feasible", NEW q, Fits(q), Agrees(q), NEW c \in Columns(q)
  PROVE  Agrees(Replay(q, Edits("varround", q, c)))
<1> DEFINE w == Replay(q, Edits("varround", q, c))
           col == q.cols[c]
           v == solution.primal[c]
           l == NewLower(col, c)
           h == NewUpper(col, c)
           o == Round(col.obj)
<1>1. ColumnIs(w, q, c, l, h, o, col.flags) /\ v \in Int /\ v = ValueTarget(c)
  BY VarroundReplayed DEF ValueTarget
<1>2. ~ Directed /\ WellFormed(q) /\ ColumnFits(col, c)
  BY DEF Directed, Fits, Agrees, Columns
<1>3. col.lb \in Int /\ col.ub \in Int
  BY ColumnIsItself
<1> HIDE DEF w, v, col, o
<1>4. ("LbInf" \notin col.flags => l <= v) /\ ("UbInf" \notin col.flags => v <= h)
  <2>1. EpsFloor(v) <= v /\ v <= EpsCeil(v) /\ EpsFloor(v) \in Int /\ EpsCeil(v) \in Int
    <3>1. EpsFloor(v) = Floor(v + 0) /\ EpsCeil(v) = Ceil(v - 0) /\ v + 0 = v /\ v - 0 = v
      BY <1>1 DEF EpsFloor, EpsCeil, Exact
    <3> QED BY <1>1, <3>1, RoundNear
  <2>2. Round(col.lb) \in Int /\ Round(col.ub) \in Int
    BY <1>3, RoundNear
  <2> QED BY <1>1, <2>1, <2>2 DEF Lowered, Raised, Least, Most, NewLower, NewUpper
<1>5. /\ "LbInf" \notin col.flags => l \in Int
      /\ "UbInf" \notin col.flags => h \in Int
  <2>1. /\ Round(col.lb) \in Int /\ Round(col.ub) \in Int
        /\ EpsFloor(v) \in Int /\ EpsCeil(v) \in Int
    BY <1>1, <1>3, StepArithmetic
  <2> QED BY <1>1, <2>1 DEF Lowered, Raised, Least, Most, NewLower, NewUpper
<1> HIDE DEF l, h
<1>6. ColumnFits(w.cols[c], c)
  <2>1. w.cols[c].lb = l /\ w.cols[c].ub = h /\ w.cols[c].flags = col.flags
    BY <1>1 DEF ColumnIs
  <2> QED BY <1>1, <1>2, <1>4, <1>5, <2>1 DEF ColumnFits, v
<1>7. Agrees(w)
  BY <1>1, <1>2, <1>6, ColumnAgrees DEF col
<1> QED BY <1>7 DEF w

-------------------------------------------------------------------------------
(* Edits that fix columns commute if they are in different lists.          *)
LEMMA FixingCommutes ==
  ASSUME Zeta = 0, NEW q, NEW R \in SUBSET Rows(q), NEW C \in SUBSET Columns(q), NEW E,
         NEW a \in EditsIn(q, R, C, E), EmptyBut(a, Lists("fixing")),
         NEW b \in EditsIn(q, R, C, E), EmptyBut(b, Lists("fixing"))
  PROVE  Commuting(Variants(q, R, C), a, b)
<1>4. SUFFICES ASSUME NEW v, IsVariant(v, q, R, C), NEW k \in ListNames, NEW l \in ListNames, k # l,
                      NEW x \in Range(Listed(k, a[k])), NEW y \in Range(Listed(l, b[l]))
               PROVE  Apply(Apply(v, x), y) = Apply(Apply(v, y), x)
  BY VariantsAre DEF Commuting
<1>5. /\ x \in Tagged(q, R, C, E) /\ x[1] = k /\ a[k] # << >>
      /\ y \in Tagged(q, R, C, E) /\ y[1] = l /\ b[l] # << >>
  BY ElementOf
<1>6. k \in {"fixed", "entries", "lefts", "rights"} /\ l \in {"fixed", "entries", "lefts", "rights"}
  <2>1. DOMAIN a = ListNames /\ DOMAIN b = ListNames
    BY DEF EditsIn, ListNames
  <2>2. k \in Lists("fixing") /\ l \in Lists("fixing")
    BY <1>5, <2>1 DEF EmptyBut
  <2> QED BY <2>2 DEF Lists
<1>7. CASE k = "fixed"
  <2>1. k \in OfColumns /\ l \in OfRows
    BY <1>4, <1>6, <1>7 DEF OfColumns, OfRows
  <2> QED BY <1>4, <1>5, <2>1, EditsCommute
<1>8. CASE l = "fixed"
  <2>1. k \in OfRows /\ l \in OfColumns
    BY <1>4, <1>6, <1>8 DEF OfColumns, OfRows
  <2> QED BY <1>4, <1>5, <2>1, EditsCommute
<1>9. CASE k # "fixed" /\ l # "fixed"
  <2>1. k \in OfRows /\ l \in OfRows
    BY <1>6, <1>9 DEF OfRows
  <2>2. \A row : IsRow(row, Len(q.cols)) => OnRow(x, OnRow(y, row)) = OnRow(y, OnRow(x, row))
    BY <1>4, <1>5, <1>6, <1>9, RowChangesCommute
  <2> QED BY <1>4, <1>5, <2>1, <2>2, EditsCommute
<1> QED BY <1>7, <1>8, <1>9

(* The column is fixed first, with nothing substituted yet.                *)
LEMMA FixingFirst ==
  ASSUME NEW q, NEW c, NEW rows
  PROVE  [NoEdits EXCEPT !.fixed = Single(c)] \in FixingUpTo(q, c, rows, 0)
<1> DEFINE one == Single(c)
           b == [NoEdits EXCEPT !.fixed = one]
           V == {c}
<1>1. one \in Seq(V) /\ \A T : << >> \in Seq(T)
  BY DEF Single
<1> HIDE DEF one, V
<1>2. b = AllEdits(<<>>, <<>>, <<>>, one, <<>>, <<>>, <<>>, <<>>, <<>>, <<>>)
  BY OneList
<1>3. b \in EditsIn(q, Rows(q), V, V)
  <2> HIDE DEF b
  <2>1. AllEdits(<<>>, <<>>, <<>>, one, <<>>, <<>>, <<>>, <<>>, <<>>, <<>>)
          \in EditsIn(q, Rows(q), V, V)
    BY <1>1, EditsMade
  <2> QED BY <1>2, <2>1
<1>4. b["rows"] = <<>> /\ b["domains"] = <<>> /\ b["sides"] = <<>>
      /\ b["objs"] = <<>> /\ b["lowers"] = <<>> /\ b["uppers"] = <<>> /\ b.entries = <<>>
      /\ b.fixed = one
      /\ DOMAIN b = {"rows", "domains", "sides", "fixed", "entries", "lefts", "rights",
                     "objs", "lowers", "uppers"}
  BY <1>2, FieldsOfMade
<1> HIDE DEF b
<1>5. EmptyBut(b, Lists("fixing"))
  BY <1>4 DEF EmptyBut, Lists
<1>6. b.fixed = << c >> /\ Len(b.entries) = 0 /\ 1..0 = {}
  BY <1>4 DEF one, Single
<1> QED BY <1>3, <1>5, <1>6 DEF FixingUpTo, V, b, one

(***************************************************************************)
(* The copy lags behind the settled problem: the columns and sides are the *)
(* same, and so are the coefficients of columns that are not fixed.        *)
(***************************************************************************)
SameFree(old, row, cols) ==
  /\ SameSides(old, row) /\ DOMAIN row.coef \subseteq DOMAIN old.coef
  /\ \A c \in DOMAIN old.coef :
       "Fixed" \notin cols[c].flags => c \in DOMAIN row.coef /\ row.coef[c] = old.coef[c]

LagsBehind(p, q) ==
  /\ p.cols = q.cols /\ DOMAIN p.rows = DOMAIN q.rows
  /\ \A r \in DOMAIN q.rows : SameFree(p.rows[r], q.rows[r], q.cols)

(* What has been done when the column is substituted in the first k rows.  *)
Substitutes(w, q, c, rows, k) ==
  /\ IsVariant(w, q, Rows(q), {c}) /\ w.cols = Fixation(q, c).cols
  /\ \A r \in Rows(q) : (\A j \in 1..k : rows[j] # r) => w.rows[r] = q.rows[r]
  /\ \A j \in 1..k : /\ Without(w.rows[rows[j]], q.rows[rows[j]], {c})
                     /\ SidesFit(w.rows[rows[j]]) /\ "Redundant" \notin w.rows[rows[j]].flags

(* One more row.                                                           *)
LEMMA SubstitutesMore ==
  ASSUME NEW q, WellFormed(q), NEW c \in Columns(q), NEW rows, NEW k \in Nat \ {0},
         rows[k] \in Rows(q), \A j \in 1..k-1 : rows[j] # rows[k] /\ rows[j] \in Rows(q),
         NEW v, Substitutes(v, q, c, rows, k - 1), NEW w, IsVariant(w, q, Rows(q), {c}),
         TakenOut(w, v, q.rows[rows[k]], rows[k], {c})
  PROVE  Substitutes(w, q, c, rows, k)
<1> DEFINE C == {c}
           r == rows[k]
<1>1. /\ IsVariant(v, q, Rows(q), C) /\ v.cols = Fixation(q, c).cols
      /\ \A s \in Rows(q) : (\A j \in 1..k-1 : rows[j] # s) => v.rows[s] = q.rows[s]
      /\ \A j \in 1..k-1 : /\ Without(v.rows[rows[j]], q.rows[rows[j]], C)
                           /\ SidesFit(v.rows[rows[j]]) /\ "Redundant" \notin v.rows[rows[j]].flags
  BY DEF Substitutes
<1>2. /\ IsVariant(w, v, {r}, {}) /\ Without(w.rows[r], q.rows[r], C)
      /\ SidesFit(w.rows[r]) /\ "Redundant" \notin w.rows[r].flags
  BY DEF TakenOut
<1> HIDE DEF C, r
<1>3. WellFormed(v) /\ DOMAIN v.rows = Rows(q)
  BY <1>1, VariantWellFormed, VariantParts
<1>4. w.cols = v.cols /\ \A s \in Rows(q) : s # r => w.rows[s] = v.rows[s]
  <2>1. /\ w.cols = v.cols
        /\ \A s \in DOMAIN v.rows : s \notin {r} => w.rows[s] = v.rows[s]
    BY <1>2, <1>3, SameColumns
  <2> QED BY <1>3, <2>1
<1>5. ASSUME NEW s \in Rows(q), \A j \in 1..k : rows[j] # s  PROVE w.rows[s] = q.rows[s]
  <2>1. s # r /\ \A j \in 1..k-1 : rows[j] # s
    BY <1>5 DEF r
  <2> QED BY <1>1, <1>4, <2>1
<1>6. ASSUME NEW j \in 1..k
      PROVE  /\ Without(w.rows[rows[j]], q.rows[rows[j]], C)
             /\ SidesFit(w.rows[rows[j]]) /\ "Redundant" \notin w.rows[rows[j]].flags
  <2>1. CASE j = k
    BY <1>2, <2>1 DEF r
  <2>2. CASE j \in 1..k-1
    <3>1. rows[j] \in Rows(q) /\ rows[j] # r
      BY <2>2 DEF r
    <3>2. w.rows[rows[j]] = v.rows[rows[j]]
      BY <1>4, <3>1
    <3> QED BY <1>1, <2>2, <3>2
  <2> QED BY <2>1, <2>2
<1>7. w.cols = Fixation(q, c).cols /\ IsVariant(w, q, Rows(q), C)
  BY <1>1, <1>4 DEF C
<1> QED BY <1>5, <1>6, <1>7 DEF Substitutes, C

-------------------------------------------------------------------------------
(* A column with a single value contributes it times its coefficient.      *)
LEMMA PartOfOne ==
  ASSUME NEW row, NEW x, Valued(row, x), NEW c \in DOMAIN row.coef
  PROVE  Part(row, x, {c}) = Times(row.coef[c], x[c])
<1> DEFINE S == {c}
           f == Terms(row, x)
<1>1. c \in S /\ S \ {c} = {} /\ S \in SUBSET DOMAIN row.coef
  OBVIOUS
<1> HIDE DEF S, f
<1>2. /\ Summing!IsFiniteSet(S) /\ Summing!Integers(f, S) /\ IsFiniteSet(S)
      /\ f[c] = Times(row.coef[c], x[c])
  BY <1>1, ActivitySums DEF f
<1>3. Summing!Picks(S) /\ Summing!Adds
  BY <1>2, SumsAdd
<1>4. Summing!Fold(0, f, S) = f[c] + Summing!Fold(0, f, S \ {c})
  BY <1>1, <1>2, <1>3, Summing!SumTakes
<1>5. Summing!Fold(0, f, {}) = 0
  BY Summing!FoldEmpty
<1>6. f[c] \in Int
  BY <1>1, <1>2 DEF Summing!Integers
<1>7. Part(row, x, S) = f[c]
  <2>1. Part(row, x, S) = Summing!Fold(0, f, S)
    BY DEF Part, f
  <2>2. Summing!Fold(0, f, S) = f[c] + 0
    BY <1>1, <1>4, <1>5
  <2> QED BY <1>6, <2>1, <2>2
<1> QED BY <1>2, <1>7 DEF S

(* The column that is being fixed has one value, that of the reference.    *)
LEMMA FixingValue ==
  ASSUME Exact, Known, NEW q, Fits(q), Agrees(q), NEW p, LagsBehind(p, q), NEW c \in Columns(q),
         IsFixingAdmissible(p, c)
  PROVE  /\ FixedValue(p, c) = solution.primal[c] /\ solution.primal[c] \in Int
         /\ Directed => solution.ray[c] = 0
         /\ "Fixed" \notin q.cols[c].flags
<1>1. p.cols = q.cols /\ Closed(p, c) /\ IsZetaEq(p.cols[c].lb, p.cols[c].ub)
  BY DEF LagsBehind, IsFixingAdmissible
<1>2. p.cols[c].lb \in Int /\ p.cols[c].ub \in Int
  <2>1. q.cols[c] \in ColumnOf
    BY DEF Fits, WellFormed, Columns
  <2> QED BY <1>1, <2>1, StepArithmetic DEF ColumnOf
<1>3. solution.primal[c] \in Int /\ (Directed => solution.ray[c] \in Int)
  BY StepArithmetic DEF Fits, ReferenceFits, Known, Directed
<1>4. p.cols[c].lb >= p.cols[c].ub
  <2> DEFINE l == p.cols[c].lb
             h == p.cols[c].ub
  <2>1. Magnitude(l - h) <= Zeta /\ Zeta = 0 /\ l \in Int /\ h \in Int
    BY <1>1, <1>2 DEF IsZetaEq, Exact
  <2> HIDE DEF l, h
  <2>2. l >= h
    BY <2>1 DEF Magnitude
  <2> QED BY <2>2 DEF l, h
<1>5. ColumnFits(p.cols[c], c) /\ ~ Fixed(p, c)
  BY <1>1 DEF Agrees, Closed, Columns
<1> QED BY <1>1, <1>2, <1>3, <1>4, <1>5, FixedIsPrimal DEF Fixed

(* Apart from that column a row is integral in the copy and in the settled *)
(* problem alike.                                                          *)
LEMMA IntegralAlike ==
  ASSUME NEW q, WellFormed(q), NEW p, WellFormed(p), LagsBehind(p, q), NEW c \in Columns(q), NEW r \in Rows(q),
         IntegralRow(Fixation(p, c), r, {c}), NEW d \in DOMAIN q.rows[r].coef, d # c
  PROVE  \/ "Fixed" \in q.cols[d].flags
         \/ "Integral" \in q.cols[d].flags /\ IsEpsIntegral(q.rows[r].coef[d])
<1> DEFINE fixed == Fixation(p, c)
<1>1. p.cols = q.cols /\ SameFree(p.rows[r], q.rows[r], q.cols)
  BY DEF LagsBehind, Rows
<1>2. fixed.rows = p.rows /\ fixed.cols[d] = p.cols[d]
  <2>1. IsPair(p) /\ c \in DOMAIN p.cols
    BY <1>1 DEF WellFormed, IsPair, Columns
  <2>2. fixed = WithColumn(p, c, [p.cols[c] EXCEPT !.flags = @ \cup {"Fixed"}])
    BY <2>1 DEF Fixation, WithColumn, IsPair
  <2> DEFINE m == [p.cols[c] EXCEPT !.flags = @ \cup {"Fixed"}]
  <2> HIDE DEF fixed, m
  <2>3. fixed = WithColumn(p, c, m)
    BY <2>2 DEF m
  <2> QED BY <2>3 DEF WithColumn
<1>3. d \in DOMAIN p.rows[r].coef
  BY <1>1 DEF SameFree
<1> HIDE DEF fixed
<1>4. Fixed(fixed, d) \/ (Integral(fixed, d) /\ IsEpsIntegral(fixed.rows[r].coef[d]))
  BY <1>2, <1>3 DEF IntegralRow, fixed
<1>5. "Fixed" \in q.cols[d].flags \/ ("Integral" \in q.cols[d].flags /\ IsEpsIntegral(p.rows[r].coef[d]))
  BY <1>1, <1>2, <1>4 DEF Fixed, Integral
<1>6. "Fixed" \in q.cols[d].flags \/ q.rows[r].coef[d] = p.rows[r].coef[d]
  BY <1>1, <1>3 DEF SameFree
<1> QED BY <1>5, <1>6

-------------------------------------------------------------------------------
(* A row the column occurs in: what is done there takes the column out.    *)
FixedOffset(p, r, c) == -Times(p.rows[r].coef[c], FixedValue(p, c))

(* ... as the value of the column is that of the reference.                *)
LEMMA FixingRow ==
  ASSUME Exact, Known, NEW q, Fits(q), Agrees(q), NEW p, WellFormed(p), LagsBehind(p, q),
         NEW c \in Columns(q), IsFixingAdmissible(p, c), NEW r \in Occurrences(p, c)
  PROVE  /\ r \in Rows(q) /\ ~ Redundant(q, r) /\ c \in DOMAIN q.rows[r].coef
         /\ SameSides(p.rows[r], q.rows[r])
         /\ TakesOut(q, r, {c}, FixedOffset(p, r, c), IntegralRow(Fixation(p, c), r, {c}))
<1> DEFINE C == {c}
           row == q.rows[r]
           offset == FixedOffset(p, r, c)
           integral == IntegralRow(Fixation(p, c), r, C)
<1>1. /\ r \in Rows(q) /\ ~ Redundant(p, r) /\ c \in DOMAIN p.rows[r].coef
      /\ SameFree(p.rows[r], row, q.cols)
  BY DEF Occurrences, LagsBehind, Rows
<1>2. /\ FixedValue(p, c) = solution.primal[c] /\ (Directed => solution.ray[c] = 0)
      /\ "Fixed" \notin q.cols[c].flags
  BY FixingValue
<1>3. /\ SameSides(p.rows[r], row) /\ c \in DOMAIN row.coef /\ row.coef[c] = p.rows[r].coef[c]
      /\ ~ Redundant(q, r)
  BY <1>1, <1>2 DEF SameFree, SameSides, Redundant
<1>4. ValuedRow(row)
  <2>1. IsRow(row, Len(q.cols)) /\ Len(q.cols) \in Nat
    BY <1>1, ProblemParts DEF Fits, WellFormed
  <2> HIDE DEF row
  <2> QED BY <1>1, <2>1, RowValued
<1>5. offset = -Part(row, solution.primal, C)
  <2>1. Part(row, solution.primal, C) = Times(row.coef[c], solution.primal[c])
    <3> HIDE DEF row
    <3> QED BY <1>3, <1>4, PartOfOne DEF ValuedRow
  <2> HIDE DEF row
  <2> QED BY <1>2, <1>3, <2>1 DEF FixedOffset
<1>6. integral \in BOOLEAN
  BY DEF IntegralRow
<1>7. integral => \A d \in DOMAIN row.coef \ C : \/ "Fixed" \in q.cols[d].flags
                                                 \/ "Integral" \in q.cols[d].flags /\ IsEpsIntegral(row.coef[d])
  BY <1>1, IntegralAlike DEF Fits
<1>8. C \in SUBSET DOMAIN row.coef /\ (Directed => \A d \in C : solution.ray[d] = 0)
  BY <1>2, <1>3
<1> HIDE DEF C, offset, integral
<1>9. TakesOut(q, r, C, offset, integral)
  BY <1>5, <1>6, <1>7, <1>8 DEF TakesOut
<1> QED BY <1>1, <1>3, <1>9 DEF C, offset, integral

(* Those edits by their lists.                                             *)
FixingRowEdits(p, r, c) == Shift(Fixation(p, c), r, {c}, FixedOffset(p, r, c))

(* They are a shift of the row as the copy has it.                         *)
LEMMA FixingRowForm ==
  ASSUME Exact, Known, NEW q, Fits(q), Agrees(q), NEW p, WellFormed(p), LagsBehind(p, q),
         NEW c \in Columns(q), IsFixingAdmissible(p, c), NEW r \in Occurrences(p, c)
  PROVE  /\ FixingRowEdits(p, r, c)
              = ShiftOfRow(p.rows[r], r, {c}, FixedOffset(p, r, c), IntegralRow(Fixation(p, c), r, {c}))
         /\ IsPart(FixingRowEdits(p, r, c), r, c)
<1> DEFINE C == {c}
           old == p.rows[r]
           offset == FixedOffset(p, r, c)
           fixed == Fixation(p, c)
           integral == IntegralRow(fixed, r, C)
           a == Shifted(old.lhs, offset, integral)
           b == Shifted(old.rhs, offset, integral)
           e == FixingRowEdits(p, r, c)
<1>1. fixed.rows[r] = old
  <2>1. IsPair(p)
    BY DEF WellFormed, IsPair
  <2> QED BY <2>1 DEF Fixation, IsPair
<1>2. e = ShiftOf(Zeros(r, C), LeftEdit(old, r, a), RightEdit(old, r, b))
  <2> HIDE DEF fixed, C, offset, old
  <2>1. Shift(fixed, r, C, offset) =
           ShiftOf(Zeros(r, C),
                   LeftEdit(fixed.rows[r], r, Shifted(fixed.rows[r].lhs, offset, IntegralRow(fixed, r, C))),
                   RightEdit(fixed.rows[r], r, Shifted(fixed.rows[r].rhs, offset, IntegralRow(fixed, r, C))))
    BY ShiftForm
  <2>2. e = Shift(fixed, r, C, offset)
    BY DEF FixingRowEdits, fixed, C, offset
  <2> QED BY <1>1, <2>1, <2>2
<1>3. a \in Int /\ b \in Int
  <2>1. r \in Rows(q) /\ TakesOut(q, r, C, offset, integral) /\ SameSides(old, q.rows[r])
    BY FixingRow
  <2>2. IsRow(q.rows[r], Len(q.cols)) /\ Len(q.cols) \in Nat
    BY <2>1, ProblemParts DEF Fits, WellFormed
  <2>3. ValuedRow(q.rows[r])
    BY <2>1, <2>2, RowValued
  <2> DEFINE part == Part(q.rows[r], solution.primal, C)
  <2>4. part \in Int
    BY <2>1, <2>3, ActivitySums DEF ValuedRow, TakesOut
  <2> HIDE DEF offset, integral, old, part
  <2>5. offset = -part /\ integral \in BOOLEAN
    BY <2>1 DEF TakesOut, part
  <2>6. old.lhs \in Int /\ old.rhs \in Int
    BY <2>1, <2>3 DEF SameSides, ValuedRow
  <2>7. old.lhs + offset \in Int /\ old.rhs + offset \in Int
    BY <2>4, <2>5, <2>6
  <2>8. Round(old.lhs + offset) \in Int /\ Round(old.rhs + offset) \in Int
    BY <2>7, StepArithmetic
  <2> QED BY <2>7, <2>8 DEF Shifted
<1>4. Zeros(r, C) = << <<r, c, 0>> >>
  <2>1. Len(q.cols) \in Nat /\ c \in 1..Len(q.cols)
    BY ProblemParts DEF Fits
  <2> QED BY <2>1, SingleZero
<1>5. e = ShiftOfRow(old, r, C, offset, integral)
  BY <1>2 DEF ShiftOfRow
<1>6. IsPart(e, r, c)
  <2> HIDE DEF a, b, e, old, C
  <2>1. LeftEdit(old, r, a) \in Seq({r} \X Int) /\ RightEdit(old, r, b) \in Seq({r} \X Int)
    BY <1>3, SideEdits
  <2>2. IsShift(e, Zeros(r, C), {r} \X Int)
    BY <1>2, <2>1 DEF IsShift
  <2> QED BY <1>4, <2>2 DEF IsPart
<1> QED BY <1>5, <1>6

-------------------------------------------------------------------------------
(* The column is taken out of one row after the other.                     *)
LEMMA FixingStep ==
  ASSUME Exact, Known, NEW q, Fits(q), Agrees(q), NEW p, WellFormed(p), LagsBehind(p, q),
         NEW c \in Columns(q), IsFixingAdmissible(p, c),
         NEW rows, NEW k \in Nat \ {0}, rows[k] \in Occurrences(p, c),
         \A j \in 1..k-1 : rows[j] # rows[k] /\ rows[j] \in Rows(q),
         NEW f \in FixingUpTo(q, c, rows, k - 1), Substitutes(Replay(q, f), q, c, rows, k - 1),
         NEW e, e = FixingRowEdits(p, rows[k], c)
  PROVE  /\ Join(f, e) \in FixingUpTo(q, c, rows, k)
         /\ Substitutes(Replay(q, Join(f, e)), q, c, rows, k)
<1> DEFINE C == {c}
           R == Rows(q)
           r == rows[k]
           v == Replay(q, f)
           w == Replay(v, e)
           offset == FixedOffset(p, r, c)
           integral == IntegralRow(Fixation(p, c), r, C)
           old == p.rows[r]
<1>1. /\ r \in R /\ ~ Redundant(q, r) /\ c \in DOMAIN q.rows[r].coef
      /\ SameSides(old, q.rows[r]) /\ TakesOut(q, r, C, offset, integral)
  BY FixingRow
<1>2. e = ShiftOfRow(old, r, C, offset, integral) /\ IsPart(e, r, c)
  BY FixingRowForm
<1>3. f \in EditsIn(q, R, C, C) /\ EmptyBut(f, Lists("fixing"))
  BY DEF FixingUpTo
<1>4. IsVariant(v, q, R, C) /\ \A s \in R : (\A j \in 1..k-1 : rows[j] # s) => v.rows[s] = q.rows[s]
  BY DEF Substitutes
<1>5. v.rows[r] = q.rows[r]
  BY <1>1, <1>4
<1>6. WellFormed(q) /\ C \in SUBSET Columns(q) /\ R \in SUBSET Rows(q)
  BY DEF Fits
<1> HIDE DEF v, w, offset, integral, old
<1>7. WellFormed(v) /\ Rows(v) = R /\ Len(v.cols) = Len(q.cols)
  BY <1>4, <1>6, VariantWellFormed
<1>8. e \in EditsIn(q, R, C, C) /\ EmptyBut(e, Lists("fixing"))
  BY <1>1, <1>2, FixingPart
<1>9. e \in EditsIn(v, R, C, C)
  <2>1. r \in Rows(v) /\ c \in DOMAIN v.rows[r].coef
    BY <1>1, <1>5, <1>7
  <2>2. e \in EditsIn(v, Rows(v), C, C)
    BY <1>2, <2>1, FixingPart
  <2> QED BY <1>7, <2>2
<1> HIDE DEF C, R
<1>10. Replay(q, Join(f, e)) = w
  <2>1. Zeta = 0
    BY DEF Exact
  <2>2. Commuting(Variants(q, R, C), f, e)
    BY <1>3, <1>6, <1>8, <2>1, FixingCommutes
  <2>3. IsVariant(q, q, R, C)
    BY <1>6, SelfVariant
  <2>4. Replay(Replay(q, f), e) = Replay(q, Join(f, e))
    BY <1>3, <1>6, <1>8, <2>2, <2>3, ReplayJoin
  <2> QED BY <2>4 DEF w, v
<1>11. IsVariant(w, q, R, C)
  BY <1>4, <1>6, <1>8, ReplayKeeps DEF w
<1> HIDE DEF r
<1>12. TakenOut(w, v, q.rows[r], r, C)
  <2>1. TakenOut(Replay(v, ShiftOfRow(old, r, C, offset, integral)), v, q.rows[r], r, C)
    <3>1. ShiftOfRow(old, r, C, offset, integral) \in EditsIn(v, R, C, C)
      BY <1>2, <1>9
    <3>2. r \in Rows(q) /\ r \in Rows(v)
      BY <1>1, <1>7 DEF R
    <3> QED BY <1>1, <1>5, <1>7, <3>1, <3>2, ShiftVisit
  <2> QED BY <1>2, <2>1 DEF w
<1>13. Substitutes(w, q, c, rows, k)
  <2>1. Substitutes(v, q, c, rows, k - 1)
    BY DEF v
  <2>2. rows[k] \in Rows(q)
    BY <1>1 DEF r, R
  <2>3. TakenOut(w, v, q.rows[rows[k]], rows[k], {c}) /\ IsVariant(w, q, Rows(q), {c})
    BY <1>11, <1>12 DEF r, C, R
  <2> QED BY <1>6, <2>1, <2>2, <2>3, SubstitutesMore
<1>14. Join(f, e) \in FixingUpTo(q, c, rows, k)
  <2>1. rows[k] \in Rows(q) /\ c \in DOMAIN q.rows[rows[k]].coef /\ IsPart(e, rows[k], c)
    BY <1>1, <1>2 DEF r, R
  <2> QED BY <2>1, FixingJoins
<1> QED BY <1>10, <1>13, <1>14

(* The problem when the column is marked and stands in its rows yet.       *)
LEMMA FixingStarts ==
  ASSUME NEW q, WellFormed(q), NEW c \in Columns(q), NEW rows
  PROVE  Substitutes(Replay(q, [NoEdits EXCEPT !.fixed = Single(c)]), q, c, rows, 0)
<1> DEFINE b == [NoEdits EXCEPT !.fixed = Single(c)]
           w == Fixation(q, c)
           C == {c}
           R == Rows(q)
<1>1. b \in EditsIn(q, R, C, C)
  BY FixingFirst DEF FixingUpTo
<1>2. b = AllEdits(<<>>, <<>>, <<>>, << c >>, <<>>, <<>>, <<>>, <<>>, <<>>, <<>>)
  BY OneList DEF Single
<1> HIDE DEF b, R, C
<1>3. Replay(q, b) = Apply(q, Named("fixed", c))
  BY <1>1, <1>2, ReplayKinds
<1>4. Apply(q, Named("fixed", c)) = w
  BY DEF Apply, Named
<1>5. IsVariant(w, q, R, C)
  <2>1. IsVariant(q, q, R, C) /\ c \in C /\ C \in SUBSET Columns(q)
    BY SelfVariant DEF C
  <2> QED BY <2>1, ColumnsKeep
<1>6. w.rows = q.rows
  <2>1. IsPair(q)
    BY DEF WellFormed, IsPair
  <2> QED BY <2>1 DEF Fixation, IsPair
<1> HIDE DEF w
<1>7. 1..0 = {}
  OBVIOUS
<1>8. Substitutes(w, q, c, rows, 0)
  <2>1. w.cols = Fixation(q, c).cols
    BY DEF w
  <2> QED BY <1>5, <1>6, <1>7, <2>1 DEF Substitutes, R, C
<1> QED BY <1>3, <1>4, <1>8 DEF b

-------------------------------------------------------------------------------
(* All of the rows the column occurs in.                                   *)
LEMMA FixingFolds ==
  ASSUME Exact, Known, NEW q, Fits(q), Agrees(q), NEW p, WellFormed(p), LagsBehind(p, q),
         NEW c \in Columns(q), IsFixingAdmissible(p, c)
  PROVE  \E rows, m : /\ m \in Nat /\ rows \in [1..m -> Occurrences(p, c)]
                      /\ \A r \in Occurrences(p, c) : \E j \in 1..m : rows[j] = r
                      /\ Substitutes(Replay(q, Edits("fixing", p, c)), q, c, rows, m)
<1> DEFINE O == Occurrences(p, c)
           rows == Falling(O)
           m == Cardinality(O)
           fixed == Fixation(p, c)
           In(r) == Shift(fixed, r, {c}, -Times(p.rows[r].coef[c], FixedValue(p, c)))
           s == [k \in DOMAIN rows |-> In(rows[k])]
           b == [NoEdits EXCEPT !.fixed = << c >>]
           U == EditsIn(q, Rows(q), {c}, {c})
           G == [k \in Nat |-> {f \in FixingUpTo(q, c, rows, k) : Substitutes(Replay(q, f), q, c, rows, k)}]
<1>1. O \in SUBSET (1..Len(q.rows)) /\ Len(q.rows) \in Nat /\ O \subseteq Rows(q)
  <2>1. Rows(p) = Rows(q) /\ Rows(q) = 1..Len(q.rows) /\ Len(q.rows) \in Nat
    BY ProblemParts DEF Fits, Rows, LagsBehind
  <2> QED BY <2>1 DEF Occurrences
<1>2. ListsOnce(rows, O)
  <2> HIDE DEF O
  <2> QED BY <1>1, SortedSets
<1>3. /\ m \in Nat /\ rows \in [1..m -> O] /\ \A i, j \in 1..m : i # j => rows[i] # rows[j]
      /\ \A r \in O : \E j \in 1..m : rows[j] = r
  <2> HIDE DEF O, rows
  <2>1. /\ Cardinality(O) \in Nat /\ rows \in [1..Cardinality(O) -> O]
        /\ \A i, j \in 1..Cardinality(O) : i # j => rows[i] # rows[j]
        /\ \A r \in O : \E j \in 1..Cardinality(O) : rows[j] = r
    <3>1. IsFiniteSet(1..Len(q.rows))
      <4>1. \A n \in Nat : IsFiniteSet(1..n)
        BY FS_Interval
      <4> QED BY <1>1, <4>1
    <3>2. IsFiniteSet(O)
      BY <1>1, <3>1, FS_Subset
    <3> QED BY <1>2, <3>2, NoneLeftOut DEF ListsOnce, Reaches
  <2> QED BY <2>1
<1>4. \A r : In(r) = FixingRowEdits(p, r, c)
  BY DEF FixingRowEdits, FixedOffset
<1>5. s \in Seq(U) /\ Len(s) = m /\ \A k \in 1..m : s[k] = FixingRowEdits(p, rows[k], c)
  <2>1. DOMAIN rows = 1..m
    BY <1>3
  <2>2. ASSUME NEW k \in 1..m  PROVE In(rows[k]) \in U
    <3>1. rows[k] \in O
      BY <1>3
    <3> DEFINE r == rows[k]
    <3>2. r \in Rows(q) /\ c \in DOMAIN q.rows[r].coef
      BY <3>1, FixingRow
    <3>3. IsPart(FixingRowEdits(p, r, c), r, c)
      BY <3>1, FixingRowForm
    <3> HIDE DEF r, In
    <3>4. In(r) \in U
      BY <1>4, <3>2, <3>3, FixingPart
    <3> QED BY <3>4 DEF r
  <2> HIDE DEF O, rows, In, U, m
  <2>3. IsMap(s) /\ DOMAIN s = 1..m /\ \A k \in 1..m : s[k] = In(rows[k])
    BY <2>1 DEF IsMap
  <2> HIDE DEF s
  <2> QED BY <1>3, <1>4, <2>2, <2>3, SequenceMade
<1> HIDE DEF In
<1>6. ASSUME NEW k \in 1..m, NEW v \in G[k - 1]  PROVE Join(v, s[k]) \in G[k]
  <2>1. k \in Nat \ {0} /\ k - 1 \in Nat
    BY <1>3
  <2>2. v \in FixingUpTo(q, c, rows, k - 1) /\ Substitutes(Replay(q, v), q, c, rows, k - 1)
    BY <2>1
  <2>3. rows[k] \in O /\ \A j \in 1..k-1 : rows[j] # rows[k] /\ rows[j] \in Rows(q)
    <3>1. \A j \in 1..k-1 : j \in 1..m /\ j # k
      BY <1>3
    <3> HIDE DEF rows, O, m
    <3> QED BY <1>1, <1>3, <3>1
  <2>4. s[k] = FixingRowEdits(p, rows[k], c)
    BY <1>5
  <2> DEFINE e == s[k]
  <2> HIDE DEF rows, s, m, e
  <2>5. /\ Join(v, e) \in FixingUpTo(q, c, rows, k)
        /\ Substitutes(Replay(q, Join(v, e)), q, c, rows, k)
    BY <2>1, <2>2, <2>3, <2>4, FixingStep DEF e
  <2>6. G[k] = {f \in FixingUpTo(q, c, rows, k) : Substitutes(Replay(q, f), q, c, rows, k)}
    BY <2>1
  <2> HIDE DEF G
  <2> QED BY <2>5, <2>6 DEF e
<1>7. b \in G[0] /\ G[m] = {f \in FixingUpTo(q, c, rows, m) : Substitutes(Replay(q, f), q, c, rows, m)}
  <2>1. b = [NoEdits EXCEPT !.fixed = Single(c)]
    BY DEF Single
  <2>2. WellFormed(q)
    BY DEF Fits
  <2> HIDE DEF rows, b, m
  <2> QED BY <1>3, <2>1, <2>2, FixingFirst, FixingStarts
<1>8. Substitutes(Replay(q, FoldLeft(Join, b, s)), q, c, rows, m)
  <2>1. Joining!TakesLast
    BY LastIsPicked
  <2> HIDE DEF b, G, O, rows, s, m, U
  <2>3. Joining!Over(b, s) \in G[Len(s)]
    BY <1>5, <1>6, <1>7, <2>1, Joining!OverReaches
  <2> QED BY <1>5, <1>7, <2>3, JoiningIsFold
<1>9. Edits("fixing", p, c) = FoldLeft(Join, b, s)
  BY DEF Edits, FixingEdits, In
<1> DEFINE x == FoldLeft(Join, b, s)
<1> HIDE DEF x, rows, m, O
<1> QED BY <1>3, <1>8, <1>9 DEF x, O

(* A column without profit does not count in the objective.                *)
LEMMA FixedNoProfit ==
  ASSUME NEW q, WellFormed(q), NEW w, WellFormed(w), NEW c \in Columns(q), w.cols = Fixation(q, c).cols,
         NEW d, \A k \in Columns(q) : d[k] \in Int, d[c] = 0, ~ Fixed(q, c)
  PROVE  ObjectiveOf(w, d) = ObjectiveOf(q, d)
<1> DEFINE S == {k \in Columns(q) : ~ Fixed(q, k)}
           T == {k \in Columns(w) : ~ Fixed(w, k)}
           f == [k \in S |-> Times(q.cols[k].obj, d[k])]
           g == [k \in T |-> Times(w.cols[k].obj, d[k])]
<1>1. IsPair(q) /\ q.cols \in [Columns(q) -> ColumnOf] /\ IsFiniteSet(Columns(q))
  BY ProblemParts DEF WellFormed, IsPair
<1>2. /\ Columns(w) = Columns(q) /\ w.cols[c].flags = q.cols[c].flags \cup {"Fixed"}
      /\ \A k \in Columns(q) \ {c} : w.cols[k] = q.cols[k]
  <2>1. q.cols[c] \in ColumnOf
    BY <1>1
  <2>2. Columns(w) = Columns(q)
    BY <1>1 DEF Fixation, IsPair, Columns
  <2> QED BY <1>1, <2>1, <2>2 DEF Fixation, IsPair, ColumnOf
<1>3. T = S \ {c} /\ c \in S
  BY <1>2 DEF Fixed
<1>4. Summing!IsFiniteSet(S) /\ Summing!Picks(S) /\ Summing!IsFiniteSet(T) /\ Summing!Picks(T) /\ Summing!Adds
  <2>1. IsFiniteSet(S) /\ IsFiniteSet(T)
    BY <1>1, <1>2, FS_Subset
  <2> HIDE DEF S, T
  <2> QED BY <2>1, SumsAdd
<1>5. \A k \in S : f[k] \in Int
  <2>1. ASSUME NEW k \in S  PROVE Times(q.cols[k].obj, d[k]) \in Int
    <3>1. q.cols[k].obj \in Int /\ d[k] \in Int
      BY <1>1, StepArithmetic DEF ColumnOf
    <3> QED BY <3>1, TimesInteger
  <2> QED BY <2>1
<1>6. f[c] = 0
  <2>1. q.cols[c].obj \in Int
    BY <1>1, StepArithmetic DEF ColumnOf
  <2> QED BY <1>3, <2>1, WholeProducts
<1>7. \A k \in T : f[k] = g[k]
  BY <1>2, <1>3
<1>8. ObjectiveOf(q, d) = SumFunction(f) /\ ObjectiveOf(w, d) = SumFunction(g) /\ DOMAIN f = S /\ DOMAIN g = T
  BY DEF ObjectiveOf
<1> HIDE DEF f, g, S, T
<1>9. SumFunction(f) = Summing!Fold(0, f, S) /\ SumFunction(g) = Summing!Fold(0, g, T)
  BY <1>8, SumsAdd
<1>10. Summing!Fold(0, f, S) = f[c] + Summing!Fold(0, f, T)
  <2>1. Summing!Integers(f, S)
    BY <1>5 DEF Summing!Integers
  <2> QED BY <1>3, <1>4, <2>1, Summing!SumTakes
<1>11. Summing!Fold(0, f, T) = Summing!Fold(0, g, T)
  BY <1>4, <1>7, Summing!FoldDepends
<1>12. Summing!Fold(0, f, T) \in Int
  <2>1. Summing!Integers(f, T)
    BY <1>3, <1>5 DEF Summing!Integers
  <2> QED BY <1>4, <2>1, Summing!SumTyped
<1> QED BY <1>6, <1>8, <1>9, <1>10, <1>11, <1>12

-------------------------------------------------------------------------------
(* Only the flag of the column changes.                                    *)
LEMMA FixationColumns ==
  ASSUME NEW q, WellFormed(q), NEW c \in Columns(q), NEW cols, cols = Fixation(q, c).cols
  PROVE  /\ DOMAIN cols = DOMAIN q.cols /\ cols[c].flags = q.cols[c].flags \cup {"Fixed"}
         /\ \A d \in DOMAIN q.cols \ {c} : cols[d] = q.cols[d]
<1>1. IsPair(q) /\ q.cols \in [Columns(q) -> ColumnOf]
  BY ProblemParts DEF WellFormed, IsPair
<1>2. q.cols[c] \in ColumnOf
  BY <1>1
<1> QED BY <1>1, <1>2 DEF Fixation, IsPair, ColumnOf

(* A row that the column was taken out of.                                 *)
LEMMA RowAfterFixing ==
  ASSUME NEW row, NEW q, RowFits(row, q.cols), "Redundant" \notin row.flags,
         NEW cols, NEW c, DOMAIN cols = DOMAIN q.cols, \A d \in DOMAIN q.cols \ {c} : cols[d] = q.cols[d],
         NEW new, Without(new, row, {c}), SidesFit(new)
  PROVE  RowFits(new, cols)
<1>1. ASSUME NEW d \in DOMAIN cols, "Fixed" \in cols[d].flags
      PROVE  Coefficient(new, d) = 0
  <2>1. CASE d = c
    BY <2>1 DEF Without
  <2>2. CASE d # c
    <3>1. Coefficient(row, d) = 0
      <4>1. d \in DOMAIN q.cols /\ cols[d] = q.cols[d]
        BY <2>2
      <4> QED BY <1>1, <4>1 DEF RowFits
    <3>2. CASE d \in DOMAIN row.coef
      <4>1. d \in DOMAIN row.coef \ {c}
        BY <2>2, <3>2
      <4>2. Coefficient(new, d) = Coefficient(row, d)
        BY <4>1 DEF Without
      <4> QED BY <3>1, <4>2
    <3>3. CASE d \notin DOMAIN row.coef
      BY <3>3 DEF Without, Coefficient
    <3> QED BY <3>2, <3>3
  <2> QED BY <2>1, <2>2
<1> QED BY <1>1 DEF RowFits

(* A row in which the column does not count.                               *)
LEMMA RowBesideFixing ==
  ASSUME Exact, NEW q, Fits(q), Agrees(q), NEW p, LagsBehind(p, q), NEW c \in Columns(q),
         "Fixed" \notin q.cols[c].flags, NEW r \in Rows(q), r \notin Occurrences(p, c),
         NEW cols, DOMAIN cols = DOMAIN q.cols, \A d \in DOMAIN q.cols \ {c} : cols[d] = q.cols[d]
  PROVE  RowFits(q.rows[r], cols)
<1> DEFINE row == q.rows[r]
<1>1. RowFits(row, q.cols)
  BY DEF Agrees, Rows
<1>2. CASE "Redundant" \in row.flags
  BY <1>2 DEF RowFits
<1>3. CASE "Redundant" \notin row.flags
  <2>1. SameFree(p.rows[r], row, q.cols) /\ r \in Rows(p)
    BY DEF LagsBehind, Rows
  <2>2. ~ Redundant(p, r)
    BY <1>3, <2>1 DEF SameFree, SameSides, Redundant
  <2>3. c \notin DOMAIN p.rows[r].coef \/ IsZetaZero(p.rows[r].coef[c])
    BY <2>1, <2>2 DEF Occurrences
  <2>4. Coefficient(row, c) = 0
    <3>1. CASE c \in DOMAIN row.coef
      <4>1. row.coef[c] = p.rows[r].coef[c] /\ c \in DOMAIN p.rows[r].coef
        BY <2>1, <3>1 DEF SameFree
      <4>2. row.coef[c] \in Int
        <5>1. IsRow(row, Len(q.cols)) /\ Len(q.cols) \in Nat
          BY ProblemParts DEF Fits, WellFormed
        <5> HIDE DEF row
        <5> QED BY <3>1, <5>1, RowFields, StepArithmetic
      <4> DEFINE x == row.coef[c]
      <4>3. Magnitude(x) <= Zeta
        BY <2>3, <4>1 DEF IsZetaZero
      <4> HIDE DEF x
      <4>4. x = 0
        BY <4>2, <4>3 DEF Exact, Magnitude, x
      <4> QED BY <3>1, <4>4 DEF Coefficient, x
    <3>2. CASE c \notin DOMAIN row.coef
      BY <3>2 DEF Coefficient
    <3> QED BY <3>1, <3>2
  <2> HIDE DEF row
  <2>5. \A d \in DOMAIN cols : "Fixed" \in cols[d].flags => Coefficient(row, d) = 0
    BY <1>1, <1>3, <2>4 DEF RowFits
  <2> QED BY <1>1, <1>3, <2>5 DEF RowFits, row
<1> QED BY <1>2, <1>3

(* A column with a single value is substituted.                            *)
LEMMA FixingVisit ==
  ASSUME Exact, Known, NEW q, Fits(q), Agrees(q), NEW p, WellFormed(p), LagsBehind(p, q),
         NEW c \in Columns(q), IsAdmissible("fixing", p, c)
  PROVE  Agrees(Replay(q, Edits("fixing", p, c)))
<1> DEFINE w == Replay(q, Edits("fixing", p, c))
           O == Occurrences(p, c)
<1>0. IsFixingAdmissible(p, c) /\ WellFormed(q) /\ c \in DOMAIN q.cols
  BY DEF IsAdmissible, Fits, Columns
<1>1. PICK rows, m : /\ m \in Nat /\ rows \in [1..m -> O]
                     /\ \A r \in O : \E j \in 1..m : rows[j] = r
                     /\ Substitutes(w, q, c, rows, m)
  BY <1>0, FixingFolds
<1> HIDE DEF w, O
<1>2. /\ IsVariant(w, q, Rows(q), {c}) /\ w.cols = Fixation(q, c).cols
      /\ \A r \in Rows(q) : (\A j \in 1..m : rows[j] # r) => w.rows[r] = q.rows[r]
      /\ \A j \in 1..m : /\ Without(w.rows[rows[j]], q.rows[rows[j]], {c})
                         /\ SidesFit(w.rows[rows[j]]) /\ "Redundant" \notin w.rows[rows[j]].flags
  BY <1>1 DEF Substitutes
<1>3. (Directed => solution.ray[c] = 0) /\ "Fixed" \notin q.cols[c].flags
  BY <1>0, FixingValue
<1>4. /\ DOMAIN w.cols = DOMAIN q.cols /\ w.cols[c].flags = q.cols[c].flags \cup {"Fixed"}
      /\ \A d \in DOMAIN q.cols \ {c} : w.cols[d] = q.cols[d]
  <2> DEFINE cols == w.cols
  <2> HIDE DEF cols
  <2> QED BY <1>0, <1>2, FixationColumns DEF cols
<1>5. \A d \in DOMAIN w.cols : ColumnFits(w.cols[d], d)
  <2>1. ColumnFits(w.cols[c], c)
    BY <1>3, <1>4 DEF ColumnFits
  <2> QED BY <1>4, <2>1 DEF Agrees
<1>6. DOMAIN w.rows = Rows(q) /\ WellFormed(w)
  BY <1>0, <1>2, VariantParts, VariantWellFormed
<1>7. ASSUME NEW r \in Rows(q)  PROVE RowFits(w.rows[r], w.cols)
  <2>1. CASE r \in O
    <3>1. PICK j \in 1..m : rows[j] = r
      BY <1>1, <2>1
    <3>2. Without(w.rows[r], q.rows[r], {c}) /\ SidesFit(w.rows[r])
      BY <1>2, <3>1
    <3>3. "Redundant" \notin q.rows[r].flags
      BY <1>0, <2>1, FixingRow DEF O, Redundant
    <3>4. RowFits(q.rows[r], q.cols)
      BY DEF Agrees, Rows
    <3> DEFINE row == q.rows[r]
               new == w.rows[r]
               cols == w.cols
    <3> HIDE DEF row, new, cols
    <3>5. RowFits(new, cols)
      BY <1>4, <3>2, <3>3, <3>4, RowAfterFixing DEF row, new, cols
    <3> QED BY <3>5 DEF new, cols
  <2>2. CASE r \notin O
    <3>1. \A j \in 1..m : rows[j] # r
      BY <1>1, <2>2
    <3>2. w.rows[r] = q.rows[r]
      BY <1>2, <3>1
    <3> DEFINE cols == w.cols
    <3> HIDE DEF cols
    <3>3. RowFits(q.rows[r], cols)
      BY <1>3, <1>4, <2>2, RowBesideFixing DEF O, cols
    <3> QED BY <3>2, <3>3 DEF cols
  <2> QED BY <2>1, <2>2
<1>8. Improving(w)
  <2>1. CASE ~ Directed
    BY <2>1 DEF Improving
  <2>2. CASE Directed
    <3> DEFINE d == solution.ray
    <3>1. \A k \in Columns(q) : d[k] \in Int
      BY <2>2, StepArithmetic DEF Fits, ReferenceFits, Directed
    <3>2. d[c] = 0 /\ ~ Fixed(q, c)
      BY <1>3, <2>2 DEF Fixed
    <3> HIDE DEF d
    <3>3. ObjectiveOf(w, d) = ObjectiveOf(q, d)
      BY <1>0, <1>2, <1>6, <3>1, <3>2, FixedNoProfit
    <3> QED BY <2>2, <3>3 DEF Agrees, Improving, d
  <2> QED BY <2>1, <2>2
<1>9. Agrees(w)
  BY <1>5, <1>6, <1>7, <1>8 DEF Agrees
<1> QED BY <1>9 DEF w

-------------------------------------------------------------------------------
(* Modifiers of rows see the columns and their row, others the columns.    *)
SeenAlike(m, p, q, i) ==
  m # "fixing" /\ p.cols = q.cols /\ (m \in ByRow => p.rows[i] = q.rows[i])

(* What is found in a column depends on the column alone ...               *)
LEMMA SameColumnsAlike ==
  ASSUME NEW p, NEW q, p.cols = q.cols, NEW i
  PROVE  /\ \A c : Fixed(p, c) = Fixed(q, c) /\ Integral(p, c) = Integral(q, c)
         /\ \A c : Closed(p, c) = Closed(q, c) /\ FixedValue(p, c) = FixedValue(q, c)
         /\ VarroundEdits(p, i) = VarroundEdits(q, i)
<1>1. \A c : Fixed(p, c) = Fixed(q, c) /\ Integral(p, c) = Integral(q, c)
  BY DEF Fixed, Integral
<1>2. ASSUME NEW c  PROVE Closed(p, c) = Closed(q, c) /\ FixedValue(p, c) = FixedValue(q, c)
  BY <1>1 DEF Closed, FixedValue
<1>3. VarroundEdits(p, i) = VarroundEdits(q, i)
  BY DEF VarroundEdits
<1> QED BY <1>1, <1>2, <1>3

(* ... what is found in a row on the row and all of the columns ...        *)
LEMMA SameRowAlike ==
  ASSUME NEW p, NEW q, p.cols = q.cols, NEW r, p.rows[r] = q.rows[r]
  PROVE  /\ Removable(p, r) = Removable(q, r) /\ SideValue(p, r) = SideValue(q, r)
         /\ FixedEntries(p, r) = FixedEntries(q, r) /\ ConsroundEdits(p, r) = ConsroundEdits(q, r)
         /\ \A cs, offset : Shift(p, r, cs, offset) = Shift(q, r, cs, offset)
<1>0. /\ \A c : Fixed(p, c) = Fixed(q, c) /\ Integral(p, c) = Integral(q, c)
      /\ \A c : Closed(p, c) = Closed(q, c) /\ FixedValue(p, c) = FixedValue(q, c)
  BY SameColumnsAlike
<1>1. Removable(p, r) = Removable(q, r)
  BY <1>0 DEF Removable
<1>2. ASSUME NEW cs  PROVE IntegralRow(p, r, cs) = IntegralRow(q, r, cs)
  BY <1>0 DEF IntegralRow
<1>3. SideValue(p, r) = SideValue(q, r)
  BY <1>2 DEF SideValue
<1>4. FixedEntries(p, r) = FixedEntries(q, r)
  <2> DEFINE S == Removable(p, r)
             f == [c \in S |-> Times(p.rows[r].coef[c], FixedValue(p, c))]
             g == [c \in S |-> Times(q.rows[r].coef[c], FixedValue(q, c))]
  <2> HIDE DEF S
  <2>1. f = g
    BY <1>0
  <2>2. FixedEntries(p, r) = -SumFunction(f) /\ FixedEntries(q, r) = -SumFunction(g)
    BY <1>1 DEF FixedEntries, S
  <2> QED BY <2>1, <2>2
<1>5. ConsroundEdits(p, r) = ConsroundEdits(q, r)
  BY DEF ConsroundEdits
<1>6. ASSUME NEW cs, NEW offset  PROVE Shift(p, r, cs, offset) = Shift(q, r, cs, offset)
  BY <1>2 DEF Shift
<1> QED BY <1>1, <1>3, <1>4, <1>5, <1>6

(* ... and so do the edits.                                                *)
LEMMA EditsAlike ==
  ASSUME NEW m \in ByRow \cup ByColumn, NEW p, NEW q, NEW i, SeenAlike(m, p, q, i)
  PROVE  Edits(m, p, i) = Edits(m, q, i)
<1>0. /\ p.cols = q.cols /\ m # "fixing"
      /\ m \in {"constraint", "coefficient", "side", "consround"} => p.rows[i] = q.rows[i]
      /\ m \in {"constraint", "coefficient", "side", "consround",
                "variable", "fixing", "objective", "varround"}
  BY DEF ByRow, ByColumn, SeenAlike
<1>1. CASE m \in {"constraint", "objective"}
  BY <1>1 DEF Edits
<1>2. CASE m = "coefficient"
  <2>1. Removable(p, i) = Removable(q, i) /\ FixedEntries(p, i) = FixedEntries(q, i)
        /\ \A cs, offset : Shift(p, i, cs, offset) = Shift(q, i, cs, offset)
    BY <1>0, <1>2, SameRowAlike
  <2> QED BY <1>2, <2>1 DEF Edits
<1>3. CASE m = "side"
  <2>1. SideValue(p, i) = SideValue(q, i)
    BY <1>0, <1>3, SameRowAlike
  <2> QED BY <1>3, <2>1 DEF Edits
<1>4. CASE m = "consround"
  <2>1. ConsroundEdits(p, i) = ConsroundEdits(q, i)
    BY <1>0, <1>4, SameRowAlike
  <2> QED BY <1>4, <2>1 DEF Edits
<1>5. CASE m = "variable"
  <2>1. FixedValue(p, i) = FixedValue(q, i)
    BY <1>0, SameColumnsAlike
  <2> QED BY <1>5, <2>1 DEF Edits
<1>6. CASE m = "varround"
  <2>1. VarroundEdits(p, i) = VarroundEdits(q, i)
    BY <1>0, SameColumnsAlike
  <2> QED BY <1>6, <2>1 DEF Edits
<1> QED BY <1>0, <1>1, <1>2, <1>3, <1>4, <1>5, <1>6

(***************************************************************************)
(* Whatever modifier visits a row or column, the reference remains true of *)
(* the settled problem, as long as the modifier does not refuse it.        *)
(***************************************************************************)
LEMMA VisitAgrees ==
  ASSUME Exact, Known, NEW m \in ByRow \cup ByColumn, solution.status \notin Refuses(m),
         NEW q, Fits(q), Agrees(q), NEW p, WellFormed(p),
         m = "fixing" => LagsBehind(p, q), NEW i, m # "fixing" => SeenAlike(m, p, q, i),
         m \in ByRow => i \in Rows(q), m \in ByColumn => i \in Columns(q), IsAdmissible(m, p, i)
  PROVE  Agrees(Replay(q, Edits(m, p, i)))
<1>0. /\ m \in {"constraint", "coefficient", "side", "consround"} => i \in Rows(q)
      /\ m \in {"variable", "fixing", "objective", "varround"} => i \in Columns(q)
      /\ m \in {"constraint", "coefficient", "side", "consround",
                "variable", "fixing", "objective", "varround"}
  BY DEF ByRow, ByColumn
<1>1. CASE m = "fixing"
  BY <1>0, <1>1, FixingVisit
<1>2. CASE m # "fixing"
  <2>1. Edits(m, p, i) = Edits(m, q, i)
    BY <1>2, EditsAlike
  <2>2. IsAdmissible(m, q, i)
    <3>1. (m \in ByRow => q.cols = p.cols /\ q.rows[i] = p.rows[i]) /\ (m \in ByColumn => q.cols[i] = p.cols[i])
      BY <1>2 DEF SeenAlike
    <3>2. IsAdmissible(m, q, i) = IsAdmissible(m, p, i)
      BY <3>1, SameView
    <3> QED BY <3>2
  <2>3. m \in {"variable", "side", "objective", "varround", "consround"} => solution.status = "feasible"
    BY DEF Known, Refuses
  <2> DEFINE w == Replay(q, Edits(m, q, i))
  <2>4. CASE m = "constraint"
    BY <1>0, <2>1, <2>4, ConstraintVisit
  <2>5. CASE m = "coefficient"
    BY <1>0, <2>1, <2>2, <2>5, CoefficientVisit
  <2>6. CASE m = "side"
    BY <1>0, <2>1, <2>2, <2>3, <2>6, SideVisit
  <2>7. CASE m = "consround"
    BY <1>0, <2>1, <2>2, <2>3, <2>7, ConsroundVisit
  <2>8. CASE m = "variable"
    BY <1>0, <2>1, <2>2, <2>3, <2>8, VariableVisit
  <2>9. CASE m = "objective"
    BY <1>0, <2>1, <2>2, <2>3, <2>9, ObjectiveVisit
  <2>10. CASE m = "varround"
    BY <1>0, <2>1, <2>2, <2>3, <2>10, VarroundVisit
  <2> QED BY <1>0, <1>2, <2>4, <2>5, <2>6, <2>7, <2>8, <2>9, <2>10
<1> QED BY <1>1, <1>2

-------------------------------------------------------------------------------
(* A coefficient that is changed, or not there, leaves the others.         *)
LEMMA CoefficientElsewhere ==
  ASSUME NEW n, NEW row, IsRow(row, n), NEW c, NEW v
  PROVE  LET m == ChangeCoefficient(row, c, v)
         IN  /\ m.lhs = row.lhs /\ m.rhs = row.rhs /\ m.flags = row.flags
             /\ DOMAIN m.coef \subseteq DOMAIN row.coef
             /\ \A d \in DOMAIN row.coef \ {c} : d \in DOMAIN m.coef /\ m.coef[d] = row.coef[d]
<1> DEFINE f == row.coef
           g == IF v = 0 THEN [d \in DOMAIN f \ {c} |-> f[d]] ELSE [f EXCEPT ![c] = v]
<1>1. row = MadeRow(row.lhs, row.rhs, row.flags, row.coef)
  BY RowFields DEF MadeRow
<1>2. ChangeCoefficient(row, c, v) = MadeRow(row.lhs, row.rhs, row.flags, g)
  <2>1. ChangeCoefficient(MadeRow(row.lhs, row.rhs, row.flags, row.coef), c, v)
          = MadeRow(row.lhs, row.rhs, row.flags, g)
    BY DEF ChangeCoefficient, MadeRow
  <2> QED BY <1>1, <2>1
<1>3. DOMAIN g \subseteq DOMAIN f /\ \A d \in DOMAIN f \ {c} : d \in DOMAIN g /\ g[d] = f[d]
  OBVIOUS
<1> HIDE DEF g
<1> QED BY <1>2, <1>3 DEF MadeRow

(* Changed coefficients of fixed columns leave the columns, and what they  *)
(* leave of the rows lags behind as before.                                *)
LEMMA EntriesLag ==
  ASSUME NEW p, WellFormed(p), NEW R \in SUBSET Rows(p), NEW C \in SUBSET Columns(p), NEW E,
         NEW q, IsVariant(q, p, R, C), NEW s \in Seq(Entries(p, R, E))
  PROVE  /\ ApplyEntries(q, s).cols = q.cols
         /\ (\A j \in DOMAIN s : Fixed(q, s[j][2])) => LagsBehind(q, ApplyEntries(q, s))
<1> DEFINE V == Variants(p, R, C)
           U == Tagged(p, R, C, E)
           L == Listed("entries", s)
           ok == \A j \in DOMAIN s : Fixed(q, s[j][2])
           H == {v \in V : v.cols = q.cols /\ (ok => LagsBehind(q, v))}
           G == [k \in Nat |-> H]
<1>0. IsPair(q) /\ DOMAIN q.rows = Rows(p)
  BY VariantParts
<1>1. q \in H
  <2>1. LagsBehind(q, q)
    BY DEF LagsBehind, SameFree, SameSides
  <2> QED BY <2>1, VariantsAre
<1>2. L \in Seq(U) /\ Len(L) = Len(s) /\ Len(s) \in Nat /\ \A k \in 1..Len(s) : L[k] = Named("entries", s[k]) /\ s[k] \in Entries(p, R, E)
  <2>1. L \in Seq({"entries"} \X Entries(p, R, E))
    BY ListedTyped
  <2>2. {"entries"} \X Entries(p, R, E) \subseteq U
    BY DEF Tagged
  <2>3. DOMAIN L = DOMAIN s /\ \A k \in DOMAIN s : L[k] = Named("entries", s[k])
    BY DEF Listed, Named
  <2> HIDE DEF L, U
  <2>4. L \in Seq(U)
    BY <2>1, <2>2, SubsetSequence
  <2> QED BY <2>3, <2>4
<1>3. ASSUME NEW v \in H, NEW k \in 1..Len(s)  PROVE Apply(v, L[k]) \in H
  <2> DEFINE t == s[k]
             r == t[1]
             w == Apply(v, L[k])
             new == ChangeCoefficient(v.rows[r], t[2], t[3])
  <2>1. /\ IsVariant(v, p, R, C) /\ v.cols = q.cols /\ (ok => LagsBehind(q, v))
        /\ IsPair(v) /\ DOMAIN v.rows = Rows(p)
    <3>1. IsVariant(v, p, R, C)
      BY VariantsAre
    <3> QED BY <3>1, VariantParts
  <2>2. w \in V
    <3>1. L[k] \in U
      BY <1>2
    <3> HIDE DEF L, U
    <3> QED BY <2>1, <3>1, ApplyKeeps, VariantsAre DEF U
  <2>3. w = Entry(v, t)
    BY <1>2 DEF Apply, Named
  <2>4. w = WithRow(v, r, new)
    BY <2>1, <2>3, RowEdits
  <2>5. r \in Rows(p)
    BY <1>2 DEF Entries
  <2>6. IsRow(v.rows[r], Len(p.cols))
    BY <2>1, <2>5 DEF IsVariant
  <2> HIDE DEF new, w
  <2>7. w.cols = v.cols /\ DOMAIN w.rows = DOMAIN v.rows /\ w.rows[r] = new
        /\ \A u \in DOMAIN v.rows \ {r} : w.rows[u] = v.rows[u]
    BY <2>1, <2>4, <2>5 DEF WithRow
  <2>8. ASSUME ok  PROVE LagsBehind(q, w)
    <3>1. LagsBehind(q, v)
      BY <2>1, <2>8
    <3>2. SameFree(q.rows[r], v.rows[r], v.cols)
      BY <2>1, <2>5, <3>1 DEF LagsBehind
    <3>3. "Fixed" \in q.cols[t[2]].flags
      BY <1>2, <2>8 DEF Fixed
    <3>4. /\ new.lhs = v.rows[r].lhs /\ new.rhs = v.rows[r].rhs /\ new.flags = v.rows[r].flags
          /\ DOMAIN new.coef \subseteq DOMAIN v.rows[r].coef
          /\ \A d \in DOMAIN v.rows[r].coef \ {t[2]} : d \in DOMAIN new.coef /\ new.coef[d] = v.rows[r].coef[d]
      BY <2>6, CoefficientElsewhere DEF new
    <3>5. SameFree(q.rows[r], new, v.cols)
      BY <2>1, <3>2, <3>3, <3>4 DEF SameFree, SameSides
    <3> QED BY <2>7, <3>1, <3>5 DEF LagsBehind
  <2> HIDE DEF ok
  <2> QED BY <2>1, <2>2, <2>7, <2>8 DEF w
<1>4. ApplyEntries(q, s) \in H
  <2>1. Editing!TakesLast
    BY LastIsPicked
  <2>2. ASSUME NEW k \in 1..Len(L), NEW v \in G[k - 1]  PROVE Apply(v, L[k]) \in G[k]
    <3>1. k \in 1..Len(s) /\ k \in Nat /\ k - 1 \in Nat
      BY <1>2
    <3> HIDE DEF L, H
    <3> QED BY <1>3, <3>1
  <2>3. q \in G[0] /\ G[Len(L)] = H
    BY <1>1, <1>2
  <2> HIDE DEF L, H, G, U, V
  <2>4. Editing!Over(q, L) \in G[Len(L)]
    BY <1>2, <2>1, <2>2, <2>3, Editing!OverReaches
  <2>5. ApplyEntries(q, s) = Editing!Over(q, L)
    BY EditingIsFold DEF ApplyEntries, L
  <2> QED BY <2>3, <2>4, <2>5
<1> DEFINE w == ApplyEntries(q, s)
<1> HIDE DEF w
<1>5. w.cols = q.cols /\ (ok => LagsBehind(q, w))
  BY <1>4 DEF w
<1> QED BY <1>5 DEF w

-------------------------------------------------------------------------------
(* Edits are joined in any grouping.                                       *)
LEMMA JoinAssociates ==
  ASSUME NEW p, NEW R, NEW C, NEW E, NEW a \in EditsIn(p, R, C, E),
         NEW b \in EditsIn(p, R, C, E), NEW e \in EditsIn(p, R, C, E)
  PROVE  Join(Join(a, b), e) = Join(a, Join(b, e))
<1> DEFINE ab == Join(a, b)
           be == Join(b, e)
           l == Join(ab, e)
           r == Join(a, be)
<1>1. HasLists(a) /\ HasLists(b)
  BY ListsOf
<1>2. /\ HasLists(ab) /\ HasLists(be)
      /\ \A k \in ListNames : ab[k] = a[k] \o b[k] /\ be[k] = b[k] \o e[k]
  BY <1>1, ListsJoined
<1> HIDE DEF ab, be
<1>3. /\ HasLists(l) /\ HasLists(r)
      /\ \A k \in ListNames : l[k] = ab[k] \o e[k] /\ r[k] = a[k] \o be[k]
  BY <1>1, <1>2, ListsJoined
<1> HIDE DEF l, r
<1>4. ASSUME NEW k \in ListNames  PROVE l[k] = r[k]
  <2>1. PICK S : \A f \in EditsIn(p, R, C, E) : f[k] \in Seq(S)
    BY FieldTyped
  <2> DEFINE x == a[k]
             y == b[k]
             z == e[k]
  <2>2. x \in Seq(S) /\ y \in Seq(S) /\ z \in Seq(S)
    BY <2>1
  <2>3. l[k] = ab[k] \o z /\ r[k] = x \o be[k] /\ ab[k] = x \o y /\ be[k] = y \o z
    BY <1>2, <1>3
  <2> HIDE DEF x, y, z
  <2>4. (x \o y) \o z = x \o (y \o z)
    BY <2>2, ConcatAssociative
  <2> QED BY <2>3, <2>4
<1> QED BY <1>3, <1>4, SameLists DEF l, r, ab, be

(* The settled problem is a variant of the problem.                        *)
LEMMA SettledFits ==
  ASSUME IInv
  PROVE  /\ VariantOf(modifier, Settled, problem, VisitedSoFar)
         /\ Fits(problem) /\ Fits(Settled) /\ Fits(copy)
         /\ Rows(Settled) = Rows(problem) /\ Columns(Settled) = Columns(problem)
<1> DEFINE m == modifier
           V == VisitedSoFar
           e == Join(applied, batches)
           R == RowsWith(m, problem, V)
           C == ColumnsWith(m, problem, V)
<1>1. /\ m \in ByRow \cup ByColumn /\ Fits(problem) /\ VariantOf(m, copy, problem, V)
      /\ applied \in EditsOf(m, problem, V) /\ batches \in EditsOf(m, problem, V)
  BY Running DEF EditsFor, Fits
<1>2. V \in SUBSET Reach(m, problem)
  BY VisitedReach
<1>3. e \in EditsOf(m, problem, V)
  BY <1>1, JoinOf
<1>4. VariantOf(m, problem, problem, V)
  BY <1>1, OwnVariant DEF Fits
<1> HIDE DEF m, V, e
<1>5. VariantOf(m, Settled, problem, V)
  <2>1. Settled = Replay(problem, e)
    BY DEF Settled, e
  <2>2. VariantOf(m, Replay(problem, e), problem, V)
    BY <1>1, <1>2, <1>3, <1>4, VariantAfter
  <2> QED BY <2>1, <2>2
<1>6. ASSUME NEW q, VariantOf(m, q, problem, V)
      PROVE  Fits(q) /\ Rows(q) = Rows(problem) /\ Columns(q) = Columns(problem)
  <2>1. IsVariant(q, problem, R, C)
    BY <1>6 DEF VariantOf
  <2> HIDE DEF R, C
  <2>2. WellFormed(q) /\ Columns(q) = Columns(problem) /\ Rows(q) = Rows(problem)
    BY <1>1, <2>1, VariantWellFormed DEF Fits
  <2> QED BY <1>1, <2>2 DEF Fits, ReferenceFits
<1> QED BY <1>1, <1>5, <1>6 DEF m, V

(* While scanning, the copy lacks the changed coefficients of the batch.   *)
LEMMA SettledIsCopy ==
  ASSUME IInv, copy = Replay(problem, Join(applied, Bare(batches)))
  PROVE  Settled = ApplyEntries(copy, batches.entries)
<1> DEFINE m == modifier
           V == VisitedSoFar
           b == Join(applied, Bare(batches))
           o == OnlyEntries(batches.entries)
           R == RowsWith(m, problem, V)
           C == ColumnsWith(m, problem, V)
           E == PlacesWith(m, problem, V)
<1>1. /\ m \in ByRow \cup ByColumn /\ WellFormed(problem)
      /\ applied \in EditsOf(m, problem, V) /\ batches \in EditsOf(m, problem, V)
      /\ V \in SUBSET Reach(m, problem)
  BY Running, VisitedReach DEF EditsFor
<1> HIDE DEF m, V
<1>2. b \in EditsOf(m, problem, V)
  <2>1. Bare(batches) \in EditsOf(m, problem, V)
    BY <1>1, WithoutEntries DEF Bare
  <2> QED BY <1>1, <2>1, JoinOf
<1>3. o \in EditsOf(m, problem, V) /\ \A l \in ListNames \ {"entries"} : o[l] = << >>
  <2>1. o \in EditsOf(m, problem, V)
    BY <1>1, EntriesAlone
  <2> QED BY <2>1 DEF OnlyEntries, NoEdits, ListNames
<1> HIDE DEF b, o
<1>4. Commuting(Variants(problem, R, C), b, o)
  BY <1>1, <1>2, <1>3, EntriesCommute
<1>5. /\ b \in EditsIn(problem, R, C, E) /\ o \in EditsIn(problem, R, C, E)
      /\ applied \in EditsIn(problem, R, C, E) /\ batches \in EditsIn(problem, R, C, E)
  BY <1>1, <1>2, <1>3 DEF EditsOf
<1>6. R \in SUBSET Rows(problem) /\ C \in SUBSET Columns(problem)
  BY <1>1, VisitsReach
<1>7. IsVariant(problem, problem, R, C)
  BY <1>1, SelfVariant
<1>8. batches.entries \in Seq(Entries(problem, R, E))
  BY <1>1, EntriesIn
<1> HIDE DEF R, C, E
<1>9. Replay(Replay(problem, b), o) = Replay(problem, Join(b, o))
  BY <1>4, <1>5, <1>6, <1>7, ReplayJoin
<1>10. Join(b, o) = Join(applied, batches)
  BY <1>5, JoinAlgebra DEF b, o
<1>11. Replay(copy, o) = ApplyEntries(copy, batches.entries)
  BY <1>8, ReplayFew DEF o
<1> QED BY <1>9, <1>10, <1>11 DEF Settled, b

(* The next visit makes its edits of the settled problem as well.          *)
LEMMA SettledVisit ==
  ASSUME IInv, Zeta = 0, position < Length(modifier), NEW e, e = ScannedEdits(Visited(position + 1))
  PROVE  Replay(problem, Join(applied, Join(batches, e))) = Replay(Settled, e)
<1> DEFINE m == modifier
           V == VisitedSoFar
           i == Visited(position + 1)
           W == V \cup {i}
           a == Join(applied, batches)
           R == RowsWith(m, problem, W)
           C == ColumnsWith(m, problem, W)
           E == PlacesWith(m, problem, W)
<1>1. /\ e \in EditsOf(m, problem, {i}) /\ i \notin V /\ W \in SUBSET Reach(m, problem)
      /\ V \subseteq W /\ {i} \subseteq W
  <2> HIDE DEF V
  <2> QED BY VisitMade DEF V
<1>2. /\ m \in ByRow \cup ByColumn /\ WellFormed(problem)
      /\ applied \in EditsOf(m, problem, V) /\ batches \in EditsOf(m, problem, V)
  BY Running DEF EditsFor
<1> HIDE DEF m, i, V
<1>3. a \in EditsOf(m, problem, V)
  BY <1>2, JoinOf
<1> HIDE DEF a
<1>4. Commuting(Variants(problem, R, C), a, e)
  <2>1. W = V \cup {i}
    OBVIOUS
  <2> HIDE DEF W
  <2> QED BY <1>1, <1>2, <1>3, <2>1, VisitsCommute
<1>5. /\ applied \in EditsOf(m, problem, W) /\ batches \in EditsOf(m, problem, W)
      /\ e \in EditsOf(m, problem, W) /\ a \in EditsOf(m, problem, W)
  <2> HIDE DEF W
  <2> QED BY <1>1, <1>2, <1>3, MoreEdits
<1>6. /\ a \in EditsIn(problem, R, C, E) /\ e \in EditsIn(problem, R, C, E)
      /\ applied \in EditsIn(problem, R, C, E) /\ batches \in EditsIn(problem, R, C, E)
  <2> HIDE DEF W
  <2> QED BY <1>5 DEF EditsOf
<1> HIDE DEF W
<1>7. R \in SUBSET Rows(problem) /\ C \in SUBSET Columns(problem)
  BY <1>1, VisitsReach
<1>8. IsVariant(problem, problem, R, C)
  BY <1>2, SelfVariant
<1> HIDE DEF R, C, E
<1>9. Replay(Replay(problem, a), e) = Replay(problem, Join(a, e))
  BY <1>4, <1>6, <1>7, <1>8, ReplayJoin
<1>10. Join(a, e) = Join(applied, Join(batches, e))
  BY <1>6, JoinAssociates DEF a
<1> QED BY <1>9, <1>10 DEF Settled, a

-------------------------------------------------------------------------------
(* The columns of the copy are settled; its rows lack what is pending.      *)
LEMMA CopySettled ==
  ASSUME IInv, copy = Replay(problem, Join(applied, Bare(batches)))
  PROVE  /\ copy.cols = Settled.cols
         /\ (\A j \in DOMAIN batches.entries : Fixed(copy, batches.entries[j][2])) => LagsBehind(copy, Settled)
<1> DEFINE m == modifier
           V == VisitedSoFar
           R == RowsWith(m, problem, V)
           C == ColumnsWith(m, problem, V)
           E == PlacesWith(m, problem, V)
           s == batches.entries
<1>1. /\ m \in ByRow \cup ByColumn /\ WellFormed(problem) /\ VariantOf(m, copy, problem, V)
      /\ batches \in EditsOf(m, problem, V) /\ V \in SUBSET Reach(m, problem)
  BY Running, VisitedReach DEF EditsFor
<1> HIDE DEF m, V
<1>2. R \in SUBSET Rows(problem) /\ C \in SUBSET Columns(problem) /\ s \in Seq(Entries(problem, R, E))
  BY <1>1, VisitsReach, EntriesIn
<1>3. IsVariant(copy, problem, R, C)
  BY <1>1 DEF VariantOf
<1>4. Settled = ApplyEntries(copy, s)
  BY SettledIsCopy
<1> HIDE DEF R, C, E, s
<1>5. /\ ApplyEntries(copy, s).cols = copy.cols
      /\ (\A j \in DOMAIN s : Fixed(copy, s[j][2])) => LagsBehind(copy, ApplyEntries(copy, s))
  BY <1>1, <1>2, <1>3, EntriesLag
<1> QED BY <1>4, <1>5 DEF s

(* Coefficients that wait leave the columns as they are.                   *)
ColumnsSettled == copy.cols = Settled.cols

(* The columns of the copy are those of the settled problem ...            *)
LEMMA CopyColumns == IInv /\ ReplayInv => ColumnsSettled
<1> SUFFICES ASSUME IInv, ReplayInv  PROVE copy.cols = Settled.cols
  BY DEF ColumnsSettled
<1>1. CASE pc = "solve"
  <2>1. Pending = batches
    BY <1>1 DEF Pending
  <2> QED BY <2>1 DEF ReplayInv, Settled
<1>2. CASE pc # "solve"
  <2>1. Pending = Bare(batches)
    BY <1>2 DEF Pending, Bare
  <2> QED BY <2>1, CopySettled DEF ReplayInv
<1> QED BY <1>1, <1>2

(* ... before and after a step.                                            *)
LEMMA CopyColumnsNext == IInv' /\ ReplayInv' => ColumnsSettled'
BY CopyColumns, PTL

(* The next visit sees the settled problem.                                *)
LEMMA VisitSees ==
  ASSUME IInv, copy = Replay(problem, Join(applied, Bare(batches))), position < Length(modifier),
         NEW i, i = Visited(position + 1)
  PROVE  /\ modifier # "fixing" => SeenAlike(modifier, copy, Settled, i)
         /\ modifier \in ByRow => i \in Rows(Settled)
         /\ modifier \in ByColumn => i \in Columns(Settled)
<1>1. /\ i \notin VisitedSoFar /\ VisitedSoFar \cup {i} \in SUBSET Reach(modifier, problem)
      /\ modifier \in ByRow \cup ByColumn /\ ByRow \cap ByColumn = {}
  BY VisitMade, Running DEF ByRow, ByColumn
<1>2. /\ modifier \in ByRow => i \in Rows(problem)
      /\ modifier \in ByColumn => i \in Columns(problem)
  BY <1>1 DEF Reach
<1>3. VariantOf(modifier, Settled, problem, VisitedSoFar) /\ VariantOf(modifier, copy, problem, VisitedSoFar)
      /\ Rows(Settled) = Rows(problem) /\ Columns(Settled) = Columns(problem)
  BY SettledFits, Running DEF EditsFor
<1>4. modifier \in ByRow => copy.rows[i] = Settled.rows[i]
  <2>1. SUFFICES ASSUME modifier \in ByRow  PROVE copy.rows[i] = Settled.rows[i]
    OBVIOUS
  <2>2. IsVariant(copy, problem, VisitedSoFar, {}) /\ IsVariant(Settled, problem, VisitedSoFar, {})
    BY <1>3, <2>1 DEF VariantOf, RowsWith, ColumnsWith
  <2>3. i \in Rows(problem) \ VisitedSoFar
    BY <1>1, <1>2, <2>1
  <2>4. copy.rows[i] = problem.rows[i] /\ Settled.rows[i] = problem.rows[i]
    BY <2>2, <2>3 DEF IsVariant
  <2> QED BY <2>4
<1> QED BY <1>2, <1>3, <1>4, CopySettled DEF SeenAlike

(* What the next visit finds is settled with the reference true of it.     *)
LEMMA ScanAgrees ==
  ASSUME Exact, Known, IInv, copy = Replay(problem, Join(applied, Bare(batches))),
         position < Length(modifier), solution.status \notin Refuses(modifier), Agrees(Settled),
         modifier \in ByColumn => \A j \in DOMAIN batches.entries : Fixed(copy, batches.entries[j][2]),
         NEW e, e = ScannedEdits(Visited(position + 1))
  PROVE  Agrees(Replay(Settled, e))
<1> DEFINE i == Visited(position + 1)
<1>1. CASE ~ IsAdmissible(modifier, copy, i)
  <2>1. e = NoEdits
    BY <1>1 DEF ScannedEdits
  <2> QED BY <2>1, NothingReplayed
<1>2. CASE IsAdmissible(modifier, copy, i)
  <2>1. e = Edits(modifier, copy, i)
    BY <1>2 DEF ScannedEdits
  <2>2. modifier \in ByRow \cup ByColumn /\ Fits(Settled) /\ WellFormed(copy)
    BY Running, SettledFits DEF Fits
  <2>3. /\ modifier # "fixing" => SeenAlike(modifier, copy, Settled, i)
        /\ modifier \in ByRow => i \in Rows(Settled)
        /\ modifier \in ByColumn => i \in Columns(Settled)
    BY VisitSees
  <2>4. modifier = "fixing" => LagsBehind(copy, Settled)
    BY CopySettled DEF ByColumn
  <2> DEFINE q == Settled
             m == modifier
             p == copy
  <2> HIDE DEF q, m, p, i
  <2>5. Agrees(Replay(q, Edits(m, p, i)))
    BY <1>2, <2>2, <2>3, <2>4, VisitAgrees DEF q, m, p
  <2> QED BY <2>1, <2>5 DEF q, m, p, i
<1> QED BY <1>1, <1>2

-------------------------------------------------------------------------------
(* A fixed column has the flag, and no other column changes.               *)
LEMMA FixingColumns ==
  ASSUME Exact, Known, NEW q, Fits(q), Agrees(q), NEW p, WellFormed(p), LagsBehind(p, q),
         NEW c \in Columns(q), IsAdmissible("fixing", p, c),
         NEW cols, cols = Replay(q, Edits("fixing", p, c)).cols
  PROVE  /\ "Fixed" \in cols[c].flags
         /\ \A d \in DOMAIN q.cols \ {c} : cols[d] = q.cols[d]
<1> DEFINE w == Replay(q, Edits("fixing", p, c))
           O == Occurrences(p, c)
<1>1. IsFixingAdmissible(p, c) /\ WellFormed(q)
  BY DEF IsAdmissible, Fits
<1>2. PICK rows, m : /\ m \in Nat /\ rows \in [1..m -> O]
                     /\ \A r \in O : \E j \in 1..m : rows[j] = r
                     /\ Substitutes(w, q, c, rows, m)
  BY <1>1, FixingFolds
<1>3. cols = Fixation(q, c).cols
  BY <1>2 DEF Substitutes
<1>4. cols[c].flags = q.cols[c].flags \cup {"Fixed"}
      /\ \A d \in DOMAIN q.cols \ {c} : cols[d] = q.cols[d]
  BY <1>1, <1>3, FixationColumns
<1> QED BY <1>4

(* The columns whose coefficients wait are fixed already.                  *)
FixedAlready(s, cols) == \A j \in DOMAIN s : "Fixed" \in cols[s[j][2]].flags

(* What holds of two lists holds of both together.                         *)
LEMMA JoinedFixed ==
  ASSUME NEW S, NEW s \in Seq(S), NEW t \in Seq(S), NEW cols,
         FixedAlready(s, cols), FixedAlready(t, cols)
  PROVE  FixedAlready(s \o t, cols)
<1>1. \A j \in DOMAIN (s \o t) :
        IF j \in DOMAIN s THEN (s \o t)[j] = s[j]
        ELSE j - Len(s) \in DOMAIN t /\ (s \o t)[j] = t[j - Len(s)]
  OBVIOUS
<1> QED BY <1>1 DEF FixedAlready

(* ... also after the next visit.                                          *)
LEMMA ScanFixes ==
  ASSUME Exact, Known, IInv, copy = Replay(problem, Join(applied, Bare(batches))),
         position < Length(modifier), Agrees(Settled), modifier \in ByColumn,
         FixedAlready(batches.entries, copy.cols),
         NEW e, e = ScannedEdits(Visited(position + 1)), NEW cols, cols = Replay(Settled, e).cols
  PROVE  FixedAlready(Join(batches, e).entries, cols)
<1> DEFINE m == modifier
           V == VisitedSoFar
           i == Visited(position + 1)
           W == V \cup {i}
           E == PlacesWith(m, problem, W)
           R == RowsWith(m, problem, W)
           s == batches.entries
           t == e.entries
<1>1. /\ e \in EditsOf(m, problem, {i}) /\ i \notin V /\ W \in SUBSET Reach(m, problem)
      /\ V \subseteq W /\ {i} \subseteq W
  <2> HIDE DEF V
  <2> QED BY VisitMade DEF V
<1>2. /\ m \in ByRow \cup ByColumn /\ m \notin ByRow /\ WellFormed(problem)
      /\ batches \in EditsOf(m, problem, V)
  BY Running DEF EditsFor, ByRow, ByColumn
<1>3. Fits(Settled) /\ Fits(copy) /\ Columns(Settled) = Columns(problem) /\ DOMAIN Settled.cols = Columns(Settled)
  <2>1. Fits(Settled) /\ Fits(copy) /\ Columns(Settled) = Columns(problem)
    BY SettledFits
  <2>2. WellFormed(Settled)
    BY <2>1 DEF Fits
  <2> QED BY <2>1, <2>2, ProblemParts DEF Columns
<1>4. i \in Columns(problem)
  BY <1>1, <1>2 DEF Reach
<1>5. copy.cols = Settled.cols /\ LagsBehind(copy, Settled)
  BY CopySettled DEF FixedAlready, Fixed
<1>6. /\ \A j \in DOMAIN t : t[j][2] = i
      /\ \A j \in DOMAIN s : s[j][2] \in V
  <2> DEFINE I == {i}
  <2>1. e \in EditsOf(m, problem, I)
    BY <1>1
  <2> HIDE DEF I, V, m
  <2>2. /\ \A j \in DOMAIN t : t[j][2] \in I
        /\ \A j \in DOMAIN s : s[j][2] \in V
    BY <1>2, <2>1, EntriesIn
  <2> QED BY <2>2 DEF I
<1>7. Join(batches, e).entries = s \o t /\ \E S : s \in Seq(S) /\ t \in Seq(S)
  <2> HIDE DEF V, i, m, W
  <2>1. batches \in EditsOf(m, problem, W) /\ e \in EditsOf(m, problem, W)
    BY <1>1, <1>2, MoreEdits
  <2>2. s \in Seq(Entries(problem, R, E)) /\ t \in Seq(Entries(problem, R, E))
    BY <1>2, <2>1, EntriesIn
  <2>3. batches \in EditsIn(problem, R, ColumnsWith(m, problem, W), E)
    BY <2>1 DEF EditsOf
  <2>4. HasLists(batches)
    BY <2>3, ListsOf
  <2>5. Join(batches, e)["entries"] = batches["entries"] \o e["entries"]
    BY <2>4, ListsJoined DEF ListNames
  <2> QED BY <2>2, <2>5
<1>8. CASE ~ IsAdmissible(m, copy, i)
  <2>1. e = NoEdits
    BY <1>8 DEF ScannedEdits
  <2>2. cols = copy.cols
    BY <1>5, <2>1, NothingReplayed
  <2>3. FixedAlready(t, cols)
    BY <2>1 DEF FixedAlready, NoEdits
  <2> QED BY <1>7, <2>2, <2>3, JoinedFixed
<1>9. CASE m # "fixing"
  <2>1. "entries" \in ListNames /\ "entries" \notin Lists(m)
    BY <1>2, <1>9 DEF ListNames, Lists, ByColumn, ByRow
  <2>2. s = << >> /\ t = << >>
    <3> HIDE DEF V, m, i
    <3> QED BY <1>1, <1>2, <2>1, ListUsed
  <2>3. FixedAlready(s, cols) /\ FixedAlready(t, cols)
    BY <2>2 DEF FixedAlready
  <2> QED BY <1>7, <2>3, JoinedFixed
<1>10. CASE m = "fixing" /\ IsAdmissible(m, copy, i)
  <2>1. e = Edits("fixing", copy, i)
    BY <1>10 DEF ScannedEdits
  <2> HIDE DEF i
  <2>2. "Fixed" \in cols[i].flags /\ \A d \in DOMAIN Settled.cols \ {i} : cols[d] = Settled.cols[d]
    BY <1>3, <1>4, <1>5, <1>10, <2>1, FixingColumns DEF Fits
  <2>3. FixedAlready(t, cols)
    BY <1>6, <2>2 DEF FixedAlready
  <2>4. V \subseteq Columns(problem)
    BY <1>1, <1>2 DEF Reach
  <2>5. FixedAlready(s, cols)
    BY <1>1, <1>3, <1>5, <1>6, <2>2, <2>4 DEF FixedAlready
  <2> QED BY <1>7, <2>3, <2>5, JoinedFixed
<1> QED BY <1>8, <1>9, <1>10

-------------------------------------------------------------------------------
(* The invariant about the reference, for the problem and the solution.    *)
Shown(p, sol) ==
  /\ IsFeasible(p, sol.primal)
  /\ sol.status = "unbounded" => IsRay(p, sol.ray)
  /\ Substituted(p)

ShownInv ==
  Known =>
    /\ pc \in {"scan", "solve"} => solution.status \notin Refuses(modifier)
    /\ Shown(problem, solution) /\ Shown(confirmed, solution) /\ Shown(Settled, solution)
    /\ modifier \in ByColumn => FixedAlready(batches.entries, copy.cols)

(* It says the same.                                                       *)
LEMMA ShownIsTrue ==
  ASSUME NEW p, Known
  PROVE  Shown(p, solution) <=> IsTrueOf(p) /\ Substituted(p)
BY DEF Shown, IsTrueOf, Known

(* It says what holds column by column and row by row, too.                *)
LEMMA ShownAgrees ==
  ASSUME NEW p, Known
  PROVE  Shown(p, solution) <=> Agrees(p)
BY ShownIsTrue, AgreesParts

(* This is the invariant that the model states (ReferenceInv).             *)
LEMMA ShownReference == ShownInv <=> ReferenceInv
<1>1. CASE ~ Known
  BY <1>1 DEF Known, ShownInv, ReferenceInv
<1>2. CASE Known
  <2>1. \A p : Shown(p, solution) <=> IsTrueOf(p) /\ Substituted(p)
    BY <1>2, ShownIsTrue
  <2> QED BY <1>2, <2>1 DEF Known, ShownInv, ReferenceInv, FixedAlready, Fixed
<1> QED BY <1>1, <1>2

(* It says that the reference is true of every problem that is solved.     *)
LEMMA ShownWhenSolved ==
  ASSUME IInv, ReplayInv, ShownInv, solution.status # "infeasible"
  PROVE  ReferenceRemainsTrue
<1>1. ReferenceFits(problem, solution)
  BY Running
<1>2. solution.status \in {"unknown", "feasible", "unbounded"}
  BY <1>1 DEF ReferenceFits, SolutionStatus
<1>3. pc = "solve" => copy = Settled
  BY DEF ReplayInv, Pending, Settled
<1>4. CASE solution.status = "unknown"
  BY <1>4 DEF ReferenceRemainsTrue, IsTrueOf
<1>5. CASE Known
  <2>1. Shown(problem, solution) /\ Shown(Settled, solution)
    BY <1>5 DEF ShownInv
  <2>2. IsTrueOf(problem) /\ IsTrueOf(Settled)
    BY <1>5, <2>1, ShownIsTrue
  <2> QED BY <1>3, <2>2 DEF ReferenceRemainsTrue
<1> QED BY <1>2, <1>4, <1>5 DEF Known

(* The reference stays true when a modifier scans ...                      *)
LEMMA ScanShows ==
  ASSUME Exact, IInv, ReplayInv, ShownInv, Scan, IInv', ReplayInv'
  PROVE  ShownInv'
<1> DEFINE i    == Visited(position + 1)
           e    == ScannedEdits(i)
           all  == Join(batches, e)
           w    == Replay(Settled, e)
<1>1. /\ pc = "scan" /\ batches' = all
      /\ UNCHANGED <<modifier, solution, problem, applied, confirmed>>
  BY DEF Scan, ScannedEdits
<1>2. SUFFICES ASSUME Known  PROVE ShownInv'
  BY <1>1 DEF ShownInv, Known
<1>3. /\ solution.status \notin Refuses(modifier)
      /\ Shown(problem, solution) /\ Shown(confirmed, solution) /\ Shown(Settled, solution)
      /\ modifier \in ByColumn => FixedAlready(batches.entries, copy.cols)
  BY <1>1, <1>2 DEF ShownInv
<1>4. position < Length(modifier)
  BY <1>1, Running DEF PositionOf
<1>5. copy = Replay(problem, Join(applied, Bare(batches)))
  BY <1>1 DEF ReplayInv, Pending, Bare
<1>6. Agrees(Settled)
  BY <1>2, <1>3, ShownAgrees
<1>7. Settled' = w
  <2>1. Settled' = Replay(problem, Join(applied, all))
    BY <1>1 DEF Settled
  <2> HIDE DEF i
  <2>2. Replay(problem, Join(applied, all)) = w
    BY <1>4, SettledVisit DEF Exact, i
  <2> QED BY <2>1, <2>2
<1>8. Shown(w, solution)
  <2>1. modifier \in ByColumn => \A j \in DOMAIN batches.entries : Fixed(copy, batches.entries[j][2])
    BY <1>3 DEF FixedAlready, Fixed
  <2>2. Agrees(w)
    BY <1>2, <1>3, <1>4, <1>5, <1>6, <2>1, ScanAgrees
  <2> QED BY <1>2, <2>2, ShownAgrees
<1>9. modifier \in ByColumn => FixedAlready(all.entries, copy'.cols)
  <2>1. SUFFICES ASSUME modifier \in ByColumn  PROVE FixedAlready(all.entries, copy'.cols)
    OBVIOUS
  <2> DEFINE cols == copy'.cols
  <2>2. cols = w.cols
    BY <1>7, CopyColumnsNext DEF ColumnsSettled
  <2> HIDE DEF cols
  <2>3. FixedAlready(all.entries, cols)
    BY <1>2, <1>3, <1>4, <1>5, <1>6, <2>1, <2>2, ScanFixes
  <2> QED BY <2>3 DEF cols
<1> HIDE DEF all, w
<1> QED BY <1>1, <1>3, <1>7, <1>8, <1>9 DEF ShownInv

(* ... when it has been solved ...                                         *)
LEMMA ResumeShows ==
  ASSUME IInv, ReplayInv, ShownInv, Reject \/ Accept
  PROVE  ShownInv'
<1>1. /\ pc = "solve" /\ batches' = NoEdits
      /\ UNCHANGED <<modifier, solution, problem>>
  BY DEF Reject, Accept, Resume
<1>2. SUFFICES ASSUME Known  PROVE ShownInv'
  BY <1>1 DEF ShownInv, Known
<1>3. /\ solution.status \notin Refuses(modifier)
      /\ Shown(problem, solution) /\ Shown(confirmed, solution) /\ Shown(Settled, solution)
  BY <1>1, <1>2 DEF ShownInv
<1>4. copy = Settled /\ confirmed = Replay(problem, applied)
  BY <1>1 DEF ReplayInv, Pending, Settled
<1>5. NoEdits.entries = << >> /\ \A cols : FixedAlready(<< >>, cols)
  BY DEF NoEdits, FixedAlready
<1>6. CASE Reject
  <2>1. UNCHANGED <<applied, confirmed>>
    BY <1>6 DEF Reject
  <2>2. Settled' = confirmed
    BY <1>1, <1>4, <2>1, NothingPending DEF Settled
  <2> QED BY <1>1, <1>3, <1>5, <2>1, <2>2 DEF ShownInv
<1>7. CASE Accept
  <2>1. applied' = Join(applied, batches) /\ confirmed' = copy
    BY <1>7 DEF Accept
  <2>2. Settled' = Settled
    <3>1. Settled' = Replay(problem, Join(Join(applied, batches), NoEdits))
      BY <1>1, <2>1 DEF Settled
    <3> QED BY <3>1, NothingPending DEF Settled
  <2> QED BY <1>1, <1>3, <1>4, <1>5, <2>1, <2>2 DEF ShownInv
<1> QED BY <1>6, <1>7

(* ... and handed back.                                                    *)
LEMMA NextShows ==
  ASSUME Exact, IInv, ReplayInv, ShownInv, [Next]_vars, IInv', ReplayInv'
  PROVE  ShownInv'
<1>1. CASE Start
  <2>1. PICK m \in Modifiers, n \in BatchNumbers : ~ Refused(m, n) /\ modifier' = m
    BY <1>1 DEF Start
  <2>2. /\ pc = "idle"
        /\ UNCHANGED <<solution, problem, copy, applied, batches, confirmed, batch>>
    BY <1>1, Zenon DEF Start
  <2>3. batches = NoEdits
    BY <2>2, Running DEF PositionOf
  <2>4. NoEdits.entries = << >> /\ \A cols : FixedAlready(<< >>, cols)
    BY DEF NoEdits, FixedAlready
  <2>5. solution.status \notin Refuses(m)
    BY <2>1 DEF Refused
  <2>6. Settled' = Settled
    BY <2>2 DEF Settled
  <2> QED BY <2>1, <2>2, <2>3, <2>4, <2>5, <2>6 DEF ShownInv, Known
<1>2. CASE Skip \/ UNCHANGED vars
  <2>1. UNCHANGED <<pc, modifier, solution, problem, copy, applied, batches, confirmed>>
    BY <1>2 DEF Skip, vars
  <2>2. Settled' = Settled
    BY <2>1 DEF Settled
  <2> QED BY <2>1, <2>2 DEF ShownInv, Known
<1>3. CASE Finish
  <2>1. /\ pc = "finish" /\ pc' = "idle" /\ confirmed' = problem' /\ applied' = NoEdits
        /\ problem' = (IF Succeeds THEN copy ELSE problem)
        /\ UNCHANGED <<modifier, solution, batches>>
    BY <1>3 DEF Finish
  <2>2. batches = NoEdits
    BY <2>1, Running DEF PositionOf
  <2>3. NoEdits.entries = << >> /\ \A cols : FixedAlready(<< >>, cols)
    BY DEF NoEdits, FixedAlready
  <2>4. copy = Settled
    <3>1. Pending = NoEdits
      BY <2>1, <2>2, NothingReplayed DEF Pending, Bare
    <3> QED BY <2>2, <3>1 DEF ReplayInv, Settled
  <2>5. Settled' = problem'
    <3>1. Settled' = Replay(problem', Join(NoEdits, NoEdits))
      BY <2>1, <2>2 DEF Settled
    <3>2. Join(NoEdits, NoEdits) = NoEdits
      BY NothingEdited
    <3> QED BY <3>1, <3>2, NothingReplayed
  <2>6. problem' = Settled \/ problem' = problem
    BY <2>1, <2>4
  <2>7. Known => Shown(problem', solution)
    BY <2>6 DEF ShownInv
  <2> QED BY <2>1, <2>2, <2>3, <2>5, <2>7 DEF ShownInv, Known
<1>4. CASE Scan
  BY <1>4, ScanShows
<1>5. CASE Reject \/ Accept
  BY <1>5, ResumeShows
<1> QED BY <1>1, <1>2, <1>3, <1>4, <1>5 DEF Next

(* The reference is true of the problem that is read.                      *)
TrueAtFirst ==
  solution.status # "infeasible" /\ IsTrueOf(problem) /\ Substituted(problem)

(***************************************************************************)
(* With exact numbers the reference solution stays true of every problem   *)
(* that is solved, whatever the modifiers do and whichever batches are     *)
(* rejected: a feasible point stays feasible, a ray a ray.  The two        *)
(* hypotheses are where the code does break it: a tolerance leaves out     *)
(* coefficients of a fixed column, and an infeasible problem may become    *)
(* feasible when a column is fixed (runs fixed_entries, integral_gap).     *)
(***************************************************************************)
THEOREM ReferenceAlwaysTrue ==
  ASSUME Zeta = 0, Epsilon = 0
  PROVE  Spec /\ TrueAtFirst => []ReferenceRemainsTrue
<1> DEFINE Inv == IInv /\ ReplayInv /\ ShownInv /\ solution.status # "infeasible"
<1>1. Exact
  BY DEF Exact
<1>2. Init /\ TrueAtFirst => Inv
  <2> SUFFICES ASSUME Init, TrueAtFirst  PROVE Inv
    OBVIOUS
  <2>1. /\ copy = problem /\ confirmed = problem /\ pc = "idle"
        /\ applied = NoEdits /\ batches = NoEdits
    BY DEF Init
  <2>2. Pending = NoEdits /\ Join(NoEdits, NoEdits) = NoEdits
    BY <2>1, NothingReplayed, NothingEdited DEF Pending, Bare
  <2>3. ReplayInv /\ Settled = problem
    BY <2>1, <2>2, NothingReplayed DEF ReplayInv, Settled
  <2>4. NoEdits.entries = << >> /\ \A cols : FixedAlready(<< >>, cols)
    BY DEF NoEdits, FixedAlready
  <2>5. Known => Shown(problem, solution)
    BY ShownIsTrue DEF TrueAtFirst
  <2>6. ShownInv
    BY <2>1, <2>3, <2>4, <2>5 DEF ShownInv
  <2> QED BY <2>3, <2>6, Initially DEF TrueAtFirst
<1>3. Inv /\ [Next]_vars => Inv'
  <2> SUFFICES ASSUME Inv, [Next]_vars  PROVE Inv'
    OBVIOUS
  <2>1. IInv'
    BY SkipKeeps, StartKeeps, ScanKeeps, RejectKeeps, AcceptKeeps, FinishKeeps, StutterKeeps
       DEF Next
  <2>2. ReplayInv'
    BY NextReplays
  <2>3. ShownInv'
    BY <1>1, <2>1, <2>2, NextShows
  <2>4. solution' = solution
    BY DEF Next, Skip, Start, Scan, Reject, Accept, Resume, Finish, vars
  <2> QED BY <2>1, <2>2, <2>3, <2>4
<1>4. Inv => ReferenceRemainsTrue
  BY ShownWhenSolved
<1> QED BY <1>2, <1>3, <1>4, PTL DEF Spec

-------------------------------------------------------------------------------
(* What the weight of a problem counts, column by column and row by row.   *)
FreeColumn(col)   == "Fixed" \notin col.flags
HasProfit(col)    == FreeColumn(col) /\ ~ IsZetaZero(col.obj)
UnevenProfit(col) == FreeColumn(col) /\ ~ IsZetaIntegral(col.obj)
OpenColumn(col)   == FreeColumn(col) /\ Open(col)
UnevenLower(col)  == FreeColumn(col) /\ "LbInf" \notin col.flags /\ ~ IsZetaIntegral(col.lb)
UnevenUpper(col)  == FreeColumn(col) /\ "UbInf" \notin col.flags /\ ~ IsZetaIntegral(col.ub)

LiveRow(row)      == "Redundant" \notin row.flags
StoredIn(row)     == {c \in DOMAIN row.coef : LiveRow(row)}
UnevenIn(row)     == {c \in StoredIn(row) : ~ IsZetaIntegral(row.coef[c])}
OpenLive(row)     == LiveRow(row) /\ OpenRow(row)
UnevenLeft(row)   == LiveRow(row) /\ "LhsInf" \notin row.flags /\ ~ IsZetaIntegral(row.lhs)
UnevenRight(row)  == LiveRow(row) /\ "RhsInf" \notin row.flags /\ ~ IsZetaIntegral(row.rhs)

(* The sets whose sizes are the weight.                                    *)
LiveRows(p)      == {r \in Rows(p) : LiveRow(p.rows[r])}
Uneven2(p)       == {t \in Rows(p) \X Columns(p) : t[2] \in UnevenIn(p.rows[t[1]])}
Profits(p)       == {c \in Columns(p) : HasProfit(p.cols[c])}
UnevenProfits(p) == {c \in Columns(p) : UnevenProfit(p.cols[c])}
OpenColumns(p)   == {c \in Columns(p) : OpenColumn(p.cols[c])}
OpenRows(p)      == {r \in Rows(p) : OpenLive(p.rows[r])}
UnevenLowers(p)  == {c \in Columns(p) : UnevenLower(p.cols[c])}
UnevenUppers(p)  == {c \in Columns(p) : UnevenUpper(p.cols[c])}
UnevenLefts(p)   == {r \in Rows(p) : UnevenLeft(p.rows[r])}
UnevenRights(p)  == {r \in Rows(p) : UnevenRight(p.rows[r])}

(* They are the sets that the model counts.                                *)
LEMMA StoredPlaces ==
  ASSUME NEW p
  PROVE  /\ Free(p) = {c \in Columns(p) : FreeColumn(p.cols[c])}
         /\ Stored(p) = {t \in Rows(p) \X Columns(p) : t[2] \in StoredIn(p.rows[t[1]])}
         /\ Uneven2(p) = {t \in Stored(p) : ~ IsZetaIntegral(p.rows[t[1]].coef[t[2]])}
BY DEF Free, FreeColumn, Fixed, Stored, Uneven2, StoredIn, UnevenIn, LiveRow, Live, Redundant

(* The weight is made of their sizes ...                                   *)
LEMMA WeightParts ==
  ASSUME NEW p
  PROVE  Weight(p) =
           << Cardinality(Free(p)), Cardinality(LiveRows(p)), Cardinality(Stored(p)),
              Cardinality(Uneven2(p)) + Cardinality(Profits(p)) + Cardinality(UnevenProfits(p)),
              Cardinality(OpenColumns(p)) + Cardinality(OpenRows(p)),
              Cardinality(UnevenLowers(p)) + Cardinality(UnevenUppers(p))
                + Cardinality(UnevenLefts(p)) + Cardinality(UnevenRights(p)) >>
<1>1. /\ LiveRows(p) = {r \in Rows(p) : Live(p, r)}
      /\ Profits(p) = {c \in Free(p) : ~ IsZetaZero(p.cols[c].obj)}
      /\ UnevenProfits(p) = {c \in Free(p) : ~ IsZetaIntegral(p.cols[c].obj)}
      /\ OpenColumns(p) = {c \in Free(p) : Open(p.cols[c])}
      /\ OpenRows(p) = {r \in Rows(p) : Live(p, r) /\ OpenRow(p.rows[r])}
  BY StoredPlaces DEF LiveRows, LiveRow, Live, Redundant, Profits, HasProfit, UnevenProfits, UnevenProfit,
     OpenColumns, OpenColumn, OpenRows, OpenLive
<1>2. /\ UnevenLowers(p) = {c \in Free(p) : "LbInf" \notin p.cols[c].flags /\ ~ IsZetaIntegral(p.cols[c].lb)}
      /\ UnevenUppers(p) = {c \in Free(p) : "UbInf" \notin p.cols[c].flags /\ ~ IsZetaIntegral(p.cols[c].ub)}
      /\ UnevenLefts(p) = {r \in Rows(p) : Live(p, r) /\ "LhsInf" \notin p.rows[r].flags
                                                     /\ ~ IsZetaIntegral(p.rows[r].lhs)}
      /\ UnevenRights(p) = {r \in Rows(p) : Live(p, r) /\ "RhsInf" \notin p.rows[r].flags
                                                      /\ ~ IsZetaIntegral(p.rows[r].rhs)}
  BY StoredPlaces DEF LiveRow, Live, Redundant, UnevenLowers, UnevenLower, UnevenUppers, UnevenUpper,
     UnevenLefts, UnevenLeft, UnevenRights, UnevenRight
<1>3. Uneven2(p) = {t \in Stored(p) : ~ IsZetaIntegral(p.rows[t[1]].coef[t[2]])}
  BY StoredPlaces
<1> QED BY <1>1, <1>2, <1>3 DEF Weight

(* ... which are finite.                                                   *)
LEMMA WeighedSets ==
  ASSUME NEW p, WellFormed(p)
  PROVE  /\ IsFiniteSet(Columns(p)) /\ IsFiniteSet(Rows(p)) /\ IsFiniteSet(Rows(p) \X Columns(p))
<1>1. p.cols \in Seq(ColumnOf) /\ Len(p.rows) \in Nat
  BY DEF WellFormed
<1>2. Len(p.cols) \in Nat
  BY <1>1
<1>3. \A n \in Nat : IsFiniteSet(1..n)
  BY FS_Interval
<1>4. Columns(p) = 1..Len(p.cols) /\ Rows(p) = 1..Len(p.rows)
  BY <1>1 DEF WellFormed, Columns, Rows
<1>5. IsFiniteSet(Columns(p)) /\ IsFiniteSet(Rows(p))
  BY <1>1, <1>2, <1>3, <1>4
<1> QED BY <1>5, FS_Product

-------------------------------------------------------------------------------
(* Weights are six numbers, and are compared from the left.                *)
Weighs(v) == DOMAIN v = 1..6 /\ \A j \in 1..6 : v[j] \in Nat

(* What is lighter than a lighter one is lighter.                          *)
LEMMA LighterTransitive ==
  ASSUME NEW u, Weighs(u), NEW v, Weighs(v), NEW w, Weighs(w), Lighter(u, v), Lighter(v, w)
  PROVE  Lighter(u, w)
<1>1. PICK k \in 1..6 : u[k] < v[k] /\ \A j \in 1..k-1 : u[j] = v[j]
  BY DEF Lighter, Weighs
<1>2. PICK l \in 1..6 : v[l] < w[l] /\ \A j \in 1..l-1 : v[j] = w[j]
  BY DEF Lighter, Weighs
<1>3. \A j \in 1..6 : u[j] \in Nat /\ v[j] \in Nat /\ w[j] \in Nat
  BY DEF Weighs
<1>4. CASE k <= l
  <2>1. u[k] < w[k]
    <3>1. CASE k = l
      BY <1>1, <1>2, <1>3, <3>1
    <3>2. CASE k # l
      <4>1. k \in 1..l-1
        BY <1>4, <3>2
      <4> QED BY <1>1, <1>2, <4>1
    <3> QED BY <3>1, <3>2
  <2>2. \A j \in 1..k-1 : u[j] = w[j]
    <3> TAKE j \in 1..k-1
    <3>1. j \in 1..l-1
      BY <1>4
    <3> QED BY <1>1, <1>2, <3>1
  <2> QED BY <2>1, <2>2 DEF Lighter, Weighs
<1>5. CASE l < k
  <2>1. u[l] < w[l]
    <3>1. l \in 1..k-1
      BY <1>5
    <3> QED BY <1>1, <1>2, <3>1
  <2>2. \A j \in 1..l-1 : u[j] = w[j]
    <3> TAKE j \in 1..l-1
    <3>1. j \in 1..k-1
      BY <1>5
    <3> QED BY <1>1, <1>2, <3>1
  <2> QED BY <2>1, <2>2 DEF Lighter, Weighs
<1> QED BY <1>4, <1>5

(* No part up to the one that decreases has to be equal.                   *)
LEMMA LighterIfLess ==
  ASSUME NEW v, Weighs(v), NEW w, Weighs(w), NEW k \in 1..6, v[k] < w[k],
         \A j \in 1..k-1 : v[j] <= w[j]
  PROVE  Lighter(v, w)
<1> DEFINE L(i) == v[i] < w[i] /\ \A j \in 1..i-1 : v[j] = w[j]
<1>1. \A j \in 1..6 : v[j] \in Nat /\ w[j] \in Nat
  BY DEF Weighs
<1>2. ASSUME NEW i \in 1..6, L(i)  PROVE Lighter(v, w)
  BY <1>2 DEF Lighter, Weighs
<1>3. \E i \in 1..6 : L(i)
  <2> SUFFICES ASSUME \A i \in 1..6 : ~ L(i)  PROVE FALSE
    OBVIOUS
  <2>1. ASSUME NEW i \in 1..6, \A j \in 1..i-1 : v[j] = w[j]  PROVE ~ (v[i] < w[i])
    BY <2>1
  <2> HIDE DEF L
  <2>2. ASSUME NEW i \in 1..6, i < k, \A j \in 1..i-1 : v[j] = w[j]
        PROVE  v[i] = w[i]
    <3>1. v[i] <= w[i]
      BY <2>2
    <3> QED BY <1>1, <2>1, <2>2, <3>1
  <2>3. 1 < k => v[1] = w[1]
    BY <2>2
  <2>4. 2 < k => v[2] = w[2]
    <3>1. 2 < k => \A j \in 1..2-1 : v[j] = w[j]
      BY <2>3
    <3> QED BY <2>2, <3>1
  <2>5. 3 < k => v[3] = w[3]
    <3>1. 3 < k => \A j \in 1..3-1 : v[j] = w[j]
      BY <2>3, <2>4
    <3> QED BY <2>2, <3>1
  <2>6. 4 < k => v[4] = w[4]
    <3>1. 4 < k => \A j \in 1..4-1 : v[j] = w[j]
      BY <2>3, <2>4, <2>5
    <3> QED BY <2>2, <3>1
  <2>7. 5 < k => v[5] = w[5]
    <3>1. 5 < k => \A j \in 1..5-1 : v[j] = w[j]
      BY <2>3, <2>4, <2>5, <2>6
    <3> QED BY <2>2, <3>1
  <2>8. \A j \in 1..k-1 : v[j] = w[j]
    BY <2>3, <2>4, <2>5, <2>6, <2>7
  <2> QED BY <2>1, <2>8
<1> HIDE DEF L
<1> QED BY <1>2, <1>3

(* A part of a finite set is smaller.                                      *)
LEMMA CountsFewer ==
  ASSUME NEW T, IsFiniteSet(T), NEW S, S \subseteq T
  PROVE  /\ Cardinality(S) \in Nat /\ Cardinality(T) \in Nat /\ Cardinality(S) <= Cardinality(T)
         /\ S # T => Cardinality(S) < Cardinality(T)
<1>1. IsFiniteSet(S) /\ Cardinality(S) <= Cardinality(T)
      /\ (Cardinality(S) = Cardinality(T) => S = T)
  BY FS_Subset
<1>2. Cardinality(S) \in Nat /\ Cardinality(T) \in Nat
  BY <1>1, FS_CardinalityType
<1> QED BY <1>1, <1>2

-------------------------------------------------------------------------------
(* The sets that are counted are finite.                                   *)
LEMMA CountedSets ==
  ASSUME NEW p, WellFormed(p)
  PROVE  /\ IsFiniteSet(Free(p)) /\ IsFiniteSet(LiveRows(p)) /\ IsFiniteSet(Stored(p))
         /\ IsFiniteSet(Uneven2(p)) /\ IsFiniteSet(Profits(p)) /\ IsFiniteSet(UnevenProfits(p))
         /\ IsFiniteSet(OpenColumns(p)) /\ IsFiniteSet(OpenRows(p))
         /\ IsFiniteSet(UnevenLowers(p)) /\ IsFiniteSet(UnevenUppers(p))
         /\ IsFiniteSet(UnevenLefts(p)) /\ IsFiniteSet(UnevenRights(p))
<1> DEFINE C == Columns(p)
           R == Rows(p)
           X == R \X C
<1>1. IsFiniteSet(C) /\ IsFiniteSet(R) /\ IsFiniteSet(X)
  BY WeighedSets
<1>2. /\ Free(p) \in SUBSET C /\ Profits(p) \in SUBSET C /\ UnevenProfits(p) \in SUBSET C
      /\ OpenColumns(p) \in SUBSET C /\ UnevenLowers(p) \in SUBSET C /\ UnevenUppers(p) \in SUBSET C
  BY DEF Free, Profits, UnevenProfits, OpenColumns, UnevenLowers, UnevenUppers
<1>3. /\ LiveRows(p) \in SUBSET R /\ OpenRows(p) \in SUBSET R
      /\ UnevenLefts(p) \in SUBSET R /\ UnevenRights(p) \in SUBSET R
  BY DEF LiveRows, OpenRows, UnevenLefts, UnevenRights
<1>4. Stored(p) \in SUBSET X /\ Uneven2(p) \in SUBSET X
  BY DEF Stored, Uneven2
<1> HIDE DEF C, R, X
<1> QED BY <1>1, <1>2, <1>3, <1>4, FS_Subset

(* The parts of the weight, one by one.                                    *)
LEMMA WeightNumbers ==
  ASSUME NEW p, WellFormed(p)
  PROVE  /\ Weighs(Weight(p))
         /\ Weight(p)[1] = Cardinality(Free(p)) /\ Weight(p)[2] = Cardinality(LiveRows(p))
         /\ Weight(p)[3] = Cardinality(Stored(p))
         /\ Weight(p)[4] = Cardinality(Uneven2(p)) + Cardinality(Profits(p)) + Cardinality(UnevenProfits(p))
         /\ Weight(p)[5] = Cardinality(OpenColumns(p)) + Cardinality(OpenRows(p))
         /\ Weight(p)[6] = Cardinality(UnevenLowers(p)) + Cardinality(UnevenUppers(p))
                             + Cardinality(UnevenLefts(p)) + Cardinality(UnevenRights(p))
<1> DEFINE a == Cardinality(Free(p))
           b == Cardinality(LiveRows(p))
           c == Cardinality(Stored(p))
           d == Cardinality(Uneven2(p)) + Cardinality(Profits(p)) + Cardinality(UnevenProfits(p))
           e == Cardinality(OpenColumns(p)) + Cardinality(OpenRows(p))
           f == Cardinality(UnevenLowers(p)) + Cardinality(UnevenUppers(p))
                  + Cardinality(UnevenLefts(p)) + Cardinality(UnevenRights(p))
           w == Weight(p)
<1>1. w = <<a, b, c, d, e, f>>
  BY WeightParts
<1>2. /\ a \in Nat /\ b \in Nat /\ c \in Nat
      /\ Cardinality(Uneven2(p)) \in Nat /\ Cardinality(Profits(p)) \in Nat
      /\ Cardinality(UnevenProfits(p)) \in Nat
      /\ Cardinality(OpenColumns(p)) \in Nat /\ Cardinality(OpenRows(p)) \in Nat
      /\ Cardinality(UnevenLowers(p)) \in Nat /\ Cardinality(UnevenUppers(p)) \in Nat
      /\ Cardinality(UnevenLefts(p)) \in Nat /\ Cardinality(UnevenRights(p)) \in Nat
  BY CountedSets, FS_CardinalityType
<1>3. d \in Nat /\ e \in Nat /\ f \in Nat
  BY <1>2
<1> HIDE DEF a, b, c, d, e, f, w
<1>4. DOMAIN w = 1..6 /\ w[1] = a /\ w[2] = b /\ w[3] = c /\ w[4] = d /\ w[5] = e /\ w[6] = f
  BY <1>1
<1>5. Weighs(w)
  <2>1. \A j \in 1..6 : w[j] \in Nat
    <3> TAKE j \in 1..6
    <3>1. j = 1 \/ j = 2 \/ j = 3 \/ j = 4 \/ j = 5 \/ j = 6
      OBVIOUS
    <3> QED BY <1>2, <1>3, <1>4, <3>1
  <2> QED BY <1>4, <2>1 DEF Weighs
<1> QED BY <1>4, <1>5 DEF a, b, c, d, e, f, w

(***************************************************************************)
(* What may not grow and what has to shrink, part by part.                 *)
(***************************************************************************)
NoMoreFree(w, q)   == Free(w) \subseteq Free(q)
NoMoreLive(w, q)   == LiveRows(w) \subseteq LiveRows(q)
NoMoreStored(w, q) == Stored(w) \subseteq Stored(q)
NoMoreUneven(w, q) == /\ Uneven2(w) \subseteq Uneven2(q) /\ Profits(w) \subseteq Profits(q)
                      /\ UnevenProfits(w) \subseteq UnevenProfits(q)
NoMoreOpen(w, q)   == OpenColumns(w) \subseteq OpenColumns(q) /\ OpenRows(w) \subseteq OpenRows(q)
NoMoreBounds(w, q) == /\ UnevenLowers(w) \subseteq UnevenLowers(q)
                      /\ UnevenUppers(w) \subseteq UnevenUppers(q)
                      /\ UnevenLefts(w) \subseteq UnevenLefts(q)
                      /\ UnevenRights(w) \subseteq UnevenRights(q)

LessUneven(w, q) ==
  \/ Uneven2(w) # Uneven2(q) \/ Profits(w) # Profits(q) \/ UnevenProfits(w) # UnevenProfits(q)
LessOpen(w, q) == OpenColumns(w) # OpenColumns(q) \/ OpenRows(w) # OpenRows(q)
LessBounds(w, q) ==
  \/ UnevenLowers(w) # UnevenLowers(q) \/ UnevenUppers(w) # UnevenUppers(q)
  \/ UnevenLefts(w) # UnevenLefts(q) \/ UnevenRights(w) # UnevenRights(q)

(* Sets that do not grow do not make a part of the weight larger.          *)
LEMMA NoMoreParts ==
  ASSUME NEW w, WellFormed(w), NEW q, WellFormed(q)
  PROVE  /\ NoMoreFree(w, q) => /\ Weight(w)[1] <= Weight(q)[1]
                                /\ Free(w) # Free(q) => Weight(w)[1] < Weight(q)[1]
         /\ NoMoreLive(w, q) => /\ Weight(w)[2] <= Weight(q)[2]
                                /\ LiveRows(w) # LiveRows(q) => Weight(w)[2] < Weight(q)[2]
         /\ NoMoreStored(w, q) => /\ Weight(w)[3] <= Weight(q)[3]
                                  /\ Stored(w) # Stored(q) => Weight(w)[3] < Weight(q)[3]
         /\ NoMoreUneven(w, q) => /\ Weight(w)[4] <= Weight(q)[4]
                                  /\ LessUneven(w, q) => Weight(w)[4] < Weight(q)[4]
         /\ NoMoreOpen(w, q) => /\ Weight(w)[5] <= Weight(q)[5]
                                /\ LessOpen(w, q) => Weight(w)[5] < Weight(q)[5]
         /\ NoMoreBounds(w, q) => /\ Weight(w)[6] <= Weight(q)[6]
                                  /\ LessBounds(w, q) => Weight(w)[6] < Weight(q)[6]
<1> DEFINE N(S) == Cardinality(S)
<1>1. /\ IsFiniteSet(Free(q)) /\ IsFiniteSet(LiveRows(q)) /\ IsFiniteSet(Stored(q))
      /\ IsFiniteSet(Uneven2(q)) /\ IsFiniteSet(Profits(q)) /\ IsFiniteSet(UnevenProfits(q))
      /\ IsFiniteSet(OpenColumns(q)) /\ IsFiniteSet(OpenRows(q))
      /\ IsFiniteSet(UnevenLowers(q)) /\ IsFiniteSet(UnevenUppers(q))
      /\ IsFiniteSet(UnevenLefts(q)) /\ IsFiniteSet(UnevenRights(q))
  BY CountedSets
<1>2. NoMoreFree(w, q) => /\ Weight(w)[1] <= Weight(q)[1]
                          /\ Free(w) # Free(q) => Weight(w)[1] < Weight(q)[1]
  <2>1. SUFFICES ASSUME Free(w) \subseteq Free(q)
                 PROVE  /\ N(Free(w)) <= N(Free(q))
                        /\ Free(w) # Free(q) => N(Free(w)) < N(Free(q))
    BY WeightNumbers DEF NoMoreFree
  <2> QED BY <1>1, <2>1, CountsFewer
<1>3. NoMoreLive(w, q) => /\ Weight(w)[2] <= Weight(q)[2]
                          /\ LiveRows(w) # LiveRows(q) => Weight(w)[2] < Weight(q)[2]
  <2>1. SUFFICES ASSUME LiveRows(w) \subseteq LiveRows(q)
                 PROVE  /\ N(LiveRows(w)) <= N(LiveRows(q))
                        /\ LiveRows(w) # LiveRows(q) => N(LiveRows(w)) < N(LiveRows(q))
    BY WeightNumbers DEF NoMoreLive
  <2> QED BY <1>1, <2>1, CountsFewer
<1>4. NoMoreStored(w, q) => /\ Weight(w)[3] <= Weight(q)[3]
                            /\ Stored(w) # Stored(q) => Weight(w)[3] < Weight(q)[3]
  <2>1. SUFFICES ASSUME Stored(w) \subseteq Stored(q)
                 PROVE  /\ N(Stored(w)) <= N(Stored(q))
                        /\ Stored(w) # Stored(q) => N(Stored(w)) < N(Stored(q))
    BY WeightNumbers DEF NoMoreStored
  <2> QED BY <1>1, <2>1, CountsFewer
<1>5. NoMoreUneven(w, q) => /\ Weight(w)[4] <= Weight(q)[4]
                            /\ LessUneven(w, q) => Weight(w)[4] < Weight(q)[4]
  <2>1. SUFFICES ASSUME NoMoreUneven(w, q)
                 PROVE  /\ Weight(w)[4] <= Weight(q)[4]
                        /\ LessUneven(w, q) => Weight(w)[4] < Weight(q)[4]
    OBVIOUS
  <2> DEFINE a == N(Uneven2(w))
             b == N(Profits(w))
             c == N(UnevenProfits(w))
             x == N(Uneven2(q))
             y == N(Profits(q))
             z == N(UnevenProfits(q))
  <2>2. a \in Nat /\ x \in Nat /\ a <= x /\ (Uneven2(w) # Uneven2(q) => a < x)
    BY <1>1, <2>1, CountsFewer DEF NoMoreUneven
  <2>3. b \in Nat /\ y \in Nat /\ b <= y /\ (Profits(w) # Profits(q) => b < y)
    BY <1>1, <2>1, CountsFewer DEF NoMoreUneven
  <2>4. c \in Nat /\ z \in Nat /\ c <= z /\ (UnevenProfits(w) # UnevenProfits(q) => c < z)
    BY <1>1, <2>1, CountsFewer DEF NoMoreUneven
  <2>5. Weight(w)[4] = a + b + c /\ Weight(q)[4] = x + y + z
    BY WeightNumbers
  <2> HIDE DEF a, b, c, x, y, z
  <2> QED BY <2>2, <2>3, <2>4, <2>5 DEF LessUneven
<1>6. NoMoreOpen(w, q) => /\ Weight(w)[5] <= Weight(q)[5]
                          /\ LessOpen(w, q) => Weight(w)[5] < Weight(q)[5]
  <2>1. SUFFICES ASSUME NoMoreOpen(w, q)
                 PROVE  /\ Weight(w)[5] <= Weight(q)[5]
                        /\ LessOpen(w, q) => Weight(w)[5] < Weight(q)[5]
    OBVIOUS
  <2> DEFINE a == N(OpenColumns(w))
             b == N(OpenRows(w))
             x == N(OpenColumns(q))
             y == N(OpenRows(q))
  <2>2. a \in Nat /\ x \in Nat /\ a <= x /\ (OpenColumns(w) # OpenColumns(q) => a < x)
    BY <1>1, <2>1, CountsFewer DEF NoMoreOpen
  <2>3. b \in Nat /\ y \in Nat /\ b <= y /\ (OpenRows(w) # OpenRows(q) => b < y)
    BY <1>1, <2>1, CountsFewer DEF NoMoreOpen
  <2>4. Weight(w)[5] = a + b /\ Weight(q)[5] = x + y
    BY WeightNumbers
  <2> HIDE DEF a, b, x, y
  <2> QED BY <2>2, <2>3, <2>4 DEF LessOpen
<1>7. NoMoreBounds(w, q) => /\ Weight(w)[6] <= Weight(q)[6]
                            /\ LessBounds(w, q) => Weight(w)[6] < Weight(q)[6]
  <2>1. SUFFICES ASSUME NoMoreBounds(w, q)
                 PROVE  /\ Weight(w)[6] <= Weight(q)[6]
                        /\ LessBounds(w, q) => Weight(w)[6] < Weight(q)[6]
    OBVIOUS
  <2> DEFINE a == N(UnevenLowers(w))
             b == N(UnevenUppers(w))
             c == N(UnevenLefts(w))
             d == N(UnevenRights(w))
             x == N(UnevenLowers(q))
             y == N(UnevenUppers(q))
             z == N(UnevenLefts(q))
             t == N(UnevenRights(q))
  <2>2. a \in Nat /\ x \in Nat /\ a <= x /\ (UnevenLowers(w) # UnevenLowers(q) => a < x)
    BY <1>1, <2>1, CountsFewer DEF NoMoreBounds
  <2>3. b \in Nat /\ y \in Nat /\ b <= y /\ (UnevenUppers(w) # UnevenUppers(q) => b < y)
    BY <1>1, <2>1, CountsFewer DEF NoMoreBounds
  <2>4. c \in Nat /\ z \in Nat /\ c <= z /\ (UnevenLefts(w) # UnevenLefts(q) => c < z)
    BY <1>1, <2>1, CountsFewer DEF NoMoreBounds
  <2>5. d \in Nat /\ t \in Nat /\ d <= t /\ (UnevenRights(w) # UnevenRights(q) => d < t)
    BY <1>1, <2>1, CountsFewer DEF NoMoreBounds
  <2>6. Weight(w)[6] = a + b + c + d /\ Weight(q)[6] = x + y + z + t
    BY WeightNumbers
  <2> HIDE DEF a, b, c, d, x, y, z, t
  <2> QED BY <2>2, <2>3, <2>4, <2>5, <2>6 DEF LessBounds
<1> QED BY <1>2, <1>3, <1>4, <1>5, <1>6, <1>7

-------------------------------------------------------------------------------
(* One part shrinks and none before it grows.                              *)
LEMMA Lightens ==
  ASSUME NEW w, WellFormed(w), NEW q, WellFormed(q), NoMoreFree(w, q),
         \/ Free(w) # Free(q)
         \/ /\ NoMoreLive(w, q)
            /\ \/ LiveRows(w) # LiveRows(q)
               \/ /\ NoMoreStored(w, q)
                  /\ \/ Stored(w) # Stored(q)
                     \/ /\ NoMoreUneven(w, q)
                        /\ \/ LessUneven(w, q)
                           \/ /\ NoMoreOpen(w, q)
                              /\ \/ LessOpen(w, q)
                                 \/ NoMoreBounds(w, q) /\ LessBounds(w, q)
  PROVE  Lighter(Weight(w), Weight(q))
<1> DEFINE v == Weight(w)
           u == Weight(q)
           L(k) == \A j \in 1..k-1 : v[j] <= u[j]
<1>1. Weighs(v) /\ Weighs(u)
  BY WeightNumbers
<1>2. \A k \in 1..6 : v[k] < u[k] /\ L(k) => Lighter(v, u)
  <2> HIDE DEF v, u
  <2> QED BY <1>1, LighterIfLess
<1>3. v[1] <= u[1] /\ (Free(w) # Free(q) => v[1] < u[1])
  BY NoMoreParts
<1>4. NoMoreLive(w, q) => v[2] <= u[2] /\ (LiveRows(w) # LiveRows(q) => v[2] < u[2])
  BY NoMoreParts
<1>5. NoMoreStored(w, q) => v[3] <= u[3] /\ (Stored(w) # Stored(q) => v[3] < u[3])
  BY NoMoreParts
<1>6. NoMoreUneven(w, q) => v[4] <= u[4] /\ (LessUneven(w, q) => v[4] < u[4])
  BY NoMoreParts
<1>7. NoMoreOpen(w, q) => v[5] <= u[5] /\ (LessOpen(w, q) => v[5] < u[5])
  BY NoMoreParts
<1>8. NoMoreBounds(w, q) => v[6] <= u[6] /\ (LessBounds(w, q) => v[6] < u[6])
  BY NoMoreParts
<1> HIDE DEF v, u
<1>9. /\ L(1) /\ (v[1] <= u[1] => L(2))
      /\ v[1] <= u[1] /\ v[2] <= u[2] => L(3)
      /\ v[1] <= u[1] /\ v[2] <= u[2] /\ v[3] <= u[3] => L(4)
      /\ v[1] <= u[1] /\ v[2] <= u[2] /\ v[3] <= u[3] /\ v[4] <= u[4] => L(5)
      /\ v[1] <= u[1] /\ v[2] <= u[2] /\ v[3] <= u[3] /\ v[4] <= u[4] /\ v[5] <= u[5] => L(6)
  OBVIOUS
<1> HIDE DEF L
<1>10. Lighter(v, u)
  BY <1>2, <1>3, <1>4, <1>5, <1>6, <1>7, <1>8, <1>9
<1> QED BY <1>10 DEF v, u

(* The members of a set that differ in one place.                          *)
LEMMA OnePlace ==
  ASSUME NEW S, NEW T, NEW c, \A d : d # c => (d \in S <=> d \in T), c \in S => c \in T
  PROVE  S \subseteq T /\ (c \in T /\ c \notin S => S # T)
OBVIOUS

(***************************************************************************)
(* A problem is lighter when one column of it is, compared from the left:  *)
(* its profit first, then how far it is open, then its bounds.             *)
(***************************************************************************)
LighterColumn(n, o) ==
  /\ FreeColumn(n) => FreeColumn(o)
  /\ HasProfit(n) => HasProfit(o)
  /\ UnevenProfit(n) => UnevenProfit(o)
  /\ \/ HasProfit(o) /\ ~ HasProfit(n)
     \/ UnevenProfit(o) /\ ~ UnevenProfit(n)
     \/ /\ OpenColumn(n) => OpenColumn(o)
        /\ \/ OpenColumn(o) /\ ~ OpenColumn(n)
           \/ /\ UnevenLower(n) => UnevenLower(o)
              /\ UnevenUpper(n) => UnevenUpper(o)
              /\ \/ UnevenLower(o) /\ ~ UnevenLower(n)
                 \/ UnevenUpper(o) /\ ~ UnevenUpper(n)

(* Then all sets but those of the columns are the same.                    *)
LEMMA LighterByColumn ==
  ASSUME NEW q, WellFormed(q), NEW w, WellFormed(w), w.rows = q.rows, Columns(w) = Columns(q),
         NEW c \in Columns(q), \A d \in Columns(q) : d # c => w.cols[d] = q.cols[d],
         LighterColumn(w.cols[c], q.cols[c])
  PROVE  Lighter(Weight(w), Weight(q))
<1> DEFINE n == w.cols[c]
           o == q.cols[c]
           C == Columns(q)
<1>0. LighterColumn(n, o) /\ c \in C
  OBVIOUS
<1>1. /\ LiveRows(w) = LiveRows(q) /\ Stored(w) = Stored(q) /\ Uneven2(w) = Uneven2(q)
      /\ OpenRows(w) = OpenRows(q) /\ UnevenLefts(w) = UnevenLefts(q) /\ UnevenRights(w) = UnevenRights(q)
  BY StoredPlaces DEF LiveRows, OpenRows, UnevenLefts, UnevenRights, Rows
<1>2. /\ \A d : d # c => (d \in Free(w) <=> d \in Free(q))
      /\ \A d : d # c => (d \in Profits(w) <=> d \in Profits(q))
      /\ \A d : d # c => (d \in UnevenProfits(w) <=> d \in UnevenProfits(q))
      /\ \A d : d # c => (d \in OpenColumns(w) <=> d \in OpenColumns(q))
      /\ \A d : d # c => (d \in UnevenLowers(w) <=> d \in UnevenLowers(q))
      /\ \A d : d # c => (d \in UnevenUppers(w) <=> d \in UnevenUppers(q))
  BY StoredPlaces DEF Profits, UnevenProfits, OpenColumns, UnevenLowers, UnevenUppers
<1>3. /\ c \in Free(w) <=> FreeColumn(n)
      /\ c \in Profits(w) <=> HasProfit(n)
      /\ c \in UnevenProfits(w) <=> UnevenProfit(n)
      /\ c \in OpenColumns(w) <=> OpenColumn(n)
      /\ c \in UnevenLowers(w) <=> UnevenLower(n)
      /\ c \in UnevenUppers(w) <=> UnevenUpper(n)
  BY <1>0, StoredPlaces DEF Profits, UnevenProfits, OpenColumns, UnevenLowers, UnevenUppers
<1>4. /\ c \in Free(q) <=> FreeColumn(o)
      /\ c \in Profits(q) <=> HasProfit(o)
      /\ c \in UnevenProfits(q) <=> UnevenProfit(o)
      /\ c \in OpenColumns(q) <=> OpenColumn(o)
      /\ c \in UnevenLowers(q) <=> UnevenLower(o)
      /\ c \in UnevenUppers(q) <=> UnevenUpper(o)
  BY <1>0, StoredPlaces DEF Profits, UnevenProfits, OpenColumns, UnevenLowers, UnevenUppers
<1> HIDE DEF n, o, C
<1>5. NoMoreFree(w, q) /\ NoMoreLive(w, q) /\ NoMoreStored(w, q)
  <2>1. Free(w) \subseteq Free(q)
    BY <1>0, <1>2, <1>3, <1>4, OnePlace DEF LighterColumn
  <2> QED BY <1>1, <2>1 DEF NoMoreFree, NoMoreLive, NoMoreStored
<1>6. Profits(w) \subseteq Profits(q) /\ (HasProfit(o) /\ ~ HasProfit(n) => Profits(w) # Profits(q))
  BY <1>0, <1>2, <1>3, <1>4, OnePlace DEF LighterColumn
<1>7. UnevenProfits(w) \subseteq UnevenProfits(q)
      /\ (UnevenProfit(o) /\ ~ UnevenProfit(n) => UnevenProfits(w) # UnevenProfits(q))
  BY <1>0, <1>2, <1>3, <1>4, OnePlace DEF LighterColumn
<1>8. NoMoreUneven(w, q)
  BY <1>1, <1>6, <1>7 DEF NoMoreUneven
<1>9. CASE (HasProfit(o) /\ ~ HasProfit(n)) \/ (UnevenProfit(o) /\ ~ UnevenProfit(n))
  BY <1>5, <1>6, <1>7, <1>8, <1>9, Lightens DEF LessUneven
<1>10. CASE /\ ~ (HasProfit(o) /\ ~ HasProfit(n))
            /\ ~ (UnevenProfit(o) /\ ~ UnevenProfit(n))
  <2>1. /\ OpenColumn(n) => OpenColumn(o)
        /\ \/ OpenColumn(o) /\ ~ OpenColumn(n)
           \/ /\ UnevenLower(n) => UnevenLower(o)
              /\ UnevenUpper(n) => UnevenUpper(o)
              /\ \/ UnevenLower(o) /\ ~ UnevenLower(n)
                 \/ UnevenUpper(o) /\ ~ UnevenUpper(n)
    BY <1>0, <1>10 DEF LighterColumn
  <2>2. /\ OpenColumns(w) \subseteq OpenColumns(q)
        /\ OpenColumn(o) /\ ~ OpenColumn(n) => OpenColumns(w) # OpenColumns(q)
    BY <1>2, <1>3, <1>4, <2>1, OnePlace
  <2>3. NoMoreOpen(w, q)
    BY <1>1, <2>2 DEF NoMoreOpen
  <2>4. CASE OpenColumn(o) /\ ~ OpenColumn(n)
    BY <1>5, <1>8, <2>2, <2>3, <2>4, Lightens DEF LessOpen
  <2>5. CASE ~ (OpenColumn(o) /\ ~ OpenColumn(n))
    <3>1. /\ UnevenLowers(w) \subseteq UnevenLowers(q)
          /\ UnevenLower(o) /\ ~ UnevenLower(n) => UnevenLowers(w) # UnevenLowers(q)
      BY <1>2, <1>3, <1>4, <2>1, <2>5, OnePlace
    <3>2. /\ UnevenUppers(w) \subseteq UnevenUppers(q)
          /\ UnevenUpper(o) /\ ~ UnevenUpper(n) => UnevenUppers(w) # UnevenUppers(q)
      BY <1>2, <1>3, <1>4, <2>1, <2>5, OnePlace
    <3>3. NoMoreBounds(w, q) /\ LessBounds(w, q)
      BY <1>1, <2>1, <2>5, <3>1, <3>2 DEF NoMoreBounds, LessBounds
    <3> QED BY <1>5, <1>8, <2>3, <3>3, Lightens
  <2> QED BY <2>4, <2>5
<1> QED BY <1>9, <1>10

-------------------------------------------------------------------------------
(***************************************************************************)
(* A problem is lighter when one row of it is, compared from the left: the *)
(* row itself, what is stored of it, which coefficients are not whole, how *)
(* far it is open, then its sides.                                         *)
(***************************************************************************)
LighterRow(n, o) ==
  /\ LiveRow(n) => LiveRow(o)
  /\ \/ LiveRow(o) /\ ~ LiveRow(n)
     \/ /\ StoredIn(n) \subseteq StoredIn(o)
        /\ \/ StoredIn(n) # StoredIn(o)
           \/ /\ UnevenIn(n) \subseteq UnevenIn(o)
              /\ \/ UnevenIn(n) # UnevenIn(o)
                 \/ /\ OpenLive(n) => OpenLive(o)
                    /\ \/ OpenLive(o) /\ ~ OpenLive(n)
                       \/ /\ UnevenLeft(n) => UnevenLeft(o)
                          /\ UnevenRight(n) => UnevenRight(o)
                          /\ \/ UnevenLeft(o) /\ ~ UnevenLeft(n)
                             \/ UnevenRight(o) /\ ~ UnevenRight(n)

(* The places of a matrix of which one row differs.                        *)
Places(R, C, f) == {t \in R \X C : t[2] \in f[t[1]]}

(* The places of a problem of which one row changes.                       *)
LEMMA OneRow ==
  ASSUME NEW R, NEW C, NEW r \in R, NEW f, NEW g,
         \A s \in R : s # r => f[s] = g[s], f[r] \subseteq g[r], g[r] \subseteq C
  PROVE  /\ Places(R, C, f) \subseteq Places(R, C, g)
         /\ f[r] # g[r] => Places(R, C, f) # Places(R, C, g)
<1>1. Places(R, C, f) \subseteq Places(R, C, g)
  BY DEF Places
<1>2. ASSUME f[r] # g[r]  PROVE Places(R, C, f) # Places(R, C, g)
  <2>1. PICK c \in g[r] : c \notin f[r]
    BY <1>2
  <2>2. <<r, c>> \in Places(R, C, g) /\ <<r, c>> \notin Places(R, C, f)
    BY <2>1 DEF Places
  <2> QED BY <2>2
<1> QED BY <1>1, <1>2

(* Then all sets but those of the rows are the same.                       *)
LEMMA LighterByRow ==
  ASSUME NEW q, WellFormed(q), NEW w, WellFormed(w), w.cols = q.cols, Rows(w) = Rows(q),
         NEW r \in Rows(q), \A s \in Rows(q) : s # r => w.rows[s] = q.rows[s],
         LighterRow(w.rows[r], q.rows[r])
  PROVE  Lighter(Weight(w), Weight(q))
<1> DEFINE n == w.rows[r]
           o == q.rows[r]
<1>0. LighterRow(n, o)
  OBVIOUS
<1>1. /\ Free(w) = Free(q) /\ Profits(w) = Profits(q) /\ UnevenProfits(w) = UnevenProfits(q)
      /\ OpenColumns(w) = OpenColumns(q) /\ UnevenLowers(w) = UnevenLowers(q)
      /\ UnevenUppers(w) = UnevenUppers(q)
  BY StoredPlaces DEF Profits, UnevenProfits, OpenColumns, UnevenLowers, UnevenUppers, Columns
<1>2. /\ \A d : d # r => (d \in LiveRows(w) <=> d \in LiveRows(q))
      /\ \A d : d # r => (d \in OpenRows(w) <=> d \in OpenRows(q))
      /\ \A d : d # r => (d \in UnevenLefts(w) <=> d \in UnevenLefts(q))
      /\ \A d : d # r => (d \in UnevenRights(w) <=> d \in UnevenRights(q))
  BY DEF LiveRows, OpenRows, UnevenLefts, UnevenRights
<1>3. /\ r \in LiveRows(w) <=> LiveRow(n)
      /\ r \in OpenRows(w) <=> OpenLive(n)
      /\ r \in UnevenLefts(w) <=> UnevenLeft(n)
      /\ r \in UnevenRights(w) <=> UnevenRight(n)
  BY DEF LiveRows, OpenRows, UnevenLefts, UnevenRights
<1>4. /\ r \in LiveRows(q) <=> LiveRow(o)
      /\ r \in OpenRows(q) <=> OpenLive(o)
      /\ r \in UnevenLefts(q) <=> UnevenLeft(o)
      /\ r \in UnevenRights(q) <=> UnevenRight(o)
  BY DEF LiveRows, OpenRows, UnevenLefts, UnevenRights
<1>5. StoredIn(o) \subseteq Columns(q) /\ UnevenIn(o) \subseteq Columns(q)
  <2>1. DOMAIN o.coef \subseteq Columns(q)
    <3>1. IsRow(o, Len(q.cols))
      BY DEF WellFormed
    <3>2. q.cols \in Seq(ColumnOf)
      BY DEF WellFormed
    <3>3. Columns(q) = 1..Len(q.cols)
      BY <3>2 DEF Columns
    <3> HIDE DEF o
    <3> QED BY <3>1, <3>3 DEF IsRow
  <2> QED BY <2>1 DEF StoredIn, UnevenIn
<1>6. Columns(w) = Columns(q)
  BY DEF Columns
<1>7. StoredIn(n) \subseteq StoredIn(o) =>
        Stored(w) \subseteq Stored(q) /\ (StoredIn(n) # StoredIn(o) => Stored(w) # Stored(q))
  <2> SUFFICES ASSUME StoredIn(n) \subseteq StoredIn(o)
               PROVE  Stored(w) \subseteq Stored(q) /\ (StoredIn(n) # StoredIn(o) => Stored(w) # Stored(q))
    OBVIOUS
  <2> DEFINE R == Rows(q)
             C == Columns(q)
             f == [s \in Rows(q) |-> StoredIn(w.rows[s])]
             g == [s \in Rows(q) |-> StoredIn(q.rows[s])]
  <2>1. Stored(w) = Places(R, C, f) /\ Stored(q) = Places(R, C, g)
    BY <1>6, StoredPlaces DEF Places
  <2>2. /\ \A s \in R : s # r => f[s] = g[s]
        /\ f[r] \subseteq g[r] /\ g[r] \subseteq C /\ r \in R
    BY <1>5
  <2>3. f[r] = StoredIn(n) /\ g[r] = StoredIn(o)
    OBVIOUS
  <2> HIDE DEF R, C, f, g, n, o
  <2>4. Stored(w) \subseteq Stored(q) /\ (f[r] # g[r] => Stored(w) # Stored(q))
    BY <2>1, <2>2, OneRow
  <2> QED BY <2>3, <2>4
<1>8. UnevenIn(n) \subseteq UnevenIn(o) =>
        Uneven2(w) \subseteq Uneven2(q) /\ (UnevenIn(n) # UnevenIn(o) => Uneven2(w) # Uneven2(q))
  <2> SUFFICES ASSUME UnevenIn(n) \subseteq UnevenIn(o)
               PROVE  Uneven2(w) \subseteq Uneven2(q) /\ (UnevenIn(n) # UnevenIn(o) => Uneven2(w) # Uneven2(q))
    OBVIOUS
  <2> DEFINE R == Rows(q)
             C == Columns(q)
             f == [s \in Rows(q) |-> UnevenIn(w.rows[s])]
             g == [s \in Rows(q) |-> UnevenIn(q.rows[s])]
  <2>1. Uneven2(w) = Places(R, C, f) /\ Uneven2(q) = Places(R, C, g)
    BY <1>6 DEF Uneven2, Places
  <2>2. /\ \A s \in R : s # r => f[s] = g[s]
        /\ f[r] \subseteq g[r] /\ g[r] \subseteq C /\ r \in R
    BY <1>5
  <2>3. f[r] = UnevenIn(n) /\ g[r] = UnevenIn(o)
    OBVIOUS
  <2> HIDE DEF R, C, f, g, n, o
  <2>4. Uneven2(w) \subseteq Uneven2(q) /\ (f[r] # g[r] => Uneven2(w) # Uneven2(q))
    BY <2>1, <2>2, OneRow
  <2> QED BY <2>3, <2>4
<1> HIDE DEF n, o
<1>9. NoMoreFree(w, q)
  BY <1>1 DEF NoMoreFree
<1>10. LiveRows(w) \subseteq LiveRows(q) /\ (LiveRow(o) /\ ~ LiveRow(n) => LiveRows(w) # LiveRows(q))
  BY <1>0, <1>2, <1>3, <1>4, OnePlace DEF LighterRow
<1>11. NoMoreLive(w, q)
  BY <1>10 DEF NoMoreLive
<1>12. CASE LiveRow(o) /\ ~ LiveRow(n)
  BY <1>9, <1>10, <1>11, <1>12, Lightens
<1>13. CASE ~ (LiveRow(o) /\ ~ LiveRow(n))
  <2>1. StoredIn(n) \subseteq StoredIn(o)
    BY <1>0, <1>13 DEF LighterRow
  <2>2. NoMoreStored(w, q)
    BY <1>7, <2>1 DEF NoMoreStored
  <2>3. CASE StoredIn(n) # StoredIn(o)
    <3>1. Stored(w) # Stored(q)
      BY <1>7, <2>1, <2>3
    <3> QED BY <1>9, <1>11, <2>2, <3>1, Lightens
  <2>4. CASE StoredIn(n) = StoredIn(o)
    <3>1. UnevenIn(n) \subseteq UnevenIn(o)
      BY <1>0, <1>13, <2>4 DEF LighterRow
    <3>2. NoMoreUneven(w, q)
      BY <1>1, <1>8, <3>1 DEF NoMoreUneven
    <3>3. CASE UnevenIn(n) # UnevenIn(o)
      <4>1. LessUneven(w, q)
        BY <1>8, <3>1, <3>3 DEF LessUneven
      <4> QED BY <1>9, <1>11, <2>2, <3>2, <4>1, Lightens
    <3>4. CASE UnevenIn(n) = UnevenIn(o)
      <4>1. OpenLive(n) => OpenLive(o)
        BY <1>0, <1>13, <2>4, <3>4 DEF LighterRow
      <4>2. OpenRows(w) \subseteq OpenRows(q) /\ (OpenLive(o) /\ ~ OpenLive(n) => OpenRows(w) # OpenRows(q))
        BY <1>2, <1>3, <1>4, <4>1, OnePlace
      <4>3. NoMoreOpen(w, q)
        BY <1>1, <4>2 DEF NoMoreOpen
      <4>4. CASE OpenLive(o) /\ ~ OpenLive(n)
        <5>1. LessOpen(w, q)
          BY <4>2, <4>4 DEF LessOpen
        <5> QED BY <1>9, <1>11, <2>2, <3>2, <4>3, <5>1, Lightens
      <4>5. CASE ~ (OpenLive(o) /\ ~ OpenLive(n))
        <5>1. /\ UnevenLeft(n) => UnevenLeft(o)
              /\ UnevenRight(n) => UnevenRight(o)
              /\ \/ UnevenLeft(o) /\ ~ UnevenLeft(n)
                 \/ UnevenRight(o) /\ ~ UnevenRight(n)
          BY <1>0, <1>13, <2>4, <3>4, <4>5 DEF LighterRow
        <5>2. /\ UnevenLefts(w) \subseteq UnevenLefts(q)
              /\ UnevenLeft(o) /\ ~ UnevenLeft(n) => UnevenLefts(w) # UnevenLefts(q)
          BY <1>2, <1>3, <1>4, <5>1, OnePlace
        <5>3. /\ UnevenRights(w) \subseteq UnevenRights(q)
              /\ UnevenRight(o) /\ ~ UnevenRight(n) => UnevenRights(w) # UnevenRights(q)
          BY <1>2, <1>3, <1>4, <5>1, OnePlace
        <5>4. NoMoreBounds(w, q) /\ LessBounds(w, q)
          BY <1>1, <5>1, <5>2, <5>3 DEF NoMoreBounds, LessBounds
        <5> QED BY <1>9, <1>11, <2>2, <3>2, <4>3, <5>4, Lightens
      <4> QED BY <4>4, <4>5
    <3> QED BY <3>3, <3>4
  <2> QED BY <2>3, <2>4
<1> QED BY <1>12, <1>13

-------------------------------------------------------------------------------
(* Rounding moves a number by a half at most, and keeps the order.         *)
LEMMA RoundHalf ==
  ASSUME NEW s \in Int
  PROVE  /\ Round(s) \in Int /\ 2 * Round(s) <= 2 * s + One /\ 2 * s - One <= 2 * Round(s)
         /\ One \in Nat \ {0}
<1> DEFINE h == One \div 2
<1>1. One \in Nat \ {0} /\ h \in Int /\ One = 2 * h /\ 0 < h
  BY TolerancesAssumption DEF TolerancesAssumption
<1>2. -s + h \in Int /\ s + h \in Int
  BY <1>1
<1>3. Round(s) = IF s < 0 THEN -Floor(-s + h) ELSE Floor(s + h)
  BY DEF Round
<1> DEFINE f == Floor(-s + h)
           g == Floor(s + h)
<1> HIDE DEF h, f, g
<1>5. /\ f \in Int /\ f <= -s + h /\ -s + h - One < f
      /\ g \in Int /\ g <= s + h /\ s + h - One < g
  <2> DEFINE u == -s + h
             w == s + h
  <2>1. u \in Int /\ w \in Int
    BY <1>2
  <2> HIDE DEF u, w
  <2>2. u - One < Floor(u) /\ Floor(u) <= u /\ Floor(u) \in Int
    BY <2>1, RoundNear
  <2>3. w - One < Floor(w) /\ Floor(w) <= w /\ Floor(w) \in Int
    BY <2>1, RoundNear
  <2>4. f = Floor(u) /\ g = Floor(w)
    BY DEF f, g, u, w
  <2>5. f \in Int /\ f <= u /\ u - One < f /\ g \in Int /\ g <= w /\ w - One < g
    BY <2>2, <2>3, <2>4
  <2> QED BY <1>1, <2>5 DEF u, w
<1>6. CASE s < 0
  <2>1. Round(s) = -f
    BY <1>3, <1>6 DEF f
  <2> QED BY <1>1, <1>5, <2>1
<1>7. CASE ~ (s < 0)
  <2>1. Round(s) = g
    BY <1>3, <1>7 DEF g
  <2> QED BY <1>1, <1>5, <2>1
<1> QED BY <1>6, <1>7

(* Rounding keeps the order.                                               *)
LEMMA RoundMonotone ==
  ASSUME NEW a \in Int, NEW b \in Int, a <= b
  PROVE  Round(a) <= Round(b) /\ Round(a) \in Int /\ Round(b) \in Int
<1> DEFINE u == Round(a)
           w == Round(b)
<1>1. /\ u \in Int /\ 2 * u <= 2 * a + One /\ w \in Int /\ 2 * b - One <= 2 * w /\ One \in Nat \ {0}
  BY RoundHalf
<1>2. Whole(u) /\ Whole(w)
  BY WholeArithmetic
<1>3. CASE a = b
  BY <1>1, <1>3
<1>4. CASE a < b
  <2> HIDE DEF u, w
  <2>1. u < w + One
    BY <1>1, <1>4
  <2>2. u <= w
    BY <1>2, <2>1, WholeOrder
  <2> QED BY <1>1, <2>2 DEF u, w
<1> QED BY <1>3, <1>4

(* A number is whole exactly if rounding leaves it, tolerances aside.      *)
LEMMA IntegralIsWhole ==
  /\ \A v : Whole(v) => IsZetaIntegral(v)
  /\ Zeta = 0 => \A a, b \in Int : /\ IsZetaEq(a, b) <=> a = b
                                   /\ IsZetaLT(a, b) <=> a < b
                                   /\ IsZetaGE(a, b) <=> a >= b
  /\ \A v \in Int : Whole(Round(v)) /\ Whole(EpsFloor(v)) /\ Whole(EpsCeil(v))
<1>1. ASSUME NEW v, Whole(v)  PROVE IsZetaIntegral(v)
  <2>1. v \in Int /\ Round(v) = v
    BY <1>1, RoundSafe, WholeArithmetic
  <2>2. Zeta \in Nat /\ v - v = 0
    BY <2>1, TolerancesAssumption DEF TolerancesAssumption
  <2> QED BY <2>1, <2>2 DEF IsZetaIntegral, IsZetaEq, Magnitude
<1>2. ASSUME Zeta = 0, NEW a \in Int, NEW b \in Int
      PROVE  /\ IsZetaEq(a, b) <=> a = b
             /\ IsZetaLT(a, b) <=> a < b
             /\ IsZetaGE(a, b) <=> a >= b
  BY <1>2 DEF IsZetaEq, IsZetaLT, IsZetaGE, Magnitude
<1>3. ASSUME NEW v \in Int  PROVE Whole(Round(v)) /\ Whole(EpsFloor(v)) /\ Whole(EpsCeil(v))
  <2>1. v + Epsilon \in Int /\ v - Epsilon \in Int
    BY TolerancesAssumption DEF TolerancesAssumption
  <2> QED BY <2>1, WholeArithmetic DEF EpsFloor, EpsCeil
<1> QED BY <1>1, <1>2, <1>3

-------------------------------------------------------------------------------
(* A variant of which one row, or one column, is lighter.                  *)
LEMMA RowLightens ==
  ASSUME NEW q, Fits(q), NEW r \in Rows(q), NEW w, IsVariant(w, q, {r}, {}),
         LighterRow(w.rows[r], q.rows[r])
  PROVE  Lighter(Weight(w), Weight(q))
<1>1. WellFormed(q)
  BY DEF Fits
<1>2. WellFormed(w) /\ Rows(w) = Rows(q)
  BY <1>1, VariantWellFormed
<1>3. w.cols = q.cols /\ \A s \in Rows(q) : s # r => w.rows[s] = q.rows[s]
  <2>1. /\ w.cols = q.cols /\ \A s \in DOMAIN q.rows : s \notin {r} => w.rows[s] = q.rows[s]
    BY <1>1, SameColumns
  <2> QED BY <2>1 DEF Rows
<1> QED BY <1>1, <1>2, <1>3, LighterByRow

(* The same for a column.                                                  *)
LEMMA ColumnLightens ==
  ASSUME NEW q, Fits(q), NEW c \in Columns(q), NEW w, IsVariant(w, q, Rows(q), {c}), w.rows = q.rows,
         LighterColumn(w.cols[c], q.cols[c])
  PROVE  Lighter(Weight(w), Weight(q))
<1>1. WellFormed(q)
  BY DEF Fits
<1>2. WellFormed(w) /\ Columns(w) = Columns(q)
  BY <1>1, VariantWellFormed
<1>3. \A d \in Columns(q) : d # c => w.cols[d] = q.cols[d]
  BY DEF IsVariant
<1> QED BY <1>1, <1>2, <1>3, LighterByColumn

(* A row that becomes redundant.                                           *)
LEMMA ConstraintLightens ==
  ASSUME NEW q, Fits(q), NEW r \in Rows(q), IsAdmissible("constraint", q, r)
  PROVE  Lighter(Weight(Replay(q, Edits("constraint", q, r))), Weight(q))
<1> DEFINE w == Replay(q, Edits("constraint", q, r))
<1>1. IsVariant(w, q, {r}, {}) /\ "Redundant" \in w.rows[r].flags
  BY ConstraintReplayed
<1>2. "Redundant" \notin q.rows[r].flags
  BY DEF IsAdmissible, Redundant
<1> HIDE DEF w
<1>3. LighterRow(w.rows[r], q.rows[r])
  BY <1>1, <1>2 DEF LighterRow, LiveRow
<1>4. Lighter(Weight(w), Weight(q))
  BY <1>1, <1>3, RowLightens
<1> QED BY <1>4 DEF w

(* A row that is no longer open.                                           *)
LEMMA SideLightens ==
  ASSUME Exact, NEW q, Fits(q), NEW r \in Rows(q), IsAdmissible("side", q, r)
  PROVE  Lighter(Weight(Replay(q, Edits("side", q, r))), Weight(q))
<1> DEFINE w == Replay(q, Edits("side", q, r))
           n == w.rows[r]
           o == q.rows[r]
           a == SideValue(q, r)
<1>1. /\ IsVariant(w, q, {r}, {}) /\ n.coef = o.coef /\ n.lhs = a /\ n.rhs = a /\ a \in Int
      /\ n.flags \ {"Equation"} = o.flags \ {"LhsInf", "RhsInf", "Equation"}
  BY SideReplayed
<1>2. LiveRow(o) /\ OpenRow(o)
  BY DEF IsAdmissible, IsSideAdmissible, Redundant, LiveRow, OpenRow
<1> HIDE DEF w, n, o, a
<1>3. "Redundant" \notin n.flags /\ "LhsInf" \notin n.flags /\ "RhsInf" \notin n.flags
  <2>1. "Redundant" \notin o.flags
    BY <1>2 DEF LiveRow
  <2> QED BY <1>1, <2>1
<1>4. ~ OpenRow(n)
  <2>1. ~ IsZetaLT(n.lhs, n.rhs)
    BY <1>1, IntegralIsWhole DEF Exact
  <2> QED BY <1>3, <2>1 DEF OpenRow
<1>5. LiveRow(n) /\ StoredIn(n) = StoredIn(o) /\ UnevenIn(n) = UnevenIn(o)
  BY <1>1, <1>2, <1>3 DEF LiveRow, StoredIn, UnevenIn
<1>6. OpenLive(o) /\ ~ OpenLive(n)
  BY <1>2, <1>4 DEF OpenLive
<1>7. LighterRow(n, o)
  BY <1>2, <1>5, <1>6 DEF LighterRow
<1>8. Lighter(Weight(w), Weight(q))
  BY <1>1, <1>7, RowLightens DEF n, o
<1> QED BY <1>8 DEF w

-------------------------------------------------------------------------------
(* Columns are taken out of their row, and out of the storage.             *)
LEMMA CoefficientReplayed ==
  ASSUME Exact, NEW q, Fits(q), NEW r \in Rows(q)
  PROVE  LET w == Replay(q, Edits("coefficient", q, r))
         IN  /\ IsVariant(w, q, {r}, {}) /\ DOMAIN w.rows[r].coef \subseteq DOMAIN q.rows[r].coef
             /\ \A c \in Removable(q, r) : c \in DOMAIN q.rows[r].coef /\ c \notin DOMAIN w.rows[r].coef
             /\ w.rows[r].flags \ {"Equation"} = q.rows[r].flags \ {"Equation"}
<1> DEFINE cs == Removable(q, r)
           offset == FixedEntries(q, r)
           integral == IntegralRow(q, r, cs)
           row == q.rows[r]
           a == Shifted(row.lhs, offset, integral)
           b == Shifted(row.rhs, offset, integral)
           es == Zeros(r, cs)
           e == ShiftOf(es, LeftEdit(row, r, a), RightEdit(row, r, b))
           w == Replay(q, e)
<1>0. WellFormed(q) /\ IsVariant(q, q, {}, {}) /\ Zeta = 0
  BY SelfVariant DEF Fits, Exact
<1>1. Edits("coefficient", q, r) = e
  BY ShiftForm DEF Edits
<1>2. e \in EditsIn(q, {r}, {}, Columns(q))
  <2>1. "coefficient" \in ByRow
    BY DEF ByRow
  <2>2. Edits("coefficient", q, r) \in EditsOf("coefficient", q, {r})
    BY <1>0, <2>1, RowVisits, RowEditTyped
  <2> HIDE DEF e
  <2> QED BY <1>1, <2>1, <2>2, EditsOfRows
<1>3. cs \in SUBSET DOMAIN row.coef /\ offset \in Int
  BY <1>0, FixedEntriesInteger
<1>4. IsRow(row, Len(q.cols)) /\ Len(q.cols) \in Nat
  BY <1>0, ProblemParts DEF WellFormed
<1>5. row.lhs \in Int /\ row.rhs \in Int /\ DOMAIN row.coef \subseteq 1..Len(q.cols)
  <2> HIDE DEF row
  <2> QED BY <1>4, RowFields
<1>6. es \in Seq(Entries(q, {r}, cs)) /\ Distinct(es)
  <2> HIDE DEF cs, es
  <2>1. 0 \in Int
    OBVIOUS
  <2> QED BY <1>0, <1>3, <2>1, ShiftTyped DEF es
<1> HIDE DEF cs, offset, integral, row
<1>7. a \in Int /\ b \in Int
  <2>1. row.lhs + offset \in Int /\ row.rhs + offset \in Int
    BY <1>3, <1>5
  <2> QED BY <2>1, StepArithmetic DEF Shifted
<1> HIDE DEF a, b, es, w
<1>8. IsVariant(w, q, {r}, {}) /\ Entered(w.rows[r], row, es) /\ Moved(w.rows[r], row, a, b)
  <2>1. e = ShiftOf(es, LeftEdit(row, r, a), RightEdit(row, r, b))
    OBVIOUS
  <2> HIDE DEF e
  <2> QED BY <1>0, <1>2, <1>6, <1>7, <2>1, RowReplayed DEF w, row
<1>9. ASSUME NEW c \in cs  PROVE c \notin DOMAIN w.rows[r].coef
  <2> DEFINE m == Cardinality(cs)
             f == Falling(cs)
  <2>1. ListsOnce(f, cs) /\ IsFiniteSet(cs)
    <3>1. cs \in SUBSET (1..Len(q.cols))
      BY <1>3, <1>5
    <3>2. IsFiniteSet(1..Len(q.cols))
      BY <1>4, FS_Interval
    <3> QED BY <1>4, <3>1, <3>2, SortedSets, FS_Subset
  <2>2. m \in Nat /\ \E i \in 1..m : f[i] = c
    <3> HIDE DEF f
    <3>1. Reaches(f, cs)
      BY <2>1, NoneLeftOut
    <3>2. m \in Nat
      BY <2>1, FS_CardinalityType
    <3> QED BY <3>1, <3>2 DEF Reaches
  <2>3. PICK i \in 1..m : f[i] = c
    BY <2>2
  <2> HIDE DEF f
  <2>4. es = [j \in 1..m |-> <<r, f[j], 0>>]
    BY DEF es, Zeros, f
  <2> HIDE DEF m
  <2>5. Len(es) = m
    <3>1. IsMap(es) /\ DOMAIN es = 1..m /\ \A j \in 1..m : es[j] \in {es[k] : k \in 1..m}
      BY <2>4 DEF IsMap
    <3> QED BY <2>2, <3>1, SequenceMade
  <2>6. es[i][2] = c /\ es[i][3] = 0
    BY <2>3, <2>4
  <2> QED BY <1>8, <2>5, <2>6 DEF Entered
<1>10. DOMAIN w.rows[r].coef \subseteq DOMAIN row.coef
  BY <1>8 DEF Entered
<1>11. w.rows[r].flags \ {"Equation"} = row.flags \ {"Equation"}
  BY <1>8 DEF Moved
<1> HIDE DEF e
<1> QED BY <1>1, <1>3, <1>8, <1>9, <1>10, <1>11 DEF w, cs, row

(* Coefficients of fixed columns leave the row.                            *)
LEMMA CoefficientLightens ==
  ASSUME Exact, NEW q, Fits(q), NEW r \in Rows(q), IsAdmissible("coefficient", q, r)
  PROVE  Lighter(Weight(Replay(q, Edits("coefficient", q, r))), Weight(q))
<1> DEFINE w == Replay(q, Edits("coefficient", q, r))
           n == w.rows[r]
           o == q.rows[r]
<1>1. /\ IsVariant(w, q, {r}, {}) /\ DOMAIN n.coef \subseteq DOMAIN o.coef
      /\ \A c \in Removable(q, r) : c \in DOMAIN o.coef /\ c \notin DOMAIN n.coef
      /\ n.flags \ {"Equation"} = o.flags \ {"Equation"}
  BY CoefficientReplayed
<1>2. LiveRow(o) /\ \E c : c \in Removable(q, r)
  BY DEF IsAdmissible, IsCoefficientAdmissible, Redundant, LiveRow
<1> HIDE DEF w, n, o
<1>3. LiveRow(n)
  BY <1>1, <1>2 DEF LiveRow
<1>4. StoredIn(n) = DOMAIN n.coef /\ StoredIn(o) = DOMAIN o.coef
  BY <1>2, <1>3 DEF StoredIn
<1>5. StoredIn(n) \subseteq StoredIn(o) /\ StoredIn(n) # StoredIn(o)
  BY <1>1, <1>2, <1>4
<1>6. LighterRow(n, o)
  BY <1>2, <1>3, <1>5 DEF LighterRow
<1>7. Lighter(Weight(w), Weight(q))
  BY <1>1, <1>6, RowLightens DEF n, o
<1> QED BY <1>7 DEF w

(* A column that is no longer open.                                        *)
LEMMA VariableLightens ==
  ASSUME Exact, NEW q, Fits(q), NEW c \in Columns(q), IsAdmissible("variable", q, c)
  PROVE  Lighter(Weight(Replay(q, Edits("variable", q, c))), Weight(q))
<1> DEFINE w == Replay(q, Edits("variable", q, c))
           n == w.cols[c]
           o == q.cols[c]
           a == FixedValue(q, c)
<1>1. /\ IsVariant(w, q, Rows(q), {c}) /\ w.rows = q.rows
      /\ n.lb = a /\ n.ub = a /\ n.obj = o.obj /\ n.flags = o.flags \ {"LbInf", "UbInf"} /\ a \in Int
  BY VariableReplayed DEF ColumnIs
<1>2. FreeColumn(o) /\ Open(o)
  BY DEF IsAdmissible, IsVariableAdmissible, FreeColumn, Fixed
<1> HIDE DEF w, n, o, a
<1>3. FreeColumn(n) /\ ~ Open(n)
  <2>1. ~ IsZetaLT(n.lb, n.ub)
    BY <1>1, IntegralIsWhole DEF Exact
  <2>2. "LbInf" \notin n.flags /\ "UbInf" \notin n.flags /\ "Fixed" \notin n.flags
    BY <1>1, <1>2 DEF FreeColumn
  <2> QED BY <2>1, <2>2 DEF Open, FreeColumn
<1>4. (HasProfit(n) => HasProfit(o)) /\ (UnevenProfit(n) => UnevenProfit(o))
  BY <1>1, <1>2 DEF HasProfit, UnevenProfit
<1>5. OpenColumn(o) /\ ~ OpenColumn(n)
  BY <1>2, <1>3 DEF OpenColumn
<1>6. LighterColumn(n, o)
  BY <1>2, <1>4, <1>5 DEF LighterColumn
<1>7. Lighter(Weight(w), Weight(q))
  BY <1>1, <1>6, ColumnLightens DEF n, o
<1> QED BY <1>7 DEF w

(* A column without a profit.                                              *)
LEMMA ObjectiveLightens ==
  ASSUME Exact, NEW q, Fits(q), NEW c \in Columns(q), IsAdmissible("objective", q, c)
  PROVE  Lighter(Weight(Replay(q, Edits("objective", q, c))), Weight(q))
<1> DEFINE w == Replay(q, Edits("objective", q, c))
           n == w.cols[c]
           o == q.cols[c]
<1>1. /\ IsVariant(w, q, Rows(q), {c}) /\ w.rows = q.rows
      /\ n.lb = o.lb /\ n.ub = o.ub /\ n.obj = 0 /\ n.flags = o.flags
  BY ObjectiveReplayed DEF ColumnIs
<1>2. HasProfit(o)
  BY DEF IsAdmissible, IsObjectiveAdmissible, HasProfit, FreeColumn, Fixed
<1> HIDE DEF w, n, o
<1>3. FreeColumn(n) => FreeColumn(o)
  BY <1>1 DEF FreeColumn
<1>4. IsZetaZero(n.obj) /\ IsZetaIntegral(n.obj)
  <2>1. Zeta \in Nat
    BY TolerancesAssumption DEF TolerancesAssumption
  <2> QED BY <1>1, <2>1, IntegralIsWhole, WholeArithmetic DEF IsZetaZero, Magnitude
<1>5. ~ HasProfit(n) /\ ~ UnevenProfit(n)
  BY <1>4 DEF HasProfit, UnevenProfit
<1>6. LighterColumn(n, o)
  BY <1>2, <1>3, <1>5 DEF LighterColumn
<1>7. Lighter(Weight(w), Weight(q))
  BY <1>1, <1>6, ColumnLightens DEF n, o
<1> QED BY <1>7 DEF w

-------------------------------------------------------------------------------
(* What bounds and sides are rounded to is whole, and keeps their order    *)
(* without a feasible reference.                                           *)
LEMMA RoundedBounds ==
  ASSUME NEW b \in Int, NEW v \in Int
  PROVE  /\ Lowered(b, v) \in Int /\ Raised(b, v) \in Int
         /\ IsZetaIntegral(Lowered(b, v)) /\ IsZetaIntegral(Raised(b, v))
         /\ solution.status # "feasible" => Lowered(b, v) = Round(b) /\ Raised(b, v) = Round(b)
<1>1. /\ Whole(Round(b)) /\ Whole(EpsFloor(v)) /\ Whole(EpsCeil(v))
      /\ \A u : Whole(u) => IsZetaIntegral(u)
  BY IntegralIsWhole
<1>2. Whole(Lowered(b, v)) /\ Whole(Raised(b, v))
  BY <1>1 DEF Lowered, Raised, Least, Most
<1>3. Lowered(b, v) \in Int /\ Raised(b, v) \in Int
  BY <1>2 DEF Whole
<1>4. solution.status # "feasible" => Lowered(b, v) = Round(b) /\ Raised(b, v) = Round(b)
  BY DEF Lowered, Raised
<1> QED BY <1>1, <1>2, <1>3, <1>4

(* A pair of bounds that is not open does not open when it is rounded.     *)
LEMMA StaysClosed ==
  ASSUME Exact, NEW a \in Int, NEW b \in Int, NEW v \in Int, ~ IsZetaLT(a, b), ~ IsZetaEq(a, b),
         solution.status # "feasible"
  PROVE  ~ IsZetaLT(Lowered(a, v), Raised(b, v))
<1>1. b <= a
  BY IntegralIsWhole DEF Exact
<1>2. Round(b) <= Round(a) /\ Round(a) \in Int /\ Round(b) \in Int
  BY <1>1, RoundMonotone
<1>3. ~ IsZetaLT(Round(a), Round(b))
  BY <1>2, IntegralIsWhole DEF Exact
<1> QED BY <1>3, RoundedBounds

(* The profit of a column is rounded, or else its bounds.                  *)
LEMMA VarroundLightens ==
  ASSUME Exact, NEW q, Fits(q), solution.status = "feasible" => Agrees(q),
         NEW c \in Columns(q), IsAdmissible("varround", q, c)
  PROVE  Lighter(Weight(Replay(q, Edits("varround", q, c))), Weight(q))
<1> DEFINE w == Replay(q, Edits("varround", q, c))
           n == w.cols[c]
           o == q.cols[c]
           v == ValueTarget(c)
<1>1. /\ IsVariant(w, q, Rows(q), {c}) /\ w.rows = q.rows
      /\ n.lb = NewLower(o, c) /\ n.ub = NewUpper(o, c) /\ n.obj = Round(o.obj) /\ n.flags = o.flags
      /\ v \in Int
  BY VarroundReplayed DEF ColumnIs
<1>2. /\ FreeColumn(o)
      /\ \/ ~ IsZetaIntegral(o.obj)
         \/ /\ o.flags \cap {"LbInf", "UbInf"} # {} \/ ~ IsZetaEq(o.lb, o.ub)
            /\ \/ "LbInf" \notin o.flags /\ ~ IsZetaIntegral(o.lb)
               \/ "UbInf" \notin o.flags /\ ~ IsZetaIntegral(o.ub)
  BY DEF IsAdmissible, IsVarroundAdmissible, FreeColumn, Fixed
<1>3. o.lb \in Int /\ o.ub \in Int /\ o.obj \in Int
  BY ColumnIsItself
<1>4. solution.status = "feasible" =>
        /\ "LbInf" \notin o.flags => v >= o.lb
        /\ "UbInf" \notin o.flags => v <= o.ub
  BY <1>2 DEF Agrees, ColumnFits, Columns, FreeColumn, ValueTarget
<1> HIDE DEF w, n, o, v
<1>5. /\ "LbInf" \notin o.flags => n.lb = Lowered(o.lb, v)
      /\ "UbInf" \notin o.flags => n.ub = Raised(o.ub, v)
  BY <1>1 DEF NewLower, NewUpper, v
<1>6. FreeColumn(n) /\ IsZetaIntegral(n.obj)
  BY <1>1, <1>2, <1>3, IntegralIsWhole DEF FreeColumn
<1>7. HasProfit(n) => HasProfit(o)
  <2>1. o.obj = 0 => n.obj = 0
    BY <1>1, WholeArithmetic, RoundSafe
  <2>2. \A x \in Int : IsZetaZero(x) <=> x = 0
    BY DEF IsZetaZero, Magnitude, Exact
  <2>3. n.obj \in Int
    BY <1>1, <1>3, RoundNear
  <2> QED BY <1>2, <1>3, <2>1, <2>2, <2>3 DEF HasProfit
<1>8. ~ UnevenProfit(n)
  BY <1>6 DEF UnevenProfit
<1>9. /\ "LbInf" \notin o.flags => IsZetaIntegral(n.lb)
      /\ "UbInf" \notin o.flags => IsZetaIntegral(n.ub)
  <2>1. IsZetaIntegral(Lowered(o.lb, v)) /\ IsZetaIntegral(Raised(o.ub, v))
    BY <1>1, <1>3, RoundedBounds
  <2> QED BY <1>5, <2>1
<1>10. ~ UnevenLower(n) /\ ~ UnevenUpper(n)
  BY <1>1, <1>9 DEF UnevenLower, UnevenUpper
<1>11. ASSUME ~ IsZetaIntegral(o.obj)  PROVE LighterColumn(n, o)
  <2>1. UnevenProfit(o)
    BY <1>2, <1>11 DEF UnevenProfit
  <2> QED BY <1>2, <1>7, <1>8, <2>1 DEF LighterColumn
<1>12. ASSUME IsZetaIntegral(o.obj)  PROVE LighterColumn(n, o)
  <2>1. UnevenLower(o) \/ UnevenUpper(o)
    BY <1>2, <1>12 DEF UnevenLower, UnevenUpper
  <2>2. OpenColumn(n) => OpenColumn(o)
    <3>1. CASE o.flags \cap {"LbInf", "UbInf"} # {}
      BY <1>2, <3>1 DEF OpenColumn, Open
    <3>2. CASE /\ "LbInf" \notin o.flags /\ "UbInf" \notin o.flags
               /\ ~ IsZetaEq(o.lb, o.ub) /\ solution.status = "feasible"
      <4>1. IsZetaLT(o.lb, o.ub)
        BY <1>1, <1>3, <1>4, <3>2, IntegralIsWhole DEF Exact
      <4> QED BY <1>2, <4>1 DEF OpenColumn, Open
    <3>3. CASE /\ "LbInf" \notin o.flags /\ "UbInf" \notin o.flags
               /\ ~ IsZetaEq(o.lb, o.ub) /\ solution.status # "feasible"
      <4>1. IsZetaLT(n.lb, n.ub) => IsZetaLT(o.lb, o.ub)
        BY <1>1, <1>3, <1>5, <3>3, StaysClosed
      <4> QED BY <1>1, <1>2, <3>3, <4>1 DEF OpenColumn, Open, FreeColumn
    <3> QED BY <1>2, <1>12, <3>1, <3>2, <3>3
  <2> QED BY <1>2, <1>7, <1>8, <1>10, <2>1, <2>2 DEF LighterColumn
<1>13. LighterColumn(n, o)
  BY <1>11, <1>12
<1>14. Lighter(Weight(w), Weight(q))
  BY <1>1, <1>13, ColumnLightens DEF n, o
<1> QED BY <1>14 DEF w

-------------------------------------------------------------------------------
(* The sides of a live row of which the reference is true leave room.      *)
LEMMA SidesOrdered ==
  ASSUME solution.status = "feasible", NEW q, Fits(q), Agrees(q), NEW r \in Rows(q),
         ~ Redundant(q, r), "LhsInf" \notin q.rows[r].flags, "RhsInf" \notin q.rows[r].flags
  PROVE  q.rows[r].lhs <= q.rows[r].rhs
<1> DEFINE row == q.rows[r]
           t == Activity(row, solution.primal)
<1>1. WithinSides(row, t)
  BY DEF Agrees, RowFits, SidesFit, Redundant, Rows
<1>2. IsRow(row, Len(q.cols)) /\ Known /\ WellFormed(q)
  BY DEF Fits, WellFormed, Known
<1>3. row.lhs \in Int /\ row.rhs \in Int
  <2> HIDE DEF row
  <2> QED BY <1>2, RowFields
<1>4. t \in Int
  <2> HIDE DEF row
  <2>1. Valued(row, solution.primal)
    BY <1>2, RowValued DEF ValuedRow
  <2> QED BY <2>1, ActivitySums
<1> HIDE DEF t
<1> QED BY <1>1, <1>3, <1>4 DEF WithinSides

(* The coefficients of a row are rounded, or else its sides.               *)
LEMMA ConsroundLightens ==
  ASSUME Exact, NEW q, Fits(q), solution.status = "feasible" => Agrees(q),
         NEW r \in Rows(q), IsAdmissible("consround", q, r)
  PROVE  Lighter(Weight(Replay(q, Edits("consround", q, r))), Weight(q))
<1> DEFINE w == Replay(q, Edits("consround", q, r))
           n == w.rows[r]
           o == q.rows[r]
           v == RoundTarget(o)
<1>1. /\ IsVariant(w, q, {r}, {}) /\ DOMAIN n.coef \subseteq DOMAIN o.coef
      /\ \A c \in DOMAIN o.coef : Coefficient(n, c) = Round(o.coef[c])
      /\ v \in Int /\ Moved(n, o, Lowered(o.lhs, v), Raised(o.rhs, v))
  BY ConsroundReplayed
<1>2. /\ LiveRow(o)
      /\ \/ /\ o.flags \cap {"LhsInf", "RhsInf"} # {} \/ ~ IsZetaEq(o.lhs, o.rhs)
            /\ \/ "LhsInf" \notin o.flags /\ ~ IsZetaIntegral(o.lhs)
               \/ "RhsInf" \notin o.flags /\ ~ IsZetaIntegral(o.rhs)
         \/ \E c \in DOMAIN o.coef : ~ IsZetaIntegral(o.coef[c])
  BY DEF IsAdmissible, IsConsroundAdmissible, LiveRow, Redundant
<1>3. IsRow(o, Len(q.cols)) /\ Len(q.cols) \in Nat
  BY ProblemParts DEF Fits, WellFormed
<1>4. /\ solution.status = "feasible" /\ "LhsInf" \notin o.flags /\ "RhsInf" \notin o.flags
         => o.lhs <= o.rhs
  BY <1>2, SidesOrdered DEF LiveRow, Redundant
<1> HIDE DEF w, n, o, v
<1>5. /\ o.lhs \in Int /\ o.rhs \in Int
      /\ \A c \in DOMAIN o.coef : o.coef[c] \in Int
  BY <1>3, RowFields, StepArithmetic
<1>6. /\ "LhsInf" \notin o.flags => n.lhs = Lowered(o.lhs, v)
      /\ "RhsInf" \notin o.flags => n.rhs = Raised(o.rhs, v)
      /\ n.flags \ {"Equation"} = o.flags \ {"Equation"}
  BY <1>1 DEF Moved
<1>7. /\ "Redundant" \in n.flags <=> "Redundant" \in o.flags
      /\ "LhsInf" \in n.flags <=> "LhsInf" \in o.flags
      /\ "RhsInf" \in n.flags <=> "RhsInf" \in o.flags
  BY <1>6
<1>8. LiveRow(n) /\ StoredIn(n) = DOMAIN n.coef /\ StoredIn(o) = DOMAIN o.coef
  BY <1>2, <1>7 DEF LiveRow, StoredIn
<1>9. UnevenIn(n) = {}
  <2>1. ASSUME NEW c \in DOMAIN n.coef  PROVE IsZetaIntegral(n.coef[c])
    <3>1. c \in DOMAIN o.coef
      BY <1>1
    <3>2. n.coef[c] = Round(o.coef[c])
      BY <1>1, <3>1 DEF Coefficient
    <3>3. o.coef[c] \in Int
      BY <1>5, <3>1
    <3> QED BY <3>2, <3>3, IntegralIsWhole
  <2> QED BY <1>8, <2>1 DEF UnevenIn
<1>10. /\ "LhsInf" \notin o.flags => IsZetaIntegral(n.lhs)
       /\ "RhsInf" \notin o.flags => IsZetaIntegral(n.rhs)
  <2>1. IsZetaIntegral(Lowered(o.lhs, v)) /\ IsZetaIntegral(Raised(o.rhs, v))
    BY <1>1, <1>5, RoundedBounds
  <2> QED BY <1>6, <2>1
<1>11. ~ UnevenLeft(n) /\ ~ UnevenRight(n)
  BY <1>7, <1>10 DEF UnevenLeft, UnevenRight
<1>12. ASSUME UnevenIn(o) # {}  PROVE LighterRow(n, o)
  BY <1>1, <1>2, <1>8, <1>9, <1>12 DEF LighterRow
<1>13. ASSUME UnevenIn(o) = {}  PROVE LighterRow(n, o)
  <2>1. /\ o.flags \cap {"LhsInf", "RhsInf"} # {} \/ ~ IsZetaEq(o.lhs, o.rhs)
        /\ UnevenLeft(o) \/ UnevenRight(o)
    BY <1>2, <1>8, <1>13 DEF UnevenIn, UnevenLeft, UnevenRight
  <2>2. OpenLive(n) => OpenLive(o)
    <3>1. CASE o.flags \cap {"LhsInf", "RhsInf"} # {}
      BY <1>2, <3>1 DEF OpenLive, OpenRow
    <3>2. CASE /\ "LhsInf" \notin o.flags /\ "RhsInf" \notin o.flags
               /\ ~ IsZetaEq(o.lhs, o.rhs) /\ solution.status = "feasible"
      <4>1. IsZetaLT(o.lhs, o.rhs)
        BY <1>4, <1>5, <3>2, IntegralIsWhole DEF Exact
      <4> QED BY <1>2, <4>1 DEF OpenLive, OpenRow
    <3>3. CASE /\ "LhsInf" \notin o.flags /\ "RhsInf" \notin o.flags
               /\ ~ IsZetaEq(o.lhs, o.rhs) /\ solution.status # "feasible"
      <4>1. IsZetaLT(n.lhs, n.rhs) => IsZetaLT(o.lhs, o.rhs)
        BY <1>1, <1>5, <1>6, <3>3, StaysClosed
      <4> QED BY <1>2, <1>7, <3>3, <4>1 DEF OpenLive, OpenRow
    <3> QED BY <2>1, <3>1, <3>2, <3>3
  <2> QED BY <1>1, <1>2, <1>8, <1>9, <1>11, <1>13, <2>1, <2>2 DEF LighterRow
<1>14. LighterRow(n, o)
  BY <1>12, <1>13
<1>15. Lighter(Weight(w), Weight(q))
  BY <1>1, <1>14, RowLightens DEF n, o
<1> QED BY <1>15 DEF w

-------------------------------------------------------------------------------
(* Edits of rows leave the columns.                                        *)
LEMMA StageBesides ==
  ASSUME NEW p, WellFormed(p), NEW R \in SUBSET Rows(p), NEW C \in SUBSET Columns(p), NEW E,
         NEW q, IsVariant(q, p, R, C), NEW k \in OfRows, NEW s, Listed(k, s) \in Seq(Tagged(p, R, C, E))
  PROVE  IsVariant(Stage(q, k, s), p, R, C) /\ Stage(q, k, s).cols = q.cols
<1> DEFINE U == Tagged(p, R, C, E)
           L == Listed(k, s)
           T == {x \in U : x[1] = k}
           H == {v \in Variants(p, R, C) : v.cols = q.cols}
<1>1. q \in H
  BY VariantsAre
<1>2. L \in Seq(T)
  <2>1. L \in Seq(U)
    OBVIOUS
  <2>2. DOMAIN L = DOMAIN s /\ \A j \in DOMAIN s : L[j] = Named(k, s[j])
    BY DEF Listed, Named
  <2>3. \A j \in DOMAIN L : L[j][1] = k
    BY <2>2 DEF Named
  <2> HIDE DEF L, U
  <2>4. DOMAIN L = 1..Len(L) /\ Len(L) \in Nat /\ \A j \in 1..Len(L) : L[j] \in U
    BY <2>1
  <2>5. \A j \in 1..Len(L) : L[j] \in T
    BY <2>3, <2>4
  <2>6. L = [j \in 1..Len(L) |-> L[j]]
    BY <2>1
  <2> HIDE DEF T
  <2>7. L \in [1..Len(L) -> T]
    BY <2>5, <2>6
  <2> QED BY <2>4, <2>7, SeqDef
<1>3. ASSUME NEW v \in H, NEW x \in T  PROVE Apply(v, x) \in H
  <2>1. IsVariant(v, p, R, C) /\ v.cols = q.cols
    BY VariantsAre
  <2>2. x \in U /\ x[1] = k
    OBVIOUS
  <2> HIDE DEF U, T
  <2>3. IsVariant(Apply(v, x), p, R, C)
    BY <2>1, <2>2, ApplyKeeps DEF U
  <2>4. Place(x) \in R
    BY <2>2, PlaceTyped DEF U, OfRows, OfColumns
  <2>5. IsPair(v) /\ DOMAIN v.rows = Rows(p)
    BY <2>1, VariantParts
  <2>6. Apply(v, x) = WithRow(v, Place(x), OnRow(x, v.rows[Place(x)]))
    BY <2>2, <2>4, <2>5, ApplyActs
  <2>7. Apply(v, x).cols = v.cols
    BY <2>6 DEF WithRow
  <2> QED BY <2>1, <2>3, <2>7, VariantsAre
<1>4. Editing!TakesLast
  BY LastIsPicked
<1> HIDE DEF U, L, T, H
<1>5. Editing!Over(q, L) \in H
  BY <1>1, <1>2, <1>3, <1>4, Editing!OverKeeps
<1>6. Stage(q, k, s) \in H
  BY <1>5 DEF Stage, L
<1> DEFINE w == Stage(q, k, s)
<1> HIDE DEF w
<1>7. w \in Variants(p, R, C) /\ w.cols = q.cols
  BY <1>6 DEF H, w
<1>8. IsVariant(w, p, R, C)
  BY <1>7, VariantsAre
<1> QED BY <1>7, <1>8 DEF w

(* The edits of a fixing that are replayed fix the column.                 *)
LEMMA FixingReplayed ==
  ASSUME NEW p, WellFormed(p), NEW e \in EditsOf("fixing", p, Columns(p)),
         NEW c \in Columns(p), e.fixed = << c >>,
         NEW q, IsVariant(q, p, Rows(p), Columns(p))
  PROVE  /\ IsVariant(Replay(q, e), p, Rows(p), Columns(p))
         /\ Replay(q, e).cols = Fixation(q, c).cols
<1> DEFINE R == Rows(p)
           C == Columns(p)
           t == Fixation(q, c)
           x == Stage(t, "entries", e.entries)
           y == Stage(x, "lefts", e.lefts)
           z == Stage(y, "rights", e.rights)
<1>1. e \in EditsIn(p, R, C, C) /\ EmptyBut(e, Lists("fixing"))
  BY EditsOfColumns DEF ByColumn
<1>2. /\ e["rows"] = << >> /\ e["domains"] = << >> /\ e["sides"] = << >>
      /\ e["objs"] = << >> /\ e["lowers"] = << >> /\ e["uppers"] = << >>
  <2>1. DOMAIN e = ListNames
    BY <1>1 DEF EditsIn, ListNames
  <2> QED BY <1>1, <2>1 DEF EmptyBut, Lists, ListNames
<1>3. IsVariant(t, p, R, C)
  BY ColumnsKeep
<1>4. Replay(q, e) = z
  <2>1. e.rows = << >> /\ e.domains = << >> /\ e.sides = << >>
        /\ e.objs = << >> /\ e.lowers = << >> /\ e.uppers = << >>
    BY <1>2
  <2>2. e.fixed = Single(c)
    BY DEF Single
  <2>3. Stage(q, "fixed", Single(c)) = t
    <3>1. Stage(q, "fixed", Single(c)) = Apply(q, Named("fixed", c))
      BY StageOne
    <3> QED BY <3>1 DEF Apply, Named
  <2>4. \A v : Stage(v, "rows", << >>) = v /\ Stage(v, "domains", << >>) = v
               /\ Stage(v, "sides", << >>) = v /\ Stage(v, "objs", << >>) = v
               /\ Stage(v, "lowers", << >>) = v /\ Stage(v, "uppers", << >>) = v
    BY StageEmpty
  <2>5. Replay(q, e) =
           LET a == Stage(Stage(Stage(q, "rows", << >>), "domains", << >>), "sides", << >>)
               b == Stage(Stage(a, "fixed", Single(c)), "entries", e.entries)
               d == Stage(Stage(b, "lefts", e.lefts), "rights", e.rights)
           IN  Stage(Stage(Stage(d, "objs", << >>), "lowers", << >>), "uppers", << >>)
    BY <1>1, <2>1, <2>2, ReplayStages
  <2> HIDE DEF t
  <2> QED BY <2>3, <2>4, <2>5
<1>5. /\ Listed("entries", e.entries) \in Seq(Tagged(p, R, C, C))
      /\ Listed("lefts", e.lefts) \in Seq(Tagged(p, R, C, C))
      /\ Listed("rights", e.rights) \in Seq(Tagged(p, R, C, C))
  BY <1>1, EditsTyped
<1>6. R \in SUBSET Rows(p) /\ C \in SUBSET Columns(p) /\ "entries" \in OfRows
      /\ "lefts" \in OfRows /\ "rights" \in OfRows
  BY DEF OfRows
<1> HIDE DEF R, C, t, x, y, z
<1>7. IsVariant(x, p, R, C) /\ x.cols = t.cols
  BY <1>3, <1>5, <1>6, StageBesides DEF x
<1>8. IsVariant(y, p, R, C) /\ y.cols = x.cols
  <2> DEFINE s == e.lefts
  <2>1. Listed("lefts", s) \in Seq(Tagged(p, R, C, C))
    BY <1>5
  <2> HIDE DEF s
  <2>2. /\ IsVariant(Stage(x, "lefts", s), p, R, C)
        /\ Stage(x, "lefts", s).cols = x.cols
    BY <1>6, <1>7, <2>1, StageBesides
  <2> QED BY <2>2 DEF y, s
<1>9. IsVariant(z, p, R, C) /\ z.cols = y.cols
  <2> DEFINE s == e.rights
  <2>1. Listed("rights", s) \in Seq(Tagged(p, R, C, C))
    BY <1>5
  <2> HIDE DEF s
  <2>2. /\ IsVariant(Stage(y, "rights", s), p, R, C)
        /\ Stage(y, "rights", s).cols = y.cols
    BY <1>6, <1>8, <2>1, StageBesides
  <2> QED BY <2>2 DEF z, s
<1> QED BY <1>4, <1>7, <1>8, <1>9 DEF R, C, t

(* A problem with a column less that is free is lighter.                   *)
LEMMA FixingLightens ==
  ASSUME NEW p, WellFormed(p), NEW e \in EditsOf("fixing", p, Columns(p)),
         NEW c \in Columns(p), e.fixed = << c >>,
         NEW q, IsVariant(q, p, Rows(p), Columns(p)), ~ Fixed(q, c)
  PROVE  Lighter(Weight(Replay(q, e)), Weight(q))
<1> DEFINE w == Replay(q, e)
<1>1. IsVariant(w, p, Rows(p), Columns(p)) /\ w.cols = Fixation(q, c).cols
  BY FixingReplayed
<1>2. WellFormed(q) /\ Columns(q) = Columns(p) /\ DOMAIN q.cols = Columns(p)
  <2>1. WellFormed(q) /\ Columns(q) = Columns(p)
    BY VariantWellFormed
  <2>2. DOMAIN q.cols = Columns(p)
    BY VariantParts
  <2> QED BY <2>1, <2>2
<1>3. WellFormed(w) /\ Columns(w) = Columns(p)
  <2> HIDE DEF w
  <2> QED BY <1>1, VariantWellFormed
<1> DEFINE cols == w.cols
<1>4. cols = Fixation(q, c).cols
  BY <1>1
<1> HIDE DEF cols
<1>5. cols[c].flags = q.cols[c].flags \cup {"Fixed"}
      /\ \A d \in DOMAIN q.cols \ {c} : cols[d] = q.cols[d]
  BY <1>2, <1>4, FixationColumns
<1>6. /\ "Fixed" \in w.cols[c].flags
      /\ \A d \in Columns(p) \ {c} : w.cols[d] = q.cols[d]
  BY <1>2, <1>5 DEF cols
<1> HIDE DEF w
<1>7. c \in Free(q) /\ c \notin Free(w)
  BY <1>2, <1>3, <1>6 DEF Free, Fixed
<1>8. Free(w) \subseteq Free(q)
  BY <1>2, <1>3, <1>6 DEF Free, Fixed
<1>9. Lighter(Weight(w), Weight(q))
  BY <1>2, <1>3, <1>7, <1>8, Lightens DEF NoMoreFree
<1> QED BY <1>9 DEF w

-------------------------------------------------------------------------------
(* Whatever modifier but the fixing one visits a row or column that is     *)
(* admissible, it makes the problem lighter.                               *)
LEMMA VisitLightens ==
  ASSUME Exact, NEW m \in ByRow \cup ByColumn, m # "fixing",
         NEW q, Fits(q), solution.status = "feasible" => Agrees(q), NEW p, NEW i,
         SeenAlike(m, p, q, i), m \in ByRow => i \in Rows(q), m \in ByColumn => i \in Columns(q),
         IsAdmissible(m, p, i)
  PROVE  Lighter(Weight(Replay(q, Edits(m, p, i))), Weight(q))
<1>0. /\ m \in {"constraint", "coefficient", "side", "consround"} => i \in Rows(q)
      /\ m \in {"variable", "objective", "varround"} => i \in Columns(q)
      /\ m \in {"constraint", "coefficient", "side", "consround", "variable", "objective", "varround"}
  BY DEF ByRow, ByColumn
<1>1. Edits(m, p, i) = Edits(m, q, i)
  BY EditsAlike
<1>2. IsAdmissible(m, q, i)
  <2>1. (m \in ByRow => q.cols = p.cols /\ q.rows[i] = p.rows[i]) /\ (m \in ByColumn => q.cols[i] = p.cols[i])
    BY DEF SeenAlike
  <2>2. IsAdmissible(m, q, i) = IsAdmissible(m, p, i)
    BY <2>1, SameView
  <2> QED BY <2>2
<1>3. CASE m = "constraint"
  BY <1>0, <1>1, <1>2, <1>3, ConstraintLightens
<1>4. CASE m = "coefficient"
  BY <1>0, <1>1, <1>2, <1>4, CoefficientLightens
<1>5. CASE m = "side"
  BY <1>0, <1>1, <1>2, <1>5, SideLightens
<1>6. CASE m = "consround"
  BY <1>0, <1>1, <1>2, <1>6, ConsroundLightens
<1>7. CASE m = "variable"
  BY <1>0, <1>1, <1>2, <1>7, VariableLightens
<1>8. CASE m = "objective"
  BY <1>0, <1>1, <1>2, <1>8, ObjectiveLightens
<1>9. CASE m = "varround"
  BY <1>0, <1>1, <1>2, <1>9, VarroundLightens
<1> QED BY <1>0, <1>3, <1>4, <1>5, <1>6, <1>7, <1>8, <1>9

(***************************************************************************)
(* The next visit makes what is settled lighter if it finds something to   *)
(* do.                                                                     *)
(***************************************************************************)
LEMMA ScanLightens ==
  ASSUME Exact, IInv, copy = Replay(problem, Join(applied, Bare(batches))),
         position < Length(modifier), solution.status = "feasible" => Agrees(Settled),
         NEW i, i = Visited(position + 1), IsAdmissible(modifier, copy, i)
  PROVE  Lighter(Weight(Replay(Settled, Edits(modifier, copy, i))), Weight(Settled))
<1> DEFINE V == VisitedSoFar
<1>1. /\ modifier \in ByRow \cup ByColumn /\ Fits(problem) /\ Fits(Settled)
      /\ VariantOf(modifier, Settled, problem, V) /\ VariantOf(modifier, copy, problem, V)
      /\ V \in SUBSET Reach(modifier, problem)
  BY SettledFits, Running, VisitedReach DEF EditsFor
<1>2. /\ modifier # "fixing" => SeenAlike(modifier, copy, Settled, i)
      /\ modifier \in ByRow => i \in Rows(Settled)
      /\ modifier \in ByColumn => i \in Columns(Settled)
  BY VisitSees
<1>3. CASE modifier # "fixing"
  <2> DEFINE q == Settled
             m == modifier
             p == copy
  <2> HIDE DEF q, m, p
  <2>1. Lighter(Weight(Replay(q, Edits(m, p, i))), Weight(q))
    BY <1>1, <1>2, <1>3, VisitLightens DEF q, m, p
  <2> QED BY <2>1 DEF q, m, p
<1>4. CASE modifier = "fixing"
  <2> DEFINE q == Settled
             e == Edits("fixing", copy, i)
             I == {i}
             C == Columns(problem)
  <2>1. ScannedEdits(i) = e
    BY <1>4 DEF ScannedEdits
  <2>2. /\ e \in EditsOf("fixing", problem, I)
        /\ i \in C /\ V \subseteq C
    <3>1. e \in EditsOf("fixing", problem, I) /\ V \cup {i} \in SUBSET Reach("fixing", problem)
      BY <1>4, <2>1, VisitMade
    <3> QED BY <3>1 DEF Reach, ByRow
  <2>3. WellFormed(problem)
    BY <1>1 DEF Fits
  <2>4. IsVariant(copy, problem, Rows(problem), V) /\ IsVariant(q, problem, Rows(problem), V)
    BY <1>1, <1>4 DEF VariantOf, RowsWith, ColumnsWith, ByRow
  <2>5. IsVariant(q, problem, Rows(problem), C)
    BY <2>2, <2>4 DEF IsVariant
  <2>6. e.fixed = << i >>
    <3> HIDE DEF V
    <3> QED BY <1>1, <2>2, <2>4, FixingTyped
  <2>7. ~ Fixed(q, i)
    <3>1. ~ Fixed(copy, i) /\ copy.cols = q.cols
      BY <1>4, CopySettled DEF IsAdmissible, IsFixingAdmissible, Closed
    <3> QED BY <3>1 DEF Fixed
  <2> HIDE DEF q, e, I, C, V
  <2>8. e \in EditsOf("fixing", problem, C)
    <3>1. I \subseteq C /\ "fixing" \in ByRow \cup ByColumn
      BY <2>2 DEF I, ByColumn
    <3> QED BY <2>2, <3>1, MoreEdits
  <2>9. Lighter(Weight(Replay(q, e)), Weight(q))
    BY <2>2, <2>3, <2>5, <2>6, <2>7, <2>8, FixingLightens DEF C
  <2> QED BY <1>4, <2>9 DEF q, e
<1> QED BY <1>3, <1>4

-------------------------------------------------------------------------------
(* Edits, if there are any, make a problem lighter than the one edited.    *)
LighterBy(e, w, p) == e # NoEdits => Lighter(Weight(w), Weight(p))

ShrinkInv ==
  /\ LighterBy(applied, confirmed, problem)
  /\ LighterBy(Join(applied, batches), Settled, problem)

(* What is settled becomes no heavier when a modifier scans ...            *)
LEMMA ScanShrinks ==
  ASSUME Exact, IInv, ReplayInv, ShrinkInv, solution.status = "feasible" => ShownInv, Scan, IInv'
  PROVE  ShrinkInv'
<1> DEFINE i   == Visited(position + 1)
           e   == ScannedEdits(i)
           all == Join(batches, e)
           w   == Replay(Settled, e)
<1>1. /\ pc = "scan" /\ batches' = all
      /\ UNCHANGED <<modifier, solution, problem, applied, confirmed>>
  BY DEF Scan, ScannedEdits
<1>2. position < Length(modifier)
  BY <1>1, Running DEF PositionOf
<1>3. copy = Replay(problem, Join(applied, Bare(batches)))
  BY <1>1 DEF ReplayInv, Pending, Bare
<1>4. solution.status = "feasible" => Agrees(Settled)
  <2> SUFFICES ASSUME solution.status = "feasible"  PROVE Agrees(Settled)
    OBVIOUS
  <2>1. Known /\ Shown(Settled, solution)
    BY DEF Known, ShownInv
  <2> QED BY <2>1, ShownAgrees
<1>5. Settled' = w
  <2>1. Settled' = Replay(problem, Join(applied, all))
    BY <1>1 DEF Settled
  <2> HIDE DEF i
  <2>2. Replay(problem, Join(applied, all)) = w
    BY <1>2, SettledVisit DEF Exact, i
  <2> QED BY <2>1, <2>2
<1>6. CASE ~ IsAdmissible(modifier, copy, i)
  <2>1. e = NoEdits
    BY <1>6 DEF ScannedEdits
  <2>2. all = batches
    <3>1. batches \in EditsOf(modifier, problem, VisitedSoFar)
      BY Running DEF EditsFor
    <3>2. Join(batches, NoEdits) = batches
      BY <3>1, JoinAlgebra DEF EditsOf
    <3> QED BY <2>1, <3>2
  <2>3. w = Settled
    BY <2>1, NothingReplayed
  <2> HIDE DEF all, w
  <2> QED BY <1>1, <1>5, <2>2, <2>3 DEF ShrinkInv
<1>7. CASE IsAdmissible(modifier, copy, i)
  <2>1. e = Edits(modifier, copy, i)
    BY <1>7 DEF ScannedEdits
  <2>2. Lighter(Weight(w), Weight(Settled))
    <3> HIDE DEF i
    <3> QED BY <1>2, <1>3, <1>4, <1>7, <2>1, ScanLightens DEF i
  <2>3. WellFormed(problem) /\ WellFormed(Settled)
    BY SettledFits DEF Fits
  <2>4. WellFormed(w)
    <3>1. Fits(Settled)'
      BY SettledFits, PTL
    <3> QED BY <1>5, <3>1 DEF Fits
  <2>5. Lighter(Weight(w), Weight(problem))
    <3>1. CASE Join(applied, batches) = NoEdits
      BY <2>2, <3>1, NothingReplayed DEF Settled
    <3>2. CASE Join(applied, batches) # NoEdits
      <4> DEFINE x == Weight(w)
                 y == Weight(Settled)
                 z == Weight(problem)
      <4>1. Weighs(y) /\ Weighs(z)
        BY <2>3, WeightNumbers
      <4>2. Weighs(x)
        <5> HIDE DEF w
        <5> QED BY <2>4, WeightNumbers
      <4>3. Lighter(x, y) /\ Lighter(y, z)
        BY <2>2, <3>2 DEF ShrinkInv, LighterBy
      <4> HIDE DEF x, y, z
      <4>4. Lighter(x, z)
        BY <4>1, <4>2, <4>3, LighterTransitive
      <4> QED BY <4>4 DEF x, z
    <3> QED BY <3>1, <3>2
  <2> HIDE DEF all, w
  <2> QED BY <1>1, <1>5, <2>5 DEF ShrinkInv, LighterBy
<1> QED BY <1>6, <1>7

(* ... when it has been solved ...                                         *)
LEMMA ResumeShrinks ==
  ASSUME IInv, ReplayInv, ShrinkInv, Reject \/ Accept
  PROVE  ShrinkInv'
<1>1. /\ pc = "solve" /\ batches' = NoEdits /\ UNCHANGED problem
  BY DEF Reject, Accept, Resume
<1>2. copy = Settled /\ confirmed = Replay(problem, applied)
  BY <1>1 DEF ReplayInv, Pending, Settled
<1>3. CASE Reject
  <2>1. UNCHANGED <<applied, confirmed>>
    BY <1>3 DEF Reject
  <2>2. Join(applied, NoEdits) = applied
    BY NothingPending
  <2>3. Settled' = confirmed
    BY <1>1, <1>2, <2>1, <2>2 DEF Settled
  <2>4. Join(applied, batches)' = applied
    BY <1>1, <2>1, <2>2
  <2> QED BY <1>1, <2>1, <2>3, <2>4 DEF ShrinkInv
<1>4. CASE Accept
  <2>1. applied' = Join(applied, batches) /\ confirmed' = copy
    BY <1>4 DEF Accept
  <2>2. Join(Join(applied, batches), NoEdits) = Join(applied, batches)
    BY NothingPending
  <2>3. Settled' = Settled
    <3>1. Settled' = Replay(problem, Join(Join(applied, batches), NoEdits))
      BY <1>1, <2>1 DEF Settled
    <3> QED BY <2>2, <3>1 DEF Settled
  <2>4. Join(applied, batches)' = Join(applied, batches)
    BY <1>1, <2>1, <2>2
  <2> QED BY <1>1, <1>2, <2>1, <2>3, <2>4 DEF ShrinkInv
<1> QED BY <1>3, <1>4

(* ... and handed back.                                                    *)
LEMMA NextShrinks ==
  ASSUME Exact, IInv, ReplayInv, ShrinkInv, solution.status = "feasible" => ShownInv, [Next]_vars, IInv'
  PROVE  ShrinkInv'
<1>1. CASE Start \/ Skip \/ UNCHANGED vars
  <2>1. UNCHANGED <<problem, applied, batches, confirmed>>
    <3>1. CASE Start
      BY <3>1, Zenon DEF Start
    <3>2. CASE Skip \/ UNCHANGED vars
      BY <3>2 DEF Skip, vars
    <3> QED BY <1>1, <3>1, <3>2
  <2>2. Settled' = Settled /\ Join(applied, batches)' = Join(applied, batches)
    BY <2>1 DEF Settled
  <2> QED BY <2>1, <2>2 DEF ShrinkInv
<1>2. CASE Finish
  <2>1. pc = "finish" /\ applied' = NoEdits /\ UNCHANGED batches
    BY <1>2 DEF Finish
  <2>2. batches = NoEdits
    BY <2>1, Running DEF PositionOf
  <2>3. Join(applied, batches)' = NoEdits
    BY <2>1, <2>2, NothingEdited
  <2> QED BY <2>1, <2>3 DEF ShrinkInv, LighterBy
<1>3. CASE Scan
  BY <1>3, ScanShrinks
<1>4. CASE Reject \/ Accept
  BY <1>4, ResumeShrinks
<1> QED BY <1>1, <1>2, <1>3, <1>4 DEF Next

(* A reference that is feasible is true of the problem that is read.       *)
TrueIfFeasible ==
  solution.status = "feasible" => IsTrueOf(problem) /\ Substituted(problem)

(***************************************************************************)
(* With exact numbers a modifier that reports success hands back a problem *)
(* that is lighter, for every modifier and for every batch size: so the    *)
(* passes that follow each other come to an end.  The hypothesis is what   *)
(* the reference is for; without it the rounding of bounds that are the    *)
(* wrong way round would open them.                                        *)
(***************************************************************************)
THEOREM EverySuccessLightens ==
  ASSUME Zeta = 0, Epsilon = 0
  PROVE  Spec /\ TrueIfFeasible => EverySuccessShrinks
<1> DEFINE If  == solution.status = "feasible" => ShownInv
           Inv == IInv /\ ReplayInv /\ If /\ ShrinkInv
<1>1. Exact
  BY DEF Exact
<1>2. Init /\ TrueIfFeasible => Inv
  <2> SUFFICES ASSUME Init, TrueIfFeasible  PROVE Inv
    OBVIOUS
  <2>1. /\ copy = problem /\ confirmed = problem /\ pc = "idle"
        /\ applied = NoEdits /\ batches = NoEdits
    BY DEF Init
  <2>2. Pending = NoEdits /\ Join(NoEdits, NoEdits) = NoEdits
    BY <2>1, NothingReplayed, NothingEdited DEF Pending, Bare
  <2>3. ReplayInv /\ Settled = problem
    BY <2>1, <2>2, NothingReplayed DEF ReplayInv, Settled
  <2>4. ASSUME solution.status = "feasible"  PROVE ShownInv
    <3>1. NoEdits.entries = << >> /\ \A cols : FixedAlready(<< >>, cols)
      BY DEF NoEdits, FixedAlready
    <3>2. Shown(problem, solution)
      BY <2>4, ShownIsTrue DEF TrueIfFeasible, Known
    <3> QED BY <2>1, <2>3, <3>1, <3>2 DEF ShownInv
  <2>5. ShrinkInv
    BY <2>1, <2>2 DEF ShrinkInv, LighterBy
  <2> QED BY <2>3, <2>4, <2>5, Initially
<1>3. Inv /\ [Next]_vars => Inv'
  <2> SUFFICES ASSUME Inv, [Next]_vars  PROVE Inv'
    OBVIOUS
  <2>1. IInv'
    BY SkipKeeps, StartKeeps, ScanKeeps, RejectKeeps, AcceptKeeps, FinishKeeps, StutterKeeps
       DEF Next
  <2>2. ReplayInv'
    BY NextReplays
  <2>3. solution' = solution
    BY DEF Next, Skip, Start, Scan, Reject, Accept, Resume, Finish, vars
  <2>4. ASSUME solution.status = "feasible"  PROVE ShownInv'
    BY <1>1, <2>1, <2>2, <2>4, NextShows
  <2>5. ShrinkInv'
    BY <1>1, <2>1, NextShrinks
  <2> QED BY <2>1, <2>2, <2>3, <2>4, <2>5
<1>4. Inv /\ [Next]_vars =>
        [status' = "Successful" /\ pc = "finish" => Lighter(Weight(problem'), Weight(problem))]_vars
  <2> SUFFICES ASSUME Inv, [Next]_vars, ~ UNCHANGED vars, pc = "finish", status' = "Successful"
               PROVE  Lighter(Weight(problem'), Weight(problem))
    OBVIOUS
  <2>1. Finish
    BY DEF Next, Skip, Start, Scan, Reject, Accept, Resume
  <2>2. Succeeds /\ problem' = copy
    BY <2>1 DEF Finish
  <2>3. applied # NoEdits
    <3>1. NoEdits.entries = << >>
      BY DEF NoEdits
    <3> QED BY <2>2, <3>1 DEF Succeeds
  <2>4. batches = NoEdits
    BY <2>1, Running DEF Finish, PositionOf
  <2>5. copy = Settled /\ Join(applied, batches) = applied
    <3>1. Pending = NoEdits
      BY <2>1, <2>4, NothingReplayed DEF Pending, Bare
    <3> QED BY <2>4, <3>1, NothingPending DEF ReplayInv, Settled
  <2> QED BY <2>2, <2>3, <2>5 DEF ShrinkInv, LighterBy
<1> HIDE DEF Inv
<1> QED BY <1>2, <1>3, <1>4, PTL DEF Spec, EverySuccessShrinks
===============================================================================
