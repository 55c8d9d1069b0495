------------------------------ MODULE FoldLemmas -------------------------------
(***************************************************************************)
(* Folds, as the community modules define them: an element is picked, the  *)
(* others are folded, and it is added to the result.  The operations are   *)
(* constants, so that a module states what its own folds do by INSTANCE.   *)
(***************************************************************************)
EXTENDS Integers, Sequences, FiniteSetTheorems, WellFoundedInduction, TLAPS

CONSTANTS
  Op(_, _),    \* a result and an element to the next result
  Pick(_)      \* the element of a set that is added last

FoldStep(b, f, g, T) == IF T = {} THEN b ELSE Op(g[T \ {Pick(T)}], f[Pick(T)])

IsFold(g, b, f, S) == g = [T \in SUBSET S |-> FoldStep(b, f, g, T)]

Fold(b, f, S) == (CHOOSE g : IsFold(g, b, f, S))[S]

Picks(S) == \A T \in SUBSET S : T # {} => Pick(T) \in T

-------------------------------------------------------------------------------
(* A nonempty set of naturals has a least element.                         *)
LEMMA LeastNatural ==
  ASSUME NEW N \in SUBSET Nat, N # {}
  PROVE  \E n \in N : \A m \in N : n <= m
<1>1. \E n \in N : \A m \in N : ~ (<<m, n>> \in OpToRel(<, Nat))
  BY NatLessThanWellFounded, WFMin
<1>2. PICK n \in N : \A m \in N : ~ (<<m, n>> \in OpToRel(<, Nat))
  BY <1>1
<1>3. ASSUME NEW m \in N  PROVE n <= m
  <2>1. <<m, n>> \in Nat \X Nat /\ <<m, n>>[1] = m /\ <<m, n>>[2] = n
    OBVIOUS
  <2>2. ~ (m < n)
    BY <1>2, <2>1 DEF OpToRel
  <2> QED BY <2>2
<1> QED BY <1>3

(* A nonempty set of finite sets has one of the fewest elements.           *)
LEMMA SmallestSet ==
  ASSUME NEW S, IsFiniteSet(S), NEW B \in SUBSET SUBSET S, B # {}
  PROVE  \E T \in B : \A U \in B : Cardinality(T) <= Cardinality(U)
<1> DEFINE N == {Cardinality(T) : T \in B}
<1>1. N \in SUBSET Nat /\ N # {}
  BY FS_Subset, FS_CardinalityType
<1>2. PICK n \in N : \A m \in N : n <= m
  BY <1>1, LeastNatural
<1> QED BY <1>2

(* What is picked leaves a smaller set.                                    *)
LEMMA PickedOut ==
  ASSUME NEW S, IsFiniteSet(S), Picks(S), NEW T \in SUBSET S, T # {}
  PROVE  /\ Pick(T) \in T
         /\ T \ {Pick(T)} \in SUBSET S
         /\ IsFiniteSet(T) /\ Cardinality(T) \in Nat
         /\ Cardinality(T \ {Pick(T)}) = Cardinality(T) - 1
<1>1. Pick(T) \in T
  BY DEF Picks
<1>2. IsFiniteSet(T) /\ Cardinality(T) \in Nat
  BY FS_Subset, FS_CardinalityType
<1> QED BY <1>1, <1>2, FS_RemoveElement

(* The folds over the subsets of at most n elements.                       *)
SubsetsUpTo(S, n) == {T \in SUBSET S : Cardinality(T) <= n}

FoldsUpTo(g, b, f, S, n) ==
  \A T \in SubsetsUpTo(S, n) : g[T] = FoldStep(b, f, g, T)

(* From the subsets of n elements to those of n + 1.                       *)
LEMMA NextLevel ==
  ASSUME NEW S, IsFiniteSet(S), Picks(S), NEW b, NEW f, NEW n \in Nat, NEW g,
         FoldsUpTo(g, b, f, S, n)
  PROVE  \E h : FoldsUpTo(h, b, f, S, n + 1)
<1> DEFINE h == [T \in SubsetsUpTo(S, n + 1) |-> FoldStep(b, f, g, T)]
<1>1. ASSUME NEW T \in SubsetsUpTo(S, n + 1), T # {}
      PROVE  T \ {Pick(T)} \in SubsetsUpTo(S, n)
  <2>1. T \in SUBSET S /\ Cardinality(T) <= n + 1
    BY DEF SubsetsUpTo
  <2>2. /\ T \ {Pick(T)} \in SUBSET S /\ Cardinality(T) \in Nat
        /\ Cardinality(T \ {Pick(T)}) = Cardinality(T) - 1
    BY <1>1, <2>1, PickedOut
  <2>3. Cardinality(T \ {Pick(T)}) <= n
    BY <2>1, <2>2
  <2> QED BY <2>2, <2>3 DEF SubsetsUpTo
<1>2. ASSUME NEW T \in SubsetsUpTo(S, n)  PROVE h[T] = g[T]
  <2>1. Cardinality(T) \in Nat
    BY FS_Subset, FS_CardinalityType DEF SubsetsUpTo
  <2>2. T \in SubsetsUpTo(S, n + 1)
    BY <2>1 DEF SubsetsUpTo
  <2>3. h[T] = FoldStep(b, f, g, T)
    BY <2>2
  <2> HIDE DEF h
  <2> QED BY <2>3 DEF FoldsUpTo
<1>3. ASSUME NEW T \in SubsetsUpTo(S, n + 1)  PROVE h[T] = FoldStep(b, f, h, T)
  <2>1. h[T] = FoldStep(b, f, g, T)
    OBVIOUS
  <2> HIDE DEF h
  <2>2. CASE T = {}
    BY <2>1, <2>2 DEF FoldStep
  <2>3. CASE T # {}
    <3>1. h[T \ {Pick(T)}] = g[T \ {Pick(T)}]
      BY <1>1, <1>2, <2>3
    <3> QED BY <2>1, <2>3, <3>1 DEF FoldStep
  <2> QED BY <2>2, <2>3
<1> HIDE DEF h
<1> QED BY <1>3 DEF FoldsUpTo

(* Hence for every n, by the least n for which there would be none.        *)
LEMMA EveryLevel ==
  ASSUME NEW S, IsFiniteSet(S), Picks(S), NEW b, NEW f
  PROVE  \A n \in Nat : \E g : FoldsUpTo(g, b, f, S, n)
<1> DEFINE Bad == {n \in Nat : ~ \E g : FoldsUpTo(g, b, f, S, n)}
<1>1. 0 \notin Bad
  <2> DEFINE g == [T \in SubsetsUpTo(S, 0) |-> b]
  <2>1. ASSUME NEW T \in SubsetsUpTo(S, 0)  PROVE T = {}
    <3>1. IsFiniteSet(T) /\ Cardinality(T) \in Nat /\ Cardinality(T) <= 0
      BY FS_Subset, FS_CardinalityType DEF SubsetsUpTo
    <3>2. Cardinality(T) = 0
      BY <3>1
    <3> QED BY <3>1, <3>2, FS_EmptySet
  <2>2. FoldsUpTo(g, b, f, S, 0)
    BY <2>1 DEF FoldsUpTo, FoldStep
  <2> QED BY <2>2
<1>2. ASSUME Bad # {}  PROVE FALSE
  <2>1. PICK n \in Bad : \A m \in Bad : n <= m
    BY <1>2, LeastNatural
  <2>2. n # 0 /\ n \in Nat
    BY <1>1, <2>1
  <2>3. n - 1 \in Nat /\ (n - 1) + 1 = n /\ ~ (n <= n - 1)
    BY <2>2
  <2>4. n - 1 \notin Bad
    BY <2>1, <2>3
  <2>5. PICK g : FoldsUpTo(g, b, f, S, n - 1)
    BY <2>3, <2>4
  <2>6. \E h : FoldsUpTo(h, b, f, S, (n - 1) + 1)
    BY <2>3, <2>5, NextLevel
  <2> QED BY <2>1, <2>3, <2>6
<1> QED BY <1>2

(* A finite set has a fold.                                                *)
LEMMA FoldExists ==
  ASSUME NEW S, IsFiniteSet(S), Picks(S), NEW b, NEW f
  PROVE  \E g : IsFold(g, b, f, S)
<1>1. Cardinality(S) \in Nat
  BY FS_CardinalityType
<1>2. PICK g : FoldsUpTo(g, b, f, S, Cardinality(S))
  BY <1>1, EveryLevel
<1>3. SubsetsUpTo(S, Cardinality(S)) = SUBSET S
  BY FS_Subset DEF SubsetsUpTo
<1>4. \A T \in SUBSET S : g[T] = FoldStep(b, f, g, T)
  BY <1>2, <1>3 DEF FoldsUpTo
<1> DEFINE h == [T \in SUBSET S |-> g[T]]
<1>5. ASSUME NEW T \in SUBSET S  PROVE h[T] = FoldStep(b, f, h, T)
  <2>1. CASE T = {}
    BY <1>4, <2>1 DEF FoldStep
  <2>2. CASE T # {}
    <3>1. h[T] = g[T] /\ h[T \ {Pick(T)}] = g[T \ {Pick(T)}]
      OBVIOUS
    <3>2. g[T] = Op(g[T \ {Pick(T)}], f[Pick(T)])
      BY <1>4, <2>2 DEF FoldStep
    <3> HIDE DEF h
    <3> QED BY <2>2, <3>1, <3>2 DEF FoldStep
  <2> QED BY <2>1, <2>2
<1>6. h = [T \in SUBSET S |-> FoldStep(b, f, h, T)]
  <2>1. h = [T \in SUBSET S |-> h[T]]
    OBVIOUS
  <2> HIDE DEF h
  <2> QED BY <1>5, <2>1
<1> HIDE DEF h
<1> QED BY <1>6 DEF IsFold

-------------------------------------------------------------------------------
Unfolds(g, b, f, S) == \A T \in SUBSET S : g[T] = FoldStep(b, f, g, T)

(* Two recursions over the same elements give the same results.            *)
LEMMA FoldsAgree ==
  ASSUME NEW S, IsFiniteSet(S), Picks(S), NEW b, NEW f, NEW e, NEW g, NEW h,
         \A x \in S : f[x] = e[x],
         Unfolds(g, b, f, S),
         Unfolds(h, b, e, S)
  PROVE  \A T \in SUBSET S : g[T] = h[T]
<1> DEFINE Bad == {T \in SUBSET S : g[T] # h[T]}
<1>1. ASSUME Bad # {}  PROVE FALSE
  <2>1. PICK T \in Bad : \A U \in Bad : Cardinality(T) <= Cardinality(U)
    BY <1>1, SmallestSet
  <2>2. T # {}
    BY <2>1 DEF FoldStep, Unfolds
  <2>3. /\ Pick(T) \in T /\ T \ {Pick(T)} \in SUBSET S
        /\ Cardinality(T) \in Nat
        /\ Cardinality(T \ {Pick(T)}) = Cardinality(T) - 1
    BY <2>1, <2>2, PickedOut
  <2>4. ~ (Cardinality(T) <= Cardinality(T \ {Pick(T)}))
    BY <2>3
  <2>5. g[T \ {Pick(T)}] = h[T \ {Pick(T)}]
    BY <2>1, <2>3, <2>4
  <2>6. f[Pick(T)] = e[Pick(T)]
    BY <2>1, <2>3
  <2>7. g[T] = Op(g[T \ {Pick(T)}], f[Pick(T)]) /\ h[T] = Op(h[T \ {Pick(T)}], e[Pick(T)])
    BY <2>1, <2>2 DEF FoldStep, Unfolds
  <2> QED BY <2>1, <2>5, <2>6, <2>7
<1> QED BY <1>1

(* The fold that is chosen satisfies the equation of folds.                *)
LEMMA FoldUnfolds ==
  ASSUME NEW S, IsFiniteSet(S), Picks(S), NEW b, NEW f
  PROVE  \E g : /\ Unfolds(g, b, f, S)
                /\ Fold(b, f, S) = g[S]
<1> DEFINE g == CHOOSE g : IsFold(g, b, f, S)
<1>1. IsFold(g, b, f, S)
  BY FoldExists
<1>2. Fold(b, f, S) = g[S]
  BY DEF Fold
<1> HIDE DEF g
<1>3. Unfolds(g, b, f, S)
  BY <1>1 DEF IsFold, Unfolds
<1> QED BY <1>2, <1>3

(* Equal elements make equal folds.                                        *)
LEMMA FoldDepends ==
  ASSUME NEW S, IsFiniteSet(S), Picks(S), NEW b, NEW f, NEW e,
         \A x \in S : f[x] = e[x]
  PROVE  Fold(b, f, S) = Fold(b, e, S)
<1>1. PICK g : /\ Unfolds(g, b, f, S)
               /\ Fold(b, f, S) = g[S]
  BY FoldUnfolds
<1>2. PICK h : /\ Unfolds(h, b, e, S)
               /\ Fold(b, e, S) = h[S]
  BY FoldUnfolds
<1>3. \A T \in SUBSET S : g[T] = h[T]
  BY <1>1, <1>2, FoldsAgree
<1> QED BY <1>1, <1>2, <1>3

(* Folding nothing gives the start.                                        *)
LEMMA FoldEmpty ==
  ASSUME NEW b, NEW f
  PROVE  Fold(b, f, {}) = b
<1>1. IsFiniteSet({}) /\ Picks({})
  BY FS_EmptySet DEF Picks
<1>2. PICK g : /\ Unfolds(g, b, f, {})
               /\ Fold(b, f, {}) = g[{}]
  BY <1>1, FoldUnfolds
<1> QED BY <1>2 DEF FoldStep, Unfolds

(* The element picked from the whole set comes last.                       *)
LEMMA FoldLast ==
  ASSUME NEW S, IsFiniteSet(S), Picks(S), S # {}, NEW b, NEW f
  PROVE  Fold(b, f, S) = Op(Fold(b, f, S \ {Pick(S)}), f[Pick(S)])
<1> DEFINE R == S \ {Pick(S)}
<1>1. R \in SUBSET S /\ IsFiniteSet(R) /\ Picks(R)
  BY FS_Subset DEF Picks
<1>2. PICK g : /\ Unfolds(g, b, f, S)
               /\ Fold(b, f, S) = g[S]
  BY FoldUnfolds
<1>3. PICK h : /\ Unfolds(h, b, f, R)
               /\ Fold(b, f, R) = h[R]
  BY <1>1, FoldUnfolds
<1>4. Unfolds(g, b, f, R)
  BY <1>1, <1>2 DEF Unfolds
<1>5. \A T \in SUBSET R : g[T] = h[T]
  BY <1>1, <1>3, <1>4, FoldsAgree
<1>6. g[S] = Op(g[R], f[Pick(S)])
  BY <1>2 DEF FoldStep, Unfolds
<1> QED BY <1>2, <1>3, <1>5, <1>6

(* What holds of the start and is kept by every element holds of the fold. *)
LEMMA FoldKeeps ==
  ASSUME NEW S, IsFiniteSet(S), Picks(S), NEW f, NEW V, NEW b \in V,
         \A v \in V : \A x \in S : Op(v, f[x]) \in V
  PROVE  Fold(b, f, S) \in V
<1>1. PICK g : /\ Unfolds(g, b, f, S)
               /\ Fold(b, f, S) = g[S]
  BY FoldUnfolds
<1> DEFINE Bad == {T \in SUBSET S : g[T] \notin V}
<1>2. ASSUME Bad # {}  PROVE FALSE
  <2>1. PICK T \in Bad : \A U \in Bad : Cardinality(T) <= Cardinality(U)
    BY <1>2, SmallestSet
  <2>2. T # {}
    BY <1>1, <2>1 DEF FoldStep, Unfolds
  <2>3. /\ Pick(T) \in T /\ T \ {Pick(T)} \in SUBSET S
        /\ Cardinality(T) \in Nat
        /\ Cardinality(T \ {Pick(T)}) = Cardinality(T) - 1
    BY <2>1, <2>2, PickedOut
  <2>4. ~ (Cardinality(T) <= Cardinality(T \ {Pick(T)}))
    BY <2>3
  <2>5. g[T \ {Pick(T)}] \in V
    BY <2>1, <2>3, <2>4
  <2>6. g[T] = Op(g[T \ {Pick(T)}], f[Pick(T)])
    BY <1>1, <2>1, <2>2 DEF FoldStep, Unfolds
  <2>7. g[T] \in V
    BY <2>1, <2>3, <2>5, <2>6
  <2> QED BY <2>1, <2>7
<1> QED BY <1>1, <1>2

-------------------------------------------------------------------------------
(* Over sequences, whose elements are taken from the last to the first.    *)
TakesLast == \A n \in Nat : Picks(1..n) /\ (n > 0 => Pick(1..n) = n)

Over(b, q) == Fold(b, q, DOMAIN q)

(* The empty sequence gives the start.                                     *)
LEMMA OverEmpty ==
  ASSUME NEW b
  PROVE  Over(b, << >>) = b
BY FoldEmpty DEF Over

(* One more element is added to the result.                                *)
LEMMA OverAppend ==
  ASSUME TakesLast, NEW U, NEW q \in Seq(U), NEW t \in U, NEW b
  PROVE  Over(b, Append(q, t)) = Op(Over(b, q), t)
<1> DEFINE n == Len(q)
           r == Append(q, t)
<1>1. /\ n \in Nat /\ DOMAIN q = 1..n /\ DOMAIN r = 1..n + 1
      /\ r[n + 1] = t /\ \A k \in 1..n : r[k] = q[k]
  OBVIOUS
<1> HIDE DEF r, n
<1>2. /\ IsFiniteSet(1..n) /\ IsFiniteSet(1..n + 1)
      /\ Picks(1..n) /\ Picks(1..n + 1) /\ Pick(1..n + 1) = n + 1
  BY <1>1, FS_Interval DEF TakesLast
<1>3. 1..n + 1 # {} /\ (1..n + 1) \ {n + 1} = 1..n
  BY <1>1
<1>4. Fold(b, r, 1..n + 1) = Op(Fold(b, r, 1..n), t)
  BY <1>1, <1>2, <1>3, FoldLast
<1>5. Fold(b, r, 1..n) = Fold(b, q, 1..n)
  BY <1>1, <1>2, FoldDepends
<1> QED BY <1>1, <1>4, <1>5 DEF Over, r

(* Induction on sequences: what can go wrong goes wrong for a shortest     *)
(* one, which is not empty and has an element more than another.           *)
LEMMA NoShortest ==
  ASSUME NEW U, NEW B \in SUBSET Seq(U), << >> \notin B,
         \A s \in Seq(U) : \A t \in U : s \notin B => Append(s, t) \notin B
  PROVE  B = {}
<1> DEFINE N == {Len(s) : s \in B}
<1>1. ASSUME B # {}  PROVE FALSE
  <2>1. N \in SUBSET Nat /\ N # {}
    <3>1. ASSUME NEW s \in B  PROVE Len(s) \in Nat
      <4>1. s \in Seq(U)
        OBVIOUS
      <4> QED BY <4>1
    <3>2. N # {}
      BY <1>1
    <3> QED BY <3>1, <3>2
  <2>2. PICK n \in N : \A m \in N : n <= m
    BY <2>1, LeastNatural
  <2>3. PICK s \in B : Len(s) = n
    BY <2>2
  <2>4. s # << >> /\ s \in Seq(U)
    BY <2>3
  <2>5. PICK r \in Seq(U), t \in U : s = Append(r, t)
    <3> DEFINE r == [k \in 1..Len(s) - 1 |-> s[k]]
    <3>1. Len(s) \in Nat \ {0}
      BY <2>4
    <3>2. r \in Seq(U) /\ s[Len(s)] \in U
      BY <2>4, <3>1
    <3>3. s = Append(r, s[Len(s)])
      BY <2>4, <3>1
    <3> QED BY <3>2, <3>3
  <2>6. Len(r) < n /\ Len(r) \in Nat
    BY <2>3, <2>5
  <2>7. r \in B
    BY <2>3, <2>5
  <2> QED BY <2>1, <2>2, <2>6, <2>7
<1> QED BY <1>1

(* What every element keeps holds after the sequence.                      *)
LEMMA OverKeeps ==
  ASSUME TakesLast, NEW U, NEW q \in Seq(U), NEW V, NEW b \in V,
         \A v \in V : \A t \in U : Op(v, t) \in V
  PROVE  Over(b, q) \in V
<1> DEFINE B == {s \in Seq(U) : Over(b, s) \notin V}
<1>1. << >> \notin B
  BY OverEmpty
<1>2. ASSUME NEW s \in Seq(U), NEW t \in U, s \notin B
      PROVE  Append(s, t) \notin B
  <2>1. Over(b, Append(s, t)) = Op(Over(b, s), t)
    BY OverAppend
  <2> QED BY <1>2, <2>1
<1>3. B = {}
  BY <1>1, <1>2, NoShortest
<1> QED BY <1>3

(* A part after another. *)
LEMMA OverSplit ==
  ASSUME TakesLast, NEW U, NEW q \in Seq(U), NEW r \in Seq(U), NEW b
  PROVE  Over(b, q \o r) = Over(Over(b, q), r)
<1> DEFINE B == {s \in Seq(U) : Over(b, q \o s) # Over(Over(b, q), s)}
<1>1. << >> \notin B
  <2>1. q \o << >> = q
    OBVIOUS
  <2> QED BY <2>1, OverEmpty
<1>2. ASSUME NEW s \in Seq(U), NEW t \in U, s \notin B
      PROVE  Append(s, t) \notin B
  <2>1. q \o Append(s, t) = Append(q \o s, t) /\ q \o s \in Seq(U)
    OBVIOUS
  <2>2. Over(b, Append(q \o s, t)) = Op(Over(b, q \o s), t)
    BY <2>1, OverAppend
  <2>3. Over(Over(b, q), Append(s, t)) = Op(Over(Over(b, q), s), t)
    BY OverAppend
  <2> QED BY <1>2, <2>1, <2>2, <2>3
<1>3. B = {}
  BY <1>1, <1>2, NoShortest
<1> QED BY <1>3

(* An element that commutes with all of a sequence goes past it.           *)
LEMMA OverPast ==
  ASSUME TakesLast, NEW U, NEW q \in Seq(U), NEW V, NEW b \in V, NEW t,
         \A v \in V : Op(v, t) \in V,
         \A v \in V : \A u \in U : Op(v, u) \in V,
         \A v \in V : \A u \in U : Op(Op(v, t), u) = Op(Op(v, u), t)
  PROVE  Over(Op(b, t), q) = Op(Over(b, q), t)
<1> DEFINE B == {s \in Seq(U) : Over(Op(b, t), s) # Op(Over(b, s), t)}
<1>1. << >> \notin B
  BY OverEmpty
<1>2. ASSUME NEW s \in Seq(U), NEW u \in U, s \notin B
      PROVE  Append(s, u) \notin B
  <2>1. Over(Op(b, t), Append(s, u)) = Op(Over(Op(b, t), s), u)
    BY OverAppend
  <2>2. Over(b, Append(s, u)) = Op(Over(b, s), u)
    BY OverAppend
  <2>3. Over(b, s) \in V
    BY OverKeeps
  <2>4. Op(Op(Over(b, s), t), u) = Op(Op(Over(b, s), u), t)
    BY <2>3
  <2> QED BY <1>2, <2>1, <2>2, <2>4
<1>3. B = {}
  BY <1>1, <1>2, NoShortest
<1> QED BY <1>3

(* Two sequences whose elements commute change places.                     *)
LEMMA OverSwap ==
  ASSUME TakesLast, NEW T, NEW U, NEW q \in Seq(T), NEW r \in Seq(U), NEW V, NEW b \in V,
         \A v \in V : \A t \in T : Op(v, t) \in V,
         \A v \in V : \A u \in U : Op(v, u) \in V,
         \A v \in V : \A t \in T : \A u \in U : Op(Op(v, t), u) = Op(Op(v, u), t)
  PROVE  Over(Over(b, q), r) = Over(Over(b, r), q)
<1> DEFINE B == {s \in Seq(T) : Over(Over(b, s), r) # Over(Over(b, r), s)}
<1>1. << >> \notin B
  BY OverEmpty
<1>2. ASSUME NEW s \in Seq(T), NEW t \in T, s \notin B
      PROVE  Append(s, t) \notin B
  <2>1. Over(b, Append(s, t)) = Op(Over(b, s), t)
    BY OverAppend
  <2>2. Over(Over(b, r), Append(s, t)) = Op(Over(Over(b, r), s), t)
    BY OverAppend
  <2>3. Over(b, s) \in V
    BY OverKeeps
  <2>4. Over(Op(Over(b, s), t), r) = Op(Over(Over(b, s), r), t)
    BY <2>3, OverPast
  <2> QED BY <1>2, <2>1, <2>2, <2>4
<1>3. B = {}
  BY <1>1, <1>2, NoShortest
<1> QED BY <1>3

(* What holds after each element when it held before.                      *)
LEMMA OverReaches ==
  ASSUME TakesLast, NEW U, NEW q \in Seq(U), NEW G, NEW b \in G[0],
         \A k \in 1..Len(q) : \A v \in G[k - 1] : Op(v, q[k]) \in G[k]
  PROVE  Over(b, q) \in G[Len(q)]
<1> DEFINE Start(s) == Len(s) <= Len(q) /\ \A k \in 1..Len(s) : s[k] = q[k]
           B == {s \in Seq(U) : Start(s) /\ Over(b, s) \notin G[Len(s)]}
<1>1. << >> \notin B
  BY OverEmpty
<1>2. ASSUME NEW s \in Seq(U), NEW t \in U, s \notin B
      PROVE  Append(s, t) \notin B
  <2>1. SUFFICES ASSUME Start(Append(s, t))
                 PROVE  Over(b, Append(s, t)) \in G[Len(s) + 1]
    <3>1. Len(Append(s, t)) = Len(s) + 1
      OBVIOUS
    <3> HIDE DEF Start
    <3> QED BY <3>1
  <2>2. /\ Len(s) + 1 \in 1..Len(q) /\ q[Len(s) + 1] = t /\ Start(s)
        /\ (Len(s) + 1) - 1 = Len(s)
    BY <2>1
  <2>3. Over(b, s) \in G[Len(s)]
    BY <1>2, <2>2
  <2>4. Op(Over(b, s), t) \in G[Len(s) + 1]
    BY <2>2, <2>3
  <2> QED BY <2>4, OverAppend
<1>3. B = {}
  BY <1>1, <1>2, NoShortest
<1> QED BY <1>3

-------------------------------------------------------------------------------
(* What has no smallest counterexample among the subsets of a finite set   *)
(* holds for all of them.                                                  *)
LEMMA NoSmallest ==
  ASSUME NEW S, IsFiniteSet(S), NEW B \in SUBSET SUBSET S,
         \A T \in B : IsFiniteSet(T) => \E U \in B : Cardinality(U) < Cardinality(T)
  PROVE  B = {}
<1>1. ASSUME B # {}  PROVE FALSE
  <2>1. PICK T \in B : \A U \in B : Cardinality(T) <= Cardinality(U)
    BY <1>1, SmallestSet
  <2>2. IsFiniteSet(T)
    BY <2>1, FS_Subset
  <2>3. PICK U \in B : Cardinality(U) < Cardinality(T)
    BY <2>1, <2>2
  <2>4. IsFiniteSet(U) /\ Cardinality(U) \in Nat /\ Cardinality(T) \in Nat
    BY <2>2, <2>3, FS_Subset, FS_CardinalityType
  <2> QED BY <2>1, <2>3, <2>4
<1> QED BY <1>1

(* What is left of a finite set.                                           *)
LEMMA LessOne ==
  ASSUME NEW T, IsFiniteSet(T), NEW c \in T
  PROVE  /\ IsFiniteSet(T \ {c}) /\ Cardinality(T \ {c}) < Cardinality(T)
         /\ Cardinality(T) = Cardinality(T \ {c}) + 1 /\ Cardinality(T \ {c}) \in Nat
<1>1. IsFiniteSet(T \ {c}) /\ Cardinality(T \ {c}) = Cardinality(T) - 1
  BY FS_RemoveElement
<1>2. Cardinality(T) \in Nat /\ Cardinality(T \ {c}) \in Nat
  BY <1>1, FS_CardinalityType
<1> QED BY <1>1, <1>2

(* Folds that add integers.                                                *)
Adds == (\A x, t \in Int : Op(x, t) = t + x) /\ (\A T : T # {} => Pick(T) \in T)

Integers(f, S) == \A c \in S : f[c] \in Int

(* A sum of integers is an integer.                                        *)
LEMMA SumTyped ==
  ASSUME Adds, NEW S, IsFiniteSet(S), NEW f, Integers(f, S)
  PROVE  Fold(0, f, S) \in Int
<1>1. ASSUME NEW v \in Int, NEW x \in S  PROVE Op(v, f[x]) \in Int
  <2>1. f[x] \in Int
    BY DEF Integers
  <2>2. Op(v, f[x]) = f[x] + v
    BY <2>1 DEF Adds
  <2> QED BY <2>1, <2>2
<1>2. Picks(S)
  BY DEF Adds, Picks
<1> QED BY <1>1, <1>2, FoldKeeps

(* Any element can be taken out of a sum.                                  *)
LEMMA SumTakes ==
  ASSUME Adds, NEW S, IsFiniteSet(S), NEW f, Integers(f, S), NEW c \in S
  PROVE  Fold(0, f, S) = f[c] + Fold(0, f, S \ {c})
<1> DEFINE Takes(T) == \A d \in T : Fold(0, f, T) = f[d] + Fold(0, f, T \ {d})
           B == {T \in SUBSET S : ~ Takes(T)}
<1>1. ASSUME NEW T \in B, IsFiniteSet(T)
      PROVE  \E U \in B : Cardinality(U) < Cardinality(T)
  <2>1. SUFFICES ASSUME \A U \in SUBSET S : Cardinality(U) < Cardinality(T) => Takes(U)
                 PROVE  Takes(T)
    OBVIOUS
  <2>2. SUFFICES ASSUME NEW d \in T
                 PROVE  Fold(0, f, T) = f[d] + Fold(0, f, T \ {d})
    OBVIOUS
  <2> DEFINE p == Pick(T)
  <2>3. p \in T /\ Fold(0, f, T) = f[p] + Fold(0, f, T \ {p})
    <3>1. Picks(T) /\ T # {} /\ p \in T
      BY DEF Adds, Picks
    <3>2. Fold(0, f, T) = Op(Fold(0, f, T \ {p}), f[p])
      BY <1>1, <3>1, FoldLast
    <3>3. f[p] \in Int /\ Fold(0, f, T \ {p}) \in Int
      <4>1. IsFiniteSet(T \ {p}) /\ Integers(f, T \ {p}) /\ f[p] \in Int
        BY <1>1, <3>1, LessOne DEF Integers
      <4> HIDE DEF p
      <4> QED BY <4>1, SumTyped
    <3> HIDE DEF p
    <3> QED BY <3>1, <3>2, <3>3 DEF Adds
  <2> HIDE DEF p
  <2>4. CASE p = d
    BY <2>3, <2>4
  <2>5. CASE p # d
    <3> DEFINE R == (T \ {p}) \ {d}
    <3>1. /\ Takes(T \ {p}) /\ Takes(T \ {d}) /\ d \in T \ {p} /\ p \in T \ {d}
          /\ R = (T \ {d}) \ {p} /\ IsFiniteSet(R)
      BY <1>1, <2>1, <2>3, <2>5, LessOne
    <3>2. /\ Fold(0, f, T \ {p}) = f[d] + Fold(0, f, R)
          /\ Fold(0, f, T \ {d}) = f[p] + Fold(0, f, R)
      BY <3>1
    <3>3. Fold(0, f, R) \in Int /\ f[p] \in Int /\ f[d] \in Int
      <4>1. Integers(f, R)
        BY DEF Integers
      <4> QED BY <2>3, <3>1, <4>1, SumTyped DEF Integers
    <3> HIDE DEF R
    <3> QED BY <2>3, <3>2, <3>3
  <2> QED BY <2>4, <2>5
<1> HIDE DEF Takes
<1>2. B = {}
  <2> HIDE DEF B
  <2> QED BY <1>1, NoSmallest DEF B
<1>3. Takes(S)
  BY <1>2
<1> QED BY <1>3 DEF Takes

(* A sum is that of a part and that of the others.                         *)
LEMMA SumParts ==
  ASSUME Adds, NEW S, IsFiniteSet(S), NEW f, Integers(f, S), NEW R \in SUBSET S
  PROVE  Fold(0, f, S) = Fold(0, f, R) + Fold(0, f, S \ R)
<1> DEFINE Parts(T) == Fold(0, f, S) = Fold(0, f, T) + Fold(0, f, S \ T)
           B == {T \in SUBSET S : ~ Parts(T)}
<1>1. ASSUME NEW T \in B, IsFiniteSet(T)
      PROVE  \E U \in B : Cardinality(U) < Cardinality(T)
  <2>1. SUFFICES ASSUME \A U \in SUBSET S : Cardinality(U) < Cardinality(T) => Parts(U)
                 PROVE  Parts(T)
    OBVIOUS
  <2>2. CASE T = {}
    <3>1. Fold(0, f, S) \in Int /\ Fold(0, f, {}) = 0 /\ S \ {} = S
      BY SumTyped, FoldEmpty
    <3> QED BY <2>2, <3>1
  <2>3. CASE T # {}
    <3>1. PICK c \in T : TRUE
      BY <2>3
    <3> DEFINE U == T \ {c}
               W == S \ U
    <3>2. /\ IsFiniteSet(U) /\ IsFiniteSet(S \ T) /\ IsFiniteSet(W)
          /\ Integers(f, T) /\ Integers(f, U) /\ Integers(f, S \ T) /\ Integers(f, W)
          /\ c \in W /\ W \ {c} = S \ T /\ f[c] \in Int /\ U \in SUBSET S
      BY <1>1, LessOne, FS_Subset DEF Integers
    <3>3. Parts(U)
      BY <1>1, <2>1, LessOne
    <3>4. Fold(0, f, T) = f[c] + Fold(0, f, U)
      BY <1>1, <3>2, SumTakes
    <3>5. Fold(0, f, W) = f[c] + Fold(0, f, S \ T)
      <4> HIDE DEF U, W
      <4>1. Fold(0, f, W) = f[c] + Fold(0, f, W \ {c})
        BY <3>2, SumTakes
      <4> QED BY <3>2, <4>1
    <3>6. Fold(0, f, U) \in Int /\ Fold(0, f, S \ T) \in Int
      BY <3>2, SumTyped
    <3>7. Fold(0, f, S) = Fold(0, f, U) + Fold(0, f, W)
      BY <3>3
    <3> HIDE DEF U, W
    <3> QED BY <3>2, <3>4, <3>5, <3>6, <3>7
  <2> QED BY <2>2, <2>3
<1> HIDE DEF Parts
<1>2. B = {}
  <2> HIDE DEF B
  <2> QED BY <1>1, NoSmallest DEF B
<1>3. Parts(R)
  BY <1>2
<1> QED BY <1>3 DEF Parts

(* Zeros do not count.                                                     *)
LEMMA SumSupport ==
  ASSUME Adds, NEW S, IsFiniteSet(S), NEW f, Integers(f, S), NEW T \in SUBSET S,
         \A c \in S \ T : f[c] = 0
  PROVE  Fold(0, f, S) = Fold(0, f, T)
<1>1. Fold(0, f, S) = Fold(0, f, T) + Fold(0, f, S \ T)
  BY SumParts
<1>2. Fold(0, f, S \ T) \in {0}
  <2>1. ASSUME NEW v \in {0}, NEW x \in S \ T  PROVE Op(v, f[x]) \in {0}
    <3>1. v = 0 /\ f[x] = 0
      OBVIOUS
    <3>2. Op(0, 0) = 0 + 0
      BY DEF Adds
    <3> QED BY <3>1, <3>2
  <2>2. IsFiniteSet(S \ T) /\ Picks(S \ T) /\ 0 \in {0}
    BY FS_Subset DEF Adds, Picks
  <2> QED BY <2>1, <2>2, FoldKeeps
<1>3. Fold(0, f, T) \in Int
  <2>1. IsFiniteSet(T) /\ Integers(f, T)
    BY FS_Subset DEF Integers
  <2> QED BY <2>1, SumTyped
<1> QED BY <1>1, <1>2, <1>3

(* A sum of sums is the sum of their parts.                                *)
LEMMA SumAdds ==
  ASSUME Adds, NEW S, IsFiniteSet(S), NEW f, Integers(f, S), NEW g, Integers(g, S),
         NEW h, \A c \in S : h[c] = f[c] + g[c]
  PROVE  Fold(0, h, S) = Fold(0, f, S) + Fold(0, g, S)
<1> DEFINE Splits(T) == Fold(0, h, T) = Fold(0, f, T) + Fold(0, g, T)
           B == {T \in SUBSET S : ~ Splits(T)}
<1>1. Integers(h, S)
  BY DEF Integers
<1>2. ASSUME NEW T \in B, IsFiniteSet(T)
      PROVE  \E U \in B : Cardinality(U) < Cardinality(T)
  <2>1. SUFFICES ASSUME \A U \in SUBSET S : Cardinality(U) < Cardinality(T) => Splits(U)
                 PROVE  Splits(T)
    OBVIOUS
  <2>2. CASE T = {}
    <3>1. Fold(0, f, {}) = 0 /\ Fold(0, g, {}) = 0 /\ Fold(0, h, {}) = 0
      BY FoldEmpty
    <3> QED BY <2>2, <3>1
  <2>3. CASE T # {}
    <3>1. PICK c \in T : TRUE
      BY <2>3
    <3> DEFINE U == T \ {c}
    <3>2. /\ IsFiniteSet(U) /\ U \in SUBSET S /\ Cardinality(U) < Cardinality(T)
          /\ Integers(f, T) /\ Integers(g, T) /\ Integers(h, T)
          /\ Integers(f, U) /\ Integers(g, U)
          /\ f[c] \in Int /\ g[c] \in Int /\ h[c] = f[c] + g[c]
      BY <1>1, <1>2, LessOne DEF Integers
    <3>3. Fold(0, f, T) = f[c] + Fold(0, f, U)
      BY <1>2, <3>2, SumTakes
    <3>4. Fold(0, g, T) = g[c] + Fold(0, g, U)
      BY <1>2, <3>2, SumTakes
    <3>5. Fold(0, h, T) = h[c] + Fold(0, h, U)
      BY <1>2, <3>2, SumTakes
    <3>6. Fold(0, f, U) \in Int /\ Fold(0, g, U) \in Int
      BY <3>2, SumTyped
    <3>7. Fold(0, h, U) = Fold(0, f, U) + Fold(0, g, U)
      BY <2>1, <3>2
    <3> HIDE DEF U
    <3> QED BY <3>2, <3>3, <3>4, <3>5, <3>6, <3>7
  <2> QED BY <2>2, <2>3
<1> HIDE DEF Splits
<1>3. B = {}
  <2> HIDE DEF B
  <2> QED BY <1>2, NoSmallest DEF B
<1>4. Splits(S)
  BY <1>3
<1> QED BY <1>4 DEF Splits
===============================================================================
