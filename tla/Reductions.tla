------------------------------ MODULE Reductions ------------------------------
(***************************************************************************)
(* What the modifiers of problems do to the rows and columns: the eight    *)
(* execute() functions that BatchedReduction.tla abstracts, with numbers.  *)
(* The setting modifier leaves the problem alone and is not among them.    *)
(*                                                                         *)
(* A visit of a row or column yields edits.  The copy takes them at once,  *)
(* except for coefficients, which are changed just before the solve.  When *)
(* the solver does not show the bug, the copy is made from the problem and *)
(* the edits accepted so far, list by list.                                *)
(***************************************************************************)
EXTENDS Problems, Sequences, SequencesExt

CONSTANTS
  Modifiers,        \* the modifiers in use
  Instances,        \* pairs of a problem and its reference solution
  BatchNumbers      \* values of nbatches

ByRow    == {"constraint", "coefficient", "side", "consround"}
ByColumn == {"variable", "fixing", "objective", "varround"}
Upwards  == {"varround", "consround"}

(* Numbers whose products are whole, and the problems made of them: the    *)
(* storage is on the columns, Equation stands where the sides agree.       *)
Step(v) == v \in Int /\ (v * v) % One = 0
Steps   == {v \in Int : Step(v)}

ColumnOf == [lb : Steps, ub : Steps, obj : Steps, flags : SUBSET ColFlag]

IsRow(row, n) ==
  \E D \in SUBSET (1..n) :
    row \in [lhs : Int, rhs : Int, flags : SUBSET RowFlag, coef : [D -> Steps]]

EquationRight(row) ==
  "Equation" \in row.flags <=>
    {"LhsInf", "RhsInf"} \cap row.flags = {} /\ row.lhs = row.rhs

WellFormed(p) ==
  /\ p \in [cols : Seq(ColumnOf), rows : Seq(Range(p.rows))]
  /\ \A r \in Rows(p) : IsRow(p.rows[r], Len(p.cols)) /\ EquationRight(p.rows[r])

ReferenceFits(p, sol) ==
  /\ sol.status \in SolutionStatus
  /\ sol.status \in {"feasible", "unbounded"} => \A c \in Columns(p) : sol.primal[c] \in Steps
  /\ sol.status = "unbounded" => \A c \in Columns(p) : sol.ray[c] \in Steps

ASSUME ModifiersAssumption ==
  Modifiers \subseteq ByRow \cup ByColumn /\ BatchNumbers \subseteq Nat

ASSUME InstancesAssumption ==
  \A i \in Instances : WellFormed(i.problem) /\ ReferenceFits(i.problem, i.solution)

VARIABLES
  pc,                  \* "idle", "scan", "solve" or "finish"
  modifier,            \* the modifier that runs or ran last
  nbatches,            \* the number of batches
  solution,            \* the reference solution
  problem, copy,       \* the problem and the copy the modifier works on
  position,            \* rows or columns visited so far
  batchsize, batch,    \* size of a batch; reductions of the pending one
  applied, batches,    \* edits that were accepted; those of the pending batch
  admissible, status,
  confirmed            \* history: the last problem that showed the bug

vars == <<pc, modifier, nbatches, solution, problem, copy, position, batchsize,
          batch, applied, batches, admissible, status, confirmed>>

-------------------------------------------------------------------------------
(***************************************************************************)
(* Edits: redundant rows, columns with their only value, rows with their   *)
(* only side, fixed columns, and the changed coefficients, sides,          *)
(* objective coefficients and bounds.                                      *)
(***************************************************************************)
NoEdits == [rows |-> <<>>, domains |-> <<>>, sides |-> <<>>, fixed |-> <<>>,
            entries |-> <<>>, lefts |-> <<>>, rights |-> <<>>,
            objs |-> <<>>, lowers |-> <<>>, uppers |-> <<>>]

Join(e, f) == [k \in DOMAIN e |-> e[k] \o f[k]]

(* A zero removed from the column in all of its rows. *)
Entry_WholeColumn(p, t) ==
  [p EXCEPT !.rows = [r \in DOMAIN @ |->
     IF t[2] \in DOMAIN @[r].coef THEN ChangeCoefficient(@[r], t[2], t[3]) ELSE @[r]]]

Redundancy(p, r) == [p EXCEPT !.rows[r].flags = @ \cup {"Redundant"}]
Fixation(p, c)   == [p EXCEPT !.cols[c].flags = @ \cup {"Fixed"}]
LeftSide(p, s)   == [p EXCEPT !.rows[s[1]] = ModifyLeft(@, s[2])]
RightSide(p, s)  == [p EXCEPT !.rows[s[1]] = ModifyRight(@, s[2])]
BothSides(p, s)  == RightSide(LeftSide(p, s), s)
Entry(p, t)      == [p EXCEPT !.rows[t[1]] = ChangeCoefficient(@, t[2], t[3])]
Profit(p, s)     == [p EXCEPT !.cols[s[1]].obj = s[2]]
LowerBound(p, s) == [p EXCEPT !.cols[s[1]].lb = s[2]]
UpperBound(p, s) == [p EXCEPT !.cols[s[1]].ub = s[2]]

OnlyValue(col, v) == [col EXCEPT !.flags = @ \ {"LbInf", "UbInf"}, !.lb = v, !.ub = v]
Domain(p, s)      == [p EXCEPT !.cols[s[1]] = OnlyValue(@, s[2])]

(* An edit with the list it belongs to.                                    *)
Apply(p, edit) ==
  LET s == edit[2]
  IN  CASE edit[1] = "rows"    -> Redundancy(p, s)
        [] edit[1] = "domains" -> Domain(p, s)
        [] edit[1] = "sides"   -> BothSides(p, s)
        [] edit[1] = "fixed"   -> Fixation(p, s)
        [] edit[1] = "entries" -> Entry(p, s)
        [] edit[1] = "lefts"   -> LeftSide(p, s)
        [] edit[1] = "rights"  -> RightSide(p, s)
        [] edit[1] = "objs"    -> Profit(p, s)
        [] edit[1] = "lowers"  -> LowerBound(p, s)
        [] edit[1] = "uppers"  -> UpperBound(p, s)

Listed(list, s) == [i \in DOMAIN s |-> <<list, s[i]>>]

ApplyEntries(p, entries) == FoldLeft(Apply, p, Listed("entries", entries))

(* All of the edits, list by list in the order of the code. *)
Replay(p, e) ==
  FoldLeft(Apply, p,
    Listed("rows", e.rows) \o Listed("domains", e.domains) \o Listed("sides", e.sides)
      \o Listed("fixed", e.fixed) \o Listed("entries", e.entries)
      \o Listed("lefts", e.lefts) \o Listed("rights", e.rights)
      \o Listed("objs", e.objs) \o Listed("lowers", e.lowers)
      \o Listed("uppers", e.uppers))

-------------------------------------------------------------------------------
(***************************************************************************)
(* The value a column is given: that of the reference solution, otherwise  *)
(* the one closest to zero, rounded into the domain of an integral column. *)
(***************************************************************************)
ClosestToZero(lower, upper, lo, hi) ==
  LET v == IF upper THEN Least(0, hi) ELSE 0
  IN  IF lower THEN Most(v, lo) ELSE v

FixedValue(p, c) ==
  LET col == p.cols[c]
  IN  IF solution.status = "feasible"
        THEN IF Integral(p, c) THEN Round(solution.primal[c]) ELSE solution.primal[c]
        ELSE ClosestToZero("LbInf" \notin col.flags, "UbInf" \notin col.flags,
               IF Integral(p, c) THEN EpsCeil(col.lb) ELSE col.lb,
               IF Integral(p, c) THEN EpsFloor(col.ub) ELSE col.ub)

(* Apart from the columns in S the activity of a row is integral. *)
IntegralRow(p, r, S) ==
  \A c \in DOMAIN p.rows[r].coef \ S :
    Fixed(p, c) \/ (Integral(p, c) /\ IsEpsIntegral(p.rows[r].coef[c]))

SideValue(p, r) ==
  LET row == p.rows[r]
      integral == IntegralRow(p, r, {})
      activity == Activity(row, solution.primal)
  IN  IF solution.status = "feasible"
        THEN IF integral THEN Round(activity) ELSE activity
        ELSE ClosestToZero("LhsInf" \notin row.flags, "RhsInf" \notin row.flags,
               IF integral THEN EpsCeil(row.lhs) ELSE row.lhs,
               IF integral THEN EpsFloor(row.rhs) ELSE row.rhs)

(* Sides that change by more than Zeta. *)
LeftEdit(row, r, value) ==
  IF "LhsInf" \in row.flags \/ IsZetaEq(row.lhs, value) THEN <<>> ELSE << <<r, value>> >>

RightEdit(row, r, value) ==
  IF "RhsInf" \in row.flags \/ IsZetaEq(row.rhs, value) THEN <<>> ELSE << <<r, value>> >>

(* Rows or columns from the last to the first, and from the first. *)
Falling(S) == CHOOSE q \in [1..Cardinality(S) -> S] : \A i, j \in DOMAIN q : i < j => q[i] > q[j]
Rising(S)  == CHOOSE q \in [1..Cardinality(S) -> S] : \A i, j \in DOMAIN q : i < j => q[i] < q[j]

(* The constant part of a row moves into its sides. *)
Shifted(side, offset, integral) == IF integral THEN Round(side + offset) ELSE side + offset

Shift(p, r, cs, offset) ==
  LET row == p.rows[r]
      integral == IntegralRow(p, r, cs)
  IN  [NoEdits EXCEPT
         !.entries = [i \in 1..Cardinality(cs) |-> <<r, Falling(cs)[i], 0>>],
         !.lefts   = LeftEdit(row, r, Shifted(row.lhs, offset, integral)),
         !.rights  = RightEdit(row, r, Shifted(row.rhs, offset, integral))]

-------------------------------------------------------------------------------
(* What a visit of a row or a column finds to reduce. *)
IsVariableAdmissible(p, c) == ~ Fixed(p, c) /\ Open(p.cols[c])

IsSideAdmissible(p, r) ==
  LET row == p.rows[r]
  IN  /\ ~ Redundant(p, r)
      /\ "LhsInf" \in row.flags \/ "RhsInf" \in row.flags \/ IsZetaLT(row.lhs, row.rhs)

Closed(p, c) == ~ Fixed(p, c) /\ p.cols[c].flags \cap {"LbInf", "UbInf"} = {}

(* Columns whose coefficients the coefficient modifier removes from a row. *)
Removable(p, r) ==
  {c \in DOMAIN p.rows[r].coef :
     /\ ~ IsZetaZero(p.rows[r].coef[c])
     /\ Closed(p, c) /\ IsZetaGE(p.cols[c].lb, p.cols[c].ub)}

IsCoefficientAdmissible(p, r) == ~ Redundant(p, r) /\ Removable(p, r) # {}

IsFixingAdmissible(p, c) == Closed(p, c) /\ IsZetaEq(p.cols[c].lb, p.cols[c].ub)

IsObjectiveAdmissible(p, c) ==
  LET col == p.cols[c]
  IN  /\ ~ Fixed(p, c)
      /\ ~ IsZetaZero(col.obj)
      /\ col.flags \cap {"LbInf", "UbInf"} # {} \/ ~ IsZetaEq(col.lb, col.ub)

(* Closed domains are rounded as well. *)
IsVarroundAdmissible_Closed(p, c) ==
  LET col == p.cols[c]
  IN  /\ ~ Fixed(p, c)
      /\ \/ ~ IsZetaIntegral(col.obj)
         \/ "LbInf" \notin col.flags /\ ~ IsZetaIntegral(col.lb)
         \/ "UbInf" \notin col.flags /\ ~ IsZetaIntegral(col.ub)

IsVarroundAdmissible(p, c) ==
  LET col == p.cols[c]
  IN  /\ ~ Fixed(p, c)
      /\ \/ ~ IsZetaIntegral(col.obj)
         \/ /\ col.flags \cap {"LbInf", "UbInf"} # {} \/ ~ IsZetaEq(col.lb, col.ub)
            /\ \/ "LbInf" \notin col.flags /\ ~ IsZetaIntegral(col.lb)
               \/ "UbInf" \notin col.flags /\ ~ IsZetaIntegral(col.ub)

IsConsroundAdmissible(p, r) ==
  LET row == p.rows[r]
  IN  /\ ~ Redundant(p, r)
      /\ \/ /\ row.flags \cap {"LhsInf", "RhsInf"} # {} \/ ~ IsZetaEq(row.lhs, row.rhs)
            /\ \/ "LhsInf" \notin row.flags /\ ~ IsZetaIntegral(row.lhs)
               \/ "RhsInf" \notin row.flags /\ ~ IsZetaIntegral(row.rhs)
         \/ \E c \in DOMAIN row.coef : ~ IsZetaIntegral(row.coef[c])

IsAdmissible(m, p, i) ==
  CASE m = "constraint"  -> ~ Redundant(p, i)
    [] m = "variable"    -> IsVariableAdmissible(p, i)
    [] m = "coefficient" -> IsCoefficientAdmissible(p, i)
    [] m = "fixing"      -> IsFixingAdmissible(p, i)
    [] m = "side"        -> IsSideAdmissible(p, i)
    [] m = "objective"   -> IsObjectiveAdmissible(p, i)
    [] m = "varround"    -> IsVarroundAdmissible(p, i)
    [] m = "consround"   -> IsConsroundAdmissible(p, i)

-------------------------------------------------------------------------------
(***************************************************************************)
(* The edits of one visit.                                                 *)
(***************************************************************************)
FixedEntries(p, r) ==
  - SumFunction([c \in Removable(p, r) |-> Times(p.rows[r].coef[c], FixedValue(p, c))])

(* The rows in which a column that is being fixed has to be substituted. *)
Occurrences(p, c) ==
  {r \in Rows(p) : /\ ~ Redundant(p, r)
                   /\ c \in DOMAIN p.rows[r].coef
                   /\ ~ IsZetaZero(p.rows[r].coef[c])}

FixingEdits(p, c) ==
  LET fixed == Fixation(p, c)
      rows  == Falling(Occurrences(p, c))
      In(r) == Shift(fixed, r, {c}, -Times(p.rows[r].coef[c], FixedValue(p, c)))
  IN  FoldLeft(Join, [NoEdits EXCEPT !.fixed = <<c>>], [k \in DOMAIN rows |-> In(rows[k])])

(* Rounding alone. *)
Lowered_Rounded(bound, value) == Round(bound)

(* Rounding keeps the value of a feasible reference within. *)
Lowered(bound, value) ==
  IF solution.status = "feasible" THEN Least(Round(bound), EpsFloor(value)) ELSE Round(bound)

Raised(bound, value) ==
  IF solution.status = "feasible" THEN Most(Round(bound), EpsCeil(value)) ELSE Round(bound)

BoundEdit(col, c, infinite, old, new) ==
  IF infinite \in col.flags \/ IsZetaEq(old, new) THEN <<>> ELSE << <<c, new>> >>

VarroundEdits(p, c) ==
  LET col == p.cols[c]
      v   == IF solution.status = "feasible" THEN solution.primal[c] ELSE 0
  IN  [NoEdits EXCEPT
         !.objs   = IF IsZetaIntegral(col.obj) THEN <<>> ELSE << <<c, Round(col.obj)>> >>,
         !.lowers = BoundEdit(col, c, "LbInf", col.lb, Lowered(col.lb, v)),
         !.uppers = BoundEdit(col, c, "UbInf", col.ub, Raised(col.ub, v))]

ConsroundEdits(p, r) ==
  LET row == p.rows[r]
      cs  == Rising({c \in DOMAIN row.coef : ~ IsZetaIntegral(row.coef[c])})
      v   == IF solution.status = "feasible" THEN RoundedActivity(row, solution.primal) ELSE 0
      lhs == Lowered(row.lhs, v)
  IN  [NoEdits EXCEPT
         !.entries = [i \in DOMAIN cs |-> <<r, cs[i], Round(row.coef[cs[i]])>>],
         !.lefts   = LeftEdit(row, r, lhs),
         !.rights  = RightEdit(row, r, Raised(row.rhs, v))]

Edits(m, p, i) ==
  CASE m = "constraint"  -> [NoEdits EXCEPT !.rows = <<i>>]
    [] m = "variable"    -> [NoEdits EXCEPT !.domains = << <<i, FixedValue(p, i)>> >>]
    [] m = "coefficient" -> Shift(p, i, Removable(p, i), FixedEntries(p, i))
    [] m = "fixing"      -> FixingEdits(p, i)
    [] m = "side"        -> [NoEdits EXCEPT !.sides = << <<i, SideValue(p, i)>> >>]
    [] m = "objective"   -> [NoEdits EXCEPT !.objs = << <<i, 0>> >>]
    [] m = "varround"    -> VarroundEdits(p, i)
    [] m = "consround"   -> ConsroundEdits(p, i)

-------------------------------------------------------------------------------
(* References for which a modifier does nothing. *)
Refuses(m) ==
  CASE m = "constraint" -> {"infeasible"}
    [] m \in {"variable", "side", "objective"} -> {"unbounded"}
    [] m \in {"varround", "consround"} -> {"infeasible", "unbounded"}
    [] OTHER -> {}

Length(m) == IF m \in ByRow THEN Len(problem.rows) ELSE Len(problem.cols)
Visited(k) == IF modifier \in Upwards THEN k ELSE Length(modifier) + 1 - k

Count(m) == Cardinality({i \in 1..Length(m) : IsAdmissible(m, problem, i)})
BatchSize(m, n) == IF n = 0 THEN 1 ELSE (n - 1 + Count(m)) \div n

Refused(m, n) == solution.status \in Refuses(m) \/ (n > 0 /\ Count(m) = 0)

Init ==
  /\ \E i \in Instances : problem = i.problem /\ solution = i.solution
  /\ copy = problem /\ confirmed = problem
  /\ pc = "idle" /\ status = "NotAdmissible" /\ admissible = FALSE
  /\ modifier \in Modifiers /\ nbatches \in BatchNumbers
  /\ position = 0 /\ batchsize = 1 /\ batch = 0
  /\ applied = NoEdits /\ batches = NoEdits

(* The loop calls a modifier, which returns at once ...  *)
Skip ==
  /\ pc = "idle"
  /\ \E m \in Modifiers, n \in BatchNumbers : Refused(m, n)
  /\ status' = "NotAdmissible"
  /\ UNCHANGED <<pc, modifier, nbatches, solution, problem, copy, position,
                 batchsize, batch, applied, batches, admissible, confirmed>>

(* ... or makes a copy and visits its rows or columns.  *)
Start ==
  /\ pc = "idle"
  /\ \E m \in Modifiers, n \in BatchNumbers :
       /\ ~ Refused(m, n)
       /\ modifier' = m /\ nbatches' = n /\ batchsize' = BatchSize(m, n)
       /\ pc' = IF Length(m) = 0 THEN "finish" ELSE "scan"
  /\ UNCHANGED <<solution, problem, copy, position, batch, applied, batches,
                 admissible, status, confirmed>>

(* One row or column, and what precedes the solve if that is due. *)
Scan ==
  /\ pc = "scan"
  /\ LET i    == Visited(position + 1)
         hit  == IsAdmissible(modifier, copy, i)
         e    == IF hit THEN Edits(modifier, copy, i) ELSE NoEdits
         all  == Join(batches, e)
         size == batch + (IF hit THEN 1 ELSE 0)
         last == position + 1 = Length(modifier)
         due  == size >= 1 /\ (size >= batchsize \/ last)
         seen == Replay(copy, [e EXCEPT !.entries = <<>>])
     IN  /\ copy' = IF due THEN ApplyEntries(seen, all.entries) ELSE seen
         /\ batches' = all /\ batch' = size
         /\ admissible' = (admissible \/ hit)
         /\ pc' = IF due THEN "solve" ELSE IF last THEN "finish" ELSE "scan"
  /\ position' = position + 1
  /\ UNCHANGED <<modifier, nbatches, solution, problem, batchsize, applied,
                 status, confirmed>>

(* The left sides are not replayed. *)
Rebuilt_Sideless == Replay(problem, [applied EXCEPT !.lefts = <<>>])

Rebuilt == Replay(problem, applied)

Resume ==
  /\ pc = "solve"
  /\ pc' = IF position = Length(modifier) THEN "finish" ELSE "scan"
  /\ batch' = 0 /\ batches' = NoEdits
  /\ UNCHANGED <<modifier, nbatches, solution, problem, position, batchsize,
                 admissible, status>>

(* The solver does not show the bug: the copy is made anew. *)
Reject == Resume /\ copy' = Rebuilt /\ UNCHANGED <<applied, confirmed>>

(* The solver shows the bug: the edits are kept. *)
Accept ==
  /\ Resume
  /\ applied' = Join(applied, batches) /\ confirmed' = copy
  /\ UNCHANGED copy

Succeeds ==
  IF modifier = "coefficient" THEN applied.entries # <<>> ELSE applied # NoEdits

(* The copy is handed back, and what is local to the run is gone. *)
Finish ==
  /\ pc = "finish" /\ pc' = "idle"
  /\ status' = IF ~ admissible THEN "NotAdmissible"
               ELSE IF Succeeds THEN "Successful" ELSE "Unsuccesful"
  /\ problem' = IF Succeeds THEN copy ELSE problem
  /\ copy' = problem' /\ confirmed' = problem'
  /\ position' = 0 /\ applied' = NoEdits /\ admissible' = FALSE
  /\ UNCHANGED <<modifier, nbatches, solution, batchsize, batch, batches>>

Next == Skip \/ Start \/ Scan \/ Reject \/ Accept \/ Finish

Spec == Init /\ [][Next]_vars

-------------------------------------------------------------------------------
(* The storage is on the columns, numbers are whole, the scan is in range. *)
IsProblem(p) ==
  /\ \A c \in Columns(p) :
       /\ p.cols[c].flags \subseteq ColFlag
       /\ Step(p.cols[c].lb) /\ Step(p.cols[c].ub) /\ Step(p.cols[c].obj)
  /\ \A r \in Rows(p) :
       /\ p.rows[r].flags \subseteq RowFlag
       /\ p.rows[r].lhs \in Int /\ p.rows[r].rhs \in Int
       /\ DOMAIN p.rows[r].coef \subseteq Columns(p)
       /\ \A c \in DOMAIN p.rows[r].coef : Step(p.rows[r].coef[c])

(***************************************************************************)
(* Types: no visit, rebuild or change of a coefficient leaves the matrix,  *)
(* and a finished scan leaves nothing pending.                             *)
(***************************************************************************)
TypeOK ==
  /\ pc \in {"idle", "scan", "solve", "finish"}
  /\ modifier \in Modifiers /\ nbatches \in BatchNumbers
  /\ IsProblem(problem) /\ IsProblem(copy) /\ IsProblem(confirmed)
  /\ position \in 0..Length(modifier) /\ batchsize \in Nat \ {0}
  /\ batch \in 0..batchsize
  /\ pc \in {"idle", "finish"} => batch = 0 /\ batches = NoEdits
  /\ admissible \in BOOLEAN
  /\ status \in {"NotAdmissible", "Unsuccesful", "Successful"}

(***************************************************************************)
(* The reference solution stays true of every problem that is solved: a    *)
(* solution stays feasible through substitutions and roundings, an         *)
(* infeasible problem infeasible, a ray a ray.  All checks of the solver's *)
(* answer compare it with the reference (SolverInterface.hpp).             *)
(***************************************************************************)
IsTrueOf(p) ==
  CASE solution.status = "feasible"   -> IsFeasible(p, solution.primal)
    [] solution.status = "infeasible" ->
         \A x \in [Columns(p) -> solution.box] : ~ IsFeasible(p, x)
    [] solution.status = "unbounded"  ->
         IsFeasible(p, solution.primal) /\ IsRay(p, solution.ray)
    [] solution.status = "unknown"    -> TRUE

ReferenceRemainsTrue ==
  IsTrueOf(problem) /\ (pc = "solve" => IsTrueOf(copy))

(***************************************************************************)
(* An infeasible problem is not made feasible: "avoid fixing trivially     *)
(* infeasible bounds and sides to keep feasibility status" (CHANGELOG).    *)
(***************************************************************************)
FeasibilityStatusKept ==
  solution.status = "infeasible" /\ pc = "solve" => IsTrueOf(copy)

(***************************************************************************)
(* A success hands back exactly the problem of the last solve that showed  *)
(* the bug, although the copy was rebuilt from lists of edits in between,  *)
(* in another order and with sides that depend on each other.              *)
(***************************************************************************)
AdoptedIsConfirmed ==
  [][pc = "finish" => IF status' = "Successful" THEN problem' = confirmed
                                                ELSE UNCHANGED problem]_vars

(***************************************************************************)
(* Changed coefficients are those of the base matrix and each is changed   *)
(* once: changeRowInplace "must not be called with coefficients that are   *)
(* currently not in the row" (SparseStorage.hpp).                          *)
(***************************************************************************)
EntriesStored ==
  pc # "idle" =>
    LET entries == applied.entries \o batches.entries
    IN  /\ \A i \in DOMAIN entries :
             entries[i][2] \in DOMAIN problem.rows[entries[i][1]].coef
        /\ \A i, j \in DOMAIN entries :
             i # j => <<entries[i][1], entries[i][2]>> # <<entries[j][1], entries[j][2]>>

(***************************************************************************)
(* Equation is set exactly for rows whose sides are finite and agree; the  *)
(* writer of instances decides on it (MpsWriter.hpp).                      *)
(***************************************************************************)
EquationFlag ==
  \A p \in {problem, copy} : \A r \in Rows(p) : EquationRight(p.rows[r])

(***************************************************************************)
(* The copy a batch is edited in stays a problem between any two visits:   *)
(* its types, its changed coefficients and its equations, as one invariant.*)
(***************************************************************************)
ProblemsConsistent == TypeOK /\ EntriesStored /\ EquationFlag

(***************************************************************************)
(* What a modifier does to a row or column does not change what it finds   *)
(* to do in those still to be visited.  The size of a batch is computed on *)
(* that ground, from the problem and before the scan.                      *)
(***************************************************************************)
Bystanders ==
  pc \in {"scan", "solve"} =>
    \A k \in (position + 1)..Length(modifier) :
      IsAdmissible(modifier, copy, Visited(k)) = IsAdmissible(modifier, problem, Visited(k))

(***************************************************************************)
(* Every success is progress.  No measure of a single kind decreases: a    *)
(* substitution makes sides fractional, rounding reopens columns and rows. *)
(* Compared from the left, these numbers do.                               *)
(***************************************************************************)
Live(p, r) == ~ Redundant(p, r)
Free(p)    == {c \in Columns(p) : ~ Fixed(p, c)}

OpenRow(row) ==
  "LhsInf" \in row.flags \/ "RhsInf" \in row.flags \/ IsZetaLT(row.lhs, row.rhs)

Stored(p) == {t \in Rows(p) \X Columns(p) :
                Live(p, t[1]) /\ t[2] \in DOMAIN p.rows[t[1]].coef}

Weight(p) ==
  LET Num(S) == Cardinality(S)
  IN  << Num(Free(p)),
         Num({r \in Rows(p) : Live(p, r)}),
         Num(Stored(p)),
         Num({t \in Stored(p) : ~ IsZetaIntegral(p.rows[t[1]].coef[t[2]])})
           + Num({c \in Free(p) : ~ IsZetaZero(p.cols[c].obj)})
           + Num({c \in Free(p) : ~ IsZetaIntegral(p.cols[c].obj)}),
         Num({c \in Free(p) : Open(p.cols[c])})
           + Num({r \in Rows(p) : Live(p, r) /\ OpenRow(p.rows[r])}),
         Num({c \in Free(p) : "LbInf" \notin p.cols[c].flags /\ ~ IsZetaIntegral(p.cols[c].lb)})
           + Num({c \in Free(p) : "UbInf" \notin p.cols[c].flags /\ ~ IsZetaIntegral(p.cols[c].ub)})
           + Num({r \in Rows(p) : Live(p, r) /\ "LhsInf" \notin p.rows[r].flags
                                            /\ ~ IsZetaIntegral(p.rows[r].lhs)})
           + Num({r \in Rows(p) : Live(p, r) /\ "RhsInf" \notin p.rows[r].flags
                                            /\ ~ IsZetaIntegral(p.rows[r].rhs)}) >>

Lighter(v, w) == \E k \in DOMAIN v : v[k] < w[k] /\ \A j \in 1..k-1 : v[j] = w[j]

EverySuccessShrinks ==
  [][status' = "Successful" /\ pc = "finish" => Lighter(Weight(problem'), Weight(problem))]_vars

(***************************************************************************)
(* The solver interface asserts of every coefficient of a row it sets up   *)
(* that its column is not fixed:                                           *)
(*   assert(!cflags[rowinds[i]].test(ColFlag::kFixed))                     *)
(***************************************************************************)
NoFixedEntries ==
  pc = "solve" =>
    \A r \in Rows(copy) : \A c \in DOMAIN copy.rows[r].coef :
      ~ Redundant(copy, r) => ~ Fixed(copy, c)

-------------------------------------------------------------------------------
(***************************************************************************)
(* Why this holds.  The edits of a run are those of the modifier's lists,  *)
(* for rows or columns that were visited; outside of these the copy is the *)
(* problem.  Columns are not touched by a modifier of rows.                *)
(***************************************************************************)
Lists(m) ==
  CASE m = "constraint" -> {"rows"}
    [] m = "variable"   -> {"domains"}
    [] m = "side"       -> {"sides"}
    [] m = "objective"  -> {"objs"}
    [] m = "varround"   -> {"objs", "lowers", "uppers"}
    [] m = "fixing"     -> {"fixed", "entries", "lefts", "rights"}
    [] m \in {"coefficient", "consround"} -> {"entries", "lefts", "rights"}

(* Edits of rows in R and columns in C, and of coefficients there.         *)
EditsIn(p, R, C, E) ==
  [rows    : Seq(R),
   domains : Seq(C \X Steps),
   sides   : Seq(R \X Int),
   fixed   : Seq(C),
   entries : Seq({t \in R \X E \X Steps : t[2] \in DOMAIN p.rows[t[1]].coef}),
   lefts   : Seq(R \X Int),
   rights  : Seq(R \X Int),
   objs    : Seq(C \X Steps),
   lowers  : Seq(C \X Steps),
   uppers  : Seq(C \X Steps)]

RowsWith(m, p, V)    == IF m \in ByRow THEN V ELSE Rows(p)
ColumnsWith(m, p, V) == IF m \in ByRow THEN {} ELSE V
PlacesWith(m, p, V)  == IF m \in ByRow THEN Columns(p) ELSE V

(* The edits of visits to V. *)
EditsOf(m, p, V) ==
  {e \in EditsIn(p, RowsWith(m, p, V), ColumnsWith(m, p, V), PlacesWith(m, p, V)) :
     \A k \in DOMAIN e \ Lists(m) : e[k] = <<>>}

(* The problems that such edits make of p. *)
IsVariant(q, p, R, C) ==
  /\ q \in [cols : [Columns(p) -> ColumnOf], rows : [Rows(p) -> Range(q.rows)]]
  /\ \A c \in Columns(p) \ C : q.cols[c] = p.cols[c]
  /\ \A r \in Rows(p) \ R : q.rows[r] = p.rows[r]
  /\ \A r \in Rows(p) :
       /\ IsRow(q.rows[r], Len(p.cols)) /\ EquationRight(q.rows[r])
       /\ DOMAIN q.rows[r].coef \subseteq DOMAIN p.rows[r].coef

VariantOf(m, q, p, V) == IsVariant(q, p, RowsWith(m, p, V), ColumnsWith(m, p, V))

(* No coefficient is changed twice. *)
Distinct(entries) ==
  \A i, j \in DOMAIN entries :
    i # j => <<entries[i][1], entries[i][2]>> # <<entries[j][1], entries[j][2]>>

VisitedSoFar == {Visited(k) : k \in 1..position}

PositionInv ==
  /\ pc \in {"idle", "scan", "solve", "finish"}
  /\ modifier \in Modifiers /\ nbatches \in BatchNumbers
  /\ admissible \in BOOLEAN
  /\ status \in {"NotAdmissible", "Unsuccesful", "Successful"}
  /\ position \in 0..Length(modifier)
  /\ batchsize \in Nat \ {0} /\ batch \in 0..batchsize
  /\ batch = 0 => batches = NoEdits
  /\ pc = "idle" => position = 0 /\ batch = 0
  /\ pc = "scan" => position < Length(modifier) /\ batch < batchsize
  /\ pc = "finish" => position = Length(modifier) /\ batch = 0

IdleInv ==
  pc = "idle" => copy = problem /\ confirmed = problem /\ applied = NoEdits

EditsInv ==
  /\ WellFormed(problem) /\ ReferenceFits(problem, solution)
  /\ VariantOf(modifier, copy, problem, VisitedSoFar)
  /\ VariantOf(modifier, confirmed, problem, VisitedSoFar)
  /\ applied \in EditsOf(modifier, problem, VisitedSoFar)
  /\ batches \in EditsOf(modifier, problem, VisitedSoFar)
  /\ Distinct(applied.entries \o batches.entries)

IInv == PositionInv /\ IdleInv /\ EditsInv

(***************************************************************************)
(* The copy is what the accepted edits and those of the pending batch make *)
(* of the problem; the coefficients come when the batch is solved.         *)
(***************************************************************************)
Pending == IF pc = "solve" THEN batches ELSE [batches EXCEPT !.entries = <<>>]

ReplayInv ==
  /\ confirmed = Replay(problem, applied)
  /\ copy = Replay(problem, Join(applied, Pending))

(* Nothing is edited and nothing solved before something was admissible.   *)
AdmissibleInv ==
  /\ ~ admissible => batch = 0 /\ applied = NoEdits
  /\ pc = "solve" => batch > 0

(***************************************************************************)
(* The copy with the coefficients that are still to be changed.  What is   *)
(* true of the reference there is not true of the copy itself: a column    *)
(* that is being fixed still stands in its rows, a row that is being       *)
(* rounded has its new sides and its old coefficients.                     *)
(***************************************************************************)
Settled == Replay(problem, Join(applied, batches))

Coefficient(row, c) == IF c \in DOMAIN row.coef THEN row.coef[c] ELSE 0

(* Fixed columns have left the rows that count.                            *)
Substituted(p) ==
  \A r \in Rows(p), c \in Columns(p) :
    ~ Redundant(p, r) /\ Fixed(p, c) => Coefficient(p.rows[r], c) = 0

(***************************************************************************)
(* What is true of the reference stays so when the pending edits are done, *)
(* too.  Coefficients that are pending are those of fixed columns if the   *)
(* modifier visits columns.                                                *)
(***************************************************************************)
ReferenceInv ==
  solution.status \in {"feasible", "unbounded"} =>
    /\ pc \in {"scan", "solve"} => solution.status \notin Refuses(modifier)
    /\ \A p \in {problem, confirmed, Settled} : IsTrueOf(p) /\ Substituted(p)
    /\ modifier \in ByColumn =>
         \A i \in DOMAIN batches.entries : Fixed(copy, batches.entries[i][2])
===============================================================================
