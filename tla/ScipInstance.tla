----------------------------- MODULE ScipInstance -----------------------------
(***************************************************************************)
(* The instance in ScipRealInterface and ScipRationalInterface: doSetUp    *)
(* builds a SCIP problem from a Problem<REAL>, writeInstance writes it and *)
(* the reference solution, readInstance builds a Problem<REAL> from a SCIP *)
(* problem.  A number of the exact interface is a rational with a flag for *)
(* infinity, one of the other interface is infinite from Infinity on.      *)
(***************************************************************************)
EXTENDS AscendingLists, SequencesExt

CONSTANTS
  Infinity,      \* SCIPinfinity()
  ScipProblems,  \* problems of the general parser or of a modifier, with a solution
  ScipModels,    \* SCIP problems of files, for the exact interface and the other
  Exact          \* whether the interface is exact: a set of truth values

VARIABLES
  stage,    \* "load", "loaded", "written", "assert"
  exact,    \* the interface
  problem,  \* the problem and its reference solution
  scip,     \* the SCIP problem
  saved,    \* the files: a SCIP problem and a solution by names
  first     \* what the first problem says

scipvars == <<stage, exact, problem, scip, saved, first>>

Fixed(col)     == "Fixed" \in col.flags
Redundant(row) == "Redundant" \in row.flags

Active(q) == {c \in DOMAIN q.cols : ~Fixed(q.cols[c])}
Kept(q)   == {r \in DOMAIN q.rows : ~Redundant(q.rows[r])}

-------------------------------------------------------------------------------
(* Numbers of SCIP. *)
Rational(val, isinf) == [val |-> val, isinf |-> isinf]

(* SCIPratSetReal() keeps the number of an infinite bound. *)
Below(ex, x, isinf) ==
  IF ex THEN Rational(x, isinf) ELSE IF isinf THEN -Infinity ELSE x

Above(ex, x, isinf) ==
  IF ex THEN Rational(x, isinf) ELSE IF isinf THEN Infinity ELSE x

(* SCIPrealSetRat(): the sign of the number is that of the infinity. *)
RealOf(rat) ==
  IF rat.isinf THEN IF rat.val < 0 THEN -Infinity ELSE Infinity ELSE rat.val

NumberOf(ex, v) == IF ex THEN RealOf(v) ELSE v

IsNegInfinite(ex, v) == NumberOf(ex, v) <= -Infinity
IsPosInfinite(ex, v) == NumberOf(ex, v) >= Infinity

-------------------------------------------------------------------------------
(* doSetUp(). *)
TypeOf(ex, col, lb, ub) ==
  IF "Integral" \in col.flags
    THEN IF NumberOf(ex, lb) >= 0 /\ NumberOf(ex, ub) <= 1 THEN "BINARY" ELSE "INTEGER"
  ELSE IF "ImplInt" \in col.flags THEN "IMPLINT" ELSE "CONTINUOUS"

VarOf(ex, col) ==
  LET lb == Below(ex, col.lb, "LbInf" \in col.flags)
      ub == Above(ex, col.ub, "UbInf" \in col.flags)
  IN  [name |-> col.name, lb |-> lb, ub |-> ub, obj |-> col.obj,
       type |-> TypeOf(ex, col, lb, ub)]

(* Columns are addressed by their variables. *)
ConsOf(ex, row, active) ==
  [name |-> row.name,
   lhs |-> Below(ex, row.lhs, "LhsInf" \in row.flags),
   rhs |-> Above(ex, row.rhs, "RhsInf" \in row.flags),
   terms |-> [i \in DOMAIN row.coef |->
                [var |-> CHOOSE v \in DOMAIN active : active[v] = row.coef[i][1],
                 val |-> row.coef[i][2], negated |-> FALSE]]]

(* The sides of redundant rows do not matter. *)
SidedRows(q) ==
  \A r \in DOMAIN q.rows :
    Redundant(q.rows[r]) \/ ~({"LhsInf", "RhsInf"} \subseteq q.rows[r].flags)

ScipOf(ex, q) ==
  LET active == Ascending(Active(q))
      kept   == Ascending(Kept(q))
  IN  [min |-> q.min, offset |-> q.offset,
       vars  |-> [v \in DOMAIN active |-> VarOf(ex, q.cols[active[v]])],
       conss |-> [k \in DOMAIN kept |-> ConsOf(ex, q.rows[kept[k]], active)]]

(* Rows without a finite side are asserted not to be there. *)
DoSetUp ==
  /\ stage = "load"
  /\ IF SidedRows(problem) THEN scip' = ScipOf(exact, problem) /\ stage' = "loaded"
                           ELSE UNCHANGED scip /\ stage' = "assert"
  /\ UNCHANGED <<exact, problem, saved, first>>

(* writeInstance(): values of active columns are set by their variables.   *)
SolutionValues(q) ==
  LET active == Ascending(Active(q))
  IN  {<<q.cols[active[v]].name, q.primal[active[v]]>> : v \in DOMAIN active}

WriteInstance ==
  /\ stage = "loaded" /\ stage' = "written"
  /\ saved' = [cip |-> scip, sol |-> SolutionValues(problem)]
  /\ UNCHANGED <<exact, problem, scip, first>>

-------------------------------------------------------------------------------
(* readInstance(). *)
FlagsIf(test, flag) == IF test THEN {flag} ELSE {}

ColOf(ex, var) ==
  [name |-> var.name, lb |-> NumberOf(ex, var.lb), ub |-> NumberOf(ex, var.ub),
   obj |-> var.obj,
   flags |-> FlagsIf(IsNegInfinite(ex, var.lb), "LbInf") \cup
             FlagsIf(IsPosInfinite(ex, var.ub), "UbInf") \cup
             FlagsIf(var.type \in {"BINARY", "INTEGER"}, "Integral") \cup
             FlagsIf(var.type # "CONTINUOUS", "ImplInt")]

(* A negated variable a (1 - x) adds -a x to the row and a to no side.     *)
Shift_Left(side, terms) == side

(* A negated variable a (1 - x) becomes -a x, and a moves to the sides.    *)
Shift(side, terms) ==
  side - SumFunction([i \in DOMAIN terms |-> IF terms[i].negated THEN terms[i].val ELSE 0])

(* build() marks equations. *)
Equation(flags, lhs, rhs) ==
  FlagsIf({"LhsInf", "RhsInf"} \cap flags = {} /\ lhs = rhs, "Equation")

RowOfCons(ex, cons) ==
  LET lhsinf == IsNegInfinite(ex, cons.lhs)
      rhsinf == IsPosInfinite(ex, cons.rhs)
      lhs    == IF lhsinf THEN NumberOf(ex, cons.lhs) ELSE Shift(NumberOf(ex, cons.lhs), cons.terms)
      rhs    == IF rhsinf THEN NumberOf(ex, cons.rhs) ELSE Shift(NumberOf(ex, cons.rhs), cons.terms)
      flags  == FlagsIf(lhsinf, "LhsInf") \cup FlagsIf(rhsinf, "RhsInf")
  IN  [name |-> cons.name, lhs |-> lhs, rhs |-> rhs,
       flags |-> flags \cup Equation(flags, lhs, rhs),
       coef |-> [i \in DOMAIN cons.terms |->
                   LET t == cons.terms[i]
                   IN  <<t.var, IF t.negated THEN -t.val ELSE t.val>>]]

(* translateSolution(): a variable that is not in the file is zero. *)
Translated(vars_, sol) ==
  [v \in DOMAIN vars_ |->
     IF \E p \in sol : p[1] = vars_[v].name
       THEN (CHOOSE p \in sol : p[1] = vars_[v].name)[2] ELSE 0]

ProblemOf(ex, m, sol) ==
  [min |-> m.min, offset |-> m.offset,
   cols |-> [v \in DOMAIN m.vars |-> ColOf(ex, m.vars[v])],
   rows |-> [k \in DOMAIN m.conss |-> RowOfCons(ex, m.conss[k])],
   primal |-> Translated(m.vars, sol)]

ReadScipInstance ==
  /\ stage = "written" /\ stage' = "load"
  /\ problem' = ProblemOf(exact, saved.cip, saved.sol)
  /\ UNCHANGED <<exact, scip, saved, first>>

-------------------------------------------------------------------------------
(* Columns are known by name in a file, fixed columns have no entries, a  *)
(* bound or side that is not flagged is finite, and in the exact interface *)
(* one that is flagged has the sign of its infinity.                       *)
IsBelow(ex, x, isinf) == x \in Int /\ IF isinf THEN ex => x < 0 ELSE x > -Infinity
IsAbove(ex, x, isinf) == x \in Int /\ IF isinf THEN ex => x >= 0 ELSE x < Infinity

IsProblem(ex, q) ==
  /\ q.cols \in Seq(Range(q.cols)) /\ q.rows \in Seq(Range(q.rows))
  /\ DOMAIN q.primal = DOMAIN q.cols
  /\ \A c, d \in Active(q) : q.cols[c].name = q.cols[d].name => c = d
  /\ \A c \in Active(q) :
       /\ IsBelow(ex, q.cols[c].lb, "LbInf" \in q.cols[c].flags)
       /\ IsAbove(ex, q.cols[c].ub, "UbInf" \in q.cols[c].flags)
  /\ \A k \in Kept(q) :
       LET row == q.rows[k]
       IN  /\ IsBelow(ex, row.lhs, "LhsInf" \in row.flags)
           /\ IsAbove(ex, row.rhs, "RhsInf" \in row.flags)
           /\ "Equation" \in row.flags
                <=> {"LhsInf", "RhsInf"} \cap row.flags = {} /\ row.lhs = row.rhs
           /\ row.coef \in Seq(Active(q) \X (Int \ {0}))

(* The same of a SCIP problem: moving negated variables leaves finite      *)
(* sides finite.                                                           *)
IsNumber(ex, v) == v \in IF ex THEN [val : Int, isinf : BOOLEAN] ELSE Int

IsModel(ex, m) ==
  /\ m.vars \in Seq(Range(m.vars)) /\ m.conss \in Seq(Range(m.conss))
  /\ \A v, w \in DOMAIN m.vars : m.vars[v].name = m.vars[w].name => v = w
  /\ \A v \in DOMAIN m.vars : IsNumber(ex, m.vars[v].lb) /\ IsNumber(ex, m.vars[v].ub)
  /\ \A k \in DOMAIN m.conss :
       LET cons == m.conss[k]
       IN  /\ IsNumber(ex, cons.lhs) /\ IsNumber(ex, cons.rhs)
           /\ cons.terms \in
                Seq([var : DOMAIN m.vars, val : Int \ {0}, negated : BOOLEAN])
           /\ NumberOf(ex, cons.lhs) > -Infinity =>
                Shift(NumberOf(ex, cons.lhs), cons.terms) > -Infinity
           /\ NumberOf(ex, cons.rhs) < Infinity =>
                Shift(NumberOf(ex, cons.rhs), cons.terms) < Infinity

ASSUME InfinityAssumption == Infinity \in Nat \ {0}

ASSUME InstancesAssumption ==
  \A ex \in Exact :
    /\ ex \in BOOLEAN
    /\ \A q \in ScipProblems : IsProblem(ex, q)
    /\ \A m \in ScipModels[ex] : IsModel(ex, m.model)

-------------------------------------------------------------------------------
(* What a problem says of its active columns and irredundant rows. *)
Bound(x, infinite) == IF infinite THEN {} ELSE {x}

ColFacts(q, k) ==
  LET c == q.cols[k]
  IN  [name |-> c.name, obj |-> c.obj, int |-> "Integral" \in c.flags,
       lb |-> Bound(c.lb, "LbInf" \in c.flags), ub |-> Bound(c.ub, "UbInf" \in c.flags),
       val |-> q.primal[k]]

RowFacts(q, k) ==
  LET r == q.rows[k]
  IN  [name |-> r.name, eq |-> "Equation" \in r.flags,
       lhs |-> Bound(r.lhs, "LhsInf" \in r.flags), rhs |-> Bound(r.rhs, "RhsInf" \in r.flags),
       coef |-> {<<q.cols[r.coef[i][1]].name, r.coef[i][2]>> : i \in DOMAIN r.coef}]

Facts(q) ==
  [min |-> q.min, offset |-> q.offset,
   cols |-> {ColFacts(q, k) : k \in Active(q)},
   rows |-> {RowFacts(q, k) : k \in Kept(q)}]

ScipInit ==
  /\ exact \in Exact
  /\ \/ \E q \in ScipProblems :
          stage = "load" /\ problem = q /\ saved = <<>> /\ first = Facts(q)
     \/ \E m \in ScipModels[exact] :
          /\ stage = "written" /\ problem = <<>>
          /\ saved = [cip |-> m.model, sol |-> m.sol]
          /\ first = Facts(ProblemOf(exact, m.model, m.sol))
  /\ scip = <<>>

ScipNext == DoSetUp \/ WriteInstance \/ ReadScipInstance

ScipSpec == ScipInit /\ [][ScipNext]_scipvars

-------------------------------------------------------------------------------
(* Entries and values are those of columns or variables that there are,    *)
(* and no entry is zero, as doSetUp() asserts.                             *)
PositionsValid ==
  /\ stage = "load" =>
       /\ DOMAIN problem.primal = DOMAIN problem.cols
       /\ \A k \in Kept(problem) : \A i \in DOMAIN problem.rows[k].coef :
            LET e == problem.rows[k].coef[i] IN e[1] \in Active(problem) /\ e[2] # 0
  /\ stage = "loaded" =>
       \A k \in DOMAIN scip.conss : \A i \in DOMAIN scip.conss[k].terms :
         scip.conss[k].terms[i].var \in DOMAIN scip.vars

ScipTypeOK == stage \in {"load", "loaded", "written", "assert"} /\ PositionsValid

(* The solver is given the problem: the same active columns, domains, rows *)
(* and coefficients, under the positions left by what was removed.         *)
VarFacts(ex, var) ==
  <<var.name, var.obj, Bound(NumberOf(ex, var.lb), IsNegInfinite(ex, var.lb)),
    Bound(NumberOf(ex, var.ub), IsPosInfinite(ex, var.ub)),
    var.type \in {"BINARY", "INTEGER"}>>

ConsFacts(ex, m, cons) ==
  <<cons.name, Bound(NumberOf(ex, cons.lhs), IsNegInfinite(ex, cons.lhs)),
    Bound(NumberOf(ex, cons.rhs), IsPosInfinite(ex, cons.rhs)),
    {<<m.vars[cons.terms[i].var].name, cons.terms[i].val>> : i \in DOMAIN cons.terms}>>

LoadsProblem ==
  stage = "loaded" =>
    /\ scip.min = problem.min /\ scip.offset = problem.offset
    /\ {VarFacts(exact, scip.vars[v]) : v \in DOMAIN scip.vars} =
         {<<c.name, c.obj, c.lb, c.ub, c.int>> : c \in Facts(problem).cols}
    /\ {ConsFacts(exact, scip, scip.conss[k]) : k \in DOMAIN scip.conss} =
         {<<r.name, r.lhs, r.rhs, r.coef>> : r \in Facts(problem).rows}

(* Written and read again and again, the instance and its solution stay    *)
(* what they were at first.                                                *)
SurvivesDisk == stage = "load" => Facts(problem) = first

(* A row of a file and the row built from it hold at the same points,      *)
(* whatever variables are negated.                                         *)
Holds(lhs, rhs, activity) ==
  /\ \A b \in lhs : b <= activity
  /\ \A b \in rhs : activity <= b

Term(t, x) == t.val * IF t.negated THEN 1 - x[t.var] ELSE x[t.var]

RowHolds(row, x) ==
  Holds(Bound(row.lhs, "LhsInf" \in row.flags), Bound(row.rhs, "RhsInf" \in row.flags),
        SumFunction([i \in DOMAIN row.coef |-> row.coef[i][2] * x[row.coef[i][1]]]))

ConsHolds(ex, cons, x) ==
  Holds(Bound(NumberOf(ex, cons.lhs), IsNegInfinite(ex, cons.lhs)),
        Bound(NumberOf(ex, cons.rhs), IsPosInfinite(ex, cons.rhs)),
        SumFunction([i \in DOMAIN cons.terms |-> Term(cons.terms[i], x)]))

NegationKeepsRows ==
  stage = "load" /\ saved # <<>> =>
    \A k \in DOMAIN problem.rows : \A x \in [DOMAIN problem.cols -> 0..1] :
      RowHolds(problem.rows[k], x) <=> ConsHolds(exact, saved.cip.conss[k], x)

(* doSetUp() gives the solver the problem under the positions left by what *)
(* was removed, a file of SCIP is read as the rows it has, whatever        *)
(* variables are negated, and written by SCIP and read again and again, an *)
(* instance and its solution stay what they were at first.                 *)
ProblemLoaded == PositionsValid /\ LoadsProblem /\ NegationKeepsRows /\ SurvivesDisk

===============================================================================
