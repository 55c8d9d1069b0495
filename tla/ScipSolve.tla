------------------------------- MODULE ScipSolve -------------------------------
(***************************************************************************)
(* solve() of ScipRealInterface and ScipRationalInterface: the objective   *)
(* that doSetUp() takes from the reference, the solve, the checks of its   *)
(* result in their order, the certificate and the passcodes.               *)
(*                                                                         *)
(* SCIP is external: it answers anything the checks can tell apart, right  *)
(* or wrong.  The limits that follow a bug are in SolverLimits.tla.        *)
(***************************************************************************)
EXTENDS SolverChecks, Sequences

CONSTANTS
  Instances,    \* pairs of a problem and its reference solution
  Cutoffs,      \* values of cutoffrelax; negative for no objective limit
  PasscodeSets, \* sets of return codes that are not considered as bugs
  ScipErrors,   \* return codes of SCIP other than SCIP_OKAY
  Bounds,       \* dual and primal bounds SCIP may return
  Points, Rays, \* solutions and rays SCIP may return
  Counts,       \* numbers of solutions SCIP may count
  SumEpsilon,   \* the tolerance of the checks
  Epsilon       \* the tolerance around the objective limit

ScipAssumption ==
  /\ {SumEpsilon, Epsilon} \subseteq Nat \ {0} /\ 4 * SumEpsilon < Fine /\ 2 * Epsilon < Fine
  /\ \A e \in ScipErrors : e \in Int /\ e <= 0
  /\ (Cutoffs \cup Bounds \cup Counts) \cup UNION PasscodeSets \subseteq Int

(***************************************************************************)
(* Bounds and sides are not beyond infinity, the sets of columns are       *)
(* finite, and points and rays have a value for every column.              *)
(***************************************************************************)
IsProblem(p) ==
  /\ p.minimize \in BOOLEAN /\ p.offset \in Int
  /\ IsFiniteSet(DOMAIN p.cols)
  /\ \A c \in DOMAIN p.cols :
       {p.cols[c].lb, p.cols[c].ub} \subseteq -Infinity..Infinity /\ p.cols[c].obj \in Int
  /\ \A r \in DOMAIN p.rows :
       LET row == p.rows[r]
       IN  /\ {row.lhs, row.rhs} \subseteq -Infinity..Infinity
           /\ DOMAIN row.coef \subseteq DOMAIN p.cols
           /\ \A c \in DOMAIN row.coef : row.coef[c] \in Int

InstancesAssumption ==
  \A i \in Instances :
    /\ IsProblem(i.problem)
    /\ \A c \in DOMAIN i.problem.cols :
         \A x \in Points \cup Rays : x[c] \in -Infinity..Infinity
    /\ i.reference.status \in SolutionStatus
    /\ i.reference.status = "feasible" => i.reference.primal \in Points

VARIABLES
  pc,           \* the step to take next
  problem,      \* the problem given to doSetUp()
  reference,    \* the reference solution
  mode,         \* -1 to optimize, 0 to count
  certificate,  \* the certificate is to be checked: rational arithmetic only
  cutoff,       \* cutoffrelax
  passcodes,
  value,        \* objective of the reference
  answer,       \* what SCIP returned
  solution,     \* the solutions translated for the checks, best one first
  retcode

options == <<mode, certificate, cutoff, passcodes>>
inputs  == <<problem, reference, options>>
vars    == <<pc, inputs, value, answer, solution, retcode>>

-------------------------------------------------------------------------------
(***************************************************************************)
(* A run of SCIP.  code is its return code, 1 for SCIP_OKAY; sols are the  *)
(* points it stores; ray is a ray or empty; count is -1 if not valid; the  *)
(* vipr tools that read the certificate may fail.                          *)
(***************************************************************************)
SCIP_OKAY == 1
Rayless   == <<>>
NoAnswer  == [code |-> 0]

Limiting   == 0 <= cutoff /\ cutoff < Infinity
ObjLimit(p, v) ==
  LET limit == v + (IF p.minimize THEN cutoff ELSE -cutoff)
  IN  Max({Min({limit, Infinity}), -Infinity})

Optimizations ==
  [code: {SCIP_OKAY}, dual: Bounds, primal: Bounds,
   sols: {<<>>} \cup {<<x>> : x \in Points} \cup {<<x, y>> : x, y \in Points},
   ray: {Rayless} \cup Rays, nodes: {0}, completes: {TRUE}, verifies: {TRUE}]

(* What the certificate adds is independent of what the checks look at.    *)
Certified ==
  [code: {SCIP_OKAY}, dual: {-Infinity}, primal: {Infinity}, sols: {<<>>},
   ray: {Rayless}, nodes: {0, 1}, completes: BOOLEAN, verifies: BOOLEAN]

Countings == [code: {SCIP_OKAY}, dual: Bounds, primal: Bounds, count: Counts]
Failures  == [code: ScipErrors]

TypeOK ==
  /\ pc \in {"setup", "solve", "dual", "primal", "objective", "count",
             "certificate", "passcodes", "done"}
  /\ mode \in {-1, 0} /\ certificate \in BOOLEAN
  /\ cutoff \in Cutoffs /\ passcodes \in PasscodeSets
  /\ retcode \in 0..5 \cup {e - 1 : e \in ScipErrors}
  /\ pc \in {"setup", "solve", "dual", "count"} => retcode = OKAY

Init ==
  /\ \E i \in Instances : problem = i.problem /\ reference = i.reference
  /\ mode \in {-1, 0}
  /\ certificate \in BOOLEAN
  /\ cutoff \in Cutoffs
  /\ passcodes \in PasscodeSets
  /\ value = NaN
  /\ answer = NoAnswer
  /\ solution = <<>>
  /\ retcode = OKAY
  /\ pc = "setup"

(***************************************************************************)
(* doSetUp(): the objective value a correct solver cannot improve on.  It  *)
(* stays unassigned for an unknown reference.                              *)
(***************************************************************************)
ReferenceValue(p, s) ==
  CASE s.status = "feasible"   -> PrimalObjective(p, s.primal)
    [] s.status = "unbounded"  -> IF p.minimize THEN -Infinity ELSE Infinity
    [] s.status = "infeasible" -> IF p.minimize THEN Infinity ELSE -Infinity
    [] OTHER                   -> NaN

DoSetUp ==
  /\ pc = "setup"
  /\ value' = ReferenceValue(problem, reference)
  /\ pc' = "solve"
  /\ UNCHANGED <<inputs, answer, solution, retcode>>

(* Errors of SCIP are shifted so that they are negative. *)
CodeOf(code) == IF code = SCIP_OKAY THEN OKAY ELSE code - 1

(* SCIPsolve, or SCIPsetParamsCountsols and SCIPcount. *)
Solve ==
  /\ pc = "solve"
  /\ answer' \in Failures \cup
       (IF mode = -1 THEN IF certificate THEN Certified ELSE Optimizations
                     ELSE Countings)
  /\ retcode' = CodeOf(answer'.code)
  /\ pc' = IF answer'.code # SCIP_OKAY THEN "passcodes"
            ELSE IF mode = -1 THEN "dual" ELSE "count"
  /\ UNCHANGED <<inputs, value, solution>>

CheckDual ==
  /\ pc = "dual"
  /\ retcode' = IF DUALFAIL \in passcodes THEN retcode
                ELSE CheckDualBound(problem, reference, value, answer.dual, SumEpsilon)
  /\ pc' = "primal"
  /\ UNCHANGED <<inputs, value, answer, solution>>

(* Only the best solution goes with the ray.  The values of fixed columns  *)
(* are not asked for.                                                      *)
Translate(i) ==
  IF i = 1 /\ answer.ray # Rayless
  THEN [status |-> "unbounded", primal |-> answer.sols[i], ray |-> answer.ray]
  ELSE [status |-> "feasible", primal |-> answer.sols[i]]

TranslatedNumber ==
  IF PRIMALFAIL \notin passcodes THEN Len(answer.sols)
  ELSE IF OBJECTIVEFAIL \notin passcodes THEN Min({1, Len(answer.sols)}) ELSE 0

Undecided_Always == TRUE

(* The first check that fails decides. *)
Undecided == retcode = OKAY

CheckPrimal ==
  /\ pc = "primal"
  /\ IF Undecided
     THEN /\ solution' = [i \in 1..TranslatedNumber |-> Translate(i)]
          /\ retcode' = IF PRIMALFAIL \in passcodes THEN retcode
                        ELSE CheckPrimalSolution(problem, Range(solution'), SumEpsilon)
     ELSE UNCHANGED <<solution, retcode>>
  /\ pc' = "objective"
  /\ UNCHANGED <<inputs, value, answer>>

(***************************************************************************)
(* The bound to compare the best solution with.  Without a ray the primal  *)
(* bound can only be infinite by mistake; at the objective limit it is     *)
(* the limit and no result.                                                *)
(***************************************************************************)
AtObjLimit_Never == FALSE

AtObjLimit ==
  /\ Limiting
  /\ value # NaN
  /\ IF problem.minimize
     THEN ~ Below(answer.primal, value + cutoff, Epsilon)
     ELSE ~ Above(answer.primal, value - cutoff, Epsilon)

PrimalBound ==
  LET found == PrimalObjective(problem, answer.sols[1])
  IN  IF /\ Abs(answer.primal) = Infinity
         /\ solution # <<>> /\ solution[1].status = "feasible"
      THEN found
      ELSE IF AtObjLimit
           THEN IF solution # <<>> THEN found
                ELSE IF problem.minimize THEN Infinity ELSE -Infinity
           ELSE answer.primal

Best == IF solution = <<>> THEN [status |-> "infeasible"] ELSE solution[1]

CheckObjective ==
  /\ pc = "objective"
  /\ retcode' = IF ~ Undecided \/ OBJECTIVEFAIL \in passcodes THEN retcode
                ELSE CheckObjectiveValue(problem, PrimalBound, Best, SumEpsilon)
  /\ pc' = "certificate"
  /\ UNCHANGED <<inputs, value, answer, solution>>

CheckCount ==
  /\ pc = "count"
  /\ retcode' = CheckCountNumber(problem, reference, value, answer.dual,
                                 answer.primal, answer.count)
  /\ pc' = "passcodes"
  /\ UNCHANGED <<inputs, value, answer, solution>>

(* Not if presolving solved the problem. *)
CheckCertificate ==
  /\ pc = "certificate"
  /\ retcode' = IF retcode # OKAY \/ ~ certificate \/ answer.nodes = 0 THEN retcode
                ELSE IF ~ answer.completes THEN SolverRetcode.COMPLETIONFAIL
                ELSE IF ~ answer.verifies THEN SolverRetcode.CERTIFICATIONFAIL
                ELSE retcode
  /\ pc' = "passcodes"
  /\ UNCHANGED <<inputs, value, answer, solution>>

ApplyPasscodes ==
  /\ pc = "passcodes"
  /\ retcode' = IF retcode \in passcodes THEN OKAY ELSE retcode
  /\ pc' = "done"
  /\ UNCHANGED <<inputs, value, answer, solution>>

Done == pc = "done" /\ UNCHANGED vars

Next ==
  \/ DoSetUp \/ Solve
  \/ CheckDual \/ CheckPrimal \/ CheckObjective \/ CheckCount \/ CheckCertificate
  \/ ApplyPasscodes
  \/ Done

Spec == Init /\ [][Next]_vars

-------------------------------------------------------------------------------
(***************************************************************************)
(* Truth.  Feasible points and rays are searched for among Points and      *)
(* Rays, which the instances are chosen to make sufficient.                *)
(***************************************************************************)
Feasible(p, x) ==
  /\ \A c \in Unfixed(p) :
       /\ "LbInf" \notin p.cols[c].flags => x[c] >= p.cols[c].lb
       /\ "UbInf" \notin p.cols[c].flags => x[c] <= p.cols[c].ub
       /\ "Integral" \in p.cols[c].flags => Fraction(x[c]) = 0
  /\ \A r \in Effective(p) :
       LET activity == PrimalActivity(p.rows[r], x)
       IN  /\ "LhsInf" \notin p.rows[r].flags => activity >= p.rows[r].lhs
           /\ "RhsInf" \notin p.rows[r].flags => activity <= p.rows[r].rhs

Unbounding(p, d) == ~ RayFails(p, d, 0) /\ Improving(p, [ray |-> d], 0)

FeasiblePoints == {x \in Points : Feasible(problem, x)}

Unbounded == FeasiblePoints # {} /\ \E d \in Rays : Unbounding(problem, d)

Cost(v) == IF problem.minimize THEN v ELSE -v

TruthfulReference ==
  CASE reference.status = "feasible"   -> Feasible(problem, reference.primal)
    [] reference.status = "infeasible" -> FeasiblePoints = {}
    [] reference.status = "unbounded"  -> Unbounded
    [] OTHER -> TRUE

TruthfulDual ==
  /\ answer.dual \in -Infinity..Infinity
  /\ \A x \in FeasiblePoints : Cost(answer.dual) <= Cost(PrimalObjective(problem, x))
  /\ Unbounded => Cost(answer.dual) = -Infinity

(* A correct solver may stop early, but what it returns holds, and a ray   *)
(* improves the objective by more than the tolerance.                      *)
TruthfulOptimization ==
  /\ answer.completes /\ answer.verifies /\ TruthfulDual
  /\ \A i \in 1..Len(answer.sols) :
       /\ Feasible(problem, answer.sols[i])
       /\ PrimalObjective(problem, answer.sols[i]) \in -Infinity..Infinity
  /\ answer.ray # Rayless =>
       /\ answer.sols # <<>> /\ ~ RayFails(problem, answer.ray, 0)
       /\ Improving(problem, [ray |-> answer.ray], SumEpsilon)
  /\ IF answer.ray # Rayless THEN Cost(answer.primal) = -Infinity
     ELSE IF answer.sols # <<>>
          THEN answer.primal = PrimalObjective(problem, answer.sols[1])
     ELSE \/ Cost(answer.primal) = Infinity
          \/ /\ Limiting /\ reference.status = "feasible"
             /\ answer.primal = ObjLimit(problem, value)

(* The objective limit is not meant for counting. *)
TruthfulCounting ==
  /\ ~ Limiting /\ TruthfulDual
  /\ Cost(answer.primal) = Infinity
  /\ FeasiblePoints = {} => answer.count = 0
  /\ answer.count >= -1

Truthful ==
  /\ answer.code = SCIP_OKAY
  /\ TruthfulReference
  /\ IF mode = -1 THEN TruthfulOptimization ELSE TruthfulCounting

(***************************************************************************)
(* A solver whose bounds, solutions and ray are right is not accused of a  *)
(* bug, whatever the objective limit and whichever checks are disabled.    *)
(***************************************************************************)
NoFalseAlarm == pc = "done" /\ Truthful => retcode = OKAY

(***************************************************************************)
(* What each check would say of the complete answer by itself.             *)
(***************************************************************************)
Everything == {Translate(i) : i \in 1..Len(answer.sols)}

Contradictions ==
  {c \in {DUALFAIL, PRIMALFAIL} :
     c = IF c = DUALFAIL
         THEN CheckDualBound(problem, reference, value, answer.dual, SumEpsilon)
         ELSE CheckPrimalSolution(problem, Everything, SumEpsilon)}

(***************************************************************************)
(* A passcode silences its own code only: the code reported is the first   *)
(* one, in the order of the checks, whose check fails and is enabled; if   *)
(* there is none and the objective is checked, an unjustified finite       *)
(* primal bound is reported also when the solutions are not checked.       *)
(***************************************************************************)
PasscodesSilenceTheirOwn ==
  pc = "done" /\ answer.code = SCIP_OKAY /\ mode = -1 =>
    LET open == Contradictions \ passcodes
    IN  /\ open # {} => retcode = Min(open)
        /\ open = {} => retcode \notin {DUALFAIL, PRIMALFAIL}
        /\ retcode \notin passcodes \ {OKAY}

UnjustifiedBoundReported ==
  /\ pc = "done" /\ answer.code = SCIP_OKAY /\ mode = -1
  /\ OBJECTIVEFAIL \notin passcodes /\ Contradictions \ passcodes = {}
  /\ answer.ray = Rayless /\ cutoff < 0
  /\ Abs(answer.primal) < Infinity
  /\ \A i \in 1..Len(answer.sols) :
       Cost(answer.primal) + Unit <= Cost(PrimalObjective(problem, answer.sols[i]))
  => retcode = OBJECTIVEFAIL

(***************************************************************************)
(* A dual bound or a point that is wrong by 1 or more is beyond every      *)
(* tolerance: relax() moves a bound by less than 1, however large it is.   *)
(***************************************************************************)
GrossDual ==
  /\ reference.status \in {"feasible", "infeasible", "unbounded"}
  /\ Abs(value) < Infinity
  /\ Cost(answer.dual) >= Cost(value) + Unit

GrossPoint(x) ==
  \/ \E c \in Unfixed(problem) :
       \/ "LbInf" \notin problem.cols[c].flags /\ x[c] + Unit <= problem.cols[c].lb
       \/ "UbInf" \notin problem.cols[c].flags /\ x[c] - Unit >= problem.cols[c].ub
  \/ \E r \in Effective(problem) :
       LET row == problem.rows[r] IN
         \/ "LhsInf" \notin row.flags /\ PrimalActivity(row, x) + Unit <= row.lhs
         \/ "RhsInf" \notin row.flags /\ PrimalActivity(row, x) - Unit >= row.rhs

GrossErrorsReported ==
  pc = "done" /\ answer.code = SCIP_OKAY /\ mode = -1 =>
    /\ GrossDual /\ DUALFAIL \notin passcodes => retcode = DUALFAIL
    /\ /\ PRIMALFAIL \notin passcodes
       /\ \E i \in 1..Len(answer.sols) : GrossPoint(answer.sols[i])
       => retcode \in {DUALFAIL, PRIMALFAIL}

(***************************************************************************)
(* A return code of SCIP never passes for the result of a check, so that   *)
(* a passcode for a check cannot hide a crash.                             *)
(***************************************************************************)
ErrorsStayApart ==
  /\ pc = "done" /\ answer.code # SCIP_OKAY
  => retcode < 0 \/ (answer.code - 1 \in passcodes /\ retcode = OKAY)

(***************************************************************************)
(* The dual limit that doSetUp() sets lies beyond the bound at which the   *)
(* dual check fails: a solve cut off by it is reported, and a correct one  *)
(* is never cut off.  Not for a value so large that relax() moves it by    *)
(* nearly 1: the limit, with twice the tolerance, is then the closer one.  *)
(***************************************************************************)
DualLimit_Tight == Relax(value, problem.minimize, SumEpsilon)

DualLimit == Relax(value, problem.minimize, 2 * SumEpsilon)

DualLimitIsABug ==
  reference.status = "feasible" /\ pc = "done" /\ mode = -1 /\ answer.code = SCIP_OKAY =>
    LET beyond == IF problem.minimize THEN Scaled(answer.dual) >= DualLimit
                                      ELSE Scaled(answer.dual) <= DualLimit
        moderate == (Abs(value) + 2 * Unit) * SumEpsilon < Unit * Fine
    IN  beyond /\ moderate /\ Abs(value) < Infinity /\ DUALFAIL \notin passcodes
        => retcode = DUALFAIL

-------------------------------------------------------------------------------
(***************************************************************************)
(* An inductive invariant: the code is what the checks made so far leave   *)
(* of the answer, each applied in its turn to the same answer.             *)
(***************************************************************************)
AfterDual ==
  IF DUALFAIL \in passcodes THEN OKAY
  ELSE CheckDualBound(problem, reference, value, answer.dual, SumEpsilon)

AfterPrimal ==
  IF AfterDual # OKAY THEN AfterDual
  ELSE IF PRIMALFAIL \in passcodes THEN OKAY
  ELSE CheckPrimalSolution(problem, Range(solution), SumEpsilon)

AfterObjective ==
  IF AfterPrimal # OKAY \/ OBJECTIVEFAIL \in passcodes THEN AfterPrimal
  ELSE CheckObjectiveValue(problem, PrimalBound, Best, SumEpsilon)

AfterCertificate ==
  IF AfterObjective # OKAY \/ ~ certificate \/ answer.nodes = 0 THEN AfterObjective
  ELSE IF ~ answer.completes THEN SolverRetcode.COMPLETIONFAIL
  ELSE IF ~ answer.verifies THEN SolverRetcode.CERTIFICATIONFAIL
  ELSE OKAY

Verdict ==
  IF answer.code # SCIP_OKAY THEN answer.code - 1
  ELSE IF mode = -1 THEN AfterCertificate
  ELSE CheckCountNumber(problem, reference, value, answer.dual, answer.primal, answer.count)

InputInv ==
  /\ \E i \in Instances : problem = i.problem /\ reference = i.reference
  /\ mode \in {-1, 0} /\ certificate \in BOOLEAN
  /\ cutoff \in Cutoffs /\ passcodes \in PasscodeSets
  /\ pc # "setup" => value = ReferenceValue(problem, reference)

AnswerInv ==
  pc \notin {"setup", "solve"} =>
    \/ pc \in {"passcodes", "done"} /\ answer \in Failures
    \/ pc \in {"count", "passcodes", "done"} /\ mode = 0 /\ answer \in Countings
    \/ pc # "count" /\ mode = -1 /\ answer \in Certified \cup Optimizations

SolutionInv ==
  (pc \in {"objective", "certificate", "passcodes", "done"} /\ answer.code = SCIP_OKAY
   /\ mode = -1 /\ AfterDual = OKAY)
  => solution = [i \in 1..TranslatedNumber |-> Translate(i)]

CodeInv ==
  /\ pc \in {"setup", "solve", "dual", "count"} => retcode = OKAY
  /\ pc = "primal" => retcode = AfterDual
  /\ pc = "objective" => retcode = AfterPrimal
  /\ pc = "certificate" => retcode = AfterObjective
  /\ pc = "passcodes" => retcode = Verdict
  /\ pc = "done" => retcode = IF Verdict \in passcodes THEN OKAY ELSE Verdict

IInv ==
  /\ pc \in {"setup", "solve", "dual", "primal", "objective", "count",
             "certificate", "passcodes", "done"}
  /\ InputInv /\ AnswerInv /\ SolutionInv /\ CodeInv
===============================================================================
