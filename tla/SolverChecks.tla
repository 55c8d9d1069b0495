----------------------------- MODULE SolverChecks -----------------------------
(***************************************************************************)
(* SolverInterface<REAL>: the return codes and the checks that compare the *)
(* result of a solve with the problem and its reference solution.          *)
(*                                                                         *)
(* Numbers count units of 1/Unit; a tolerance counts units of 1/Fine.  A   *)
(* relaxed bound counts units of 1/(Unit * Fine), so that no product is    *)
(* rounded; Scaled brings a number to that unit.                           *)
(***************************************************************************)
EXTENDS Integers, FiniteSets, FiniteSetsExt

CONSTANTS
  Unit,       \* the number 1
  Fine,       \* tolerance steps in 1
  Infinity,   \* the number the solver takes for infinite
  NaN         \* the number of a value that was never assigned

NumbersAssumption ==
  /\ Unit \in Nat \ {0} /\ Fine \in Nat /\ Fine > 2
  /\ Infinity \in Int /\ Infinity > Unit
  /\ NaN \notin Int

SolverRetcode == [OKAY |-> 0, DUALFAIL |-> 1, PRIMALFAIL |-> 2,
                  OBJECTIVEFAIL |-> 3, COMPLETIONFAIL |-> 4, CERTIFICATIONFAIL |-> 5]

OKAY          == SolverRetcode.OKAY
DUALFAIL      == SolverRetcode.DUALFAIL
PRIMALFAIL    == SolverRetcode.PRIMALFAIL
OBJECTIVEFAIL == SolverRetcode.OBJECTIVEFAIL

SolutionStatus == {"unknown", "infeasible", "feasible", "unbounded"}

Abs(a)    == IF a < 0 THEN -a ELSE a
Scaled(a) == a * Fine

-------------------------------------------------------------------------------
(***************************************************************************)
(* A bound moved up or down by the tolerance, relative to its size beyond  *)
(* 1 and by less than 1 in any case.                                       *)
(***************************************************************************)
Slack(bound, tolerance) ==
  IF Abs(bound) < Unit THEN Unit * tolerance
  ELSE IF (Abs(bound) + Unit) * tolerance > Unit * Fine
       THEN Unit * (Fine - tolerance)
       ELSE Abs(bound) * tolerance

Relax(bound, increase, tolerance) ==
  IF bound <= -Infinity THEN Scaled(-Infinity)
  ELSE IF bound >= Infinity THEN Scaled(Infinity)
  ELSE IF increase THEN Scaled(bound) + Slack(bound, tolerance)
                   ELSE Scaled(bound) - Slack(bound, tolerance)

Below(a, bound, tolerance) == Scaled(a) < Relax(bound, FALSE, tolerance)
Above(a, bound, tolerance) == Scaled(a) > Relax(bound, TRUE, tolerance)

-------------------------------------------------------------------------------
(***************************************************************************)
(* Problem<REAL>, as far as the checks read it: columns and rows with      *)
(* flags; coefficients are whole numbers.                                  *)
(***************************************************************************)
Unfixed(p)   == {c \in DOMAIN p.cols : "Fixed" \notin p.cols[c].flags}
Effective(p) == {r \in DOMAIN p.rows : "Redundant" \notin p.rows[r].flags}

PrimalObjective(p, x) ==
  p.offset + SumFunction([c \in Unfixed(p) |-> p.cols[c].obj * x[c]])
RayObjective(p, d) ==
  SumFunction([c \in Unfixed(p) |-> p.cols[c].obj * d[c]])
PrimalActivity(row, x) ==
  SumFunction([c \in DOMAIN row.coef |-> row.coef[c] * x[c]])
RayActivity(row, d) ==
  SumFunction([c \in DOMAIN row.coef |-> row.coef[c] * d[c]])

(* The distance to the closest whole number. *)
Fraction(a) == LET part == a % Unit IN IF 2 * part <= Unit THEN part ELSE Unit - part

(* The largest component of a ray, times the tolerance. *)
RayScale(p, d, tolerance) ==
  tolerance * Max({0} \cup {Abs(d[c]) : c \in Unfixed(p)})

-------------------------------------------------------------------------------
(* The dual bound is no better than the reference. *)
CheckDualBound(p, reference, value, dual, tolerance) ==
  IF Abs(dual) > Infinity THEN DUALFAIL
  ELSE IF reference.status = "unknown" THEN OKAY
  ELSE IF (IF p.minimize THEN Above(dual, value, tolerance)
                         ELSE Below(dual, value, tolerance))
       THEN DUALFAIL ELSE OKAY

(* A point violates a domain or a row by more than the tolerance. *)
OutsideDomain(col, v, tolerance) ==
  \/ Below(v, IF "LbInf" \in col.flags THEN -Infinity ELSE col.lb, tolerance)
  \/ Above(v, IF "UbInf" \in col.flags THEN Infinity ELSE col.ub, tolerance)
  \/ "Integral" \in col.flags /\ Scaled(Fraction(v)) > Unit * tolerance

OutsideRange(row, activity, tolerance) ==
  \/ "LhsInf" \notin row.flags /\ Below(activity, row.lhs, tolerance)
  \/ "RhsInf" \notin row.flags /\ Above(activity, row.rhs, tolerance)

PointFails(p, x, tolerance) ==
  \/ \E c \in Unfixed(p) : OutsideDomain(p.cols[c], x[c], tolerance)
  \/ \E r \in Effective(p) :
       OutsideRange(p.rows[r], PrimalActivity(p.rows[r], x), tolerance)

(* A ray leaves a finite bound or side behind. *)
Escapes(flags, lower, upper, v, scale) ==
  \/ lower \notin flags /\ Scaled(v) < -scale
  \/ upper \notin flags /\ Scaled(v) > scale

RayFails(p, d, tolerance) ==
  LET scale == RayScale(p, d, tolerance)
  IN  \/ \E c \in Unfixed(p) : Escapes(p.cols[c].flags, "LbInf", "UbInf", d[c], scale)
      \/ \E r \in Effective(p) :
           Escapes(p.rows[r].flags, "LhsInf", "RhsInf",
                   RayActivity(p.rows[r], d), scale)

SolutionFails(p, s, tolerance) ==
  \/ s.status \in {"feasible", "unbounded"} /\ PointFails(p, s.primal, tolerance)
  \/ s.status = "unbounded" /\ RayFails(p, s.ray, tolerance)

(* Any of the solutions is infeasible. *)
CheckPrimalSolution(p, solutions, tolerance) ==
  IF \E s \in solutions : SolutionFails(p, s, tolerance) THEN PRIMALFAIL ELSE OKAY

(***************************************************************************)
(* The primal bound is no better than what the best solution is worth.  A  *)
(* ray that improves the objective makes every bound acceptable.           *)
(***************************************************************************)
Improving(p, s, tolerance) ==
  LET slope == RayObjective(p, s.ray)
  IN  Scaled(IF p.minimize THEN -slope ELSE slope) > RayScale(p, s.ray, tolerance)

Worth(p, s) ==
  IF s.status = "infeasible" THEN IF p.minimize THEN Infinity ELSE -Infinity
                             ELSE PrimalObjective(p, s.primal)

CheckObjectiveValue(p, primal, s, tolerance) ==
  IF Abs(primal) > Infinity THEN OBJECTIVEFAIL
  ELSE IF \/ s.status = "unknown"
          \/ s.status = "unbounded" /\ Improving(p, s, tolerance)
       THEN OKAY
  ELSE IF (IF p.minimize THEN Below(primal, Worth(p, s), tolerance)
                         ELSE Above(primal, Worth(p, s), tolerance))
       THEN OBJECTIVEFAIL ELSE OKAY

(***************************************************************************)
(* The number of solutions agrees with the reference.  While solutions are *)
(* counted none is kept, so the primal bound stays infinite; -1 stands for *)
(* a count that does not fit.                                              *)
(***************************************************************************)
CheckCountNumber(p, reference, value, dual, primal, count) ==
  LET worst(a) == (IF p.minimize THEN a ELSE -a) = Infinity
  IN  IF Abs(dual) > Infinity \/ ~ worst(primal) \/ count < -1 THEN OBJECTIVEFAIL
      ELSE IF reference.status = "unknown" THEN OKAY
      ELSE IF reference.status = "infeasible"
           THEN IF count # 0 THEN PRIMALFAIL ELSE OKAY
      ELSE IF Abs(value) < Infinity /\ worst(dual) /\ count = 0 THEN DUALFAIL
      ELSE OKAY
===============================================================================
