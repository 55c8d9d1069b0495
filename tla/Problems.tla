------------------------------- MODULE Problems -------------------------------
(***************************************************************************)
(* Problem<REAL> with its ConstraintMatrix and VariableDomains as one      *)
(* value: a record of columns and rows.  A row holds the coefficients that *)
(* are stored, as a function on the columns that have one.  Bounds and     *)
(* sides keep their numbers when a flag declares them infinite.            *)
(***************************************************************************)
EXTENDS Tolerances, FiniteSets, Functions

ColFlag == {"LbInf", "UbInf", "Integral", "Fixed"}
RowFlag == {"LhsInf", "RhsInf", "Equation", "Redundant"}

SolutionStatus == {"unknown", "infeasible", "feasible", "unbounded"}

Columns(p) == DOMAIN p.cols
Rows(p)    == DOMAIN p.rows

Fixed(p, c)     == "Fixed" \in p.cols[c].flags
Integral(p, c)  == "Integral" \in p.cols[c].flags
Redundant(p, r) == "Redundant" \in p.rows[r].flags

(* The bounds allow more than one value. *)
Open(col) ==
  "LbInf" \in col.flags \/ "UbInf" \in col.flags \/ IsZetaLT(col.lb, col.ub)

-------------------------------------------------------------------------------
(* A side that comes within Zeta of the other one takes its value.         *)
Snapped(value, other) == IF IsZetaEq(value, other) THEN other ELSE value

(* Equation is set exactly if the other side is finite and the two agree. *)
Marked(row, infinite) ==
  [row EXCEPT !.flags =
     IF infinite \notin @ /\ row.lhs = row.rhs THEN @ \cup {"Equation"}
                                               ELSE @ \ {"Equation"}]

(* Equation is not maintained. *)
ModifyLeft_Unmarked(row, value) ==
  [row EXCEPT !.flags = @ \ {"LhsInf"}, !.lhs = Snapped(value, row.rhs)]

ModifyLeft(row, value) ==
  Marked([row EXCEPT !.flags = @ \ {"LhsInf"}, !.lhs = Snapped(value, row.rhs)],
         "RhsInf")

ModifyRight(row, value) ==
  Marked([row EXCEPT !.flags = @ \ {"RhsInf"}, !.rhs = Snapped(value, row.lhs)],
         "LhsInf")

(***************************************************************************)
(* Overwrite a stored coefficient; a zero is removed from the storage.     *)
(***************************************************************************)
ChangeCoefficient(row, c, value) ==
  [row EXCEPT !.coef =
     IF value = 0 THEN [d \in DOMAIN @ \ {c} |-> @[d]]
                  ELSE [@ EXCEPT ![c] = value]]

-------------------------------------------------------------------------------
(* Activity of a row and objective value of a point or a ray. *)
Activity(row, x) == SumFunction([c \in DOMAIN row.coef |-> Times(row.coef[c], x[c])])

RoundedActivity(row, x) ==
  SumFunction([c \in DOMAIN row.coef |-> Times(Round(row.coef[c]), x[c])])

ObjectiveOf(p, x) ==
  SumFunction([c \in {k \in Columns(p) : ~ Fixed(p, k)} |-> Times(p.cols[c].obj, x[c])])

(***************************************************************************)
(* Problem::checkFeasibility without its tolerance.                        *)
(***************************************************************************)
WithinDomain(p, c, v) ==
  /\ "LbInf" \notin p.cols[c].flags => v >= p.cols[c].lb
  /\ "UbInf" \notin p.cols[c].flags => v <= p.cols[c].ub
  /\ Integral(p, c) => v = Round(v)

WithinSides(row, activity) ==
  /\ "LhsInf" \notin row.flags => activity >= row.lhs
  /\ "RhsInf" \notin row.flags => activity <= row.rhs

IsFeasible(p, x) ==
  /\ \A c \in Columns(p) : Fixed(p, c) \/ WithinDomain(p, c, x[c])
  /\ \A r \in Rows(p) :
       Redundant(p, r) \/ WithinSides(p.rows[r], Activity(p.rows[r], x))

(* A direction in which a feasible point can go for ever, to its profit. *)
IsRay(p, d) ==
  /\ \A c \in Columns(p) :
       /\ Fixed(p, c) => d[c] = 0
       /\ d[c] < 0 => "LbInf" \in p.cols[c].flags
       /\ d[c] > 0 => "UbInf" \in p.cols[c].flags
  /\ \A r \in Rows(p) :
       \/ Redundant(p, r)
       \/ /\ "LhsInf" \notin p.rows[r].flags => Activity(p.rows[r], d) >= 0
          /\ "RhsInf" \notin p.rows[r].flags => Activity(p.rows[r], d) <= 0
  /\ ObjectiveOf(p, d) < 0
===============================================================================
