---------------------------- MODULE MCReductions ------------------------------
(***************************************************************************)
(* Problems of two columns and two rows, in units of 1/100.                *)
(***************************************************************************)
EXTENDS Reductions

Col(lb, ub, obj, flags) == [lb |-> lb, ub |-> ub, obj |-> obj, flags |-> flags]
Row(lhs, rhs, flags, coef) == [lhs |-> lhs, rhs |-> rhs, flags |-> flags, coef |-> coef]

Reference(known) == [status |-> known, primal |-> <<>>, ray |-> <<>>, box |-> {}]

(* A fractional and an integral column, a row that rounding turns into an
   equation, a coefficient that rounding removes. *)
Feasible ==
  [problem |->
     [cols |-> << Col(0, 0, 50, {"UbInf"}), Col(0, 150, 100, {"Integral"}) >>,
      rows |-> << Row(0, 130, {"LhsInf"}, 1 :> 30 @@ 2 :> 100),
                  Row(70, 100, {}, 2 :> 100) >>],
   solution |-> [Reference("feasible") EXCEPT !.primal = <<50, 100>>]]

(* Two integral columns whose sum would have to be 2 and at most 1. *)
Infeasible ==
  [problem |->
     [cols |-> << Col(0, 100, 0, {"Integral"}), Col(0, 100, 0, {"Integral"}) >>,
      rows |-> << Row(200, 0, {"RhsInf"}, 1 :> 100 @@ 2 :> 100),
                  Row(0, 0, {"LhsInf"}, 1 :> 100) >>],
   solution |-> [Reference("infeasible") EXCEPT !.box = {0, 100}]]

(* The first column can grow for ever, the second is closed. *)
Unbounded ==
  [problem |->
     [cols |-> << Col(0, 0, -100, {"UbInf"}), Col(100, 100, 50, {}) >>,
      rows |-> << Row(-200, 0, {"RhsInf"}, 1 :> 100 @@ 2 :> -100),
                  Row(0, 150, {"LhsInf"}, 2 :> 50) >>],
   solution |-> [Reference("unbounded") EXCEPT !.primal = <<0, 100>>, !.ray = <<100, 0>>]]

(* No reference, domains and sides away from zero and from the integers. *)
Unknown ==
  [problem |->
     [cols |-> << Col(30, 0, 0, {"UbInf", "Integral"}), Col(0, -70, 0, {"LbInf"}) >>,
      rows |-> << Row(30, 270, {}, 1 :> 100), Row(50, 50, {"Equation"}, 1 :> 100 @@ 2 :> 50) >>],
   solution |-> Reference("unknown")]

(* A coefficient that a tolerance of 1/10 takes for zero. *)
Tiny ==
  [problem |->
     [cols |-> << Col(0, 0, 0, {}), Col(0, 100, 100, {}) >>,
      rows |-> << Row(0, 100, {"LhsInf"}, 1 :> 10 @@ 2 :> 100) >>],
   solution |-> [Reference("feasible") EXCEPT !.primal = <<0, 100>>]]

(* An integral column without an integer between its bounds. *)
Gap ==
  [problem |->
     [cols |-> << Col(30, 70, 100, {"Integral"}) >>,
      rows |-> << Row(0, 0, {"RhsInf"}, 1 :> 100) >>],
   solution |-> [Reference("infeasible") EXCEPT !.box = {0, 100}]]

MCInstances == {Feasible, Infeasible, Unbounded, Unknown}
MCTiny      == {Tiny}
MCGap       == {Gap}
MCModifiers == ByRow \cup ByColumn
===============================================================================
