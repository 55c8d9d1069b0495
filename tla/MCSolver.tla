------------------------------- MODULE MCSolver --------------------------------
(***************************************************************************)
(* Constants for one run of the three modules of the solver interfaces.    *)
(*                                                                         *)
(*   SolverLimits   old and new names of the dual limit, and a version of  *)
(*                  SCIP without a limit for the best solutions.           *)
(*   SoplexSession  settings files with and without a sense and an         *)
(*                  objective limit, as SoPlex writes them.                *)
(*   ScipSolve      a number 8 stands for 1 and 256 for infinity, a        *)
(*                  tolerance counts 1/16.  One column, x, that is         *)
(*                  integral in some of the problems, and a fixed column   *)
(*                  y.  In one problem the objective is so large that 1 is *)
(*                  below the tolerance relative to it.                    *)
(***************************************************************************)
EXTENDS Solver

-------------------------------------------------------------------------------
MCBuilds ==
  {{"limits/dual", "limits/proofstop", "limits/bestsol", "limits/time"},
   {"limits/proofstop", "limits/restarts", "limits/totalnodes"}}
MCRequested  == {{"DUAL", "BEST", "REST", "TOTA"}, {"DUAL", "BEST", "TIME"}}
MCSpaces     == {-2, 0, 1}
MCUserValues == {-1, 1, 3}

-------------------------------------------------------------------------------
MCFile(sense, params) == [sense |-> sense, params |-> params]

MCFiles ==
  {MCFile("default", <<>>),
   MCFile("default", [objlimit_upper |-> 12, timelimit |-> 5]),
   MCFile("minimize", [objlimit_lower |-> -9, iterlimit |-> 3])}

MCSoplexRequested == {{"DUAL"}, {"DUAL", "PRIM", "ITER"}, {"REFI", "TIME"}}
MCProblems ==
  {[sense |-> "minimize", status |-> "feasible"],
   [sense |-> "maximize", status |-> "feasible"],
   [sense |-> "minimize", status |-> "unknown"]}
MCObjectives == {-2, 3}
MCSoplexSpaces == {-2, 1}
MCErrors     == {-15, -11}

-------------------------------------------------------------------------------
MCColumn(lb, ub, obj, flags) == [lb |-> lb, ub |-> ub, obj |-> obj, flags |-> flags]

MCProblem(sense, offset, column, row) ==
  [minimize |-> sense, offset |-> offset,
   cols |-> [x |-> column, y |-> MCColumn(0, 0, 3, {"Fixed"})],
   rows |-> <<row, [coef |-> [x |-> 1], lhs |-> 16, rhs |-> 0, flags |-> {"Redundant"}]>>]

(* x >= 1, integral, at least 1.5: the optimum is 2. *)
MCRow == [coef |-> [x |-> 2], lhs |-> 24, rhs |-> 0, flags |-> {"RhsInf"}]

MCPoint(v) == [x |-> v, y |-> 0]

MCFeasible(v) == [status |-> "feasible", primal |-> MCPoint(v)]
MCStatus(s)   == [status |-> s]

MCBounded   == MCProblem(TRUE, 0, MCColumn(8, 0, 1, {"UbInf", "Integral"}), MCRow)
MCUnbounded == MCProblem(FALSE, 0, MCColumn(8, 0, 1, {"UbInf"}), MCRow)
MCLarge     == [MCBounded EXCEPT !.offset = 84]
MCEmpty     == MCProblem(TRUE, 0, MCColumn(0, 8, 1, {}), MCRow)

MCInstances ==
  {[problem |-> MCLarge, reference |-> MCFeasible(16)]} \cup
  {[problem |-> MCBounded, reference |-> s] :
     s \in {MCFeasible(16), MCFeasible(24), MCStatus("unknown")}}
  \cup {[problem |-> MCUnbounded, reference |-> s] :
     s \in {MCFeasible(16), MCStatus("unbounded")}}
  \cup {[problem |-> MCEmpty, reference |-> s] :
     s \in {MCStatus("infeasible"), MCStatus("unknown")}}

MCScipErrors   == {0, -1}
MCCounts       == {-2, -1, 0, 1}
MCCutoffs      == {-1, 0}
MCPasscodeSets == {{}, {1}, {2, 4}, {3}, {-1}}
MCBounds       == {-256, 12, 16, 18, 24, 107, 108, 256, 257}
MCPoints       == {MCPoint(v) : v \in {12, 16, 24}}
MCRays         == {MCPoint(8), MCPoint(-8)}
===============================================================================
