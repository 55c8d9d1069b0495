------------------------- MODULE MCBatchedReduction ---------------------------
(***************************************************************************)
(* Three rows, a column and two settings, in the order of the code.        *)
(* Modifiers 0 removes rows, 1 narrows the column, 2 fixes it after that,   *)
(* 3 resets settings and 4 has no entries.  Coefficients, sides, objective *)
(* and rounding have the shape of 0, 1 or 2.                               *)
(***************************************************************************)
EXTENDS BatchedReduction

MCModifier  == 0..4
MCReduction == {"r1", "r2", "r3", "x", "f", "s1", "s2"}

MCLayout ==
  [m \in MCModifier |->
     CASE m = 0 -> <<"r3", "r2", "r1">>
       [] m = 1 -> <<"x">>
       [] m = 2 -> <<"f">>
       [] m = 3 -> <<"s1", "s2">>
       [] m = 4 -> <<>>]

(* A column is fixed once its bounds meet; a fixed one is not narrowed. *)
MCOpens == [e \in MCReduction |-> IF e = "f" THEN {"x"} ELSE {}]
MCBars  == [e \in MCReduction |-> IF e = "x" THEN {"f"} ELSE {}]

(* Rows are kept when the reference says infeasible, bounds when unbounded. *)
MCRefuses ==
  [m \in MCModifier |->
     CASE m = 0 -> {"infeasible"} [] m = 1 -> {"unbounded"} [] OTHER -> {}]

MCBatchNumbers == {0, 1, 2, 7}
MCEfforts      == {-1, 1}
===============================================================================
