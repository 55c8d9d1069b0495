------------------------------- MODULE MCBugger -------------------------------
(***************************************************************************)
(* A program of three modifiers: 0 narrows two columns, 1 fixes them, 2    *)
(* resets one setting.  Every success may make a modifier possible that    *)
(* the loop has passed already.                                            *)
(***************************************************************************)
EXTENDS Bugger

MCNModifiers == 3
MCModifier   == 0..(MCNModifiers - 1)
MCReduction  == {"x1", "x2", "f1", "f2", "s1"}

MCLayout ==
  [m \in MCModifier |->
     CASE m = 0 -> <<"x2", "x1">> [] m = 1 -> <<"f2", "f1">> [] m = 2 -> <<"s1">>]
MCOpens ==
  [e \in MCReduction |->
     CASE e = "f1" -> {"x1"} [] e = "f2" -> {"x2"} [] OTHER -> {}]
MCBars ==
  [e \in MCReduction |->
     CASE e = "x1" -> {"f1"} [] e = "x2" -> {"f2"} [] OTHER -> {}]
MCRefuses ==
  [m \in MCModifier |-> IF m = 0 THEN {"unbounded"} ELSE {}]

MCStatuses == {"unbounded", "feasible"}

MCBatchNumbers == {0, 2}
MCEfforts      == {-1, 1}
MCExpenditures == {1}
MCRoundLimits  == {-1, 0}
MCStageLimits  == {-1, 0}
===============================================================================
