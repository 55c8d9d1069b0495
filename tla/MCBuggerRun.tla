----------------------------- MODULE MCBuggerRun ------------------------------
(***************************************************************************)
(* Small instances of BuggerRun for TLC: round and stage limits in all     *)
(* their combinations, and numbers of batches and efforts of which one     *)
(* product that defines the expenditure is a long long, one wraps to a     *)
(* negative number and one to a positive number that is too small.         *)
(***************************************************************************)
EXTENDS BuggerRun

LoopEfforts      == {-1, 0, 2, 4}
LoopBatchNumbers == {2, 5}
LoopExpenditures == {-1, 5}
LoopRoundLimits  == {-1, 0, 2}
LoopStageLimits  == {-1, 0, 2, 4}
===============================================================================
