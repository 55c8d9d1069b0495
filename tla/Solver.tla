-------------------------------- MODULE Solver --------------------------------
(***************************************************************************)
(* The three modules of the solver interfaces side by side: the limits of  *)
(* SCIP (SolverLimits), a session with SoPlex (Soplex) and the checks of a *)
(* solve (Checks).  They share no state: component says which of them a    *)
(* behaviour belongs to, and the variables of the others rest.             *)
(***************************************************************************)
EXTENDS SolverLimits

CONSTANTS
  SoplexFiles, SoplexRequested, Problems, Objectives, SoplexSpaces, Errors,
  HasRefinements, Margin, SoplexInfinity,                  \* SoplexSession
  Unit, Fine, Infinity, NaN, Instances, Cutoffs, PasscodeSets, ScipErrors,
  Bounds, Points, Rays, ScipCounts, SumEpsilon, Epsilon    \* ScipSolve

VARIABLES
  component,
  step, problem, value, retcode,                           \* shared names
  space, wished, inuse, fresh, target, given, soplex, opened, first, reset, known,
  reference, solvemode, certificate, cutoff, passcodes, answer, solution

Soplex ==
  INSTANCE SoplexSession
    WITH Files <- SoplexFiles, Requested <- SoplexRequested, Spaces <- SoplexSpaces,
         Infinity <- SoplexInfinity,
         pc <- step, limitspace <- space, enabled <- wished, limits <- inuse,
         initial <- fresh, settings <- given, file <- opened

Checks == INSTANCE ScipSolve WITH Counts <- ScipCounts, pc <- step, mode <- solvemode

ASSUME SolverAssumption ==
  /\ Soplex!SessionAssumption /\ Soplex!RequestedAssumption /\ Soplex!FilesAssumption
  /\ Checks!NumbersAssumption /\ Checks!ScipAssumption /\ Checks!InstancesAssumption

-------------------------------------------------------------------------------
None == 0

(* The variables that no other component has. *)
shared     == <<step, problem, value, retcode>>
soplexOnly == <<space, wished, inuse, fresh, target, given, soplex, opened, first, reset, known>>
checksOnly == <<reference, solvemode, certificate, cutoff, passcodes, answer, solution>>

NoLimitsSession ==
  /\ pc = "idle" /\ available = {} /\ mode = -1 /\ limitspace = -1 /\ enabled = {}
  /\ limits = NoLimits /\ initial = TRUE /\ file = None /\ parsed = FALSE
  /\ settings = [limits |-> NoLimits, others |-> <<>>]
  /\ scip = NoScip /\ effort = -1 /\ used = <<>> /\ before = <<>>

NoSoplex ==
  /\ space = None /\ wished = None /\ inuse = None /\ fresh = None /\ target = None
  /\ given = None /\ soplex = None /\ opened = None /\ first = None /\ reset = None
  /\ known = None

NoChecks ==
  /\ reference = None /\ solvemode = None /\ certificate = None /\ cutoff = None
  /\ passcodes = None /\ answer = None /\ solution = None

SolverInit ==
  \/ /\ component = "limits" /\ Init /\ NoSoplex /\ NoChecks
     /\ step = None /\ problem = None /\ value = None /\ retcode = None
  \/ component = "soplex" /\ Soplex!Init /\ NoLimitsSession /\ NoChecks
  \/ component = "checks" /\ Checks!Init /\ NoLimitsSession /\ NoSoplex

LimitsStep ==
  component = "limits" /\ Next /\ UNCHANGED <<component, shared, soplexOnly, checksOnly>>

SoplexStep ==
  component = "soplex" /\ Soplex!Next /\ UNCHANGED <<component, vars, checksOnly>>

ChecksStep ==
  component = "checks" /\ Checks!Next /\ UNCHANGED <<component, vars, soplexOnly>>

SolverNext == LimitsStep \/ SoplexStep \/ ChecksStep

SolverSpec ==
  SolverInit /\ [][SolverNext]_<<component, vars, shared, soplexOnly, checksOnly>>

-------------------------------------------------------------------------------
(* SCIP accepts the limits it is handed, all but a time limit beyond a     *)
(* long long that became negative, and runs with what the settings say;    *)
(* the ones that a bug leaves do not cut off its repetition; limits.find() *)
(* finds every limit setting.                                              *)
LimitsWork ==
  component = "limits" =>
    /\ TypeOK /\ LimitSettingsKnown /\ Repeatable /\ SetUpSucceeds /\ SetUpIsComplete

(* The objective limit of the settings file keeps its distance from the    *)
(* reference objective in every reduced problem, and the limits the user   *)
(* asks for are on their side of it if SoPlex knew the sense.              *)
ObjectiveLimitsFollow ==
  component = "soplex" =>
    /\ Soplex!TypeOK /\ Soplex!LimitSettingsKnown
    /\ Soplex!LimitFollowsReference /\ Soplex!ObjectiveLimitsSided

(* A solver whose bounds, solutions and ray are right is not accused of a  *)
(* bug, whatever the objective limit and whichever checks are disabled.    *)
NoFalseAlarm == component = "checks" => Checks!TypeOK /\ Checks!NoFalseAlarm

(* A passcode silences its own code only, and the first check that fails   *)
(* gives its code.                                                         *)
PasscodesSilenceTheirOwn == component = "checks" => Checks!PasscodesSilenceTheirOwn

(* Bounds without a solution, errors of 1 or more, solves cut off by the   *)
(* dual limit and failures of SCIP are reported as what they are.          *)
ErrorsReported ==
  component = "checks" =>
    /\ Checks!UnjustifiedBoundReported /\ Checks!GrossErrorsReported
    /\ Checks!ErrorsStayApart /\ Checks!DualLimitIsABug
===============================================================================
