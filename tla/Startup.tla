-------------------------------- MODULE Startup --------------------------------
(***************************************************************************)
(* From the options to the first set up: OptionsInfo::checkFiles, the end  *)
(* of main and BuggerRun::apply up to the loaded instance.  A file is what *)
(* can read it: the solver, the general parser, both or none.  Settings,   *)
(* problem and solution are what they were taken from.                     *)
(***************************************************************************)
EXTENDS FiniteSets

CONSTANTS
  FileOptions,  \* records of file names: problem, param, settings, target, solution
  Disks,        \* functions from the existing files to the sets of their readers
  Interfaces    \* solver interfaces, by the name of their readInstance

Words == {"infeasible", "unbounded", "unknown"}

(* No file has the name of a word that stands for a reference. *)
ASSUME DisksAssumption ==
  \A d \in Disks : \A f \in DOMAIN d :
    f \notin Words \cup {""} /\ d[f] \subseteq {"solver", "general"}

ASSUME InterfacesAssumption == Interfaces \subseteq {"scip", "soplex", "default"}

VARIABLES
  step,       \* the next step, "run" or "stop"
  options, disk, interface,
  enabled,    \* the setting modifier is enabled
  targets,    \* the target settings
  reference,  \* the status of the reference solution
  instance    \* settings, problem and solution, "none" if missing

startupvars ==
  <<step, options, disk, interface, enabled, targets, reference, instance>>

Nothing == [settings |-> "none", problem |-> "none", solution |-> "none"]

StartupInit ==
  /\ step = "check" /\ options \in FileOptions /\ disk \in Disks
  /\ interface \in Interfaces /\ enabled \in BOOLEAN
  /\ targets = "none" /\ reference = "unknown" /\ instance = Nothing

FileNotFound(file) == file # "" /\ file \notin DOMAIN disk

Reads(who, file) == file \in DOMAIN disk /\ who \in disk[file]

Named == {options.problem, options.param, options.settings, options.target}

FilesValid ==
  /\ \A f \in Named : ~FileNotFound(f)
  /\ options.solution \in Words \/ ~FileNotFound(options.solution)

CheckFiles ==
  /\ step = "check"
  /\ step' = IF FilesValid THEN "targets" ELSE "stop"
  /\ enabled' = (enabled /\ options.target # "")
  /\ UNCHANGED <<options, disk, interface, targets, reference, instance>>

(* parseSettings(): without a file these are the defaults of the solver. *)
ParsesSettings(file) == file = "" \/ Reads("solver", file)

ParseTargets ==
  /\ step = "targets" /\ step' = "status"
  /\ enabled' = (enabled /\ ParsesSettings(options.target))
  /\ targets' = IF enabled' THEN options.target ELSE targets
  /\ UNCHANGED <<options, disk, interface, reference, instance>>

(* A missing solution is taken for a file. *)
StatusOf_Empty(solution) ==
  IF solution \in Words THEN solution ELSE "feasible"

StatusOf(solution) ==
  IF solution = "" THEN "unknown"
  ELSE IF solution \in Words THEN solution ELSE "feasible"

ChooseStatus ==
  /\ step = "status" /\ step' = "read"
  /\ reference' = StatusOf(options.solution)
  /\ UNCHANGED <<options, disk, interface, enabled, targets, instance>>

-------------------------------------------------------------------------------
(* readInstance() of the interfaces.  solution is the name of a file or "".*)

(* The solution is read even if the problem is not. *)
ReadScip_Solution(solution) ==
  IF ~ParsesSettings(options.settings) THEN Nothing
  ELSE [settings |-> options.settings,
        problem  |-> IF Reads("solver", options.problem) THEN "solver" ELSE "none",
        solution |-> IF solution = "" THEN "empty"
                     ELSE IF Reads("solver", solution) THEN "solver" ELSE "none"]

ReadScip(solution) ==
  IF ~ParsesSettings(options.settings) THEN Nothing
  ELSE IF ~Reads("solver", options.problem)
    THEN [Nothing EXCEPT !.settings = options.settings]
  ELSE [settings |-> options.settings, problem |-> "solver",
        solution |-> IF solution = "" THEN "empty"
                     ELSE IF Reads("solver", solution) THEN "solver" ELSE "none"]

(* SoPlex has no reader for solutions. *)
ReadSoplex(solution) ==
  IF ~ParsesSettings(options.settings) THEN Nothing
  ELSE IF ~Reads("solver", options.problem)
    THEN [Nothing EXCEPT !.settings = options.settings]
  ELSE [settings |-> options.settings, problem |-> "solver",
        solution |-> IF solution = "" THEN "empty" ELSE "none"]

(* An interface need not have a reader at all. *)
ReadNothing(solution) == Nothing

ReadBySolver(solution) ==
  CASE interface = "scip"    -> ReadScip(solution)
    [] interface = "soplex"  -> ReadSoplex(solution)
    [] interface = "default" -> ReadNothing(solution)

ReadInstance ==
  /\ step = "read" /\ step' = "settings"
  /\ instance' = ReadBySolver(IF reference = "feasible" THEN options.solution ELSE "")
  /\ UNCHANGED <<options, disk, interface, enabled, targets, reference>>

SettingsFallback ==
  /\ step = "settings" /\ step' = "problem"
  /\ enabled' = (enabled /\ instance.settings # "none")
  /\ instance' = [instance EXCEPT !.settings = IF @ = "none" THEN "empty" ELSE @]
  /\ UNCHANGED <<options, disk, interface, targets, reference>>

(* MpsParser is run on a problem the solver could not read. *)
ProblemFallback ==
  /\ step = "problem"
  /\ \/ instance.problem # "none" /\ step' = "solution" /\ UNCHANGED instance
     \/ /\ instance.problem = "none" /\ Reads("general", options.problem)
        /\ instance' = [instance EXCEPT !.problem = "general"] /\ step' = "solution"
     \/ /\ instance.problem = "none" /\ ~Reads("general", options.problem)
        /\ step' = "stop" /\ UNCHANGED instance
  /\ UNCHANGED <<options, disk, interface, enabled, targets, reference>>

(* SolParser is run on what the option names, be it a file or not. *)
SolutionFallback ==
  /\ step = "solution"
  /\ \/ instance.solution # "none" /\ step' = "run" /\ UNCHANGED instance
     \/ /\ instance.solution = "none" /\ Reads("general", options.solution)
        /\ instance' = [instance EXCEPT !.solution = "general"] /\ step' = "run"
     \/ /\ instance.solution = "none" /\ ~Reads("general", options.solution)
        /\ step' = "stop" /\ UNCHANGED instance
  /\ UNCHANGED <<options, disk, interface, enabled, targets, reference>>

StartupNext ==
  \/ CheckFiles \/ ParseTargets \/ ChooseStatus \/ ReadInstance
  \/ SettingsFallback \/ ProblemFallback \/ SolutionFallback

StartupSpec == StartupInit /\ [][StartupNext]_startupvars /\ WF_startupvars(StartupNext)

-------------------------------------------------------------------------------
(* Besides the types: an instance that is set up has all its parts. *)
StartupTypeOK ==
  /\ step \in {"check", "targets", "status", "read", "settings", "problem",
             "solution", "run", "stop"}
  /\ enabled \in BOOLEAN
  /\ reference \in Words \cup {"feasible"}
  /\ instance.problem \in {"none", "solver", "general"}
  /\ instance.solution \in {"none", "empty", "solver", "general"}
  /\ step = "run" => \A part \in DOMAIN instance : instance[part] # "none"

(* The setting modifier takes part in a run only if the target settings    *)
(* and the settings were both read by the solver, so that their lists can  *)
(* be compared one by one.                                                 *)
SettingNeedsBoth ==
  step = "run" /\ enabled =>
    /\ options.target # "" /\ targets = options.target
    /\ ParsesSettings(targets)
    /\ instance.settings = options.settings /\ ParsesSettings(options.settings)

(* A run has a reference solution exactly if it was given one, and then    *)
(* its values; a word or nothing leads to a solution without values.       *)
ReferenceMatchesStatus ==
  step = "run" =>
    /\ reference = "feasible" <=> options.solution \notin Words \cup {""}
    /\ reference = "feasible" <=> instance.solution \in {"solver", "general"}

(* Values are by columns: those the solver reads are those of its problem, *)
(* never of the problem the general parser reads in its own order.         *)
IndicesAgree ==
  step \in {"problem", "solution", "run"} /\ instance.solution = "solver" =>
    instance.problem = "solver"

(* With a reference solution both parsers have to fail on the problem, or  *)
(* the general one on the solution, for the program to give up.            *)
ReferenceIsTried ==
  step = "stop" /\ FilesValid /\ reference = "feasible" =>
    \/ ~Reads("general", options.problem)
    \/ ~Reads("general", options.solution)

===============================================================================
