------------------------------ MODULE SolverLimits ------------------------------
(***************************************************************************)
(* ScipFactory and ScipInterface around the calls of a solve: the limits   *)
(* that the first solver object enables, the settings read from a file or  *)
(* from SCIP's defaults, what doSetUp() hands to a fresh SCIP, and the     *)
(* limits that a solve with a bug leaves in the settings.                  *)
(*                                                                         *)
(* A SCIP object is external: a stage and a value for every parameter.     *)
(***************************************************************************)
EXTENDS Integers, FiniteSets, Functions

CONSTANTS
  Builds,      \* the sets of limit parameters that a version of SCIP may have
  Requested,   \* the sets of limits that the user may ask for
  Spaces,      \* values of limitspace, in halves; negative for no restriction
  UserValues,  \* values of limit parameters in the settings file
  OtherNames,  \* parameters without a role of their own
  OtherValues,
  Usage,       \* counts of nodes, solutions and restarts, or seconds
  IntMax, LongLongMax,  \* the largest numbers of the two types
  Forever      \* SCIP's default for the time limit

ASSUME LimitsAssumption ==
  /\ IntMax \in Nat /\ LongLongMax \in Nat /\ 1 < IntMax /\ IntMax < LongLongMax
  /\ Usage \subseteq 0..IntMax
  /\ UserValues \subseteq -1..IntMax
  /\ Forever \in Nat /\ IntMax <= Forever
  /\ Spaces \subseteq Int

LongLongMin == -LongLongMax - 1

(* ScipLimit *)
ScipLimit  == {"DUAL", "PRIM", "BEST", "SOLU", "REST", "TOTA", "TIME"}
Counted    == {"BEST", "SOLU", "REST", "TOTA", "TIME"}

ASSUME RequestedAssumption == \A r \in Requested : r \subseteq ScipLimit

(* The names a limit goes by, and the limit that a name stands for. *)
Names(limit) ==
  CASE limit = "DUAL" -> <<"limits/dual", "limits/proofstop">>
    [] limit = "PRIM" -> <<"limits/primal", "limits/objectivestop">>
    [] limit = "BEST" -> <<"limits/bestsol">>
    [] limit = "SOLU" -> <<"limits/solutions">>
    [] limit = "REST" -> <<"limits/restarts">>
    [] limit = "TOTA" -> <<"limits/totalnodes">>
    [] limit = "TIME" -> <<"limits/time">>

KindOf(name) == CHOOSE l \in ScipLimit : name \in Range(Names(l))

VARIABLES
  pc,          \* "idle", "created", "setup", "solved" or "aborted"
  available,   \* limit parameters of this version of SCIP
  mode,        \* -1 to optimize, 0 to count
  limitspace,
  enabled,     \* the set_..._limit parameters that are on
  limits,      \* limit names in use, with the limit they stand for
  initial,     \* no solver was created so far
  file,        \* the values in the settings file
  parsed,      \* the settings were read
  settings,    \* SolverSettings: values of limits and of other parameters
  scip,        \* the stage and the parameters of the current SCIP object
  effort,      \* what getSolvingEffort() returned last
  used,        \* history: what the last solve with a bug needed
  before       \* history: the limits that solve ran under

factory == <<available, mode, limitspace, enabled, limits, initial>>
history == <<used, before>>
vars == <<pc, factory, file, parsed, settings, scip, effort, history>>

-------------------------------------------------------------------------------
(* SCIP_Stage *)
SolvingStages == {"TRANSFORMING", "TRANSFORMED", "INITPRESOLVE", "PRESOLVING",
                  "EXITPRESOLVE", "PRESOLVED", "INITSOLVE", "SOLVING", "SOLVED",
                  "EXITSOLVE"}

NoScip == [stage |-> "NONE"]
NoLimits == <<>>

DefaultOf(name) == IF KindOf(name) = "TIME" THEN Forever ELSE -1

(* SCIP accepts what lies in the range of a parameter. *)
Accepts(name, value) ==
  CASE KindOf(name) = "TIME" -> value \in 0..Forever
    [] KindOf(name) = "TOTA" -> value \in -1..LongLongMax
    [] OTHER                 -> value \in -1..IntMax

Fresh ==
  [stage  |-> "INIT",
   limits |-> [n \in available |-> DefaultOf(n)],
   others |-> [n \in OtherNames |-> CHOOSE v \in OtherValues : TRUE],
   fixed  |-> FALSE]

TypeOK ==
  /\ pc \in {"idle", "created", "setup", "solved", "aborted"}
  /\ available \in Builds /\ enabled \subseteq ScipLimit
  /\ DOMAIN limits \subseteq available
  /\ \A n \in DOMAIN limits : limits[n] = KindOf(n)
  /\ \A n \in DOMAIN settings.limits :
       settings.limits[n] \in LongLongMin..LongLongMax
  /\ effort >= -1

Init ==
  /\ available \in Builds
  /\ mode \in {-1, 0}
  /\ limitspace \in Spaces
  /\ enabled \in Requested
  /\ limits = NoLimits
  /\ initial = TRUE
  /\ \E v \in UserValues, o \in OtherValues :
       file = [limits |-> [n \in available |-> IF KindOf(n) = "TIME" /\ v < 0
                                               THEN Forever ELSE v],
               others |-> [n \in OtherNames |-> o]]
  /\ parsed = FALSE
  /\ settings = [limits |-> NoLimits, others |-> <<>>]
  /\ scip = NoScip
  /\ effort = -1
  /\ used = <<>> /\ before = <<>>
  /\ pc = "idle"

-------------------------------------------------------------------------------
(***************************************************************************)
(* The first solver object settles which limits are in use: those that are *)
(* asked for, that make sense for the mode and the space, and that SCIP    *)
(* has under one of their names.  Only SCIP parameters without a negative  *)
(* meaning restrict: a negative space leaves the counted limits alone.     *)
(***************************************************************************)
has_setting(name) == name \in available

Wanted ==
  enabled \ ((IF mode = -1 THEN {} ELSE {"DUAL", "PRIM", "BEST", "SOLU", "REST"})
             \cup (IF limitspace < 0 THEN Counted ELSE {}))

Usable(limit) == {n \in Range(Names(limit)) : has_setting(n)}

FirstName(limit) ==
  LET names == Names(limit)
  IN  names[CHOOSE i \in DOMAIN names :
              has_setting(names[i]) /\ \A j \in 1..(i - 1) : ~ has_setting(names[j])]

SelectedLimits_All ==
  [n \in {m \in available : KindOf(m) \in enabled} |-> KindOf(n)]

SelectedLimits ==
  [n \in {FirstName(l) : l \in {k \in Wanted : Usable(k) # {}}} |-> KindOf(n)]

(* create_solver() and the constructor of ScipInterface. *)
CreateSolver ==
  /\ pc = "idle"
  /\ scip' = Fresh
  /\ IF initial
     THEN /\ limits' = SelectedLimits
          /\ enabled' = {l \in Wanted : Usable(l) # {}}
     ELSE UNCHANGED <<limits, enabled>>
  /\ initial' = FALSE
  /\ pc' = "created"
  /\ UNCHANGED <<available, mode, limitspace, file, parsed, settings, effort, history>>

(***************************************************************************)
(* A conversion from a real number that does not fit is undefined: x86     *)
(* gives the least number, other processors the largest.  The cap is the   *)
(* largest number plus one once it is a double.                            *)
(***************************************************************************)
LongLongOf(real) ==
  IF real <= LongLongMax THEN {real} ELSE {LongLongMin, LongLongMax}

CapAt == LongLongMax + 1
Capped(real) == IF real < CapAt THEN real ELSE CapAt

(* Limits without a number are left to doSetUp(), the three parameters the *)
(* bugger controls to set_arithmetic(); the rest keeps its type and value. *)
ParsedLimits(given) ==
  {l \in [{n \in DOMAIN limits : limits[n] \in Counted} -> LongLongMin..LongLongMax] :
     \A n \in DOMAIN l :
       IF limits[n] = "TIME" THEN l[n] \in LongLongOf(Capped(given[n]))
                             ELSE l[n] = given[n]}

(* parseSettings(): the settings of the file, or none if it is unreadable. *)
ParseSettings ==
  /\ pc = "created" /\ ~ parsed
  /\ \/ /\ \E l \in ParsedLimits(file.limits) :
             settings' = [limits |-> l, others |-> file.others]
        /\ scip' = [scip EXCEPT !.limits = file.limits, !.others = file.others, !.fixed = TRUE]
     \/ /\ scip' = [scip EXCEPT !.fixed = TRUE]
        /\ UNCHANGED settings
  /\ parsed' = TRUE
  /\ pc' = "solved"
  /\ UNCHANGED <<factory, file, effort, history>>

(***************************************************************************)
(* doSetUp() with set_parameters(): every setting, then every limit, each  *)
(* of which SCIP must accept or the program aborts, then the parameters    *)
(* that the bugger controls, then the problem.                             *)
(***************************************************************************)
Overwritten(values, news) ==
  [n \in DOMAIN values |-> IF n \in DOMAIN news THEN news[n] ELSE values[n]]

AllAccepted ==
  \A n \in DOMAIN settings.limits : Accepts(n, settings.limits[n])

DoSetUp ==
  /\ pc = "created" /\ parsed
  /\ IF AllAccepted
     THEN /\ scip' = [stage  |-> "PROBLEM",
                      limits |-> Overwritten(scip.limits, settings.limits),
                      others |-> Overwritten(scip.others, settings.others),
                      fixed  |-> TRUE]
          /\ pc' = "setup"
     ELSE /\ pc' = "aborted"
          /\ UNCHANGED scip
  /\ UNCHANGED <<factory, file, parsed, settings, effort, history>>

-------------------------------------------------------------------------------
(***************************************************************************)
(* The limit that repeats a solve: with some space, and incremented where  *)
(* SCIP would stop at the count that is needed.  SCIP counts runs, which   *)
(* are one more than the restarts.                                         *)
(***************************************************************************)
CeilHalf(twice) == -((-twice) \div 2)
AtLeastOne(n)   == IF n < 1 THEN 1 ELSE n

Spaced(count, more) == AtLeastOne(CeilHalf((2 + limitspace) * count + 2 * more))

RestrictedLimit_Exact(limit, count) == Spaced(count, 0)

RestrictedLimit(limit, count) ==
  Spaced(count, IF limit \in {"BEST", "SOLU"} THEN 1 ELSE 0)

LargestOf(limit) == IF limit \in {"BEST", "SOLU", "REST"} THEN IntMax ELSE LongLongMax

Tightens_Always(old, new) == TRUE
Tightens(old, new) == old < 0 \/ new < old

Restricted(old, limit, count) ==
  LET bound == RestrictedLimit(limit, count)
  IN  IF /\ old < 0 \/ old > 1
         /\ bound <= LargestOf(limit)
         /\ Tightens(old, bound)
      THEN bound ELSE old

RestrictedSettings(count) ==
  [n \in DOMAIN settings.limits |->
     Restricted(settings.limits[n], limits[n], count[limits[n]])]

(* What a solve needs of each limit in use, within those SCIP was given. *)
Counts ==
  {c \in [Range(limits) \cap Counted -> Usage] :
     \A n \in DOMAIN settings.limits :
       scip.limits[n] >= 0 => c[limits[n]] <= scip.limits[n]}

(***************************************************************************)
(* solve(): SCIP ends in some stage; a bug restricts the limits there.     *)
(* After the check of a certificate SCIP is back in stage PROBLEM.         *)
(***************************************************************************)
Solve ==
  /\ pc = "setup"
  /\ \E bug \in BOOLEAN, stage \in {"PROBLEM", "INITSOLVE", "SOLVED"}, count \in Counts :
       /\ scip' = [scip EXCEPT !.stage = stage]
       /\ IF bug
          THEN /\ settings' = IF stage \in SolvingStages
                              THEN [settings EXCEPT !.limits = RestrictedSettings(count)]
                              ELSE settings
               /\ used' = count
               /\ before' = settings.limits
          ELSE UNCHANGED <<settings, history>>
  /\ pc' = "solved"
  /\ UNCHANGED <<factory, file, parsed, effort>>

(* getSolvingEffort() and the destructor; SCIP is not freed in some stages. *)
SolvingEffort(stage) ==
  IF stage \in {"PRESOLVING", "PRESOLVED", "SOLVING", "SOLVED"} THEN Usage ELSE {-1}

FreeSolver ==
  /\ pc = "solved"
  /\ effort' \in SolvingEffort(scip.stage)
  /\ scip' = NoScip
  /\ pc' = "idle"
  /\ UNCHANGED <<factory, file, parsed, settings, history>>

Aborted == pc = "aborted" /\ UNCHANGED vars

Next ==
  \/ CreateSolver \/ ParseSettings \/ DoSetUp \/ Solve \/ FreeSolver
  \/ Aborted

Spec == Init /\ [][Next]_vars

-------------------------------------------------------------------------------
(***************************************************************************)
(* The limit settings are limits in use with a number: limits.find() finds *)
(* each of them, also in a solver object that was created later.           *)
(***************************************************************************)
LimitSettingsKnown ==
  \A n \in DOMAIN settings.limits :
    n \in DOMAIN limits /\ limits[n] \in Counted

(***************************************************************************)
(* The solver limits the user asked for are restricted, and only those, as *)
(* far as SCIP has them: one name for each, none in counting mode but the  *)
(* total nodes and the time, and none of the counted ones without a space. *)
(***************************************************************************)
OneNamePerLimit ==
  /\ \A n, m \in DOMAIN limits : limits[n] = limits[m] => n = m
  /\ \A n \in DOMAIN limits :
       /\ mode # -1 => limits[n] \in {"TOTA", "TIME"}
       /\ limitspace < 0 => limits[n] \in {"DUAL", "PRIM"}

(***************************************************************************)
(* A limit is only ever tightened: from none to some, or to a smaller one. *)
(* Together with the reductions this makes the solves of a run cheaper.    *)
(***************************************************************************)
TightenStep ==
  parsed => \A n \in DOMAIN settings.limits :
    LET old == settings.limits[n]
        new == settings'.limits[n]
    IN  new = old \/ old < 0 \/ (0 <= new /\ new < old)

LimitsOnlyTighten == [][TightenStep]_vars

(***************************************************************************)
(* The limits that a solve with a bug leaves do not cut off its repetition *)
(* on the same instance: SCIP can do all it did, and find one more         *)
(* solution, unless the limit was reached before.                          *)
(***************************************************************************)
Repeatable ==
  used # <<>> => \A n \in DOMAIN before :
    LET limit == settings.limits[n]
        need  == used[limits[n]]
    IN  /\ limit < 0 \/ limit >= need
        /\ limits[n] \in {"BEST", "SOLU"} /\ limit # before[n] => limit > need

(***************************************************************************)
(* SCIP accepts every limit that doSetUp() hands to it, restricted or not, *)
(* but one: a time limit of the file beyond a long long, as SCIP's default *)
(* of 1e20 is, that the undefined conversion made negative.  doSetUp()     *)
(* aborts with such a limit in the settings, the first time, and for       *)
(* nothing else; converted to the largest number it is accepted as well.   *)
(***************************************************************************)
Overflowed ==
  {n \in DOMAIN settings.limits :
     limits[n] = "TIME" /\ file.limits[n] > LongLongMax
       /\ settings.limits[n] = LongLongMin}

SetUpSucceeds ==
  /\ pc = "setup" => Overflowed = {}
  /\ pc = "aborted" => Overflowed # {}

(***************************************************************************)
(* A solver object never runs with a parameter of another one, with a      *)
(* setting that the file did not give, or outside the arithmetic that was  *)
(* selected.                                                               *)
(***************************************************************************)
SetUpIsComplete ==
  pc = "setup" =>
    /\ scip.fixed
    /\ \A n \in DOMAIN settings.limits : scip.limits[n] = settings.limits[n]
    /\ \A n \in available \ DOMAIN settings.limits : scip.limits[n] = DefaultOf(n)
    /\ settings.others # <<>> => scip.others = file.others
===============================================================================
