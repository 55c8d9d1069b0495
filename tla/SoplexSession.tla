----------------------------- MODULE SoplexSession -----------------------------
(***************************************************************************)
(* SoplexFactory, SoplexInterface and the two classes derived from it      *)
(* through a run of the bugger: the limits that are in use, the target     *)
(* settings and the settings that are parsed, and the objective limits,    *)
(* which the settings hold relative to the reference objective and every   *)
(* doSetUp() shifts to the reference of the problem at hand.               *)
(*                                                                         *)
(* A SoPlex object is external: a sense and a value for each parameter.    *)
(***************************************************************************)
EXTENDS Integers, FiniteSets, Functions

CONSTANTS
  Files,       \* contents of settings files
  Requested,   \* the sets of limits that the user may ask for
  Problems,    \* pairs of the sense and the status of the reference
  Objectives,  \* values that the reference may have
  Spaces,      \* values of limitspace, in halves; negative for no restriction
  Usage,       \* counts of refinements and iterations, or seconds
  Errors,      \* statuses of SoPlex up to NOT_INIT
  HasRefinements, \* this SoPlex counts refinements
  Margin,      \* what relax() adds to a bound
  Infinity, IntMax, LongLongMax

SessionAssumption ==
  /\ Objectives \subseteq Int /\ Margin \in Nat \ {0}
  /\ {IntMax, LongLongMax, Infinity} \subseteq Nat
  /\ 1 < IntMax /\ IntMax < LongLongMax
  /\ Usage \subseteq 0..IntMax
  /\ HasRefinements \in BOOLEAN
  /\ Spaces \subseteq Int
  /\ Errors \subseteq -15..-11

(* SoplexLimit *)
SoplexLimit == {"DUAL", "PRIM", "REFI", "ITER", "TIME"}
Counted     == {"REFI", "ITER", "TIME"}

RequestedAssumption == \A r \in Requested : r \subseteq SoplexLimit

ObjLimits  == {"objlimit_lower", "objlimit_upper"}
RealParams == ObjLimits \cup {"timelimit"}
IntParams  == {"iterlimit"} \cup IF HasRefinements THEN {"reflimit"} ELSE {}

VARIABLES
  pc,          \* "start", "targeted", "ready", "setup" or "solved"
  limitspace, enabled,   \* parameters
  limits,      \* limit names in use, with the limit they stand for
  initial,     \* the static flag: no problem was set up so far
  problem,     \* the sense of the problem and the status of the reference
  value,       \* the objective of the reference in the problem at hand
  target,      \* target settings; <<>> if the modifier is disabled
  settings,    \* the settings of the current instance or copy
  soplex,      \* the sense and the parameters of the current SoPlex object
  retcode,
  file,        \* history: the settings file
  first,       \* history: the reference objective of the original problem
  reset,       \* history: the doubles that were reset to their target
  known        \* history: the sense at each parsing was that of the problem

history == <<file, first, reset, known>>
vars == <<pc, limitspace, enabled, limits, initial, problem, value, target,
          settings, soplex, retcode, history>>

-------------------------------------------------------------------------------
NoSettings == <<>>

DefaultOf(name) ==
  CASE name = "objlimit_lower" -> -Infinity
    [] name = "iterlimit" -> -1
    [] name = "reflimit"  -> -1
    [] OTHER -> Infinity

Accepts(name, v) ==
  IF name = "timelimit" THEN v \in 0..Infinity
  ELSE IF name \in IntParams THEN v \in -1..IntMax
  ELSE v \in -Infinity..Infinity

(* SoPlex reads no line whose value it does not accept. *)
FilesAssumption ==
  \A f \in Files : \A n \in DOMAIN f.params :
    n \in RealParams \cup IntParams => Accepts(n, f.params[n])

Fresh == [sense |-> "maximize", params |-> [n \in RealParams \cup IntParams |-> DefaultOf(n)]]

(* The object after it read a settings file, which may name a sense. *)
Loaded(f) ==
  [sense  |-> IF f.sense = "default" THEN Fresh.sense ELSE f.sense,
   params |-> [n \in RealParams \cup IntParams |->
                 IF n \in DOMAIN f.params THEN f.params[n] ELSE DefaultOf(n)]]

TypeOK ==
  /\ pc \in {"start", "targeted", "ready", "setup", "solved"}
  /\ enabled \subseteq SoplexLimit
  /\ DOMAIN limits \subseteq RealParams \cup IntParams
  /\ Range(limits) \subseteq SoplexLimit
  /\ \A s \in {target, settings} \ {NoSettings} :
       /\ DOMAIN s.doubles \subseteq RealParams
       /\ \A n \in DOMAIN s.limits : s.limits[n] \in -LongLongMax - 1..LongLongMax
  /\ retcode \in -5..3

Init ==
  /\ limitspace \in Spaces /\ enabled \in Requested
  /\ limits = <<>>
  /\ initial = TRUE
  /\ problem \in Problems
  /\ value \in Objectives
  /\ target = NoSettings /\ settings = NoSettings
  /\ soplex = Fresh
  /\ retcode = 0
  /\ file \in Files /\ first = value /\ reset = {} /\ known = TRUE
  /\ pc = "start"

-------------------------------------------------------------------------------
(* The limits other than those of the objective, when the first solver is  *)
(* created.                                                                *)
has_setting(name) == name \in RealParams \cup IntParams

CountedNames ==
  [REFI |-> "reflimit", ITER |-> "iterlimit", TIME |-> "timelimit"]

InitialLimits ==
  LET on == IF limitspace < 0 THEN {}
            ELSE {l \in enabled \cap Counted : has_setting(CountedNames[l])}
  IN  [n \in {CountedNames[l] : l \in on} |->
         CHOOSE l \in on : CountedNames[l] = n]

(***************************************************************************)
(* The objective limits, in parseSettings(), for the sense that the object *)
(* has before it reads a problem.  It is called for the target settings    *)
(* and for the settings, and the flag is still set the second time.        *)
(***************************************************************************)
DualName(sense) == IF sense = "minimize" THEN "objlimit_upper" ELSE "objlimit_lower"
PrimName(sense) == IF sense = "minimize" THEN "objlimit_lower" ELSE "objlimit_upper"

WithObjLimits(sense, given) ==
  LET dual == IF "DUAL" \in enabled THEN {DualName(sense)} ELSE {}
      prim == IF "PRIM" \in enabled THEN {PrimName(sense)} ELSE {}
  IN  [n \in DOMAIN given \cup dual \cup prim |->
         IF n \in prim THEN "PRIM" ELSE IF n \in dual THEN "DUAL" ELSE given[n]]

(* A real number that does not fit the integer converts to either end. *)
ToLongLong(real) ==
  IF real <= LongLongMax THEN {real} ELSE {-LongLongMax - 1, LongLongMax}

(* parseSettings() with the limits in use: some values need a conversion. *)
Parsed(loaded, used) ==
  {[doubles |-> [n \in RealParams \ DOMAIN used |-> loaded.params[n]],
    limits  |-> l] :
   l \in {k \in [{n \in DOMAIN used : used[n] \in Counted} -> -LongLongMax - 1..LongLongMax] :
            \A n \in DOMAIN k : IF n \in RealParams THEN k[n] \in ToLongLong(loaded.params[n])
                                                    ELSE k[n] = loaded.params[n]}}

NoteSense(loaded) == known' = (known /\ loaded.sense = problem.sense)

(* The first object and the parsing of the target settings, if enabled.  A *)
(* file that fails may still have settled the sense.                       *)
ParseTarget ==
  /\ pc = "start"
  /\ \E f \in Files :
       LET loaded == Loaded(f)
           used   == WithObjLimits(loaded.sense, InitialLimits)
       IN  \/ /\ limits' = used
              /\ target' \in Parsed(loaded, used) \cup {NoSettings}
              /\ NoteSense(loaded)
           \/ /\ limits' = InitialLimits
              /\ UNCHANGED <<target, known>>
  /\ pc' = "targeted"
  /\ UNCHANGED <<limitspace, enabled, initial, problem, value, settings, soplex,
                 retcode, file, first, reset>>

(* readInstance(): the settings, then the problem with its sense. *)
ReadInstance ==
  /\ pc = "targeted"
  /\ LET loaded == Loaded(file)
         used   == WithObjLimits(loaded.sense, limits)
     IN  /\ limits' = used
         /\ settings' \in Parsed(loaded, used)
         /\ NoteSense(loaded)
  /\ pc' = "ready"
  /\ UNCHANGED <<limitspace, enabled, initial, problem, value, target, soplex,
                 retcode, file, first, reset>>

-------------------------------------------------------------------------------
(* set_parameters(): what SoPlex refuses keeps its default. *)
SetParameters(given) ==
  [n \in RealParams \cup IntParams |->
     LET chosen == IF n \in DOMAIN given.doubles THEN given.doubles[n]
                   ELSE IF n \in DOMAIN given.limits THEN given.limits[n]
                   ELSE DefaultOf(n)
     IN  IF Accepts(n, chosen) THEN chosen ELSE DefaultOf(n)]

SolutionExists == problem.status = "feasible"

IsFinite(v) == -Infinity < v /\ v < Infinity
Clamped(v) == IF v > Infinity THEN Infinity ELSE IF v < -Infinity THEN -Infinity ELSE v

(* The first set up makes the objective limits of the settings relative. *)
MadeRelative_Always ==
  [n \in DOMAIN settings.doubles |->
     IF SolutionExists /\ n \in ObjLimits /\ IsFinite(settings.doubles[n])
     THEN Clamped(settings.doubles[n] - value)
     ELSE settings.doubles[n]]

MadeRelative ==
  [n \in DOMAIN settings.doubles |->
     IF initial /\ SolutionExists /\ n \in ObjLimits /\ IsFinite(settings.doubles[n])
     THEN Clamped(settings.doubles[n] - value)
     ELSE settings.doubles[n]]

(* Every set up makes those of SoPlex absolute. *)
MadeAbsolute(params) ==
  [n \in DOMAIN params |->
     IF SolutionExists /\ n \in ObjLimits /\ IsFinite(params[n])
     THEN Clamped(params[n] + value)
     ELSE params[n]]

(* relax(), as far as the limits depend on it. *)
Relaxed(increase) == Clamped(value + IF increase THEN Margin ELSE -Margin)

WithReference(params) ==
  [n \in DOMAIN params |->
     IF SolutionExists /\ n \in DOMAIN limits
     THEN CASE limits[n] = "DUAL" -> Relaxed(problem.sense = "minimize")
            [] limits[n] = "PRIM" -> value
            [] OTHER -> params[n]
     ELSE params[n]]

DoSetUp ==
  /\ pc = "ready"
  /\ settings' = [settings EXCEPT !.doubles = MadeRelative]
  /\ soplex' = [sense  |-> problem.sense,
                params |-> WithReference(MadeAbsolute(SetParameters(settings')))]
  /\ initial' = FALSE
  /\ pc' = "setup"
  /\ UNCHANGED <<limitspace, enabled, limits, problem, value, target, retcode, history>>

-------------------------------------------------------------------------------
CeilHalf(twice) == -((-twice) \div 2)
AtLeastOne(n)   == IF n < 1 THEN 1 ELSE n

RestrictedLimit(count) == AtLeastOne(CeilHalf((2 + limitspace) * count))

LargestOf(limit) == IF limit = "TIME" THEN LongLongMax ELSE IntMax

Restricted(old, limit, count) ==
  IF /\ old < 0 \/ old > 1
     /\ RestrictedLimit(count) <= LargestOf(limit)
     /\ old < 0 \/ RestrictedLimit(count) < old
  THEN RestrictedLimit(count) ELSE old

(* Errors of SoPlex are shifted to be negative, for NOT_INIT is the last.  *)
NOT_INIT == -11
CodeOf(status) == status - (NOT_INIT + 1)

(* solve(): the checks may report any bug; limits are restricted after it. *)
Counts ==
  {c \in [Range(limits) \cap Counted -> Usage] :
     \A n \in DOMAIN settings.limits :
       soplex.params[n] >= 0 => c[limits[n]] <= soplex.params[n]}

Solve ==
  /\ pc = "setup"
  /\ retcode' \in 0..3 \cup {CodeOf(e) : e \in Errors}
  /\ IF retcode' = 0 THEN UNCHANGED settings
     ELSE \E count \in Counts :
            settings' = [settings EXCEPT !.limits =
              [n \in DOMAIN settings.limits |->
                 Restricted(settings.limits[n], limits[n], count[limits[n]])]]
  /\ pc' = "solved"
  /\ UNCHANGED <<limitspace, enabled, limits, initial, problem, value, target,
                 soplex, history>>

(***************************************************************************)
(* A modifier reduces the problem, which may change the reference          *)
(* objective, or resets a setting to its target.  A new object follows.    *)
(***************************************************************************)
Reduce ==
  /\ pc = "solved"
  /\ \/ /\ value' \in Objectives
        /\ UNCHANGED <<settings, reset>>
     \/ /\ target # NoSettings
        /\ \E n \in DOMAIN target.doubles \cap DOMAIN settings.doubles :
             /\ settings' = [settings EXCEPT !.doubles[n] = target.doubles[n]]
             /\ reset' = reset \cup {n}
        /\ UNCHANGED value
  /\ soplex' = Fresh
  /\ pc' = "ready"
  /\ UNCHANGED <<limitspace, enabled, limits, initial, problem, target, retcode,
                 file, first, known>>

Next == ParseTarget \/ ReadInstance \/ DoSetUp \/ Solve \/ Reduce

Spec == Init /\ [][Next]_vars

-------------------------------------------------------------------------------
(***************************************************************************)
(* The objective limit of the settings file follows the reference: SoPlex  *)
(* first runs with the limit of the file, and keeps its distance from the  *)
(* reference objective whatever the reductions do to that.  A distance     *)
(* that is infinite stays so.                                              *)
(***************************************************************************)
GivenLimit(n) == Loaded(file).params[n]

IsRelative(n) == SolutionExists /\ IsFinite(GivenLimit(n))

LimitFollowsReference ==
  pc = "setup" =>
    \A n \in (ObjLimits \cap DOMAIN settings.doubles) \ reset :
      LET distance == GivenLimit(n) - first
      IN  soplex.params[n] =
            IF ~ IsRelative(n) THEN GivenLimit(n)
            ELSE IF IsFinite(distance) THEN Clamped(distance + value)
            ELSE Clamped(distance)

(***************************************************************************)
(* The limits to restrict are those in use that count something; doSetUp() *)
(* and solve() dereference what they find for them without a test.         *)
(***************************************************************************)
LimitSettingsKnown ==
  settings # NoSettings =>
    \A n \in DOMAIN settings.limits : n \in DOMAIN limits /\ limits[n] \in Counted

(***************************************************************************)
(* If SoPlex had the sense of the problem when the settings were parsed,   *)
(* the dual limit is where a bound better than the reference is cut off,   *)
(* beyond the reference by a margin, and the primal limit is at it.        *)
(***************************************************************************)
Sided ==
  pc = "setup" /\ SolutionExists =>
    /\ "DUAL" \in enabled =>
         IF problem.sense = "minimize"
         THEN soplex.params["objlimit_upper"] = Clamped(value + Margin)
         ELSE soplex.params["objlimit_lower"] = Clamped(value - Margin)
    /\ "PRIM" \in enabled =>
         soplex.params[PrimName(problem.sense)] = value

ObjectiveLimitsSided == known => Sided

-------------------------------------------------------------------------------
(***************************************************************************)
(* The inductive invariant.  Between two set ups the settings hold the     *)
(* distance to the reference, before the first one the limit itself.       *)
(***************************************************************************)
Read == pc \in {"ready", "setup", "solved"}

IsSettings(s) ==
  /\ s = [doubles |-> s.doubles, limits |-> s.limits]
  /\ DOMAIN s.doubles \subseteq RealParams
  /\ \A n \in DOMAIN s.limits : s.limits[n] \in -LongLongMax - 1..LongLongMax

ShapeInv ==
  /\ pc \in {"start", "targeted"} \/ Read
  /\ limitspace \in Int /\ enabled \subseteq SoplexLimit
  /\ DOMAIN limits \subseteq RealParams \cup IntParams
  /\ \A n \in DOMAIN limits : limits[n] \in SoplexLimit
  /\ target = NoSettings \/ IsSettings(target)
  /\ IF Read THEN IsSettings(settings) ELSE settings = NoSettings
  /\ retcode \in -5..3
  /\ file \in Files /\ {first, value} \subseteq Int

KindsInv ==
  Read =>
    /\ DOMAIN settings.doubles = RealParams \ DOMAIN limits
    /\ \A n \in DOMAIN settings.limits : n \in DOMAIN limits /\ limits[n] \in Counted

SenseInv ==
  Read /\ known =>
    /\ "DUAL" \in enabled => /\ DualName(problem.sense) \in DOMAIN limits
                            /\ limits[DualName(problem.sense)] = "DUAL"
    /\ "PRIM" \in enabled => /\ PrimName(problem.sense) \in DOMAIN limits
                            /\ limits[PrimName(problem.sense)] = "PRIM"

DistanceInv ==
  /\ initial => pc \in {"start", "targeted", "ready"} /\ value = first
  /\ ~ initial => Read
  /\ Read => \A n \in (ObjLimits \cap DOMAIN settings.doubles) \ reset :
       settings.doubles[n] = IF initial \/ ~ IsRelative(n)
                             THEN GivenLimit(n) ELSE Clamped(GivenLimit(n) - first)

IInv ==
  /\ ShapeInv /\ KindsInv /\ SenseInv /\ DistanceInv
  /\ LimitFollowsReference /\ ObjectiveLimitsSided
===============================================================================
