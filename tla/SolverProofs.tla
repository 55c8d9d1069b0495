------------------------------ MODULE SolverProofs ------------------------------
(***************************************************************************)
(* Proofs about the three modules of the solver interfaces, for all        *)
(* constants: the limits of SCIP for every version, all requests of the    *)
(* user and every usage of a solve, then a session with SoPlex, then the   *)
(* checks of a solve.                                                      *)
(***************************************************************************)
EXTENDS Solver, Sequences, FiniteSetTheorems, WellFoundedInduction, TLAPS

Types ==
  /\ pc \in {"idle", "created", "setup", "solved", "aborted"}
  /\ available \in Builds /\ enabled \subseteq ScipLimit
  /\ limitspace \in Int /\ mode \in {-1, 0}
  /\ initial \in BOOLEAN /\ parsed \in BOOLEAN
  /\ settings = [limits |-> settings.limits, others |-> settings.others]
  /\ \A n \in DOMAIN settings.limits :
       settings.limits[n] \in LongLongMin..LongLongMax
  /\ effort \in Int /\ effort >= -1

(* The limits are chosen once, before any settings are read.               *)
OrderInv ==
  /\ initial => pc = "idle" /\ DOMAIN limits = {}
  /\ initial => ~parsed
  /\ ~parsed => DOMAIN settings.limits = {}
  /\ pc \in {"setup", "solved", "aborted"} => parsed

(* The limits in use are each under its own name, and make sense.          *)
ChosenInv ==
  \A n \in DOMAIN limits :
    /\ n \in available /\ limits[n] = KindOf(n)
    /\ limits[n] \in ScipLimit /\ n = FirstName(limits[n])
    /\ mode # -1 => limits[n] \in {"TOTA", "TIME"}
    /\ limitspace < 0 => limits[n] \in {"DUAL", "PRIM"}

IInv == Types /\ OrderInv /\ ChosenInv /\ LimitSettingsKnown

(* No name stands for two limits. *)
LEMMA NameMeans ==
  ASSUME NEW limit \in ScipLimit
  PROVE  \A name \in Range(Names(limit)) : KindOf(name) = limit
  <1>1. /\ Range(<<"limits/dual", "limits/proofstop">>) = {"limits/dual", "limits/proofstop"}
        /\ Range(<<"limits/primal", "limits/objectivestop">>)
             = {"limits/primal", "limits/objectivestop"}
        /\ \A x : Range(<<x>>) = {x}
    BY DEF Range
  <1>2. /\ Range(Names("DUAL")) = {"limits/dual", "limits/proofstop"}
        /\ Range(Names("PRIM")) = {"limits/primal", "limits/objectivestop"}
        /\ Range(Names("BEST")) = {"limits/bestsol"}
        /\ Range(Names("SOLU")) = {"limits/solutions"}
        /\ Range(Names("REST")) = {"limits/restarts"}
        /\ Range(Names("TOTA")) = {"limits/totalnodes"}
        /\ Range(Names("TIME")) = {"limits/time"}
    BY <1>1 DEF Names
  <1>3. \A l, k \in ScipLimit : \A name : name \in Range(Names(l)) /\ name \in Range(Names(k)) => l = k
    BY <1>2 DEF ScipLimit
  <1>4. QED
    BY <1>3 DEF KindOf

(* A limit that SCIP knows has a first name, and is what that name means.  *)
LEMMA FirstNameMeans ==
  ASSUME NEW limit \in ScipLimit, Usable(limit) # {}
  PROVE  FirstName(limit) \in available /\ KindOf(FirstName(limit)) = limit
  <1> DEFINE names == Names(limit)
             earliest(i) == /\ has_setting(names[i])
                            /\ \A j \in 1..(i - 1) : ~ has_setting(names[j])
  <1>1. DOMAIN names = 1..1 \/ DOMAIN names = 1..2
    BY DEF Names, ScipLimit
  <1>2. \E i \in DOMAIN names : has_setting(names[i])
    BY DEF Usable, Range
  <1> HIDE DEF names
  <1>3. \E i \in DOMAIN names : earliest(i)
    BY <1>1, <1>2
  <1>4. PICK i \in DOMAIN names : earliest(i) /\ FirstName(limit) = names[i]
    BY <1>3 DEF FirstName, names
  <1>5. names[i] \in Range(Names(limit))
    BY <1>4 DEF Range, names
  <1>6. QED
    BY <1>4, <1>5, NameMeans DEF has_setting

(* No limit is chosen at first.                                            *)
LEMMA InitIInv ==
  Init => IInv
  <1> SUFFICES ASSUME Init PROVE IInv
    OBVIOUS
  <1>1. DOMAIN NoLimits = {}
    BY DEF NoLimits
  <1>2. Types
    <2>1. available \in Builds /\ enabled \subseteq ScipLimit /\ limitspace \in Int
      BY LimitsAssumption, RequestedAssumption DEF Init
    <2>2. settings.limits = NoLimits /\ settings = [limits |-> NoLimits, others |-> <<>>]
      BY DEF Init
    <2>3. settings = [limits |-> settings.limits, others |-> settings.others]
      BY <2>2
    <2>4. pc = "idle" /\ mode \in {-1, 0} /\ initial = TRUE /\ parsed = FALSE /\ effort = -1
      BY DEF Init
    <2>5. DOMAIN settings.limits = {}
      BY <1>1, <2>2
    <2>6. initial \in BOOLEAN /\ parsed \in BOOLEAN
      BY <2>4
    <2>7. effort \in Int /\ effort >= -1
      <3>1. effort = -1
        BY DEF Init
      <3>2. QED
        BY <3>1
    <2>8. QED
      BY <2>1, <2>3, <2>4, <2>5, <2>6, <2>7 DEF Types
  <1>3. QED
    BY <1>1, <1>2 DEF Init, IInv, OrderInv, ChosenInv, LimitSettingsKnown

(* The limits that the first solver object selects. *)
LEMMA SelectedChosen ==
  ASSUME enabled \subseteq ScipLimit, NEW n \in DOMAIN SelectedLimits
  PROVE  /\ n \in available /\ SelectedLimits[n] = KindOf(n)
         /\ KindOf(n) \in ScipLimit /\ n = FirstName(KindOf(n))
         /\ mode # -1 => KindOf(n) \in {"TOTA", "TIME"}
         /\ limitspace < 0 => KindOf(n) \in {"DUAL", "PRIM"}
  <1>1. PICK l \in Wanted : Usable(l) # {} /\ n = FirstName(l)
    BY DEF SelectedLimits
  <1>2. l \in ScipLimit
    BY <1>1 DEF Wanted
  <1>3. n \in available /\ KindOf(n) = l
    BY <1>1, <1>2, FirstNameMeans
  <1>4. SelectedLimits[n] = KindOf(n)
    BY DEF SelectedLimits
  <1>5. /\ mode # -1 => l \in {"TOTA", "TIME"}
        /\ limitspace < 0 => l \in {"DUAL", "PRIM"}
    BY <1>1, <1>2 DEF Wanted, ScipLimit, Counted
  <1>6. QED
    BY <1>1, <1>2, <1>3, <1>4, <1>5

(* A new solver object chooses its limits.                                 *)
LEMMA CreateSolverIInv ==
  IInv /\ CreateSolver => IInv'
  <1> SUFFICES ASSUME IInv, CreateSolver PROVE IInv'
    OBVIOUS
  <1>1. /\ pc = "idle" /\ pc' = "created" /\ initial' = FALSE
        /\ \/ initial /\ limits' = SelectedLimits
              /\ enabled' = {l \in Wanted : Usable(l) # {}}
           \/ ~initial /\ UNCHANGED <<limits, enabled>>
        /\ UNCHANGED <<available, mode, limitspace, parsed, settings, effort>>
    BY DEF CreateSolver, IInv, Types
  <1>2. Types'
    BY <1>1 DEF IInv, Types, Wanted
  <1>3. OrderInv'
    BY <1>1 DEF IInv, OrderInv
  <1>4. ChosenInv'
    <2>1. CASE initial
      <3>1. \A n \in DOMAIN SelectedLimits :
              /\ n \in available /\ SelectedLimits[n] = KindOf(n)
              /\ KindOf(n) \in ScipLimit /\ n = FirstName(KindOf(n))
              /\ mode # -1 => KindOf(n) \in {"TOTA", "TIME"}
              /\ limitspace < 0 => KindOf(n) \in {"DUAL", "PRIM"}
        BY SelectedChosen DEF IInv, Types
      <3>2. QED
        BY <1>1, <2>1, <3>1 DEF ChosenInv, FirstName, has_setting
    <2>2. CASE ~initial
      BY <1>1, <2>2 DEF IInv, ChosenInv, FirstName, has_setting
    <2>3. QED
      BY <1>1, <2>1, <2>2
  <1>5. LimitSettingsKnown'
    BY <1>1 DEF IInv, OrderInv, LimitSettingsKnown
  <1>6. QED
    BY <1>2, <1>3, <1>4, <1>5 DEF IInv

(* Limits are read from the settings.                                      *)
LEMMA ParseSettingsIInv ==
  IInv /\ ParseSettings => IInv'
  <1> SUFFICES ASSUME IInv, ParseSettings PROVE IInv'
    OBVIOUS
  <1>1. /\ pc = "created" /\ pc' = "solved" /\ ~parsed /\ parsed' = TRUE
        /\ UNCHANGED <<available, mode, limitspace, enabled, limits, initial, effort>>
        /\ \/ UNCHANGED settings
           \/ \E l \in ParsedLimits(file.limits) :
                settings' = [limits |-> l, others |-> file.others]
    BY DEF ParseSettings, factory
  <1>2. \A l \in ParsedLimits(file.limits) :
          /\ \A n \in DOMAIN l : n \in DOMAIN limits /\ limits[n] \in Counted
          /\ \A n \in DOMAIN l : l[n] \in LongLongMin..LongLongMax
    BY DEF ParsedLimits
  <1>3. /\ settings' = [limits |-> settings'.limits, others |-> settings'.others]
        /\ \A n \in DOMAIN settings'.limits :
             /\ n \in DOMAIN limits /\ limits[n] \in Counted
             /\ settings'.limits[n] \in LongLongMin..LongLongMax
    BY <1>1, <1>2 DEF IInv, Types, LimitSettingsKnown
  <1>4. Types'
    BY <1>1, <1>3 DEF IInv, Types, LongLongMin
  <1>5. OrderInv'
    BY <1>1 DEF IInv, OrderInv
  <1>6. ChosenInv'
    BY <1>1 DEF IInv, ChosenInv, FirstName, has_setting
  <1>7. LimitSettingsKnown'
    BY <1>1, <1>3 DEF LimitSettingsKnown
  <1>8. QED
    BY <1>4, <1>5, <1>6, <1>7 DEF IInv

(* The limits in use are passed on.                                        *)
LEMMA DoSetUpIInv ==
  IInv /\ DoSetUp => IInv'
  <1> SUFFICES ASSUME IInv, DoSetUp PROVE IInv'
    OBVIOUS
  <1>1. /\ pc = "created" /\ pc' \in {"setup", "aborted"} /\ parsed
        /\ UNCHANGED <<available, mode, limitspace, enabled, limits, initial,
                       parsed, settings, effort>>
    BY DEF DoSetUp, factory
  <1>2. QED
    BY <1>1 DEF IInv, Types, OrderInv, ChosenInv, LimitSettingsKnown, FirstName,
               has_setting, LongLongMin

(* A restricted limit is a number of the type it is kept in, and is only   *)
(* changed to a smaller one that is not negative.                          *)
LEMMA RestrictedTightens ==
  ASSUME limitspace \in Int, NEW limit, NEW count \in Usage,
         NEW old \in LongLongMin..LongLongMax
  PROVE  /\ Restricted(old, limit, count) \in LongLongMin..LongLongMax
         /\ LET new == Restricted(old, limit, count)
            IN  new = old \/ old < 0 \/ (0 <= new /\ new < old)
  <1> DEFINE bound == RestrictedLimit(limit, count)
  <1>1. count \in Int
    BY LimitsAssumption
  <1>2. (2 + limitspace) * count \in Int
    BY <1>1
  <1>3. \A m \in Int : CeilHalf(m) \in Int
    BY DEF CeilHalf
  <1>4. \A m \in Int : AtLeastOne(m) \in Int /\ AtLeastOne(m) >= 1
    BY DEF AtLeastOne
  <1>5. \A more \in {0, 1} : Spaced(count, more) \in Int /\ Spaced(count, more) >= 1
    <2> SUFFICES ASSUME NEW more \in {0, 1}
                 PROVE  Spaced(count, more) \in Int /\ Spaced(count, more) >= 1
      OBVIOUS
    <2>1. (2 + limitspace) * count + 2 * more \in Int
      BY <1>2
    <2>2. QED
      BY <1>3, <1>4, <2>1 DEF Spaced
  <1>6. bound \in Int /\ bound >= 1
    BY <1>5 DEF RestrictedLimit
  <1>7. LargestOf(limit) \in Int /\ LargestOf(limit) <= LongLongMax
    BY LimitsAssumption DEF LargestOf
  <1>8. LongLongMin \in Int /\ LongLongMin <= 0 /\ LongLongMax \in Int
    BY LimitsAssumption DEF LongLongMin
  <1>9. Restricted(old, limit, count) =
          IF /\ old < 0 \/ old > 1
             /\ bound <= LargestOf(limit)
             /\ Tightens(old, bound)
          THEN bound ELSE old
    BY DEF Restricted
  <1> HIDE DEF bound
  <1>10. QED
    BY <1>6, <1>7, <1>8, <1>9 DEF Tightens

(* Solving with a bug restricts the limits one by one.                     *)
LEMMA SolveRestricts ==
  ASSUME IInv, Solve
  PROVE  /\ pc = "setup" /\ pc' = "solved"
         /\ UNCHANGED <<available, mode, limitspace, enabled, limits, initial,
                        parsed, effort>>
         /\ settings' = [limits |-> settings'.limits, others |-> settings'.others]
         /\ DOMAIN settings'.limits = DOMAIN settings.limits
         /\ \A n \in DOMAIN settings.limits :
              /\ settings'.limits[n] \in LongLongMin..LongLongMax
              /\ LET old == settings.limits[n]
                     new == settings'.limits[n]
                 IN  new = old \/ old < 0 \/ (0 <= new /\ new < old)
  <1>1. /\ pc = "setup" /\ pc' = "solved"
        /\ UNCHANGED <<available, mode, limitspace, enabled, limits, initial,
                       parsed, effort>>
        /\ \/ UNCHANGED settings
           \/ \E count \in Counts :
                settings' = [settings EXCEPT !.limits = RestrictedSettings(count)]
    BY DEF Solve, factory
  <1>2. CASE UNCHANGED settings
    BY <1>1, <1>2 DEF IInv, Types
  <1>3. CASE \E count \in Counts :
               settings' = [settings EXCEPT !.limits = RestrictedSettings(count)]
    <2>1. PICK count \in Counts :
            settings' = [settings EXCEPT !.limits = RestrictedSettings(count)]
      BY <1>3
    <2>2. settings' = [limits |-> RestrictedSettings(count), others |-> settings.others]
      BY <2>1 DEF IInv, Types
    <2>3. \A n \in DOMAIN settings.limits :
            /\ count[limits[n]] \in Usage
            /\ settings.limits[n] \in LongLongMin..LongLongMax
      BY DEF IInv, Types, LimitSettingsKnown, Counts, Range
    <2>4. /\ DOMAIN RestrictedSettings(count) = DOMAIN settings.limits
          /\ \A n \in DOMAIN settings.limits :
               RestrictedSettings(count)[n]
                 = Restricted(settings.limits[n], limits[n], count[limits[n]])
      BY DEF RestrictedSettings
    <2>5. limitspace \in Int
      BY DEF IInv, Types
    <2>6. \A n \in DOMAIN settings.limits :
            /\ RestrictedSettings(count)[n] \in LongLongMin..LongLongMax
            /\ LET old == settings.limits[n]
                   new == RestrictedSettings(count)[n]
               IN  new = old \/ old < 0 \/ (0 <= new /\ new < old)
      BY <2>3, <2>4, <2>5, RestrictedTightens
    <2>7. settings'.limits = RestrictedSettings(count)
      BY <2>2
    <2>8. QED
      BY <1>1, <2>2, <2>4, <2>6, <2>7
  <1>4. QED
    BY <1>1, <1>2, <1>3

(* A bug restricts the limits.                                             *)
LEMMA SolveIInv ==
  IInv /\ Solve => IInv'
  <1> SUFFICES ASSUME IInv, Solve PROVE IInv'
    OBVIOUS
  <1>1. Types'
    BY SolveRestricts DEF IInv, Types, LongLongMin
  <1>2. OrderInv'
    BY SolveRestricts DEF IInv, OrderInv
  <1>3. ChosenInv'
    BY SolveRestricts DEF IInv, ChosenInv, FirstName, has_setting
  <1>4. LimitSettingsKnown'
    BY SolveRestricts DEF IInv, LimitSettingsKnown
  <1>5. QED
    BY <1>1, <1>2, <1>3, <1>4 DEF IInv

(* The solver object is freed.                                             *)
LEMMA FreeSolverIInv ==
  IInv /\ FreeSolver => IInv'
  <1> SUFFICES ASSUME IInv, FreeSolver PROVE IInv'
    OBVIOUS
  <1>1. /\ pc = "solved" /\ pc' = "idle" /\ effort' \in Int /\ effort' >= -1
        /\ UNCHANGED <<available, mode, limitspace, enabled, limits, initial,
                       parsed, settings>>
    BY LimitsAssumption DEF FreeSolver, factory, SolvingEffort
  <1>2. QED
    BY <1>1 DEF IInv, Types, OrderInv, ChosenInv, LimitSettingsKnown, FirstName,
               has_setting, LongLongMin

(* Every step keeps the invariant.                                         *)
LEMMA NextIInv ==
  IInv /\ [Next]_vars => IInv'
  <1>1. IInv /\ UNCHANGED vars => IInv'
    BY DEF vars, factory, IInv, Types, OrderInv, ChosenInv, LimitSettingsKnown,
           FirstName, has_setting, LongLongMin
  <1>2. QED
    BY <1>1, CreateSolverIInv, ParseSettingsIInv, DoSetUpIInv, SolveIInv,
       FreeSolverIInv DEF Next, Aborted

(* The invariant holds throughout.                                         *)
LEMMA LimitsIInv ==
  Spec => []IInv
  BY InitIInv, NextIInv, PTL DEF Spec

(* Every limit in the settings is a number of the type it is kept in.      *)
THEOREM LimitsTyped ==
  Spec => []TypeOK
  <1>1. IInv => TypeOK
    BY DEF IInv, Types, ChosenInv, TypeOK
  <1>2. QED
    BY <1>1, LimitsIInv, PTL

(* ScipRealInterface.hpp 352-432: limits.find() finds every limit that the *)
(* settings hold, whichever solver object restricts it.                    *)
THEOREM LimitsFound ==
  Spec => []LimitSettingsKnown
  <1>1. IInv => LimitSettingsKnown
    BY DEF IInv
  <1>2. QED
    BY <1>1, LimitsIInv, PTL

(* A limit is in use under one name, and only where it makes sense.        *)
THEOREM LimitsNamedOnce ==
  Spec => []OneNamePerLimit
  <1>1. IInv => OneNamePerLimit
    BY DEF IInv, ChosenInv, OneNamePerLimit
  <1>2. QED
    BY <1>1, LimitsIInv, PTL

(* No solve ever loosens a limit, whatever it used up.                     *)
THEOREM LimitsTighten ==
  Spec => LimitsOnlyTighten
  <1>1. IInv /\ [Next]_vars => [TightenStep]_vars
    <2> SUFFICES ASSUME IInv, [Next]_vars, parsed, NEW n \in DOMAIN settings.limits
                 PROVE  LET old == settings.limits[n]
                            new == settings'.limits[n]
                        IN  new = old \/ old < 0 \/ (0 <= new /\ new < old)
      BY DEF TightenStep
    <2>1. CASE Solve
      BY <2>1, SolveRestricts
    <2>2. CASE UNCHANGED settings
      BY <2>2
    <2>3. QED
      BY <2>1, <2>2 DEF Next, CreateSolver, ParseSettings, DoSetUp, FreeSolver,
                        Aborted, vars
  <1>2. QED
    BY <1>1, LimitsIInv, PTL DEF Spec, LimitsOnlyTighten

-------------------------------------------------------------------------------
(***************************************************************************)
(* What a SCIP object runs with.  A new object has its defaults until      *)
(* doSetUp() or the settings file overwrites them, and the settings hold   *)
(* the other parameters of the file or none.                               *)
(***************************************************************************)
ObjectInv ==
  /\ pc = "created" => scip = Fresh
  /\ file.others = [n \in OtherNames |-> file.others[n]]
  /\ settings.others \in {<<>>, file.others}

(* The values of the file are in the range of their parameters.            *)
FileInv ==
  /\ DOMAIN file.limits = available
  /\ \A n \in available :
       file.limits[n] \in IF KindOf(n) = "TIME" THEN 0..Forever ELSE -1..IntMax

(* The limits are accepted, but a time limit that lost its value.          *)
AcceptInv ==
  parsed => \A n \in DOMAIN settings.limits :
    Accepts(n, settings.limits[n]) \/ n \in Overflowed

(* Nothing was solved before the settings were read.                       *)
RepeatInv ==
  /\ ~parsed => used = <<>>
  /\ Repeatable

UseInv ==
  ObjectInv /\ FileInv /\ AcceptInv /\ RepeatInv /\ SetUpIsComplete /\ SetUpSucceeds


(* No solver object is in use at first.                                    *)
LEMMA InitUseInv ==
  Init => UseInv
  <1> SUFFICES ASSUME Init PROVE UseInv
    OBVIOUS
  <1>1. /\ pc = "idle" /\ parsed = FALSE /\ used = <<>>
        /\ settings = [limits |-> NoLimits, others |-> <<>>]
    BY DEF Init
  <1>2. PICK v \in UserValues, o \in OtherValues :
          file = [limits |-> [n \in available |-> IF KindOf(n) = "TIME" /\ v < 0
                                                   THEN Forever ELSE v],
                  others |-> [n \in OtherNames |-> o]]
    BY DEF Init
  <1>3. ObjectInv
    BY <1>1, <1>2 DEF ObjectInv
  <1>4. v \in -1..IntMax /\ IntMax \in Nat /\ Forever \in Nat /\ IntMax <= Forever
    BY LimitsAssumption
  <1>5. FileInv
    BY <1>2, <1>4 DEF FileInv
  <1>6. QED
    BY <1>1, <1>3, <1>5 DEF UseInv, AcceptInv, RepeatInv, Repeatable, SetUpIsComplete,
                            SetUpSucceeds

(* A new solver object, for the first time or again.                       *)
LEMMA CreateSolverUseInv ==
  IInv /\ UseInv /\ CreateSolver => UseInv'
  <1> SUFFICES ASSUME IInv, UseInv, CreateSolver PROVE UseInv'
    OBVIOUS
  <1>1. /\ pc = "idle" /\ pc' = "created" /\ scip' = Fresh
        /\ ~initial => UNCHANGED limits
        /\ UNCHANGED <<available, file, parsed, settings, used, before>>
    BY DEF CreateSolver, history
  <1>2. ObjectInv'
    BY <1>1 DEF UseInv, ObjectInv, Fresh
  <1>3. FileInv'
    BY <1>1 DEF UseInv, FileInv
  <1>4. AcceptInv'
    <2>1. parsed => ~initial
      BY DEF IInv, OrderInv
    <2>2. QED
      BY <1>1, <2>1 DEF UseInv, AcceptInv, Overflowed, Accepts
  <1>5. RepeatInv'
    <2>1. initial => used = <<>>
      BY DEF IInv, OrderInv, UseInv, RepeatInv
    <2>2. QED
      BY <1>1, <2>1 DEF UseInv, RepeatInv, Repeatable
  <1>6. QED
    BY <1>1, <1>2, <1>3, <1>4, <1>5 DEF UseInv, SetUpIsComplete, SetUpSucceeds

(* What is read from the file is accepted when it is handed back, or is a  *)
(* time limit that does not fit and became negative.                       *)
LEMMA ParsedAccepted ==
  ASSUME IInv, UseInv, NEW l \in ParsedLimits(file.limits), NEW n \in DOMAIN l
  PROVE  \/ Accepts(n, l[n])
         \/ limits[n] = "TIME" /\ file.limits[n] > LongLongMax /\ l[n] = LongLongMin
  <1>1. n \in DOMAIN limits /\ limits[n] \in Counted
    BY DEF ParsedLimits
  <1>2. n \in available /\ limits[n] = KindOf(n)
    BY <1>1 DEF IInv, ChosenInv
  <1>3. file.limits[n] \in IF KindOf(n) = "TIME" THEN 0..Forever ELSE -1..IntMax
    BY <1>2 DEF UseInv, FileInv
  <1>4. /\ IntMax \in Nat /\ LongLongMax \in Nat /\ Forever \in Nat
        /\ IntMax < LongLongMax
    BY LimitsAssumption
  <1>5. CASE KindOf(n) = "TIME"
    <2>1. l[n] \in LongLongOf(Capped(file.limits[n]))
      BY <1>2, <1>5 DEF ParsedLimits
    <2>2. file.limits[n] \in 0..Forever
      BY <1>3, <1>5
    <2>3. CASE file.limits[n] <= LongLongMax
      <3>1. Capped(file.limits[n]) = file.limits[n]
        BY <1>4, <2>2, <2>3 DEF Capped, CapAt
      <3>2. l[n] = file.limits[n]
        BY <2>1, <2>3, <3>1 DEF LongLongOf
      <3>3. QED
        BY <1>5, <2>2, <3>2 DEF Accepts
    <2>4. CASE file.limits[n] > LongLongMax
      <3>1. LongLongMax \in 0..Forever
        BY <1>4, <2>2, <2>4
      <3>2. Capped(file.limits[n]) > LongLongMax /\ Capped(file.limits[n]) \in Int
        BY <1>4, <2>2, <2>4 DEF Capped, CapAt
      <3>3. l[n] \in {LongLongMin, LongLongMax}
        BY <1>4, <2>1, <3>2 DEF LongLongOf
      <3>4. l[n] = LongLongMax => Accepts(n, l[n])
        BY <1>5, <3>1 DEF Accepts
      <3>5. QED
        BY <1>2, <1>5, <2>4, <3>3, <3>4
    <2>5. QED
      BY <1>4, <2>2, <2>3, <2>4
  <1>6. CASE KindOf(n) # "TIME"
    <2>1. l[n] = file.limits[n]
      BY <1>2, <1>6 DEF ParsedLimits
    <2>2. QED
      BY <1>3, <1>4, <1>6, <2>1 DEF Accepts
  <1>7. QED
    BY <1>5, <1>6

(* What is read from the settings is what is in use.                       *)
LEMMA ParseSettingsUseInv ==
  IInv /\ UseInv /\ ParseSettings => UseInv'
  <1> SUFFICES ASSUME IInv, UseInv, ParseSettings PROVE UseInv'
    OBVIOUS
  <1>1. /\ pc = "created" /\ pc' = "solved" /\ ~parsed /\ parsed' = TRUE
        /\ UNCHANGED <<available, limits, file, used, before>>
        /\ \/ UNCHANGED settings
           \/ \E l \in ParsedLimits(file.limits) :
                settings' = [limits |-> l, others |-> file.others]
    BY DEF ParseSettings, factory, history
  <1>2. ObjectInv'
    BY <1>1 DEF UseInv, ObjectInv
  <1>3. FileInv'
    BY <1>1 DEF UseInv, FileInv
  <1>4. AcceptInv'
    <2> SUFFICES ASSUME NEW n \in DOMAIN settings'.limits
                 PROVE  \/ Accepts(n, settings'.limits[n])
                        \/ limits[n] = "TIME" /\ file.limits[n] > LongLongMax
                              /\ settings'.limits[n] = LongLongMin
      BY <1>1 DEF AcceptInv, Overflowed, Accepts
    <2>1. CASE UNCHANGED settings
      BY <1>1, <2>1 DEF IInv, OrderInv
    <2>2. CASE \E l \in ParsedLimits(file.limits) :
                 settings' = [limits |-> l, others |-> file.others]
      BY <2>2, ParsedAccepted
    <2>3. QED
      BY <1>1, <2>1, <2>2
  <1>5. used = <<>>
    BY <1>1 DEF UseInv, RepeatInv
  <1>6. QED
    BY <1>1, <1>2, <1>3, <1>4, <1>5
       DEF UseInv, RepeatInv, Repeatable, SetUpIsComplete, SetUpSucceeds

(* SCIP is given the limits in use.                                        *)
LEMMA DoSetUpUseInv ==
  IInv /\ UseInv /\ DoSetUp => UseInv'
  <1> SUFFICES ASSUME IInv, UseInv, DoSetUp PROVE UseInv'
    OBVIOUS
  <1>1. /\ pc = "created" /\ parsed
        /\ UNCHANGED <<available, limits, file, parsed, settings, used, before>>
        /\ \/ /\ AllAccepted /\ pc' = "setup"
              /\ scip' = [stage  |-> "PROBLEM",
                          limits |-> Overwritten(scip.limits, settings.limits),
                          others |-> Overwritten(scip.others, settings.others),
                          fixed  |-> TRUE]
           \/ ~AllAccepted /\ pc' = "aborted"
    BY DEF DoSetUp, factory, history
  <1>2. ObjectInv' /\ FileInv' /\ AcceptInv' /\ RepeatInv'
    BY <1>1 DEF UseInv, ObjectInv, FileInv, AcceptInv, Overflowed, Accepts,
               RepeatInv, Repeatable
  <1>3. SetUpSucceeds'
    <2>1. ~AllAccepted => Overflowed # {}
      BY <1>1 DEF UseInv, AcceptInv, AllAccepted
    <2>2. AllAccepted => Overflowed = {}
      <3> SUFFICES ASSUME AllAccepted, NEW n \in Overflowed PROVE FALSE
        OBVIOUS
      <3>1. /\ n \in DOMAIN settings.limits /\ limits[n] = "TIME"
            /\ settings.limits[n] = LongLongMin
        BY DEF Overflowed
      <3>2. KindOf(n) = "TIME"
        BY <3>1 DEF IInv, ChosenInv, LimitSettingsKnown
      <3>3. settings.limits[n] \in 0..Forever
        BY <3>1, <3>2 DEF AllAccepted, Accepts
      <3>4. LongLongMin < 0
        BY LimitsAssumption DEF LongLongMin
      <3>5. QED
        BY <3>1, <3>3, <3>4 DEF LongLongMin
    <2>3. QED
      BY <1>1, <2>1, <2>2 DEF SetUpSucceeds, Overflowed
  <1>4. SetUpIsComplete'
    <2> SUFFICES ASSUME pc' = "setup" PROVE SetUpIsComplete'
      BY DEF SetUpIsComplete
    <2>1. /\ scip'.fixed
          /\ scip'.limits = Overwritten(scip.limits, settings.limits)
          /\ scip'.others = Overwritten(scip.others, settings.others)
      BY <1>1
    <2>2. /\ scip.limits = [n \in available |-> DefaultOf(n)]
          /\ DOMAIN scip.others = OtherNames
      BY <1>1 DEF UseInv, ObjectInv, Fresh
    <2>3. DOMAIN settings.limits \subseteq available
      BY DEF IInv, LimitSettingsKnown, ChosenInv
    <2>4. \A n \in available :
            scip'.limits[n] = IF n \in DOMAIN settings.limits THEN settings.limits[n]
                                                               ELSE DefaultOf(n)
      BY <2>1, <2>2 DEF Overwritten
    <2>5. settings.others # <<>> => scip'.others = file.others
      <3> SUFFICES ASSUME settings.others # <<>> PROVE scip'.others = file.others
        OBVIOUS
      <3>1. settings.others = file.others /\ DOMAIN file.others = OtherNames
        BY DEF UseInv, ObjectInv
      <3>2. scip'.others = [n \in OtherNames |-> file.others[n]]
        BY <2>1, <2>2, <3>1 DEF Overwritten
      <3>3. QED
        BY <3>2 DEF UseInv, ObjectInv
    <2>6. QED
      BY <1>1, <2>1, <2>3, <2>4, <2>5 DEF SetUpIsComplete, DefaultOf
  <1>5. QED
    BY <1>2, <1>3, <1>4 DEF UseInv

(* A restricted limit is in the range of its parameter, and with a space   *)
(* that is not negative it is not below the count it stands for.           *)
LEMMA RestrictedFits ==
  ASSUME limitspace \in Int, NEW limit, NEW count \in Usage,
         NEW old \in LongLongMin..LongLongMax,
         Restricted(old, limit, count) # old
  PROVE  LET new == Restricted(old, limit, count)
         IN  /\ new \in 1..LargestOf(limit)
             /\ old < 0 \/ new < old
             /\ limitspace >= 0 => new >= count
             /\ limitspace >= 0 /\ limit \in {"BEST", "SOLU"} => new > count
  <1> DEFINE more == IF limit \in {"BEST", "SOLU"} THEN 1 ELSE 0
             bound == Spaced(count, more)
  <1>1. count \in Nat /\ LargestOf(limit) \in Int
    BY LimitsAssumption DEF LargestOf
  <1>2. PICK extra \in Int : extra = limitspace * count /\ (limitspace >= 0 => extra >= 0)
    <2>1. limitspace * count \in Int
      BY <1>1
    <2>2. limitspace >= 0 => limitspace * count >= 0
      BY <1>1
    <2>3. QED
      BY <2>1, <2>2
  <1>3. (2 + limitspace) * count + 2 * more = 2 * count + extra + 2 * more
    BY <1>1, <1>2
  <1>4. \A m \in Int : CeilHalf(m) \in Int /\ 2 * CeilHalf(m) >= m
    BY DEF CeilHalf
  <1>5. \A m \in Int : AtLeastOne(m) \in Int /\ AtLeastOne(m) >= 1 /\ AtLeastOne(m) >= m
    BY DEF AtLeastOne
  <1>6. /\ bound \in Int /\ bound >= 1
        /\ limitspace >= 0 => bound >= count + more
    <2> DEFINE twice == 2 * count + extra + 2 * more
    <2>1. twice \in Int /\ (limitspace >= 0 => twice >= 2 * (count + more))
      BY <1>1, <1>2
    <2>2. bound = AtLeastOne(CeilHalf(twice))
      BY <1>3 DEF Spaced
    <2> HIDE DEF twice, bound, more
    <2>3. /\ CeilHalf(twice) \in Int /\ 2 * CeilHalf(twice) >= twice
          /\ bound \in Int /\ bound >= 1 /\ bound >= CeilHalf(twice)
      BY <1>4, <1>5, <2>1, <2>2
    <2>4. more \in {0, 1}
      BY DEF more
    <2>5. QED
      BY <1>1, <2>1, <2>3, <2>4
  <1>7. /\ Restricted(old, limit, count) = bound
        /\ bound <= LargestOf(limit) /\ Tightens(old, bound)
    BY DEF Restricted, RestrictedLimit
  <1> HIDE DEF bound
  <1>8. QED
    BY <1>1, <1>6, <1>7 DEF Tightens

(* What one solve does to the limits, with the count it needed.            *)
LEMMA SolveCases ==
  ASSUME IInv, UseInv, Solve
  PROVE  /\ pc = "setup" /\ pc' = "solved" /\ parsed
         /\ UNCHANGED <<available, mode, limitspace, limits, file, parsed>>
         /\ settings'.others = settings.others
         /\ \/ UNCHANGED <<settings, used, before>>
            \/ \E count \in Counts :
                 /\ used' = count /\ before' = settings.limits
                 /\ \/ settings' = settings
                    \/ settings'.limits = RestrictedSettings(count)
  <1>1. /\ pc = "setup" /\ pc' = "solved"
        /\ UNCHANGED <<available, mode, limitspace, limits, file, parsed>>
        /\ \/ UNCHANGED <<settings, used, before>>
           \/ \E count \in Counts :
                /\ used' = count /\ before' = settings.limits
                /\ \/ settings' = settings
                   \/ settings' = [settings EXCEPT !.limits = RestrictedSettings(count)]
    BY DEF Solve, factory, history
  <1>2. \A count \in Counts :
          LET new == [settings EXCEPT !.limits = RestrictedSettings(count)]
          IN  new.limits = RestrictedSettings(count) /\ new.others = settings.others
    BY DEF IInv, Types
  <1>3. parsed
    BY <1>1 DEF IInv, OrderInv
  <1>4. QED
    BY <1>1, <1>2, <1>3

(* A solve with a bug leaves each limit, or replaces it by one that fits   *)
(* and allows for its count.                                               *)
LEMMA SolveRepeatable ==
  ASSUME IInv, UseInv, pc = "setup", NEW count \in Counts, NEW n \in DOMAIN settings.limits,
         NEW new, new = settings.limits[n] \/ new = RestrictedSettings(count)[n]
  PROVE  /\ new < 0 \/ new >= count[limits[n]]
         /\ limits[n] \in {"BEST", "SOLU"} /\ new # settings.limits[n]
              => new > count[limits[n]]
         /\ new # settings.limits[n] =>
              /\ new \in 1..LargestOf(limits[n])
              /\ settings.limits[n] < 0 \/ new < settings.limits[n]
  <1>1. /\ n \in DOMAIN limits /\ limits[n] \in Counted
        /\ settings.limits[n] \in LongLongMin..LongLongMax
        /\ limitspace \in Int /\ limitspace >= 0
    BY DEF IInv, Types, ChosenInv, LimitSettingsKnown, Counted
  <1>2. count[limits[n]] \in Usage
    BY <1>1 DEF Counts, Range
  <1>3. scip.limits[n] = settings.limits[n]
    BY DEF UseInv, SetUpIsComplete
  <1>4. settings.limits[n] < 0 \/ settings.limits[n] >= count[limits[n]]
    <2>1. scip.limits[n] >= 0 => count[limits[n]] <= scip.limits[n]
      BY DEF Counts
    <2>2. \A k \in LongLongMin..LongLongMax : k \in Int
      OBVIOUS
    <2>3. Usage \subseteq Int
      BY LimitsAssumption
    <2>4. settings.limits[n] \in Int /\ count[limits[n]] \in Int
      BY <1>1, <1>2, <2>2, <2>3
    <2>5. QED
      BY <1>3, <2>1, <2>4
  <1>5. CASE new = settings.limits[n]
    BY <1>4, <1>5
  <1>6. CASE new # settings.limits[n]
    <2>1. new = Restricted(settings.limits[n], limits[n], count[limits[n]])
      BY <1>6 DEF RestrictedSettings
    <2>2. Restricted(settings.limits[n], limits[n], count[limits[n]]) # settings.limits[n]
      BY <1>6, <2>1
    <2> DEFINE old == settings.limits[n]
               limit == limits[n]
               need == count[limits[n]]
    <2>3. /\ old \in LongLongMin..LongLongMax /\ need \in Usage
          /\ limitspace \in Int /\ limitspace >= 0
      BY <1>1, <1>2
    <2>4. Restricted(old, limit, need) # old /\ new = Restricted(old, limit, need)
      BY <2>1, <2>2
    <2> HIDE DEF old, limit, need
    <2>5. /\ new \in 1..LargestOf(limit)
          /\ old < 0 \/ new < old
          /\ new >= need
          /\ limit \in {"BEST", "SOLU"} => new > need
      BY <2>3, <2>4, RestrictedFits
    <2>6. QED
      BY <2>5 DEF old, limit, need
  <1>7. QED
    BY <1>5, <1>6

(* What a bug leaves of the limits can be used again.                      *)
LEMMA SolveUseInv ==
  IInv /\ UseInv /\ Solve => UseInv'
  <1> SUFFICES ASSUME IInv, UseInv, Solve PROVE UseInv'
    OBVIOUS
  <1>1. /\ pc = "setup" /\ pc' = "solved" /\ parsed
        /\ UNCHANGED <<available, limits, file, parsed>>
        /\ settings'.others = settings.others
    BY SolveCases
  <1>2. ObjectInv' /\ FileInv' /\ SetUpIsComplete' /\ SetUpSucceeds'
    BY <1>1 DEF UseInv, ObjectInv, FileInv, SetUpIsComplete, SetUpSucceeds
  <1>3. CASE UNCHANGED <<settings, used, before>>
    BY <1>1, <1>2, <1>3 DEF UseInv, AcceptInv, Overflowed, Accepts, RepeatInv, Repeatable
  <1>4. ASSUME NEW count \in Counts,
               used' = count, before' = settings.limits,
               settings' = settings \/ settings'.limits = RestrictedSettings(count)
        PROVE  UseInv'
    <2>1. DOMAIN settings'.limits = DOMAIN settings.limits
      BY <1>4 DEF RestrictedSettings
    <2>2. \A n \in DOMAIN settings.limits :
            LET new == settings'.limits[n]
            IN  /\ new < 0 \/ new >= count[limits[n]]
                /\ limits[n] \in {"BEST", "SOLU"} /\ new # settings.limits[n]
                     => new > count[limits[n]]
                /\ new # settings.limits[n] =>
                     /\ new \in 1..LargestOf(limits[n])
                     /\ settings.limits[n] < 0 \/ new < settings.limits[n]
      BY <1>1, <1>4, SolveRepeatable
    <2>3. RepeatInv'
      BY <1>1, <1>4, <2>2 DEF RepeatInv, Repeatable
    <2>4. AcceptInv'
      <3> SUFFICES ASSUME NEW n \in DOMAIN settings.limits
                   PROVE  Accepts(n, settings'.limits[n])
        BY <1>1, <2>1 DEF AcceptInv, Accepts
      <3> DEFINE old == settings.limits[n]
                 new == settings'.limits[n]
      <3>1. Accepts(n, old)
        BY <1>1 DEF UseInv, AcceptInv, SetUpSucceeds
      <3>2. new # old => new \in 1..LargestOf(limits[n]) /\ (old < 0 \/ new < old)
        BY <2>2
      <3>3. limits[n] = KindOf(n)
        BY DEF IInv, ChosenInv, LimitSettingsKnown
      <3>4. /\ IntMax \in Nat /\ LongLongMax \in Nat /\ Forever \in Nat
            /\ IntMax < LongLongMax
        BY LimitsAssumption
      <3> HIDE DEF old, new
      <3>5. CASE KindOf(n) = "TIME"
        <4>1. old \in 0..Forever
          BY <3>1, <3>5 DEF Accepts
        <4>2. LargestOf(limits[n]) \in Int
          BY <3>4 DEF LargestOf
        <4>3. new \in 0..Forever
          BY <3>2, <3>4, <4>1, <4>2
        <4>4. QED
          BY <3>5, <4>3 DEF Accepts, new
      <3>6. CASE KindOf(n) # "TIME"
        <4> DEFINE largest == IF KindOf(n) = "TOTA" THEN LongLongMax ELSE IntMax
        <4>1. \A v : Accepts(n, v) <=> v \in -1..largest
          BY <3>6 DEF Accepts
        <4>2. LargestOf(limits[n]) = largest
          <5>1. KindOf(n) \in {"BEST", "SOLU", "REST", "TOTA"}
            BY <3>3, <3>6 DEF IInv, LimitSettingsKnown, Counted
          <5>2. QED
            BY <3>3, <5>1 DEF LargestOf
        <4>3. new = old \/ new \in 1..largest
          BY <3>2, <4>2
        <4> HIDE DEF largest
        <4>4. Accepts(n, new)
          BY <3>1, <4>1, <4>3
        <4>5. QED
          BY <4>4 DEF new
      <3>7. QED
        BY <3>5, <3>6
    <2>5. QED
      BY <1>2, <2>3, <2>4 DEF UseInv
  <1>5. QED
    BY <1>3, <1>4, SolveCases

(* The limits outlive the solver object.                                   *)
LEMMA FreeSolverUseInv ==
  IInv /\ UseInv /\ FreeSolver => UseInv'
  <1> SUFFICES ASSUME IInv, UseInv, FreeSolver PROVE UseInv'
    OBVIOUS
  <1>1. /\ pc' = "idle"
        /\ UNCHANGED <<available, limits, file, parsed, settings, used, before>>
    BY DEF FreeSolver, factory, history
  <1>2. QED
    BY <1>1 DEF UseInv, ObjectInv, FileInv, AcceptInv, Overflowed, Accepts, RepeatInv,
               Repeatable, SetUpIsComplete, SetUpSucceeds

(* Every step keeps UseInv, too.                                           *)
LEMMA NextUseInv ==
  IInv /\ UseInv /\ [Next]_vars => UseInv'
  <1>1. UseInv /\ UNCHANGED vars => UseInv'
    BY DEF vars, factory, history, UseInv, ObjectInv, FileInv, AcceptInv, Overflowed,
           Accepts, RepeatInv, Repeatable, SetUpIsComplete, SetUpSucceeds, Fresh
  <1>2. QED
    BY <1>1, CreateSolverUseInv, ParseSettingsUseInv, DoSetUpUseInv, SolveUseInv,
       FreeSolverUseInv DEF Next, Aborted

(* UseInv holds throughout.                                                *)
LEMMA LimitsUseInv ==
  Spec => []UseInv
  BY InitUseInv, NextUseInv, LimitsIInv, PTL DEF Spec

(* ScipRealInterface.hpp 349-434: the limits that a solve with a bug       *)
(* leaves allow for its repetition, for every usage and limit space.       *)
THEOREM LimitsRepeat ==
  Spec => []Repeatable
  <1>1. UseInv => Repeatable
    BY DEF UseInv, RepeatInv
  <1>2. QED
    BY <1>1, LimitsUseInv, PTL

(* SCIP accepts every limit it is handed, restricted or not, except a time *)
(* limit beyond a long long that became negative: with it, and with no     *)
(* other, doSetUp() aborts.                                                *)
THEOREM LimitsAccepted ==
  Spec => []SetUpSucceeds
  <1>1. UseInv => SetUpSucceeds
    BY DEF UseInv
  <1>2. QED
    BY <1>1, LimitsUseInv, PTL

(* A solver object runs with what the settings say and else its defaults.  *)
THEOREM LimitsComplete ==
  Spec => []SetUpIsComplete
  <1>1. UseInv => SetUpIsComplete
    BY DEF UseInv
  <1>2. QED
    BY <1>1, LimitsUseInv, PTL

-------------------------------------------------------------------------------
(* Settings of SoPlex, and the names of its parameters.                    *)
LEMMA SoplexNames ==
  /\ {"objlimit_lower", "objlimit_upper", "timelimit"} = Soplex!RealParams
  /\ Soplex!ObjLimits = {"objlimit_lower", "objlimit_upper"}
  /\ \A s : Soplex!DualName(s) \in Soplex!ObjLimits /\ Soplex!PrimName(s) \in Soplex!ObjLimits
  /\ \A s : Soplex!DualName(s) # Soplex!PrimName(s)
  BY DEF Soplex!RealParams, Soplex!ObjLimits, Soplex!DualName, Soplex!PrimName

(* A record of settings is not the empty tuple of none.                    *)
LEMMA SettingsAreSome ==
  \A s : Soplex!IsSettings(s) => s # Soplex!NoSettings
  <1>1. \A a, b : [doubles |-> a, limits |-> b] # <<>>
    OBVIOUS
  <1>2. QED
    BY <1>1 DEF Soplex!IsSettings, Soplex!NoSettings

(* The session begins without a limit.                                     *)
LEMMA SoplexInit ==
  Soplex!Init => Soplex!IInv
  <1> SUFFICES ASSUME Soplex!Init PROVE Soplex!IInv
    OBVIOUS
  <1>1. step = "start" /\ fresh = TRUE /\ first = value /\ inuse = <<>>
    BY DEF Soplex!Init
  <1>2. Soplex!ShapeInv
    <2>1. space \in Int /\ wished \subseteq Soplex!SoplexLimit /\ value \in Int
      BY SolverAssumption
         DEF Soplex!Init, Soplex!SessionAssumption, Soplex!RequestedAssumption
    <2>2. DOMAIN inuse = {}
      BY <1>1
    <2>3. /\ target = Soplex!NoSettings /\ given = Soplex!NoSettings
          /\ retcode = 0 /\ opened \in SoplexFiles
      BY DEF Soplex!Init
    <2>4. QED
      BY <1>1, <2>1, <2>2, <2>3 DEF Soplex!ShapeInv, Soplex!Read
  <1>3. QED
    BY <1>1, <1>2 DEF Soplex!IInv, Soplex!KindsInv, Soplex!SenseInv, Soplex!DistanceInv,
       Soplex!LimitFollowsReference, Soplex!ObjectiveLimitsSided, Soplex!Sided, Soplex!Read

(* The limits in use once settings were parsed.                            *)
LEMMA SoplexLimitsKinds ==
  ASSUME NEW sense, NEW old,
         wished \subseteq Soplex!SoplexLimit,
         DOMAIN old \subseteq Soplex!RealParams \cup Soplex!IntParams,
         \A n \in DOMAIN old : old[n] \in Soplex!SoplexLimit
  PROVE  LET new == Soplex!WithObjLimits(sense, old)
         IN  /\ DOMAIN new \subseteq Soplex!RealParams \cup Soplex!IntParams
             /\ \A n \in DOMAIN new : new[n] \in Soplex!SoplexLimit
             /\ "DUAL" \in wished => /\ Soplex!DualName(sense) \in DOMAIN new
                                     /\ new[Soplex!DualName(sense)] = "DUAL"
             /\ "PRIM" \in wished => /\ Soplex!PrimName(sense) \in DOMAIN new
                                     /\ new[Soplex!PrimName(sense)] = "PRIM"
  <1> DEFINE dual == IF "DUAL" \in wished THEN {Soplex!DualName(sense)} ELSE {}
             prim == IF "PRIM" \in wished THEN {Soplex!PrimName(sense)} ELSE {}
             new == Soplex!WithObjLimits(sense, old)
  <1>1. /\ DOMAIN new = DOMAIN old \cup dual \cup prim
        /\ \A n \in DOMAIN new :
             new[n] = IF n \in prim THEN "PRIM" ELSE IF n \in dual THEN "DUAL" ELSE old[n]
    BY DEF Soplex!WithObjLimits
  <1> HIDE DEF new
  <1>2. dual \cup prim \subseteq Soplex!RealParams
    BY SoplexNames
  <1>3. dual \cap prim = {}
    BY SoplexNames
  <1>4. {"DUAL", "PRIM"} \subseteq Soplex!SoplexLimit
    BY DEF Soplex!SoplexLimit
  <1>5. \A n \in DOMAIN new : new[n] \in Soplex!SoplexLimit
    BY <1>1, <1>4
  <1>6. DOMAIN new \subseteq Soplex!RealParams \cup Soplex!IntParams
    BY <1>1, <1>2
  <1> HIDE DEF dual, prim
  <1>7. /\ \A n \in prim : n \in DOMAIN new /\ new[n] = "PRIM"
        /\ \A n \in dual : n \in DOMAIN new /\ new[n] = "DUAL"
    BY <1>1, <1>3
  <1>8. QED
    BY <1>5, <1>6, <1>7 DEF new, dual, prim

(* The settings that are parsed with given limits in use.                  *)
LEMMA SoplexParsed ==
  ASSUME NEW loaded, NEW taken, NEW s \in Soplex!Parsed(loaded, taken)
  PROVE  /\ Soplex!IsSettings(s)
         /\ DOMAIN s.doubles = Soplex!RealParams \ DOMAIN taken
         /\ \A n \in DOMAIN s.doubles : s.doubles[n] = loaded.params[n]
         /\ \A n \in DOMAIN s.limits : n \in DOMAIN taken /\ taken[n] \in Soplex!Counted
  <1> DEFINE counted == {n \in DOMAIN taken : taken[n] \in Soplex!Counted}
             range == -LongLongMax - 1..LongLongMax
  <1>1. PICK l \in [counted -> range] :
          s = [doubles |-> [n \in Soplex!RealParams \ DOMAIN taken |-> loaded.params[n]],
               limits  |-> l]
    BY DEF Soplex!Parsed
  <1>2. s.limits = l /\ s.doubles = [n \in Soplex!RealParams \ DOMAIN taken |-> loaded.params[n]]
    BY <1>1
  <1>3. s = [doubles |-> s.doubles, limits |-> s.limits]
    BY <1>1, <1>2
  <1>4. QED
    BY <1>2, <1>3 DEF Soplex!IsSettings

(* The limits that the first solver object selects.                        *)
LEMMA SoplexInitialLimits ==
  wished \subseteq Soplex!SoplexLimit =>
    /\ DOMAIN Soplex!InitialLimits \subseteq Soplex!RealParams \cup Soplex!IntParams
    /\ \A n \in DOMAIN Soplex!InitialLimits : Soplex!InitialLimits[n] \in Soplex!SoplexLimit
  <1> SUFFICES ASSUME wished \subseteq Soplex!SoplexLimit,
                      NEW n \in DOMAIN Soplex!InitialLimits
               PROVE  /\ n \in Soplex!RealParams \cup Soplex!IntParams
                      /\ Soplex!InitialLimits[n] \in Soplex!SoplexLimit
    OBVIOUS
  <1> DEFINE on == IF space < 0 THEN {}
                   ELSE {l \in wished \cap Soplex!Counted :
                           Soplex!has_setting(Soplex!CountedNames[l])}
  <1>1. /\ n \in {Soplex!CountedNames[l] : l \in on}
        /\ Soplex!InitialLimits[n] = CHOOSE l \in on : Soplex!CountedNames[l] = n
    BY DEF Soplex!InitialLimits
  <1>2. PICK l \in on : Soplex!CountedNames[l] = n
    BY <1>1
  <1>3. Soplex!InitialLimits[n] \in on
    BY <1>1, <1>2
  <1>4. on \subseteq Soplex!SoplexLimit
    OBVIOUS
  <1>5. n \in Soplex!RealParams \cup Soplex!IntParams
    BY <1>2 DEF Soplex!has_setting
  <1>6. QED
    BY <1>3, <1>4, <1>5

(* The target settings are read.                                           *)
LEMMA SoplexParseTarget ==
  Soplex!IInv /\ Soplex!ParseTarget => Soplex!IInv'
  <1> SUFFICES ASSUME Soplex!IInv, Soplex!ParseTarget PROVE Soplex!IInv'
    OBVIOUS
  <1>1. /\ step = "start" /\ step' = "targeted"
        /\ UNCHANGED <<space, wished, fresh, problem, value, given, retcode, opened, first>>
    BY DEF Soplex!ParseTarget
  <1>2. PICK f \in SoplexFiles :
          LET loaded == Soplex!Loaded(f)
              taken  == Soplex!WithObjLimits(loaded.sense, Soplex!InitialLimits)
          IN  \/ /\ inuse' = taken
                 /\ target' \in Soplex!Parsed(loaded, taken) \cup {Soplex!NoSettings}
              \/ /\ inuse' = Soplex!InitialLimits
                 /\ UNCHANGED target
    BY DEF Soplex!ParseTarget
  <1>3. /\ DOMAIN inuse' \subseteq Soplex!RealParams \cup Soplex!IntParams
        /\ \A n \in DOMAIN inuse' : inuse'[n] \in Soplex!SoplexLimit
    <2>1. wished \subseteq Soplex!SoplexLimit
      BY DEF Soplex!IInv, Soplex!ShapeInv
    <2>2. QED
      BY <1>2, <2>1, SoplexInitialLimits, SoplexLimitsKinds
  <1>4. target' = Soplex!NoSettings \/ Soplex!IsSettings(target')
    BY <1>2, SoplexParsed DEF Soplex!IInv, Soplex!ShapeInv
  <1>5. Soplex!ShapeInv'
    <2>1. /\ ~ Soplex!Read /\ ~ Soplex!Read'
          /\ given = Soplex!NoSettings /\ Soplex!NoSettings' = Soplex!NoSettings
      BY <1>1 DEF Soplex!IInv, Soplex!ShapeInv, Soplex!Read, Soplex!NoSettings
    <2>2. Soplex!IsSettings(target') => Soplex!IsSettings(target)'
      BY DEF Soplex!IsSettings
    <2>3. QED
      BY <1>1, <1>3, <1>4, <2>1, <2>2 DEF Soplex!IInv, Soplex!ShapeInv
  <1>6. QED
    BY <1>1, <1>5 DEF Soplex!IInv, Soplex!KindsInv, Soplex!SenseInv, Soplex!DistanceInv,
       Soplex!LimitFollowsReference, Soplex!ObjectiveLimitsSided, Soplex!Sided, Soplex!Read

(* The instance is read, and the limit made relative.                      *)
LEMMA SoplexReadInstance ==
  Soplex!IInv /\ Soplex!ReadInstance => Soplex!IInv'
  <1> SUFFICES ASSUME Soplex!IInv, Soplex!ReadInstance PROVE Soplex!IInv'
    OBVIOUS
  <1> DEFINE loaded == Soplex!Loaded(opened)
             taken == Soplex!WithObjLimits(loaded.sense, inuse)
  <1>1. /\ step = "targeted" /\ step' = "ready"
        /\ UNCHANGED <<space, wished, fresh, problem, value, target, retcode, opened, first,
                       reset>>
        /\ inuse' = taken /\ given' \in Soplex!Parsed(loaded, taken)
        /\ known' = (known /\ loaded.sense = problem.sense)
    BY DEF Soplex!ReadInstance, Soplex!NoteSense
  <1>2. /\ Soplex!IsSettings(given')
        /\ DOMAIN given'.doubles = Soplex!RealParams \ DOMAIN taken
        /\ \A n \in DOMAIN given'.doubles : given'.doubles[n] = loaded.params[n]
        /\ \A n \in DOMAIN given'.limits : n \in DOMAIN taken /\ taken[n] \in Soplex!Counted
    BY <1>1, SoplexParsed
  <1>3. /\ DOMAIN taken \subseteq Soplex!RealParams \cup Soplex!IntParams
        /\ \A n \in DOMAIN taken : taken[n] \in Soplex!SoplexLimit
        /\ "DUAL" \in wished => /\ Soplex!DualName(loaded.sense) \in DOMAIN taken
                                /\ taken[Soplex!DualName(loaded.sense)] = "DUAL"
        /\ "PRIM" \in wished => /\ Soplex!PrimName(loaded.sense) \in DOMAIN taken
                                /\ taken[Soplex!PrimName(loaded.sense)] = "PRIM"
    BY SoplexLimitsKinds DEF Soplex!IInv, Soplex!ShapeInv
  <1>4. fresh = TRUE /\ value = first
    BY <1>1 DEF Soplex!IInv, Soplex!DistanceInv, Soplex!Read
  <1> HIDE DEF taken
  <1>5. Soplex!ShapeInv'
    <2>1. Soplex!IsSettings(given)'
      BY <1>2 DEF Soplex!IsSettings
    <2>2. target = Soplex!NoSettings \/ Soplex!IsSettings(target)
      BY DEF Soplex!IInv, Soplex!ShapeInv
    <2>3. (target = Soplex!NoSettings \/ Soplex!IsSettings(target))'
      BY <1>1, <2>2 DEF Soplex!IsSettings, Soplex!NoSettings
    <2>4. Soplex!Read'
      BY <1>1 DEF Soplex!Read
    <2>5. QED
      BY <1>1, <1>3, <2>1, <2>3, <2>4 DEF Soplex!IInv, Soplex!ShapeInv
  <1>6. Soplex!KindsInv'
    BY <1>1, <1>2 DEF Soplex!KindsInv
  <1>7. Soplex!SenseInv'
    BY <1>1, <1>3 DEF Soplex!SenseInv, Soplex!DualName, Soplex!PrimName
  <1>8. Soplex!DistanceInv'
    <2>1. \A n \in DOMAIN given'.doubles : given'.doubles[n] = Soplex!GivenLimit(n)'
      BY <1>1, <1>2 DEF Soplex!GivenLimit, Soplex!Loaded, Soplex!Fresh, Soplex!DefaultOf
    <2>2. QED
      BY <1>1, <1>4, <2>1 DEF Soplex!DistanceInv, Soplex!Read
  <1>9. QED
    BY <1>1, <1>5, <1>6, <1>7, <1>8
       DEF Soplex!IInv, Soplex!LimitFollowsReference, Soplex!ObjectiveLimitsSided, Soplex!Sided

(* The objective limit of the file lies in the range of its parameter, and *)
(* a distance is kept in it.                                               *)
LEMMA SoplexRanges ==
  ASSUME opened \in SoplexFiles
  PROVE  /\ SoplexInfinity \in Nat
         /\ \A n \in Soplex!ObjLimits : Soplex!GivenLimit(n) \in -SoplexInfinity..SoplexInfinity
         /\ \A v \in Int : Soplex!Clamped(v) \in -SoplexInfinity..SoplexInfinity
         /\ \A n \in Soplex!ObjLimits, v \in -SoplexInfinity..SoplexInfinity :
              Soplex!Accepts(n, v)
         /\ \A v \in Int : Soplex!IsFinite(v) => Soplex!Clamped(v) = v
         /\ \A v \in Int : ~ Soplex!IsFinite(v) => ~ Soplex!IsFinite(Soplex!Clamped(v))
  <1>1. SoplexInfinity \in Nat
    BY SolverAssumption DEF Soplex!SessionAssumption
  <1>2. \A n \in Soplex!ObjLimits : \A v : Soplex!Accepts(n, v) <=> v \in -SoplexInfinity..SoplexInfinity
    BY DEF Soplex!ObjLimits, Soplex!IntParams, Soplex!Accepts
  <1>3. ASSUME NEW n \in Soplex!ObjLimits
        PROVE  Soplex!GivenLimit(n) \in -SoplexInfinity..SoplexInfinity
    <2>1. n \in Soplex!RealParams
      BY SoplexNames
    <2>2. Soplex!GivenLimit(n) = IF n \in DOMAIN opened.params THEN opened.params[n]
                                                               ELSE Soplex!DefaultOf(n)
      BY <2>1 DEF Soplex!GivenLimit, Soplex!Loaded
    <2>3. n \in DOMAIN opened.params => Soplex!Accepts(n, opened.params[n])
      BY <2>1, SolverAssumption DEF Soplex!FilesAssumption
    <2>4. Soplex!DefaultOf(n) \in {-SoplexInfinity, SoplexInfinity}
      BY DEF Soplex!ObjLimits, Soplex!DefaultOf
    <2>5. QED
      BY <1>1, <1>2, <2>2, <2>3, <2>4
  <1>4. /\ \A v \in Int : Soplex!Clamped(v) \in -SoplexInfinity..SoplexInfinity
        /\ \A v \in Int : Soplex!IsFinite(v) => Soplex!Clamped(v) = v
        /\ \A v \in Int : ~ Soplex!IsFinite(v) => ~ Soplex!IsFinite(Soplex!Clamped(v))
    BY <1>1 DEF Soplex!Clamped, Soplex!IsFinite
  <1>5. QED
    BY <1>1, <1>2, <1>3, <1>4

(* After the first set up the settings hold the distance.                  *)
LEMMA SoplexMadeRelative ==
  ASSUME Soplex!IInv, step = "ready",
         NEW n \in (Soplex!ObjLimits \cap DOMAIN given.doubles) \ reset
  PROVE  /\ n \in DOMAIN Soplex!MadeRelative
         /\ Soplex!MadeRelative[n] =
              IF ~ Soplex!IsRelative(n) THEN Soplex!GivenLimit(n)
              ELSE Soplex!Clamped(Soplex!GivenLimit(n) - first)
  <1>1. given.doubles[n] = IF fresh \/ ~ Soplex!IsRelative(n) THEN Soplex!GivenLimit(n)
                           ELSE Soplex!Clamped(Soplex!GivenLimit(n) - first)
    BY DEF Soplex!IInv, Soplex!DistanceInv, Soplex!Read
  <1>2. fresh => value = first
    BY DEF Soplex!IInv, Soplex!DistanceInv
  <1>3. n \in Soplex!ObjLimits /\ n \in DOMAIN given.doubles
    OBVIOUS
  <1>4. Soplex!MadeRelative[n] =
          IF fresh /\ Soplex!SolutionExists /\ Soplex!IsFinite(given.doubles[n])
          THEN Soplex!Clamped(given.doubles[n] - value)
          ELSE given.doubles[n]
    BY <1>3 DEF Soplex!MadeRelative
  <1>5. n \in DOMAIN Soplex!MadeRelative
    BY <1>3 DEF Soplex!MadeRelative
  <1>6. CASE fresh
    BY <1>1, <1>2, <1>4, <1>5, <1>6 DEF Soplex!IsRelative
  <1>7. CASE ~fresh
    BY <1>1, <1>4, <1>5, <1>7
  <1>8. QED
    BY <1>6, <1>7

(* What is known of the limit when a problem is set up.                    *)
LEMMA SoplexSetUp ==
  ASSUME Soplex!IInv, Soplex!DoSetUp
  PROVE  /\ step = "ready" /\ step' = "setup" /\ fresh' = FALSE
         /\ UNCHANGED <<space, wished, inuse, problem, value, target, retcode,
                        opened, first, reset, known>>
         /\ given' = [doubles |-> Soplex!MadeRelative, limits |-> given.limits]
         /\ given'.doubles = Soplex!MadeRelative /\ given'.limits = given.limits
         /\ DOMAIN Soplex!MadeRelative = DOMAIN given.doubles
         /\ soplex'.params
              = Soplex!WithReference(Soplex!MadeAbsolute(Soplex!SetParameters(given')))
  <1>1. /\ step = "ready" /\ step' = "setup" /\ fresh' = FALSE
        /\ UNCHANGED <<space, wished, inuse, problem, value, target, retcode,
                       opened, first, reset, known>>
        /\ given' = [given EXCEPT !.doubles = Soplex!MadeRelative]
        /\ soplex'.params
             = Soplex!WithReference(Soplex!MadeAbsolute(Soplex!SetParameters(given')))
    BY DEF Soplex!DoSetUp, Soplex!history
  <1>2. given = [doubles |-> given.doubles, limits |-> given.limits]
    BY <1>1 DEF Soplex!IInv, Soplex!ShapeInv, Soplex!IsSettings, Soplex!Read
  <1>3. given' = [doubles |-> Soplex!MadeRelative, limits |-> given.limits]
    BY <1>1, <1>2
  <1>4. given'.doubles = Soplex!MadeRelative /\ given'.limits = given.limits
    BY <1>3
  <1>5. DOMAIN Soplex!MadeRelative = DOMAIN given.doubles
    BY DEF Soplex!MadeRelative
  <1>6. QED
    BY <1>1, <1>3, <1>4, <1>5

(* SoPlex gets the limit of the file at its distance from the reference.   *)
LEMMA SoplexFollows ==
  ASSUME Soplex!IInv, Soplex!DoSetUp,
         NEW n \in (Soplex!ObjLimits \cap DOMAIN given.doubles) \ reset
  PROVE  LET distance == Soplex!GivenLimit(n) - first
         IN  soplex'.params[n] =
               IF ~ Soplex!IsRelative(n) THEN Soplex!GivenLimit(n)
               ELSE IF Soplex!IsFinite(distance) THEN Soplex!Clamped(distance + value)
               ELSE Soplex!Clamped(distance)
  <1> DEFINE distance == Soplex!GivenLimit(n) - first
             relative == Soplex!MadeRelative[n]
             handed == Soplex!SetParameters(given')
             absolute == Soplex!MadeAbsolute(handed)
  <1>1. /\ n \in Soplex!ObjLimits /\ n \in DOMAIN given.doubles
        /\ n \in Soplex!RealParams /\ n \notin DOMAIN inuse
    <2>1. DOMAIN given.doubles = Soplex!RealParams \ DOMAIN inuse
      BY SoplexSetUp DEF Soplex!IInv, Soplex!KindsInv, Soplex!Read
    <2>2. QED
      BY <2>1
  <1>2. /\ opened \in SoplexFiles /\ value \in Int /\ first \in Int
    BY DEF Soplex!IInv, Soplex!ShapeInv
  <1>3. /\ SoplexInfinity \in Nat
        /\ Soplex!GivenLimit(n) \in -SoplexInfinity..SoplexInfinity
    BY <1>1, <1>2, SoplexRanges
  <1>4. distance \in Int
    BY <1>2, <1>3
  <1>5. relative = IF ~ Soplex!IsRelative(n) THEN Soplex!GivenLimit(n)
                   ELSE Soplex!Clamped(distance)
    BY SoplexSetUp, SoplexMadeRelative
  <1>6. relative \in -SoplexInfinity..SoplexInfinity
    BY <1>2, <1>3, <1>4, <1>5, SoplexRanges
  <1>7. handed[n] = relative /\ n \in DOMAIN handed
    <2>1. n \in DOMAIN given'.doubles /\ given'.doubles[n] = relative
      BY <1>1, SoplexSetUp
    <2>2. Soplex!Accepts(n, relative)
      BY <1>1, <1>2, <1>6, SoplexRanges
    <2> HIDE DEF relative
    <2>3. QED
      BY <1>1, <2>1, <2>2 DEF Soplex!SetParameters
  <1> HIDE DEF handed, relative
  <1>8. /\ absolute[n] = IF Soplex!SolutionExists /\ Soplex!IsFinite(relative)
                         THEN Soplex!Clamped(relative + value) ELSE relative
        /\ n \in DOMAIN absolute
    BY <1>1, <1>7 DEF Soplex!MadeAbsolute
  <1> HIDE DEF absolute
  <1>9. soplex'.params[n] = absolute[n]
    <2>1. soplex'.params = Soplex!WithReference(absolute)
      BY SoplexSetUp DEF absolute, handed
    <2>2. QED
      BY <1>1, <1>8, <2>1 DEF Soplex!WithReference
  <1>10. CASE ~ Soplex!IsRelative(n)
    BY <1>5, <1>8, <1>9, <1>10 DEF Soplex!IsRelative
  <1>11. CASE Soplex!IsRelative(n)
    <2>1. Soplex!SolutionExists /\ relative = Soplex!Clamped(distance)
      BY <1>5, <1>11 DEF Soplex!IsRelative
    <2>2. /\ Soplex!IsFinite(distance) => relative = distance
          /\ ~ Soplex!IsFinite(distance) => ~ Soplex!IsFinite(relative)
      BY <1>2, <1>4, <2>1, SoplexRanges
    <2>3. QED
      BY <1>8, <1>9, <1>11, <2>1, <2>2
  <1>12. QED
    BY <1>10, <1>11

(* The limits the user asked for are overwritten with the reference.       *)
LEMMA SoplexSided ==
  ASSUME Soplex!IInv, Soplex!DoSetUp, known, Soplex!SolutionExists
  PROVE  /\ "DUAL" \in wished =>
              IF problem.sense = "minimize"
              THEN soplex'.params["objlimit_upper"] = Soplex!Clamped(value + Margin)
              ELSE soplex'.params["objlimit_lower"] = Soplex!Clamped(value - Margin)
         /\ "PRIM" \in wished => soplex'.params[Soplex!PrimName(problem.sense)] = value
  <1> DEFINE absolute == Soplex!MadeAbsolute(Soplex!SetParameters(given'))
             dual == Soplex!DualName(problem.sense)
             prim == Soplex!PrimName(problem.sense)
  <1>1. soplex'.params = Soplex!WithReference(absolute)
    BY SoplexSetUp
  <1>2. DOMAIN absolute = Soplex!RealParams \cup Soplex!IntParams
    BY DEF Soplex!MadeAbsolute, Soplex!SetParameters
  <1>3. dual \in Soplex!RealParams /\ prim \in Soplex!RealParams
    BY SoplexNames
  <1>4. /\ "DUAL" \in wished => dual \in DOMAIN inuse /\ inuse[dual] = "DUAL"
        /\ "PRIM" \in wished => prim \in DOMAIN inuse /\ inuse[prim] = "PRIM"
    BY SoplexSetUp DEF Soplex!IInv, Soplex!SenseInv, Soplex!Read
  <1> HIDE DEF absolute, dual, prim
  <1>5. \A n \in Soplex!RealParams : n \in DOMAIN inuse =>
          /\ inuse[n] = "DUAL" =>
               soplex'.params[n] = Soplex!Relaxed(problem.sense = "minimize")
          /\ inuse[n] = "PRIM" => soplex'.params[n] = value
    BY <1>1, <1>2 DEF Soplex!WithReference
  <1>6. /\ Soplex!Relaxed(TRUE) = Soplex!Clamped(value + Margin)
        /\ Soplex!Relaxed(FALSE) = Soplex!Clamped(value - Margin)
    <2>1. value \in Int /\ Margin \in Nat
      BY SolverAssumption DEF Soplex!SessionAssumption, Soplex!IInv, Soplex!ShapeInv
    <2>2. value + (-Margin) = value - Margin
      BY <2>1
    <2>3. QED
      BY <2>2 DEF Soplex!Relaxed
  <1>7. "PRIM" \in wished => soplex'.params[prim] = value
    BY <1>3, <1>4, <1>5
  <1>8. "DUAL" \in wished =>
          soplex'.params[dual] = Soplex!Relaxed(problem.sense = "minimize")
    BY <1>3, <1>4, <1>5
  <1>9. CASE problem.sense = "minimize"
    BY <1>6, <1>7, <1>8, <1>9 DEF dual, prim, Soplex!DualName
  <1>10. CASE problem.sense # "minimize"
    BY <1>6, <1>7, <1>8, <1>10 DEF dual, prim, Soplex!DualName
  <1>11. QED
    BY <1>9, <1>10

(* A problem is set up, with the limit of its reference.                   *)
LEMMA SoplexDoSetUp ==
  Soplex!IInv /\ Soplex!DoSetUp => Soplex!IInv'
  <1> SUFFICES ASSUME Soplex!IInv, Soplex!DoSetUp PROVE Soplex!IInv'
    OBVIOUS
  <1>1. /\ step = "ready" /\ step' = "setup" /\ fresh' = FALSE
        /\ UNCHANGED <<space, wished, inuse, problem, value, target, retcode,
                       opened, first, reset, known>>
        /\ given' = [doubles |-> Soplex!MadeRelative, limits |-> given.limits]
        /\ given'.doubles = Soplex!MadeRelative /\ given'.limits = given.limits
        /\ DOMAIN Soplex!MadeRelative = DOMAIN given.doubles
    BY SoplexSetUp
  <1>2. Soplex!Read /\ Soplex!Read'
    BY <1>1 DEF Soplex!Read
  <1>3. Soplex!ShapeInv'
    <2>1. Soplex!IsSettings(given)'
      BY <1>1, <1>2 DEF Soplex!IInv, Soplex!ShapeInv, Soplex!IsSettings, Soplex!RealParams,
         Soplex!ObjLimits
    <2>2. (target = Soplex!NoSettings \/ Soplex!IsSettings(target))'
      BY <1>1 DEF Soplex!IInv, Soplex!ShapeInv, Soplex!IsSettings, Soplex!NoSettings
    <2>3. QED
      BY <1>1, <1>2, <2>1, <2>2 DEF Soplex!IInv, Soplex!ShapeInv
  <1>4. Soplex!KindsInv' /\ Soplex!SenseInv'
    BY <1>1, <1>2 DEF Soplex!IInv, Soplex!KindsInv, Soplex!SenseInv, Soplex!DualName,
       Soplex!PrimName
  <1>5. \A n : /\ Soplex!GivenLimit(n)' = Soplex!GivenLimit(n)
               /\ Soplex!IsRelative(n)' = Soplex!IsRelative(n)
    BY <1>1 DEF Soplex!GivenLimit, Soplex!Loaded, Soplex!Fresh, Soplex!DefaultOf,
       Soplex!IsRelative, Soplex!SolutionExists, Soplex!IsFinite
  <1>6. Soplex!DistanceInv'
    <2>1. \A n \in (Soplex!ObjLimits \cap DOMAIN given.doubles) \ reset :
            Soplex!MadeRelative[n] = IF ~ Soplex!IsRelative(n) THEN Soplex!GivenLimit(n)
                                     ELSE Soplex!Clamped(Soplex!GivenLimit(n) - first)
      BY <1>1, SoplexMadeRelative
    <2>2. \A n \in (Soplex!ObjLimits \cap DOMAIN given'.doubles) \ reset' :
            given'.doubles[n] = IF ~ Soplex!IsRelative(n) THEN Soplex!GivenLimit(n)
                                ELSE Soplex!Clamped(Soplex!GivenLimit(n) - first)
      BY <1>1, <2>1
    <2>3. \A n \in (Soplex!ObjLimits \cap DOMAIN given'.doubles) \ reset' :
            given'.doubles[n] = (IF ~ Soplex!IsRelative(n) THEN Soplex!GivenLimit(n)
                                 ELSE Soplex!Clamped(Soplex!GivenLimit(n) - first))'
      BY <1>1, <1>5, <2>2 DEF Soplex!Clamped
    <2>4. QED
      BY <1>1, <1>2, <2>3 DEF Soplex!DistanceInv
  <1>7. Soplex!LimitFollowsReference'
    <2>1. \A n \in (Soplex!ObjLimits \cap DOMAIN given'.doubles) \ reset' :
            LET distance == Soplex!GivenLimit(n) - first
            IN  soplex'.params[n] =
                  IF ~ Soplex!IsRelative(n) THEN Soplex!GivenLimit(n)
                  ELSE IF Soplex!IsFinite(distance) THEN Soplex!Clamped(distance + value)
                  ELSE Soplex!Clamped(distance)
      BY <1>1, SoplexFollows
    <2>2. QED
      BY <1>1, <1>5, <2>1 DEF Soplex!LimitFollowsReference, Soplex!IsFinite, Soplex!Clamped
  <1>8. Soplex!ObjectiveLimitsSided'
    BY <1>1, SoplexSided DEF Soplex!ObjectiveLimitsSided, Soplex!Sided, Soplex!SolutionExists,
       Soplex!Clamped, Soplex!PrimName
  <1>9. QED
    BY <1>3, <1>4, <1>6, <1>7, <1>8 DEF Soplex!IInv

(* A restricted limit is a number of the type it is kept in.               *)
LEMMA SoplexRestricted ==
  ASSUME space \in Int, NEW limit, NEW count \in Usage,
         NEW old \in -LongLongMax - 1..LongLongMax
  PROVE  Soplex!Restricted(old, limit, count) \in -LongLongMax - 1..LongLongMax
  <1> DEFINE bound == Soplex!RestrictedLimit(count)
  <1>1. /\ count \in Int /\ IntMax \in Nat /\ LongLongMax \in Nat /\ IntMax < LongLongMax
    BY LimitsAssumption
  <1>2. (2 + space) * count \in Int
    BY <1>1
  <1>3. \A m \in Int : Soplex!CeilHalf(m) \in Int
    BY DEF Soplex!CeilHalf
  <1>4. \A m \in Int : Soplex!AtLeastOne(m) \in Int /\ Soplex!AtLeastOne(m) >= 1
    BY DEF Soplex!AtLeastOne
  <1>5. bound \in Int /\ bound >= 1
    BY <1>2, <1>3, <1>4 DEF Soplex!RestrictedLimit
  <1>6. Soplex!LargestOf(limit) \in Int /\ Soplex!LargestOf(limit) <= LongLongMax
    BY <1>1 DEF Soplex!LargestOf
  <1>7. Soplex!Restricted(old, limit, count) =
          IF /\ old < 0 \/ old > 1
             /\ bound <= Soplex!LargestOf(limit)
             /\ old < 0 \/ bound < old
          THEN bound ELSE old
    BY DEF Soplex!Restricted
  <1> HIDE DEF bound
  <1>8. QED
    BY <1>1, <1>5, <1>6, <1>7

(* A solve may tighten the limits.                                         *)
LEMMA SoplexSolve ==
  Soplex!IInv /\ Soplex!Solve => Soplex!IInv'
  <1> SUFFICES ASSUME Soplex!IInv, Soplex!Solve PROVE Soplex!IInv'
    OBVIOUS
  <1>1. /\ step = "setup" /\ step' = "solved"
        /\ UNCHANGED <<space, wished, inuse, fresh, problem, value, target, opened, first,
                       reset, known>>
    BY DEF Soplex!Solve, Soplex!history
  <1>2. Soplex!Read /\ Soplex!Read'
    BY <1>1 DEF Soplex!Read
  <1>3. Soplex!IsSettings(given)
    BY <1>2 DEF Soplex!IInv, Soplex!ShapeInv
  <1>4. retcode' \in -5..3
    <2>1. \A e \in Errors : Soplex!CodeOf(e) \in -5..-1
      BY SolverAssumption DEF Soplex!SessionAssumption, Soplex!CodeOf, Soplex!NOT_INIT
    <2>2. retcode' \in 0..3 \cup {Soplex!CodeOf(e) : e \in Errors}
      BY DEF Soplex!Solve
    <2>3. QED
      BY <2>1, <2>2
  <1>5. /\ given' = [doubles |-> given.doubles, limits |-> given'.limits]
        /\ given'.doubles = given.doubles
        /\ DOMAIN given'.limits = DOMAIN given.limits
        /\ \A n \in DOMAIN given.limits : given'.limits[n] \in -LongLongMax - 1..LongLongMax
    <2>1. CASE UNCHANGED given
      BY <1>3, <2>1 DEF Soplex!IsSettings
    <2>2. CASE ~ UNCHANGED given
      <3> DEFINE news(count) ==
            [n \in DOMAIN given.limits |->
               Soplex!Restricted(given.limits[n], inuse[n], count[inuse[n]])]
      <3>1. PICK count \in Soplex!Counts : given' = [given EXCEPT !.limits = news(count)]
        BY <2>2 DEF Soplex!Solve
      <3>2. given = [doubles |-> given.doubles, limits |-> given.limits]
        BY <1>3 DEF Soplex!IsSettings
      <3>3. given' = [doubles |-> given.doubles, limits |-> news(count)]
        BY <3>1, <3>2
      <3>4. \A n \in DOMAIN given.limits :
              /\ count[inuse[n]] \in Usage
              /\ given.limits[n] \in -LongLongMax - 1..LongLongMax
        <4>1. \A n \in DOMAIN given.limits : n \in DOMAIN inuse /\ inuse[n] \in Soplex!Counted
          BY <1>2 DEF Soplex!IInv, Soplex!KindsInv
        <4>2. \A n \in DOMAIN inuse : inuse[n] \in Range(inuse)
          BY DEF Range
        <4>3. count \in [Range(inuse) \cap Soplex!Counted -> Usage]
          BY DEF Soplex!Counts, Soplex!Range, Range
        <4>4. QED
          BY <1>3, <4>1, <4>2, <4>3 DEF Soplex!IsSettings
      <3>5. space \in Int
        BY DEF Soplex!IInv, Soplex!ShapeInv
      <3>6. \A n \in DOMAIN given.limits : news(count)[n] \in -LongLongMax - 1..LongLongMax
        BY <3>4, <3>5, SoplexRestricted
      <3>7. DOMAIN news(count) = DOMAIN given.limits
        OBVIOUS
      <3> HIDE DEF news
      <3>8. QED
        BY <3>3, <3>6, <3>7
    <2>3. QED
      BY <2>1, <2>2
  <1>6. Soplex!ShapeInv'
    <2>1. Soplex!IsSettings(given)'
      BY <1>3, <1>5 DEF Soplex!IsSettings
    <2>2. (target = Soplex!NoSettings \/ Soplex!IsSettings(target))'
      BY <1>1 DEF Soplex!IInv, Soplex!ShapeInv, Soplex!IsSettings, Soplex!NoSettings
    <2>3. QED
      BY <1>1, <1>2, <1>4, <2>1, <2>2 DEF Soplex!IInv, Soplex!ShapeInv
  <1>7. Soplex!KindsInv' /\ Soplex!SenseInv'
    BY <1>1, <1>2, <1>5 DEF Soplex!IInv, Soplex!KindsInv, Soplex!SenseInv, Soplex!DualName,
       Soplex!PrimName
  <1>8. \A n : /\ Soplex!GivenLimit(n)' = Soplex!GivenLimit(n)
               /\ Soplex!IsRelative(n)' = Soplex!IsRelative(n)
    BY <1>1 DEF Soplex!GivenLimit, Soplex!Loaded, Soplex!Fresh, Soplex!DefaultOf,
       Soplex!IsRelative, Soplex!SolutionExists, Soplex!IsFinite
  <1>9. Soplex!DistanceInv'
    <2>1. ~fresh
      BY <1>1 DEF Soplex!IInv, Soplex!DistanceInv
    <2>2. QED
      BY <1>1, <1>2, <1>5, <1>8, <2>1 DEF Soplex!IInv, Soplex!DistanceInv, Soplex!Clamped
  <1>10. QED
    BY <1>1, <1>6, <1>7, <1>9
       DEF Soplex!IInv, Soplex!LimitFollowsReference, Soplex!ObjectiveLimitsSided, Soplex!Sided

(* A reduction may change the reference.                                   *)
LEMMA SoplexReduce ==
  Soplex!IInv /\ Soplex!Reduce => Soplex!IInv'
  <1> SUFFICES ASSUME Soplex!IInv, Soplex!Reduce PROVE Soplex!IInv'
    OBVIOUS
  <1>1. /\ step = "solved" /\ step' = "ready"
        /\ UNCHANGED <<space, wished, inuse, fresh, problem, target, retcode, opened, first,
                       known>>
        /\ \/ value' \in Objectives /\ UNCHANGED <<given, reset>>
           \/ /\ UNCHANGED value
              /\ \E n \in DOMAIN target.doubles \cap DOMAIN given.doubles :
                   /\ given' = [given EXCEPT !.doubles[n] = target.doubles[n]]
                   /\ reset' = reset \cup {n}
    BY DEF Soplex!Reduce
  <1>2. Soplex!Read /\ Soplex!Read'
    BY <1>1 DEF Soplex!Read
  <1>3. Soplex!IsSettings(given)
    BY <1>2 DEF Soplex!IInv, Soplex!ShapeInv
  <1>4. value' \in Int
    BY <1>1, SolverAssumption DEF Soplex!SessionAssumption, Soplex!IInv, Soplex!ShapeInv
  <1>5. /\ given' = [doubles |-> given'.doubles, limits |-> given.limits]
        /\ given'.limits = given.limits
        /\ DOMAIN given'.doubles = DOMAIN given.doubles
        /\ reset \subseteq reset'
        /\ \A n \in DOMAIN given.doubles : n \notin reset' =>
             given'.doubles[n] = given.doubles[n]
    <2>1. given = [doubles |-> given.doubles, limits |-> given.limits]
      BY <1>3 DEF Soplex!IsSettings
    <2>2. CASE UNCHANGED <<given, reset>>
      BY <2>1, <2>2
    <2>3. ASSUME NEW n \in DOMAIN given.doubles,
                 given' = [given EXCEPT !.doubles[n] = target.doubles[n]],
                 reset' = reset \cup {n}
          PROVE  <1>5
      <3>1. given' = [doubles |-> [given.doubles EXCEPT ![n] = target.doubles[n]],
                      limits  |-> given.limits]
        BY <2>1, <2>3
      <3>2. given'.doubles = [given.doubles EXCEPT ![n] = target.doubles[n]]
        BY <3>1
      <3>3. QED
        BY <2>3, <3>1, <3>2
    <2>4. QED
      BY <1>1, <2>2, <2>3
  <1>6. Soplex!ShapeInv'
    <2>1. Soplex!IsSettings(given)'
      BY <1>3, <1>5 DEF Soplex!IsSettings, Soplex!RealParams, Soplex!ObjLimits
    <2>2. (target = Soplex!NoSettings \/ Soplex!IsSettings(target))'
      BY <1>1 DEF Soplex!IInv, Soplex!ShapeInv, Soplex!IsSettings, Soplex!NoSettings
    <2>3. QED
      BY <1>1, <1>2, <1>4, <2>1, <2>2 DEF Soplex!IInv, Soplex!ShapeInv
  <1>7. Soplex!KindsInv' /\ Soplex!SenseInv'
    BY <1>1, <1>2, <1>5 DEF Soplex!IInv, Soplex!KindsInv, Soplex!SenseInv, Soplex!DualName,
       Soplex!PrimName
  <1>8. \A n : /\ Soplex!GivenLimit(n)' = Soplex!GivenLimit(n)
               /\ Soplex!IsRelative(n)' = Soplex!IsRelative(n)
    BY <1>1 DEF Soplex!GivenLimit, Soplex!Loaded, Soplex!Fresh, Soplex!DefaultOf,
       Soplex!IsRelative, Soplex!SolutionExists, Soplex!IsFinite
  <1>9. Soplex!DistanceInv'
    <2>1. ~fresh
      BY <1>1 DEF Soplex!IInv, Soplex!DistanceInv
    <2>2. QED
      BY <1>1, <1>2, <1>5, <1>8, <2>1 DEF Soplex!IInv, Soplex!DistanceInv, Soplex!Clamped
  <1>10. QED
    BY <1>1, <1>6, <1>7, <1>9
       DEF Soplex!IInv, Soplex!LimitFollowsReference, Soplex!ObjectiveLimitsSided, Soplex!Sided

(* Nothing happens to the session.                                         *)
LEMMA SoplexUnchanged ==
  Soplex!IInv /\ UNCHANGED Soplex!vars => Soplex!IInv'
  <1> SUFFICES ASSUME Soplex!IInv, UNCHANGED Soplex!vars PROVE Soplex!IInv'
    OBVIOUS
  <1>1. UNCHANGED <<step, space, wished, inuse, fresh, problem, value, target, given,
                    soplex, retcode, opened, first, reset, known>>
    BY DEF Soplex!vars, Soplex!history
  <1>2. Soplex!ShapeInv' /\ Soplex!KindsInv' /\ Soplex!SenseInv'
    BY <1>1 DEF Soplex!IInv, Soplex!ShapeInv, Soplex!KindsInv, Soplex!SenseInv, Soplex!Read,
       Soplex!IsSettings, Soplex!NoSettings, Soplex!DualName, Soplex!PrimName
  <1>3. \A n : /\ Soplex!GivenLimit(n)' = Soplex!GivenLimit(n)
               /\ Soplex!IsRelative(n)' = Soplex!IsRelative(n)
    BY <1>1 DEF Soplex!GivenLimit, Soplex!Loaded, Soplex!Fresh, Soplex!DefaultOf,
       Soplex!IsRelative, Soplex!SolutionExists, Soplex!IsFinite
  <1>4. Soplex!DistanceInv'
    BY <1>1, <1>3 DEF Soplex!IInv, Soplex!DistanceInv, Soplex!Read, Soplex!Clamped
  <1>5. Soplex!LimitFollowsReference'
    BY <1>1, <1>3 DEF Soplex!IInv, Soplex!LimitFollowsReference, Soplex!IsFinite,
       Soplex!Clamped
  <1>6. Soplex!ObjectiveLimitsSided'
    BY <1>1 DEF Soplex!IInv, Soplex!ObjectiveLimitsSided, Soplex!Sided,
       Soplex!SolutionExists, Soplex!Clamped, Soplex!PrimName
  <1>7. QED
    BY <1>2, <1>4, <1>5, <1>6 DEF Soplex!IInv

(* Every step of the session keeps its invariant.                          *)
LEMMA SoplexStepInv ==
  Soplex!IInv /\ [Soplex!Next]_(Soplex!vars) => Soplex!IInv'
  BY SoplexParseTarget, SoplexReadInstance, SoplexDoSetUp, SoplexSolve, SoplexReduce,
     SoplexUnchanged DEF Soplex!Next

-------------------------------------------------------------------------------
(***************************************************************************)
(* A behaviour of the composition belongs to one of the three modules, and *)
(* the invariant of that one holds in it.                                  *)
(***************************************************************************)
LimitsPart == component = "limits" => IInv /\ UseInv
SoplexPart == component = "soplex" => Soplex!IInv

(* The part of the limits keeps its invariant.                             *)
LEMMA LimitsPartInv ==
  SolverSpec => []LimitsPart
  <1>1. SolverInit => LimitsPart
    BY InitIInv, InitUseInv DEF SolverInit, LimitsPart
  <1>2. LimitsPart /\ [SolverNext]_<<component, vars, shared, soplexOnly, checksOnly>>
          => LimitsPart'
    <2> SUFFICES ASSUME LimitsPart,
                        [SolverNext]_<<component, vars, shared, soplexOnly, checksOnly>>,
                        component' = "limits"
                 PROVE  IInv' /\ UseInv'
      BY DEF LimitsPart
    <2>1. component = "limits" /\ [Next]_vars
      BY DEF SolverNext, LimitsStep, SoplexStep, ChecksStep
    <2>2. QED
      BY <2>1, NextIInv, NextUseInv DEF LimitsPart
  <1>3. QED
    BY <1>1, <1>2, PTL DEF SolverSpec

(* The part of SoPlex keeps its invariant.                                 *)
LEMMA SoplexPartInv ==
  SolverSpec => []SoplexPart
  <1>1. SolverInit => SoplexPart
    BY SoplexInit DEF SolverInit, SoplexPart
  <1>2. SoplexPart /\ [SolverNext]_<<component, vars, shared, soplexOnly, checksOnly>>
          => SoplexPart'
    <2> SUFFICES ASSUME SoplexPart,
                        [SolverNext]_<<component, vars, shared, soplexOnly, checksOnly>>,
                        component' = "soplex"
                 PROVE  Soplex!IInv'
      BY DEF SoplexPart
    <2>1. component = "soplex" /\ [Soplex!Next]_(Soplex!vars)
      <3>1. UNCHANGED <<shared, soplexOnly>> => UNCHANGED Soplex!vars
        BY DEF shared, soplexOnly, Soplex!vars, Soplex!history
      <3>2. QED
        BY <3>1 DEF SolverNext, LimitsStep, SoplexStep, ChecksStep
    <2>2. QED
      BY <2>1, SoplexStepInv DEF SoplexPart
  <1>3. QED
    BY <1>1, <1>2, PTL DEF SolverSpec

(***************************************************************************)
(* Every limit of SCIP in the settings is accepted, is what SCIP runs with *)
(* and allows for the repetition of the solve that left it, whatever the   *)
(* version, the requests of the user and the usage of the solves.  The one *)
(* exception is the undefined conversion of ScipInterface.hpp 165: a time  *)
(* limit beyond a long long, like the default, that became negative; with  *)
(* it the set-up aborts, and it aborts with nothing else.                  *)
(***************************************************************************)
THEOREM LimitsAlwaysWork ==
  SolverSpec => []LimitsWork
  <1>1. LimitsPart => LimitsWork
    BY DEF LimitsPart, IInv, Types, ChosenInv, TypeOK, UseInv, RepeatInv, LimitsWork
  <1>2. QED
    BY <1>1, LimitsPartInv, PTL

(***************************************************************************)
(* SoplexRealInterface.hpp 127-166: the objective limit of the settings    *)
(* file keeps its distance from the reference objective through any number *)
(* of reductions and solver objects, and the limits of the user lie on     *)
(* their side of it when the sense was known.                              *)
(***************************************************************************)
THEOREM ObjectiveLimitsAlwaysFollow ==
  SolverSpec => []ObjectiveLimitsFollow
  <1>1. Soplex!IInv => /\ Soplex!TypeOK /\ Soplex!LimitSettingsKnown
                       /\ Soplex!LimitFollowsReference /\ Soplex!ObjectiveLimitsSided
    <2> SUFFICES ASSUME Soplex!IInv
                 PROVE  Soplex!TypeOK /\ Soplex!LimitSettingsKnown
      BY DEF Soplex!IInv
    <2>1. Soplex!LimitSettingsKnown
      BY DEF Soplex!IInv, Soplex!ShapeInv, Soplex!KindsInv, Soplex!LimitSettingsKnown
    <2>2. Soplex!Range(inuse) \subseteq Soplex!SoplexLimit
      BY DEF Soplex!IInv, Soplex!ShapeInv, Soplex!Range
    <2>3. \A s \in {target, given} \ {Soplex!NoSettings} : Soplex!IsSettings(s)
      BY DEF Soplex!IInv, Soplex!ShapeInv
    <2>4. QED
      BY <2>1, <2>2, <2>3 DEF Soplex!IInv, Soplex!ShapeInv, Soplex!TypeOK, Soplex!IsSettings,
         Soplex!Read
  <1>2. SoplexPart => ObjectiveLimitsFollow
    BY <1>1 DEF SoplexPart, ObjectiveLimitsFollow
  <1>3. QED
    BY <1>2, SoplexPartInv, PTL
-------------------------------------------------------------------------------
(***************************************************************************)
(* The checks of a solve, for every instance, tolerance and answer of      *)
(* SCIP.  They sum over the columns of a problem: first, that these sums   *)
(* are numbers.                                                            *)
(***************************************************************************)
(* The element the fold takes out of a set, and its recursion.             *)
Taken(T) == CHOOSE x \in T : TRUE

SumStep(f, g, T) == IF T = {} THEN 0 ELSE f[Taken(T)] + g[T \ {Taken(T)}]

IsSum(g, f, S) == g = [T \in SUBSET S |-> SumStep(f, g, T)]

(* A sum is the value of a function on sets.                               *)
LEMMA SumIsFold ==
  ASSUME NEW f
  PROVE  Checks!SumFunction(f) = (CHOOSE g : IsSum(g, f, DOMAIN f))[DOMAIN f]
BY DEF Checks!SumFunction, Checks!SumFunctionOnSet, Checks!FoldFunctionOnSet,
   Checks!MapThenFoldSet, IsSum, SumStep, Taken

(* A nonempty set of naturals has a least element.                         *)
LEMMA LeastNatural ==
  ASSUME NEW N \in SUBSET Nat, N # {}
  PROVE  \E n \in N : \A m \in N : n <= m
<1>1. \E n \in N : \A m \in N : ~ (<<m, n>> \in OpToRel(<, Nat))
  BY NatLessThanWellFounded, WFMin
<1>2. PICK n \in N : \A m \in N : ~ (<<m, n>> \in OpToRel(<, Nat))
  BY <1>1
<1>3. ASSUME NEW m \in N  PROVE n <= m
  <2>1. <<m, n>> \in Nat \X Nat /\ <<m, n>>[1] = m /\ <<m, n>>[2] = n
    OBVIOUS
  <2>2. ~ (m < n)
    BY <1>2, <2>1 DEF OpToRel
  <2> QED BY <2>2
<1> QED BY <1>3

(* A nonempty set of finite sets has one of the fewest elements.           *)
LEMMA SmallestSet ==
  ASSUME NEW S, IsFiniteSet(S), NEW B \in SUBSET SUBSET S, B # {}
  PROVE  \E T \in B : \A U \in B : Cardinality(T) <= Cardinality(U)
<1> DEFINE N == {Cardinality(T) : T \in B}
<1>1. N \in SUBSET Nat /\ N # {}
  BY FS_Subset, FS_CardinalityType
<1>2. PICK n \in N : \A m \in N : n <= m
  BY <1>1, LeastNatural
<1> QED BY <1>2

(* What is taken out leaves a smaller set.                                 *)
LEMMA TakenOut ==
  ASSUME NEW S, IsFiniteSet(S), NEW T \in SUBSET S, T # {}
  PROVE  /\ Taken(T) \in T
         /\ T \ {Taken(T)} \in SUBSET S
         /\ Cardinality(T) \in Nat
         /\ Cardinality(T \ {Taken(T)}) = Cardinality(T) - 1
         /\ IsFiniteSet(T \ {Taken(T)})
<1>1. Taken(T) \in T
  BY DEF Taken
<1>2. IsFiniteSet(T) /\ Cardinality(T) \in Nat
  BY FS_Subset, FS_CardinalityType
<1> QED BY <1>1, <1>2, FS_RemoveElement

(* The sums over the subsets of at most n elements.                        *)
SubsetsUpTo(S, n) == {T \in SUBSET S : Cardinality(T) <= n}

SumsUpTo(g, f, S, n) ==
  /\ g \in [SubsetsUpTo(S, n) -> Int]
  /\ \A T \in SubsetsUpTo(S, n) : g[T] = SumStep(f, g, T)

(* From the sums of sets of n elements to those of one more.               *)
LEMMA NextLevel ==
  ASSUME NEW S, IsFiniteSet(S), NEW f \in [S -> Int], NEW n \in Nat, NEW g,
         SumsUpTo(g, f, S, n)
  PROVE  \E h : SumsUpTo(h, f, S, n + 1)
<1> DEFINE h == [T \in SubsetsUpTo(S, n + 1) |-> SumStep(f, g, T)]
<1>1. ASSUME NEW T \in SubsetsUpTo(S, n + 1), T # {}
      PROVE  /\ T \ {Taken(T)} \in SubsetsUpTo(S, n)
             /\ f[Taken(T)] \in Int
  <2>1. T \in SUBSET S /\ Cardinality(T) <= n + 1
    BY DEF SubsetsUpTo
  <2>2. /\ Taken(T) \in T /\ T \ {Taken(T)} \in SUBSET S
        /\ Cardinality(T) \in Nat
        /\ Cardinality(T \ {Taken(T)}) = Cardinality(T) - 1
    BY <1>1, <2>1, TakenOut
  <2>3. Cardinality(T \ {Taken(T)}) <= n
    BY <2>1, <2>2
  <2> QED BY <2>1, <2>2, <2>3 DEF SubsetsUpTo
<1>2. ASSUME NEW T \in SubsetsUpTo(S, n + 1)  PROVE SumStep(f, g, T) \in Int
  <2>1. CASE T = {}
    BY <2>1 DEF SumStep
  <2>2. CASE T # {}
    <3>1. g[T \ {Taken(T)}] \in Int
      BY <1>1, <2>2 DEF SumsUpTo
    <3>2. f[Taken(T)] \in Int
      BY <1>1, <2>2
    <3>3. f[Taken(T)] + g[T \ {Taken(T)}] \in Int
      BY <3>1, <3>2
    <3> QED BY <2>2, <3>3 DEF SumStep
  <2> QED BY <2>1, <2>2
<1>3. h \in [SubsetsUpTo(S, n + 1) -> Int]
  BY <1>2
<1>4. ASSUME NEW T \in SubsetsUpTo(S, n)  PROVE T \in SubsetsUpTo(S, n + 1) /\ h[T] = g[T]
  <2>1. T \in SubsetsUpTo(S, n + 1)
    <3>1. Cardinality(T) \in Nat
      BY FS_Subset, FS_CardinalityType DEF SubsetsUpTo
    <3> QED BY <3>1 DEF SubsetsUpTo
  <2>2. h[T] = SumStep(f, g, T)
    BY <2>1
  <2>3. g[T] = SumStep(f, g, T)
    BY DEF SumsUpTo
  <2> QED BY <2>1, <2>2, <2>3
<1>5. ASSUME NEW T \in SubsetsUpTo(S, n + 1)  PROVE h[T] = SumStep(f, h, T)
  <2>1. h[T] = SumStep(f, g, T)
    OBVIOUS
  <2> HIDE DEF h
  <2>2. CASE T = {}
    BY <2>1, <2>2 DEF SumStep
  <2>3. CASE T # {}
    BY <1>1, <1>4, <2>1, <2>3 DEF SumStep
  <2> QED BY <2>2, <2>3
<1> QED BY <1>3, <1>5 DEF SumsUpTo

(* There are sums of sets of any number of elements.                       *)
LEMMA EveryLevel ==
  ASSUME NEW S, IsFiniteSet(S), NEW f \in [S -> Int]
  PROVE  \A n \in Nat : \E g : SumsUpTo(g, f, S, n)
<1> DEFINE Bad == {n \in Nat : ~ \E g : SumsUpTo(g, f, S, n)}
<1>1. 0 \notin Bad
  <2> DEFINE g == [T \in SubsetsUpTo(S, 0) |-> 0]
  <2>1. ASSUME NEW T \in SubsetsUpTo(S, 0)  PROVE T = {}
    <3>1. IsFiniteSet(T) /\ Cardinality(T) \in Nat /\ Cardinality(T) <= 0
      BY FS_Subset, FS_CardinalityType DEF SubsetsUpTo
    <3>2. Cardinality(T) = 0
      BY <3>1
    <3> QED BY <3>1, <3>2, FS_EmptySet
  <2>2. SumsUpTo(g, f, S, 0)
    BY <2>1 DEF SumsUpTo, SumStep
  <2> QED BY <2>2
<1>2. ASSUME Bad # {}  PROVE FALSE
  <2>1. PICK n \in Bad : \A m \in Bad : n <= m
    BY <1>2, LeastNatural
  <2>2. n # 0 /\ n \in Nat
    BY <1>1, <2>1
  <2>3. n - 1 \in Nat /\ (n - 1) + 1 = n /\ ~ (n <= n - 1)
    BY <2>2
  <2>4. n - 1 \notin Bad
    BY <2>1, <2>3
  <2>5. PICK g : SumsUpTo(g, f, S, n - 1)
    BY <2>3, <2>4
  <2>6. \E h : SumsUpTo(h, f, S, (n - 1) + 1)
    BY <2>3, <2>5, NextLevel
  <2> QED BY <2>1, <2>3, <2>6
<1> QED BY <1>2

(* The recursion of the sum has a solution.                                *)
LEMMA SumExists ==
  ASSUME NEW S, IsFiniteSet(S), NEW f \in [S -> Int]
  PROVE  \E g : IsSum(g, f, S)
<1>1. Cardinality(S) \in Nat
  BY FS_CardinalityType
<1>2. PICK g : SumsUpTo(g, f, S, Cardinality(S))
  BY <1>1, EveryLevel
<1>3. SubsetsUpTo(S, Cardinality(S)) = SUBSET S
  BY FS_Subset DEF SubsetsUpTo
<1>4. g \in [SUBSET S -> Int] /\ \A T \in SUBSET S : g[T] = SumStep(f, g, T)
  BY <1>2, <1>3 DEF SumsUpTo
<1>5. g = [T \in SUBSET S |-> SumStep(f, g, T)]
  BY <1>4
<1> QED BY <1>5 DEF IsSum

(* Its values are integers.                                                *)
LEMMA SumsAreIntegers ==
  ASSUME NEW S, IsFiniteSet(S), NEW f \in [S -> Int], NEW g, IsSum(g, f, S)
  PROVE  \A T \in SUBSET S : g[T] \in Int
<1> DEFINE Bad == {T \in SUBSET S : g[T] \notin Int}
<1>0. \A T \in SUBSET S : g[T] = SumStep(f, g, T)
  BY DEF IsSum
<1>1. ASSUME Bad # {}  PROVE FALSE
  <2>1. PICK T \in Bad : \A U \in Bad : Cardinality(T) <= Cardinality(U)
    BY <1>1, SmallestSet
  <2>2. T # {}
    BY <1>0, <2>1 DEF SumStep
  <2>3. /\ Taken(T) \in T /\ T \ {Taken(T)} \in SUBSET S
        /\ Cardinality(T) \in Nat
        /\ Cardinality(T \ {Taken(T)}) = Cardinality(T) - 1
    BY <2>1, <2>2, TakenOut
  <2>4. ~ (Cardinality(T) <= Cardinality(T \ {Taken(T)}))
    BY <2>3
  <2>5. g[T \ {Taken(T)}] \in Int
    BY <2>1, <2>3, <2>4
  <2>6. g[T] = f[Taken(T)] + g[T \ {Taken(T)}]
    BY <1>0, <2>1, <2>2 DEF SumStep
  <2>7. f[Taken(T)] \in Int
    BY <2>1, <2>3
  <2>8. g[T] \in Int
    BY <2>5, <2>6, <2>7
  <2> QED BY <2>1, <2>8
<1> QED BY <1>1

(* The sum of integers is an integer.                                      *)
LEMMA SumIsInteger ==
  ASSUME NEW S, IsFiniteSet(S), NEW f \in [S -> Int]
  PROVE  Checks!SumFunction(f) \in Int
<1> DEFINE g == CHOOSE g : IsSum(g, f, S)
<1>1. IsSum(g, f, S)
  BY SumExists
<1>2. Checks!SumFunction(f) = g[S]
  <2>1. DOMAIN f = S
    OBVIOUS
  <2> QED BY <2>1, SumIsFold
<1> HIDE DEF g
<1> QED BY <1>1, <1>2, SumsAreIntegers

(* A finite nonempty set of integers has a largest element.                *)
LEMMA LargestExists ==
  ASSUME NEW S, IsFiniteSet(S), S \subseteq Int, S # {}
  PROVE  Checks!Max(S) \in S /\ \A x \in S : x <= Checks!Max(S)
<1> DEFINE HasMax(T) == \E m \in T : \A x \in T : m >= x
           Bad == {T \in SUBSET S : T # {} /\ ~ HasMax(T)}
<1>1. ASSUME Bad # {}  PROVE FALSE
  <2>1. PICK T \in Bad : \A U \in Bad : Cardinality(T) <= Cardinality(U)
    BY <1>1, SmallestSet
  <2>2. T \in SUBSET S /\ T # {} /\ ~ HasMax(T)
    BY <2>1
  <2> HIDE DEF Bad
  <2> DEFINE rest == T \ {Taken(T)}
  <2>3. /\ Taken(T) \in T /\ rest \in SUBSET S /\ Cardinality(T) \in Nat
        /\ Cardinality(rest) = Cardinality(T) - 1
    BY <2>2, TakenOut
  <2>4. CASE rest = {}
    <3>1. T = {Taken(T)} /\ Taken(T) \in Int
      BY <2>2, <2>3, <2>4
    <3>2. HasMax(T)
      <4>1. Taken(T) >= Taken(T)
        BY <3>1
      <4>2. \A x \in T : Taken(T) >= x
        BY <3>1, <4>1
      <4> QED BY <2>3, <4>2
    <3> QED BY <2>2, <3>2
  <2>5. CASE rest # {}
    <3>1. rest \notin Bad
      <4>1. ~ (Cardinality(T) <= Cardinality(rest))
        BY <2>3
      <4> QED BY <2>1, <4>1
    <3>2. HasMax(rest)
      BY <2>3, <2>5, <3>1 DEF Bad
    <3>3. PICK m \in rest : \A x \in rest : m >= x
      BY <3>2
    <3>4. m \in T /\ m \in Int /\ Taken(T) \in Int /\ T \subseteq Int
      BY <2>2, <2>3
    <3>5. \A x \in T : x \in rest \/ x = Taken(T)
      OBVIOUS
    <3> HIDE DEF rest
    <3>6. CASE m >= Taken(T)
      <4>1. \A x \in T : m >= x
        BY <3>3, <3>5, <3>6
      <4> QED BY <2>2, <3>4, <4>1
    <3>7. CASE ~ (m >= Taken(T))
      <4>1. \A x \in T : Taken(T) >= x
        BY <3>3, <3>4, <3>5, <3>7
      <4> QED BY <2>2, <2>3, <4>1
    <3> QED BY <3>6, <3>7
  <2> QED BY <2>4, <2>5
<1>2. HasMax(S)
  BY <1>1
<1>3. Checks!Max(S) \in S /\ \A x \in S : Checks!Max(S) >= x
  BY <1>2 DEF Checks!Max
<1> QED BY <1>3

(* Both definitions of finite sets are the same.                           *)
LEMMA SameFinite ==
  ASSUME NEW S
  PROVE  Checks!IsFiniteSet(S) <=> IsFiniteSet(S)
BY DEF Checks!IsFiniteSet, IsFiniteSet

-------------------------------------------------------------------------------
(* The inductive invariant of ScipSolve.                                   *)
LEMMA ChecksInit ==
  Checks!Init => Checks!IInv
BY DEF Checks!Init, Checks!IInv, Checks!InputInv, Checks!AnswerInv, Checks!SolutionInv,
   Checks!CodeInv

(* What the checks made of an answer stays as long as it and the inputs do. *)
LEMMA VerdictsRest ==
  ASSUME UNCHANGED <<Checks!inputs, value, answer>>
  PROVE  /\ Checks!AfterDual' = Checks!AfterDual
         /\ UNCHANGED solution =>
              /\ Checks!AfterPrimal' = Checks!AfterPrimal
              /\ Checks!AfterObjective' = Checks!AfterObjective
              /\ Checks!AfterCertificate' = Checks!AfterCertificate
              /\ Checks!Verdict' = Checks!Verdict
<1>1. UNCHANGED <<problem, reference, solvemode, certificate, cutoff, passcodes, value, answer>>
  BY DEF Checks!inputs, Checks!options
<1>2. Checks!AfterDual' = Checks!AfterDual
  BY <1>1 DEF Checks!AfterDual
<1>3. ASSUME UNCHANGED solution
      PROVE  Checks!AfterPrimal' = Checks!AfterPrimal
  BY <1>1, <1>2, <1>3 DEF Checks!AfterPrimal
<1>4. ASSUME UNCHANGED solution
      PROVE  Checks!AfterObjective' = Checks!AfterObjective
  <2>1. Checks!PrimalBound' = Checks!PrimalBound /\ Checks!Best' = Checks!Best
    BY <1>1, <1>4 DEF Checks!PrimalBound, Checks!Best, Checks!AtObjLimit, Checks!Limiting
  <2> QED BY <1>1, <1>3, <1>4, <2>1 DEF Checks!AfterObjective
<1>5. ASSUME UNCHANGED solution
      PROVE  Checks!AfterCertificate' = Checks!AfterCertificate
  BY <1>1, <1>4, <1>5 DEF Checks!AfterCertificate
<1>6. ASSUME UNCHANGED solution
      PROVE  Checks!Verdict' = Checks!Verdict
  BY <1>1, <1>5, <1>6 DEF Checks!Verdict
<1> QED BY <1>2, <1>3, <1>4, <1>5, <1>6

(* What was given to the solver stays as it is.                            *)
LEMMA InputsRest ==
  ASSUME Checks!InputInv, step # "setup",
         UNCHANGED <<Checks!inputs, value>>
  PROVE  Checks!InputInv'
<1>1. UNCHANGED <<problem, reference, solvemode, certificate, cutoff, passcodes, value>>
  BY DEF Checks!inputs, Checks!options
<1> QED BY <1>1 DEF Checks!InputInv

(* The answers of a run of SCIP that succeeded, by its return code.        *)
LEMMA AnswerCodes ==
  /\ \A a \in Checks!Failures : a.code \in ScipErrors /\ a.code # Checks!SCIP_OKAY
  /\ \A a \in Checks!Countings : a.code = Checks!SCIP_OKAY
  /\ \A a \in Checks!Certified : a.code = Checks!SCIP_OKAY
  /\ \A a \in Checks!Optimizations : a.code = Checks!SCIP_OKAY
<1>1. \A a \in Checks!Failures : a.code \in ScipErrors /\ a.code # Checks!SCIP_OKAY
  BY SolverAssumption DEF Checks!Failures, Checks!SCIP_OKAY, Checks!ScipAssumption
<1>2. \A a \in Checks!Countings : a.code = Checks!SCIP_OKAY
  BY DEF Checks!Countings
<1>3. \A a \in Checks!Certified : a.code = Checks!SCIP_OKAY
  BY DEF Checks!Certified
<1>4. \A a \in Checks!Optimizations : a.code = Checks!SCIP_OKAY
  BY DEF Checks!Optimizations
<1> QED BY <1>1, <1>2, <1>3, <1>4

(* The solver answers.                                                     *)
LEMMA ChecksSolve ==
  Checks!IInv /\ Checks!Solve => Checks!IInv'
<1> SUFFICES ASSUME Checks!IInv, Checks!Solve  PROVE Checks!IInv'
  OBVIOUS
<1>1. /\ step = "solve" /\ retcode' = Checks!CodeOf(answer'.code)
      /\ UNCHANGED <<Checks!inputs, value, solution>>
      /\ UNCHANGED solvemode
  BY DEF Checks!Solve, Checks!inputs, Checks!options
<1>2. Checks!InputInv'
  BY <1>1, InputsRest DEF Checks!IInv
<1>3. solvemode \in {-1, 0}
  BY DEF Checks!IInv, Checks!InputInv
<1>4. CASE answer'.code # Checks!SCIP_OKAY
  <2>1. answer' \in Checks!Failures
    BY <1>4, AnswerCodes DEF Checks!Solve
  <2>2. step' = "passcodes"
    BY <1>4 DEF Checks!Solve
  <2>3. retcode' = Checks!Verdict'
    BY <1>1, <1>4 DEF Checks!CodeOf, Checks!Verdict
  <2> QED BY <1>2, <1>4, <2>1, <2>2, <2>3
          DEF Checks!IInv, Checks!AnswerInv, Checks!SolutionInv, Checks!CodeInv
<1>5. CASE answer'.code = Checks!SCIP_OKAY
  <2>1. answer' \notin Checks!Failures
    BY <1>5, AnswerCodes
  <2>2. CASE solvemode = -1
    <3>1. step' = "dual" /\ answer' \in Checks!Certified \cup Checks!Optimizations
      BY <1>5, <2>1, <2>2 DEF Checks!Solve
    <3>2. retcode' = Checks!OKAY
      BY <1>1, <1>5 DEF Checks!CodeOf
    <3> QED BY <1>1, <1>2, <2>2, <3>1, <3>2
            DEF Checks!IInv, Checks!AnswerInv, Checks!SolutionInv, Checks!CodeInv
  <2>3. CASE solvemode = 0
    <3>1. step' = "count" /\ answer' \in Checks!Countings
      BY <1>5, <2>1, <2>3 DEF Checks!Solve
    <3>2. retcode' = Checks!OKAY
      BY <1>1, <1>5 DEF Checks!CodeOf
    <3> QED BY <1>1, <1>2, <2>3, <3>1, <3>2
            DEF Checks!IInv, Checks!AnswerInv, Checks!SolutionInv, Checks!CodeInv
  <2> QED BY <1>3, <2>2, <2>3
<1> QED BY <1>4, <1>5

(* A check of an optimization that succeeded.                              *)
LEMMA Optimizing ==
  ASSUME Checks!IInv, step \in {"dual", "primal", "objective", "certificate"}
  PROVE  /\ solvemode = -1 /\ answer \in Checks!Certified \cup Checks!Optimizations
         /\ answer.code = Checks!SCIP_OKAY
BY AnswerCodes DEF Checks!IInv, Checks!AnswerInv

(* The dual bound is checked.                                              *)
LEMMA ChecksCheckDual ==
  Checks!IInv /\ Checks!CheckDual => Checks!IInv'
<1> SUFFICES ASSUME Checks!IInv, Checks!CheckDual  PROVE Checks!IInv'
  OBVIOUS
<1>1. /\ step = "dual" /\ step' = "primal"
      /\ UNCHANGED <<Checks!inputs, value, answer, solution>>
      /\ UNCHANGED solvemode
  BY DEF Checks!CheckDual, Checks!inputs, Checks!options
<1>2. Checks!InputInv'
  BY <1>1, InputsRest DEF Checks!IInv
<1>3. retcode' = Checks!AfterDual
  BY <1>1 DEF Checks!CheckDual, Checks!AfterDual, Checks!IInv, Checks!CodeInv
<1>4. retcode' = Checks!AfterDual'
  BY <1>1, <1>3, VerdictsRest
<1> QED BY <1>1, <1>2, <1>4, Optimizing
        DEF Checks!IInv, Checks!AnswerInv, Checks!SolutionInv, Checks!CodeInv

(* The solutions are checked.                                              *)
LEMMA ChecksCheckPrimal ==
  Checks!IInv /\ Checks!CheckPrimal => Checks!IInv'
<1> SUFFICES ASSUME Checks!IInv, Checks!CheckPrimal  PROVE Checks!IInv'
  OBVIOUS
<1>1. /\ step = "primal" /\ step' = "objective"
      /\ UNCHANGED <<Checks!inputs, value, answer>>
      /\ UNCHANGED <<solvemode, passcodes, problem>>
  BY DEF Checks!CheckPrimal, Checks!inputs, Checks!options
<1>2. Checks!InputInv'
  BY <1>1, InputsRest DEF Checks!IInv
<1>3. retcode = Checks!AfterDual /\ Checks!AfterDual' = Checks!AfterDual
  BY <1>1, VerdictsRest DEF Checks!IInv, Checks!CodeInv
<1>4. retcode' = Checks!AfterPrimal'
  BY <1>1, <1>3 DEF Checks!CheckPrimal, Checks!AfterPrimal, Checks!Undecided
<1>5. Checks!AfterDual' = Checks!OKAY =>
        solution' = [i \in 1..Checks!TranslatedNumber |-> Checks!Translate(i)]
  BY <1>3 DEF Checks!CheckPrimal, Checks!Undecided
<1>6. [i \in 1..Checks!TranslatedNumber |-> Checks!Translate(i)]
        = [i \in 1..Checks!TranslatedNumber |-> Checks!Translate(i)]'
  BY <1>1 DEF Checks!TranslatedNumber, Checks!Translate
<1>7. Checks!SolutionInv'
  BY <1>5, <1>6 DEF Checks!SolutionInv
<1> QED BY <1>1, <1>2, <1>4, <1>7, Optimizing
        DEF Checks!IInv, Checks!AnswerInv, Checks!CodeInv

(* The solutions that were translated stay.                                *)
LEMMA SolutionRests ==
  ASSUME Checks!SolutionInv, UNCHANGED <<Checks!inputs, value, answer, solution>>,
         step \in {"objective", "certificate", "passcodes", "done"}
  PROVE  Checks!SolutionInv'
<1>1. UNCHANGED <<solvemode, passcodes, answer, solution>>
  BY DEF Checks!inputs, Checks!options
<1>2. Checks!AfterDual' = Checks!AfterDual
  BY VerdictsRest
<1>3. [i \in 1..Checks!TranslatedNumber |-> Checks!Translate(i)]
        = [i \in 1..Checks!TranslatedNumber |-> Checks!Translate(i)]'
  BY <1>1 DEF Checks!TranslatedNumber, Checks!Translate
<1> QED BY <1>1, <1>2, <1>3 DEF Checks!SolutionInv

(* The objective, or the certificate, is checked.                          *)
LEMMA ChecksLater ==
  ASSUME Checks!IInv,
         Checks!CheckObjective \/ Checks!CheckCertificate
  PROVE  Checks!IInv'
<1>1. /\ step \in {"objective", "certificate"}
      /\ UNCHANGED <<Checks!inputs, value, answer, solution>>
      /\ UNCHANGED <<solvemode, certificate, passcodes>>
  BY DEF Checks!CheckObjective, Checks!CheckCertificate, Checks!inputs, Checks!options
<1>2. Checks!InputInv'
  BY <1>1, InputsRest DEF Checks!IInv
<1>3. Checks!SolutionInv'
  BY <1>1, SolutionRests DEF Checks!IInv
<1>4. CASE Checks!CheckObjective
  <2>1. step = "objective" /\ step' = "certificate" /\ retcode = Checks!AfterPrimal
    BY <1>4 DEF Checks!CheckObjective, Checks!IInv, Checks!CodeInv
  <2>2. retcode' = Checks!AfterObjective
    BY <1>4, <2>1 DEF Checks!CheckObjective, Checks!AfterObjective, Checks!Undecided
  <2>3. retcode' = Checks!AfterObjective'
    BY <1>1, <2>2, VerdictsRest
  <2> QED BY <1>1, <1>2, <1>3, <2>1, <2>3, Optimizing
          DEF Checks!IInv, Checks!AnswerInv, Checks!CodeInv
<1>5. CASE Checks!CheckCertificate
  <2>1. step = "certificate" /\ step' = "passcodes" /\ retcode = Checks!AfterObjective
    BY <1>5 DEF Checks!CheckCertificate, Checks!IInv, Checks!CodeInv
  <2>2. retcode' = Checks!AfterCertificate
    BY <1>5, <2>1 DEF Checks!CheckCertificate, Checks!AfterCertificate
  <2>3. Checks!AfterCertificate = Checks!Verdict
    BY <2>1, Optimizing DEF Checks!Verdict
  <2>4. retcode' = Checks!Verdict'
    BY <1>1, <2>2, <2>3, VerdictsRest
  <2> QED BY <1>1, <1>2, <1>3, <2>1, <2>4, Optimizing
          DEF Checks!IInv, Checks!AnswerInv, Checks!CodeInv
<1> QED BY <1>4, <1>5

(* The number of solutions is checked.                                     *)
LEMMA ChecksCheckCount ==
  Checks!IInv /\ Checks!CheckCount => Checks!IInv'
<1> SUFFICES ASSUME Checks!IInv, Checks!CheckCount  PROVE Checks!IInv'
  OBVIOUS
<1>1. /\ step = "count" /\ step' = "passcodes"
      /\ UNCHANGED <<Checks!inputs, value, answer, solution>>
      /\ UNCHANGED solvemode
  BY DEF Checks!CheckCount, Checks!inputs, Checks!options
<1>2. Checks!InputInv'
  BY <1>1, InputsRest DEF Checks!IInv
<1>3. solvemode = 0 /\ answer \in Checks!Countings /\ answer.code = Checks!SCIP_OKAY
  BY <1>1, AnswerCodes DEF Checks!IInv, Checks!AnswerInv
<1>4. retcode' = Checks!Verdict
  BY <1>3 DEF Checks!CheckCount, Checks!Verdict
<1>5. retcode' = Checks!Verdict'
  BY <1>1, <1>4, VerdictsRest
<1> QED BY <1>1, <1>2, <1>3, <1>5
        DEF Checks!IInv, Checks!AnswerInv, Checks!SolutionInv, Checks!CodeInv

(* The passcodes are applied.                                              *)
LEMMA ChecksApplyPasscodes ==
  Checks!IInv /\ Checks!ApplyPasscodes => Checks!IInv'
<1> SUFFICES ASSUME Checks!IInv, Checks!ApplyPasscodes  PROVE Checks!IInv'
  OBVIOUS
<1>1. /\ step = "passcodes" /\ step' = "done"
      /\ UNCHANGED <<Checks!inputs, value, answer, solution>>
      /\ UNCHANGED <<solvemode, passcodes>>
  BY DEF Checks!ApplyPasscodes, Checks!inputs, Checks!options
<1>2. Checks!InputInv' /\ Checks!SolutionInv'
  BY <1>1, InputsRest, SolutionRests DEF Checks!IInv
<1>3. retcode = Checks!Verdict /\ Checks!Verdict' = Checks!Verdict
  BY <1>1, VerdictsRest DEF Checks!IInv, Checks!CodeInv
<1>4. retcode' = IF Checks!Verdict' \in passcodes' THEN Checks!OKAY ELSE Checks!Verdict'
  BY <1>1, <1>3 DEF Checks!ApplyPasscodes
<1> QED BY <1>1, <1>2, <1>4 DEF Checks!IInv, Checks!AnswerInv, Checks!CodeInv

(* Nothing happens to the solve.                                           *)
LEMMA ChecksUnchanged ==
  Checks!IInv /\ UNCHANGED Checks!vars => Checks!IInv'
<1> SUFFICES ASSUME Checks!IInv, UNCHANGED Checks!vars  PROVE Checks!IInv'
  OBVIOUS
<1>1. /\ UNCHANGED <<Checks!inputs, value, answer, solution>>
      /\ UNCHANGED <<step, retcode>>
      /\ UNCHANGED <<problem, reference, solvemode, certificate, cutoff, passcodes>>
  BY DEF Checks!vars, Checks!inputs, Checks!options
<1>2. Checks!InputInv'
  BY <1>1 DEF Checks!IInv, Checks!InputInv
<1>3. Checks!SolutionInv'
  <2>1. CASE step \in {"objective", "certificate", "passcodes", "done"}
    BY <1>1, <2>1, SolutionRests DEF Checks!IInv
  <2>2. CASE step \notin {"objective", "certificate", "passcodes", "done"}
    BY <1>1, <2>2 DEF Checks!SolutionInv
  <2> QED BY <2>1, <2>2
<1>4. Checks!CodeInv'
  BY <1>1, VerdictsRest DEF Checks!IInv, Checks!CodeInv
<1> QED BY <1>1, <1>2, <1>3, <1>4 DEF Checks!IInv, Checks!AnswerInv

(* Every step of the solve keeps the invariant.                            *)
LEMMA ChecksStepInv ==
  Checks!IInv /\ [Checks!Next]_(Checks!vars) => Checks!IInv'
<1> SUFFICES ASSUME Checks!IInv, [Checks!Next]_(Checks!vars)  PROVE Checks!IInv'
  OBVIOUS
<1>1. CASE Checks!DoSetUp
  <2>1. /\ step = "setup" /\ step' = "solve"
        /\ value' = Checks!ReferenceValue(problem, reference)
        /\ UNCHANGED <<problem, reference, solvemode, certificate, cutoff, passcodes, retcode>>
    BY <1>1 DEF Checks!DoSetUp, Checks!inputs, Checks!options
  <2>2. Checks!InputInv'
    BY <2>1 DEF Checks!IInv, Checks!InputInv
  <2> QED BY <2>1, <2>2
          DEF Checks!IInv, Checks!AnswerInv, Checks!SolutionInv, Checks!CodeInv
<1>2. CASE Checks!Done \/ UNCHANGED Checks!vars
  BY <1>2, ChecksUnchanged DEF Checks!Done
<1> QED BY <1>1, <1>2, ChecksSolve, ChecksCheckDual, ChecksCheckPrimal, ChecksLater,
           ChecksCheckCount, ChecksApplyPasscodes DEF Checks!Next

-------------------------------------------------------------------------------
(* Tolerances.  A bound moves by more than nothing and less than 1.        *)
LEMMA Numbers ==
  /\ Unit \in Nat /\ Unit > 0 /\ Fine \in Nat /\ Infinity \in Int /\ Infinity > Unit
  /\ SumEpsilon \in Nat /\ 0 < SumEpsilon /\ SumEpsilon < Fine
  /\ Epsilon \in Nat /\ 0 < Epsilon /\ Epsilon < Fine
  /\ 2 * SumEpsilon \in Nat /\ 0 < 2 * SumEpsilon /\ 2 * SumEpsilon < Fine
  /\ NaN \notin Int
BY SolverAssumption DEF Checks!NumbersAssumption, Checks!ScipAssumption

(* A tolerance moves a bound by more than 0 and less than 1.               *)
LEMMA SlackRange ==
  ASSUME NEW b \in Int, NEW t \in Nat, 0 < t, t < Fine
  PROVE  /\ Checks!Slack(b, t) \in Int
         /\ 0 < Checks!Slack(b, t) /\ Checks!Slack(b, t) < Unit * Fine
<1> DEFINE a == Checks!Abs(b)
<1>1. a \in Int /\ a >= 0
  BY DEF Checks!Abs
<1> HIDE DEF a
<1>2. Unit \in Int /\ Unit > 0 /\ Fine \in Int
  BY Numbers
<1>3. Unit * t \in Int /\ 0 < Unit * t /\ Unit * t < Unit * Fine
  BY <1>2
<1>4. CASE a < Unit
  BY <1>3, <1>4 DEF Checks!Slack, a
<1>5. CASE ~ (a < Unit) /\ (a + Unit) * t > Unit * Fine
  <2>1. Unit * (Fine - t) = Unit * Fine - Unit * t
    BY <1>2
  <2>2. 0 < Unit * (Fine - t) /\ Unit * (Fine - t) < Unit * Fine
    BY <1>2, <1>3, <2>1
  <2>3. Unit * (Fine - t) \in Int
    BY <1>2
  <2> QED BY <1>5, <2>2, <2>3 DEF Checks!Slack, a
<1>6. CASE ~ (a < Unit) /\ ~ ((a + Unit) * t > Unit * Fine)
  <2>1. (a + Unit) * t = a * t + Unit * t
    BY <1>1, <1>2
  <2>2. a * t \in Int /\ 0 < a * t
    BY <1>1, <1>2, <1>6
  <2>3. Unit * Fine \in Int
    BY <1>2
  <2>4. a * t < Unit * Fine
    BY <1>3, <1>6, <2>1, <2>2, <2>3
  <2> QED BY <1>6, <2>2, <2>4 DEF Checks!Slack, a
<1> QED BY <1>4, <1>5, <1>6

(* The order of numbers is the one of their scaled values.                 *)
LEMMA ScaledOrder ==
  ASSUME NEW a \in Int, NEW b \in Int
  PROVE  /\ Checks!Scaled(a) \in Int
         /\ a <= b => Checks!Scaled(a) <= Checks!Scaled(b)
         /\ a < b => Checks!Scaled(a) < Checks!Scaled(b)
         /\ a + Unit <= b => Checks!Scaled(a) + Unit * Fine <= Checks!Scaled(b)
<1>1. Fine \in Int /\ Fine > 0 /\ Unit \in Int
  BY Numbers
<1>2. a <= b => a * Fine <= b * Fine
  BY <1>1
<1>3. a < b => a * Fine < b * Fine
  BY <1>1
<1>4. a + Unit <= b => a * Fine + Unit * Fine <= b * Fine
  <2> SUFFICES ASSUME a + Unit <= b  PROVE a * Fine + Unit * Fine <= b * Fine
    OBVIOUS
  <2>1. (a + Unit) * Fine <= b * Fine
    BY <1>1
  <2>2. (a + Unit) * Fine = a * Fine + Unit * Fine
    BY <1>1
  <2> QED BY <2>1, <2>2
<1>5. a * Fine \in Int
  BY <1>1
<1> QED BY <1>2, <1>3, <1>4, <1>5 DEF Checks!Scaled

(* A number on the right side of a bound is accepted.                      *)
LEMMA RightSide ==
  ASSUME NEW a \in Int, NEW b \in Int, NEW t \in Nat, 0 < t, t < Fine
  PROVE  /\ a >= b /\ a >= -Infinity => ~ Checks!Below(a, b, t)
         /\ a <= b /\ a <= Infinity => ~ Checks!Above(a, b, t)
<1>1. Infinity \in Int /\ -Infinity \in Int
  BY Numbers
<1>2. /\ Checks!Slack(b, t) \in Int /\ 0 < Checks!Slack(b, t)
  BY SlackRange
<1>3. /\ Checks!Scaled(a) \in Int /\ Checks!Scaled(b) \in Int
      /\ Checks!Scaled(Infinity) \in Int /\ Checks!Scaled(-Infinity) \in Int
  BY <1>1, ScaledOrder
<1>4. ASSUME a >= b, a >= -Infinity  PROVE ~ Checks!Below(a, b, t)
  <2>1. Checks!Scaled(b) <= Checks!Scaled(a) /\ Checks!Scaled(-Infinity) <= Checks!Scaled(a)
    BY <1>1, <1>4, ScaledOrder
  <2>2. b >= Infinity => Checks!Scaled(Infinity) <= Checks!Scaled(a)
    BY <1>1, <1>4, ScaledOrder
  <2> QED BY <1>1, <1>2, <1>3, <2>1, <2>2 DEF Checks!Below, Checks!Relax
<1>5. ASSUME a <= b, a <= Infinity  PROVE ~ Checks!Above(a, b, t)
  <2>1. Checks!Scaled(a) <= Checks!Scaled(b) /\ Checks!Scaled(a) <= Checks!Scaled(Infinity)
    BY <1>1, <1>5, ScaledOrder
  <2>2. b <= -Infinity => Checks!Scaled(a) <= Checks!Scaled(-Infinity)
    BY <1>1, <1>5, ScaledOrder
  <2> QED BY <1>1, <1>2, <1>3, <2>1, <2>2 DEF Checks!Above, Checks!Relax
<1> QED BY <1>4, <1>5

(* A number that is off by 1 is not, unless both are infinite.             *)
LEMMA WrongSide ==
  ASSUME NEW a \in Int, NEW b \in Int, NEW t \in Nat, 0 < t, t < Fine
  PROVE  /\ a + Unit <= b /\ (a < Infinity \/ b <= Infinity) => Checks!Below(a, b, t)
         /\ b + Unit <= a /\ (-Infinity < a \/ -Infinity <= b) => Checks!Above(a, b, t)
<1>1. Infinity \in Int /\ -Infinity \in Int /\ Unit \in Int /\ Unit > 0 /\ Infinity > Unit
  BY Numbers
<1>2. /\ Checks!Slack(b, t) \in Int /\ Checks!Slack(b, t) < Unit * Fine
  BY SlackRange
<1>3. /\ Checks!Scaled(a) \in Int /\ Checks!Scaled(b) \in Int
      /\ Checks!Scaled(Infinity) \in Int /\ Checks!Scaled(-Infinity) \in Int
  BY <1>1, ScaledOrder
<1>4. Unit * Fine \in Int
  BY Numbers
<1>5. ASSUME a + Unit <= b, a < Infinity \/ b <= Infinity  PROVE Checks!Below(a, b, t)
  <2>1. Checks!Scaled(a) + Unit * Fine <= Checks!Scaled(b)
    BY <1>5, ScaledOrder
  <2>2. a < Infinity
    BY <1>1, <1>5
  <2>3. Checks!Scaled(a) < Checks!Scaled(Infinity)
    BY <1>1, <2>2, ScaledOrder
  <2>4. b <= -Infinity => Checks!Scaled(a) < Checks!Scaled(-Infinity)
    BY <1>1, <1>5, ScaledOrder
  <2> QED BY <1>2, <1>3, <1>4, <2>1, <2>3, <2>4 DEF Checks!Below, Checks!Relax
<1>6. ASSUME b + Unit <= a, -Infinity < a \/ -Infinity <= b  PROVE Checks!Above(a, b, t)
  <2>1. Checks!Scaled(b) + Unit * Fine <= Checks!Scaled(a)
    BY <1>6, ScaledOrder
  <2>2. -Infinity < a
    BY <1>1, <1>6
  <2>3. Checks!Scaled(-Infinity) < Checks!Scaled(a)
    BY <1>1, <2>2, ScaledOrder
  <2>4. b >= Infinity => Checks!Scaled(Infinity) < Checks!Scaled(a)
    BY <1>1, <1>6, ScaledOrder
  <2> QED BY <1>1, <1>2, <1>3, <1>4, <2>1, <2>3, <2>4 DEF Checks!Above, Checks!Relax
<1> QED BY <1>5, <1>6

-------------------------------------------------------------------------------
(* Sums over a problem are numbers.                                        *)
LEMMA ProblemSums ==
  ASSUME NEW p, Checks!IsProblem(p), NEW x, \A c \in DOMAIN p.cols : x[c] \in Int
  PROVE  /\ Checks!PrimalObjective(p, x) \in Int /\ Checks!RayObjective(p, x) \in Int
         /\ \A r \in DOMAIN p.rows :
              /\ Checks!PrimalActivity(p.rows[r], x) \in Int
              /\ Checks!RayActivity(p.rows[r], x) \in Int
<1>1. /\ IsFiniteSet(DOMAIN p.cols) /\ p.offset \in Int
      /\ \A c \in DOMAIN p.cols : p.cols[c].obj \in Int
  BY SameFinite DEF Checks!IsProblem
<1>2. Checks!Unfixed(p) \subseteq DOMAIN p.cols /\ IsFiniteSet(Checks!Unfixed(p))
  <2>1. Checks!Unfixed(p) \subseteq DOMAIN p.cols
    BY DEF Checks!Unfixed
  <2> QED BY <1>1, <2>1, FS_Subset
<1>3. /\ Checks!PrimalObjective(p, x) \in Int /\ Checks!RayObjective(p, x) \in Int
  <2> DEFINE f == [c \in Checks!Unfixed(p) |-> p.cols[c].obj * x[c]]
  <2>1. f \in [Checks!Unfixed(p) -> Int]
    BY <1>1, <1>2
  <2> HIDE DEF f
  <2>2. Checks!SumFunction(f) \in Int
    BY <1>2, <2>1, SumIsInteger
  <2> QED BY <1>1, <2>2 DEF Checks!PrimalObjective, Checks!RayObjective, f
<1>4. ASSUME NEW r \in DOMAIN p.rows
      PROVE  /\ Checks!PrimalActivity(p.rows[r], x) \in Int
             /\ Checks!RayActivity(p.rows[r], x) \in Int
  <2> DEFINE row == p.rows[r]
             f == [c \in DOMAIN row.coef |-> row.coef[c] * x[c]]
  <2>1. /\ DOMAIN row.coef \subseteq DOMAIN p.cols
        /\ \A c \in DOMAIN row.coef : row.coef[c] \in Int
    BY DEF Checks!IsProblem
  <2>2. IsFiniteSet(DOMAIN row.coef)
    BY <1>1, <2>1, FS_Subset
  <2>3. f \in [DOMAIN row.coef -> Int]
    BY <2>1
  <2>4. Checks!SumFunction(f) \in Int
    <3> HIDE DEF f, row
    <3> QED BY <2>2, <2>3, SumIsInteger
  <2> QED BY <2>4 DEF Checks!PrimalActivity, Checks!RayActivity
<1> QED BY <1>3, <1>4

(* The scale of a ray is a number.                                         *)
LEMMA RayScaleType ==
  ASSUME NEW p, Checks!IsProblem(p), NEW d, \A c \in DOMAIN p.cols : d[c] \in Int,
         NEW t \in Nat
  PROVE  /\ Checks!RayScale(p, d, t) \in Int /\ 0 <= Checks!RayScale(p, d, t)
         /\ t = 0 => Checks!RayScale(p, d, t) = 0
<1> DEFINE sizes == {Checks!Abs(d[c]) : c \in Checks!Unfixed(p)}
           S == {0} \cup sizes
<1>1. Checks!Unfixed(p) \subseteq DOMAIN p.cols /\ IsFiniteSet(Checks!Unfixed(p))
  <2>1. Checks!Unfixed(p) \subseteq DOMAIN p.cols
    BY DEF Checks!Unfixed
  <2>2. IsFiniteSet(DOMAIN p.cols)
    BY SameFinite DEF Checks!IsProblem
  <2> QED BY <2>1, <2>2, FS_Subset
<1>2. IsFiniteSet(sizes)
  <2> DEFINE f == [c \in Checks!Unfixed(p) |-> Checks!Abs(d[c])]
  <2>1. f \in Surjection(Checks!Unfixed(p), sizes)
    BY DEF Surjection
  <2> HIDE DEF f, sizes
  <2> QED BY <1>1, <2>1, FS_Surjection
<1>3. IsFiniteSet(S) /\ S # {}
  BY <1>2, FS_AddElement
<1>4. S \subseteq Int
  BY <1>1 DEF Checks!Abs
<1>5. Checks!Max(S) \in Int /\ 0 <= Checks!Max(S)
  <2> HIDE DEF sizes
  <2> QED BY <1>3, <1>4, LargestExists
<1>6. Checks!RayScale(p, d, t) = t * Checks!Max(S)
  BY DEF Checks!RayScale
<1> HIDE DEF S
<1> QED BY <1>5, <1>6

(* The problem and its reference are those of an instance.                 *)
LEMMA InstanceTypes ==
  ASSUME Checks!InputInv
  PROVE  /\ Checks!IsProblem(problem)
         /\ \A x \in Points \cup Rays : \A c \in DOMAIN problem.cols :
              x[c] \in Int /\ -Infinity <= x[c] /\ x[c] <= Infinity
         /\ reference.status \in Checks!SolutionStatus
         /\ reference.status = "feasible" => reference.primal \in Points
         /\ solvemode \in {-1, 0} /\ certificate \in BOOLEAN
         /\ cutoff \in Int /\ passcodes \subseteq Int /\ problem.minimize \in BOOLEAN
<1>1. PICK i \in Instances : problem = i.problem /\ reference = i.reference
  BY DEF Checks!InputInv
<1>2. /\ Checks!IsProblem(problem)
      /\ \A c \in DOMAIN problem.cols :
           \A x \in Points \cup Rays : x[c] \in -Infinity..Infinity
      /\ reference.status \in Checks!SolutionStatus
      /\ reference.status = "feasible" => reference.primal \in Points
  BY <1>1, SolverAssumption DEF Checks!InstancesAssumption
<1>3. cutoff \in Int /\ passcodes \subseteq Int
  BY SolverAssumption DEF Checks!ScipAssumption, Checks!InputInv
<1>4. problem.minimize \in BOOLEAN
  BY <1>2 DEF Checks!IsProblem
<1>5. Infinity \in Int
  BY Numbers
<1> QED BY <1>2, <1>3, <1>4, <1>5 DEF Checks!InputInv

(* Objectives and activities of points and rays are integers.              *)
LEMMA PointSums ==
  ASSUME Checks!InputInv, NEW x \in Points \cup Rays
  PROVE  /\ Checks!PrimalObjective(problem, x) \in Int
         /\ Checks!RayObjective(problem, x) \in Int
         /\ \A r \in DOMAIN problem.rows :
              /\ Checks!PrimalActivity(problem.rows[r], x) \in Int
              /\ Checks!RayActivity(problem.rows[r], x) \in Int
BY InstanceTypes, ProblemSums

(* The value of the reference is a number if it has a status.              *)
LEMMA ValueType ==
  ASSUME Checks!InputInv, step # "setup"
  PROVE  /\ reference.status # "unknown" => value \in Int
         /\ reference.status = "unknown" => value = NaN
         /\ reference.status = "feasible"
              => value = Checks!PrimalObjective(problem, reference.primal)
         /\ reference.status = "infeasible" => Checks!Cost(value) = Infinity
         /\ reference.status = "unbounded" => Checks!Cost(value) = -Infinity
<1>1. value = Checks!ReferenceValue(problem, reference)
  BY DEF Checks!InputInv
<1>2. reference.status \in {"unknown", "infeasible", "feasible", "unbounded"}
  BY InstanceTypes DEF Checks!SolutionStatus
<1>3. Infinity \in Int /\ problem.minimize \in BOOLEAN
  BY InstanceTypes, Numbers
<1>4. CASE reference.status = "feasible"
  <2>1. value = Checks!PrimalObjective(problem, reference.primal)
    BY <1>1, <1>4 DEF Checks!ReferenceValue
  <2>2. reference.primal \in Points
    BY <1>4, InstanceTypes
  <2> QED BY <1>4, <2>1, <2>2, PointSums
<1>5. CASE reference.status = "infeasible"
  <2>1. value = IF problem.minimize THEN Infinity ELSE -Infinity
    BY <1>1, <1>5 DEF Checks!ReferenceValue
  <2> QED BY <1>3, <1>5, <2>1 DEF Checks!Cost
<1>6. CASE reference.status = "unbounded"
  <2>1. value = IF problem.minimize THEN -Infinity ELSE Infinity
    BY <1>1, <1>6 DEF Checks!ReferenceValue
  <2> QED BY <1>3, <1>6, <2>1 DEF Checks!Cost
<1>7. CASE reference.status = "unknown"
  <2>1. value = NaN
    BY <1>1, <1>7 DEF Checks!ReferenceValue
  <2> QED BY <1>7, <2>1
<1> QED BY <1>2, <1>4, <1>5, <1>6, <1>7

(* What an optimization answers.                                           *)
LEMMA OptimizationTypes ==
  ASSUME answer \in Checks!Certified \cup Checks!Optimizations
  PROVE  /\ answer.dual \in Int /\ answer.primal \in Int
         /\ Len(answer.sols) \in Nat
         /\ \A i \in 1..Len(answer.sols) : answer.sols[i] \in Points
         /\ answer.sols = <<>> <=> Len(answer.sols) = 0
         /\ answer.ray # Checks!Rayless => answer.ray \in Rays
<1>1. CASE answer \in Checks!Certified
  <2>1. /\ answer.dual = -Infinity /\ answer.primal = Infinity
        /\ answer.sols = <<>> /\ answer.ray = Checks!Rayless
    BY <1>1 DEF Checks!Certified
  <2> QED BY <2>1, Numbers
<1>2. CASE answer \in Checks!Optimizations
  <2>1. /\ answer.dual \in Bounds /\ answer.primal \in Bounds
        /\ answer.sols \in {<<>>} \cup {<<x>> : x \in Points} \cup {<<x, y>> : x, y \in Points}
        /\ answer.ray \in {Checks!Rayless} \cup Rays
    BY <1>2 DEF Checks!Optimizations
  <2>2. answer.dual \in Int /\ answer.primal \in Int
    BY <2>1, SolverAssumption DEF Checks!ScipAssumption
  <2>3. CASE answer.sols = <<>>
    BY <2>1, <2>2, <2>3
  <2>4. CASE \E x \in Points : answer.sols = <<x>>
    BY <2>1, <2>2, <2>4
  <2>5. CASE \E x, y \in Points : answer.sols = <<x, y>>
    BY <2>1, <2>2, <2>5
  <2> QED BY <2>1, <2>3, <2>4, <2>5
<1> QED BY <1>1, <1>2

-------------------------------------------------------------------------------
(* Codes of the checks.                                                    *)
LEMMA CheckCodes ==
  /\ Checks!AfterDual = Checks!OKAY \/ Checks!AfterDual = Checks!DUALFAIL
  /\ Checks!AfterDual = Checks!OKAY =>
       Checks!AfterPrimal = Checks!OKAY \/ Checks!AfterPrimal = Checks!PRIMALFAIL
  /\ Checks!AfterDual # Checks!OKAY => Checks!AfterPrimal = Checks!AfterDual
  /\ Checks!AfterPrimal # Checks!OKAY =>
       Checks!AfterObjective = Checks!AfterPrimal /\ Checks!AfterCertificate = Checks!AfterPrimal
  /\ Checks!AfterPrimal = Checks!OKAY =>
       Checks!AfterObjective = Checks!OKAY \/ Checks!AfterObjective = Checks!OBJECTIVEFAIL
  /\ Checks!AfterObjective # Checks!OKAY => Checks!AfterCertificate = Checks!AfterObjective
  /\ Checks!AfterObjective = Checks!OKAY => Checks!AfterCertificate \in {0, 4, 5}
  /\ Checks!OKAY = 0 /\ Checks!DUALFAIL = 1 /\ Checks!PRIMALFAIL = 2
  /\ Checks!OBJECTIVEFAIL = 3
<1>1. /\ Checks!OKAY = 0 /\ Checks!DUALFAIL = 1 /\ Checks!PRIMALFAIL = 2
      /\ Checks!OBJECTIVEFAIL = 3
      /\ Checks!SolverRetcode.COMPLETIONFAIL = 4 /\ Checks!SolverRetcode.CERTIFICATIONFAIL = 5
  BY DEF Checks!OKAY, Checks!DUALFAIL, Checks!PRIMALFAIL, Checks!OBJECTIVEFAIL,
     Checks!SolverRetcode
<1>2. Checks!AfterDual = Checks!OKAY \/ Checks!AfterDual = Checks!DUALFAIL
  BY DEF Checks!AfterDual, Checks!CheckDualBound
<1>3. /\ Checks!AfterDual = Checks!OKAY =>
           Checks!AfterPrimal = Checks!OKAY \/ Checks!AfterPrimal = Checks!PRIMALFAIL
      /\ Checks!AfterDual # Checks!OKAY => Checks!AfterPrimal = Checks!AfterDual
  BY DEF Checks!AfterPrimal, Checks!CheckPrimalSolution
<1>4. /\ Checks!AfterPrimal # Checks!OKAY => Checks!AfterObjective = Checks!AfterPrimal
      /\ Checks!AfterPrimal = Checks!OKAY =>
           Checks!AfterObjective = Checks!OKAY \/ Checks!AfterObjective = Checks!OBJECTIVEFAIL
  BY DEF Checks!AfterObjective, Checks!CheckObjectiveValue
<1>5. /\ Checks!AfterObjective # Checks!OKAY => Checks!AfterCertificate = Checks!AfterObjective
      /\ Checks!AfterObjective = Checks!OKAY => Checks!AfterCertificate \in {0, 4, 5}
  BY <1>1 DEF Checks!AfterCertificate
<1> QED BY <1>1, <1>2, <1>3, <1>4, <1>5

(* A solve that was optimized and judged.                                  *)
Judged ==
  /\ Checks!IInv /\ step = "done" /\ answer.code = Checks!SCIP_OKAY /\ solvemode = -1

(* What is known when the answer is judged.                                *)
LEMMA JudgedFacts ==
  ASSUME Judged
  PROVE  /\ Checks!InputInv /\ Checks!SolutionInv /\ step # "setup"
         /\ answer \in Checks!Certified \cup Checks!Optimizations
         /\ retcode = IF Checks!AfterCertificate \in passcodes THEN Checks!OKAY
                      ELSE Checks!AfterCertificate
         /\ Checks!AfterDual = Checks!OKAY =>
              solution = [i \in 1..Checks!TranslatedNumber |-> Checks!Translate(i)]
<1>1. /\ Checks!InputInv /\ Checks!SolutionInv /\ Checks!AnswerInv /\ Checks!CodeInv
  BY DEF Judged, Checks!IInv
<1>2. answer \in Checks!Certified \cup Checks!Optimizations
  BY <1>1, AnswerCodes DEF Judged, Checks!AnswerInv
<1>3. retcode = IF Checks!AfterCertificate \in passcodes THEN Checks!OKAY
                ELSE Checks!AfterCertificate
  BY <1>1 DEF Judged, Checks!CodeInv, Checks!Verdict
<1> QED BY <1>1, <1>2, <1>3 DEF Judged, Checks!SolutionInv

(* All solutions are checked unless their check is disabled.               *)
LEMMA FullTranslation ==
  ASSUME Judged, Checks!AfterDual = Checks!OKAY, Checks!PRIMALFAIL \notin passcodes
  PROVE  Checks!Range(solution) = Checks!Everything
<1>1. solution = [i \in 1..Len(answer.sols) |-> Checks!Translate(i)]
  BY JudgedFacts DEF Checks!TranslatedNumber
<1> QED BY <1>1 DEF Checks!Range, Checks!Everything

(* What contradicts the problem or its reference.                          *)
LEMMA ContradictionMembers ==
  /\ Checks!Contradictions \subseteq {Checks!DUALFAIL, Checks!PRIMALFAIL}
  /\ Checks!DUALFAIL \in Checks!Contradictions <=>
       Checks!CheckDualBound(problem, reference, value, answer.dual, SumEpsilon)
         = Checks!DUALFAIL
  /\ Checks!PRIMALFAIL \in Checks!Contradictions <=>
       Checks!CheckPrimalSolution(problem, Checks!Everything, SumEpsilon)
         = Checks!PRIMALFAIL
BY CheckCodes DEF Checks!Contradictions

(* The code reported is that of the first contradiction.                   *)
LEMMA FirstContradiction ==
  ASSUME Judged
  PROVE  /\ Checks!AfterDual = Checks!DUALFAIL
              <=> Checks!DUALFAIL \in Checks!Contradictions \ passcodes
         /\ Checks!AfterDual = Checks!OKAY =>
              (Checks!AfterPrimal = Checks!PRIMALFAIL
                 <=> Checks!PRIMALFAIL \in Checks!Contradictions \ passcodes)
<1>1. Checks!AfterDual = Checks!DUALFAIL
        <=> Checks!DUALFAIL \in Checks!Contradictions \ passcodes
  BY CheckCodes, ContradictionMembers DEF Checks!AfterDual
<1>2. ASSUME Checks!AfterDual = Checks!OKAY
      PROVE  Checks!AfterPrimal = Checks!PRIMALFAIL
               <=> Checks!PRIMALFAIL \in Checks!Contradictions \ passcodes
  <2>1. CASE Checks!PRIMALFAIL \in passcodes
    BY <1>2, <2>1, CheckCodes DEF Checks!AfterPrimal
  <2>2. CASE Checks!PRIMALFAIL \notin passcodes
    <3>1. Checks!AfterPrimal
            = Checks!CheckPrimalSolution(problem, Checks!Everything, SumEpsilon)
      BY <1>2, <2>2, FullTranslation DEF Checks!AfterPrimal
    <3> QED BY <2>2, <3>1, ContradictionMembers
  <2> QED BY <2>1, <2>2
<1> QED BY <1>1, <1>2

(* A passcode silences its own check alone.                                *)
LEMMA ChecksPasscodes ==
  Checks!IInv => Checks!PasscodesSilenceTheirOwn
<1> DEFINE open == Checks!Contradictions \ passcodes
<1> SUFFICES ASSUME Judged
             PROVE  /\ open # {} => retcode = Checks!Min(open)
                    /\ open = {} => retcode \notin {Checks!DUALFAIL, Checks!PRIMALFAIL}
                    /\ retcode \notin passcodes \ {Checks!OKAY}
  BY DEF Judged, Checks!PasscodesSilenceTheirOwn
<1>1. open \subseteq {1, 2}
  BY ContradictionMembers, CheckCodes
<1>2. retcode = IF Checks!AfterCertificate \in passcodes THEN Checks!OKAY
                ELSE Checks!AfterCertificate
  BY JudgedFacts
<1>3. retcode \notin passcodes \ {Checks!OKAY}
  BY <1>2
<1>4. CASE Checks!AfterDual = Checks!DUALFAIL
  <2>1. 1 \in open
    BY <1>4, FirstContradiction, CheckCodes
  <2>2. retcode = 1
    BY <1>2, <1>4, <2>1, CheckCodes
  <2>3. Checks!Min(open) = 1
    BY <1>1, <2>1 DEF Checks!Min
  <2> QED BY <1>3, <2>1, <2>2, <2>3
<1>5. CASE Checks!AfterDual = Checks!OKAY
  <2>1. 1 \notin open
    BY <1>5, FirstContradiction, CheckCodes
  <2>2. CASE Checks!AfterPrimal = Checks!PRIMALFAIL
    <3>1. open = {2}
      BY <1>1, <1>5, <2>1, <2>2, FirstContradiction, CheckCodes
    <3>2. retcode = 2
      BY <1>2, <2>2, <3>1, CheckCodes
    <3>3. Checks!Min({2}) = 2
      BY DEF Checks!Min
    <3> QED BY <1>3, <3>1, <3>2, <3>3
  <2>3. CASE Checks!AfterPrimal = Checks!OKAY
    <3>1. open = {}
      <4>1. 2 \notin open
        BY <1>5, <2>3, FirstContradiction, CheckCodes
      <4> QED BY <1>1, <2>1, <4>1
    <3>2. retcode \in {0, 3, 4, 5}
      BY <1>2, <2>3, CheckCodes
    <3> QED BY <1>3, <3>1, <3>2, CheckCodes
  <2> QED BY <1>5, <2>2, <2>3, CheckCodes
<1> QED BY <1>4, <1>5, CheckCodes

-------------------------------------------------------------------------------
(* No solution is translated to none.                                      *)
LEMMA EmptyTranslation ==
  [i \in 1..0 |-> Checks!Translate(i)] = <<>>
<1>1. 1..0 = {}
  OBVIOUS
<1>2. [i \in {} |-> Checks!Translate(i)] = <<>>
  OBVIOUS
<1> QED BY <1>1, <1>2

(* The number of solutions that are translated.                            *)
LEMMA TranslatedRange ==
  ASSUME Len(answer.sols) \in Nat
  PROVE  /\ Checks!TranslatedNumber \in Nat
         /\ Checks!TranslatedNumber <= Len(answer.sols)
         /\ Len(answer.sols) # 0 /\ Checks!OBJECTIVEFAIL \notin passcodes
              => Checks!TranslatedNumber # 0
<1> DEFINE n == Len(answer.sols)
<1>1. n \in Nat
  OBVIOUS
<1> HIDE DEF n
<1>2. Checks!Min({1, n}) \in {1, n} /\ Checks!Min({1, n}) <= n
  <2>1. CASE n = 0
    <3>1. 0 \in {1, n} /\ \A y \in {1, n} : 0 <= y
      BY <2>1
    <3>2. Checks!Min({1, n}) \in {1, n} /\ \A y \in {1, n} : Checks!Min({1, n}) <= y
      BY <3>1 DEF Checks!Min
    <3> QED BY <3>2
  <2>2. CASE n # 0
    <3>1. 1 \in {1, n} /\ \A y \in {1, n} : 1 <= y
      BY <1>1, <2>2
    <3>2. Checks!Min({1, n}) \in {1, n} /\ \A y \in {1, n} : Checks!Min({1, n}) <= y
      BY <3>1 DEF Checks!Min
    <3> QED BY <3>2
  <2> QED BY <2>1, <2>2
<1>3. Checks!TranslatedNumber \in {n, 0, Checks!Min({1, n})}
  BY DEF Checks!TranslatedNumber, n
<1>4. Checks!TranslatedNumber \in Nat /\ Checks!TranslatedNumber <= n
  BY <1>1, <1>2, <1>3
<1>5. n # 0 /\ Checks!OBJECTIVEFAIL \notin passcodes => Checks!TranslatedNumber # 0
  BY <1>2 DEF Checks!TranslatedNumber, n
<1> QED BY <1>4, <1>5 DEF n

(* A bound that no solution justifies is reported.                         *)
LEMMA ChecksUnjustified ==
  Checks!IInv => Checks!UnjustifiedBoundReported
<1> SUFFICES ASSUME Judged,
                    Checks!OBJECTIVEFAIL \notin passcodes,
                    Checks!Contradictions \ passcodes = {},
                    answer.ray = Checks!Rayless, cutoff < 0,
                    Checks!Abs(answer.primal) < Infinity,
                    \A i \in 1..Len(answer.sols) :
                      Checks!Cost(answer.primal) + Unit
                        <= Checks!Cost(Checks!PrimalObjective(problem, answer.sols[i]))
             PROVE  retcode = Checks!OBJECTIVEFAIL
  BY DEF Judged, Checks!UnjustifiedBoundReported
<1> DEFINE primal == answer.primal
<1>1. Checks!AfterDual = Checks!OKAY /\ Checks!AfterPrimal = Checks!OKAY
  BY FirstContradiction, CheckCodes
<1>2. solution = [i \in 1..Checks!TranslatedNumber |-> Checks!Translate(i)]
  BY <1>1, JudgedFacts
<1>3. /\ primal \in Int /\ Len(answer.sols) \in Nat
      /\ \A i \in 1..Len(answer.sols) : answer.sols[i] \in Points
  BY JudgedFacts, OptimizationTypes
<1>4. Checks!InputInv /\ problem.minimize \in BOOLEAN /\ cutoff \in Int
  BY JudgedFacts, InstanceTypes
<1>5. primal < Infinity /\ -Infinity < primal /\ Checks!Abs(primal) # Infinity
      /\ ~ (Checks!Abs(primal) > Infinity)
  BY <1>3, Numbers DEF Checks!Abs
<1>6. Checks!PrimalBound = primal
  <2>1. ~ Checks!AtObjLimit
    BY <1>4 DEF Checks!AtObjLimit, Checks!Limiting
  <2> QED BY <1>5, <2>1 DEF Checks!PrimalBound
<1>7. \A i \in DOMAIN solution :
        solution[i].status = "feasible" /\ solution[i].primal = answer.sols[i]
  BY <1>2 DEF Checks!Translate
<1>8. /\ Infinity \in Int /\ -Infinity \in Int /\ SumEpsilon \in Nat
      /\ 0 < SumEpsilon /\ SumEpsilon < Fine /\ Unit \in Int
      /\ Infinity > 0
  BY Numbers
<1>9. CASE solution = <<>>
  <2>1. Checks!Best.status = "infeasible"
    BY <1>9 DEF Checks!Best
  <2>2. Checks!Worth(problem, Checks!Best)
          = IF problem.minimize THEN Infinity ELSE -Infinity
    BY <2>1 DEF Checks!Worth
  <2>3. Checks!Below(primal, Infinity, SumEpsilon)
    <3>1. Checks!Scaled(primal) < Checks!Scaled(Infinity)
      BY <1>3, <1>5, <1>8, ScaledOrder
    <3> QED BY <1>8, <3>1 DEF Checks!Below, Checks!Relax
  <2>4. Checks!Above(primal, -Infinity, SumEpsilon)
    <3>1. Checks!Scaled(-Infinity) < Checks!Scaled(primal)
      BY <1>3, <1>5, <1>8, ScaledOrder
    <3> QED BY <1>8, <3>1 DEF Checks!Above, Checks!Relax
  <2>5. Checks!CheckObjectiveValue(problem, primal, Checks!Best, SumEpsilon)
          = Checks!OBJECTIVEFAIL
    BY <1>4, <2>1, <2>2, <2>3, <2>4 DEF Checks!CheckObjectiveValue
  <2>6. Checks!AfterObjective = Checks!OBJECTIVEFAIL
    BY <1>1, <1>6, <2>5 DEF Checks!AfterObjective
  <2> QED BY <2>6, JudgedFacts, CheckCodes
<1>10. CASE solution # <<>>
  <2>1. 1 \in DOMAIN solution /\ 1 \in 1..Len(answer.sols)
    <3>1. Checks!TranslatedNumber \in Nat /\ Checks!TranslatedNumber <= Len(answer.sols)
      BY <1>3, TranslatedRange
    <3>2. Checks!TranslatedNumber # 0
      BY <1>2, <1>10, EmptyTranslation
    <3> QED BY <1>2, <1>3, <3>1, <3>2
  <2> DEFINE worth == Checks!PrimalObjective(problem, answer.sols[1])
  <2>2. worth \in Int
    BY <1>3, <1>4, <2>1, PointSums
  <2>3. Checks!Best.status = "feasible" /\ Checks!Best.primal = answer.sols[1]
    BY <1>7, <1>10, <2>1 DEF Checks!Best
  <2>4. Checks!Worth(problem, Checks!Best) = worth
    BY <2>3 DEF Checks!Worth
  <2>5. Checks!Cost(primal) + Unit <= Checks!Cost(worth)
    BY <2>1
  <2> HIDE DEF worth, primal
  <2>6. Checks!CheckObjectiveValue(problem, primal, Checks!Best, SumEpsilon)
          = Checks!OBJECTIVEFAIL
    <3>1. CASE problem.minimize
      <4>1. Checks!Below(primal, worth, SumEpsilon)
        <5>1. primal + Unit <= worth
          BY <2>5, <3>1 DEF Checks!Cost
        <5> QED BY <1>3, <1>5, <1>8, <2>2, <5>1, WrongSide DEF primal
      <4> QED BY <2>3, <2>4, <3>1, <4>1 DEF Checks!CheckObjectiveValue
    <3>2. CASE ~ problem.minimize
      <4>1. Checks!Above(primal, worth, SumEpsilon)
        <5>1. worth + Unit <= primal
          BY <1>3, <1>8, <2>2, <2>5, <3>2 DEF Checks!Cost, primal
        <5> QED BY <1>3, <1>5, <1>8, <2>2, <5>1, WrongSide DEF primal
      <4> QED BY <2>3, <2>4, <3>2, <4>1 DEF Checks!CheckObjectiveValue
    <3> QED BY <3>1, <3>2
  <2>7. Checks!AfterObjective = Checks!OBJECTIVEFAIL
    BY <1>1, <1>6, <2>6 DEF Checks!AfterObjective
  <2> QED BY <2>7, JudgedFacts, CheckCodes
<1> QED BY <1>9, <1>10

-------------------------------------------------------------------------------
(* A dual bound or a point that is off by 1 or more is reported.           *)
LEMMA GrossDualFails ==
  ASSUME Judged, Checks!GrossDual
  PROVE  Checks!CheckDualBound(problem, reference, value, answer.dual, SumEpsilon)
           = Checks!DUALFAIL
<1>1. /\ reference.status # "unknown" /\ Checks!InputInv /\ step # "setup"
      /\ Checks!Abs(value) < Infinity /\ Checks!Cost(answer.dual) >= Checks!Cost(value) + Unit
  BY JudgedFacts DEF Checks!GrossDual
<1>2. /\ value \in Int /\ answer.dual \in Int /\ problem.minimize \in BOOLEAN
  BY <1>1, JudgedFacts, ValueType, OptimizationTypes, InstanceTypes
<1>3. /\ Infinity \in Int /\ SumEpsilon \in Nat /\ 0 < SumEpsilon /\ SumEpsilon < Fine
      /\ Unit \in Int
  BY Numbers
<1>4. -Infinity < value /\ value < Infinity
  BY <1>1, <1>2, <1>3 DEF Checks!Abs
<1>5. CASE problem.minimize
  <2>1. value + Unit <= answer.dual
    BY <1>1, <1>2, <1>3, <1>5 DEF Checks!Cost
  <2>2. Checks!Above(answer.dual, value, SumEpsilon)
    BY <1>2, <1>3, <1>4, <2>1, WrongSide
  <2> QED BY <1>1, <1>5, <2>2 DEF Checks!CheckDualBound
<1>6. CASE ~ problem.minimize
  <2>1. answer.dual + Unit <= value
    BY <1>1, <1>2, <1>3, <1>6 DEF Checks!Cost
  <2>2. Checks!Below(answer.dual, value, SumEpsilon)
    BY <1>2, <1>3, <1>4, <2>1, WrongSide
  <2> QED BY <1>1, <1>6, <2>2 DEF Checks!CheckDualBound
<1> QED BY <1>5, <1>6

(* A point that is off by 1 or more is not accepted.                       *)
LEMMA GrossPointFails ==
  ASSUME Checks!InputInv, NEW x \in Points, Checks!GrossPoint(x)
  PROVE  Checks!PointFails(problem, x, SumEpsilon)
<1>1. /\ Infinity \in Int /\ SumEpsilon \in Nat /\ 0 < SumEpsilon /\ SumEpsilon < Fine
      /\ Unit \in Int
  BY Numbers
<1>2. Checks!IsProblem(problem)
  BY InstanceTypes
<1>3. CASE \E c \in Checks!Unfixed(problem) :
             \/ "LbInf" \notin problem.cols[c].flags /\ x[c] + Unit <= problem.cols[c].lb
             \/ "UbInf" \notin problem.cols[c].flags /\ x[c] - Unit >= problem.cols[c].ub
  <2>1. PICK c \in Checks!Unfixed(problem) :
             \/ "LbInf" \notin problem.cols[c].flags /\ x[c] + Unit <= problem.cols[c].lb
             \/ "UbInf" \notin problem.cols[c].flags /\ x[c] - Unit >= problem.cols[c].ub
    BY <1>3
  <2> DEFINE col == problem.cols[c]
  <2>2. c \in DOMAIN problem.cols
    BY DEF Checks!Unfixed
  <2>3. /\ col.lb \in Int /\ col.ub \in Int /\ col.lb <= Infinity /\ -Infinity <= col.ub
    BY <1>1, <1>2, <2>2 DEF Checks!IsProblem
  <2>4. x[c] \in Int
    BY <2>2, InstanceTypes
  <2>5. Checks!OutsideDomain(col, x[c], SumEpsilon)
    <3>1. CASE "LbInf" \notin col.flags /\ x[c] + Unit <= col.lb
      <4>1. Checks!Below(x[c], col.lb, SumEpsilon)
        BY <1>1, <2>3, <2>4, <3>1, WrongSide
      <4> QED BY <3>1, <4>1 DEF Checks!OutsideDomain
    <3>2. CASE "UbInf" \notin col.flags /\ x[c] - Unit >= col.ub
      <4>1. col.ub + Unit <= x[c]
        BY <1>1, <2>3, <2>4, <3>2
      <4>2. Checks!Above(x[c], col.ub, SumEpsilon)
        BY <1>1, <2>3, <2>4, <4>1, WrongSide
      <4> QED BY <3>2, <4>2 DEF Checks!OutsideDomain
    <3> QED BY <2>1, <3>1, <3>2
  <2> QED BY <2>5 DEF Checks!PointFails
<1>4. CASE \E r \in Checks!Effective(problem) :
             LET row == problem.rows[r]
             IN  \/ /\ "LhsInf" \notin row.flags
                    /\ Checks!PrimalActivity(row, x) + Unit <= row.lhs
                 \/ /\ "RhsInf" \notin row.flags
                    /\ Checks!PrimalActivity(row, x) - Unit >= row.rhs
  <2>1. PICK r \in Checks!Effective(problem) :
             LET row == problem.rows[r]
             IN  \/ /\ "LhsInf" \notin row.flags
                    /\ Checks!PrimalActivity(row, x) + Unit <= row.lhs
                 \/ /\ "RhsInf" \notin row.flags
                    /\ Checks!PrimalActivity(row, x) - Unit >= row.rhs
    BY <1>4
  <2> DEFINE row == problem.rows[r]
             activity == Checks!PrimalActivity(row, x)
  <2>2. r \in DOMAIN problem.rows
    BY DEF Checks!Effective
  <2>3. /\ row.lhs \in Int /\ row.rhs \in Int /\ row.lhs <= Infinity /\ -Infinity <= row.rhs
    BY <1>1, <1>2, <2>2 DEF Checks!IsProblem
  <2>4. activity \in Int
    BY <2>2, PointSums
  <2>5. \/ "LhsInf" \notin row.flags /\ activity + Unit <= row.lhs
        \/ "RhsInf" \notin row.flags /\ activity - Unit >= row.rhs
    BY <2>1
  <2>6. Checks!OutsideRange(row, activity, SumEpsilon)
    <3> HIDE DEF row, activity
    <3>1. CASE "LhsInf" \notin row.flags /\ activity + Unit <= row.lhs
      <4>1. Checks!Below(activity, row.lhs, SumEpsilon)
        BY <1>1, <2>3, <2>4, <3>1, WrongSide
      <4> QED BY <3>1, <4>1 DEF Checks!OutsideRange
    <3>2. CASE "RhsInf" \notin row.flags /\ activity - Unit >= row.rhs
      <4>1. row.rhs + Unit <= activity
        BY <1>1, <2>3, <2>4, <3>2
      <4>2. Checks!Above(activity, row.rhs, SumEpsilon)
        BY <1>1, <2>3, <2>4, <4>1, WrongSide
      <4> QED BY <3>2, <4>2 DEF Checks!OutsideRange
    <3> QED BY <2>5, <3>1, <3>2
  <2> QED BY <2>6 DEF Checks!PointFails
<1> QED BY <1>3, <1>4 DEF Checks!GrossPoint

(* Errors of 1 or more are reported.                                       *)
LEMMA ChecksGross ==
  Checks!IInv => Checks!GrossErrorsReported
<1> SUFFICES ASSUME Judged
             PROVE  /\ Checks!GrossDual /\ Checks!DUALFAIL \notin passcodes
                         => retcode = Checks!DUALFAIL
                    /\ /\ Checks!PRIMALFAIL \notin passcodes
                       /\ \E i \in 1..Len(answer.sols) : Checks!GrossPoint(answer.sols[i])
                       => retcode \in {Checks!DUALFAIL, Checks!PRIMALFAIL}
  BY DEF Judged, Checks!GrossErrorsReported
<1>1. ASSUME Checks!AfterDual = Checks!DUALFAIL
      PROVE  retcode = Checks!DUALFAIL
  <2>1. Checks!AfterCertificate = Checks!DUALFAIL /\ Checks!DUALFAIL \notin passcodes
    BY <1>1, CheckCodes, FirstContradiction
  <2> QED BY <2>1, JudgedFacts
<1>2. ASSUME Checks!GrossDual, Checks!DUALFAIL \notin passcodes
      PROVE  retcode = Checks!DUALFAIL
  <2>1. Checks!AfterDual = Checks!DUALFAIL
    BY <1>2, GrossDualFails DEF Checks!AfterDual
  <2> QED BY <1>1, <2>1
<1>3. ASSUME Checks!PRIMALFAIL \notin passcodes,
             NEW i \in 1..Len(answer.sols), Checks!GrossPoint(answer.sols[i])
      PROVE  retcode \in {Checks!DUALFAIL, Checks!PRIMALFAIL}
  <2>1. CASE Checks!AfterDual = Checks!DUALFAIL
    BY <1>1, <2>1
  <2>2. CASE Checks!AfterDual = Checks!OKAY
    <3>1. answer.sols[i] \in Points /\ Checks!InputInv
      BY JudgedFacts, OptimizationTypes
    <3>2. Checks!PointFails(problem, answer.sols[i], SumEpsilon)
      BY <1>3, <3>1, GrossPointFails
    <3>3. /\ Checks!Translate(i).status \in {"feasible", "unbounded"}
          /\ Checks!Translate(i).primal = answer.sols[i]
      <4>1. CASE i = 1 /\ answer.ray # Checks!Rayless
        <5>1. Checks!Translate(i) =
                [status |-> "unbounded", primal |-> answer.sols[i], ray |-> answer.ray]
          BY <4>1 DEF Checks!Translate
        <5> QED BY <5>1
      <4>2. CASE ~ (i = 1 /\ answer.ray # Checks!Rayless)
        <5>1. Checks!Translate(i) = [status |-> "feasible", primal |-> answer.sols[i]]
          BY <4>2 DEF Checks!Translate
        <5> QED BY <5>1
      <4> QED BY <4>1, <4>2
    <3>4. Checks!SolutionFails(problem, Checks!Translate(i), SumEpsilon)
      BY <3>2, <3>3 DEF Checks!SolutionFails
    <3>5. Checks!CheckPrimalSolution(problem, Checks!Everything, SumEpsilon)
            = Checks!PRIMALFAIL
      BY <3>4 DEF Checks!Everything, Checks!CheckPrimalSolution
    <3>6. Checks!AfterPrimal = Checks!PRIMALFAIL
      BY <1>3, <2>2, <3>5, ContradictionMembers, FirstContradiction
    <3> QED BY <1>3, <3>6, CheckCodes, JudgedFacts
  <2> QED BY <2>1, <2>2, CheckCodes
<1> QED BY <1>2, <1>3

(* A failure of SCIP keeps a code of its own.                              *)
LEMMA ChecksApart ==
  Checks!IInv => Checks!ErrorsStayApart
<1> SUFFICES ASSUME Checks!IInv, step = "done", answer.code # Checks!SCIP_OKAY
             PROVE  \/ retcode < 0
                    \/ answer.code - 1 \in passcodes /\ retcode = Checks!OKAY
  BY DEF Checks!ErrorsStayApart
<1>1. answer \in Checks!Failures
  BY AnswerCodes DEF Checks!IInv, Checks!AnswerInv
<1>2. answer.code \in Int /\ answer.code <= 0
  BY <1>1, AnswerCodes, SolverAssumption DEF Checks!ScipAssumption
<1>3. retcode = IF answer.code - 1 \in passcodes THEN Checks!OKAY ELSE answer.code - 1
  BY DEF Checks!IInv, Checks!CodeInv, Checks!Verdict
<1> QED BY <1>2, <1>3

(* The slack of twice the tolerance is the larger one for moderate values. *)
LEMMA SlackGrows ==
  ASSUME NEW b \in Int, (Checks!Abs(b) + 2 * Unit) * SumEpsilon < Unit * Fine
  PROVE  Checks!Slack(b, SumEpsilon) < Checks!Slack(b, 2 * SumEpsilon)
<1> DEFINE a == Checks!Abs(b)
           t == SumEpsilon
<1>1. a \in Int /\ a >= 0
  BY DEF Checks!Abs
<1>2. Unit \in Int /\ Unit > 0 /\ Fine \in Int /\ t \in Int /\ t > 0
  BY Numbers
<1>3. (a + 2 * Unit) * t < Unit * Fine
  OBVIOUS
<1> HIDE DEF a, t
<1>4. /\ a * t \in Int /\ Unit * t \in Int /\ Unit * Fine \in Int
      /\ 0 <= a * t /\ 0 < Unit * t
  BY <1>1, <1>2
<1>5. /\ (a + 2 * Unit) * t = a * t + 2 * (Unit * t)
      /\ (a + Unit) * t = a * t + Unit * t
      /\ (a + Unit) * (2 * t) = 2 * (a * t) + 2 * (Unit * t)
      /\ Unit * (2 * t) = 2 * (Unit * t)
      /\ a * (2 * t) = 2 * (a * t)
      /\ Unit * (Fine - 2 * t) = Unit * Fine - 2 * (Unit * t)
  BY <1>1, <1>2
<1>6. CASE a < Unit
  <2>1. Checks!Slack(b, t) = Unit * t /\ Checks!Slack(b, 2 * t) = Unit * (2 * t)
    BY <1>6 DEF Checks!Slack, a
  <2> QED BY <1>4, <1>5, <2>1 DEF t
<1>7. CASE ~ (a < Unit)
  <2>1. Checks!Slack(b, t) = a * t
    <3>1. ~ ((a + Unit) * t > Unit * Fine)
      BY <1>3, <1>4, <1>5
    <3> QED BY <1>7, <3>1 DEF Checks!Slack, a
  <2>2. 0 < a * t
    BY <1>1, <1>2, <1>7
  <2>3. CASE (a + Unit) * (2 * t) > Unit * Fine
    <3>1. Checks!Slack(b, 2 * t) = Unit * (Fine - 2 * t)
      BY <1>7, <2>3 DEF Checks!Slack, a
    <3> QED BY <1>3, <1>4, <1>5, <2>1, <3>1 DEF t
  <2>4. CASE ~ ((a + Unit) * (2 * t) > Unit * Fine)
    <3>1. Checks!Slack(b, 2 * t) = a * (2 * t)
      BY <1>7, <2>4 DEF Checks!Slack, a
    <3> QED BY <1>4, <1>5, <2>1, <2>2, <3>1 DEF t
  <2> QED BY <2>3, <2>4
<1> QED BY <1>6, <1>7

(* A solve that is cut off by the dual limit is reported.                  *)
LEMMA ChecksDualLimit ==
  Checks!IInv => Checks!DualLimitIsABug
<1> SUFFICES ASSUME Judged, reference.status = "feasible",
                    IF problem.minimize
                      THEN Checks!Scaled(answer.dual) >= Checks!DualLimit
                      ELSE Checks!Scaled(answer.dual) <= Checks!DualLimit,
                    (Checks!Abs(value) + 2 * Unit) * SumEpsilon < Unit * Fine,
                    Checks!Abs(value) < Infinity, Checks!DUALFAIL \notin passcodes
             PROVE  retcode = Checks!DUALFAIL
  BY DEF Judged, Checks!DualLimitIsABug
<1>1. value \in Int /\ answer.dual \in Int /\ problem.minimize \in BOOLEAN
  BY JudgedFacts, ValueType, OptimizationTypes, InstanceTypes
<1>2. Infinity \in Int /\ -Infinity < value /\ value < Infinity
  BY <1>1, Numbers DEF Checks!Abs
<1>3. /\ Checks!Slack(value, SumEpsilon) \in Int /\ Checks!Slack(value, 2 * SumEpsilon) \in Int
      /\ Checks!Slack(value, SumEpsilon) < Checks!Slack(value, 2 * SumEpsilon)
  BY <1>1, Numbers, SlackRange, SlackGrows
<1>4. Checks!Scaled(value) \in Int /\ Checks!Scaled(answer.dual) \in Int
  BY <1>1, ScaledOrder
<1>5. CASE problem.minimize
  <2>1. Checks!DualLimit = Checks!Scaled(value) + Checks!Slack(value, 2 * SumEpsilon)
    BY <1>1, <1>2, <1>5 DEF Checks!DualLimit, Checks!Relax
  <2>2. Checks!Above(answer.dual, value, SumEpsilon)
    BY <1>1, <1>2, <1>3, <1>4, <1>5, <2>1 DEF Checks!Above, Checks!Relax
  <2>3. Checks!AfterDual = Checks!DUALFAIL
    BY <1>5, <2>2 DEF Checks!AfterDual, Checks!CheckDualBound
  <2> QED BY <2>3, CheckCodes, JudgedFacts
<1>6. CASE ~ problem.minimize
  <2>1. Checks!DualLimit = Checks!Scaled(value) - Checks!Slack(value, 2 * SumEpsilon)
    BY <1>1, <1>2, <1>6 DEF Checks!DualLimit, Checks!Relax
  <2>2. Checks!Below(answer.dual, value, SumEpsilon)
    BY <1>1, <1>2, <1>3, <1>4, <1>6, <2>1 DEF Checks!Below, Checks!Relax
  <2>3. Checks!AfterDual = Checks!DUALFAIL
    BY <1>6, <2>2 DEF Checks!AfterDual, Checks!CheckDualBound
  <2> QED BY <2>3, CheckCodes, JudgedFacts
<1> QED BY <1>5, <1>6

-------------------------------------------------------------------------------
(* What is true passes each check.  The dual bound:                        *)
LEMMA TrueReference ==
  ASSUME Checks!InputInv, step # "setup", Checks!TruthfulReference, Checks!TruthfulDual,
         answer.dual \in Int
  PROVE  /\ -Infinity <= answer.dual /\ answer.dual <= Infinity
         /\ reference.status # "unknown" => Checks!Cost(answer.dual) <= Checks!Cost(value)
<1>1. Infinity \in Int
  BY Numbers
<1>2. -Infinity <= answer.dual /\ answer.dual <= Infinity
  BY <1>1 DEF Checks!TruthfulDual
<1>3. reference.status \in {"unknown", "infeasible", "feasible", "unbounded"}
  BY InstanceTypes DEF Checks!SolutionStatus
<1>4. CASE reference.status = "feasible"
  <2>1. reference.primal \in Checks!FeasiblePoints
    BY <1>4, InstanceTypes DEF Checks!TruthfulReference, Checks!FeasiblePoints
  <2>2. value = Checks!PrimalObjective(problem, reference.primal)
    BY <1>4, ValueType
  <2> QED BY <1>2, <2>1, <2>2 DEF Checks!TruthfulDual
<1>5. CASE reference.status = "infeasible"
  <2>1. Checks!Cost(value) = Infinity
    BY <1>5, ValueType
  <2>2. Checks!Cost(answer.dual) <= Infinity
    BY <1>1, <1>2 DEF Checks!Cost
  <2> QED BY <1>2, <2>1, <2>2
<1>6. CASE reference.status = "unbounded"
  <2>1. Checks!Unbounded
    BY <1>6 DEF Checks!TruthfulReference
  <2>2. Checks!Cost(answer.dual) = -Infinity
    BY <2>1 DEF Checks!TruthfulDual
  <2>3. Checks!Cost(value) = -Infinity
    BY <1>6, ValueType
  <2> QED BY <1>1, <1>2, <2>2, <2>3
<1> QED BY <1>2, <1>3, <1>4, <1>5, <1>6

(* A true dual bound is accepted.                                          *)
LEMMA TrueDualPasses ==
  ASSUME Checks!InputInv, step # "setup", Checks!TruthfulReference, Checks!TruthfulDual,
         answer.dual \in Int
  PROVE  Checks!CheckDualBound(problem, reference, value, answer.dual, SumEpsilon)
           = Checks!OKAY
<1>1. /\ Infinity \in Int /\ SumEpsilon \in Nat /\ 0 < SumEpsilon /\ SumEpsilon < Fine
  BY Numbers
<1>2. -Infinity <= answer.dual /\ answer.dual <= Infinity
  BY TrueReference
<1>3. ~ (Checks!Abs(answer.dual) > Infinity)
  BY <1>1, <1>2 DEF Checks!Abs
<1>4. CASE reference.status = "unknown"
  BY <1>3, <1>4 DEF Checks!CheckDualBound
<1>5. CASE reference.status # "unknown"
  <2>1. Checks!Cost(answer.dual) <= Checks!Cost(value) /\ value \in Int
    BY <1>5, TrueReference, ValueType
  <2>2. CASE problem.minimize
    <3>1. answer.dual <= value
      BY <2>1, <2>2 DEF Checks!Cost
    <3>2. ~ Checks!Above(answer.dual, value, SumEpsilon)
      BY <1>1, <1>2, <2>1, <3>1, RightSide
    <3> QED BY <1>3, <2>2, <3>2 DEF Checks!CheckDualBound
  <2>3. CASE ~ problem.minimize
    <3>1. answer.dual >= value
      BY <2>1, <2>3 DEF Checks!Cost
    <3>2. ~ Checks!Below(answer.dual, value, SumEpsilon)
      BY <1>1, <1>2, <2>1, <3>1, RightSide
    <3> QED BY <1>3, <2>3, <3>2 DEF Checks!CheckDualBound
  <2> QED BY <2>2, <2>3
<1> QED BY <1>4, <1>5

(* The points and the ray:                                                 *)
LEMMA FeasiblePasses ==
  ASSUME Checks!InputInv, NEW x \in Points, Checks!Feasible(problem, x)
  PROVE  ~ Checks!PointFails(problem, x, SumEpsilon)
<1>1. /\ Infinity \in Int /\ SumEpsilon \in Nat /\ 0 < SumEpsilon /\ SumEpsilon < Fine
      /\ Unit \in Nat /\ Fine \in Nat /\ Unit * SumEpsilon \in Int /\ 0 <= Unit * SumEpsilon
  BY Numbers
<1>2. Checks!IsProblem(problem)
  BY InstanceTypes
<1>3. ASSUME NEW c \in Checks!Unfixed(problem)
      PROVE  ~ Checks!OutsideDomain(problem.cols[c], x[c], SumEpsilon)
  <2> DEFINE col == problem.cols[c]
  <2>1. c \in DOMAIN problem.cols
    BY DEF Checks!Unfixed
  <2>2. /\ x[c] \in Int /\ -Infinity <= x[c] /\ x[c] <= Infinity
    BY <2>1, InstanceTypes
  <2>3. col.lb \in Int /\ col.ub \in Int
    BY <1>2, <2>1 DEF Checks!IsProblem
  <2>4. /\ "LbInf" \notin col.flags => x[c] >= col.lb
        /\ "UbInf" \notin col.flags => x[c] <= col.ub
        /\ "Integral" \in col.flags => Checks!Fraction(x[c]) = 0
    BY DEF Checks!Feasible
  <2> HIDE DEF col
  <2>5. ~ Checks!Below(x[c], IF "LbInf" \in col.flags THEN -Infinity ELSE col.lb, SumEpsilon)
    <3> DEFINE bound == IF "LbInf" \in col.flags THEN -Infinity ELSE col.lb
    <3>1. bound \in Int /\ x[c] >= bound
      BY <1>1, <2>2, <2>3, <2>4
    <3> HIDE DEF bound
    <3>2. ~ Checks!Below(x[c], bound, SumEpsilon)
      BY <1>1, <2>2, <3>1, RightSide
    <3> QED BY <3>2 DEF bound
  <2>6. ~ Checks!Above(x[c], IF "UbInf" \in col.flags THEN Infinity ELSE col.ub, SumEpsilon)
    <3> DEFINE bound == IF "UbInf" \in col.flags THEN Infinity ELSE col.ub
    <3>1. bound \in Int /\ x[c] <= bound
      BY <1>1, <2>2, <2>3, <2>4
    <3> HIDE DEF bound
    <3>2. ~ Checks!Above(x[c], bound, SumEpsilon)
      BY <1>1, <2>2, <3>1, RightSide
    <3> QED BY <3>2 DEF bound
  <2>7. ASSUME "Integral" \in col.flags
        PROVE  ~ (Checks!Scaled(Checks!Fraction(x[c])) > Unit * SumEpsilon)
    <3>1. Checks!Scaled(Checks!Fraction(x[c])) = 0
      BY <1>1, <2>4, <2>7 DEF Checks!Scaled
    <3> QED BY <1>1, <3>1
  <2> QED BY <2>5, <2>6, <2>7 DEF Checks!OutsideDomain, col
<1>4. ASSUME NEW r \in Checks!Effective(problem)
      PROVE  ~ Checks!OutsideRange(problem.rows[r],
                                   Checks!PrimalActivity(problem.rows[r], x), SumEpsilon)
  <2> DEFINE row == problem.rows[r]
             activity == Checks!PrimalActivity(row, x)
  <2>1. r \in DOMAIN problem.rows
    BY DEF Checks!Effective
  <2>2. activity \in Int
    BY <2>1, PointSums
  <2>3. /\ row.lhs \in Int /\ row.rhs \in Int /\ -Infinity <= row.lhs /\ row.rhs <= Infinity
    BY <1>1, <1>2, <2>1 DEF Checks!IsProblem
  <2>4. /\ "LhsInf" \notin row.flags => activity >= row.lhs
        /\ "RhsInf" \notin row.flags => activity <= row.rhs
    BY DEF Checks!Feasible
  <2> HIDE DEF row, activity
  <2>5. ASSUME "LhsInf" \notin row.flags  PROVE ~ Checks!Below(activity, row.lhs, SumEpsilon)
    <3>1. activity >= row.lhs /\ activity >= -Infinity
      BY <1>1, <2>2, <2>3, <2>4, <2>5
    <3> QED BY <1>1, <2>2, <2>3, <3>1, RightSide
  <2>6. ASSUME "RhsInf" \notin row.flags  PROVE ~ Checks!Above(activity, row.rhs, SumEpsilon)
    <3>1. activity <= row.rhs /\ activity <= Infinity
      BY <1>1, <2>2, <2>3, <2>4, <2>6
    <3> QED BY <1>1, <2>2, <2>3, <3>1, RightSide
  <2> QED BY <2>5, <2>6 DEF Checks!OutsideRange, row, activity
<1> QED BY <1>3, <1>4 DEF Checks!PointFails

(* A ray that stays within what is finite does so with a tolerance.        *)
LEMMA RayPasses ==
  ASSUME Checks!InputInv, NEW d \in Rays, ~ Checks!RayFails(problem, d, 0)
  PROVE  ~ Checks!RayFails(problem, d, SumEpsilon)
<1> DEFINE scale == Checks!RayScale(problem, d, SumEpsilon)
           none == Checks!RayScale(problem, d, 0)
<1>1. Checks!IsProblem(problem) /\ \A c \in DOMAIN problem.cols : d[c] \in Int
  BY InstanceTypes
<1>2. scale \in Int /\ 0 <= scale /\ none = 0
  <2>1. scale \in Int /\ 0 <= scale
    BY <1>1, Numbers, RayScaleType
  <2>2. none = 0
    BY <1>1, RayScaleType
  <2> QED BY <2>1, <2>2
<1> HIDE DEF scale, none
<1>3. ASSUME NEW flags, NEW lower, NEW upper, NEW v \in Int,
             ~ Checks!Escapes(flags, lower, upper, v, none)
      PROVE  ~ Checks!Escapes(flags, lower, upper, v, scale)
  <2>1. Checks!Scaled(v) \in Int
    BY ScaledOrder
  <2> QED BY <1>2, <1>3, <2>1 DEF Checks!Escapes
<1>4. ASSUME NEW c \in Checks!Unfixed(problem)
      PROVE  ~ Checks!Escapes(problem.cols[c].flags, "LbInf", "UbInf", d[c], scale)
  <2>1. ~ Checks!Escapes(problem.cols[c].flags, "LbInf", "UbInf", d[c], none)
    BY DEF Checks!RayFails, none
  <2>2. d[c] \in Int
    BY <1>1 DEF Checks!Unfixed
  <2> QED BY <1>3, <2>1, <2>2
<1>5. ASSUME NEW r \in Checks!Effective(problem)
      PROVE  ~ Checks!Escapes(problem.rows[r].flags, "LhsInf", "RhsInf",
                              Checks!RayActivity(problem.rows[r], d), scale)
  <2>1. ~ Checks!Escapes(problem.rows[r].flags, "LhsInf", "RhsInf",
                         Checks!RayActivity(problem.rows[r], d), none)
    BY DEF Checks!RayFails, none
  <2>2. Checks!RayActivity(problem.rows[r], d) \in Int
    BY PointSums DEF Checks!Effective
  <2> QED BY <1>3, <2>1, <2>2
<1> QED BY <1>4, <1>5 DEF Checks!RayFails, scale

(* The primal bound, as CheckObjective takes it.                           *)
LEMMA EqualPasses ==
  ASSUME NEW p, p.minimize \in BOOLEAN, NEW s, NEW v \in Int,
         -Infinity <= v, v <= Infinity, s.status # "unknown", Checks!Worth(p, s) = v
  PROVE  Checks!CheckObjectiveValue(p, v, s, SumEpsilon) = Checks!OKAY
<1>1. /\ Infinity \in Int /\ SumEpsilon \in Nat /\ 0 < SumEpsilon /\ SumEpsilon < Fine
  BY Numbers
<1>2. ~ (Checks!Abs(v) > Infinity)
  BY <1>1 DEF Checks!Abs
<1>3. ~ Checks!Below(v, v, SumEpsilon) /\ ~ Checks!Above(v, v, SumEpsilon)
  BY <1>1, RightSide
<1> QED BY <1>2, <1>3 DEF Checks!CheckObjectiveValue

(* At the objective limit nothing better was found: no solution is needed. *)
LEMMA LimitIsLimit ==
  ASSUME Checks!InputInv, Checks!Limiting, value \in Int,
         answer.primal = Checks!ObjLimit(problem, value)
  PROVE  Checks!AtObjLimit
<1>1. /\ Infinity \in Int /\ -Infinity \in Int /\ -Infinity < Infinity
      /\ Epsilon \in Nat /\ 0 < Epsilon /\ Epsilon < Fine /\ NaN \notin Int
  BY Numbers
<1>2. problem.minimize \in BOOLEAN /\ cutoff \in Int
  BY InstanceTypes
<1> DEFINE limit == value + (IF problem.minimize THEN cutoff ELSE -cutoff)
           m == Checks!Min({limit, Infinity})
<1>3. limit \in Int
  BY <1>2
<1> HIDE DEF limit
<1>4. m = IF limit <= Infinity THEN limit ELSE Infinity
  <2>1. CASE limit <= Infinity
    <3>1. limit \in {limit, Infinity} /\ \A y \in {limit, Infinity} : limit <= y
      BY <1>3, <2>1
    <3>2. m \in {limit, Infinity} /\ \A y \in {limit, Infinity} : m <= y
      BY <3>1 DEF Checks!Min
    <3> QED BY <1>1, <1>3, <2>1, <3>2
  <2>2. CASE ~ (limit <= Infinity)
    <3>1. \A y \in {limit, Infinity} : Infinity <= y
      BY <1>1, <1>3, <2>2
    <3>2. m \in {limit, Infinity} /\ \A y \in {limit, Infinity} : m <= y
      BY <3>1 DEF Checks!Min
    <3> QED BY <1>1, <1>3, <2>2, <3>2
  <2> QED BY <2>1, <2>2
<1> HIDE DEF m
<1>5. m \in Int
  BY <1>1, <1>3, <1>4
<1> DEFINE M == Checks!Max({m, -Infinity})
<1>6. M = IF m >= -Infinity THEN m ELSE -Infinity
  <2>1. CASE m >= -Infinity
    <3>1. \A y \in {m, -Infinity} : m >= y
      BY <1>1, <1>5, <2>1
    <3>2. M \in {m, -Infinity} /\ \A y \in {m, -Infinity} : M >= y
      BY <3>1 DEF Checks!Max
    <3> QED BY <1>1, <1>5, <2>1, <3>2
  <2>2. CASE ~ (m >= -Infinity)
    <3>1. \A y \in {m, -Infinity} : -Infinity >= y
      BY <1>1, <1>5, <2>2
    <3>2. M \in {m, -Infinity} /\ \A y \in {m, -Infinity} : M >= y
      BY <3>1 DEF Checks!Max
    <3> QED BY <1>1, <1>5, <2>2, <3>2
  <2> QED BY <2>1, <2>2
<1>7. answer.primal = M
  BY DEF Checks!ObjLimit, limit, m
<1> HIDE DEF M
<1>8. answer.primal = IF limit > Infinity THEN Infinity
                      ELSE IF limit < -Infinity THEN -Infinity ELSE limit
  BY <1>1, <1>3, <1>4, <1>6, <1>7
<1>9. ~ Checks!Below(answer.primal, limit, Epsilon) /\ ~ Checks!Above(answer.primal, limit, Epsilon)
  <2>1. CASE limit > Infinity
    <3>1. answer.primal = Infinity
      BY <1>8, <2>1
    <3>2. ~ (limit <= -Infinity) /\ limit >= Infinity
      BY <1>1, <1>3, <2>1
    <3>3. Checks!Scaled(Infinity) \in Int
      BY <1>1, ScaledOrder
    <3> QED BY <3>1, <3>2, <3>3 DEF Checks!Below, Checks!Above, Checks!Relax
  <2>2. CASE limit < -Infinity
    <3>1. answer.primal = -Infinity
      BY <1>1, <1>3, <1>8, <2>2
    <3>2. limit <= -Infinity
      BY <1>1, <1>3, <2>2
    <3>3. Checks!Scaled(-Infinity) \in Int
      BY <1>1, ScaledOrder
    <3> QED BY <3>1, <3>2, <3>3 DEF Checks!Below, Checks!Above, Checks!Relax
  <2>3. CASE ~ (limit > Infinity) /\ ~ (limit < -Infinity)
    <3>1. answer.primal = limit /\ -Infinity <= limit /\ limit <= Infinity
      BY <1>1, <1>3, <1>8, <2>3
    <3> QED BY <1>1, <1>3, <3>1, RightSide
  <2> QED BY <2>1, <2>2, <2>3
<1>10. problem.minimize => limit = value + cutoff
  BY DEF limit
<1>11. ~ problem.minimize => limit = value - cutoff
  BY <1>2 DEF limit
<1>12. value # NaN
  BY <1>1
<1> QED BY <1>9, <1>10, <1>11, <1>12 DEF Checks!AtObjLimit

(* The true objective is accepted.                                         *)
LEMMA TrueObjectivePasses ==
  ASSUME Judged, Checks!TruthfulOptimization, Checks!AfterDual = Checks!OKAY,
         Checks!OBJECTIVEFAIL \notin passcodes
  PROVE  Checks!CheckObjectiveValue(problem, Checks!PrimalBound, Checks!Best, SumEpsilon)
           = Checks!OKAY
<1> DEFINE found == Checks!PrimalObjective(problem, answer.sols[1])
           worst == IF problem.minimize THEN Infinity ELSE -Infinity
<1>1. /\ Checks!InputInv /\ step # "setup"
      /\ solution = [i \in 1..Checks!TranslatedNumber |-> Checks!Translate(i)]
  BY JudgedFacts
<1>2. /\ answer.primal \in Int /\ Len(answer.sols) \in Nat
      /\ \A i \in 1..Len(answer.sols) : answer.sols[i] \in Points
      /\ answer.sols = <<>> <=> Len(answer.sols) = 0
  BY JudgedFacts, OptimizationTypes
<1>3. /\ Checks!TranslatedNumber \in Nat /\ Checks!TranslatedNumber <= Len(answer.sols)
      /\ Len(answer.sols) # 0 => Checks!TranslatedNumber # 0
  BY <1>2, TranslatedRange
<1>4. problem.minimize \in BOOLEAN
  BY <1>1, InstanceTypes
<1>5. Infinity \in Int /\ Infinity > 0
  BY Numbers
<1>6. ASSUME answer.sols # <<>>
      PROVE  /\ found \in Int /\ -Infinity <= found /\ found <= Infinity
             /\ solution # <<>> /\ Checks!Best = Checks!Translate(1)
             /\ solution[1] = Checks!Translate(1)
  <2>1. 1 \in 1..Len(answer.sols)
    BY <1>2, <1>6
  <2>2. found \in -Infinity..Infinity
    BY <2>1 DEF Checks!TruthfulOptimization
  <2>3. 1 \in 1..Checks!TranslatedNumber
    BY <1>2, <1>3, <1>6
  <2>4. solution # <<>> /\ solution[1] = Checks!Translate(1)
    <3>1. DOMAIN solution # {}
      BY <1>1, <2>3
    <3>2. DOMAIN <<>> = {}
      OBVIOUS
    <3>3. solution # <<>>
      BY <3>1, <3>2
    <3> QED BY <1>1, <2>3, <3>3
  <2> QED BY <1>5, <2>2, <2>4 DEF Checks!Best
<1>7. CASE answer.ray # Checks!Rayless
  <2>1. /\ answer.sols # <<>> /\ Checks!Cost(answer.primal) = -Infinity
        /\ Checks!Improving(problem, [ray |-> answer.ray], SumEpsilon)
    BY <1>7 DEF Checks!TruthfulOptimization
  <2>2. Checks!Best = [status |-> "unbounded", primal |-> answer.sols[1], ray |-> answer.ray]
    BY <1>6, <1>7, <2>1 DEF Checks!Translate
  <2>3. Checks!Improving(problem, Checks!Best, SumEpsilon)
    BY <2>1, <2>2 DEF Checks!Improving
  <2>4. Checks!PrimalBound \in Int /\ ~ (Checks!Abs(Checks!PrimalBound) > Infinity)
    <3>1. solution[1].status # "feasible" /\ solution # <<>>
      BY <1>6, <2>1, <2>2
    <3>2. Checks!PrimalBound \in {found, answer.primal}
      BY <3>1 DEF Checks!PrimalBound
    <3>3. answer.primal \in {Infinity, -Infinity}
      BY <1>2, <1>5, <2>1 DEF Checks!Cost
    <3> HIDE DEF found
    <3> QED BY <1>5, <1>6, <2>1, <3>2, <3>3 DEF Checks!Abs
  <2> QED BY <2>2, <2>3, <2>4 DEF Checks!CheckObjectiveValue
<1>8. CASE answer.ray = Checks!Rayless /\ answer.sols # <<>>
  <2>1. answer.primal = found
    BY <1>8 DEF Checks!TruthfulOptimization
  <2>2. Checks!Best = [status |-> "feasible", primal |-> answer.sols[1]]
    BY <1>6, <1>8 DEF Checks!Translate
  <2>3. Checks!PrimalBound = found
    BY <1>6, <1>8, <2>1 DEF Checks!PrimalBound
  <2>4. Checks!Worth(problem, Checks!Best) = found /\ Checks!Best.status # "unknown"
    BY <2>2 DEF Checks!Worth
  <2> QED BY <1>4, <1>6, <1>8, <2>3, <2>4, EqualPasses
<1>9. CASE answer.ray = Checks!Rayless /\ answer.sols = <<>>
  <2>1. solution = <<>>
    BY <1>1, <1>2, <1>3, <1>9, EmptyTranslation
  <2>2. /\ Checks!Best.status # "unknown" /\ Checks!Worth(problem, Checks!Best) = worst
    BY <2>1 DEF Checks!Best, Checks!Worth
  <2>3. worst \in Int /\ -Infinity <= worst /\ worst <= Infinity
    BY <1>4, <1>5
  <2>4. Checks!PrimalBound = worst
    <3>1. CASE Checks!AtObjLimit
      BY <2>1, <3>1 DEF Checks!PrimalBound
    <3>2. CASE ~ Checks!AtObjLimit
      <4>1. Checks!PrimalBound = answer.primal
        BY <2>1, <3>2 DEF Checks!PrimalBound
      <4>2. CASE Checks!Cost(answer.primal) = Infinity
        <5>1. answer.primal = worst
          BY <1>2, <1>4, <1>5, <4>2 DEF Checks!Cost
        <5> QED BY <4>1, <5>1
      <4>3. CASE ~ (Checks!Cost(answer.primal) = Infinity)
        <5>1. /\ Checks!Limiting /\ reference.status = "feasible"
              /\ answer.primal = Checks!ObjLimit(problem, value)
          BY <1>9, <4>3 DEF Checks!TruthfulOptimization
        <5>2. value \in Int
          BY <1>1, <5>1, ValueType
        <5> QED BY <1>1, <3>2, <5>1, <5>2, LimitIsLimit
      <4> QED BY <4>2, <4>3
    <3> QED BY <3>1, <3>2
  <2> HIDE DEF worst
  <2> QED BY <1>4, <2>2, <2>3, <2>4, EqualPasses
<1> QED BY <1>7, <1>8, <1>9

(* True solutions and rays are accepted.                                   *)
LEMMA TrueSolutionsPass ==
  ASSUME Judged, Checks!TruthfulOptimization, Checks!AfterDual = Checks!OKAY
  PROVE  Checks!AfterPrimal = Checks!OKAY
<1>1. CASE Checks!PRIMALFAIL \in passcodes
  BY <1>1 DEF Checks!AfterPrimal
<1>2. CASE Checks!PRIMALFAIL \notin passcodes
  <2>1. ASSUME NEW i \in 1..Len(answer.sols)
        PROVE  ~ Checks!SolutionFails(problem, Checks!Translate(i), SumEpsilon)
    <3>1. /\ answer.sols[i] \in Points /\ Checks!InputInv
          /\ answer.ray # Checks!Rayless => answer.ray \in Rays
      BY JudgedFacts, OptimizationTypes
    <3>2. ~ Checks!PointFails(problem, answer.sols[i], SumEpsilon)
      BY <3>1, FeasiblePasses DEF Checks!TruthfulOptimization
    <3>3. CASE i = 1 /\ answer.ray # Checks!Rayless
      <4>1. Checks!Translate(i) =
              [status |-> "unbounded", primal |-> answer.sols[i], ray |-> answer.ray]
        BY <3>3 DEF Checks!Translate
      <4>2. ~ Checks!RayFails(problem, answer.ray, SumEpsilon)
        BY <3>1, <3>3, RayPasses DEF Checks!TruthfulOptimization
      <4> QED BY <3>2, <4>1, <4>2 DEF Checks!SolutionFails
    <3>4. CASE ~ (i = 1 /\ answer.ray # Checks!Rayless)
      <4>1. Checks!Translate(i) = [status |-> "feasible", primal |-> answer.sols[i]]
        BY <3>4 DEF Checks!Translate
      <4> QED BY <3>2, <4>1 DEF Checks!SolutionFails
    <3> QED BY <3>3, <3>4
  <2>2. Checks!CheckPrimalSolution(problem, Checks!Everything, SumEpsilon) = Checks!OKAY
    BY <2>1 DEF Checks!Everything, Checks!CheckPrimalSolution
  <2> QED BY <1>2, <2>2, FullTranslation DEF Checks!AfterPrimal
<1> QED BY <1>1, <1>2

(* An optimization that is true throughout is no bug.                      *)
LEMMA TrueOptimizationPasses ==
  ASSUME Judged, Checks!TruthfulReference, Checks!TruthfulOptimization
  PROVE  retcode = Checks!OKAY
<1>1. Checks!AfterDual = Checks!OKAY
  <2>1. answer.dual \in Int /\ Checks!InputInv /\ step # "setup"
    BY JudgedFacts, OptimizationTypes
  <2>2. Checks!TruthfulDual
    BY DEF Checks!TruthfulOptimization
  <2> QED BY <2>1, <2>2, TrueDualPasses DEF Checks!AfterDual
<1>2. Checks!AfterPrimal = Checks!OKAY
  BY <1>1, TrueSolutionsPass
<1>3. Checks!AfterObjective = Checks!OKAY
  BY <1>1, <1>2, TrueObjectivePasses DEF Checks!AfterObjective
<1>4. Checks!AfterCertificate = Checks!OKAY
  BY <1>3 DEF Checks!AfterCertificate, Checks!TruthfulOptimization
<1> QED BY <1>4, JudgedFacts

(* A true count is no bug.                                                 *)
LEMMA TrueCountingPasses ==
  ASSUME Checks!InputInv, step # "setup", Checks!TruthfulReference, Checks!TruthfulCounting,
         answer \in Checks!Countings
  PROVE  Checks!CheckCountNumber(problem, reference, value, answer.dual, answer.primal,
                                 answer.count) = Checks!OKAY
<1>1. answer.dual \in Int /\ answer.primal \in Int /\ answer.count \in Int
  BY SolverAssumption DEF Checks!Countings, Checks!ScipAssumption
<1>2. /\ Checks!TruthfulDual /\ Checks!Cost(answer.primal) = Infinity
      /\ Checks!FeasiblePoints = {} => answer.count = 0
      /\ answer.count >= -1
  BY DEF Checks!TruthfulCounting
<1>3. Infinity \in Int /\ Infinity > 0
  BY Numbers
<1>4. /\ -Infinity <= answer.dual /\ answer.dual <= Infinity
      /\ reference.status # "unknown" => Checks!Cost(answer.dual) <= Checks!Cost(value)
  BY <1>1, <1>2, TrueReference
<1>5. ~ (Checks!Abs(answer.dual) > Infinity)
  BY <1>1, <1>3, <1>4 DEF Checks!Abs
<1>6. (IF problem.minimize THEN answer.primal ELSE -answer.primal) = Infinity
  BY <1>2 DEF Checks!Cost
<1>7. ~ (answer.count < -1)
  BY <1>1, <1>2
<1>8. reference.status = "infeasible" => answer.count = 0
  BY <1>2 DEF Checks!TruthfulReference
<1>9. ASSUME reference.status # "unknown", Checks!Abs(value) < Infinity
      PROVE  (IF problem.minimize THEN answer.dual ELSE -answer.dual) # Infinity
  <2>1. value \in Int
    BY <1>9, ValueType
  <2>2. Checks!Cost(value) < Infinity /\ Checks!Cost(value) \in Int
    BY <1>3, <1>9, <2>1 DEF Checks!Abs, Checks!Cost
  <2>3. Checks!Cost(answer.dual) \in Int /\ Checks!Cost(answer.dual) # Infinity
    <3>1. Checks!Cost(answer.dual) \in Int
      BY <1>1 DEF Checks!Cost
    <3> QED BY <1>3, <1>4, <1>9, <2>2, <3>1
  <2> QED BY <2>3 DEF Checks!Cost
<1> QED BY <1>5, <1>6, <1>7, <1>8, <1>9 DEF Checks!CheckCountNumber

(* Whatever is true is no bug.                                             *)
LEMMA ChecksNoFalseAlarm ==
  Checks!IInv => Checks!NoFalseAlarm
<1> SUFFICES ASSUME Checks!IInv, step = "done", Checks!Truthful
             PROVE  retcode = Checks!OKAY
  BY DEF Checks!NoFalseAlarm
<1>1. /\ Checks!InputInv /\ solvemode \in {-1, 0}
      /\ answer.code = Checks!SCIP_OKAY /\ Checks!TruthfulReference
  BY DEF Checks!IInv, Checks!InputInv, Checks!Truthful
<1>2. CASE solvemode = -1
  BY <1>1, <1>2, TrueOptimizationPasses DEF Judged, Checks!Truthful
<1>3. CASE solvemode = 0
  <2>1. answer \in Checks!Countings
    BY <1>1, <1>3, AnswerCodes DEF Checks!IInv, Checks!AnswerInv
  <2>2. Checks!TruthfulCounting
    BY <1>3 DEF Checks!Truthful
  <2>3. Checks!Verdict = Checks!OKAY
    BY <1>1, <1>3, <2>1, <2>2, TrueCountingPasses DEF Checks!Verdict
  <2> QED BY <2>3 DEF Checks!IInv, Checks!CodeInv
<1> QED BY <1>1, <1>2, <1>3

-------------------------------------------------------------------------------
ChecksPart == component = "checks" => Checks!IInv

(* The part of the checks keeps its invariant.                             *)
LEMMA ChecksPartInv ==
  SolverSpec => []ChecksPart
<1>1. SolverInit => ChecksPart
  BY ChecksInit DEF SolverInit, ChecksPart
<1>2. ChecksPart /\ [SolverNext]_<<component, vars, shared, soplexOnly, checksOnly>>
        => ChecksPart'
  <2> SUFFICES ASSUME ChecksPart,
                      [SolverNext]_<<component, vars, shared, soplexOnly, checksOnly>>,
                      component' = "checks"
               PROVE  Checks!IInv'
    BY DEF ChecksPart
  <2>1. component = "checks" /\ [Checks!Next]_(Checks!vars)
    <3>1. UNCHANGED <<shared, checksOnly>> => UNCHANGED Checks!vars
      BY DEF shared, checksOnly, Checks!vars, Checks!inputs, Checks!options
    <3> QED BY <3>1 DEF SolverNext, LimitsStep, SoplexStep, ChecksStep
  <2> QED BY <2>1, ChecksStepInv DEF ChecksPart
<1> QED BY <1>1, <1>2, PTL DEF SolverSpec

(***************************************************************************)
(* SolverInterface.hpp 190-397: bounds, solutions, rays and counts that    *)
(* are true are not taken for a bug, whatever the problem, the tolerances, *)
(* the objective limit and the checks that are disabled.                   *)
(***************************************************************************)
THEOREM NeverFalseAlarm ==
  SolverSpec => []NoFalseAlarm
<1>1. Checks!IInv => Checks!TypeOK
  <2> SUFFICES ASSUME Checks!IInv  PROVE Checks!TypeOK
    OBVIOUS
  <2>1. /\ solvemode \in {-1, 0} /\ certificate \in BOOLEAN
        /\ cutoff \in Cutoffs /\ passcodes \in PasscodeSets
    BY DEF Checks!IInv, Checks!InputInv
  <2>2. {Checks!AfterDual, Checks!AfterPrimal, Checks!AfterObjective, Checks!AfterCertificate}
          \subseteq 0..5
    BY CheckCodes
  <2>3. Checks!Verdict \in 0..5 \cup {e - 1 : e \in ScipErrors} \/ step \notin {"passcodes", "done"}
    <3>1. CASE answer.code = Checks!SCIP_OKAY
      <4>1. Checks!CheckCountNumber(problem, reference, value, answer.dual, answer.primal,
                                    answer.count) \in 0..5
        BY CheckCodes DEF Checks!CheckCountNumber
      <4> QED BY <2>2, <3>1, <4>1 DEF Checks!Verdict
    <3>2. CASE answer.code # Checks!SCIP_OKAY
      BY <3>2, AnswerCodes DEF Checks!IInv, Checks!AnswerInv, Checks!Verdict
    <3> QED BY <3>1, <3>2
  <2>4. retcode \in 0..5 \cup {e - 1 : e \in ScipErrors}
    <3>1. Checks!OKAY \in 0..5
      BY CheckCodes
    <3> QED BY <2>2, <2>3, <3>1 DEF Checks!IInv, Checks!CodeInv
  <2> QED BY <2>1, <2>4 DEF Checks!IInv, Checks!CodeInv, Checks!TypeOK
<1>2. ChecksPart => NoFalseAlarm
  BY <1>1, ChecksNoFalseAlarm DEF ChecksPart, NoFalseAlarm
<1> QED BY <1>2, ChecksPartInv, PTL

(***************************************************************************)
(* SolverInterface.hpp 190-397, ScipRealInterface.hpp solve(): the code is *)
(* the one of the first enabled check that the answer contradicts, and a   *)
(* passcode hides nothing but its own code.                                *)
(***************************************************************************)
THEOREM PasscodesAlwaysApart ==
  SolverSpec => []PasscodesSilenceTheirOwn
<1>1. ChecksPart => PasscodesSilenceTheirOwn
  BY ChecksPasscodes DEF ChecksPart, PasscodesSilenceTheirOwn
<1> QED BY <1>1, ChecksPartInv, PTL

(***************************************************************************)
(* SolverInterface.hpp relax(), ScipRealInterface.hpp 148: an unjustified  *)
(* primal bound, a dual bound or point off by 1 or more, a solve cut off   *)
(* by the dual limit and a failure of SCIP are reported as what they are.  *)
(***************************************************************************)
THEOREM ErrorsAlwaysReported ==
  SolverSpec => []ErrorsReported
<1>1. ChecksPart => ErrorsReported
  BY ChecksUnjustified, ChecksGross, ChecksApart, ChecksDualLimit
     DEF ChecksPart, ErrorsReported
<1> QED BY <1>1, ChecksPartInv, PTL
===============================================================================
