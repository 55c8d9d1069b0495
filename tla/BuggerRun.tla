------------------------------ MODULE BuggerRun -------------------------------
(***************************************************************************)
(* The main loop of MIP-DD: BuggerRun<REAL>::apply from the original solve *)
(* to the closing assertion, with the parameters as main() hands them      *)
(* over.  A call of a modifier is one step whose outcome is left open: it  *)
(* does not run, finds nothing to try, fails, or shrinks the instance.     *)
(* Bugger.tla replaces that step by the solver calls of the modifier.      *)
(*                                                                         *)
(* The instance (settings, problem, reference solution) is represented by  *)
(* size, the number of reductions the modifiers could still apply, and by  *)
(* limit, the tightest automatic solver limit, which a solve that exposes  *)
(* the bug may lower.  tried is a history variable: the modifiers that ran *)
(* without success on the current instance.                                *)
(***************************************************************************)
EXTENDS Integers

CONSTANTS
  NModifiers,     \* number of modifiers main() creates
  MaxSize,        \* bound on the reductions possible in the input
  MaxLimit,       \* bound on the initial solver limit
  IntMax,         \* INT_MAX, no round limit
  LLMax,          \* LLONG_MAX, the largest expenditure
  Efforts,        \* efforts a solver can report; -1 is "unknown"
  BatchNumbers,   \* values of parameter nbatches
  Expenditures,   \* values of parameter expenditure
  RoundLimits,    \* values of parameters maxrounds and initround
  StageLimits     \* values of parameters maxstages and initstage

ASSUME SizesAssumption ==
  /\ NModifiers \in Nat \ {0}
  /\ MaxSize \in Nat
  /\ MaxLimit \in Nat \ {0}
  /\ IntMax \in Nat \ {0}
  /\ LLMax \in Nat \ {0}

ASSUME ParametersAssumption ==
  /\ Efforts \subseteq -1..LLMax
  /\ BatchNumbers \subseteq 0..LLMax
  /\ Expenditures \subseteq -1..LLMax
  /\ RoundLimits \subseteq -1..IntMax
  /\ StageLimits \subseteq Int

Modifier == 0..(NModifiers - 1)

(* ModifierStatus *)
kDidNotRun     == 0
kNotAdmissible == 1
kUnsuccesful   == 2
kSuccessful    == 3
ModifierStatus == kDidNotRun..kSuccessful

(* Solver return codes up to their sign: negative, OKAY, positive. *)
Retcode == {"ERROR", "OKAY", "FAIL"}

VARIABLES
  phase,          \* "original", "round", "modify", "done" or "stopped"
  mode, initround, initstage, maxrounds, maxstages,   \* BuggerParameters
  expenditure, nbatches,                              \* those apply() changes
  enabled,        \* the modifiers that are enabled
  round, stage, success, modifier,                    \* loop variables
  results,        \* last status of every modifier
  last_result, last_effort, last_round, last_modifier,
  size, limit,    \* the current instance
  written,        \* the instance last written; <<>> before the first
  expired,        \* the time limit is exceeded
  tried           \* modifiers that failed on the current instance

parameters == <<mode, initround, initstage, maxrounds, maxstages, enabled>>
loopvars   == <<round, stage, success, modifier, results>>
lastvars   == <<last_result, last_effort, last_round, last_modifier>>
instance   == <<size, limit>>
vars == <<phase, parameters, expenditure, nbatches, loopvars, lastvars,
          instance, written, expired, tried>>

-------------------------------------------------------------------------------
(***************************************************************************)
(* main() replaces the negative and the oversized limits.                  *)
(***************************************************************************)
MaxOf(a, b) == IF a >= b THEN a ELSE b

EffectiveMaxRounds(max) == IF max < 0 THEN IntMax ELSE max
EffectiveMaxStages(max) == IF max < 0 \/ max > NModifiers THEN NModifiers ELSE max
EffectiveStart(init, max) ==
  IF init < 0 \/ init >= max THEN MaxOf(max - 1, 0) ELSE init

Init ==
  /\ phase = "original"
  /\ mode \in {-1, 0, 1}
  /\ \E maxr, initr \in RoundLimits :
       /\ maxrounds = EffectiveMaxRounds(maxr)
       /\ initround = EffectiveStart(initr, maxrounds)
  /\ \E maxs, inits \in StageLimits :
       /\ maxstages = EffectiveMaxStages(maxs)
       /\ initstage = EffectiveStart(inits, maxstages)
  /\ expenditure \in Expenditures
  /\ nbatches \in BatchNumbers
  /\ enabled \in SUBSET Modifier
  /\ round = initround
  /\ stage = initstage
  /\ success = initstage
  /\ modifier = 0
  /\ results = [m \in Modifier |-> kDidNotRun]
  /\ last_result = "OKAY" /\ last_effort = -1
  /\ last_round = -1 /\ last_modifier = -1
  /\ size \in 0..MaxSize
  /\ limit = MaxLimit
  /\ written = <<>>
  /\ expired = FALSE
  /\ tried = {}

-------------------------------------------------------------------------------
(***************************************************************************)
(* The product nbatches * last_effort is signed.  Without optimisation the *)
(* test that divides it again sees that it has wrapped; the compiler may   *)
(* assume that it does not and drop the test (gcc does from -O2 on, which  *)
(* the default build type has), so that the wrapped value stays.           *)
(***************************************************************************)
Wrapped(x) == ((x + LLMax + 1) % (2 * LLMax + 2)) - LLMax - 1

OriginalExpenditure(effort) ==
  IF nbatches <= 0 \/ effort <= 0 THEN {0}
  ELSE IF nbatches * effort <= LLMax THEN {nbatches * effort}
  ELSE {0, Wrapped(nbatches * effort)}

(* Mode 1 only reduces and leaves the original instance unsolved. *)
SolvesOriginal == mode # 1

SkipOriginal ==
  /\ phase = "original"
  /\ ~ SolvesOriginal
  /\ expenditure' = MaxOf(expenditure, 0)
  /\ phase' = "round"
  /\ UNCHANGED <<parameters, nbatches, loopvars, lastvars, instance, written,
                 expired, tried>>

(* Solve the original instance, which restricts the limits of the settings *)
(* in place when the bug shows; mode 0 ends the program here.              *)
SolveOriginal ==
  /\ phase = "original"
  /\ SolvesOriginal
  /\ \E code \in Retcode, effort \in Efforts, l \in 1..limit :
       /\ code = "OKAY" => l = limit
       /\ last_result' = code
       /\ last_effort' = effort
       /\ limit' = l
       /\ IF mode # 0 /\ expenditure < 0
            THEN expenditure' \in OriginalExpenditure(effort)
            ELSE UNCHANGED expenditure
  /\ phase' = IF mode = 0 THEN "stopped" ELSE "round"
  /\ UNCHANGED <<parameters, nbatches, loopvars, last_round, last_modifier,
                 size, written, expired, tried>>

-------------------------------------------------------------------------------
(* The expenditure is taken for known if it is not 0. *)
AdaptedBatches_Wrapped(effort) ==
  IF expenditure # 0 /\ effort >= 0
    THEN IF effort >= 1 THEN (expenditure - 1) \div effort + 1 ELSE 0
    ELSE nbatches

AdaptedBatches(effort) ==
  IF expenditure > 0 /\ effort >= 0
    THEN IF effort >= 1 THEN (expenditure - 1) \div effort + 1 ELSE 0
    ELSE nbatches

RoundLimitReached_Late == round > maxrounds \/ expired
RoundLimitReached == round >= maxrounds \/ expired

(* The instance is written even in the round that only breaks. *)
WrittenInstance_AfterBreak == IF RoundLimitReached THEN written ELSE instance
WrittenInstance == instance

(* Write the instance, then leave the loop or adapt the number of batches. *)
WriteInstance ==
  /\ phase = "round"
  /\ stage < maxstages
  /\ written' = WrittenInstance
  /\ IF RoundLimitReached
       THEN /\ phase' = "done"
            /\ UNCHANGED <<nbatches, modifier>>
       ELSE /\ phase' = "modify"
            /\ nbatches' = AdaptedBatches(last_effort)
            /\ modifier' = 0
  /\ UNCHANGED <<parameters, expenditure, round, stage, success, results,
                 lastvars, instance, expired, tried>>

(* The loop condition fails: every stage is exhausted. *)
LeaveLoop ==
  /\ phase = "round"
  /\ stage >= maxstages
  /\ phase' = "done"
  /\ UNCHANGED <<parameters, expenditure, nbatches, loopvars, lastvars,
                 instance, written, expired, tried>>

ModifierDue == phase = "modify" /\ modifier <= stage /\ stage < maxstages

(* Every run overwrites the status of its modifier. *)
Record(m, status) == [results EXCEPT ![m] = status]

(* The modifier that succeeded last is the one whose failure ends a stage. *)
EndsStage_Last(m) == m = stage
EndsStage(m) == success = m

(***************************************************************************)
(* What the loop does with the status of a run.  When the modifier that    *)
(* fails was the last to succeed the stage is exhausted, and the loop      *)
(* continues with the next modifier.                                       *)
(***************************************************************************)
Bookkeep(m, status) ==
  /\ results' = Record(m, status)
  /\ IF status = kSuccessful
       THEN /\ last_round' = round
            /\ last_modifier' = m
            /\ success' = m
            /\ modifier' = m + 1
            /\ UNCHANGED stage
       ELSE /\ IF EndsStage(m)
                 THEN /\ modifier' = stage + 1
                      /\ stage' = stage + 1
                      /\ success' = stage + 1
                 ELSE /\ modifier' = m + 1
                      /\ UNCHANGED <<stage, success>>
            /\ UNCHANGED <<last_round, last_modifier>>

(* The result and the known effort of the last solve that showed the bug. *)
TakeReport(code, effort) ==
  /\ last_effort' = IF effort >= 0 THEN effort ELSE last_effort
  /\ last_result' = code

(* The modifier shrinks the instance and reports its last failing solve, or *)
(* nothing when the solver returned an unknown status.                      *)
Succeed(m) ==
  /\ ModifierDue
  /\ m = modifier
  /\ m \in enabled
  /\ \E v \in 0..(size - 1), l \in 1..limit,
        effort \in Efforts \cup {-1}, code \in Retcode :
       /\ size' = v
       /\ limit' = l
       /\ TakeReport(code, effort)
  /\ Bookkeep(m, kSuccessful)
  /\ tried' = {}
  /\ UNCHANGED <<phase, parameters, expenditure, nbatches, round, written,
                 expired>>

(* The modifier leaves the instance alone. *)
FailModifier(m) ==
  /\ ModifierDue
  /\ m = modifier
  /\ \E status \in {kDidNotRun, kNotAdmissible, kUnsuccesful} :
       /\ (status = kDidNotRun) = (m \notin enabled)
       /\ Bookkeep(m, status)
  /\ tried' = tried \cup {m}
  /\ UNCHANGED <<phase, parameters, expenditure, nbatches, round, last_result,
                 last_effort, instance, written, expired>>

(* The inner loop is over; the outer one increments the round. *)
EndRound ==
  /\ phase = "modify"
  /\ ~ ModifierDue
  /\ phase' = "round"
  /\ round' = round + 1
  /\ UNCHANGED <<parameters, expenditure, nbatches, stage, success, modifier,
                 results, lastvars, instance, written, expired, tried>>

(* The clock passes the time limit. *)
Expire ==
  /\ ~ expired
  /\ phase \in {"round", "modify"}
  /\ expired' = TRUE
  /\ UNCHANGED <<phase, parameters, expenditure, nbatches, loopvars, lastvars,
                 instance, written, tried>>

Step ==
  \/ SkipOriginal
  \/ SolveOriginal
  \/ WriteInstance
  \/ LeaveLoop
  \/ \E m \in Modifier : Succeed(m) \/ FailModifier(m)
  \/ EndRound

Next == Step \/ Expire

(***************************************************************************)
(* apply() is sequential code that always takes its next step; the clock   *)
(* need not reach the time limit.                                          *)
(***************************************************************************)
Spec == Init /\ [][Next]_vars /\ WF_vars(Step)

-------------------------------------------------------------------------------
(* Types of all variables. *)
Instances == (0..MaxSize) \X (1..MaxLimit)

TypeOK ==
  /\ phase \in {"original", "round", "modify", "done", "stopped"}
  /\ mode \in {-1, 0, 1}
  /\ maxrounds \in Nat /\ initround \in Nat
  /\ maxstages \in 0..NModifiers /\ initstage \in Nat
  /\ enabled \subseteq Modifier
  /\ expenditure \in Int /\ nbatches \in Int
  /\ round \in Nat /\ stage \in Nat /\ success \in Nat /\ modifier \in Nat
  /\ results \in [Modifier -> ModifierStatus]
  /\ last_result \in Retcode /\ last_effort \in Int
  /\ last_round \in Nat \cup {-1} /\ last_modifier \in Modifier \cup {-1}
  /\ instance \in Instances
  /\ written \in Instances \cup {<<>>}
  /\ expired \in BOOLEAN
  /\ tried \subseteq Modifier

(***************************************************************************)
(* When every stage is exhausted (the condition of the outer loop fails),  *)
(* each modifier of those stages was run in vain on the very instance the  *)
(* program ends with: no success can hide between the last run of one      *)
(* modifier and the last run of another.                                   *)
(***************************************************************************)
FixpointAtExhaustion ==
  phase = "done" /\ stage >= maxstages => 0..(maxstages - 1) \subseteq tried

(***************************************************************************)
(* Whatever ends the loop - the stages, the round limit or the clock - the *)
(* files of the last round hold the final instance, the restricted limits  *)
(* of its settings included (the instance is written before the break).    *)
(***************************************************************************)
LastWrittenIsFinal ==
  phase = "done" /\ maxstages > 0 => written = instance

(***************************************************************************)
(* A round that is followed by another write has shrunk the instance: the  *)
(* program never writes the same problem twice.                            *)
(***************************************************************************)
RoundsShrink ==
  phase = "round" /\ stage < maxstages /\ written # <<>> => size < written[1]

(***************************************************************************)
(* Hence the number of rounds is bounded by the number of reductions, and  *)
(* the counter never passes its limit, which is INT_MAX when none is set.   *)
(***************************************************************************)
RoundsBounded ==
  /\ round - initround <= MaxSize + 1
  /\ round <= maxrounds

(***************************************************************************)
(* The assertion that closes apply(), for the runs that end because every  *)
(* stage is exhausted: no status of the last runs is kSuccessful.          *)
(***************************************************************************)
evaluateResults ==
  LET statuses == {kDidNotRun} \cup {results[m] : m \in 0..(maxstages - 1)}
  IN  CHOOSE s \in statuses : \A t \in statuses : t <= s

NoSuccessAtExhaustion ==
  phase = "done" /\ stage >= maxstages => evaluateResults # kSuccessful

(***************************************************************************)
(* The same assertion as the source states it, for every end of the loop.  *)
(***************************************************************************)
EndAssertion ==
  phase = "done" => expired \/ evaluateResults # kSuccessful

(***************************************************************************)
(* The assertions of printStats: the bookkeeping of the last success.      *)
(***************************************************************************)
StatsConsistent ==
  phase = "done" =>
    IF last_round = -1
      THEN /\ last_modifier = -1
           /\ mode = 1 => last_result = "OKAY" /\ last_effort = -1
      ELSE /\ last_modifier # -1
           /\ last_round <= round
           /\ last_modifier <= stage

(***************************************************************************)
(* What the parameter promises: a given expenditure stays, -1 stands for   *)
(* the effort of the original solve times the number of batches, and for   *)
(* no adaption if there is none.                                           *)
(***************************************************************************)
MeantExpenditure(effort) ==
  IF expenditure >= 0 THEN expenditure
  ELSE IF SolvesOriginal /\ nbatches > 0 /\ effort > 0 THEN nbatches * effort
  ELSE 0

(***************************************************************************)
(* The expenditure is the one that is meant whenever that is a long long,  *)
(* and when it is not, then at most what is left of it modulo 2^64; the    *)
(* number of batches is the smallest whose anticipated effort reaches the  *)
(* expenditure, and stays if none is meant.  A product that has wrapped to *)
(* a negative number does not lead to a negative number of batches: that   *)
(* many would divide the reductions into batches of the wrong sign.        *)
(***************************************************************************)
BatchBudget ==
  [][/\ phase = "original" /\ phase' = "round" =>
          LET meant == MeantExpenditure(last_effort')
          IN  IF meant <= LLMax THEN expenditure' = meant
              ELSE expenditure' # 0 => (meant - expenditure') % (2 * LLMax + 2) = 0
     /\ phase = "round" /\ phase' = "modify" =>
          /\ nbatches' \in 0..LLMax
          /\ IF expenditure > 0 /\ last_effort >= 1
               THEN /\ nbatches' * last_effort >= expenditure
                    /\ (nbatches' - 1) * last_effort < expenditure
               ELSE nbatches' = IF expenditure > 0 /\ last_effort = 0 THEN 0
                                ELSE nbatches]_vars

(***************************************************************************)
(* The description of the parameter ("-1: use original, 0: keep batches")  *)
(* without that exception: the expenditure is the one of the original      *)
(* solve, or adaption is disabled when that one is no long long.           *)
(***************************************************************************)
OriginalIsUsed ==
  [][phase = "original" /\ phase' = "round" =>
       expenditure' \in {MeantExpenditure(last_effort'), 0}]_vars

-------------------------------------------------------------------------------
(***************************************************************************)
(* The inductive invariant.  success splits the modifiers of the stage     *)
(* into those that ran after it in an earlier round and those that run     *)
(* before it in this one; which half is pending depends on whether the     *)
(* loop has passed success in this round, that is, on modifier <= success. *)
(***************************************************************************)
Before(m) == 0..(m - 1)
After(m)  == (m + 1)..stage

IndexInv ==
  /\ stage <= maxstages
  /\ success <= stage
  /\ phase = "original" /\ maxstages > 0 => stage < maxstages
  /\ phase = "modify" => modifier <= stage + 1

TriedInv ==
  /\ stage = maxstages => Before(maxstages) \subseteq tried
  /\ stage < maxstages =>
       IF phase # "modify"
         THEN After(success) \subseteq tried
         ELSE IF modifier <= success
                THEN After(success) \cup Before(modifier) \subseteq tried
                ELSE (success + 1)..(modifier - 1) \subseteq tried

WrittenInv ==
  /\ phase = "original" => written = <<>>
  /\ phase = "modify" => written # <<>>
  /\ phase # "original" /\ stage = maxstages /\ maxstages > 0 => written = instance
  /\ phase = "modify" /\ stage < maxstages =>
       IF modifier <= success THEN written = instance ELSE size < written[1]
  /\ RoundsShrink
  /\ LastWrittenIsFinal

ResultsInv == \A m \in tried : results[m] # kSuccessful

RoundsInv ==
  /\ round <= maxrounds
  /\ initround <= round
  /\ phase = "modify" => /\ round < maxrounds
                         /\ round - initround + written[1] <= MaxSize
  /\ phase \in {"original", "round"} /\ stage < maxstages =>
       round - initround + size <= MaxSize
  /\ RoundsBounded

StatsInv ==
  /\ (last_round = -1) = (last_modifier = -1)
  /\ mode = 1 /\ last_round = -1 => last_result = "OKAY" /\ last_effort = -1
  /\ last_round <= round
  /\ last_modifier <= stage

(* Batches and expenditures are integers of the width of the parameters;   *)
(* the other parts do not need this, so that it is proved on its own.      *)
BudgetInv ==
  /\ nbatches \in 0..LLMax
  /\ expenditure <= LLMax
  /\ last_effort \in -1..LLMax

IInv ==
  /\ TypeOK
  /\ IndexInv
  /\ TriedInv
  /\ WrittenInv
  /\ ResultsInv
  /\ RoundsInv
  /\ StatsInv

===============================================================================
