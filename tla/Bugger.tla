-------------------------------- MODULE Bugger --------------------------------
(***************************************************************************)
(* The whole program: the main loop of BuggerRun.tla with the call of a    *)
(* modifier replaced by the steps of BatchedReduction.tla.  The two share  *)
(* the enabled modifiers and the number of batches; the modifier works on  *)
(* the loop's own instance and, unless it reduces the settings, restricts  *)
(* the loop's own limits while it runs.                                    *)
(*                                                                         *)
(* History: before is the limit when the loop last had control, refuted    *)
(* the instances tried in vain since the last success, and heard is what   *)
(* the solver told of the bugs it showed.                                  *)
(***************************************************************************)
EXTENDS BatchedReduction

CONSTANTS NModifiers, IntMax, Expenditures, RoundLimits, StageLimits

ASSUME ModifiersAssumption ==
  NModifiers \in Nat \ {0} /\ Modifiers = 0..(NModifiers - 1)

(* What main() lets the parameters be. *)
ASSUME LoopAssumption ==
  /\ IntMax \in Nat \ {0}
  /\ Expenditures \subseteq -1..LLMax
  /\ RoundLimits \subseteq -1..IntMax
  /\ StageLimits \subseteq Int

VARIABLES
  phase, mode, initround, initstage, maxrounds, maxstages, expenditure,
  round, stage, success, modifier, results,
  final_result, final_effort, last_round, last_modifier,
  written, expired, tried,
  before, refuted,
  heard           \* what may be reported of the last bug: codes, and the last
                  \* effort known of one

MaxSize == Cardinality(Reduction)

Loop == INSTANCE BuggerRun
          WITH size <- Cardinality(Reduction \ problem),
               limit <- before,
               last_result <- final_result,
               last_effort <- final_effort

loop == <<phase, mode, initround, initstage, maxrounds, maxstages, expenditure,
          round, stage, success, modifier, results, final_result, final_effort,
          last_round, last_modifier, written, expired, tried>>

(* All of the modifiers' state but the number of batches. *)
run == <<pc, current, fixed, instance, copy, trial, applied, batches,
         batchsize, position, admissible, status, report, history>>

vars == <<brvars, loop, before, refuted, heard>>

SystemInit ==
  /\ Init
  /\ before = MaxLimit
  /\ refuted = {}
  /\ heard = [codes |-> {"OKAY"}, effort |-> -1]
  /\ Loop!Init

-------------------------------------------------------------------------------
(* The loop has control. *)
Control == pc = "idle"

(* The original solve may restrict the limits of the settings. *)
Original ==
  /\ Control
  /\ UNCHANGED problem
  /\ Loop!SkipOriginal \/ Loop!SolveOriginal
  /\ limit' = before' /\ tightest' = before'
  /\ heard' = [codes |-> {final_result'}, effort |-> final_effort']
  /\ UNCHANGED <<pc, current, solution, copy, trial, applied, batches,
                 batchsize, position, admissible, status, report, calls,
                 confirmed, rejected, refuted>>

(* Steps of the loop between the calls. *)
LoopStep ==
  /\ Control
  /\ UNCHANGED run
  /\ Loop!WriteInstance \/ Loop!LeaveLoop \/ Loop!EndRound
  /\ UNCHANGED <<refuted, heard>>

(* The loop takes the report of a run over once it succeeded. *)
Report ==
  IF status' = kSuccessful
    THEN Loop!TakeReport(last_result', last_effort')
    ELSE UNCHANGED <<final_result, final_effort>>

(* The call returns: the loop books its status. *)
Return ==
  /\ Loop!Bookkeep(current', status')
  /\ Report
  /\ IF status' = kSuccessful
       THEN tried' = {} /\ refuted' = {}
       ELSE /\ tried' = tried \cup {current'}
            /\ refuted' = refuted \cup rejected'
  /\ before' = limit'
  /\ UNCHANGED <<phase, mode, initround, initstage, maxrounds, maxstages,
                 expenditure, round, written, expired>>

(* The loop calls its next modifier, which may return at once. *)
Call ==
  /\ Loop!ModifierDue
  /\ \/ Begin(modifier) /\ UNCHANGED <<loop, before, refuted>>
     \/ Skip(modifier) /\ Return
  /\ UNCHANGED heard

(* What a bug tells: no effort leaves the last known one, and a status     *)
(* nobody knows leaves the code, be it that of the start of a run.         *)
Hear(answer, effort) ==
  heard' = IF answer = "UNKNOWN"
             THEN [codes |-> heard.codes \cup {"OKAY"}, effort |-> heard.effort]
             ELSE [codes |-> {answer},
                   effort |-> IF effort >= 0 THEN effort ELSE heard.effort]

(* A step of the modifier that runs. *)
Reduce ==
  /\ \/ (Scan \/ Reject) /\ UNCHANGED heard
     \/ \E answer \in Answer, effort \in Efforts, l \in 1..MaxLimit :
          Accept(answer, effort, l) /\ Hear(answer, effort)
  /\ UNCHANGED <<loop, before, refuted>>

HandBack == Finish /\ Return /\ UNCHANGED heard

Progress == Original \/ LoopStep \/ Call \/ Reduce \/ HandBack

(* The clock passes the time limit, be it within a solve. *)
Timeout ==
  /\ pc # "thrown"
  /\ UNCHANGED <<run, nbatches, before, refuted, heard>>
  /\ Loop!Expire

SystemNext == Progress \/ Timeout

(* Sequential code: the next step is always taken, and solves return. *)
System == SystemInit /\ [][SystemNext]_vars /\ WF_vars(Progress)

-------------------------------------------------------------------------------
(***************************************************************************)
(* With real modifiers behind it the loop is still that of BuggerRun: a    *)
(* run that reports success has shrunk the instance, any other has left it *)
(* and its limits alone, and nothing but a successful return changes what  *)
(* the loop last wrote.                                                    *)
(***************************************************************************)
ImplementsBuggerRun == Loop!Init /\ [][Loop!Next]_(Loop!vars)

(***************************************************************************)
(* What the user is promised: when every stage is exhausted, each          *)
(* reduction an enabled modifier of those stages finds possible in the     *)
(* final instance was part of a batch that was tried on top of exactly     *)
(* this instance, under its final limits, and did not show the bug.        *)
(***************************************************************************)
FinalIsMinimal ==
  phase = "done" /\ stage >= maxstages =>
    \A m \in enabled \cap 0..(maxstages - 1) :
      \/ solution \in Refuses[m]
      \/ \A e \in AdmissibleEntries(problem, m) : \E r \in refuted :
           e \in r[1] /\ problem \subseteq r[1] /\ r[2] = limit

(***************************************************************************)
(* The instance on disk at the end is the last one that showed the bug     *)
(* (the input, if none did), with the limits that solve left.              *)
(***************************************************************************)
DiskHoldsBug ==
  phase = "done" /\ maxstages > 0 =>
    /\ written = <<Cardinality(Reduction \ confirmed), tightest>>
    /\ problem = confirmed

(* What may be reported of the last bug. *)
OfLastBug(code, effort) == code \in heard.codes /\ effort = heard.effort

(***************************************************************************)
(* The effort that batches are adapted to is "the solving effort of the    *)
(* last failing run provided by the solver interface" (README), and the    *)
(* result the statistics call the final one is that of the last bug: it    *)
(* passes from the solve by the modifier to the loop, each of which keeps  *)
(* one of its own, only if the modifier succeeds, and never comes from a   *)
(* batch that was rejected.  A bug of a status nobody knows tells nothing: *)
(* what is kept is of the bug before it, or what every run starts with.    *)
(***************************************************************************)
ReportIsOfLastBug == Control => OfLastBug(final_result, final_effort)

(***************************************************************************)
(* The program ends, unless a batch size overflows: every loop over the    *)
(* stages but the last finds a smaller instance.                           *)
(***************************************************************************)
ProgramEnds == <>(phase \in {"done", "stopped"} \/ pc = "thrown")

-------------------------------------------------------------------------------
(***************************************************************************)
(* The inductive invariant: those of the two modules, and what relates     *)
(* them.  A run is a call of the loop's current modifier, between two runs *)
(* the loop's limits are those of the instance.                            *)
(***************************************************************************)
LoopInv ==
  /\ Loop!TypeOK
  /\ Loop!IndexInv
  /\ Loop!TriedInv
  /\ Loop!WrittenInv

CallInv ==
  /\ pc # "idle" => Loop!ModifierDue /\ current = modifier /\ current \in enabled
  /\ phase = "original" => status = kDidNotRun /\ problem = {} /\ tried = {}

(* What the loop reads of the solver's efforts stays in range. *)
EffortInv ==
  /\ last_effort \in Efforts \cup {-1}
  /\ expenditure <= LLMax

(* The limits a run starts from bound those it restricts, and only an      *)
(* accepted batch makes a difference.                                      *)
BeforeInv ==
  IF Running
    THEN trial <= before /\ (applied = {} => limit = before)
    ELSE before = limit

(* The reductions of a run are new to the instance. *)
NewInv == Running => (applied \cup batches) \cap problem = {}

(* A modifier tried in vain left nothing it could still do untried. *)
RefutedInv ==
  \A m \in tried \cap enabled :
    \/ solution \in Refuses[m]
    \/ \A e \in AdmissibleEntries(problem, m) : \E r \in refuted :
         e \in r[1] /\ problem \subseteq r[1] /\ r[2] = before

SystemInv ==
  /\ IInv
  /\ LoopInv
  /\ CallInv
  /\ EffortInv
  /\ BeforeInv
  /\ NewInv
  /\ RefutedInv

(***************************************************************************)
(* What the loop reports is that of the last bug; during a run it is what  *)
(* the loop will report once the run succeeds, which it does if a batch    *)
(* was accepted.                                                           *)
(***************************************************************************)
HeardInv ==
  /\ heard.effort \in Int
  /\ pc = "idle" => OfLastBug(final_result, final_effort)
  /\ Running /\ applied = {} =>
       /\ OfLastBug(final_result, final_effort)
       /\ last_result = "OKAY" /\ last_effort = -1
  /\ Running /\ applied # {} =>
       OfLastBug(last_result, IF last_effort >= 0 THEN last_effort ELSE final_effort)
===============================================================================
