--------------------------- MODULE BatchedReduction ---------------------------
(***************************************************************************)
(* BuggerModifier<REAL>::run and the execute() of the modifiers.  All nine *)
(* share one algorithm: count the elementary reductions they could apply,  *)
(* derive the size of a batch from the number of batches, scan the         *)
(* instance, apply reductions to a copy, solve the copy whenever a batch   *)
(* is full, and on an answer without the bug rebuild the copy from the     *)
(* instance and the batches accepted so far.                               *)
(*                                                                         *)
(* An instance is the set of reductions applied to the input.  A layout is *)
(* the scan order of a modifier: one entry per elementary reduction, in    *)
(* the order of the rows, columns or settings the code visits.  confirmed, *)
(* tightest and rejected are history variables.  Bugger.tla composes this  *)
(* module with the main loop.                                              *)
(***************************************************************************)
EXTENDS Integers, FiniteSets, Sequences

CONSTANTS
  Modifiers,         \* the modifiers
  SettingModifier,  \* those that reduce a copy of the settings
  Reduction,        \* elementary reductions
  Layout,           \* Layout[m]: the reductions of m in scan order
  Opens,            \* Opens[e]: reductions that make e possible, {} if it is
  Bars,             \* Bars[e]: reductions that make e impossible
  Statuses,         \* statuses the reference solution may have
  Refuses,          \* Refuses[m]: statuses of the reference solution m skips
  BatchNumbers,     \* values of nbatches
  Efforts,          \* efforts the solver can report; -1 is "unknown"
  MaxLimit,         \* bound on the initial solver limit
  LLMax             \* LLONG_MAX

SolutionStatus == {"unknown", "infeasible", "unbounded", "feasible"}

Entries(m) == {Layout[m][i] : i \in 1..Len(Layout[m])}

(***************************************************************************)
(* The reductions of one modifier do not interact: removing a row, fixing  *)
(* a column or resetting a setting does not make the same kind of          *)
(* reduction possible or impossible elsewhere.                             *)
(***************************************************************************)
ASSUME LayoutAssumption ==
  /\ SettingModifier \subseteq Modifiers
  /\ Layout \in [Modifiers -> Seq(Reduction)]
  /\ Opens \in [Reduction -> SUBSET Reduction]
  /\ Bars \in [Reduction -> SUBSET Reduction]
  /\ Refuses \in [Modifiers -> SUBSET SolutionStatus]
  /\ \A m \in Modifiers :
       /\ \A i, j \in 1..Len(Layout[m]) : Layout[m][i] = Layout[m][j] => i = j
       /\ \A e \in Entries(m) :
            Opens[e] \cap Entries(m) = {} /\ Bars[e] \cap Entries(m) = {}

(* Every entry occupies several bytes, so that none of the counts of a     *)
(* modifier comes near the largest integer.                                *)
ASSUME CountsAssumption ==
  \A m \in Modifiers : 2 * Len(Layout[m]) <= LLMax

ASSUME RangesAssumption ==
  /\ IsFiniteSet(Reduction)
  /\ LLMax \in Nat \ {0}
  /\ MaxLimit \in Nat \ {0}
  /\ Statuses \subseteq SolutionStatus
  /\ BatchNumbers \subseteq 0..LLMax
  /\ Efforts \subseteq -1..LLMax

(* ModifierStatus *)
kDidNotRun     == 0
kNotAdmissible == 1
kUnsuccesful   == 2
kSuccessful    == 3
ModifierStatus == kDidNotRun..kSuccessful

(* Solver return codes up to their sign: negative, OKAY, positive. *)
Retcode == {"ERROR", "OKAY", "FAIL"}

(* What a solve returns: a code, or a status call_solver does not know. *)
Answer == Retcode \cup {"UNKNOWN"}

VARIABLES
  pc,                   \* "idle", "scan", "solve", "finish" or "thrown"
  current,              \* the modifier that runs or ran last
  enabled, solution,    \* enabled modifiers; status of the reference solution
  nbatches,             \* the number of batches
  problem, limit,       \* the instance: reductions applied, solver limit
  copy, trial,          \* the same of the copy the solver works on
  applied, batches,     \* accepted reductions; those of the pending batch
  batchsize, position, admissible, status,
  last_result, last_effort,   \* what the modifier reports of its last bug
  calls,                \* solver calls of this run
  confirmed,            \* the last instance that showed the bug
  tightest,             \* the limit that bug left
  rejected              \* the instances of this run that did not show it,
                        \* with the limits they were solved under

fixed    == <<enabled, solution>>
instance == <<problem, limit>>
report   == <<last_result, last_effort>>
history  == <<calls, confirmed, tightest, rejected>>
brvars == <<pc, current, fixed, nbatches, instance, copy, trial, applied,
            batches, batchsize, position, admissible, status, report, history>>

-------------------------------------------------------------------------------
(* The row, column or setting of e can still be reduced. *)
Admissible(p, e) ==
  /\ e \notin p
  /\ Opens[e] = {} \/ Opens[e] \cap p # {}
  /\ Bars[e] \cap p = {}

AdmissibleEntries(p, m) == {e \in Entries(m) : Admissible(p, e)}

Count(m) == Cardinality(AdmissibleEntries(problem, m))

(***************************************************************************)
(* The ceiled division counts up from nbatches - 1 in a signed integer.    *)
(* When that wraps around, the quotient is negative or zero.               *)
(***************************************************************************)
Wrapped(x) == ((x + LLMax + 1) % (2 * LLMax + 2)) - LLMax - 1

Quotient(a, b) == IF a >= 0 THEN a \div b ELSE -((-a) \div b)

(* The plain division instead of the ceiled one. *)
BatchSize_Floored(n) ==
  IF nbatches = 0 THEN 1 ELSE Quotient(Wrapped(n), nbatches)

BatchSize(n) ==
  IF nbatches = 0 THEN 1 ELSE Quotient(Wrapped(nbatches - 1 + n), nbatches)

Refused(m) ==
  \/ solution \in Refuses[m]
  \/ nbatches > 0 /\ Count(m) = 0

Init ==
  /\ pc = "idle"
  /\ current \in Modifiers
  /\ enabled \in SUBSET Modifiers
  /\ solution \in Statuses
  /\ nbatches \in BatchNumbers
  /\ problem = {} /\ limit = MaxLimit
  /\ copy = {} /\ trial = MaxLimit
  /\ applied = {} /\ batches = {}
  /\ batchsize = 1 /\ position = 1 /\ admissible = FALSE
  /\ status = kDidNotRun
  /\ last_result = "OKAY" /\ last_effort = -1
  /\ calls = 0
  /\ confirmed = {} /\ tightest = MaxLimit
  /\ rejected = {}

(* Every run forgets what the previous one reported. *)
ClearReport == last_result' = "OKAY" /\ last_effort' = -1

(* A disabled modifier does not run; a refused one has nothing to try. *)
Skip(m) ==
  /\ pc = "idle"
  /\ m \notin enabled \/ Refused(m)
  /\ current' = m
  /\ status' = IF m \in enabled THEN kNotAdmissible ELSE kDidNotRun
  /\ ClearReport
  /\ calls' = 0
  /\ rejected' = {}
  /\ UNCHANGED <<pc, fixed, nbatches, instance, copy, trial, applied, batches,
                 batchsize, position, admissible, confirmed, tightest>>

(***************************************************************************)
(* Compute the size of the batches and copy the instance.  Reserving a     *)
(* negative size throws std::length_error, which nothing catches.          *)
(***************************************************************************)
CannotReserve(size) == size < 0

Begin(m) ==
  /\ pc = "idle"
  /\ m \in enabled
  /\ ~ Refused(m)
  /\ current' = m
  /\ batchsize' = BatchSize(Count(m))
  /\ pc' = IF CannotReserve(batchsize') THEN "thrown"
           ELSE IF Layout[m] = <<>> THEN "finish" ELSE "scan"
  /\ copy' = problem /\ trial' = limit
  /\ applied' = {} /\ batches' = {}
  /\ position' = 1 /\ admissible' = FALSE
  /\ ClearReport
  /\ calls' = 0
  /\ rejected' = {}
  /\ UNCHANGED <<fixed, nbatches, instance, status, confirmed, tightest>>

AtLast == position = Len(Layout[current])

(* The batch is full, or the scan ends with reductions that were not solved. *)
Flushes_FullOnly(b) == b # {} /\ Cardinality(b) >= batchsize
Flushes(b) == b # {} /\ (Cardinality(b) >= batchsize \/ AtLast)

(* Go on with the next row, column or setting. *)
Advance_Repeat == IF AtLast THEN pc' = "finish" /\ UNCHANGED position
                            ELSE pc' = "scan" /\ UNCHANGED position
Advance ==
  IF AtLast THEN pc' = "finish" /\ UNCHANGED position
            ELSE pc' = "scan" /\ position' = position + 1

(* Visit one row, column or setting of the copy. *)
Scan ==
  LET e == Layout[current][position]
  IN  /\ pc = "scan"
      /\ IF Admissible(copy, e)
           THEN /\ admissible' = TRUE
                /\ copy' = copy \cup {e}
                /\ batches' = batches \cup {e}
           ELSE UNCHANGED <<admissible, copy, batches>>
      /\ IF Flushes(batches') THEN pc' = "solve" /\ UNCHANGED position
                              ELSE Advance
      /\ UNCHANGED <<current, fixed, nbatches, instance, trial, applied,
                     batchsize, status, report, history>>

(* The instance and the accepted reductions, without the rejected batch. *)
Rebuilt_Kept == copy
Rebuilt == problem \cup applied

(* A rejected batch of settings keeps the limits restricted so far. *)
RebuiltLimit_Initial == IF current \in SettingModifier THEN limit ELSE trial
RebuiltLimit == trial

(* The solver answers without the bug: the batch is rejected. *)
Reject ==
  /\ pc = "solve"
  /\ copy' = Rebuilt
  /\ trial' = RebuiltLimit
  /\ rejected' = rejected \cup {<<copy, trial>>}
  /\ batches' = {}
  /\ calls' = calls + 1
  /\ Advance
  /\ UNCHANGED <<current, fixed, nbatches, instance, applied, batchsize,
                 admissible, status, report, confirmed, tightest>>

(* A later bug without an effort leaves the last known effort. *)
KnownEffort_Latest(effort) == effort
KnownEffort(effort) == IF effort >= 0 THEN effort ELSE last_effort

(***************************************************************************)
(* The solver shows the bug, or an error of its own, or returns a status   *)
(* nobody knows, which is not reported: the batch is accepted and the      *)
(* limits may be restricted, in the settings themselves or, when these are *)
(* being reduced, in their copy.                                           *)
(***************************************************************************)
Accept(answer, effort, l) ==
  /\ pc = "solve"
  /\ answer # "OKAY"
  /\ l <= trial
  /\ applied' = applied \cup batches
  /\ trial' = l
  /\ limit' = IF current \in SettingModifier THEN limit ELSE l
  /\ IF answer = "UNKNOWN"
       THEN UNCHANGED report
       ELSE last_result' = answer /\ last_effort' = KnownEffort(effort)
  /\ confirmed' = copy
  /\ tightest' = l
  /\ batches' = {}
  /\ calls' = calls + 1
  /\ Advance
  /\ UNCHANGED <<current, fixed, nbatches, problem, copy, batchsize,
                 admissible, status, rejected>>

FinalStatus_Admissible == IF admissible THEN kSuccessful ELSE kNotAdmissible

FinalStatus ==
  IF ~ admissible THEN kNotAdmissible
  ELSE IF applied = {} THEN kUnsuccesful ELSE kSuccessful

Finish ==
  /\ pc = "finish"
  /\ status' = FinalStatus
  /\ pc' = "idle"
  /\ IF FinalStatus = kSuccessful
       THEN problem' = copy /\ limit' = trial
       ELSE UNCHANGED instance
  /\ UNCHANGED <<current, fixed, nbatches, copy, trial, applied, batches,
                 batchsize, position, admissible, report, history>>
-------------------------------------------------------------------------------
(* One run of a modifier. *)
Run ==
  \/ \E m \in Modifiers : Skip(m) \/ Begin(m)
  \/ Scan
  \/ Reject
  \/ \E answer \in Answer, effort \in Efforts, l \in 1..MaxLimit :
       Accept(answer, effort, l)
  \/ Finish

(* Between two runs the main loop may change the number of batches. *)
Adapt ==
  /\ pc = "idle"
  /\ nbatches' \in BatchNumbers
  /\ UNCHANGED <<pc, current, fixed, instance, copy, trial, applied, batches,
                 batchsize, position, admissible, status, report, history>>

BRSpec == Init /\ [][Run \/ Adapt]_brvars

-------------------------------------------------------------------------------
(* Types of all variables, and where in the program they are in use. *)
TypeOK ==
  /\ pc \in {"idle", "scan", "solve", "finish", "thrown"}
  /\ current \in Modifiers
  /\ enabled \subseteq Modifiers /\ solution \in SolutionStatus
  /\ nbatches \in 0..LLMax
  /\ problem \subseteq Reduction /\ limit \in 1..MaxLimit
  /\ copy \subseteq Reduction /\ trial \in 1..MaxLimit
  /\ applied \subseteq Reduction /\ batches \subseteq Reduction
  /\ batchsize \in Int /\ (pc # "thrown" => batchsize >= 0)
  /\ position \in Nat \ {0} /\ admissible \in BOOLEAN
  /\ pc \in {"scan", "solve"} => position <= Len(Layout[current])
  /\ status \in ModifierStatus
  /\ last_result \in Retcode /\ last_effort \in -1..LLMax
  /\ calls \in Nat
  /\ confirmed \subseteq Reduction /\ tightest \in 1..MaxLimit
  /\ rejected \subseteq (SUBSET Reduction) \X (1..MaxLimit)

(***************************************************************************)
(* Between two runs the instance is one the solver was run on, and the     *)
(* last one that showed the bug (or the input): batches that were rejected *)
(* have left no trace in it, and those accepted later were solved together *)
(* with every earlier one.                                                 *)
(***************************************************************************)
AdoptedIsConfirmed == pc = "idle" => problem = confirmed

(***************************************************************************)
(* Its limits are those the last bug left: a rejected batch of settings    *)
(* does not undo the restriction (CHANGELOG, "keep restricted solver limit *)
(* settings when resetting"), and a run without success does not change it.*)
(***************************************************************************)
LimitIsTightest == pc = "idle" => limit = tightest

(***************************************************************************)
(* A modifier invokes the solver at most nbatches times (README, "to       *)
(* invoke the solver at most as many times as specified"), or once for     *)
(* every reduction.                                                        *)
(***************************************************************************)
SolveBound ==
  pc \in {"solve", "scan", "finish"} =>
    calls <= IF nbatches > 0 THEN nbatches ELSE Count(current)

(***************************************************************************)
(* Every reduction the modifier still finds possible after its run was     *)
(* part of a batch that was rejected, and after a run without success that *)
(* batch was tried on top of the very instance, under its limits: skipping *)
(* the incomplete last batch, or one after an accepted batch, would leave  *)
(* a reduction untried.                                                    *)
(***************************************************************************)
BatchLimit == IF batchsize >= 1 THEN batchsize ELSE 1

RemainingRejected ==
  pc = "idle" =>
    /\ status \in {kUnsuccesful, kSuccessful} =>
         \A e \in AdmissibleEntries(problem, current) : \E r \in rejected :
           /\ e \in r[1]
           /\ Cardinality(r[1] \ problem) <= BatchLimit
           /\ status = kUnsuccesful => problem \subseteq r[1] /\ r[2] = limit
    /\ status = kNotAdmissible =>
         \/ solution \in Refuses[current]
         \/ AdmissibleEntries(problem, current) = {}

-------------------------------------------------------------------------------
(***************************************************************************)
(* The inductive invariant.  During a run the copy is the instance with the *)
(* accepted reductions and the pending batch, and the last bug was shown   *)
(* by what it would be without that batch.                                 *)
(***************************************************************************)
Running == pc \in {"scan", "solve", "finish"}

CopyInv ==
  Running =>
    /\ copy = problem \cup applied \cup batches
    /\ confirmed = problem \cup applied

LimitInv ==
  Running =>
    /\ trial = tightest
    /\ current \notin SettingModifier \/ applied = {} => limit = trial

PendingInv ==
  /\ pc = "solve" => batches # {}
  /\ pc = "finish" => batches = {}
  /\ Running /\ ~ admissible => applied = {} /\ batches = {}
  /\ pc = "thrown" => problem = confirmed /\ limit = tightest

CopyIInv ==
  /\ TypeOK
  /\ CopyInv
  /\ LimitInv
  /\ PendingInv
  /\ AdoptedIsConfirmed
  /\ LimitIsTightest

(***************************************************************************)
(* The entries visited so far: whatever was possible among them is         *)
(* accepted, pending or rejected, and no batch was too large.              *)
(***************************************************************************)
Visited ==
  {Layout[current][i] : i \in {j \in 1..Len(Layout[current]) :
                                IF pc = "scan" THEN j < position ELSE j <= position}}

VisitedAdmissible == {e \in Visited : Admissible(problem, e)}

ScanInv ==
  Running =>
    /\ applied \cup batches \subseteq Visited
    /\ \A e \in VisitedAdmissible :
         e \in applied \cup batches \/ \E r \in rejected : e \in r[1]
    /\ \A r \in rejected :
         /\ Cardinality(r[1] \ (problem \cup applied)) <= BatchLimit
         /\ applied = {} => problem \subseteq r[1] /\ r[2] = limit
    /\ ~ admissible => rejected = {}
    /\ pc = "finish" => Visited = Entries(current)

BatchInv ==
  /\ pc = "scan" => Cardinality(batches) < BatchLimit
  /\ pc = "solve" => /\ Cardinality(batches) <= BatchLimit
                     /\ AtLast \/ Cardinality(batches) = BatchLimit

(* The calls so far and the pending batch, in reductions. *)
CallsInv ==
  Running =>
    /\ IF nbatches > 0 THEN Count(current) <= nbatches * BatchLimit
                       ELSE BatchLimit = 1
    /\ pc \in {"scan", "solve"} =>
         calls * BatchLimit + Cardinality(batches) <= Cardinality(VisitedAdmissible)
    /\ pc = "finish" /\ calls > 0 => (calls - 1) * BatchLimit < Count(current)

IInv ==
  /\ CopyIInv
  /\ ScanInv
  /\ BatchInv
  /\ CallsInv
  /\ RemainingRejected
===============================================================================
