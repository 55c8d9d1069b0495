--------------------------- MODULE SettingReduction ----------------------------
(***************************************************************************)
(* SettingModifier<REAL>::execute in full: the six typed lists of the      *)
(* settings, scanned one after the other, with batches that reach over the *)
(* ends of the lists.  BatchedReduction.tla treats settings as one list;   *)
(* here the flush at the end of the last list, and the copy that is        *)
(* rebuilt from the settings and the limits of the solver, are explicit.   *)
(* tried, shown and calls are history variables.                           *)
(***************************************************************************)
EXTENDS Integers, FiniteSets, Sequences, FiniteSetsExt

CONSTANTS
  Values,        \* values of settings
  Pairs,         \* pairs of settings and target settings, list by list
  BatchNumbers,  \* values of nbatches
  Limits         \* values of the limit setting

Types == <<"bool", "int", "long", "double", "char", "string">>

ASSUME ListsAssumption ==
  Pairs \subseteq [settings : [1..6 -> Seq(Values)], target : [1..6 -> Seq(Values)]]

ASSUME PairsAssumption ==
  \A p \in Pairs : \A t \in 1..6 : Len(p.settings[t]) = Len(p.target[t])

ASSUME BatchNumbersAssumption == BatchNumbers \subseteq Int

ASSUME LimitsAssumption == Limits \subseteq Nat /\ Limits # {}

VARIABLES
  pc,                  \* "scan", "solve", "done"
  pair, nbatches,      \* the input, and the number of batches
  settings, limit,     \* the settings and their limits
  copy, trial,         \* the same of the copy
  applied, batches,    \* entries accepted, entries of the pending batch
  batchsize,           \* when a batch is full
  type, position,      \* the entry to visit next
  admissible, status,  \* what execute() will return
  tried,               \* entries that were part of a solved copy
  shown,               \* the last settings, with limits, that showed the bug
  calls                \* solver calls

vars == <<pc, pair, nbatches, settings, limit, copy, trial, applied, batches,
          batchsize, type, position, admissible, status, tried, shown, calls>>

target == pair.target

Indices == UNION {{t} \X (1..Len(target[t])) : t \in 1..6}

Differing == {e \in Indices : pair.settings[e[1]][e[2]] # target[e[1]][e[2]]}

(* The settings s with the entries es set to their targets. *)
SetTo(s, es) ==
  [t \in 1..6 |->
     [i \in DOMAIN s[t] |-> IF <<t, i>> \in es THEN target[t][i] ELSE s[t][i]]]

BatchSize_Floored(n, differing) == IF n <= 0 THEN 1 ELSE differing \div n

(* Batches of equal size, at most n of them; one by one if n is not set. *)
BatchSize(n, differing) == IF n <= 0 THEN 1 ELSE (n - 1 + differing) \div n

(* The count refuses settings that are at their targets already. *)
Init ==
  /\ pair \in Pairs /\ nbatches \in BatchNumbers /\ limit \in Limits
  /\ settings = pair.settings
  /\ copy = settings /\ trial = limit
  /\ applied = {} /\ batches = {}
  /\ batchsize = BatchSize(nbatches, Cardinality(Differing))
  /\ type = 1 /\ position = 1
  /\ admissible = FALSE
  /\ tried = {} /\ shown = [settings |-> settings, limit |-> limit] /\ calls = 0
  /\ IF nbatches > 0 /\ Differing = {}
       THEN pc = "done" /\ status = "kNotAdmissible"
       ELSE pc = "scan" /\ status = "kDidNotRun"

(* The other loops do not ask whether the lists after them are empty. *)
LastEntry_Sixth(t, i) == i = Len(target[t]) /\ t = 6

(* Entry i of list t is the last one of all. *)
LastEntry(t, i) == i = Len(target[t]) /\ \A u \in t + 1..6 : target[u] = <<>>

(* A batch ends when it is full or nothing follows. *)
Full(bs, t, i) == bs # {} /\ (Cardinality(bs) >= batchsize \/ LastEntry(t, i))

(* The end of a list leads back to its start. *)
Advance_Stays ==
  /\ position' = IF position < Len(target[type]) THEN position + 1 ELSE 1
  /\ UNCHANGED type

Advance ==
  IF position < Len(target[type])
    THEN position' = position + 1 /\ UNCHANGED type
    ELSE position' = 1 /\ type' = type + 1

(* One turn of a loop up to its call of the solver: a setting off its      *)
(* target is set in the copy.  The turn goes on in SolveBatch, if at all.  *)
Visit ==
  /\ pc = "scan" /\ type <= 6 /\ position <= Len(target[type])
  /\ LET e    == <<type, position>>
         bs   == IF settings[type][position] # target[type][position]
                   THEN batches \cup {e} ELSE batches
         full == Full(bs, type, position)
     IN  /\ batches' = bs
         /\ admissible' = (admissible \/ bs # batches)
         /\ copy' = SetTo(copy, bs)
         /\ pc' = IF full THEN "solve" ELSE "scan"
         /\ IF full THEN UNCHANGED <<type, position>> ELSE Advance
  /\ UNCHANGED <<pair, nbatches, settings, limit, trial, applied, batchsize,
                 status, tried, shown, calls>>

(* A list without entries is passed over. *)
PassEmpty ==
  /\ pc = "scan" /\ type <= 6 /\ target[type] = <<>>
  /\ type' = type + 1
  /\ UNCHANGED <<pc, pair, nbatches, settings, limit, copy, trial, applied,
                 batches, batchsize, position, admissible, status, tried, shown,
                 calls>>

(* The limits start over with those of the settings. *)
ResetLimit_Original(current) == limit

(* reset() keeps the limits of the copy. *)
ResetLimit(current) == current

(* reset() rebuilds the copy from the settings and what was accepted. *)
Reset == SetTo(settings, applied)

(* The solver shows no bug on the copy, which is rebuilt. *)
RejectBatch ==
  /\ pc = "solve"
  /\ copy' = Reset /\ trial' = ResetLimit(trial)
  /\ batches' = {} /\ tried' = tried \cup batches /\ calls' = calls + 1
  /\ pc' = "scan" /\ Advance
  /\ UNCHANGED <<pair, nbatches, settings, limit, applied, batchsize,
                 admissible, status, shown>>

(* It shows a bug, or fails, and may have tightened a limit of the copy;   *)
(* the batch, its entries of earlier lists included, is accepted.          *)
AcceptBatch ==
  /\ pc = "solve"
  /\ applied' = applied \cup batches
  /\ trial' \in {l \in Limits : l <= trial}
  /\ shown' = [settings |-> copy, limit |-> trial']
  /\ batches' = {} /\ tried' = tried \cup batches /\ calls' = calls + 1
  /\ pc' = "scan" /\ Advance
  /\ UNCHANGED <<pair, nbatches, settings, limit, copy, batchsize, admissible,
                 status>>

Finish ==
  /\ pc = "scan" /\ type > 6
  /\ pc' = "done"
  /\ IF applied = {}
       THEN /\ status' = IF admissible THEN "kUnsuccesful" ELSE "kNotAdmissible"
            /\ UNCHANGED <<settings, limit>>
       ELSE status' = "kSuccessful" /\ settings' = copy /\ limit' = trial
  /\ UNCHANGED <<pair, nbatches, copy, trial, applied, batches, batchsize, type,
                 position, admissible, tried, shown, calls>>

Done == pc = "done" /\ UNCHANGED vars

Next == Visit \/ PassEmpty \/ RejectBatch \/ AcceptBatch \/ Finish \/ Done

(* execute() runs to its end in one thread. *)
Fairness == WF_vars(Visit \/ PassEmpty \/ RejectBatch \/ AcceptBatch \/ Finish)

Spec == Init /\ [][Next]_vars /\ Fairness

-------------------------------------------------------------------------------
(* Types, and the cursor within the lists. *)
TypeOK ==
  /\ pc \in {"scan", "solve", "done"}
  /\ applied \subseteq Differing /\ batches \subseteq Differing
  /\ tried \subseteq Differing
  /\ type \in 1..7 /\ limit \in Limits /\ trial \in Limits
  /\ pc = "solve" => batches # {} /\ position <= Len(target[type])
  /\ status \in {"kDidNotRun", "kNotAdmissible", "kUnsuccesful", "kSuccessful"}

(* What execute() leaves in the settings is the last copy that showed the  *)
(* bug with the limits the solver left there, or the input: a rejected     *)
(* batch does not survive in the copy, and an accepted one is not lost     *)
(* when a later one is rejected.                                           *)
KeptShowBug ==
  pc = "done" =>
    [settings |-> settings, limit |-> limit] = shown

(* Every setting off its target was part of a solved copy before execute() *)
(* ends, whichever of the six lists are empty: no batch is left over.      *)
EverythingTried == pc = "done" => tried = Differing

(* The copy the solver gets is the settings with exactly the accepted and  *)
(* the pending entries at their targets.                                   *)
CopyIsExact == copy = SetTo(pair.settings, applied \cup batches)

(* The scan of the six lists ends. *)
Terminates == <>(pc = "done")
===============================================================================
