----------------------------- MODULE BuggerProofs -----------------------------
(***************************************************************************)
(* Proofs about one modifier: what it hands back was shown to have the     *)
(* bug, under the limits in effect, for every layout of the reductions,    *)
(* every number of batches and every answer of the solver; and about its   *)
(* scan: no reduction is left untried, and the solver is not invoked more  *)
(* often than asked for.                                                   *)
(*                                                                         *)
(* Then about the whole program: SystemInv is inductive, so that the loop  *)
(* with real modifiers behind it is still that of BuggerRun, ends at an    *)
(* instance on which nothing is left untried, and leaves on disk what      *)
(* showed the bug last.  What is proved of BuggerRun for itself cannot be  *)
(* cited through the instance Loop, where size and limit are expressions;  *)
(* the four parts of its invariant that the program needs are carried over *)
(* here.                                                                   *)
(***************************************************************************)
EXTENDS Bugger, FiniteSetTheorems, TLAPS

USE RangesAssumption
  DEF kDidNotRun, kNotAdmissible, kUnsuccesful, kSuccessful, ModifierStatus,
      Retcode, Answer, SolutionStatus

(* What the scan visits is a reduction. *)
LEMMA EntryType ==
  ASSUME NEW m \in Modifiers
  PROVE  /\ Entries(m) \subseteq Reduction
         /\ \A i \in 1..Len(Layout[m]) : Layout[m][i] \in Reduction
  BY LayoutAssumption DEF Entries

(* The number of reductions that are possible is a natural number. *)
LEMMA CountType ==
  ASSUME NEW m \in Modifiers
  PROVE  Count(m) \in Nat
  <1>1. AdmissibleEntries(problem, m) \subseteq Reduction
    BY EntryType DEF AdmissibleEntries
  <1>2. IsFiniteSet(AdmissibleEntries(problem, m))
    BY <1>1, FS_Subset
  <1>3. QED
    BY <1>2, FS_CardinalityType DEF Count

(* The size of a batch is an integer, whatever wraps around. *)
LEMMA BatchSizeType ==
  ASSUME nbatches \in Nat, NEW n \in Nat
  PROVE  BatchSize(n) \in Int
  <1>1. CASE nbatches = 0
    BY <1>1 DEF BatchSize
  <1>2. CASE nbatches # 0
    <2>1. \A x \in Nat : Wrapped(x) \in Int
      BY DEF Wrapped
    <2>2. \A a \in Int : Quotient(a, nbatches) \in Int
      BY <1>2 DEF Quotient
    <2>3. QED
      BY <1>2, <2>1, <2>2 DEF BatchSize
  <1>3. QED
    BY <1>1, <1>2

(* Going on with the scan stays within the layout. *)
LEMMA AdvanceType ==
  ASSUME TypeOK, pc \in {"scan", "solve"}, Advance, current' = current
  PROVE  /\ pc' \in {"scan", "finish"}
         /\ position' \in Nat \ {0}
         /\ pc' = "scan" => position' <= Len(Layout[current])
  <1>1. Len(Layout[current]) \in Nat /\ position \in Nat \ {0}
        /\ position <= Len(Layout[current])
    BY DEF TypeOK
  <1>2. CASE AtLast
    BY <1>1, <1>2 DEF Advance
  <1>3. CASE ~ AtLast
    BY <1>1, <1>3 DEF Advance, AtLast
  <1>4. QED
    BY <1>2, <1>3

(* The first state of a modifier is typed.                                 *)
LEMMA InitType == Init => TypeOK
  <1> SUFFICES ASSUME Init PROVE TypeOK
    OBVIOUS
  <1>1. MaxLimit \in 1..MaxLimit /\ -1 \in -1..LLMax
    OBVIOUS
  <1>2. nbatches \in 0..LLMax /\ admissible \in BOOLEAN
    BY DEF Init
  <1>3. QED
    BY <1>1, <1>2 DEF Init, TypeOK

(* Every step of a modifier is typed.                                      *)
LEMMA StepType == TypeOK /\ [Run \/ Adapt]_brvars => TypeOK'
  <1> SUFFICES ASSUME TypeOK, [Run \/ Adapt]_brvars
               PROVE  TypeOK'
    OBVIOUS
  <1> USE DEF fixed, instance, report, history
  <1>1. ASSUME NEW m \in Modifiers, Skip(m)
        PROVE  TypeOK'
    BY <1>1 DEF Skip, ClearReport, TypeOK
  <1>2. ASSUME NEW m \in Modifiers, Begin(m)
        PROVE  TypeOK'
    <2>1. batchsize' \in Int
      BY <1>2, CountType, BatchSizeType DEF Begin, TypeOK
    <2>2. /\ pc' \in {"thrown", "finish", "scan"}
          /\ pc' # "thrown" => batchsize' >= 0
          /\ pc' = "scan" => Layout[m] # <<>>
      BY <1>2, <2>1 DEF Begin, CannotReserve
    <2>3. position' = 1 /\ (pc' = "scan" => 1 <= Len(Layout[m]))
      BY <1>2, <2>2, LayoutAssumption DEF Begin
    <2>4. admissible' \in BOOLEAN
      BY <1>2 DEF Begin
    <2>5. -1 \in -1..LLMax
      OBVIOUS
    <2>6. QED
      BY <1>2, <2>1, <2>2, <2>3, <2>4, <2>5 DEF Begin, ClearReport, TypeOK
  <1>3. CASE Scan
    <2>1. Layout[current][position] \in Reduction
      BY <1>3, EntryType DEF Scan, TypeOK
    <2>2. /\ copy' \subseteq Reduction /\ batches' \subseteq Reduction
          /\ admissible' \in BOOLEAN
      BY <1>3, <2>1 DEF Scan, TypeOK
    <2>3. /\ pc' \in {"scan", "solve", "finish"} /\ position' \in Nat \ {0}
          /\ pc' \in {"scan", "solve"} => position' <= Len(Layout[current])
      BY <1>3, AdvanceType DEF Scan, TypeOK
    <2>4. QED
      BY <1>3, <2>2, <2>3 DEF Scan, TypeOK
  <1>4. CASE Reject
    <2>1. /\ pc' \in {"scan", "finish"} /\ position' \in Nat \ {0}
          /\ pc' = "scan" => position' <= Len(Layout[current])
      BY <1>4, AdvanceType DEF Reject
    <2>2. copy' = problem \cup applied /\ trial' = trial
      BY <1>4 DEF Reject, Rebuilt, RebuiltLimit
    <2>3. copy' \subseteq Reduction /\ trial' \in 1..MaxLimit
      BY <2>2 DEF TypeOK
    <2>4. rejected' \subseteq (SUBSET Reduction) \X (1..MaxLimit)
      BY <1>4 DEF Reject, TypeOK
    <2>5. calls' \in Nat /\ batches' = {}
      BY <1>4 DEF Reject, TypeOK
    <2>6. QED
      BY <1>4, <2>1, <2>3, <2>4, <2>5 DEF Reject, TypeOK
  <1>5. ASSUME NEW answer \in Answer, NEW effort \in Efforts,
               NEW l \in 1..MaxLimit, Accept(answer, effort, l)
        PROVE  TypeOK'
    <2>1. /\ pc' \in {"scan", "finish"} /\ position' \in Nat \ {0}
          /\ pc' = "scan" => position' <= Len(Layout[current])
      BY <1>5, AdvanceType DEF Accept
    <2>2. last_effort' \in -1..LLMax /\ last_result' \in Retcode
      BY <1>5 DEF Accept, KnownEffort, TypeOK
    <2>3. /\ applied' \subseteq Reduction /\ batches' \subseteq Reduction
          /\ confirmed' \subseteq Reduction
      BY <1>5 DEF Accept, TypeOK
    <2>4. /\ trial' \in 1..MaxLimit /\ limit' \in 1..MaxLimit /\ tightest' \in 1..MaxLimit
          /\ calls' \in Nat
      BY <1>5 DEF Accept, TypeOK
    <2>5. UNCHANGED <<current, enabled, solution, nbatches, problem, copy, batchsize,
                      admissible, status, rejected>>
      BY <1>5 DEF Accept, fixed
    <2>6. /\ current' \in Modifiers /\ enabled' \subseteq Modifiers
          /\ solution' \in SolutionStatus /\ nbatches' \in 0..LLMax
          /\ problem' \subseteq Reduction /\ copy' \subseteq Reduction
          /\ admissible' \in BOOLEAN /\ status' \in ModifierStatus
          /\ rejected' \subseteq (SUBSET Reduction) \X (1..MaxLimit)
      BY <2>5 DEF TypeOK
    <2>7. /\ batchsize' \in Int /\ (pc' # "thrown" => batchsize' >= 0)
          /\ pc' \in {"scan", "solve"} => position' <= Len(Layout[current'])
      <3>1. pc = "solve"
        BY <1>5 DEF Accept
      <3>2. batchsize \in Int /\ batchsize >= 0
        BY <3>1 DEF TypeOK
      <3> QED BY <2>1, <2>5, <3>2
    <2>8. QED
      BY <2>1, <2>2, <2>3, <2>4, <2>6, <2>7 DEF TypeOK
  <1>6. CASE Finish
    BY <1>6 DEF Finish, FinalStatus, TypeOK
  <1>7. CASE Adapt
    BY <1>7 DEF Adapt, TypeOK
  <1>8. CASE UNCHANGED brvars
    BY <1>8 DEF brvars, TypeOK
  <1>9. QED
    BY <1>1, <1>2, <1>3, <1>4, <1>5, <1>6, <1>7, <1>8 DEF Run

(***************************************************************************)
(* Every variable keeps its type, the scan stays within the layout and no  *)
(* batch has a negative size (BuggerModifier::run, execute).               *)
(***************************************************************************)
THEOREM TypeCorrect == BRSpec => []TypeOK
  BY InitType, StepType, PTL DEF BRSpec

-------------------------------------------------------------------------------
(* Where the scan goes next. *)
LEMMA AdvanceTarget ==
  ASSUME Advance
  PROVE  pc' \in {"scan", "finish"}
  BY DEF Advance

(* At first the copy is the instance, and nothing is pending.              *)
LEMMA InitCopy == Init => CopyIInv
  BY InitType DEF Init, CopyIInv, CopyInv, LimitInv, PendingInv, Running,
                  AdoptedIsConfirmed, LimitIsTightest

(* Every step of a modifier keeps the copy up to date.                     *)
LEMMA StepCopy == CopyIInv /\ [Run \/ Adapt]_brvars => CopyIInv'
  <1> SUFFICES ASSUME CopyIInv, [Run \/ Adapt]_brvars
               PROVE  CopyIInv'
    OBVIOUS
  <1>0. TypeOK /\ TypeOK'
    BY StepType DEF CopyIInv
  <1> DEFINE Inv == /\ CopyInv /\ LimitInv /\ PendingInv
                    /\ AdoptedIsConfirmed /\ LimitIsTightest
  <1> SUFFICES Inv'
    BY <1>0 DEF CopyIInv
  <1> USE DEF fixed, instance, report, history, Running
  <1>1. ASSUME NEW m \in Modifiers, Skip(m)
        PROVE  Inv'
    BY <1>1 DEF Skip, CopyIInv, CopyInv, LimitInv, PendingInv,
                AdoptedIsConfirmed, LimitIsTightest
  <1>2. ASSUME NEW m \in Modifiers, Begin(m)
        PROVE  Inv'
    <2>1. /\ pc' \in {"thrown", "finish", "scan"} /\ pc = "idle"
          /\ copy' = problem /\ trial' = limit /\ applied' = {} /\ batches' = {}
          /\ problem' = problem /\ limit' = limit
          /\ confirmed' = confirmed /\ tightest' = tightest
      BY <1>2 DEF Begin
    <2>2. problem = confirmed /\ limit = tightest
      BY <2>1 DEF CopyIInv, AdoptedIsConfirmed, LimitIsTightest
    <2>3. QED
      BY <2>1, <2>2 DEF CopyInv, LimitInv, PendingInv, AdoptedIsConfirmed,
                        LimitIsTightest
  <1>3. CASE Scan
    <2>1. /\ pc = "scan" /\ pc' \in {"scan", "solve", "finish"}
          /\ pc' = "solve" => batches' # {}
          /\ pc' # "solve" => ~ Flushes(batches')
      BY <1>3, AdvanceTarget DEF Scan, Flushes
    <2>2. \/ \E e : copy' = copy \cup {e} /\ batches' = batches \cup {e}
                    /\ admissible' = TRUE
          \/ UNCHANGED <<admissible, copy, batches>>
      BY <1>3 DEF Scan
    <2>3. UNCHANGED <<current, problem, limit, trial, applied, confirmed, tightest>>
      BY <1>3 DEF Scan
    <2>4. CopyInv'
      BY <2>1, <2>2, <2>3 DEF CopyIInv, CopyInv
    <2>5. LimitInv'
      BY <2>1, <2>3 DEF CopyIInv, LimitInv
    <2>6. pc' = "finish" => batches' = {}
      <3>1. SUFFICES ASSUME pc' = "finish"
                     PROVE  batches' = {}
        OBVIOUS
      <3>2. AtLast
        BY <1>3, <2>1, <3>1 DEF Scan, Advance
      <3>3. QED
        BY <2>1, <3>1, <3>2 DEF Flushes
    <2>7. ~ admissible' => applied' = {} /\ batches' = {}
      BY <2>1, <2>2, <2>3 DEF CopyIInv, PendingInv
    <2>8. PendingInv'
      BY <2>1, <2>6, <2>7 DEF PendingInv
    <2>9. QED
      BY <2>1, <2>4, <2>5, <2>8 DEF AdoptedIsConfirmed, LimitIsTightest
  <1>4. CASE Reject
    <2>1. /\ pc = "solve" /\ pc' \in {"scan", "finish"}
          /\ copy' = problem \cup applied /\ trial' = trial /\ batches' = {}
      BY <1>4, AdvanceTarget DEF Reject, Rebuilt, RebuiltLimit
    <2>2. UNCHANGED <<current, problem, limit, applied, admissible, confirmed,
                      tightest>>
      BY <1>4 DEF Reject
    <2>3. CopyInv' /\ LimitInv'
      BY <2>1, <2>2 DEF CopyIInv, CopyInv, LimitInv
    <2>4. PendingInv'
      BY <2>1, <2>2 DEF CopyIInv, PendingInv
    <2>5. QED
      BY <2>1, <2>3, <2>4 DEF AdoptedIsConfirmed, LimitIsTightest
  <1>5. ASSUME NEW answer \in Answer, NEW effort \in Efforts,
               NEW l \in 1..MaxLimit, Accept(answer, effort, l)
        PROVE  Inv'
    <2>1. /\ pc = "solve" /\ pc' \in {"scan", "finish"}
          /\ applied' = applied \cup batches /\ batches' = {}
          /\ trial' = l /\ tightest' = l /\ confirmed' = copy
          /\ limit' = IF current \in SettingModifier THEN limit ELSE l
      BY <1>5, AdvanceTarget DEF Accept
    <2>2. UNCHANGED <<current, problem, copy, admissible>>
      BY <1>5 DEF Accept
    <2>3. applied' # {} /\ (admissible' = TRUE)
      BY <2>1, <2>2, <1>0 DEF CopyIInv, PendingInv, TypeOK
    <2>4. CopyInv'
      BY <2>1, <2>2 DEF CopyIInv, CopyInv
    <2>5. LimitInv'
      BY <2>1, <2>2, <2>3 DEF LimitInv
    <2>6. PendingInv'
      BY <2>1, <2>3 DEF PendingInv
    <2>7. QED
      BY <2>1, <2>4, <2>5, <2>6 DEF AdoptedIsConfirmed, LimitIsTightest
  <1>6. CASE Finish
    <2>1. /\ pc = "finish" /\ pc' = "idle" /\ batches = {}
          /\ confirmed' = confirmed /\ tightest' = tightest
      BY <1>6 DEF Finish, CopyIInv, PendingInv
    <2>2. problem' = confirmed /\ limit' = tightest
      <3>1. CASE FinalStatus = kSuccessful
        BY <1>6, <2>1, <3>1 DEF Finish, CopyIInv, CopyInv, LimitInv
      <3>2. CASE FinalStatus # kSuccessful
        <4>1. applied = {}
          BY <2>1, <3>2 DEF FinalStatus, CopyIInv, PendingInv
        <4>2. problem' = problem /\ limit' = limit
          BY <1>6, <3>2 DEF Finish
        <4>3. QED
          BY <2>1, <4>1, <4>2 DEF CopyIInv, CopyInv, LimitInv
      <3>3. QED
        BY <3>1, <3>2
    <2>3. QED
      BY <2>1, <2>2 DEF CopyInv, LimitInv, PendingInv, AdoptedIsConfirmed,
                        LimitIsTightest
  <1>7. CASE Adapt
    BY <1>7 DEF Adapt, CopyIInv, CopyInv, LimitInv, PendingInv,
                AdoptedIsConfirmed, LimitIsTightest
  <1>8. CASE UNCHANGED brvars
    BY <1>8 DEF brvars, CopyIInv, CopyInv, LimitInv, PendingInv,
                AdoptedIsConfirmed, LimitIsTightest
  <1>9. QED
    BY <1>1, <1>2, <1>3, <1>4, <1>5, <1>6, <1>7, <1>8 DEF Run

(* The copy, the instance and the last bug agree in every reachable state. *)
THEOREM CopyInductive == BRSpec => []CopyIInv
  BY InitCopy, StepCopy, PTL DEF BRSpec

(***************************************************************************)
(* What a run hands back is the last instance on which the solver showed   *)
(* the bug: rebuilding the copy after a rejected batch agrees with what    *)
(* was solved (execute() of the modifiers).                                *)
(***************************************************************************)
THEOREM HandsBackConfirmed == BRSpec => []AdoptedIsConfirmed
  BY CopyInductive, PTL DEF CopyIInv

(***************************************************************************)
(* The limits in effect are those that solve left, for the modifiers that  *)
(* restrict the settings in place and for the one that works on a copy     *)
(* (SettingModifier::reset).                                               *)
(***************************************************************************)
THEOREM KeepsTightestLimit == BRSpec => []LimitIsTightest
  BY CopyInductive, PTL DEF CopyIInv

-------------------------------------------------------------------------------
(* A batch holds at least one reduction. *)
LEMMA BatchLimitType ==
  ASSUME TypeOK
  PROVE  /\ batchsize \in Int
         /\ BatchLimit \in Nat \ {0}
  <1>1. batchsize \in Int
    BY DEF TypeOK
  <1>2. QED
    BY <1>1 DEF BatchLimit

(* What was visited is part of the layout. *)
LEMMA VisitedType ==
  ASSUME TypeOK
  PROVE  /\ Visited \subseteq Entries(current)
         /\ VisitedAdmissible \subseteq AdmissibleEntries(problem, current)
         /\ IsFiniteSet(AdmissibleEntries(problem, current))
         /\ IsFiniteSet(VisitedAdmissible)
         /\ Cardinality(VisitedAdmissible) \in Nat
         /\ Count(current) \in Nat
         /\ Cardinality(VisitedAdmissible) <= Count(current)
  <1>1. Visited \subseteq Entries(current)
    BY DEF Visited, Entries
  <1>2. VisitedAdmissible \subseteq AdmissibleEntries(problem, current)
    BY <1>1 DEF VisitedAdmissible, AdmissibleEntries
  <1>3. AdmissibleEntries(problem, current) \subseteq Reduction
    BY EntryType DEF AdmissibleEntries, TypeOK
  <1>4. IsFiniteSet(AdmissibleEntries(problem, current))
    BY <1>3, FS_Subset
  <1>5. IsFiniteSet(VisitedAdmissible)
        /\ Cardinality(VisitedAdmissible) <= Count(current)
    BY <1>2, <1>4, FS_Subset DEF Count
  <1>6. Cardinality(VisitedAdmissible) \in Nat /\ Count(current) \in Nat
    BY <1>4, <1>5, FS_CardinalityType DEF Count
  <1>7. QED
    BY <1>1, <1>2, <1>4, <1>5, <1>6

(* The pending batch is finite. *)
LEMMA BatchType ==
  ASSUME TypeOK
  PROVE  IsFiniteSet(batches) /\ Cardinality(batches) \in Nat
  <1>1. IsFiniteSet(batches)
    BY FS_Subset DEF TypeOK
  <1>2. QED
    BY <1>1, FS_CardinalityType

(***************************************************************************)
(* The entry the scan looks at is new, and the copy allows it exactly when *)
(* the instance does: what the modifier itself did before has no say.      *)
(***************************************************************************)
LEMMA CopyAgrees ==
  ASSUME IInv, pc = "scan"
  PROVE  /\ Layout[current][position] \in Entries(current) \ Visited
         /\ Admissible(copy, Layout[current][position])
              <=> Admissible(problem, Layout[current][position])
  <1> DEFINE e == Layout[current][position]
  <1>1. /\ current \in Modifiers /\ position \in 1..Len(Layout[current])
    BY LayoutAssumption DEF IInv, CopyIInv, TypeOK
  <1>2. e \in Entries(current)
    BY <1>1 DEF Entries
  <1>3. e \notin Visited
    <2>1. SUFFICES ASSUME e \in Visited
                   PROVE  FALSE
      OBVIOUS
    <2>2. PICK i \in 1..Len(Layout[current]) : i < position /\ Layout[current][i] = e
      BY <2>1 DEF Visited
    <2>3. i = position
      BY <1>1, <2>2, LayoutAssumption
    <2>4. QED
      BY <1>1, <2>2, <2>3
  <1>4. copy = problem \cup applied \cup batches
        /\ applied \cup batches \subseteq Visited
    BY DEF IInv, CopyIInv, CopyInv, ScanInv, Running
  <1>5. Visited \subseteq Entries(current)
    BY VisitedType DEF IInv, CopyIInv
  <1>6. /\ Opens[e] \cap Entries(current) = {}
        /\ Bars[e] \cap Entries(current) = {}
    BY <1>1, <1>2, LayoutAssumption
  <1>7. /\ e \in copy <=> e \in problem
        /\ Opens[e] \cap copy = Opens[e] \cap problem
        /\ Bars[e] \cap copy = Bars[e] \cap problem
    BY <1>3, <1>4, <1>5, <1>6
  <1>8. Admissible(copy, e) <=> Admissible(problem, e)
    BY <1>7 DEF Admissible
  <1>9. QED
    BY <1>2, <1>3, <1>8

(* The visited entries after a step of the scan ... *)
LEMMA VisitOne ==
  ASSUME TypeOK, pc = "scan", current' = current,
         (pc' = "solve" /\ position' = position) \/ Advance
  PROVE  /\ Visited' = Visited \cup {Layout[current][position]}
         /\ pc' = "finish" => Visited' = Entries(current)
  <1>1. position \in 1..Len(Layout[current]) /\ Len(Layout[current]) \in Nat
    BY DEF TypeOK
  <1>2. CASE pc' \in {"solve", "finish"} /\ position' = position
    BY <1>1, <1>2 DEF Visited, Advance, AtLast, Entries
  <1>3. CASE pc' = "scan" /\ position' = position + 1
    BY <1>1, <1>3 DEF Visited
  <1>4. QED
    BY <1>2, <1>3 DEF Advance

(* ... and after an answer of the solver. *)
LEMMA VisitNone ==
  ASSUME TypeOK, pc = "solve", current' = current, Advance
  PROVE  /\ Visited' = Visited
         /\ pc' = "finish" => Visited' = Entries(current)
  <1>1. position \in 1..Len(Layout[current]) /\ Len(Layout[current]) \in Nat
    BY DEF TypeOK
  <1>2. CASE pc' = "finish" /\ position' = position
    BY <1>1, <1>2 DEF Visited, Advance, AtLast, Entries
  <1>3. CASE pc' = "scan" /\ position' = position + 1
    BY <1>1, <1>3 DEF Visited
  <1>4. QED
    BY <1>2, <1>3 DEF Advance

-------------------------------------------------------------------------------
(* The scan invariant. *)
LEMMA StepScan ==
  ASSUME IInv, CopyIInv', [Run \/ Adapt]_brvars
  PROVE  ScanInv'
  <1>0. /\ TypeOK /\ TypeOK'
        /\ CopyInv /\ LimitInv /\ PendingInv /\ ScanInv /\ BatchInv
    BY DEF IInv, CopyIInv
  <1> USE DEF fixed, instance, report, history, Running
  <1>1. ASSUME NEW m \in Modifiers, Skip(m)
        PROVE  ScanInv'
    BY <1>1 DEF Skip, ScanInv
  <1>2. ASSUME NEW m \in Modifiers, Begin(m)
        PROVE  ScanInv'
    <2>1. /\ pc' \in {"thrown", "finish", "scan"} /\ position' = 1
          /\ applied' = {} /\ batches' = {} /\ rejected' = {} /\ current' = m
          /\ pc' = "finish" => Layout[m] = <<>>
      BY <1>2 DEF Begin
    <2>2. pc' = "scan" => Visited' = {}
      BY <2>1 DEF Visited
    <2>3. pc' = "finish" => Visited' = {} /\ Entries(current') = {}
      BY <2>1 DEF Visited, Entries
    <2>4. VisitedAdmissible' \subseteq Visited'
      BY DEF VisitedAdmissible
    <2>5. QED
      BY <2>1, <2>2, <2>3, <2>4 DEF ScanInv
  <1>3. CASE Scan
    <2> DEFINE e == Layout[current][position]
    <2>1. /\ pc = "scan"
          /\ UNCHANGED <<current, problem, limit, applied, rejected, batchsize>>
          /\ (pc' = "solve" /\ position' = position) \/ Advance
      BY <1>3 DEF Scan
    <2>2. /\ Visited' = Visited \cup {e}
          /\ pc' = "finish" => Visited' = Entries(current')
      BY <1>0, <2>1, VisitOne
    <2>3. Admissible(copy, e) <=> Admissible(problem, e)
      BY <2>1, CopyAgrees
    <2>4. /\ batches \subseteq batches' /\ batches' \subseteq batches \cup {e}
          /\ Admissible(copy, e) => e \in batches'
          /\ ~ admissible' => ~ admissible
      BY <1>3 DEF Scan
    <2>5. applied' \cup batches' \subseteq Visited'
      BY <1>0, <2>1, <2>2, <2>4 DEF ScanInv
    <2>6. ASSUME NEW x \in VisitedAdmissible'
          PROVE  x \in applied' \cup batches' \/ \E r \in rejected' : x \in r[1]
      <3>1. x \in Visited \cup {e} /\ Admissible(problem, x)
        BY <2>1, <2>2 DEF VisitedAdmissible, Admissible
      <3>2. CASE x = e
        BY <2>3, <2>4, <3>1, <3>2
      <3>3. CASE x \in Visited
        BY <1>0, <2>1, <2>4, <3>1, <3>3 DEF ScanInv, VisitedAdmissible
      <3>4. QED
        BY <3>1, <3>2, <3>3
    <2>7. /\ \A r \in rejected' :
               /\ Cardinality(r[1] \ (problem' \cup applied')) <= BatchLimit'
               /\ applied' = {} => problem' \subseteq r[1] /\ r[2] = limit'
          /\ ~ admissible' => rejected' = {}
      BY <1>0, <2>1, <2>4 DEF ScanInv, BatchLimit
    <2>8. QED
      BY <2>2, <2>5, <2>6, <2>7 DEF ScanInv
  <1>4. CASE Reject
    <2>1. /\ pc = "solve" /\ Advance
          /\ UNCHANGED <<current, problem, limit, applied, batchsize, admissible>>
          /\ rejected' = rejected \cup {<<copy, trial>>}
      BY <1>4 DEF Reject
    <2>2. /\ Visited' = Visited
          /\ pc' = "finish" => Visited' = Entries(current')
      BY <1>0, <2>1, VisitNone
    <2>3. /\ copy = problem \cup applied \cup batches /\ admissible = TRUE
          /\ applied = {} => limit = trial
      BY <1>0, <2>1 DEF CopyInv, PendingInv, LimitInv, TypeOK
    <2>4. applied' \cup batches' \subseteq Visited'
      BY <1>0, <1>4, <2>1, <2>2 DEF ScanInv, Reject
    <2>5. ASSUME NEW x \in VisitedAdmissible'
          PROVE  x \in applied' \cup batches' \/ \E r \in rejected' : x \in r[1]
      <3>1. x \in VisitedAdmissible
        BY <2>1, <2>2 DEF VisitedAdmissible, Admissible
      <3>2. x \in applied \cup batches \/ \E r \in rejected : x \in r[1]
        BY <1>0, <2>1, <3>1 DEF ScanInv
      <3>3. <<copy, trial>> \in rejected' /\ <<copy, trial>>[1] = copy
        BY <2>1
      <3>4. QED
        BY <2>1, <2>3, <3>2, <3>3
    <2>6. Cardinality(copy \ (problem \cup applied)) <= BatchLimit
      <3>1. copy \ (problem \cup applied) \subseteq batches
        BY <2>3
      <3>2. /\ Cardinality(copy \ (problem \cup applied)) <= Cardinality(batches)
            /\ IsFiniteSet(copy \ (problem \cup applied))
        BY <1>0, <3>1, BatchType, FS_Subset
      <3>3. Cardinality(copy \ (problem \cup applied)) \in Nat
        BY <3>2, FS_CardinalityType
      <3>4. Cardinality(batches) <= BatchLimit
        BY <1>0, <2>1 DEF BatchInv
      <3>5. QED
        BY <1>0, <3>2, <3>3, <3>4, BatchType, BatchLimitType
    <2>7. ASSUME NEW r \in rejected'
          PROVE  /\ Cardinality(r[1] \ (problem' \cup applied')) <= BatchLimit'
                 /\ applied' = {} => problem' \subseteq r[1] /\ r[2] = limit'
      <3>1. BatchLimit' = BatchLimit
        BY <2>1 DEF BatchLimit
      <3>2. CASE r = <<copy, trial>>
        BY <2>1, <2>3, <2>6, <3>1, <3>2
      <3>3. CASE r \in rejected
        BY <1>0, <2>1, <3>1, <3>3 DEF ScanInv
      <3>4. QED
        BY <2>1, <3>2, <3>3
    <2>8. QED
      BY <2>1, <2>2, <2>3, <2>4, <2>5, <2>7 DEF ScanInv
  <1>5. ASSUME NEW answer \in Answer, NEW effort \in Efforts,
               NEW l \in 1..MaxLimit, Accept(answer, effort, l)
        PROVE  ScanInv'
    <2>1. /\ pc = "solve" /\ Advance
          /\ UNCHANGED <<current, problem, batchsize, admissible, rejected>>
          /\ applied' = applied \cup batches /\ batches' = {}
      BY <1>5 DEF Accept
    <2>2. /\ Visited' = Visited
          /\ pc' = "finish" => Visited' = Entries(current')
      BY <1>0, <2>1, VisitNone
    <2>3. applied' # {} /\ admissible = TRUE
      BY <1>0, <2>1 DEF PendingInv, TypeOK
    <2>4. applied' \cup batches' \subseteq Visited'
      BY <1>0, <2>1, <2>2 DEF ScanInv
    <2>5. ASSUME NEW x \in VisitedAdmissible'
          PROVE  x \in applied' \cup batches' \/ \E r \in rejected' : x \in r[1]
      <3>1. x \in VisitedAdmissible
        BY <2>1, <2>2 DEF VisitedAdmissible, Admissible
      <3>2. QED
        BY <1>0, <2>1, <3>1 DEF ScanInv
    <2>6. ASSUME NEW r \in rejected'
          PROVE  Cardinality(r[1] \ (problem' \cup applied')) <= BatchLimit'
      <3> DEFINE big == r[1] \ (problem \cup applied)
                 small == r[1] \ (problem' \cup applied')
      <3>1. r \in rejected /\ r[1] \subseteq Reduction
        BY <1>0, <2>1 DEF TypeOK
      <3>2. IsFiniteSet(big)
        BY <3>1, FS_Subset
      <3>3. small \subseteq big
        BY <2>1
      <3>4. IsFiniteSet(small) /\ Cardinality(small) <= Cardinality(big)
        BY <3>2, <3>3, FS_Subset
      <3>5. Cardinality(big) \in Nat /\ Cardinality(small) \in Nat
        BY <3>2, <3>4, FS_CardinalityType
      <3>6. Cardinality(big) <= BatchLimit /\ BatchLimit' = BatchLimit
        BY <1>0, <2>1, <3>1 DEF ScanInv, BatchLimit
      <3>7. QED
        BY <1>0, <3>4, <3>5, <3>6, BatchLimitType
    <2>7. QED
      BY <2>1, <2>2, <2>3, <2>4, <2>5, <2>6 DEF ScanInv
  <1>6. CASE Finish
    BY <1>6 DEF Finish, ScanInv
  <1>7. CASE Adapt
    BY <1>7 DEF Adapt, ScanInv
  <1>8. CASE UNCHANGED brvars
    <2>1. UNCHANGED <<pc, current, problem, limit, applied, batches, batchsize,
                      position, admissible, rejected>>
      BY <1>8 DEF brvars
    <2>2. Visited' = Visited /\ Entries(current') = Entries(current)
      BY <2>1 DEF Visited
    <2>3. VisitedAdmissible' = VisitedAdmissible
      BY <2>1, <2>2 DEF VisitedAdmissible, Admissible
    <2>4. BatchLimit' = BatchLimit
      BY <2>1 DEF BatchLimit
    <2>5. QED
      BY <1>0, <2>1, <2>2, <2>3, <2>4 DEF ScanInv
  <1>9. QED
    BY <1>1, <1>2, <1>3, <1>4, <1>5, <1>6, <1>7, <1>8 DEF Run

-------------------------------------------------------------------------------
(* A full batch holds exactly as many reductions as asked for. *)
LEMMA StepBatch ==
  ASSUME IInv, CopyIInv', [Run \/ Adapt]_brvars
  PROVE  BatchInv'
  <1>0. /\ TypeOK /\ TypeOK' /\ BatchInv /\ PendingInv
        /\ batchsize \in Int /\ BatchLimit \in Nat \ {0}
    <2>1. TypeOK /\ TypeOK' /\ BatchInv /\ PendingInv
      BY DEF IInv, CopyIInv
    <2>2. batchsize \in Int
      BY <2>1 DEF TypeOK
    <2>3. QED
      BY <2>1, <2>2, BatchLimitType
  <1> USE DEF fixed, instance, report, history
  <1>1. ASSUME NEW m \in Modifiers, Skip(m)
        PROVE  BatchInv'
    BY <1>1 DEF Skip, BatchInv
  <1>2. ASSUME NEW m \in Modifiers, Begin(m)
        PROVE  BatchInv'
    <2>1. pc' # "solve" /\ batches' = {}
      BY <1>2 DEF Begin
    <2>2. BatchLimit' \in Nat \ {0}
      <3>1. batchsize' \in Int
        BY <1>0 DEF TypeOK
      <3>2. QED
        BY <3>1 DEF BatchLimit
    <2>3. QED
      BY <2>1, <2>2, FS_EmptySet DEF BatchInv
  <1>3. CASE Scan
    <2> DEFINE e == Layout[current][position]
    <2>1. /\ pc = "scan" /\ batchsize' = batchsize /\ current' = current
          /\ batches' = batches \cup {e} \/ batches' = batches
          /\ IF Flushes(batches') THEN pc' = "solve" /\ UNCHANGED position
                                  ELSE pc' # "solve"
      BY <1>3, AdvanceTarget DEF Scan
    <2>2. IsFiniteSet(batches) /\ Cardinality(batches) \in Nat
      BY <1>0, BatchType
    <2>3. /\ Cardinality(batches') \in Nat
          /\ Cardinality(batches') <= Cardinality(batches) + 1
      <3>1. CASE batches' = batches
        BY <2>2, <3>1
      <3>2. CASE batches' = batches \cup {e}
        <4>1. Cardinality(batches \cup {e}) =
                IF e \in batches THEN Cardinality(batches) ELSE Cardinality(batches) + 1
          BY <2>2, FS_AddElement
        <4>2. QED
          BY <2>2, <3>2, <4>1
      <3>3. QED
        BY <2>1, <3>1, <3>2
    <2>4. Cardinality(batches) < BatchLimit /\ BatchLimit' = BatchLimit
      BY <1>0, <2>1 DEF BatchInv, BatchLimit
    <2>5. CASE Flushes(batches')
      <3>1. /\ Cardinality(batches') >= batchsize \/ AtLast
            /\ batches' # {}
        BY <2>5 DEF Flushes
      <3>2. IsFiniteSet(batches')
        BY <1>0, FS_Subset DEF TypeOK
      <3>3. Cardinality(batches') # 0
        BY <3>1, <3>2, FS_EmptySet
      <3>4. Cardinality(batches') <= BatchLimit
        BY <1>0, <2>2, <2>3, <2>4
      <3>5. AtLast \/ Cardinality(batches') = BatchLimit
        BY <1>0, <2>3, <3>1, <3>3, <3>4 DEF BatchLimit
      <3>6. AtLast' = AtLast /\ pc' = "solve"
        BY <2>1, <2>5 DEF AtLast
      <3>7. QED
        BY <2>4, <3>4, <3>5, <3>6 DEF BatchInv
    <2>6. CASE ~ Flushes(batches')
      <3>1. batches' = {} \/ Cardinality(batches') < batchsize
        BY <1>0, <2>3, <2>6 DEF Flushes
      <3>2. Cardinality(batches') < BatchLimit
        <4>1. CASE batches' = {}
          BY <1>0, <4>1, FS_EmptySet
        <4>2. CASE Cardinality(batches') < batchsize
          BY <1>0, <2>3, <4>2 DEF BatchLimit
        <4>3. QED
          BY <3>1, <4>1, <4>2
      <3>3. QED
        BY <2>1, <2>4, <2>6, <3>2 DEF BatchInv
    <2>7. QED
      BY <2>5, <2>6
  <1>4. CASE Reject
    <2>1. pc' # "solve" /\ batches' = {} /\ batchsize' = batchsize
      BY <1>4, AdvanceTarget DEF Reject
    <2>2. BatchLimit' = BatchLimit
      BY <2>1 DEF BatchLimit
    <2>3. QED
      BY <1>0, <2>1, <2>2, FS_EmptySet DEF BatchInv
  <1>5. ASSUME NEW answer \in Answer, NEW effort \in Efforts,
               NEW l \in 1..MaxLimit, Accept(answer, effort, l)
        PROVE  BatchInv'
    <2>1. pc' # "solve" /\ batches' = {} /\ batchsize' = batchsize
      BY <1>5, AdvanceTarget DEF Accept
    <2>2. BatchLimit' = BatchLimit
      BY <2>1 DEF BatchLimit
    <2>3. QED
      BY <1>0, <2>1, <2>2, FS_EmptySet DEF BatchInv
  <1>6. CASE Finish
    BY <1>6 DEF Finish, BatchInv
  <1>7. CASE Adapt
    BY <1>7 DEF Adapt, BatchInv
  <1>8. CASE UNCHANGED brvars
    BY <1>0, <1>8 DEF brvars, BatchInv, BatchLimit, AtLast
  <1>9. QED
    BY <1>1, <1>2, <1>3, <1>4, <1>5, <1>6, <1>7, <1>8 DEF Run

-------------------------------------------------------------------------------
(***************************************************************************)
(* The batches of a modifier cover its reductions, also when the number of *)
(* batches is so large that the ceiled division wraps around: a negative   *)
(* size ends the run, and size zero is treated as one.                     *)
(***************************************************************************)
LEMMA Ceiling ==
  ASSUME NEW a \in Nat, NEW b \in Nat \ {0}
  PROVE  ((b - 1 + a) \div b) * b >= a
  <1> DEFINE q == (b - 1 + a) \div b
             r == (b - 1 + a) % b
  <1>1. q \in Int /\ b - 1 + a = b * q + r /\ r \in 0..(b - 1)
    OBVIOUS
  <1>2. q * b = b * q
    BY <1>1
  <1>3. QED
    BY <1>1, <1>2

(* Quotient and remainder.                                                 *)
LEMMA DivMod ==
  ASSUME NEW a \in Nat, NEW b \in Nat \ {0}
  PROVE  /\ a \div b \in Nat /\ a % b \in 0..(b - 1)
         /\ a = b * (a \div b) + (a % b)
  <1>1. /\ a \div b \in Int /\ a % b \in 0..(b - 1)
        /\ a = b * (a \div b) + (a % b)
    OBVIOUS
  <1>2. a \div b >= 0
    <2>1. SUFFICES ASSUME a \div b <= -1
                   PROVE  FALSE
      BY <1>1
    <2>2. b * (a \div b) <= b * (-1)
      BY <1>1, <2>1
    <2>3. QED
      BY <1>1, <2>2
  <1>3. QED
    BY <1>1, <1>2

(* The remainder of a number that is less than twice the divisor.          *)
LEMMA Remainder ==
  ASSUME NEW a \in Nat, NEW b \in Nat \ {0}, a < 2 * b
  PROVE  a % b = IF a < b THEN a ELSE a - b
  <1> DEFINE q == a \div b
             r == a % b
  <1>1. q \in Nat /\ r \in 0..(b - 1) /\ a = b * q + r
    BY DivMod
  <1>2. q \in {0, 1}
    <2>1. SUFFICES ASSUME q >= 2
                   PROVE  FALSE
      BY <1>1
    <2>2. b * q >= b * 2
      BY <1>1, <2>1
    <2>3. QED
      BY <1>1, <2>2
  <1>3. QED
    BY <1>1, <1>2

(* What a sum of two numbers of 64 bits wraps to.                          *)
LEMMA Wrapping ==
  ASSUME NEW x \in 0..(2 * LLMax)
  PROVE  Wrapped(x) = IF x <= LLMax THEN x ELSE x - 2 * LLMax - 2
  <1> DEFINE M == 2 * LLMax + 2
             y == x + LLMax + 1
  <1>1. M \in Nat \ {0} /\ y \in Nat /\ y < 2 * M
    OBVIOUS
  <1>2. y % M = IF y < M THEN y ELSE y - M
    BY <1>1, Remainder
  <1>3. Wrapped(x) = (y % M) - LLMax - 1
    BY DEF Wrapped
  <1>4. QED
    BY <1>2, <1>3

(* The batches of a run, full ones, cover its reductions.                  *)
LEMMA BatchesCover ==
  ASSUME nbatches \in 1..LLMax, NEW n \in Nat, 2 * n <= LLMax,
         BatchSize(n) >= 0
  PROVE  n <= nbatches * (IF BatchSize(n) >= 1 THEN BatchSize(n) ELSE 1)
  <1> DEFINE x == nbatches - 1 + n
             size == BatchSize(n)
  <1>1. x \in 0..(2 * LLMax) /\ x \in Int /\ nbatches \in Nat \ {0}
    OBVIOUS
  <1>2. Wrapped(x) = IF x <= LLMax THEN x ELSE x - 2 * LLMax - 2
    BY <1>1, Wrapping
  <1>3. size = Quotient(Wrapped(x), nbatches) /\ size \in Int
    BY <1>1, BatchSizeType DEF BatchSize
  <1>4. CASE x <= LLMax
    <2>1. size = x \div nbatches
      BY <1>1, <1>2, <1>3, <1>4 DEF Quotient
    <2>2. size * nbatches >= n
      BY <1>1, <2>1, Ceiling
    <2>3. nbatches * size >= n
      BY <1>3, <2>2
    <2>4. CASE size >= 1
      BY <2>3, <2>4
    <2>5. CASE size < 1
      <3>1. size = 0
        BY <1>3, <2>5
      <3>2. n <= 0
        BY <2>3, <3>1
      <3>3. nbatches * 1 >= n /\ ~ (size >= 1)
        BY <1>1, <1>3, <2>5, <3>2
      <3>4. QED
        BY <3>3
    <2>6. QED
      BY <1>3, <2>4, <2>5
  <1>5. CASE x > LLMax
    <2> DEFINE w == 2 * LLMax + 2 - x
    <2>1. w \in Nat \ {0} /\ Wrapped(x) = -w
      BY <1>1, <1>2, <1>5
    <2>2. size = -(w \div nbatches)
      BY <1>1, <1>3, <2>1 DEF Quotient
    <2>3. w \div nbatches \in Nat
      BY <1>1, <2>1
    <2>4. w \div nbatches = 0 /\ size = 0
      BY <2>2, <2>3
    <2>5. w < nbatches
      BY <1>1, <2>1, <2>4
    <2>6. n <= nbatches
      BY <2>5
    <2>7. QED
      BY <2>4, <2>6
  <1>6. QED
    BY <1>1, <1>4, <1>5

(* A modifier has at most one reduction for every entry of its layout. *)
LEMMA CountBound ==
  ASSUME NEW m \in Modifiers
  PROVE  2 * Count(m) <= LLMax
  <1> DEFINE L == Layout[m]
  <1>1. L \in Seq(Reduction) /\ Len(L) \in Nat /\ L \in [1..Len(L) -> Entries(m)]
    BY LayoutAssumption DEF Entries
  <1>2. L \in Surjection(1..Len(L), Entries(m))
    BY <1>1 DEF Surjection, Entries
  <1>3. IsFiniteSet(1..Len(L)) /\ Cardinality(1..Len(L)) = Len(L)
    <2>1. 1 \in Int /\ Len(L) \in Int
      BY <1>1
    <2>2. /\ IsFiniteSet(1..Len(L))
          /\ Cardinality(1..Len(L)) = IF 1 > Len(L) THEN 0 ELSE Len(L) - 1 + 1
      BY <2>1, FS_Interval, Zenon
    <2>3. QED
      BY <1>1, <2>2
  <1>4. IsFiniteSet(Entries(m)) /\ Cardinality(Entries(m)) <= Len(L)
    BY <1>2, <1>3, FS_Surjection
  <1>5. AdmissibleEntries(problem, m) \subseteq Entries(m)
    BY DEF AdmissibleEntries
  <1>6. Count(m) <= Cardinality(Entries(m))
    BY <1>4, <1>5, FS_Subset DEF Count
  <1>7. Cardinality(Entries(m)) \in Nat /\ Count(m) \in Nat
    BY <1>4, FS_CardinalityType, CountType
  <1>8. QED
    BY <1>1, <1>4, <1>6, <1>7, CountsAssumption

-------------------------------------------------------------------------------
(* Every call but the last takes a full batch. *)
LEMMA Calls ==
  ASSUME NEW a \in Nat, NEW b \in Nat \ {0}
  PROVE  /\ a * b \in Nat
         /\ (a + 1) * b = a * b + b
         /\ (a - 1) * b = a * b - b
  OBVIOUS

(* After an answer of the solver. *)
LEMMA AnswerCalls ==
  ASSUME IInv, pc = "solve", Advance, batches' = {}, calls' = calls + 1,
         UNCHANGED <<current, problem, batchsize, nbatches>>
  PROVE  CallsInv'
  <1>1. /\ TypeOK /\ CallsInv /\ BatchInv /\ PendingInv
        /\ calls \in Nat /\ BatchLimit \in Nat \ {0}
    <2>1. TypeOK /\ CallsInv /\ BatchInv /\ PendingInv
      BY DEF IInv, CopyIInv
    <2>2. calls \in Nat
      BY <2>1 DEF TypeOK
    <2>3. QED
      BY <2>1, <2>2, BatchLimitType
  <1>2. IsFiniteSet(batches) /\ Cardinality(batches) \in Nat /\ batches # {}
    BY <1>1, BatchType DEF PendingInv
  <1>3. Cardinality(batches) >= 1
    BY <1>2, FS_EmptySet
  <1>4. Visited' = Visited
    BY <1>1, VisitNone
  <1>5. VisitedAdmissible' = VisitedAdmissible
    BY <1>4 DEF VisitedAdmissible, Admissible
  <1>6. /\ Cardinality(VisitedAdmissible) \in Nat /\ Count(current) \in Nat
        /\ Cardinality(VisitedAdmissible) <= Count(current)
    BY <1>1, VisitedType
  <1>7. Count(current)' = Count(current) /\ BatchLimit' = BatchLimit
    BY DEF Count, AdmissibleEntries, Admissible, BatchLimit
  <1>8. calls * BatchLimit + Cardinality(batches) <= Cardinality(VisitedAdmissible)
    BY <1>1 DEF CallsInv, Running
  <1>9. IF nbatches > 0 THEN Count(current) <= nbatches * BatchLimit
                        ELSE BatchLimit = 1
    BY <1>1 DEF CallsInv, Running
  <1>10. /\ calls * BatchLimit \in Nat
         /\ calls' * BatchLimit = calls * BatchLimit + BatchLimit
         /\ calls' - 1 = calls
    BY <1>1, Calls
  <1>11. CASE pc' = "scan"
    <2>1. Cardinality(batches) = BatchLimit
      BY <1>1, <1>11 DEF BatchInv, Advance
    <2>2. calls' * BatchLimit + 0 <= Cardinality(VisitedAdmissible)
      BY <1>1, <1>6, <1>8, <1>10, <2>1
    <2>3. QED
      BY <1>5, <1>7, <1>9, <1>11, <2>2, FS_EmptySet DEF CallsInv
  <1>12. CASE pc' = "finish"
    <2>1. (calls' - 1) * BatchLimit < Count(current)
      BY <1>2, <1>3, <1>6, <1>8, <1>10
    <2>2. QED
      BY <1>7, <1>9, <1>12, <2>1 DEF CallsInv
  <1>13. QED
    BY <1>11, <1>12 DEF Advance

(* Every step of a modifier keeps the count of its calls.                  *)
LEMMA StepCalls ==
  ASSUME IInv, CopyIInv', [Run \/ Adapt]_brvars
  PROVE  CallsInv'
  <1>0. TypeOK /\ TypeOK' /\ CallsInv
    BY DEF IInv, CopyIInv
  <1> USE DEF fixed, instance, report, history
  <1>1. ASSUME NEW m \in Modifiers, Skip(m)
        PROVE  CallsInv'
    BY <1>1 DEF Skip, CallsInv, Running
  <1>2. ASSUME NEW m \in Modifiers, Begin(m)
        PROVE  CallsInv'
    <2>1. /\ pc' \in {"thrown", "finish", "scan"} /\ position' = 1
          /\ batches' = {} /\ calls' = 0 /\ current' = m
          /\ batchsize' = BatchSize(Count(m))
          /\ UNCHANGED <<problem, nbatches>>
      BY <1>2 DEF Begin
    <2>2. Count(current)' = Count(m)
      BY <2>1 DEF Count, AdmissibleEntries, Admissible
    <2>3. Count(m) \in Nat /\ 2 * Count(m) <= LLMax
      BY CountType, CountBound
    <2>4. nbatches \in 0..LLMax /\ (pc' # "thrown" => batchsize' >= 0)
      BY <1>0 DEF TypeOK
    <2>5. SUFFICES ASSUME pc' # "thrown"
                   PROVE  CallsInv'
      BY DEF CallsInv, Running
    <2>6. IF nbatches > 0 THEN Count(m) <= nbatches * BatchLimit' ELSE BatchLimit' = 1
      <3>1. CASE nbatches > 0
        BY <2>1, <2>3, <2>4, <2>5, <3>1, BatchesCover DEF BatchLimit
      <3>2. CASE nbatches = 0
        BY <2>1, <3>2 DEF BatchLimit, BatchSize
      <3>3. QED
        BY <2>4, <3>1, <3>2
    <2>7. CASE pc' = "scan"
      <3>1. VisitedAdmissible' = {}
        BY <2>1, <2>7 DEF Visited, VisitedAdmissible
      <3>2. BatchLimit' \in Nat
        <4>1. batchsize' \in Int
          BY <1>0 DEF TypeOK
        <4>2. QED
          BY <4>1 DEF BatchLimit
      <3>3. calls' * BatchLimit' + Cardinality(batches')
              <= Cardinality(VisitedAdmissible')
        BY <2>1, <3>1, <3>2, FS_EmptySet
      <3>4. QED
        BY <2>1, <2>2, <2>6, <2>7, <3>3 DEF CallsInv
    <2>8. CASE pc' = "finish"
      BY <2>1, <2>2, <2>6, <2>8 DEF CallsInv
    <2>9. QED
      BY <2>1, <2>5, <2>7, <2>8
  <1>3. CASE Scan
    <2> DEFINE e == Layout[current][position]
    <2>1. /\ pc = "scan"
          /\ UNCHANGED <<current, problem, batchsize, nbatches, calls>>
          /\ pc' \in {"scan", "solve", "finish"}
          /\ (pc' = "solve" /\ position' = position) \/ Advance
      BY <1>3, AdvanceTarget DEF Scan
    <2>2. /\ BatchLimit' = BatchLimit /\ BatchLimit \in Nat \ {0}
          /\ Count(current)' = Count(current) /\ calls \in Nat
      BY <1>0, <2>1, BatchLimitType
      DEF BatchLimit, Count, AdmissibleEntries, Admissible, TypeOK
    <2>3. /\ e \notin Visited /\ Visited' = Visited \cup {e}
          /\ Admissible(copy, e) <=> Admissible(problem, e)
      BY <1>0, <2>1, VisitOne, CopyAgrees
    <2>4. /\ IsFiniteSet(batches) /\ Cardinality(batches) \in Nat
          /\ IsFiniteSet(VisitedAdmissible)
          /\ Cardinality(VisitedAdmissible) \in Nat /\ Count(current) \in Nat
      BY <1>0, BatchType, VisitedType
    <2>5. calls * BatchLimit + Cardinality(batches) <= Cardinality(VisitedAdmissible)
      BY <1>0, <2>1 DEF CallsInv, Running
    <2>6. /\ Cardinality(batches') \in Nat /\ Cardinality(VisitedAdmissible') \in Nat
          /\ Cardinality(batches') - Cardinality(batches)
               <= Cardinality(VisitedAdmissible') - Cardinality(VisitedAdmissible)
      <3>1. CASE Admissible(copy, e)
        <4>1. batches' = batches \cup {e}
          BY <1>3, <3>1 DEF Scan
        <4>2. VisitedAdmissible' = VisitedAdmissible \cup {e}
          BY <2>1, <2>3, <3>1 DEF VisitedAdmissible, Admissible
        <4>3. e \notin VisitedAdmissible
          BY <2>3 DEF VisitedAdmissible
        <4>4. Cardinality(VisitedAdmissible') = Cardinality(VisitedAdmissible) + 1
          BY <2>4, <4>2, <4>3, FS_AddElement
        <4>5. Cardinality(batches') =
                IF e \in batches THEN Cardinality(batches) ELSE Cardinality(batches) + 1
          BY <2>4, <4>1, FS_AddElement
        <4>6. QED
          BY <2>4, <4>4, <4>5
      <3>2. CASE ~ Admissible(copy, e)
        <4>1. batches' = batches
          BY <1>3, <3>2 DEF Scan
        <4>2. VisitedAdmissible' = VisitedAdmissible
          BY <2>1, <2>3, <3>2 DEF VisitedAdmissible, Admissible
        <4>3. QED
          BY <2>4, <4>1, <4>2
      <3>3. QED
        BY <3>1, <3>2
    <2>7. calls * BatchLimit \in Nat
      BY <2>2, Calls
    <2>8. calls * BatchLimit + Cardinality(batches') <= Cardinality(VisitedAdmissible')
      BY <2>4, <2>5, <2>6, <2>7
    <2>9. (calls - 1) * BatchLimit < Count(current)
      <3>1. Cardinality(VisitedAdmissible) <= Count(current)
        BY <1>0, VisitedType
      <3>2. (calls - 1) * BatchLimit = calls * BatchLimit - BatchLimit
        BY <2>2, Calls
      <3>3. QED
        BY <2>2, <2>4, <2>5, <2>7, <3>1, <3>2
    <2>10. IF nbatches > 0 THEN Count(current) <= nbatches * BatchLimit
                           ELSE BatchLimit = 1
      BY <1>0, <2>1 DEF CallsInv, Running
    <2>11. QED
      BY <2>1, <2>2, <2>8, <2>9, <2>10 DEF CallsInv
  <1>4. CASE Reject
    BY <1>4, AnswerCalls DEF Reject
  <1>5. ASSUME NEW answer \in Answer, NEW effort \in Efforts,
               NEW l \in 1..MaxLimit, Accept(answer, effort, l)
        PROVE  CallsInv'
    BY <1>5, AnswerCalls DEF Accept
  <1>6. CASE Finish
    BY <1>6 DEF Finish, CallsInv, Running
  <1>7. CASE Adapt
    BY <1>7 DEF Adapt, CallsInv, Running
  <1>8. CASE UNCHANGED brvars
    <2>1. UNCHANGED <<pc, current, nbatches, problem, batches, batchsize, position,
                      calls>>
      BY <1>8 DEF brvars
    <2>2. VisitedAdmissible' = VisitedAdmissible
      BY <2>1 DEF VisitedAdmissible, Visited, Admissible
    <2>3. BatchLimit' = BatchLimit /\ Count(current)' = Count(current)
      BY <2>1 DEF BatchLimit, Count, AdmissibleEntries, Admissible
    <2>4. QED
      BY <1>0, <2>1, <2>2, <2>3 DEF CallsInv, Running
  <1>9. QED
    BY <1>1, <1>2, <1>3, <1>4, <1>5, <1>6, <1>7, <1>8 DEF Run

-------------------------------------------------------------------------------
(* What the scan leaves is what was rejected. *)
LEMMA StepRemaining ==
  ASSUME IInv, CopyIInv', [Run \/ Adapt]_brvars
  PROVE  RemainingRejected'
  <1>0. /\ TypeOK /\ CopyInv /\ LimitInv /\ PendingInv /\ ScanInv
        /\ RemainingRejected
    BY DEF IInv, CopyIInv
  <1> USE DEF fixed, instance, report, history
  <1>1. ASSUME NEW m \in Modifiers, Skip(m)
        PROVE  RemainingRejected'
    <2>1. /\ status' \in {kDidNotRun, kNotAdmissible}
          /\ status' = kNotAdmissible => Refused(m)
          /\ current' = m /\ UNCHANGED <<problem, solution>>
      BY <1>1 DEF Skip
    <2>2. Count(m) = 0 => AdmissibleEntries(problem, m) = {}
      <3>1. AdmissibleEntries(problem, m) \subseteq Reduction
        BY EntryType DEF AdmissibleEntries
      <3>2. IsFiniteSet(AdmissibleEntries(problem, m))
        BY <3>1, FS_Subset
      <3>3. QED
        BY <3>2, FS_EmptySet DEF Count
    <2>3. AdmissibleEntries(problem', current') = AdmissibleEntries(problem, m)
      BY <2>1
    <2>4. QED
      BY <2>1, <2>2, <2>3 DEF RemainingRejected, Refused
  <1>2. ASSUME NEW m \in Modifiers, Begin(m)
        PROVE  RemainingRejected'
    BY <1>2 DEF Begin, RemainingRejected
  <1>3. CASE Scan
    BY <1>3, AdvanceTarget DEF Scan, RemainingRejected
  <1>4. CASE Reject
    BY <1>4, AdvanceTarget DEF Reject, RemainingRejected
  <1>5. ASSUME NEW answer \in Answer, NEW effort \in Efforts,
               NEW l \in 1..MaxLimit, Accept(answer, effort, l)
        PROVE  RemainingRejected'
    BY <1>5, AdvanceTarget DEF Accept, RemainingRejected
  <1>6. CASE Finish
    <2>1. /\ pc = "finish" /\ status' = FinalStatus
          /\ UNCHANGED <<current, solution, applied, batchsize, admissible, rejected>>
          /\ IF FinalStatus = kSuccessful
               THEN problem' = copy /\ limit' = trial ELSE UNCHANGED <<problem, limit>>
      BY <1>6 DEF Finish
    <2>2. /\ copy = problem \cup applied /\ batches = {}
          /\ Visited = Entries(current) /\ applied \subseteq Entries(current)
      BY <1>0, <2>1 DEF CopyInv, PendingInv, ScanInv, Running
    <2>3. /\ admissible \in BOOLEAN /\ current \in Modifiers
          /\ ~ admissible => applied = {} /\ rejected = {}
      BY <1>0, <2>1 DEF PendingInv, ScanInv, Running, TypeOK
    <2>4. problem' = problem \cup applied
      <3>1. CASE FinalStatus = kSuccessful
        BY <2>1, <2>2, <3>1
      <3>2. CASE FinalStatus # kSuccessful
        BY <2>1, <2>3, <3>2 DEF FinalStatus
      <3>3. QED
        BY <3>1, <3>2
    <2>5. ASSUME NEW x \in AdmissibleEntries(problem', current)
          PROVE  \E r \in rejected : x \in r[1]
      <3>1. x \in Entries(current) /\ Admissible(problem', x)
        BY DEF AdmissibleEntries
      <3>2. Opens[x] \cap Entries(current) = {} /\ Bars[x] \cap Entries(current) = {}
        BY <2>3, <3>1, LayoutAssumption
      <3>3. /\ x \notin problem \cup applied
            /\ Opens[x] \cap (problem \cup applied) = Opens[x] \cap problem
            /\ Bars[x] \cap (problem \cup applied) = Bars[x] \cap problem
        BY <2>2, <2>4, <3>1, <3>2 DEF Admissible
      <3>4. Admissible(problem, x)
        BY <2>4, <3>1, <3>3 DEF Admissible
      <3>5. x \in VisitedAdmissible
        BY <2>2, <3>1, <3>4 DEF VisitedAdmissible
      <3>6. QED
        BY <1>0, <2>1, <2>2, <3>3, <3>5 DEF ScanInv, Running
    <2>6. CASE FinalStatus = kNotAdmissible
      <3>1. rejected = {}
        BY <2>3, <2>6 DEF FinalStatus
      <3>2. AdmissibleEntries(problem', current') = {}
        BY <2>1, <2>5, <3>1
      <3>3. QED
        BY <2>1, <2>6, <3>2 DEF RemainingRejected
    <2>7. CASE FinalStatus # kNotAdmissible
      <3>1. FinalStatus = kUnsuccesful => applied = {} /\ UNCHANGED <<problem, limit>>
        BY <2>1 DEF FinalStatus
      <3>2. ASSUME NEW r \in rejected
            PROVE  /\ Cardinality(r[1] \ problem') <= BatchLimit'
                   /\ FinalStatus = kUnsuccesful => problem' \subseteq r[1]
                                                    /\ r[2] = limit'
        BY <1>0, <2>1, <2>4, <3>1 DEF ScanInv, Running, BatchLimit
      <3>3. QED
        BY <2>1, <2>5, <2>7, <3>2 DEF RemainingRejected
    <2>8. QED
      BY <2>6, <2>7
  <1>7. CASE Adapt
    BY <1>0, <1>7 DEF Adapt, RemainingRejected, AdmissibleEntries, Admissible,
                      BatchLimit
  <1>8. CASE UNCHANGED brvars
    BY <1>0, <1>8 DEF brvars, RemainingRejected, AdmissibleEntries, Admissible,
                      BatchLimit
  <1>9. QED
    BY <1>1, <1>2, <1>3, <1>4, <1>5, <1>6, <1>7, <1>8 DEF Run

-------------------------------------------------------------------------------
(* The invariant of a modifier holds at first.                             *)
LEMMA InitIInv == Init => IInv
  <1> SUFFICES ASSUME Init PROVE IInv
    OBVIOUS
  <1>1. pc = "idle" /\ status = kDidNotRun
    BY DEF Init
  <1>2. QED
    BY <1>1, InitCopy DEF IInv, ScanInv, BatchInv, CallsInv, RemainingRejected, Running

(* Every step of a modifier keeps its invariant.                           *)
LEMMA StepIInv == IInv /\ [Run \/ Adapt]_brvars => IInv'
  <1> SUFFICES ASSUME IInv, [Run \/ Adapt]_brvars
               PROVE  IInv'
    OBVIOUS
  <1>1. CopyIInv'
    BY StepCopy DEF IInv
  <1>2. QED
    BY <1>1, StepScan, StepBatch, StepCalls, StepRemaining DEF IInv

(* The inductive invariant holds in every reachable state. *)
THEOREM Inductive == BRSpec => []IInv
  BY InitIInv, StepIInv, PTL DEF BRSpec

(***************************************************************************)
(* No reduction is left untried: what the modifier still finds possible    *)
(* was part of a batch without the bug, which for an unsuccessful run was  *)
(* tried on the very instance that remains.  This is what makes the final  *)
(* instance of the main loop minimal.                                      *)
(***************************************************************************)
THEOREM LeavesNothingUntried == BRSpec => []RemainingRejected
  BY Inductive, PTL DEF IInv

(***************************************************************************)
(* The solver is called at most nbatches times in a run, or once for every *)
(* reduction, for every layout, even when the batch size wraps around.     *)
(***************************************************************************)
THEOREM CallsBounded == BRSpec => []SolveBound
  <1>1. IInv => SolveBound
    <2> SUFFICES ASSUME IInv, Running
                 PROVE  calls <= IF nbatches > 0 THEN nbatches ELSE Count(current)
      BY DEF SolveBound, Running
    <2>1. /\ TypeOK /\ CallsInv /\ calls \in Nat /\ nbatches \in Nat
          /\ BatchLimit \in Nat \ {0}
      BY BatchLimitType DEF IInv, CopyIInv, TypeOK
    <2>2. /\ Count(current) \in Nat /\ Cardinality(VisitedAdmissible) \in Nat
          /\ Cardinality(VisitedAdmissible) <= Count(current)
          /\ Cardinality(batches) \in Nat
      BY <2>1, VisitedType, BatchType
    <2>3. IF nbatches > 0 THEN Count(current) <= nbatches * BatchLimit
                         ELSE BatchLimit = 1
      BY <2>1 DEF CallsInv
    <2>4. calls = 0 \/ (calls - 1) * BatchLimit < Count(current)
      <3>1. CASE pc \in {"scan", "solve"}
        <4>1. calls * BatchLimit + Cardinality(batches) <= Cardinality(VisitedAdmissible)
          BY <2>1, <3>1 DEF CallsInv, Running
        <4>2. /\ calls * BatchLimit \in Nat
              /\ (calls - 1) * BatchLimit = calls * BatchLimit - BatchLimit
          BY <2>1, Calls
        <4>3. QED
          BY <2>1, <2>2, <4>1, <4>2
      <3>2. CASE pc = "finish"
        BY <2>1, <3>2 DEF CallsInv, Running
      <3>3. QED
        BY <3>1, <3>2 DEF Running
    <2>5. CASE nbatches > 0
      <3>1. SUFFICES ASSUME calls > nbatches
                     PROVE  FALSE
        BY <2>1, <2>5
      <3>2. (calls - 1) * BatchLimit < nbatches * BatchLimit
        <4>1. nbatches * BatchLimit \in Int /\ (calls - 1) * BatchLimit \in Int
          BY <2>1
        <4>2. QED
          BY <2>1, <2>2, <2>3, <2>4, <2>5, <3>1, <4>1
      <3>3. nbatches * BatchLimit <= (calls - 1) * BatchLimit
        BY <2>1, <3>1
      <3>4. nbatches * BatchLimit \in Int /\ (calls - 1) * BatchLimit \in Int
        BY <2>1
      <3>5. QED
        BY <3>2, <3>3, <3>4
    <2>6. CASE nbatches = 0
      <3>1. (calls - 1) * BatchLimit = calls - 1
        BY <2>1, <2>3, <2>6
      <3>2. QED
        BY <2>1, <2>2, <2>4, <2>6, <3>1
    <2>7. QED
      BY <2>1, <2>5, <2>6
  <1>2. QED
    BY Inductive, <1>1, PTL

-------------------------------------------------------------------------------
(* The loop around the modifiers. *)
HIDE RangesAssumption
  DEF kDidNotRun, kNotAdmissible, kUnsuccesful, kSuccessful, ModifierStatus,
      Retcode, Answer, SolutionStatus

USE RangesAssumption, ModifiersAssumption, LoopAssumption
  DEF Loop!kDidNotRun, Loop!kNotAdmissible, Loop!kUnsuccesful, Loop!kSuccessful,
      Loop!ModifierStatus, Loop!Modifier, Loop!Retcode

(* The size of the instance, as the loop sees it. *)
Size == Cardinality(Reduction \ problem)

(* The size of an instance is a number, and bounded.                       *)
LEMMA SizeType ==
  /\ MaxSize \in Nat
  /\ Size \in Nat
  /\ Size <= MaxSize
  <1>1. IsFiniteSet(Reduction)
    BY RangesAssumption
  <1>2. QED
    BY <1>1, FS_Subset, FS_CardinalityType DEF Size, MaxSize

USE SizeType DEF Size

(* The start that main() makes of the parameters.                          *)
LEMMA EffectiveLimits ==
  ASSUME NEW init \in Int, NEW max \in Nat
  PROVE  /\ Loop!EffectiveStart(init, max) \in Nat
         /\ Loop!EffectiveStart(init, max) <= max
         /\ max > 0 => Loop!EffectiveStart(init, max) < max
  BY DEF Loop!EffectiveStart, Loop!MaxOf

(* What was tried up to an index, and the index. *)
LEMMA IntervalGrows ==
  ASSUME NEW first \in Int, NEW last \in Int, NEW S, first..(last - 1) \subseteq S
  PROVE  first..last \subseteq S \cup {last}
  OBVIOUS

(* The maxima that main() makes of the parameters.                         *)
LEMMA EffectiveMaxima ==
  ASSUME NEW max \in Int
  PROVE  /\ Loop!EffectiveMaxRounds(max) \in Nat
         /\ Loop!EffectiveMaxStages(max) \in 0..NModifiers
  BY DEF Loop!EffectiveMaxRounds, Loop!EffectiveMaxStages

(* Where the rounds and stages start and end.                              *)
LEMMA InitLimits ==
  ASSUME Loop!Init
  PROVE  /\ maxrounds \in Nat /\ maxstages \in 0..NModifiers
         /\ initround \in Nat /\ initround <= maxrounds
         /\ initstage \in Nat /\ initstage <= maxstages
         /\ maxstages > 0 => initstage < maxstages
  <1>1. PICK maxr \in RoundLimits, initr \in RoundLimits :
          /\ maxrounds = Loop!EffectiveMaxRounds(maxr)
          /\ initround = Loop!EffectiveStart(initr, maxrounds)
    BY DEF Loop!Init
  <1>2. PICK maxs \in StageLimits, inits \in StageLimits :
          /\ maxstages = Loop!EffectiveMaxStages(maxs)
          /\ initstage = Loop!EffectiveStart(inits, maxstages)
    BY DEF Loop!Init
  <1>3. /\ maxr \in Int /\ initr \in Int /\ maxs \in Int /\ inits \in Int
    OBVIOUS
  <1>4. maxrounds \in Nat /\ maxstages \in 0..NModifiers
    BY <1>1, <1>2, <1>3, EffectiveMaxima
  <1>5. initround \in Nat /\ initround <= maxrounds
    BY <1>1, <1>3, <1>4, EffectiveLimits
  <1>6. /\ initstage \in Nat /\ initstage <= maxstages
        /\ maxstages > 0 => initstage < maxstages
    BY <1>2, <1>3, <1>4, EffectiveLimits
  <1>7. QED
    BY <1>4, <1>5, <1>6

(* The first state of the loop is typed.                                   *)
LEMMA LoopInitType == Loop!Init => Loop!TypeOK
  <1> SUFFICES ASSUME Loop!Init PROVE Loop!TypeOK
    OBVIOUS
  <1>1. /\ maxrounds \in Nat /\ maxstages \in 0..NModifiers
        /\ initround \in Nat /\ initstage \in Nat
    BY InitLimits
  <1>2. Loop!instance \in Loop!Instances
    <2>1. Size \in 0..MaxSize /\ before = MaxLimit
      BY DEF Loop!Init
    <2>2. QED
      BY <2>1 DEF Loop!instance, Loop!Instances
  <1>3. expenditure \in Int /\ nbatches \in Int
    BY DEF Loop!Init
  <1>4. results \in [Loop!Modifier -> Loop!ModifierStatus]
    BY DEF Loop!Init
  <1>5. /\ round \in Nat /\ stage \in Nat /\ success \in Nat /\ modifier \in Nat
        /\ last_round \in Nat \cup {-1} /\ last_modifier \in Loop!Modifier \cup {-1}
        /\ final_result \in Loop!Retcode /\ final_effort \in Int
    BY <1>1 DEF Loop!Init
  <1>6. /\ enabled \subseteq Loop!Modifier /\ tried \subseteq Loop!Modifier
        /\ written \in Loop!Instances \cup {<<>>} /\ expired \in BOOLEAN
    BY DEF Loop!Init
  <1>7. QED
    BY <1>1, <1>2, <1>3, <1>4, <1>5, <1>6 DEF Loop!Init, Loop!TypeOK

-------------------------------------------------------------------------------
(* Each action preserves the types. *)
LEMMA LoopStepType ==
  ASSUME Loop!TypeOK, [Loop!Next]_(Loop!vars)
  PROVE  Loop!TypeOK'
  <1> USE DEF Loop!TypeOK, Loop!instance, Loop!Instances, Loop!parameters, Loop!loopvars, Loop!lastvars
  <1>1. CASE Loop!SkipOriginal
    BY <1>1 DEF Loop!SkipOriginal, Loop!MaxOf
  <1>2. CASE Loop!SolveOriginal
    <2>1. PICK code \in Loop!Retcode, effort \in Efforts, l \in 1..before :
            /\ final_result' = code
            /\ final_effort' = effort
            /\ before' = l
            /\ IF mode # 0 /\ expenditure < 0
                 THEN expenditure' \in Loop!OriginalExpenditure(effort)
                 ELSE UNCHANGED expenditure
      BY <1>2 DEF Loop!SolveOriginal
    <2>2. Loop!OriginalExpenditure(effort) \subseteq Int
      BY DEF Loop!OriginalExpenditure, Loop!Wrapped
    <2>3. expenditure' \in Int
      BY <2>1, <2>2
    <2>4. QED
      BY <1>2, <2>1, <2>3 DEF Loop!SolveOriginal
  <1>3. CASE Loop!WriteInstance
    <2>1. Loop!AdaptedBatches(final_effort) \in Int
      BY DEF Loop!AdaptedBatches
    <2>2. nbatches' \in Int /\ modifier' \in Nat /\ phase' \in {"done", "modify"}
      BY <1>3, <2>1 DEF Loop!WriteInstance
    <2>3. QED
      BY <1>3, <2>2 DEF Loop!WriteInstance, Loop!WrittenInstance
  <1>4. CASE Loop!LeaveLoop
    BY <1>4 DEF Loop!LeaveLoop
  <1>5. ASSUME NEW m \in Loop!Modifier, Loop!Succeed(m)
        PROVE  Loop!TypeOK'
    <2>1. /\ stage' = stage /\ success' = m /\ modifier' = m + 1
          /\ last_round' = round /\ last_modifier' = m
          /\ results' = [results EXCEPT ![m] = Loop!kSuccessful]
      BY <1>5 DEF Loop!Succeed, Loop!Bookkeep, Loop!Record
    <2>2. PICK v \in 0..(Size - 1), l \in 1..before,
               effort \in Efforts \cup {-1}, code \in Loop!Retcode :
            /\ Size' = v /\ before' = l
            /\ Loop!TakeReport(code, effort)
      BY <1>5 DEF Loop!Succeed
    <2>3. /\ Size' \in 0..MaxSize /\ before' \in 1..MaxLimit
          /\ final_effort' \in Int /\ final_result' \in Loop!Retcode
      BY <2>2 DEF Loop!TakeReport
    <2>4. /\ UNCHANGED <<phase, Loop!parameters, expenditure, nbatches, round,
                         written, expired>>
          /\ tried' = {}
      BY <1>5 DEF Loop!Succeed
    <2>5. results' \in [Loop!Modifier -> Loop!ModifierStatus]
      BY <2>1
    <2>6. /\ stage' \in Nat /\ success' \in Nat /\ modifier' \in Nat
          /\ last_round' \in Nat \cup {-1} /\ last_modifier' \in Loop!Modifier \cup {-1}
      BY <2>1
    <2>7. /\ Loop!instance' \in Loop!Instances' /\ tried' \subseteq Loop!Modifier
          /\ written' \in (Loop!Instances \cup {<<>>})'
      BY <2>3, <2>4
    <2>8. QED
      BY <2>3, <2>4, <2>5, <2>6, <2>7
  <1>6. ASSUME NEW m \in Loop!Modifier, Loop!FailModifier(m)
        PROVE  Loop!TypeOK'
    <2>1. /\ stage' \in Nat /\ success' \in Nat /\ modifier' \in Nat
          /\ results' \in [Loop!Modifier -> Loop!ModifierStatus]
          /\ UNCHANGED <<last_round, last_modifier>>
      <3>1. PICK outcome \in {Loop!kDidNotRun, Loop!kNotAdmissible, Loop!kUnsuccesful} :
              Loop!Bookkeep(m, outcome)
        BY <1>6 DEF Loop!FailModifier
      <3>2. outcome # Loop!kSuccessful /\ outcome \in Loop!ModifierStatus
        OBVIOUS
      <3>3. results' \in [Loop!Modifier -> Loop!ModifierStatus]
        BY <3>1, <3>2 DEF Loop!Bookkeep, Loop!Record
      <3>4. CASE Loop!EndsStage(m)
        BY <3>1, <3>2, <3>3, <3>4 DEF Loop!Bookkeep
      <3>5. CASE ~ Loop!EndsStage(m)
        BY <3>1, <3>2, <3>3, <3>5 DEF Loop!Bookkeep
      <3>6. QED
        BY <3>4, <3>5
    <2>2. tried' \subseteq Loop!Modifier
      BY <1>6 DEF Loop!FailModifier
    <2>3. UNCHANGED <<phase, Loop!parameters, expenditure, nbatches, round,
                      final_result, final_effort, Loop!instance, written, expired>>
      BY <1>6 DEF Loop!FailModifier
    <2>4. QED
      BY <2>1, <2>2, <2>3
  <1>7. CASE Loop!EndRound
    BY <1>7 DEF Loop!EndRound
  <1>8. CASE Loop!Expire
    BY <1>8 DEF Loop!Expire
  <1>9. CASE UNCHANGED Loop!vars
    BY <1>9 DEF Loop!vars
  <1>10. QED
    BY <1>1, <1>2, <1>3, <1>4, <1>5, <1>6, <1>7, <1>8, <1>9 DEF Loop!Next, Loop!Step

-------------------------------------------------------------------------------
(* The inductive invariant holds initially ... *)
LEMMA LoopInit == Loop!Init => LoopInv
  <1> SUFFICES ASSUME Loop!Init PROVE LoopInv
    OBVIOUS
  <1>1. Loop!TypeOK
    BY LoopInitType
  <1>a. /\ maxrounds \in Nat /\ maxstages \in 0..NModifiers
        /\ initround \in Nat /\ initround <= maxrounds
        /\ initstage \in Nat /\ initstage <= maxstages
        /\ maxstages > 0 => initstage < maxstages
    BY InitLimits
  <1>b. /\ phase = "original" /\ round = initround /\ stage = initstage
        /\ success = initstage /\ modifier = 0 /\ Size \in 0..MaxSize
        /\ final_result = "OKAY" /\ final_effort = -1
        /\ last_round = -1 /\ last_modifier = -1
        /\ written = <<>> /\ tried = {}
    BY DEF Loop!Init
  <1>2. Loop!IndexInv
    BY <1>a, <1>b DEF Loop!IndexInv
  <1>3. Loop!TriedInv
    BY <1>a, <1>b DEF Loop!TriedInv, Loop!Before, Loop!After
  <1>4. Loop!WrittenInv
    BY <1>a, <1>b DEF Loop!WrittenInv, Loop!RoundsShrink, Loop!LastWrittenIsFinal
  <1>5. QED
    BY <1>1, <1>2, <1>3, <1>4 DEF LoopInv

(* ... and every step preserves it. *)
LEMMA LoopStepInv ==
  ASSUME LoopInv, [Loop!Next]_(Loop!vars)
  PROVE  LoopInv'
  <1>1. Loop!TypeOK /\ Loop!TypeOK'
    BY LoopStepType DEF LoopInv
  <1> USE <1>1 DEF Loop!TypeOK, Loop!instance, Loop!Instances, Loop!parameters, Loop!loopvars, Loop!lastvars
  <1>2. CASE Loop!SkipOriginal
    <2> USE <1>2 DEF Loop!SkipOriginal, Loop!SolvesOriginal
    <2>1. Loop!IndexInv'
      BY DEF LoopInv, Loop!IndexInv
    <2>2. Loop!TriedInv'
      BY DEF LoopInv, Loop!IndexInv, Loop!TriedInv, Loop!Before, Loop!After
    <2>3. Loop!WrittenInv'
      BY DEF LoopInv, Loop!IndexInv, Loop!WrittenInv, Loop!RoundsShrink, Loop!LastWrittenIsFinal
    <2>4. QED
      BY <2>1, <2>2, <2>3 DEF LoopInv
  <1>3. CASE Loop!SolveOriginal
    <2> USE <1>3 DEF Loop!SolveOriginal, Loop!SolvesOriginal
    <2>1. Loop!IndexInv'
      BY DEF LoopInv, Loop!IndexInv
    <2>2. Loop!TriedInv'
      BY DEF LoopInv, Loop!IndexInv, Loop!TriedInv, Loop!Before, Loop!After
    <2>3. Loop!WrittenInv'
      BY DEF LoopInv, Loop!IndexInv, Loop!WrittenInv, Loop!RoundsShrink, Loop!LastWrittenIsFinal
    <2>4. QED
      BY <2>1, <2>2, <2>3 DEF LoopInv
  <1>4. CASE Loop!WriteInstance
    <2> USE <1>4 DEF Loop!WriteInstance, Loop!WrittenInstance, Loop!RoundLimitReached
    <2>1. Loop!IndexInv'
      BY DEF LoopInv, Loop!IndexInv
    <2>2. Loop!TriedInv'
      <3>1. Loop!After(success) \subseteq tried
        BY DEF LoopInv, Loop!TriedInv
      <3>2. (Loop!After(success) \cup Loop!Before(0)) = Loop!After(success)
        BY DEF Loop!Before
      <3>3. modifier' = 0 => Loop!Before(modifier)' = Loop!Before(0)
        BY DEF Loop!Before
      <3>4. Loop!After(success)' = Loop!After(success)
        BY DEF Loop!After
      <3>5. phase' = "modify" => modifier' = 0 /\ modifier' <= success'
        OBVIOUS
      <3>6. tried' = tried /\ stage' = stage /\ maxstages' = maxstages /\ stage < maxstages
        OBVIOUS
      <3>7. CASE phase' = "modify"
        <4>1. (Loop!After(success) \cup Loop!Before(modifier))' = Loop!After(success)
          BY <3>2, <3>3, <3>4, <3>5, <3>7
        <4>2. QED
          BY <3>1, <3>5, <3>6, <3>7, <4>1 DEF Loop!TriedInv
      <3>8. CASE phase' # "modify"
        BY <3>1, <3>4, <3>6, <3>8 DEF Loop!TriedInv
      <3>9. QED
        BY <3>7, <3>8
    <2>3. Loop!WrittenInv'
      BY DEF LoopInv, Loop!IndexInv, Loop!WrittenInv, Loop!RoundsShrink, Loop!LastWrittenIsFinal
    <2>4. QED
      BY <2>1, <2>2, <2>3 DEF LoopInv
  <1>5. CASE Loop!LeaveLoop
    <2> USE <1>5 DEF Loop!LeaveLoop
    <2>1. Loop!IndexInv'
      BY DEF LoopInv, Loop!IndexInv
    <2>2. Loop!TriedInv'
      BY DEF LoopInv, Loop!IndexInv, Loop!TriedInv, Loop!Before, Loop!After
    <2>3. Loop!WrittenInv'
      BY DEF LoopInv, Loop!IndexInv, Loop!WrittenInv, Loop!RoundsShrink, Loop!LastWrittenIsFinal
    <2>4. QED
      BY <2>1, <2>2, <2>3 DEF LoopInv
  <1>6. ASSUME NEW m \in Loop!Modifier, Loop!Succeed(m)
        PROVE  LoopInv'
    <2>a. /\ m = modifier /\ modifier <= stage /\ stage < maxstages
          /\ phase = "modify" /\ tried' = {}
          /\ UNCHANGED <<phase, maxstages, written>>
      BY <1>6 DEF Loop!Succeed, Loop!ModifierDue, Loop!parameters
    <2>b. success' = m /\ modifier' = m + 1 /\ stage' = stage
      BY <1>6 DEF Loop!Succeed, Loop!Bookkeep
    <2>c. Size' \in 0..(Size - 1)
      BY <1>6 DEF Loop!Succeed
    <2>d. /\ stage \in Nat /\ success \in Nat /\ m \in Nat /\ maxstages \in Nat
      BY <1>1
    <2> HIDE <1>1 DEF Loop!TypeOK, Loop!instance, Loop!Instances, Loop!parameters,
                      Loop!loopvars, Loop!lastvars
    <2>1. Loop!IndexInv'
      BY <2>a, <2>b, <2>d DEF Loop!IndexInv
    <2>2. Loop!TriedInv'
      BY <2>a, <2>b, <2>d DEF Loop!TriedInv
    <2>3. Loop!WrittenInv'
      <3>1. /\ written # <<>>
            /\ IF m <= success THEN written = Loop!instance ELSE Size < written[1]
        BY <2>a DEF LoopInv, Loop!WrittenInv
      <3>2. written[1] \in Int /\ Loop!instance[1] = Size /\ Size \in Int
        BY <1>1, <3>1 DEF Loop!TypeOK, Loop!Instances, Loop!instance
      <3>3. Size' < written'[1]
        <4>1. Size <= written[1]
          BY <3>1, <3>2
        <4>2. QED
          BY <2>a, <2>c, <3>2, <4>1
      <3>4. ~ (modifier' <= success') /\ stage' # maxstages'
        BY <2>a, <2>b, <2>d
      <3>5. QED
        BY <2>a, <3>1, <3>3, <3>4
           DEF Loop!WrittenInv, Loop!RoundsShrink, Loop!LastWrittenIsFinal
    <2>4. QED
      BY <1>1, <2>1, <2>2, <2>3 DEF LoopInv
  <1>7. ASSUME NEW m \in Loop!Modifier, Loop!FailModifier(m)
        PROVE  LoopInv'
    <2>a. /\ m = modifier /\ modifier <= stage /\ stage < maxstages
          /\ phase = "modify" /\ tried' = tried \cup {m}
      BY <1>7 DEF Loop!FailModifier, Loop!ModifierDue
    <2>b. IF success = m
            THEN modifier' = stage + 1 /\ stage' = stage + 1 /\ success' = stage + 1
            ELSE modifier' = m + 1 /\ stage' = stage /\ success' = success
      BY <1>7 DEF Loop!FailModifier, Loop!Bookkeep, Loop!EndsStage
    <2>c. UNCHANGED <<phase, maxstages, written, Loop!instance, Size>>
      BY <1>7 DEF Loop!FailModifier
    <2>d. /\ stage \in Nat /\ success \in Nat /\ modifier \in Nat
          /\ maxstages \in Nat /\ m \in Nat
      BY <1>1
    <2> USE <2>a, <2>b, <2>c, <2>d
    <2> HIDE <1>1 DEF Loop!TypeOK, Loop!instance, Loop!Instances, Loop!parameters,
                      Loop!loopvars, Loop!lastvars
    <2>1. Loop!IndexInv'
      <3>1. /\ m = modifier /\ modifier <= stage /\ stage < maxstages
            /\ phase' = phase /\ phase = "modify" /\ maxstages' = maxstages
        OBVIOUS
      <3>2. IF success = m
              THEN modifier' = stage + 1 /\ stage' = stage + 1 /\ success' = stage + 1
              ELSE modifier' = m + 1 /\ stage' = stage /\ success' = success
        OBVIOUS
      <3>3. /\ stage \in Nat /\ success \in Nat /\ modifier \in Nat
            /\ maxstages \in Nat /\ m \in Nat
        OBVIOUS
      <3>4. success <= stage
        BY DEF LoopInv, Loop!IndexInv
      <3>5. CASE success = m
        BY <3>1, <3>2, <3>3, <3>5 DEF Loop!IndexInv
      <3>6. CASE success # m
        BY <3>1, <3>2, <3>3, <3>4, <3>6 DEF Loop!IndexInv
      <3>7. QED
        BY <3>5, <3>6
    <2>2. Loop!TriedInv'
      <3>due. m = modifier /\ phase = "modify" /\ stage < maxstages
        OBVIOUS
      <3>typed. /\ stage \in Nat /\ success \in Nat /\ modifier \in Nat
                /\ maxstages \in Nat /\ m \in Nat
        OBVIOUS
      <3>1. CASE success = m
        <4>1. Loop!After(success) \cup Loop!Before(m) \subseteq tried
          BY <3>1 DEF LoopInv, Loop!TriedInv, Loop!IndexInv
        <4>2. Loop!Before(stage + 1) \subseteq Loop!After(success) \cup Loop!Before(m) \cup {m}
          BY <3>1 DEF Loop!Before, Loop!After
        <4>3. Loop!Before(stage + 1) \subseteq tried'
          BY <4>1, <4>2
        <4>4. stage' = stage + 1 /\ success' = stage + 1 /\ modifier' = stage + 1
          BY <3>1
        <4>5. stage' <= maxstages' /\ phase' = "modify" /\ maxstages' = maxstages
          BY <4>4
        <4>6. CASE stage' = maxstages
          BY <4>3, <4>4, <4>5, <4>6 DEF Loop!TriedInv, Loop!Before
        <4>7. CASE stage' < maxstages
          <5>1. (Loop!After(success) \cup Loop!Before(modifier))' \subseteq tried'
            BY <4>3, <4>4 DEF Loop!After, Loop!Before
          <5>2. QED
            BY <4>4, <4>5, <4>7, <5>1 DEF Loop!TriedInv
        <4>8. QED
          BY <4>5, <4>6, <4>7
      <3>2. CASE success < m
        <4>1. (success + 1)..(m - 1) \subseteq tried
          <5>1. ~(modifier <= success)
            BY <3>2, <3>due, <3>typed
          <5>2. (success + 1)..(modifier - 1) \subseteq tried
            BY <5>1, <3>due DEF LoopInv, Loop!TriedInv
          <5>3. QED
            BY <5>2, <3>due
        <4>2. /\ modifier' = m + 1 /\ success' = success /\ stage' = stage
              /\ tried' = tried \cup {m} /\ phase' = "modify"
              /\ maxstages' = maxstages /\ stage < maxstages
          BY <3>2
        <4>3. (success + 1)..m \subseteq tried \cup {m}
          <5>1. success + 1 \in Int /\ m \in Int
            BY <3>typed
          <5>2. QED
            BY <4>1, <5>1, IntervalGrows, Zenon
        <4>4. ((success + 1)..(modifier - 1))' \subseteq tried'
          <5>1. modifier' - 1 = m
            BY <4>2, <3>typed
          <5>2. (success + 1)' = success + 1 /\ tried' = tried \cup {m}
            BY <4>2
          <5>3. QED
            BY <4>3, <5>1, <5>2
        <4>5. ~(modifier' <= success') /\ stage' # maxstages'
          BY <3>2, <4>2, <3>typed
        <4>6. QED
          BY <4>2, <4>4, <4>5 DEF Loop!TriedInv
      <3>3. CASE m < success
        <4>1. Loop!After(success) \cup Loop!Before(m) \subseteq tried
          BY <3>3 DEF LoopInv, Loop!TriedInv, Loop!IndexInv
        <4>2. Loop!Before(m + 1) \subseteq Loop!Before(m) \cup {m}
          BY DEF Loop!Before
        <4>3. /\ modifier' = m + 1 /\ success' = success /\ stage' = stage
              /\ tried' = tried \cup {m} /\ phase' = "modify"
              /\ maxstages' = maxstages /\ stage < maxstages
          BY <3>3
        <4>4. Loop!After(success)' = Loop!After(success) /\ Loop!Before(modifier)' = Loop!Before(m + 1)
          BY <4>3 DEF Loop!After, Loop!Before
        <4>5. (Loop!After(success) \cup Loop!Before(modifier))' \subseteq tried'
          BY <4>1, <4>2, <4>3, <4>4
        <4>6. modifier' <= success'
          BY <3>3, <4>3
        <4>7. QED
          BY <4>3, <4>5, <4>6 DEF Loop!TriedInv
      <3>4. QED
        BY <3>1, <3>2, <3>3
    <2>3. Loop!WrittenInv'
      <3>1. /\ phase' = phase /\ phase = "modify" /\ written' = written
            /\ Loop!instance' = Loop!instance /\ Size' = Size
            /\ maxstages' = maxstages /\ m = modifier /\ stage < maxstages
        OBVIOUS
      <3>2. /\ written # <<>>
            /\ IF m <= success THEN written = Loop!instance ELSE Size < written[1]
        BY <3>1 DEF LoopInv, Loop!WrittenInv
      <3>3. /\ stage \in Nat /\ success \in Nat /\ m \in Nat /\ maxstages \in Nat
        OBVIOUS
      <3>4. CASE success = m
        <4>1. written' = Loop!instance' /\ modifier' = success'
          BY <3>1, <3>2, <3>3, <3>4
        <4>2. success' \in Nat
          BY <3>3, <3>4
        <4>3. QED
          BY <3>1, <3>2, <4>1, <4>2 DEF Loop!WrittenInv, Loop!RoundsShrink, Loop!LastWrittenIsFinal
      <3>5. CASE success # m
        <4>1. modifier' = m + 1 /\ success' = success /\ stage' = stage
          BY <3>5
        <4>2. IF modifier' <= success' THEN written' = Loop!instance' ELSE Size' < written'[1]
          BY <3>1, <3>2, <3>3, <3>5, <4>1
        <4>3. stage' # maxstages'
          BY <3>1, <3>3, <4>1
        <4>4. QED
          BY <3>1, <3>2, <4>2, <4>3 DEF Loop!WrittenInv, Loop!RoundsShrink, Loop!LastWrittenIsFinal
      <3>6. QED
        BY <3>4, <3>5
    <2>4. QED
      BY <1>1, <2>1, <2>2, <2>3 DEF LoopInv
  <1>8. CASE Loop!EndRound
    <2> USE <1>8 DEF Loop!EndRound, Loop!ModifierDue
    <2>1. Loop!IndexInv'
      BY DEF LoopInv, Loop!IndexInv
    <2>2. Loop!TriedInv'
      BY DEF LoopInv, Loop!IndexInv, Loop!TriedInv, Loop!Before, Loop!After
    <2>3. Loop!WrittenInv'
      BY DEF LoopInv, Loop!IndexInv, Loop!WrittenInv, Loop!RoundsShrink, Loop!LastWrittenIsFinal
    <2>4. QED
      BY <2>1, <2>2, <2>3 DEF LoopInv
  <1>9. CASE Loop!Expire
    <2> USE <1>9 DEF Loop!Expire
    <2>1. Loop!IndexInv'
      BY DEF LoopInv, Loop!IndexInv
    <2>2. Loop!TriedInv'
      BY DEF LoopInv, Loop!IndexInv, Loop!TriedInv, Loop!Before, Loop!After
    <2>3. Loop!WrittenInv'
      BY DEF LoopInv, Loop!IndexInv, Loop!WrittenInv, Loop!RoundsShrink, Loop!LastWrittenIsFinal
    <2>4. QED
      BY <2>1, <2>2, <2>3 DEF LoopInv
  <1>10. CASE UNCHANGED Loop!vars
    <2> USE <1>10 DEF Loop!vars
    <2>1. Loop!IndexInv'
      BY DEF LoopInv, Loop!IndexInv
    <2>2. Loop!TriedInv'
      BY DEF LoopInv, Loop!IndexInv, Loop!TriedInv, Loop!Before, Loop!After
    <2>3. Loop!WrittenInv'
      BY DEF LoopInv, Loop!IndexInv, Loop!WrittenInv, Loop!RoundsShrink, Loop!LastWrittenIsFinal
    <2>4. QED
      BY <2>1, <2>2, <2>3 DEF LoopInv
  <1>11. QED
    BY <1>2, <1>3, <1>4, <1>5, <1>6, <1>7, <1>8, <1>9, <1>10 DEF Loop!Next, Loop!Step

-------------------------------------------------------------------------------
(* The loop's own assumptions are among those of the program. *)
LEMMA LoopParameters == Loop!SizesAssumption /\ Loop!ParametersAssumption
  BY DEF Loop!SizesAssumption, Loop!ParametersAssumption

(* The loop only calls modifiers there are. *)
LEMMA DueType ==
  ASSUME Loop!TypeOK, Loop!ModifierDue
  PROVE  modifier \in Modifiers /\ modifier \in Loop!Modifier
  BY DEF Loop!TypeOK, Loop!ModifierDue

(* The adapted number of batches stays a number of batches. *)
LEMMA AdaptedType ==
  ASSUME expenditure \in Int, expenditure <= LLMax, nbatches \in 0..LLMax,
         final_effort \in Int
  PROVE  Loop!AdaptedBatches(final_effort) \in 0..LLMax
  <1> DEFINE n == (expenditure - 1) \div final_effort + 1
  <1>1. ASSUME expenditure > 0, final_effort >= 1
        PROVE  n \in 0..LLMax
    <2>1. (expenditure - 1) \div final_effort \in 0..(expenditure - 1)
      BY <1>1
    <2>2. QED
      BY <2>1
  <1>2. LLMax \in Nat
    OBVIOUS
  <1>3. QED
    BY <1>1, <1>2 DEF Loop!AdaptedBatches

(* Between two runs the number of batches may be any. *)
LEMMA IdleBatches ==
  ASSUME IInv, Control, UNCHANGED run, nbatches' \in 0..LLMax
  PROVE  IInv'
  <1>1. TypeOK /\ AdoptedIsConfirmed /\ LimitIsTightest /\ RemainingRejected
    BY DEF IInv, CopyIInv
  <1>2. pc = "idle" /\ ~ Running'
    BY DEF Control, run, Running
  <1>3. TypeOK'
    BY <1>1 DEF TypeOK, run, fixed, instance, report, history
  <1>4. AdoptedIsConfirmed' /\ LimitIsTightest'
    BY <1>1 DEF AdoptedIsConfirmed, LimitIsTightest, run, instance, history
  <1>5. RemainingRejected'
    <2>1. UNCHANGED <<pc, status, problem, limit, current, rejected, batchsize,
                      solution>>
      BY DEF run, fixed, instance, history
    <2>2. UNCHANGED <<AdmissibleEntries(problem, current), BatchLimit>>
      BY <2>1 DEF AdmissibleEntries, Entries, Admissible, BatchLimit
    <2>3. QED
      BY <1>1, <2>1, <2>2 DEF RemainingRejected
  <1>6. CopyInv' /\ LimitInv' /\ ScanInv' /\ CallsInv'
    BY <1>2 DEF CopyInv, LimitInv, ScanInv, CallsInv
  <1>7. PendingInv' /\ BatchInv'
    BY <1>2 DEF PendingInv, BatchInv, Running, run
  <1>8. QED
    BY <1>3, <1>4, <1>5, <1>6, <1>7 DEF IInv, CopyIInv

(* Nor does the original solve leave anything to a modifier but limits. *)
LEMMA OriginalIInv ==
  ASSUME IInv, LoopInv', status = kDidNotRun, Original
  PROVE  IInv'
  <1>1. TypeOK /\ AdoptedIsConfirmed
    BY DEF IInv, CopyIInv
  <1>2. /\ UNCHANGED <<pc, current, solution, problem, copy, trial, applied,
                       batches, batchsize, position, admissible, status,
                       report, calls, confirmed, rejected>>
        /\ limit' = before' /\ tightest' = before' /\ pc = "idle"
    BY DEF Original, Control
  <1>3. UNCHANGED <<enabled, nbatches>>
    BY DEF Original, Loop!SkipOriginal, Loop!SolveOriginal, Loop!parameters
  <1>4. before' \in 1..MaxLimit
    BY DEF LoopInv, Loop!TypeOK, Loop!instance, Loop!Instances
  <1>5. TypeOK'
    BY <1>1, <1>2, <1>3, <1>4 DEF TypeOK, report
  <1>6. /\ ~ Running' /\ pc' = "idle" /\ status' = kDidNotRun
    BY <1>2 DEF Running
  <1>7. AdoptedIsConfirmed' /\ LimitIsTightest'
    BY <1>1, <1>2 DEF AdoptedIsConfirmed, LimitIsTightest
  <1>8. RemainingRejected'
    BY <1>6 DEF RemainingRejected, kDidNotRun, kNotAdmissible, kUnsuccesful,
                kSuccessful
  <1>9. CopyInv' /\ LimitInv' /\ ScanInv' /\ CallsInv'
    BY <1>6 DEF CopyInv, LimitInv, ScanInv, CallsInv
  <1>10. PendingInv' /\ BatchInv'
    BY <1>6 DEF PendingInv, BatchInv, Running
  <1>11. QED
    BY <1>5, <1>7, <1>8, <1>9, <1>10 DEF IInv, CopyIInv

-------------------------------------------------------------------------------
(* A modifier that returns at once fails, for the loop. *)
LEMMA SkipReturns ==
  ASSUME SystemInv, Loop!ModifierDue, Skip(modifier), Return
  PROVE  Loop!FailModifier(modifier)
  <1> USE DEF kDidNotRun, kNotAdmissible, kUnsuccesful, kSuccessful
  <1>1. /\ current' = modifier
        /\ status' = IF modifier \in enabled THEN kNotAdmissible ELSE kDidNotRun
        /\ UNCHANGED <<pc, enabled, nbatches, problem, limit>>
    BY DEF Skip, fixed, instance
  <1>2. status' # kSuccessful
    BY <1>1
  <1>3. Loop!Bookkeep(modifier, status')
    BY <1>1 DEF Return
  <1>4. tried' = tried \cup {modifier} /\ UNCHANGED <<final_result, final_effort>>
    BY <1>1, <1>2 DEF Return, Report
  <1>5. before' = before
    <2>1. before = limit
      BY DEF Skip, SystemInv, BeforeInv, Running
    <2>2. QED
      BY <1>1, <2>1 DEF Return
  <1>6. UNCHANGED <<phase, mode, initround, initstage, maxrounds, maxstages,
                    expenditure, round, written, expired>>
    BY DEF Return
  <1>7. /\ status' \in {kDidNotRun, kNotAdmissible, kUnsuccesful}
        /\ (status' = kDidNotRun) = (modifier \notin enabled)
    BY <1>1
  <1>8. UNCHANGED <<phase, Loop!parameters, expenditure, nbatches, round,
                    final_result, final_effort, Loop!instance, written, expired>>
    BY <1>1, <1>4, <1>5, <1>6 DEF Loop!parameters, Loop!instance
  <1>9. QED
    BY <1>3, <1>4, <1>7, <1>8 DEF Loop!FailModifier

(* What a run that ends has done to the instance and its limits. *)
LEMMA FinishResult ==
  ASSUME SystemInv, Finish
  PROVE  /\ status' \in {kNotAdmissible, kUnsuccesful, kSuccessful}
         /\ IF status' = kSuccessful
              THEN /\ limit' = trial /\ trial \in 1..before
                   /\ Cardinality(Reduction \ problem') \in 0..(Size - 1)
              ELSE UNCHANGED <<problem, limit>> /\ limit = before
  <1> USE DEF kDidNotRun, kNotAdmissible, kUnsuccesful, kSuccessful
  <1>1. /\ TypeOK /\ CopyInv /\ PendingInv /\ BeforeInv /\ NewInv
        /\ Running /\ pc = "finish"
    BY DEF Finish, SystemInv, IInv, CopyIInv, Running
  <1>2. /\ batches = {} /\ copy = problem \cup applied
        /\ applied \cap problem = {} /\ applied \subseteq Reduction
        /\ problem \subseteq Reduction
    BY <1>1 DEF TypeOK, CopyInv, PendingInv, NewInv
  <1>3. trial \in 1..before
    BY <1>1 DEF TypeOK, BeforeInv
  <1>4. /\ status' = FinalStatus
        /\ IF FinalStatus = kSuccessful THEN problem' = copy /\ limit' = trial
                                        ELSE UNCHANGED instance
    BY DEF Finish
  <1>5. CASE FinalStatus = kSuccessful
    <2>1. applied # {}
      BY <1>5 DEF FinalStatus
    <2>2. /\ Reduction \ problem' \subseteq Reduction \ problem
          /\ Reduction \ problem' # Reduction \ problem
      BY <1>2, <1>4, <1>5, <2>1
    <2>3. IsFiniteSet(Reduction \ problem)
      BY FS_Subset
    <2>4. /\ Cardinality(Reduction \ problem') \in Nat
          /\ Cardinality(Reduction \ problem') < Size
      <3>1. /\ IsFiniteSet(Reduction \ problem')
            /\ Cardinality(Reduction \ problem') <= Size
            /\ Cardinality(Reduction \ problem') # Size
        BY <2>2, <2>3, FS_Subset, Zenon DEF Size
      <3>2. Cardinality(Reduction \ problem') \in Nat
        BY <3>1, FS_CardinalityType
      <3>3. Size \in Nat
        OBVIOUS
      <3>4. QED
        BY <3>1, <3>2, <3>3
    <2>5. QED
      BY <1>3, <1>4, <1>5, <2>4
  <1>6. CASE FinalStatus # kSuccessful
    <2>1. applied = {}
      BY <1>1, <1>6 DEF FinalStatus, PendingInv
    <2>2. limit = before
      BY <1>1, <2>1 DEF BeforeInv
    <2>3. status' \in {kNotAdmissible, kUnsuccesful}
      BY <1>4, <1>6 DEF FinalStatus
    <2>4. QED
      BY <1>4, <1>6, <2>2, <2>3 DEF instance
  <1>7. QED
    BY <1>5, <1>6

(* A run that ends is a success or a failure of the loop. *)
LEMMA FinishReturns ==
  ASSUME SystemInv, Finish, Return
  PROVE  Loop!Succeed(modifier) \/ Loop!FailModifier(modifier)
  <1> USE DEF kDidNotRun, kNotAdmissible, kUnsuccesful, kSuccessful
  <1>1. /\ Loop!ModifierDue /\ current = modifier /\ modifier \in enabled
        /\ EffortInv /\ TypeOK
    BY DEF Finish, SystemInv, IInv, CopyIInv, CallInv
  <1>2. UNCHANGED <<current, enabled, nbatches, last_result, last_effort>>
    BY DEF Finish, fixed, report
  <1>3. Loop!Bookkeep(modifier, status')
    BY <1>1, <1>2 DEF Return
  <1>4. UNCHANGED <<phase, mode, initround, initstage, maxrounds, maxstages,
                    expenditure, round, written, expired>>
    BY DEF Return
  <1>5. UNCHANGED <<phase, Loop!parameters, expenditure, nbatches, round, written,
                    expired>>
    BY <1>2, <1>4 DEF Loop!parameters
  <1>6. CASE status' = kSuccessful
    <2>1. /\ limit' = trial /\ trial \in 1..before
          /\ Cardinality(Reduction \ problem') \in 0..(Size - 1)
      BY <1>6, FinishResult
    <2>2. before' = trial /\ tried' = {}
      BY <1>6, <2>1 DEF Return
    <2>3. Loop!TakeReport(last_result, last_effort)
      BY <1>2, <1>6 DEF Return, Report
    <2>4. last_result \in Loop!Retcode /\ last_effort \in Efforts \cup {-1}
      BY <1>1 DEF TypeOK, Retcode, EffortInv
    <2>5. Loop!Bookkeep(modifier, Loop!kSuccessful)
      BY <1>3, <1>6
    <2>6. Loop!Succeed(modifier)
      BY <1>1, <1>5, <2>1, <2>2, <2>3, <2>4, <2>5 DEF Loop!Succeed
    <2>7. QED
      BY <2>6
  <1>7. CASE status' # kSuccessful
    <2>1. /\ UNCHANGED <<problem, limit>> /\ limit = before
          /\ status' \in {kNotAdmissible, kUnsuccesful}
      BY <1>7, FinishResult
    <2>2. UNCHANGED <<final_result, final_effort>> /\ tried' = tried \cup {modifier}
      BY <1>1, <1>2, <1>7 DEF Return, Report
    <2>3. before' = before
      BY <2>1 DEF Return
    <2>4. UNCHANGED Loop!instance
      BY <2>1, <2>3 DEF Loop!instance
    <2>5. /\ status' \in {kDidNotRun, kNotAdmissible, kUnsuccesful}
          /\ (status' = kDidNotRun) = (modifier \notin enabled)
      BY <1>1, <2>1
    <2>6. Loop!FailModifier(modifier)
      BY <1>1, <1>3, <1>5, <2>2, <2>4, <2>5 DEF Loop!FailModifier
    <2>7. QED
      BY <2>6
  <1>8. QED
    BY <1>6, <1>7

(* What the loop sees of a step inside a run: nothing. *)
LEMMA Unseen ==
  ASSUME UNCHANGED <<loop, before, enabled, nbatches, problem>>
  PROVE  UNCHANGED Loop!vars
  BY DEF loop, Loop!vars, Loop!parameters, Loop!loopvars, Loop!lastvars,
         Loop!instance

(* Every step of the program is one of the loop, or unseen by it. *)
LEMMA Simulation ==
  ASSUME SystemInv, [SystemNext]_vars
  PROVE  [Loop!Next]_(Loop!vars)
  <1>due. Loop!ModifierDue => modifier \in Loop!Modifier
    BY DueType DEF SystemInv, LoopInv
  <1>1. CASE Original
    BY <1>1 DEF Original, Loop!Next, Loop!Step
  <1>2. CASE LoopStep
    BY <1>2 DEF LoopStep, Loop!Next, Loop!Step
  <1>3. CASE Call
    <2>1. CASE Begin(modifier) /\ UNCHANGED <<loop, before, refuted>>
      BY <2>1, Unseen DEF Begin, fixed, instance
    <2>2. CASE Skip(modifier) /\ Return
      BY <1>3, <1>due, <2>2, SkipReturns DEF Call, Loop!Next, Loop!Step
    <2>3. QED
      BY <1>3, <2>1, <2>2 DEF Call
  <1>4. CASE Reduce
    <2>1. UNCHANGED <<enabled, nbatches, problem>>
      BY <1>4 DEF Reduce, Scan, Reject, Accept, fixed, instance
    <2>2. QED
      BY <1>4, <2>1, Unseen DEF Reduce
  <1>5. CASE HandBack
    <2>1. Loop!ModifierDue
      BY <1>5 DEF HandBack, Finish, SystemInv, CallInv
    <2>2. QED
      BY <1>5, <1>due, <2>1, FinishReturns DEF HandBack, Loop!Next, Loop!Step
  <1>6. CASE Timeout
    BY <1>6 DEF Timeout, Loop!Next
  <1>7. CASE UNCHANGED vars
    BY <1>7, Unseen DEF vars, brvars, fixed, instance
  <1>8. QED
    BY <1>1, <1>2, <1>3, <1>4, <1>5, <1>6, <1>7 DEF SystemNext, Progress

-------------------------------------------------------------------------------
(* The steps of the program preserve the invariant of the modifiers ... *)
LEMMA SystemIInv ==
  ASSUME SystemInv, [SystemNext]_vars, LoopInv'
  PROVE  IInv'
  <1>1. IInv /\ TypeOK /\ LoopInv /\ CallInv
    BY DEF SystemInv, IInv, CopyIInv
  <1>2. Loop!ModifierDue => modifier \in Modifiers
    BY <1>1, DueType DEF LoopInv
  <1>3. CASE Original
    <2>1. status = kDidNotRun
      BY <1>1, <1>3 DEF Original, Loop!SkipOriginal, Loop!SolveOriginal, CallInv
    <2>2. QED
      BY <1>1, <1>3, <2>1, OriginalIInv
  <1>4. CASE LoopStep
    <2>1. nbatches' \in 0..LLMax
      <3>1. Loop!AdaptedBatches(final_effort) \in 0..LLMax
        BY <1>1, AdaptedType DEF SystemInv, EffortInv, LoopInv, Loop!TypeOK, TypeOK
      <3>2. nbatches' \in {nbatches, Loop!AdaptedBatches(final_effort)}
        BY <1>4 DEF LoopStep, Loop!WriteInstance, Loop!LeaveLoop, Loop!EndRound
      <3>3. QED
        BY <1>1, <3>1, <3>2 DEF TypeOK
    <2>2. QED
      BY <1>1, <1>4, <2>1, IdleBatches DEF LoopStep
  <1>5. CASE Call \/ Reduce \/ HandBack
    <2>1. Run
      BY <1>2, <1>5 DEF Call, Reduce, HandBack, Run
    <2>2. QED
      BY <1>1, <2>1, StepIInv
  <1>6. CASE Timeout \/ UNCHANGED vars
    <2>1. UNCHANGED brvars
      BY <1>6 DEF Timeout, Loop!Expire, Loop!parameters, run, vars, brvars, fixed
    <2>2. QED
      BY <1>1, <2>1, StepIInv
  <1>7. QED
    BY <1>3, <1>4, <1>5, <1>6 DEF SystemNext, Progress

(* ... and what ties the modifiers to the loop. *)
LEMMA SystemCall ==
  ASSUME SystemInv, [SystemNext]_vars
  PROVE  CallInv'
  <1>1. CallInv /\ TypeOK
    BY DEF SystemInv, IInv, CopyIInv
  <1>2. CASE Original
    <2>1. /\ pc' = "idle" /\ UNCHANGED <<status, problem>>
          /\ phase' # "original"
      BY <1>2 DEF Original, Control, Loop!SkipOriginal, Loop!SolveOriginal
    <2>2. QED
      BY <2>1 DEF CallInv
  <1>3. CASE LoopStep
    <2>1. pc' = "idle" /\ phase' # "original"
      BY <1>3 DEF LoopStep, Control, run, Loop!WriteInstance, Loop!LeaveLoop,
                  Loop!EndRound
    <2>2. QED
      BY <2>1 DEF CallInv
  <1>4. ASSUME Loop!ModifierDue, Begin(modifier), UNCHANGED loop
        PROVE  CallInv'
    <2>1. current' = modifier /\ modifier \in enabled /\ UNCHANGED enabled
      BY <1>4 DEF Begin, fixed
    <2>2. UNCHANGED <<phase, stage, maxstages, modifier>>
      BY <1>4 DEF loop
    <2>3. Loop!ModifierDue' /\ phase' = "modify"
      BY <1>4, <2>2 DEF Loop!ModifierDue
    <2>4. QED
      BY <2>1, <2>2, <2>3 DEF CallInv
  <1>5. ASSUME Loop!ModifierDue, Skip(modifier), Return
        PROVE  CallInv'
    <2>1. pc' = "idle" /\ phase' = "modify"
      BY <1>5 DEF Skip, Return, Loop!ModifierDue
    <2>2. QED
      BY <2>1 DEF CallInv
  <1>6. CASE Reduce
    <2>1. pc # "idle" /\ UNCHANGED <<loop, current, enabled>>
      BY <1>6 DEF Reduce, Scan, Reject, Accept, fixed
    <2>2. Loop!ModifierDue /\ current = modifier /\ current \in enabled
      BY <1>1, <2>1 DEF CallInv
    <2>3. UNCHANGED <<phase, stage, maxstages, modifier>>
      BY <2>1 DEF loop
    <2>4. Loop!ModifierDue' /\ phase' = "modify"
      BY <2>2, <2>3 DEF Loop!ModifierDue
    <2>5. QED
      BY <2>1, <2>2, <2>3, <2>4 DEF CallInv
  <1>7. CASE HandBack
    <2>1. pc' = "idle" /\ phase' = "modify"
      BY <1>1, <1>7 DEF HandBack, Finish, Return, CallInv, Loop!ModifierDue
    <2>2. QED
      BY <2>1 DEF CallInv
  <1>8. CASE Timeout \/ UNCHANGED vars
    <2>1. UNCHANGED <<pc, current, enabled, status, problem, phase, tried, stage,
                      maxstages, modifier>>
      BY <1>8 DEF Timeout, Loop!Expire, Loop!parameters, Loop!loopvars, run, vars,
                  brvars, loop, fixed, instance
    <2>2. Loop!ModifierDue' = Loop!ModifierDue
      BY <2>1 DEF Loop!ModifierDue
    <2>3. QED
      BY <1>1, <2>1, <2>2 DEF CallInv
  <1>9. QED
    BY <1>2, <1>3, <1>4, <1>5, <1>6, <1>7, <1>8 DEF SystemNext, Progress, Call

(* The product of the original solve is below LLONG_MAX, wrapped or not. *)
LEMMA OriginalBudget ==
  ASSUME nbatches \in 0..LLMax, NEW effort \in Efforts,
         NEW x \in Loop!OriginalExpenditure(effort)
  PROVE  x <= LLMax
  <1>1. LLMax \in Nat /\ LLMax > 0 /\ effort \in Int
    OBVIOUS
  <1>2. nbatches * effort \in Int
    BY <1>1
  <1>3. Loop!Wrapped(nbatches * effort) <= LLMax
    <2>1. (nbatches * effort + LLMax + 1) % (2 * LLMax + 2) \in 0..(2 * LLMax + 1)
      BY <1>1, <1>2
    <2>2. QED
      BY <1>1, <2>1 DEF Loop!Wrapped
  <1>4. QED
    BY <1>1, <1>2, <1>3 DEF Loop!OriginalExpenditure

(* Every step keeps what is known of the effort.                           *)
LEMMA SystemEffort ==
  ASSUME SystemInv, [SystemNext]_vars
  PROVE  EffortInv'
  <1>1. EffortInv /\ TypeOK
    BY DEF SystemInv, IInv, CopyIInv
  <1>2. CASE Original
    <2>1. UNCHANGED last_effort
      BY <1>2 DEF Original, report
    <2>2. nbatches \in 0..LLMax /\ LLMax \in Nat
      BY <1>1 DEF TypeOK
    <2>3. CASE Loop!SkipOriginal
      BY <1>1, <2>1, <2>2, <2>3 DEF EffortInv, Loop!SkipOriginal, Loop!MaxOf
    <2>4. CASE Loop!SolveOriginal
      <3>1. \/ UNCHANGED expenditure
            \/ \E effort \in Efforts : expenditure' \in Loop!OriginalExpenditure(effort)
        BY <2>4 DEF Loop!SolveOriginal
      <3>2. expenditure' <= LLMax
        BY <1>1, <2>2, <3>1, OriginalBudget DEF EffortInv
      <3>3. QED
        BY <1>1, <2>1, <3>2 DEF EffortInv
    <2>5. QED
      BY <1>2, <2>3, <2>4 DEF Original
  <1>3. CASE LoopStep
    <2>1. UNCHANGED <<last_effort, expenditure>>
      BY <1>3 DEF LoopStep, run, report, Loop!WriteInstance, Loop!LeaveLoop,
                  Loop!EndRound
    <2>2. QED
      BY <1>1, <2>1 DEF EffortInv
  <1>4. CASE Call \/ HandBack
    <2>1. UNCHANGED expenditure
      BY <1>4 DEF Call, HandBack, Return, loop
    <2>2. last_effort' \in {last_effort, -1}
      BY <1>4 DEF Call, HandBack, Begin, Skip, Finish, ClearReport, report
    <2>3. QED
      BY <1>1, <2>1, <2>2 DEF EffortInv
  <1>5. CASE Reduce
    <2>1. UNCHANGED expenditure
      BY <1>5 DEF Reduce, loop
    <2>2. CASE Scan \/ Reject
      <3>1. UNCHANGED last_effort
        BY <2>2 DEF Scan, Reject, report
      <3>2. QED
        BY <1>1, <2>1, <3>1 DEF EffortInv
    <2>3. ASSUME NEW answer \in Answer, NEW effort \in Efforts, NEW l \in 1..MaxLimit,
                 Accept(answer, effort, l)
          PROVE  EffortInv'
      <3>1. last_effort' \in {last_effort, effort}
        BY <2>3 DEF Accept, KnownEffort, report
      <3>2. QED
        BY <1>1, <2>1, <3>1 DEF EffortInv
    <2>4. QED
      BY <1>5, <2>2, <2>3 DEF Reduce
  <1>6. CASE Timeout \/ UNCHANGED vars
    <2>1. UNCHANGED <<last_effort, expenditure>>
      BY <1>6 DEF Timeout, Loop!Expire, run, report, vars, brvars, loop
    <2>2. QED
      BY <1>1, <2>1 DEF EffortInv
  <1>7. QED
    BY <1>2, <1>3, <1>4, <1>5, <1>6 DEF SystemNext, Progress

(* Every step keeps what is known of the start of the run.                 *)
LEMMA SystemBefore ==
  ASSUME SystemInv, [SystemNext]_vars
  PROVE  BeforeInv'
  <1>1. BeforeInv /\ TypeOK /\ PendingInv /\ before \in Int
    BY DEF SystemInv, IInv, CopyIInv, LoopInv, Loop!TypeOK, Loop!instance,
           Loop!Instances
  <1>2. CASE Original
    BY <1>2 DEF Original, Control, BeforeInv, Running
  <1>3. CASE LoopStep
    <2>1. UNCHANGED <<limit, before>> /\ pc = "idle" /\ pc' = "idle"
      BY <1>3 DEF LoopStep, Control, run, instance, Loop!WriteInstance,
                  Loop!LeaveLoop, Loop!EndRound, Loop!instance
    <2>2. QED
      BY <1>1, <2>1 DEF BeforeInv, Running
  <1>4. ASSUME Begin(modifier), UNCHANGED before
        PROVE  BeforeInv'
    <2>1. before = limit
      BY <1>1, <1>4 DEF Begin, BeforeInv, Running
    <2>2. trial' = limit /\ limit' = limit /\ limit \in Int
      BY <1>1, <1>4 DEF Begin, instance, TypeOK
    <2>3. QED
      BY <1>4, <2>1, <2>2 DEF BeforeInv
  <1>5. CASE HandBack \/ (Skip(modifier) /\ Return)
    <2>1. pc' = "idle" /\ before' = limit'
      BY <1>5 DEF HandBack, Finish, Skip, Return
    <2>2. QED
      BY <2>1 DEF BeforeInv, Running
  <1>6. CASE Reduce
    <2>1. UNCHANGED before /\ Running /\ pc' \in {"scan", "solve", "finish"}
      BY <1>6, AdvanceTarget DEF Reduce, Scan, Reject, Accept, Running
    <2>2. trial \in Int /\ trial <= before /\ (applied = {} => limit = before)
      BY <1>1, <2>1 DEF BeforeInv, TypeOK
    <2>3. CASE Scan \/ Reject
      <3>1. UNCHANGED <<trial, applied, limit>>
        BY <2>3 DEF Scan, Reject, RebuiltLimit, instance
      <3>2. QED
        BY <2>1, <2>2, <3>1 DEF BeforeInv, Running
    <2>4. ASSUME NEW answer \in Answer, NEW effort \in Efforts, NEW l \in 1..MaxLimit,
                 Accept(answer, effort, l)
          PROVE  BeforeInv'
      <3>1. /\ trial' = l /\ l <= trial /\ applied' = applied \cup batches
            /\ pc = "solve"
        BY <2>4 DEF Accept
      <3>2. batches # {}
        BY <1>1, <3>1 DEF PendingInv
      <3>3. applied' # {}
        BY <3>1, <3>2, Zenon
      <3>4. trial' <= before'
        BY <1>1, <2>1, <2>2, <3>1
      <3>5. QED
        BY <2>1, <3>3, <3>4 DEF BeforeInv, Running
    <2>5. QED
      BY <1>6, <2>3, <2>4 DEF Reduce
  <1>7. CASE Timeout \/ UNCHANGED vars
    <2>1. UNCHANGED <<pc, limit, before, trial, applied>>
      BY <1>7 DEF Timeout, run, vars, brvars, instance
    <2>2. QED
      BY <1>1, <2>1 DEF BeforeInv, Running
  <1>8. QED
    BY <1>2, <1>3, <1>4, <1>5, <1>6, <1>7 DEF SystemNext, Progress, Call

(* Every step keeps what is known of a new run.                            *)
LEMMA SystemNew ==
  ASSUME SystemInv, [SystemNext]_vars
  PROVE  NewInv'
  <1>1. NewInv /\ CopyInv /\ TypeOK
    BY DEF SystemInv, IInv, CopyIInv
  <1>2. CASE ~ Running'
    BY <1>2 DEF NewInv
  <1>3. CASE UNCHANGED <<pc, applied, batches, problem>>
    BY <1>1, <1>3 DEF NewInv, Running
  <1>4. CASE Begin(modifier)
    BY <1>4 DEF Begin, NewInv
  <1>5. CASE Reduce
    <2>1. UNCHANGED problem
      BY <1>5 DEF Reduce, Scan, Reject, Accept, instance
    <2>2. CASE Scan
      <3> DEFINE e == Layout[current][position]
      <3>1. (applied \cup batches) \cap problem = {} /\ copy = problem \cup applied \cup batches
        BY <1>1, <2>2 DEF Scan, NewInv, CopyInv, Running
      <3>2. UNCHANGED applied
        BY <2>2 DEF Scan
      <3>3. CASE Admissible(copy, e)
        <4>1. e \notin problem
          BY <3>1, <3>3 DEF Admissible
        <4>2. batches' = batches \cup {e}
          BY <2>2, <3>3 DEF Scan
        <4>3. QED
          BY <2>1, <3>1, <3>2, <4>1, <4>2 DEF NewInv
      <3>4. CASE ~ Admissible(copy, e)
        <4>1. UNCHANGED batches
          BY <2>2, <3>4 DEF Scan
        <4>2. QED
          BY <2>1, <3>1, <3>2, <4>1 DEF NewInv
      <3>5. QED
        BY <3>3, <3>4
    <2>3. CASE ~ Scan
      <3>1. pc = "solve" /\ applied' \cup batches' \subseteq applied \cup batches
        BY <1>5, <2>3 DEF Reduce, Reject, Accept
      <3>2. (applied \cup batches) \cap problem = {}
        BY <1>1, <3>1 DEF NewInv, Running
      <3>3. QED
        BY <2>1, <3>1, <3>2 DEF NewInv
    <2>4. QED
      BY <2>2, <2>3
  <1>6. CASE Original \/ LoopStep \/ HandBack \/ (Skip(modifier) /\ Return)
    <2>1. pc' = "idle"
      BY <1>6 DEF Original, LoopStep, Control, run, HandBack, Finish, Skip
    <2>2. QED
      BY <1>2, <2>1 DEF Running
  <1>7. CASE Timeout \/ UNCHANGED vars
    BY <1>3, <1>7 DEF Timeout, run, vars, brvars, instance, Loop!Expire
  <1>8. QED
    BY <1>4, <1>5, <1>6, <1>7 DEF SystemNext, Progress, Call

(* What a return without success adds to what was tried in vain. *)
LEMMA ReturnRefuted ==
  ASSUME SystemInv, IInv', Return, pc' = "idle", status' # kSuccessful,
         current' \in enabled => status' \in {kNotAdmissible, kUnsuccesful},
         UNCHANGED <<enabled, solution, problem, limit>>, limit = before
  PROVE  RefutedInv'
  <1>1. RemainingRejected'
    BY DEF IInv
  <1>2. /\ tried' = tried \cup {current'} /\ refuted' = refuted \cup rejected'
        /\ before' = before
    BY DEF Return
  <1>3. \A m : AdmissibleEntries(problem, m)' = AdmissibleEntries(problem, m)
    BY DEF AdmissibleEntries, Admissible, Entries
  <1> SUFFICES ASSUME NEW m \in tried' \cap enabled'
               PROVE  \/ solution \in Refuses[m]
                      \/ \A e \in AdmissibleEntries(problem, m) : \E r \in refuted' :
                           e \in r[1] /\ problem \subseteq r[1] /\ r[2] = before
    BY <1>2, <1>3 DEF RefutedInv
  <1>4. CASE m \in tried
    BY <1>2, <1>4 DEF SystemInv, RefutedInv
  <1>5. CASE m = current'
    <2>1. status' \in {kNotAdmissible, kUnsuccesful}
      BY <1>5
    <2>2. CASE status' = kNotAdmissible
      <3>1. solution \in Refuses[m] \/ AdmissibleEntries(problem, m) = {}
        BY <1>1, <1>3, <1>5, <2>2 DEF RemainingRejected
      <3>2. QED
        BY <3>1
    <2>3. CASE status' = kUnsuccesful
      <3>1. \A e \in AdmissibleEntries(problem, m) : \E r \in rejected' :
              e \in r[1] /\ problem \subseteq r[1] /\ r[2] = before
        BY <1>1, <1>3, <1>5, <2>3 DEF RemainingRejected
      <3>2. QED
        BY <1>2, <3>1
    <2>4. QED
      BY <2>1, <2>2, <2>3
  <1>6. QED
    BY <1>2, <1>4, <1>5

(* Every step keeps what the failed runs refuted.                          *)
LEMMA SystemRefuted ==
  ASSUME SystemInv, [SystemNext]_vars, IInv'
  PROVE  RefutedInv'
  <1> USE DEF kDidNotRun, kNotAdmissible, kUnsuccesful, kSuccessful
  <1>1. RefutedInv /\ CallInv /\ BeforeInv
    BY DEF SystemInv
  <1>2. ASSUME UNCHANGED <<enabled, solution, problem, before, tried, refuted>>
        PROVE  RefutedInv'
    <2>1. \A m : AdmissibleEntries(problem, m)' = AdmissibleEntries(problem, m)
      BY <1>2 DEF AdmissibleEntries, Admissible, Entries
    <2>2. QED
      BY <1>1, <1>2, <2>1 DEF RefutedInv
  <1>3. CASE Original
    <2>1. tried' = {}
      BY <1>1, <1>3 DEF Original, Loop!SkipOriginal, Loop!SolveOriginal, CallInv
    <2>2. QED
      BY <2>1 DEF RefutedInv
  <1>4. CASE LoopStep
    <2>1. UNCHANGED <<enabled, solution, problem, before, tried, refuted>>
      BY <1>4 DEF LoopStep, run, fixed, instance, Loop!WriteInstance,
                  Loop!LeaveLoop, Loop!EndRound, Loop!instance
    <2>2. QED
      BY <1>2, <2>1
  <1>5. CASE Begin(modifier) /\ UNCHANGED <<loop, before, refuted>>
    BY <1>2, <1>5 DEF Begin, fixed, instance, loop
  <1>6. CASE Skip(modifier) /\ Return
    <2>1. /\ UNCHANGED <<pc, enabled, solution, problem, limit>> /\ pc = "idle"
          /\ current' = modifier
          /\ status' = IF modifier \in enabled THEN kNotAdmissible ELSE kDidNotRun
      BY <1>6 DEF Skip, fixed, instance
    <2>2. limit = before
      BY <1>1, <2>1 DEF BeforeInv, Running
    <2>3. QED
      BY <1>6, <2>1, <2>2, ReturnRefuted
  <1>7. CASE Reduce
    <2>1. UNCHANGED <<enabled, solution, problem, before, tried, refuted>>
      BY <1>7 DEF Reduce, Scan, Reject, Accept, fixed, instance, loop
    <2>2. QED
      BY <1>2, <2>1
  <1>8. CASE HandBack
    <2>1. CASE status' = kSuccessful
      <3>1. tried' = {}
        BY <1>8, <2>1 DEF HandBack, Return
      <3>2. QED
        BY <3>1 DEF RefutedInv
    <2>2. CASE status' # kSuccessful
      <3>1. /\ status' \in {kNotAdmissible, kUnsuccesful}
            /\ UNCHANGED <<problem, limit>> /\ limit = before
        BY <1>8, <2>2, FinishResult DEF HandBack
      <3>2. UNCHANGED <<enabled, solution>> /\ pc' = "idle" /\ Return
        BY <1>8 DEF HandBack, Finish, fixed
      <3>3. QED
        BY <2>2, <3>1, <3>2, ReturnRefuted
    <2>3. QED
      BY <2>1, <2>2
  <1>9. CASE Timeout \/ UNCHANGED vars
    <2>1. UNCHANGED <<enabled, solution, problem, before, tried, refuted>>
      BY <1>9 DEF Timeout, Loop!Expire, run, vars, brvars, fixed, instance, loop
    <2>2. QED
      BY <1>2, <2>1
  <1>10. QED
    BY <1>3, <1>4, <1>5, <1>6, <1>7, <1>8, <1>9 DEF SystemNext, Progress, Call

-------------------------------------------------------------------------------
(* The invariant of both together holds at first.                          *)
LEMMA InitSystemInv == SystemInit => SystemInv
  <1> SUFFICES ASSUME SystemInit PROVE SystemInv
    OBVIOUS
  <1>1. IInv
    BY InitIInv DEF SystemInit
  <1>2. LoopInv
    BY LoopInit DEF SystemInit
  <1>3. /\ pc = "idle" /\ status = kDidNotRun /\ problem = {} /\ limit = MaxLimit
        /\ last_effort = -1
    BY DEF SystemInit, Init
  <1>4. expenditure \in Expenditures /\ tried = {}
    BY DEF SystemInit, Loop!Init
  <1>5. before = MaxLimit
    BY DEF SystemInit
  <1>6. CallInv /\ NewInv /\ BeforeInv /\ RefutedInv
    BY <1>3, <1>4, <1>5 DEF CallInv, NewInv, BeforeInv, RefutedInv, Running
  <1>7. EffortInv
    BY <1>3, <1>4 DEF EffortInv
  <1>8. QED
    BY <1>1, <1>2, <1>6, <1>7 DEF SystemInv

(* Every step of both together keeps the invariant.                        *)
LEMMA StepSystemInv == SystemInv /\ [SystemNext]_vars => SystemInv'
  <1> SUFFICES ASSUME SystemInv, [SystemNext]_vars PROVE SystemInv'
    OBVIOUS
  <1>1. LoopInv'
    BY Simulation, LoopStepInv DEF SystemInv
  <1>2. IInv'
    BY <1>1, SystemIInv
  <1>3. CallInv' /\ EffortInv' /\ BeforeInv' /\ NewInv'
    BY SystemCall, SystemEffort, SystemBefore, SystemNew
  <1>4. RefutedInv'
    BY <1>2, SystemRefuted
  <1>5. QED
    BY <1>1, <1>2, <1>3, <1>4 DEF SystemInv

(* The invariants of the loop and of the modifiers hold together. *)
THEOREM SystemInductive == System => []SystemInv
  BY InitSystemInv, StepSystemInv, PTL DEF System

(***************************************************************************)
(* The loop with the real runs of its modifiers is a BuggerRun, in which   *)
(* the outcome of a run is open: what apply() relies on, a run delivers.   *)
(***************************************************************************)
THEOREM LoopRefinement == System => ImplementsBuggerRun
  <1>1. SystemInit => Loop!Init
    BY DEF SystemInit
  <1>2. SystemInv /\ [SystemNext]_vars => [Loop!Next]_(Loop!vars)
    BY Simulation
  <1>3. QED
    BY SystemInductive, <1>1, <1>2, PTL DEF System, ImplementsBuggerRun

(***************************************************************************)
(* When every stage is exhausted, no modifier of these stages has anything *)
(* left to do that was not tried in vain on top of the final instance.     *)
(***************************************************************************)
THEOREM FinalInstanceIsMinimal == System => []FinalIsMinimal
  <1>1. SystemInv => FinalIsMinimal
    <2> SUFFICES ASSUME SystemInv, phase = "done", stage >= maxstages
                 PROVE  \A m \in enabled \cap 0..(maxstages - 1) :
                          \/ solution \in Refuses[m]
                          \/ \A e \in AdmissibleEntries(problem, m) : \E r \in refuted :
                               e \in r[1] /\ problem \subseteq r[1] /\ r[2] = limit
      BY DEF FinalIsMinimal
    <2>1. /\ maxstages \in Nat /\ stage \in Nat /\ stage <= maxstages
          /\ Loop!TriedInv
      BY DEF SystemInv, LoopInv, Loop!TypeOK, Loop!IndexInv
    <2>2. stage = maxstages
      BY <2>1
    <2>3. 0..(maxstages - 1) \subseteq tried
      BY <2>1, <2>2 DEF Loop!TriedInv, Loop!Before
    <2>4. pc = "idle"
      BY DEF SystemInv, CallInv, Loop!ModifierDue
    <2>5. before = limit
      BY <2>4 DEF SystemInv, BeforeInv, Running
    <2>6. RefutedInv
      BY DEF SystemInv
    <2>7. QED
      BY <2>3, <2>5, <2>6 DEF RefutedInv
  <1>2. QED
    BY SystemInductive, <1>1, PTL

(***************************************************************************)
(* However the loop ends, the files hold the instance that showed the bug  *)
(* last, with the limits that solve left.                                  *)
(***************************************************************************)
THEOREM FinalInstanceIsOnDisk == System => []DiskHoldsBug
  <1>1. SystemInv => DiskHoldsBug
    <2> SUFFICES ASSUME SystemInv, phase = "done", maxstages > 0
                 PROVE  /\ written = <<Cardinality(Reduction \ confirmed), tightest>>
                        /\ problem = confirmed
      BY DEF DiskHoldsBug
    <2>1. Loop!LastWrittenIsFinal
      BY DEF SystemInv, LoopInv, Loop!WrittenInv
    <2>2. pc = "idle"
      BY DEF SystemInv, CallInv, Loop!ModifierDue
    <2>3. before = limit /\ problem = confirmed /\ limit = tightest
      BY <2>2 DEF SystemInv, BeforeInv, Running, IInv, CopyIInv,
                  AdoptedIsConfirmed, LimitIsTightest
    <2>4. written = <<Cardinality(Reduction \ problem), before>>
      BY <2>1 DEF Loop!LastWrittenIsFinal, Loop!instance
    <2>5. QED
      BY <2>3, <2>4
  <1>2. QED
    BY SystemInductive, <1>1, PTL

-------------------------------------------------------------------------------
(* At first nothing was heard, and nothing is reported. *)
LEMMA InitHeard == SystemInit => HeardInv
  <1> SUFFICES ASSUME SystemInit PROVE HeardInv
    OBVIOUS
  <1>1. pc = "idle"
    BY DEF SystemInit, Init
  <1>2. final_result = "OKAY" /\ final_effort = -1
    BY DEF SystemInit, Loop!Init
  <1>3. heard = [codes |-> {"OKAY"}, effort |-> -1]
    BY DEF SystemInit
  <1>4. QED
    BY <1>1, <1>2, <1>3 DEF HeardInv, OfLastBug, Running

(* An accepted batch is heard of as it is reported. *)
LEMMA AcceptHeard ==
  ASSUME SystemInv, HeardInv, UNCHANGED <<final_result, final_effort>>,
         NEW answer \in Answer, NEW effort \in Efforts, NEW l \in 1..MaxLimit,
         Accept(answer, effort, l), Hear(answer, effort)
  PROVE  HeardInv'
  <1>1. pc = "solve" /\ pc' \in {"scan", "finish"} /\ answer # "OKAY"
    BY AdvanceTarget DEF Accept
  <1>2. applied' # {}
    <2>1. batches # {} /\ applied' = applied \cup batches
      BY <1>1 DEF Accept, SystemInv, IInv, CopyIInv, PendingInv
    <2>2. QED
      BY <2>1, Zenon
  <1>3. heard.effort \in Int /\ effort \in Int /\ last_effort \in Int
    BY DEF HeardInv, SystemInv, IInv, CopyIInv, TypeOK
  <1>4. /\ applied = {} => /\ OfLastBug(final_result, final_effort)
                           /\ last_result = "OKAY" /\ last_effort = -1
        /\ applied # {} =>
             OfLastBug(last_result, IF last_effort >= 0 THEN last_effort
                                                        ELSE final_effort)
    BY <1>1 DEF HeardInv, Running
  <1>5. /\ last_result \in heard.codes \cup {"OKAY"}
        /\ heard.effort = IF last_effort >= 0 THEN last_effort ELSE final_effort
    BY <1>3, <1>4 DEF OfLastBug
  <1>6. CASE answer = "UNKNOWN"
    <2>1. UNCHANGED <<last_result, last_effort>>
      BY <1>6 DEF Accept, report
    <2>2. heard' = [codes |-> heard.codes \cup {"OKAY"}, effort |-> heard.effort]
      BY <1>6 DEF Hear
    <2>3. heard'.codes = heard.codes \cup {"OKAY"} /\ heard'.effort = heard.effort
      BY <2>2
    <2>4. OfLastBug(last_result, IF last_effort >= 0 THEN last_effort ELSE final_effort)'
      BY <1>5, <2>1, <2>3 DEF OfLastBug
    <2>5. QED
      BY <1>1, <1>2, <1>3, <2>3, <2>4 DEF HeardInv
  <1>7. CASE answer # "UNKNOWN"
    <2>1. heard' = [codes |-> {answer},
                    effort |-> IF effort >= 0 THEN effort ELSE heard.effort]
      BY <1>7 DEF Hear
    <2>2. /\ last_result' = answer
          /\ last_effort' = IF effort >= 0 THEN effort ELSE last_effort
      BY <1>7 DEF Accept, KnownEffort
    <2>3. last_result' \in heard'.codes /\ heard'.effort \in Int
      BY <1>3, <2>1, <2>2
    <2>4. heard'.effort = IF last_effort' >= 0 THEN last_effort' ELSE final_effort'
      BY <1>3, <1>5, <2>1, <2>2
    <2>5. OfLastBug(last_result, IF last_effort >= 0 THEN last_effort ELSE final_effort)'
      BY <2>3, <2>4 DEF OfLastBug
    <2>6. QED
      BY <1>1, <1>2, <2>3, <2>5 DEF HeardInv
  <1>8. QED
    BY <1>6, <1>7

(* Every step keeps the report that of the last bug. *)
LEMMA StepHeard ==
  ASSUME SystemInv, SystemInv', HeardInv, [SystemNext]_vars
  PROVE  HeardInv'
  <1> USE DEF kDidNotRun, kNotAdmissible, kUnsuccesful, kSuccessful
  <1>1. heard.effort \in Int
    BY DEF HeardInv
  <1>2. ASSUME UNCHANGED <<heard, final_result, final_effort>>, pc = "idle", pc' = "idle"
        PROVE  HeardInv'
    BY <1>2 DEF HeardInv, OfLastBug, Running
  <1>3. CASE Original
    <2>1. pc' = "idle" /\ heard' = [codes |-> {final_result'}, effort |-> final_effort']
      BY <1>3 DEF Original, Control
    <2>2. LoopInv'
      BY DEF SystemInv
    <2>3. final_effort' \in Int
      BY <2>2 DEF LoopInv, Loop!TypeOK
    <2>4. QED
      BY <2>1, <2>3 DEF HeardInv, OfLastBug, Running
  <1>4. CASE LoopStep
    <2>1. UNCHANGED <<heard, final_result, final_effort, pc>> /\ pc = "idle"
      BY <1>4 DEF LoopStep, Control, run, Loop!WriteInstance, Loop!LeaveLoop,
                  Loop!EndRound, Loop!lastvars
    <2>2. QED
      BY <1>2, <2>1
  <1>5. CASE Begin(modifier) /\ UNCHANGED <<loop, heard>>
    <2>1. /\ pc = "idle" /\ pc' \in {"thrown", "finish", "scan"} /\ applied' = {}
          /\ last_result' = "OKAY" /\ last_effort' = -1
      BY <1>5 DEF Begin, ClearReport
    <2>2. UNCHANGED <<heard, final_result, final_effort>>
      BY <1>5 DEF loop
    <2>3. QED
      BY <1>1, <2>1, <2>2 DEF HeardInv, OfLastBug
  <1>6. CASE Skip(modifier) /\ Return /\ UNCHANGED heard
    <2>1. pc = "idle" /\ pc' = "idle" /\ status' # kSuccessful
      BY <1>6 DEF Skip
    <2>2. UNCHANGED <<final_result, final_effort>>
      BY <1>6, <2>1 DEF Return, Report
    <2>3. QED
      BY <1>2, <1>6, <2>1, <2>2
  <1>7. CASE Reduce
    <2>1. UNCHANGED <<final_result, final_effort>>
      BY <1>7 DEF Reduce, loop
    <2>2. CASE (Scan \/ Reject) /\ UNCHANGED heard
      <3>1. /\ UNCHANGED <<applied, last_result, last_effort>>
            /\ Running /\ pc' \in {"scan", "solve", "finish"}
        BY <2>2, AdvanceTarget DEF Scan, Reject, report, Running
      <3>2. QED
        BY <1>1, <2>1, <2>2, <3>1 DEF HeardInv, OfLastBug, Running
    <2>3. QED
      BY <1>7, <2>1, <2>2, AcceptHeard DEF Reduce
  <1>8. CASE HandBack
    <2>1. /\ pc = "finish" /\ pc' = "idle" /\ status' = FinalStatus
          /\ UNCHANGED <<heard, last_result, last_effort>> /\ Return
      BY <1>8 DEF HandBack, Finish, report
    <2>2. CASE FinalStatus = kSuccessful
      <3>1. applied # {}
        BY <2>2 DEF FinalStatus
      <3>2. OfLastBug(last_result, IF last_effort >= 0 THEN last_effort ELSE final_effort)
        BY <2>1, <3>1 DEF HeardInv, Running
      <3>3. /\ final_result' = last_result
            /\ final_effort' = IF last_effort >= 0 THEN last_effort ELSE final_effort
        BY <2>1, <2>2 DEF Return, Report, Loop!TakeReport
      <3>4. QED
        BY <1>1, <2>1, <3>2, <3>3 DEF HeardInv, OfLastBug, Running
    <2>3. CASE FinalStatus # kSuccessful
      <3>1. applied = {}
        BY <2>1, <2>3 DEF FinalStatus, SystemInv, IInv, CopyIInv, PendingInv, Running
      <3>2. OfLastBug(final_result, final_effort)
        BY <2>1, <3>1 DEF HeardInv, Running
      <3>3. UNCHANGED <<final_result, final_effort>>
        BY <2>1, <2>3 DEF Return, Report
      <3>4. QED
        BY <1>1, <2>1, <3>2, <3>3 DEF HeardInv, OfLastBug, Running
    <2>4. QED
      BY <2>2, <2>3
  <1>9. CASE Timeout \/ UNCHANGED vars
    <2>1. UNCHANGED <<pc, applied, last_result, last_effort, heard, final_result,
                      final_effort>>
      BY <1>9 DEF Timeout, Loop!Expire, Loop!lastvars, run, report, vars, brvars, loop
    <2>2. QED
      BY <1>1, <2>1 DEF HeardInv, OfLastBug, Running
  <1>10. QED
    BY <1>3, <1>4, <1>5, <1>6, <1>7, <1>8, <1>9 DEF SystemNext, Progress, Call

(***************************************************************************)
(* Whenever the loop has control, the result and the effort it holds are   *)
(* those of the last bug: neither a rejected batch, nor the start of a run,*)
(* nor a run that failed puts others in their place (BuggerModifier::run,  *)
(* call_solver and BuggerRun::apply).                                      *)
(***************************************************************************)
THEOREM ReportAlwaysOfLastBug == System => []ReportIsOfLastBug
  <1>1. HeardInv => ReportIsOfLastBug
    BY DEF HeardInv, ReportIsOfLastBug, Control
  <1>2. SystemInv /\ SystemInv' /\ HeardInv /\ [SystemNext]_vars => HeardInv'
    BY StepHeard
  <1>3. QED
    BY SystemInductive, InitHeard, <1>1, <1>2, PTL DEF System
===============================================================================
