--------------------------- MODULE BuggerRunProofs ----------------------------
(***************************************************************************)
(* Proofs about the main loop: IInv is inductive, and the properties of    *)
(* BuggerRun follow from it, for every number of modifiers, every size of  *)
(* the input and every choice of the parameters.                           *)
(***************************************************************************)
EXTENDS BuggerRun, TLAPS

USE SizesAssumption, ParametersAssumption
  DEF kDidNotRun, kNotAdmissible, kUnsuccesful, kSuccessful, ModifierStatus,
      Modifier, Retcode

(* The limits main() hands over: every start lies below its maximum, unless *)
(* the maximum is zero.                                                     *)
LEMMA EffectiveLimits ==
  ASSUME NEW init \in Int, NEW max \in Nat
  PROVE  /\ EffectiveStart(init, max) \in Nat
         /\ EffectiveStart(init, max) <= max
         /\ max > 0 => EffectiveStart(init, max) < max
  BY DEF EffectiveStart, MaxOf

(* What was tried up to an index, and the index. *)
LEMMA IntervalGrows ==
  ASSUME NEW first \in Int, NEW last \in Int, NEW S, first..(last - 1) \subseteq S
  PROVE  first..last \subseteq S \cup {last}
  OBVIOUS

(* The maxima that main() makes of the parameters.                         *)
LEMMA EffectiveMaxima ==
  ASSUME NEW max \in Int
  PROVE  /\ EffectiveMaxRounds(max) \in Nat
         /\ EffectiveMaxStages(max) \in 0..NModifiers
  BY DEF EffectiveMaxRounds, EffectiveMaxStages

(* Where the rounds and stages start and end.                              *)
LEMMA InitLimits ==
  ASSUME Init
  PROVE  /\ maxrounds \in Nat /\ maxstages \in 0..NModifiers
         /\ initround \in Nat /\ initround <= maxrounds
         /\ initstage \in Nat /\ initstage <= maxstages
         /\ maxstages > 0 => initstage < maxstages
  <1>1. PICK maxr \in RoundLimits, initr \in RoundLimits :
          /\ maxrounds = EffectiveMaxRounds(maxr)
          /\ initround = EffectiveStart(initr, maxrounds)
    BY DEF Init
  <1>2. PICK maxs \in StageLimits, inits \in StageLimits :
          /\ maxstages = EffectiveMaxStages(maxs)
          /\ initstage = EffectiveStart(inits, maxstages)
    BY DEF Init
  <1>3. /\ maxr \in Int /\ initr \in Int /\ maxs \in Int /\ inits \in Int
    OBVIOUS
  <1>4. maxrounds \in Nat /\ maxstages \in 0..NModifiers
    BY <1>1, <1>2, <1>3, EffectiveMaxima
  <1>5. initround \in Nat /\ initround <= maxrounds
    BY <1>1, <1>3, <1>4, EffectiveLimits
  <1>6. /\ initstage \in Nat /\ initstage <= maxstages
        /\ maxstages > 0 => initstage < maxstages
    BY <1>2, <1>3, <1>4, EffectiveLimits
  <1>7. QED
    BY <1>4, <1>5, <1>6

(* The first state is typed.                                               *)
LEMMA InitType == Init => TypeOK
  <1> SUFFICES ASSUME Init PROVE TypeOK
    OBVIOUS
  <1>1. /\ maxrounds \in Nat /\ maxstages \in 0..NModifiers
        /\ initround \in Nat /\ initstage \in Nat
    BY InitLimits
  <1>2. instance \in Instances
    BY DEF Init, instance, Instances
  <1>3. expenditure \in Int /\ nbatches \in Int
    BY DEF Init
  <1>4. results \in [Modifier -> ModifierStatus]
    BY DEF Init
  <1>5. /\ round \in Nat /\ stage \in Nat /\ success \in Nat /\ modifier \in Nat
        /\ last_round \in Nat \cup {-1} /\ last_modifier \in Modifier \cup {-1}
        /\ last_result \in Retcode /\ last_effort \in Int
    BY <1>1 DEF Init
  <1>6. /\ enabled \subseteq Modifier /\ tried \subseteq Modifier
        /\ written \in Instances \cup {<<>>} /\ expired \in BOOLEAN
    BY DEF Init
  <1>7. QED
    BY <1>1, <1>2, <1>3, <1>4, <1>5, <1>6 DEF Init, TypeOK

-------------------------------------------------------------------------------
(* Each action preserves the types. *)
LEMMA StepType ==
  ASSUME TypeOK, [Next]_vars
  PROVE  TypeOK'
  <1> USE DEF TypeOK, instance, Instances, parameters, loopvars, lastvars
  <1>1. CASE SkipOriginal
    BY <1>1 DEF SkipOriginal, MaxOf
  <1>2. CASE SolveOriginal
    <2>1. PICK code \in Retcode, effort \in Efforts, l \in 1..limit :
            /\ last_result' = code
            /\ last_effort' = effort
            /\ limit' = l
            /\ IF mode # 0 /\ expenditure < 0
                 THEN expenditure' \in OriginalExpenditure(effort)
                 ELSE UNCHANGED expenditure
      BY <1>2 DEF SolveOriginal
    <2>2. OriginalExpenditure(effort) \subseteq Int
      BY DEF OriginalExpenditure, Wrapped
    <2>3. expenditure' \in Int
      BY <2>1, <2>2
    <2>4. QED
      BY <1>2, <2>1, <2>3 DEF SolveOriginal
  <1>3. CASE WriteInstance
    <2>1. AdaptedBatches(last_effort) \in Int
      BY DEF AdaptedBatches
    <2>2. nbatches' \in Int /\ modifier' \in Nat /\ phase' \in {"done", "modify"}
      BY <1>3, <2>1 DEF WriteInstance
    <2>3. QED
      BY <1>3, <2>2 DEF WriteInstance, WrittenInstance
  <1>4. CASE LeaveLoop
    BY <1>4 DEF LeaveLoop
  <1>5. ASSUME NEW m \in Modifier, Succeed(m)
        PROVE  TypeOK'
    <2>1. /\ stage' = stage /\ success' = m /\ modifier' = m + 1
          /\ last_round' = round /\ last_modifier' = m
          /\ results' = [results EXCEPT ![m] = kSuccessful]
      BY <1>5 DEF Succeed, Bookkeep, Record
    <2>2. PICK v \in 0..(size - 1), l \in 1..limit,
               effort \in Efforts \cup {-1}, code \in Retcode :
            /\ size' = v /\ limit' = l
            /\ TakeReport(code, effort)
      BY <1>5 DEF Succeed
    <2>3. /\ size' \in 0..MaxSize /\ limit' \in 1..MaxLimit
          /\ last_effort' \in Int /\ last_result' \in Retcode
      BY <2>2 DEF TakeReport
    <2>4. /\ UNCHANGED <<phase, parameters, expenditure, nbatches, round,
                         written, expired>>
          /\ tried' = {}
      BY <1>5 DEF Succeed
    <2>5. results' \in [Modifier -> ModifierStatus]
      BY <2>1
    <2>6. /\ stage' \in Nat /\ success' \in Nat /\ modifier' \in Nat
          /\ last_round' \in Nat \cup {-1} /\ last_modifier' \in Modifier \cup {-1}
      BY <2>1
    <2>7. /\ instance' \in Instances' /\ tried' \subseteq Modifier
          /\ written' \in (Instances \cup {<<>>})'
      BY <2>3, <2>4
    <2>8. QED
      BY <2>3, <2>4, <2>5, <2>6, <2>7
  <1>6. ASSUME NEW m \in Modifier, FailModifier(m)
        PROVE  TypeOK'
    <2>1. /\ stage' \in Nat /\ success' \in Nat /\ modifier' \in Nat
          /\ results' \in [Modifier -> ModifierStatus]
          /\ UNCHANGED <<last_round, last_modifier>>
      <3>1. PICK status \in {kDidNotRun, kNotAdmissible, kUnsuccesful} :
              Bookkeep(m, status)
        BY <1>6 DEF FailModifier
      <3>2. status # kSuccessful /\ status \in ModifierStatus
        OBVIOUS
      <3>3. results' \in [Modifier -> ModifierStatus]
        BY <3>1, <3>2 DEF Bookkeep, Record
      <3>4. CASE EndsStage(m)
        BY <3>1, <3>2, <3>3, <3>4 DEF Bookkeep
      <3>5. CASE ~ EndsStage(m)
        BY <3>1, <3>2, <3>3, <3>5 DEF Bookkeep
      <3>6. QED
        BY <3>4, <3>5
    <2>2. tried' \subseteq Modifier
      BY <1>6 DEF FailModifier
    <2>3. UNCHANGED <<phase, parameters, expenditure, nbatches, round,
                      last_result, last_effort, instance, written, expired>>
      BY <1>6 DEF FailModifier
    <2>4. QED
      BY <2>1, <2>2, <2>3
  <1>7. CASE EndRound
    BY <1>7 DEF EndRound
  <1>8. CASE Expire
    BY <1>8 DEF Expire
  <1>9. CASE UNCHANGED vars
    BY <1>9 DEF vars
  <1>10. QED
    BY <1>1, <1>2, <1>3, <1>4, <1>5, <1>6, <1>7, <1>8, <1>9 DEF Next, Step

(* Every variable keeps its type, whatever the parameters. *)
THEOREM TypeCorrect == Spec => []TypeOK
  <1>1. TypeOK /\ [Next]_vars => TypeOK'
    BY StepType
  <1>2. QED
    BY InitType, <1>1, PTL DEF Spec
-------------------------------------------------------------------------------
(* The inductive invariant holds initially ... *)
LEMMA InitIInv == Init => IInv
  <1> SUFFICES ASSUME Init PROVE IInv
    OBVIOUS
  <1>1. TypeOK
    BY InitType
  <1>a. /\ maxrounds \in Nat /\ maxstages \in 0..NModifiers
        /\ initround \in Nat /\ initround <= maxrounds
        /\ initstage \in Nat /\ initstage <= maxstages
        /\ maxstages > 0 => initstage < maxstages
    BY InitLimits
  <1>b. /\ phase = "original" /\ round = initround /\ stage = initstage
        /\ success = initstage /\ modifier = 0 /\ size \in 0..MaxSize
        /\ last_result = "OKAY" /\ last_effort = -1
        /\ last_round = -1 /\ last_modifier = -1
        /\ written = <<>> /\ tried = {}
    BY DEF Init
  <1>2. IndexInv
    BY <1>a, <1>b DEF IndexInv
  <1>3. TriedInv
    BY <1>a, <1>b DEF TriedInv, Before, After
  <1>4. WrittenInv
    BY <1>a, <1>b DEF WrittenInv, RoundsShrink, LastWrittenIsFinal
  <1>5. ResultsInv
    BY <1>b DEF ResultsInv
  <1>6. RoundsInv
    BY <1>a, <1>b DEF RoundsInv, RoundsBounded
  <1>7. StatsInv
    BY <1>a, <1>b DEF StatsInv
  <1>8. QED
    BY <1>1, <1>2, <1>3, <1>4, <1>5, <1>6, <1>7 DEF IInv

(* ... and every step preserves it. *)
LEMMA StepIInv ==
  ASSUME IInv, [Next]_vars
  PROVE  IInv'
  <1>1. TypeOK /\ TypeOK'
    BY StepType DEF IInv
  <1> USE <1>1 DEF TypeOK, instance, Instances, parameters, loopvars, lastvars
  <1>2. CASE SkipOriginal
    <2> USE <1>2 DEF SkipOriginal, SolvesOriginal
    <2>1. IndexInv'
      BY DEF IInv, IndexInv
    <2>2. TriedInv'
      BY DEF IInv, IndexInv, TriedInv, Before, After
    <2>3. WrittenInv'
      BY DEF IInv, IndexInv, WrittenInv, RoundsShrink, LastWrittenIsFinal
    <2>4. ResultsInv'
      BY DEF IInv, ResultsInv
    <2>5. RoundsInv'
      BY DEF IInv, IndexInv, WrittenInv, RoundsShrink, RoundsInv, RoundsBounded
    <2>6. StatsInv'
      BY DEF IInv, IndexInv, StatsInv
    <2>7. QED
      BY <2>1, <2>2, <2>3, <2>4, <2>5, <2>6 DEF IInv
  <1>3. CASE SolveOriginal
    <2> USE <1>3 DEF SolveOriginal, SolvesOriginal
    <2>1. IndexInv'
      BY DEF IInv, IndexInv
    <2>2. TriedInv'
      BY DEF IInv, IndexInv, TriedInv, Before, After
    <2>3. WrittenInv'
      BY DEF IInv, IndexInv, WrittenInv, RoundsShrink, LastWrittenIsFinal
    <2>4. ResultsInv'
      BY DEF IInv, ResultsInv
    <2>5. RoundsInv'
      BY DEF IInv, IndexInv, WrittenInv, RoundsShrink, RoundsInv, RoundsBounded
    <2>6. StatsInv'
      BY DEF IInv, IndexInv, StatsInv
    <2>7. QED
      BY <2>1, <2>2, <2>3, <2>4, <2>5, <2>6 DEF IInv
  <1>4. CASE WriteInstance
    <2> USE <1>4 DEF WriteInstance, WrittenInstance, RoundLimitReached
    <2>1. IndexInv'
      BY DEF IInv, IndexInv
    <2>2. TriedInv'
      <3>1. After(success) \subseteq tried
        BY DEF IInv, TriedInv
      <3>2. (After(success) \cup Before(0)) = After(success)
        BY DEF Before
      <3>3. modifier' = 0 => Before(modifier)' = Before(0)
        BY DEF Before
      <3>4. After(success)' = After(success)
        BY DEF After
      <3>5. phase' = "modify" => modifier' = 0 /\ modifier' <= success'
        OBVIOUS
      <3>6. tried' = tried /\ stage' = stage /\ maxstages' = maxstages /\ stage < maxstages
        OBVIOUS
      <3>7. CASE phase' = "modify"
        <4>1. (After(success) \cup Before(modifier))' = After(success)
          BY <3>2, <3>3, <3>4, <3>5, <3>7
        <4>2. QED
          BY <3>1, <3>5, <3>6, <3>7, <4>1 DEF TriedInv
      <3>8. CASE phase' # "modify"
        BY <3>1, <3>4, <3>6, <3>8 DEF TriedInv
      <3>9. QED
        BY <3>7, <3>8
    <2>3. WrittenInv'
      BY DEF IInv, IndexInv, WrittenInv, RoundsShrink, LastWrittenIsFinal
    <2>4. ResultsInv'
      BY DEF IInv, ResultsInv
    <2>5. RoundsInv'
      BY DEF IInv, IndexInv, WrittenInv, RoundsShrink, RoundsInv, RoundsBounded
    <2>6. StatsInv'
      BY DEF IInv, IndexInv, StatsInv
    <2>7. QED
      BY <2>1, <2>2, <2>3, <2>4, <2>5, <2>6 DEF IInv
  <1>5. CASE LeaveLoop
    <2> USE <1>5 DEF LeaveLoop
    <2>1. IndexInv'
      BY DEF IInv, IndexInv
    <2>2. TriedInv'
      BY DEF IInv, IndexInv, TriedInv, Before, After
    <2>3. WrittenInv'
      BY DEF IInv, IndexInv, WrittenInv, RoundsShrink, LastWrittenIsFinal
    <2>4. ResultsInv'
      BY DEF IInv, ResultsInv
    <2>5. RoundsInv'
      BY DEF IInv, IndexInv, WrittenInv, RoundsShrink, RoundsInv, RoundsBounded
    <2>6. StatsInv'
      BY DEF IInv, IndexInv, StatsInv
    <2>7. QED
      BY <2>1, <2>2, <2>3, <2>4, <2>5, <2>6 DEF IInv
  <1>6. ASSUME NEW m \in Modifier, Succeed(m)
        PROVE  IInv'
    <2> USE <1>6 DEF Succeed, Bookkeep, TakeReport, ModifierDue, Record
    <2>1. IndexInv'
      BY DEF IInv, IndexInv
    <2>2. TriedInv'
      BY DEF IInv, IndexInv, TriedInv, Before, After
    <2>3. WrittenInv'
      BY DEF IInv, IndexInv, WrittenInv, RoundsShrink, LastWrittenIsFinal
    <2>4. ResultsInv'
      <3>1. tried' = {}
        BY <1>6 DEF Succeed
      <3>2. QED
        BY <3>1 DEF ResultsInv
    <2>5. RoundsInv'
      BY DEF IInv, IndexInv, WrittenInv, RoundsShrink, RoundsInv, RoundsBounded
    <2>6. StatsInv'
      BY DEF IInv, IndexInv, StatsInv
    <2>7. QED
      BY <2>1, <2>2, <2>3, <2>4, <2>5, <2>6 DEF IInv
  <1>7. ASSUME NEW m \in Modifier, FailModifier(m)
        PROVE  IInv'
    <2> USE <1>7 DEF FailModifier, Bookkeep, ModifierDue, Record, EndsStage
    <2>1. IndexInv'
      <3>1. /\ m = modifier /\ modifier <= stage /\ stage < maxstages
            /\ phase' = phase /\ phase = "modify" /\ maxstages' = maxstages
        OBVIOUS
      <3>2. IF success = m
              THEN modifier' = stage + 1 /\ stage' = stage + 1 /\ success' = stage + 1
              ELSE modifier' = m + 1 /\ stage' = stage /\ success' = success
        OBVIOUS
      <3>3. /\ stage \in Nat /\ success \in Nat /\ modifier \in Nat
            /\ maxstages \in Nat /\ m \in Nat
        BY DEF IInv, TypeOK
      <3>4. success <= stage
        BY DEF IInv, IndexInv
      <3>5. CASE success = m
        BY <3>1, <3>2, <3>3, <3>5 DEF IndexInv
      <3>6. CASE success # m
        BY <3>1, <3>2, <3>3, <3>4, <3>6 DEF IndexInv
      <3>7. QED
        BY <3>5, <3>6
    <2>2. TriedInv'
      <3>due. m = modifier /\ phase = "modify" /\ stage < maxstages
        OBVIOUS
      <3>typed. /\ stage \in Nat /\ success \in Nat /\ modifier \in Nat
                /\ maxstages \in Nat /\ m \in Nat
        BY <3>due DEF IInv, TypeOK
      <3>1. CASE success = m
        <4>1. After(success) \cup Before(m) \subseteq tried
          BY <3>1 DEF IInv, TriedInv, IndexInv
        <4>2. Before(stage + 1) \subseteq After(success) \cup Before(m) \cup {m}
          BY <3>1 DEF Before, After
        <4>3. Before(stage + 1) \subseteq tried'
          BY <4>1, <4>2
        <4>4. stage' = stage + 1 /\ success' = stage + 1 /\ modifier' = stage + 1
          BY <3>1
        <4>5. stage' <= maxstages' /\ phase' = "modify" /\ maxstages' = maxstages
          BY <4>4
        <4>6. CASE stage' = maxstages
          BY <4>3, <4>4, <4>5, <4>6 DEF TriedInv, Before
        <4>7. CASE stage' < maxstages
          <5>1. (After(success) \cup Before(modifier))' \subseteq tried'
            BY <4>3, <4>4 DEF After, Before
          <5>2. QED
            BY <4>4, <4>5, <4>7, <5>1 DEF TriedInv
        <4>8. QED
          BY <4>5, <4>6, <4>7
      <3>2. CASE success < m
        <4>1. (success + 1)..(m - 1) \subseteq tried
          <5>1. ~(modifier <= success)
            BY <3>2, <3>due, <3>typed
          <5>2. (success + 1)..(modifier - 1) \subseteq tried
            BY <5>1, <3>due DEF IInv, TriedInv
          <5>3. QED
            BY <5>2, <3>due
        <4>2. /\ modifier' = m + 1 /\ success' = success /\ stage' = stage
              /\ tried' = tried \cup {m} /\ phase' = "modify"
              /\ maxstages' = maxstages /\ stage < maxstages
          BY <3>2
        <4>3. (success + 1)..m \subseteq tried \cup {m}
          <5>1. success + 1 \in Int /\ m \in Int
            BY <3>typed
          <5>2. QED
            BY <4>1, <5>1, IntervalGrows, Zenon
        <4>4. ((success + 1)..(modifier - 1))' \subseteq tried'
          <5>1. modifier' - 1 = m
            BY <4>2, <3>typed
          <5>2. (success + 1)' = success + 1 /\ tried' = tried \cup {m}
            BY <4>2
          <5>3. QED
            BY <4>3, <5>1, <5>2
        <4>5. ~(modifier' <= success') /\ stage' # maxstages'
          BY <3>2, <4>2, <3>typed
        <4>6. QED
          BY <4>2, <4>4, <4>5 DEF TriedInv
      <3>3. CASE m < success
        <4>1. After(success) \cup Before(m) \subseteq tried
          BY <3>3 DEF IInv, TriedInv, IndexInv
        <4>2. Before(m + 1) \subseteq Before(m) \cup {m}
          BY DEF Before
        <4>3. /\ modifier' = m + 1 /\ success' = success /\ stage' = stage
              /\ tried' = tried \cup {m} /\ phase' = "modify"
              /\ maxstages' = maxstages /\ stage < maxstages
          BY <3>3
        <4>4. After(success)' = After(success) /\ Before(modifier)' = Before(m + 1)
          BY <4>3 DEF After, Before
        <4>5. (After(success) \cup Before(modifier))' \subseteq tried'
          BY <4>1, <4>2, <4>3, <4>4
        <4>6. modifier' <= success'
          BY <3>3, <4>3
        <4>7. QED
          BY <4>3, <4>5, <4>6 DEF TriedInv
      <3>4. QED
        BY <3>1, <3>2, <3>3
    <2>3. WrittenInv'
      <3>1. /\ phase' = phase /\ phase = "modify" /\ written' = written
            /\ instance' = instance /\ size' = size
            /\ maxstages' = maxstages /\ m = modifier /\ stage < maxstages
        OBVIOUS
      <3>2. /\ written # <<>>
            /\ IF m <= success THEN written = instance ELSE size < written[1]
        BY <3>1 DEF IInv, WrittenInv
      <3>3. /\ stage \in Nat /\ success \in Nat /\ m \in Nat /\ maxstages \in Nat
        BY DEF IInv, TypeOK
      <3>4. CASE success = m
        <4>1. written' = instance' /\ modifier' = success'
          BY <3>1, <3>2, <3>3, <3>4
        <4>2. success' \in Nat
          BY <3>3, <3>4
        <4>3. QED
          BY <3>1, <3>2, <4>1, <4>2 DEF WrittenInv, RoundsShrink, LastWrittenIsFinal
      <3>5. CASE success # m
        <4>1. modifier' = m + 1 /\ success' = success /\ stage' = stage
          BY <3>5
        <4>2. IF modifier' <= success' THEN written' = instance' ELSE size' < written'[1]
          BY <3>1, <3>2, <3>3, <3>5, <4>1
        <4>3. stage' # maxstages'
          BY <3>1, <3>3, <4>1
        <4>4. QED
          BY <3>1, <3>2, <4>2, <4>3 DEF WrittenInv, RoundsShrink, LastWrittenIsFinal
      <3>6. QED
        BY <3>4, <3>5
    <2>4. ResultsInv'
      <3>1. PICK status \in {kDidNotRun, kNotAdmissible, kUnsuccesful} :
              results' = [results EXCEPT ![m] = status]
        OBVIOUS
      <3>2. tried' = tried \cup {m} /\ status # kSuccessful
        BY <3>1
      <3>3. results \in [Modifier -> ModifierStatus]
        BY DEF IInv, TypeOK
      <3>4. \A n \in tried : results[n] # kSuccessful
        BY DEF IInv, ResultsInv
      <3>5. QED
        BY <3>1, <3>2, <3>3, <3>4 DEF ResultsInv
    <2>5. RoundsInv'
      BY DEF IInv, IndexInv, WrittenInv, RoundsShrink, RoundsInv, RoundsBounded
    <2>6. StatsInv'
      BY DEF IInv, IndexInv, StatsInv
    <2>7. QED
      BY <2>1, <2>2, <2>3, <2>4, <2>5, <2>6 DEF IInv
  <1>8. CASE EndRound
    <2> USE <1>8 DEF EndRound, ModifierDue
    <2>1. IndexInv'
      BY DEF IInv, IndexInv
    <2>2. TriedInv'
      BY DEF IInv, IndexInv, TriedInv, Before, After
    <2>3. WrittenInv'
      BY DEF IInv, IndexInv, WrittenInv, RoundsShrink, LastWrittenIsFinal
    <2>4. ResultsInv'
      BY DEF IInv, ResultsInv
    <2>5. RoundsInv'
      BY DEF IInv, IndexInv, WrittenInv, RoundsShrink, RoundsInv, RoundsBounded
    <2>6. StatsInv'
      BY DEF IInv, IndexInv, StatsInv
    <2>7. QED
      BY <2>1, <2>2, <2>3, <2>4, <2>5, <2>6 DEF IInv
  <1>9. CASE Expire
    <2> USE <1>9 DEF Expire
    <2>1. IndexInv'
      BY DEF IInv, IndexInv
    <2>2. TriedInv'
      BY DEF IInv, IndexInv, TriedInv, Before, After
    <2>3. WrittenInv'
      BY DEF IInv, IndexInv, WrittenInv, RoundsShrink, LastWrittenIsFinal
    <2>4. ResultsInv'
      BY DEF IInv, ResultsInv
    <2>5. RoundsInv'
      BY DEF IInv, IndexInv, WrittenInv, RoundsShrink, RoundsInv, RoundsBounded
    <2>6. StatsInv'
      BY DEF IInv, IndexInv, StatsInv
    <2>7. QED
      BY <2>1, <2>2, <2>3, <2>4, <2>5, <2>6 DEF IInv
  <1>10. CASE UNCHANGED vars
    <2> USE <1>10 DEF vars
    <2>1. IndexInv'
      BY DEF IInv, IndexInv
    <2>2. TriedInv'
      BY DEF IInv, IndexInv, TriedInv, Before, After
    <2>3. WrittenInv'
      BY DEF IInv, IndexInv, WrittenInv, RoundsShrink, LastWrittenIsFinal
    <2>4. ResultsInv'
      BY DEF IInv, ResultsInv
    <2>5. RoundsInv'
      BY DEF IInv, IndexInv, WrittenInv, RoundsShrink, RoundsInv, RoundsBounded
    <2>6. StatsInv'
      BY DEF IInv, IndexInv, StatsInv
    <2>7. QED
      BY <2>1, <2>2, <2>3, <2>4, <2>5, <2>6 DEF IInv
  <1>11. QED
    BY <1>2, <1>3, <1>4, <1>5, <1>6, <1>7, <1>8, <1>9, <1>10 DEF Next, Step

(* The strengthened invariant holds in every reachable state. *)
THEOREM Inductive == Spec => []IInv
  <1>1. IInv /\ [Next]_vars => IInv'
    BY StepIInv
  <1>2. QED
    BY InitIInv, <1>1, PTL DEF Spec

-------------------------------------------------------------------------------
(* Exhausting the stages means that every modifier failed on the final      *)
(* instance.                                                                *)
THEOREM ExhaustionIsFixpoint == Spec => []FixpointAtExhaustion
  <1>1. IInv => FixpointAtExhaustion
    BY DEF IInv, TypeOK, IndexInv, TriedInv, Before, FixpointAtExhaustion
  <1>2. QED
    BY Inductive, <1>1, PTL

(* The files of the last round hold the final instance. *)
THEOREM FinalInstanceIsWritten == Spec => []LastWrittenIsFinal
  <1>1. IInv => LastWrittenIsFinal
    BY DEF IInv, WrittenInv
  <1>2. QED
    BY Inductive, <1>1, PTL

(* No two rounds write the same problem. *)
THEOREM EveryRoundShrinks == Spec => []RoundsShrink
  <1>1. IInv => RoundsShrink
    BY DEF IInv, WrittenInv
  <1>2. QED
    BY Inductive, <1>1, PTL

(* The number of rounds is bounded by the size of the input. *)
THEOREM RoundBound == Spec => []RoundsBounded
  <1>1. IInv => RoundsBounded
    BY DEF IInv, RoundsInv
  <1>2. QED
    BY Inductive, <1>1, PTL

(* The maximum of a nonempty set of statuses is one of them. *)
LEMMA StatusMaximum ==
  ASSUME NEW S \in SUBSET ModifierStatus, S # {}
  PROVE  (CHOOSE s \in S : \A t \in S : t <= s) \in S
  <1>1. \E s \in S : \A t \in S : t <= s
    <2>1. S \subseteq {0, 1, 2, 3}
      OBVIOUS
    <2>2. CASE 3 \in S
      BY <2>1, <2>2
    <2>3. CASE 3 \notin S /\ 2 \in S
      BY <2>1, <2>3
    <2>4. CASE 3 \notin S /\ 2 \notin S /\ 1 \in S
      BY <2>1, <2>4
    <2>5. CASE 3 \notin S /\ 2 \notin S /\ 1 \notin S
      <3>1. PICK s \in S : TRUE
        OBVIOUS
      <3>2. S = {0}
        BY <2>1, <2>5, <3>1
      <3>3. QED
        BY <3>2
    <2>6. QED
      BY <2>2, <2>3, <2>4, <2>5
  <1>2. QED
    BY <1>1

(* The closing assertion holds when the stages are exhausted. *)
THEOREM AssertionAtExhaustion == Spec => []NoSuccessAtExhaustion
  <1>1. IInv => NoSuccessAtExhaustion
    <2> SUFFICES ASSUME IInv, phase = "done", stage >= maxstages
                 PROVE  evaluateResults # kSuccessful
      BY DEF NoSuccessAtExhaustion
    <2> DEFINE S == {kDidNotRun} \cup {results[m] : m \in 0..(maxstages - 1)}
    <2>1. 0..(maxstages - 1) \subseteq tried
      BY DEF IInv, TypeOK, IndexInv, TriedInv, Before
    <2>2. \A s \in S : s \in ModifierStatus /\ s # kSuccessful
      BY <2>1 DEF IInv, TypeOK, ResultsInv
    <2>3. evaluateResults \in S
      BY <2>2, StatusMaximum DEF evaluateResults
    <2>4. QED
      BY <2>2, <2>3
  <1>2. QED
    BY Inductive, <1>1, PTL

(* The bookkeeping printStats asserts is consistent. *)
THEOREM Bookkeeping == Spec => []StatsConsistent
  <1>1. IInv => StatsConsistent
    BY DEF IInv, StatsInv, StatsConsistent
  <1>2. QED
    BY Inductive, <1>1, PTL

-------------------------------------------------------------------------------
(* Ceiled division: the least number of batches that reaches the budget. *)
LEMMA CeiledDivision ==
  ASSUME NEW e \in Nat \ {0}, NEW k \in Nat \ {0}
  PROVE  /\ ((e - 1) \div k + 1) * k >= e
         /\ ((e - 1) \div k) * k < e
         /\ (e - 1) \div k + 1 \in 1..e
  <1> DEFINE q == (e - 1) \div k
  <1>1. q \in Nat /\ k * q <= e - 1 /\ e - 1 < k * (q + 1)
    OBVIOUS
  <1>2. q <= k * q
    BY <1>1
  <1>3. QED
    BY <1>1, <1>2

(* A number wraps into the range of its type, by a multiple of its size. *)
LEMMA WrapsIntoRange ==
  ASSUME NEW x \in Nat
  PROVE  /\ Wrapped(x) \in Int
         /\ Wrapped(x) <= LLMax
         /\ (x - Wrapped(x)) % (2 * LLMax + 2) = 0
  <1> DEFINE n == 2 * LLMax + 2
             y == x + LLMax + 1
  <1>1. n \in Nat \ {0} /\ y \in Nat
    OBVIOUS
  <1> HIDE DEF n, y
  <1>2. /\ y = n * (y \div n) + (y % n)
        /\ y % n \in 0..(n - 1) /\ y \div n \in Nat
    BY <1>1
  <1>3. ((y \div n) * n) % n = 0
    BY <1>1, <1>2
  <1>4. Wrapped(x) = (y % n) - LLMax - 1
    BY DEF Wrapped, n, y
  <1>5. x - Wrapped(x) = (y \div n) * n
    BY <1>1, <1>2, <1>4 DEF y
  <1>6. Wrapped(x) \in Int /\ Wrapped(x) <= LLMax
    BY <1>1, <1>2, <1>4 DEF n
  <1>7. (x - Wrapped(x)) % n = 0
    BY <1>3, <1>5
  <1>8. QED
    BY <1>6, <1>7 DEF n

(* What the original solve makes of the parameter is what is meant, or off *)
(* by a multiple of 2^64, or 0.                                            *)
LEMMA OriginalIsMeant ==
  ASSUME TypeOK, BudgetInv, NEW effort \in Efforts, expenditure < 0,
         SolvesOriginal, NEW x \in OriginalExpenditure(effort)
  PROVE  /\ x \in Int /\ x <= LLMax
         /\ IF MeantExpenditure(effort) <= LLMax THEN x = MeantExpenditure(effort)
            ELSE x # 0 => (MeantExpenditure(effort) - x) % (2 * LLMax + 2) = 0
  <1>1. effort \in -1..LLMax /\ nbatches \in 0..LLMax /\ expenditure \in Int
    BY DEF BudgetInv, TypeOK
  <1>2. CASE nbatches <= 0 \/ effort <= 0
    <2>1. x = 0 /\ MeantExpenditure(effort) = 0
      BY <1>1, <1>2 DEF OriginalExpenditure, MeantExpenditure
    <2>2. QED
      BY <2>1
  <1>3. CASE nbatches > 0 /\ effort > 0
    <2> DEFINE product == nbatches * effort
    <2>1. product \in Nat /\ MeantExpenditure(effort) = product
      BY <1>1, <1>3 DEF MeantExpenditure
    <2>2. x \in IF product <= LLMax THEN {product} ELSE {0, Wrapped(product)}
      BY <1>1, <1>3 DEF OriginalExpenditure
    <2> HIDE DEF product
    <2>3. CASE product <= LLMax
      BY <2>1, <2>2, <2>3
    <2>4. CASE ~ (product <= LLMax)
      <3>1. x = 0 \/ x = Wrapped(product)
        BY <2>2, <2>4
      <3>2. CASE x = 0
        BY <2>1, <2>4, <3>2
      <3>3. CASE x = Wrapped(product)
        BY <2>1, <2>4, <3>3, WrapsIntoRange
      <3>4. QED
        BY <3>1, <3>2, <3>3
    <2>5. QED
      BY <2>3, <2>4
  <1>4. QED
    BY <1>1, <1>2, <1>3

(* The number of batches is the least that reaches the expenditure, or the *)
(* one there was.                                                          *)
LEMMA AdaptedFits ==
  ASSUME TypeOK, BudgetInv
  PROVE  LET n == AdaptedBatches(last_effort)
         IN  /\ n \in 0..LLMax
             /\ IF expenditure > 0 /\ last_effort >= 1
                  THEN n * last_effort >= expenditure /\ (n - 1) * last_effort < expenditure
                  ELSE n = IF expenditure > 0 /\ last_effort = 0 THEN 0 ELSE nbatches
  <1> DEFINE n == AdaptedBatches(last_effort)
  <1>1. /\ expenditure \in Int /\ expenditure <= LLMax
        /\ last_effort \in -1..LLMax /\ nbatches \in 0..LLMax
    BY DEF TypeOK, BudgetInv
  <1>2. CASE expenditure > 0 /\ last_effort >= 1
    <2> DEFINE q == (expenditure - 1) \div last_effort
    <2>1. expenditure \in Nat \ {0} /\ last_effort \in Nat \ {0}
      BY <1>1, <1>2
    <2>2. /\ (q + 1) * last_effort >= expenditure
          /\ q * last_effort < expenditure
          /\ q + 1 \in 1..expenditure
      BY <2>1, CeiledDivision
    <2>3. n = q + 1 /\ q \in Int
      BY <1>1, <1>2, <2>1 DEF AdaptedBatches
    <2> HIDE DEF q
    <2>4. n - 1 = q /\ n \in 0..LLMax
      BY <1>1, <2>2, <2>3
    <2>5. n * last_effort >= expenditure /\ (n - 1) * last_effort < expenditure
      BY <2>2, <2>3, <2>4
    <2> HIDE DEF n
    <2>6. QED
      BY <1>2, <2>4, <2>5 DEF n
  <1>3. CASE ~ (expenditure > 0 /\ last_effort >= 1)
    BY <1>1, <1>3 DEF AdaptedBatches
  <1>4. QED
    BY <1>2, <1>3

(* Efforts and expenditures never leave the range of their type, and the   *)
(* number of batches is never negative, wrapped or not.                    *)
LEMMA BudgetStep ==
  ASSUME TypeOK, BudgetInv, [Next]_vars
  PROVE  BudgetInv'
  <1> USE DEF BudgetInv
  <1>1. CASE SkipOriginal
    BY <1>1 DEF SkipOriginal, MaxOf, lastvars, TypeOK
  <1>2. CASE SolveOriginal
    <2>1. PICK effort \in Efforts :
            /\ last_effort' = effort
            /\ IF mode # 0 /\ expenditure < 0
                 THEN expenditure' \in OriginalExpenditure(effort)
                 ELSE UNCHANGED expenditure
      BY <1>2 DEF SolveOriginal
    <2>2. SolvesOriginal /\ nbatches' = nbatches
      BY <1>2 DEF SolveOriginal
    <2>3. expenditure' <= LLMax
      BY <2>1, <2>2, OriginalIsMeant
    <2>4. QED
      BY <2>1, <2>2, <2>3
  <1>3. CASE WriteInstance
    <2>1. nbatches' \in {nbatches, AdaptedBatches(last_effort)}
          /\ UNCHANGED <<expenditure, last_effort>>
      BY <1>3 DEF WriteInstance, lastvars
    <2>2. QED
      BY <2>1, AdaptedFits
  <1>4. CASE LeaveLoop
    BY <1>4 DEF LeaveLoop, lastvars
  <1>5. ASSUME NEW m \in Modifier, Succeed(m) PROVE BudgetInv'
    BY <1>5 DEF Succeed, TakeReport
  <1>6. ASSUME NEW m \in Modifier, FailModifier(m) PROVE BudgetInv'
    BY <1>6 DEF FailModifier
  <1>7. CASE EndRound
    BY <1>7 DEF EndRound, lastvars
  <1>8. CASE Expire
    BY <1>8 DEF Expire, lastvars
  <1>9. CASE UNCHANGED vars
    BY <1>9 DEF vars, lastvars
  <1>10. QED
    BY <1>1, <1>2, <1>3, <1>4, <1>5, <1>6, <1>7, <1>8, <1>9 DEF Next, Step

(* The expenditure is the one that is meant if that is a long long, and    *)
(* the number of batches is the least that reaches it and never negative.  *)
THEOREM BatchesReachBudget == Spec => BatchBudget
  <1> DEFINE Budgeted ==
        /\ phase = "original" /\ phase' = "round" =>
             LET meant == MeantExpenditure(last_effort')
             IN  IF meant <= LLMax THEN expenditure' = meant
                 ELSE expenditure' # 0 => (meant - expenditure') % (2 * LLMax + 2) = 0
        /\ phase = "round" /\ phase' = "modify" =>
             /\ nbatches' \in 0..LLMax
             /\ IF expenditure > 0 /\ last_effort >= 1
                  THEN /\ nbatches' * last_effort >= expenditure
                       /\ (nbatches' - 1) * last_effort < expenditure
                  ELSE nbatches' = IF expenditure > 0 /\ last_effort = 0 THEN 0
                                   ELSE nbatches
  <1>1. Init => BudgetInv
    BY DEF Init, BudgetInv
  <1>2. TypeOK /\ BudgetInv /\ [Next]_vars => Budgeted
    <2> SUFFICES ASSUME TypeOK, BudgetInv, [Next]_vars PROVE Budgeted
      OBVIOUS
    <2>1. ASSUME phase = "original", phase' = "round"
          PROVE  LET meant == MeantExpenditure(last_effort')
                 IN  IF meant <= LLMax THEN expenditure' = meant
                     ELSE expenditure' # 0 => (meant - expenditure') % (2 * LLMax + 2) = 0
      <3>1. SkipOriginal \/ SolveOriginal
        BY <2>1 DEF Next, Step, vars, WriteInstance, LeaveLoop, Succeed,
               FailModifier, EndRound, Expire, ModifierDue
      <3>2. CASE SkipOriginal
        <4>1. expenditure' = MaxOf(expenditure, 0) /\ ~ SolvesOriginal
          BY <3>2 DEF SkipOriginal
        <4>2. expenditure \in Int /\ expenditure <= LLMax
          BY DEF TypeOK, BudgetInv
        <4>3. MeantExpenditure(last_effort') = MaxOf(expenditure, 0)
          BY <4>1, <4>2 DEF MeantExpenditure, MaxOf
        <4>4. QED
          BY <4>1, <4>2, <4>3 DEF MaxOf
      <3>3. CASE SolveOriginal
        <4>1. PICK effort \in Efforts :
                /\ last_effort' = effort
                /\ IF mode # 0 /\ expenditure < 0
                     THEN expenditure' \in OriginalExpenditure(effort)
                     ELSE UNCHANGED expenditure
          BY <3>3 DEF SolveOriginal
        <4>2. mode # 0 /\ SolvesOriginal
          BY <2>1, <3>3 DEF SolveOriginal
        <4>3. expenditure \in Int /\ expenditure <= LLMax
          BY DEF TypeOK, BudgetInv
        <4>4. CASE expenditure < 0
          BY <4>1, <4>2, <4>4, OriginalIsMeant
        <4>5. CASE expenditure >= 0
          BY <4>1, <4>3, <4>5 DEF MeantExpenditure
        <4>6. QED
          BY <4>3, <4>4, <4>5
      <3>4. QED
        BY <3>1, <3>2, <3>3
    <2>2. ASSUME phase = "round", phase' = "modify"
          PROVE  /\ nbatches' \in 0..LLMax
                 /\ IF expenditure > 0 /\ last_effort >= 1
                      THEN /\ nbatches' * last_effort >= expenditure
                           /\ (nbatches' - 1) * last_effort < expenditure
                      ELSE nbatches' = IF expenditure > 0 /\ last_effort = 0 THEN 0
                                       ELSE nbatches
      <3>1. WriteInstance
        BY <2>2 DEF Next, Step, vars, SkipOriginal, SolveOriginal, LeaveLoop, Succeed,
               FailModifier, Bookkeep, TakeReport, EndRound, Expire, ModifierDue
      <3>2. nbatches' = AdaptedBatches(last_effort)
        BY <2>2, <3>1 DEF WriteInstance
      <3>3. QED
        BY <3>2, AdaptedFits
    <2>3. QED
      BY <2>1, <2>2
  <1>3. Spec => []BudgetInv
    <2>1. TypeOK /\ BudgetInv /\ [Next]_vars => BudgetInv'
      BY BudgetStep
    <2>2. QED
      BY TypeCorrect, <1>1, <2>1, PTL DEF Spec
  <1>4. QED
    BY TypeCorrect, <1>2, <1>3, PTL DEF Spec, BatchBudget

===============================================================================
