----------------------------- MODULE InputProofs -----------------------------
(***************************************************************************)
(* Proofs about what is read: what the assignments in the parameter file   *)
(* and on the command line come to; which settings, problem and solution   *)
(* the start up reads, for all options, files, readers and interfaces;     *)
(* that instances pass through SCIP and its files as they are; what the    *)
(* setting modifier does to the settings that were read, for lists of any  *)
(* length, any number of batches and any answers of the solver; and that   *)
(* solution files give back what they were written for.  The variables of  *)
(* the five modules are separate.                                          *)
(***************************************************************************)
EXTENDS Parameters, Startup, ScipInstance, SolFile, SettingReduction, FiniteSetTheorems, TLAPS

-------------------------------------------------------------------------------
(***************************************************************************)
(* The parameters.  What is left to read is the end of one of the inputs.  *)
(***************************************************************************)
EndOf(rest_, lines) ==
  /\ rest_ \in Seq(Range(lines)) /\ Len(rest_) <= Len(lines)
  /\ \A k \in 1..Len(rest_) : rest_[k] = lines[Len(lines) - Len(rest_) + k]

InputInv ==
  /\ input \in {"file", "arguments", "done"}
  /\ file \in ParameterFiles /\ args \in Arguments
  /\ EndOf(rest, IF input = "file" THEN file ELSE args)
  /\ input = "done" => rest = <<>>

(* The number of lines and options that were read. *)
NumberRead ==
  IF input = "file" THEN Len(file) - Len(rest) ELSE Len(file) + Len(args) - Len(rest)

(* What the first n of them mean. *)
LegalUpto(p, n) == {k \in 1..n : Legal(Assignments[k], p)}

Latest(legal) == CHOOSE k \in legal : \A j \in legal : j <= k

MeantUpto(p, n) ==
  IF LegalUpto(p, n) = {} THEN Options[p].default
  ELSE Value(p, Assignments[Latest(LegalUpto(p, n))].value)

Blanks == \A k \in DOMAIN file : file[k].assigns => file[k].blank

StoredInv == Blanks => \A p \in DOMAIN Options : storage[p] = MeantUpto(p, NumberRead)

InRange(p, v) ==
  CASE Options[p].type = "number" -> v \in Options[p].min..Options[p].max
    [] Options[p].type = "bool"   -> v \in BOOLEAN
    [] OTHER -> TRUE

RangeInv ==
  /\ storage = [p \in DOMAIN Options |-> storage[p]]
  /\ \A p \in DOMAIN Options : InRange(p, storage[p])

ParametersInv == InputInv /\ RangeInv /\ StoredInv

(* The inputs are sequences, one after the other.                          *)
LEMMA InputsAreLines ==
  ASSUME InputInv
  PROVE  /\ file \in Seq(Range(file)) /\ args \in Seq(Range(args))
         /\ Len(file) \in Nat /\ Len(args) \in Nat /\ Len(rest) \in Nat
         /\ DOMAIN file = 1..Len(file) /\ DOMAIN Assignments = 1..Len(file) + Len(args)
         /\ \A k \in 1..Len(file) : Assignments[k] = file[k]
         /\ \A k \in 1..Len(args) : Assignments[Len(file) + k] = args[k]
<1>1. file \in Seq(Range(file)) /\ args \in Seq(Range(args))
  BY InputsAssumption DEF InputInv
<1>2. rest \in Seq(Range(file)) \/ rest \in Seq(Range(args))
  BY DEF InputInv, EndOf
<1>3. Len(rest) \in Nat
  BY <1>2
<1> QED BY <1>1, <1>3 DEF Assignments

(* The next line, and what is left after it.                               *)
LEMMA NextLine ==
  ASSUME NEW lines, lines \in Seq(Range(lines)), NEW rest_, EndOf(rest_, lines), rest_ # <<>>
  PROVE  /\ Len(rest_) \in Nat /\ Len(rest_) >= 1 /\ Len(Tail(rest_)) = Len(rest_) - 1
         /\ EndOf(Tail(rest_), lines)
         /\ Head(rest_) = lines[Len(lines) - Len(rest_) + 1]
         /\ Len(lines) - Len(rest_) + 1 \in 1..Len(lines)
<1>1. rest_ \in Seq(Range(lines)) /\ Len(rest_) \in Nat /\ Len(rest_) # 0 /\ Len(lines) \in Nat
  BY DEF EndOf
<1>2. /\ Len(Tail(rest_)) = Len(rest_) - 1 /\ Tail(rest_) \in Seq(Range(lines))
      /\ \A k \in 1..Len(rest_) - 1 : Tail(rest_)[k] = rest_[k + 1]
      /\ Head(rest_) = rest_[1]
  BY <1>1
<1>3. Len(rest_) <= Len(lines)
      /\ \A k \in 1..Len(rest_) : rest_[k] = lines[Len(lines) - Len(rest_) + k]
  BY DEF EndOf
<1>4. \A k \in 1..Len(rest_) - 1 :
        Tail(rest_)[k] = lines[Len(lines) - (Len(rest_) - 1) + k]
  <2> TAKE k \in 1..Len(rest_) - 1
  <2>1. k + 1 \in 1..Len(rest_) /\ Tail(rest_)[k] = rest_[k + 1]
    BY <1>1, <1>2
  <2>2. rest_[k + 1] = lines[Len(lines) - Len(rest_) + (k + 1)]
    BY <1>3, <2>1
  <2>3. Len(lines) - Len(rest_) + (k + 1) = Len(lines) - (Len(rest_) - 1) + k
    BY <1>1
  <2> QED BY <2>1, <2>2, <2>3
<1>5. EndOf(Tail(rest_), lines)
  BY <1>1, <1>2, <1>3, <1>4 DEF EndOf
<1>6. Head(rest_) = lines[Len(lines) - Len(rest_) + 1]
  BY <1>1, <1>2, <1>3
<1> QED BY <1>1, <1>2, <1>3, <1>5, <1>6

(* The meaning changes with a legal assignment, to what it assigns.        *)
LEMMA MeantNext ==
  ASSUME NEW p, NEW n \in Nat
  PROVE  MeantUpto(p, n + 1) =
           IF Legal(Assignments[n + 1], p) THEN Value(p, Assignments[n + 1].value)
           ELSE MeantUpto(p, n)
<1>1. CASE Legal(Assignments[n + 1], p)
  <2>1. LegalUpto(p, n + 1) = LegalUpto(p, n) \cup {n + 1}
    BY <1>1 DEF LegalUpto
  <2>2. \A k \in LegalUpto(p, n + 1) : k <= n + 1 /\ k \in Nat
    BY DEF LegalUpto
  <2> DEFINE last == Latest(LegalUpto(p, n + 1))
  <2>3. last = n + 1
    <3>1. n + 1 \in LegalUpto(p, n + 1)
      BY <2>1
    <3>2. \E k \in LegalUpto(p, n + 1) : \A j \in LegalUpto(p, n + 1) : j <= k
      BY <2>2, <3>1
    <3>3. last \in LegalUpto(p, n + 1) /\ \A j \in LegalUpto(p, n + 1) : j <= last
      BY <3>2 DEF Latest
    <3>4. last <= n + 1 /\ n + 1 <= last /\ last \in Nat
      BY <2>2, <3>1, <3>3
    <3> QED BY <3>4
  <2>4. LegalUpto(p, n + 1) # {}
    BY <2>1
  <2>5. MeantUpto(p, n + 1) = Value(p, Assignments[n + 1].value)
    BY <2>3, <2>4, Zenon DEF MeantUpto
  <2> QED BY <1>1, <2>5, Zenon
<1>2. CASE ~ Legal(Assignments[n + 1], p)
  <2>1. LegalUpto(p, n + 1) = LegalUpto(p, n)
    BY <1>2 DEF LegalUpto
  <2>2. MeantUpto(p, n + 1) = MeantUpto(p, n)
    BY <2>1, Zenon DEF MeantUpto
  <2> QED BY <1>2, <2>2, Zenon
<1> QED BY <1>1, <1>2, Zenon

(* A value that is stored is one that the text has, in the range.          *)
LEMMA ValueInRange ==
  ASSUME NEW p \in DOMAIN Options, NEW text, Parsed(Options[p], text) # {}
  PROVE  InRange(p, Value(p, text))
<1>1. Value(p, text) \in Parsed(Options[p], text)
  BY DEF Value
<1>2. CASE Options[p].type = "number"
  BY <1>1, <1>2 DEF Parsed, NumberFrom, InRange
<1>3. CASE Options[p].type = "bool"
  BY <1>1, <1>3 DEF Parsed, TruthFrom, InRange
<1>4. CASE Options[p].type \notin {"number", "bool"}
  BY <1>4 DEF InRange
<1> QED BY <1>2, <1>3, <1>4

(* parseParameter() stores a value if the name and the text allow it.      *)
LEMMA Parses ==
  ASSUME RangeInv, NEW a, NEW name, ParseParameter(name, a.value, a), a.assigns
  PROVE  /\ RangeInv'
         /\ a.name = name =>
              \A p \in DOMAIN Options :
                storage'[p] = IF Legal(a, p) THEN Value(p, a.value) ELSE storage[p]
<1>1. CASE name \notin DOMAIN Options
  BY <1>1 DEF ParseParameter, RangeInv, Legal
<1>2. CASE name \in DOMAIN Options /\ Parsed(Options[name], a.value) = {}
  BY <1>2 DEF ParseParameter, RangeInv, Legal
<1>3. CASE name \in DOMAIN Options /\ Parsed(Options[name], a.value) # {}
  <2>1. storage' = [storage EXCEPT ![name] = Value(name, a.value)]
    BY <1>3 DEF ParseParameter
  <2>2. /\ DOMAIN storage = DOMAIN Options
        /\ \A p \in DOMAIN Options :
             storage'[p] = IF p = name THEN Value(name, a.value) ELSE storage[p]
        /\ storage' = [p \in DOMAIN Options |-> storage'[p]]
    BY <1>3, <2>1 DEF RangeInv
  <2>3. InRange(name, Value(name, a.value))
    BY <1>3, ValueInRange
  <2>4. \A p \in DOMAIN Options : InRange(p, storage'[p])
    BY <2>2, <2>3 DEF RangeInv
  <2>5. RangeInv'
    BY <2>2, <2>4 DEF RangeInv, InRange
  <2>6. a.name = name => \A p \in DOMAIN Options : Legal(a, p) <=> p = name
    BY <1>3 DEF Legal
  <2> QED BY <2>2, <2>5, <2>6
<1> QED BY <1>1, <1>2, <1>3

(* At first nothing was read, and the parameters have their defaults.      *)
LEMMA InitParameters ==
  ParametersInit => ParametersInv
<1> SUFFICES ASSUME ParametersInit  PROVE ParametersInv
  OBVIOUS
<1>1. InputInv
  <2>1. file \in Seq(Range(file))
    BY InputsAssumption DEF ParametersInit
  <2>2. EndOf(file, file)
    BY <2>1 DEF EndOf
  <2> QED BY <2>2 DEF ParametersInit, InputInv
<1>2. RangeInv
  <2>1. \A p \in DOMAIN Options : InRange(p, Options[p].default)
    BY OptionsAssumption DEF InRange
  <2> QED BY <2>1 DEF ParametersInit, RangeInv
<1>3. StoredInv
  <2>1. NumberRead = 0
    BY <1>1, InputsAreLines DEF ParametersInit, NumberRead
  <2>2. \A p : LegalUpto(p, 0) = {}
    BY DEF LegalUpto
  <2>3. \A p : MeantUpto(p, 0) = Options[p].default
    BY <2>2 DEF MeantUpto
  <2> QED BY <2>1, <2>3 DEF ParametersInit, StoredInv
<1> QED BY <1>1, <1>2, <1>3 DEF ParametersInv

(* A line or option was read: the parameters mean what they meant, or what *)
(* it assigns.                                                             *)
LEMMA OneMore ==
  ASSUME ParametersInv, NEW a, a = Assignments[NumberRead + 1], NumberRead \in Nat,
         NumberRead' = NumberRead + 1, UNCHANGED <<file, args>>,
         Blanks => \A p \in DOMAIN Options :
           storage'[p] = IF Legal(a, p) THEN Value(p, a.value) ELSE storage[p]
  PROVE  StoredInv'
<1>1. Assignments' = Assignments /\ Blanks' = Blanks
  BY DEF Assignments, Blanks
<1>2. \A p, n : MeantUpto(p, n)' = MeantUpto(p, n)
  BY <1>1 DEF MeantUpto, LegalUpto, Latest
<1>3. ASSUME Blanks, NEW p \in DOMAIN Options
      PROVE  storage'[p] = MeantUpto(p, NumberRead + 1)
  <2>1. storage[p] = MeantUpto(p, NumberRead)
    BY <1>3 DEF ParametersInv, StoredInv
  <2>2. storage'[p] = IF Legal(a, p) THEN Value(p, a.value) ELSE storage[p]
    BY <1>3
  <2>3. MeantUpto(p, NumberRead + 1) =
          IF Legal(a, p) THEN Value(p, a.value) ELSE MeantUpto(p, NumberRead)
    BY MeantNext, Zenon
  <2>4. CASE Legal(a, p)
    BY <2>2, <2>3, <2>4, Zenon
  <2>5. CASE ~ Legal(a, p)
    BY <2>1, <2>2, <2>3, <2>5, Zenon
  <2> QED BY <2>4, <2>5
<1> QED BY <1>1, <1>2, <1>3 DEF StoredInv

(* A line of the file, with its name cut or not.                           *)
LEMMA ReadLineKeeps ==
  ParametersInv /\ ReadLine => ParametersInv'
<1> SUFFICES ASSUME ParametersInv, ReadLine  PROVE ParametersInv'
  OBVIOUS
<1> DEFINE line == Head(rest)
<1>1. /\ input = "file" /\ rest # <<>> /\ rest' = Tail(rest)
      /\ UNCHANGED <<input, file, args>>
      /\ line.assigns => ParseParameter(NameIn(line), line.value, line)
      /\ ~ line.assigns => UNCHANGED storage
  BY DEF ReadLine
<1>2. /\ file \in Seq(Range(file)) /\ Len(file) \in Nat
      /\ \A k \in 1..Len(file) : Assignments[k] = file[k] /\ k \in DOMAIN file
  BY InputsAreLines DEF ParametersInv
<1>3. EndOf(rest, file)
  BY <1>1 DEF ParametersInv, InputInv
<1>4. /\ Len(rest) \in Nat /\ Len(rest) >= 1 /\ Len(Tail(rest)) = Len(rest) - 1
      /\ EndOf(Tail(rest), file) /\ line = file[Len(file) - Len(rest) + 1]
      /\ Len(file) - Len(rest) + 1 \in 1..Len(file)
  BY <1>1, <1>2, <1>3, NextLine
<1> HIDE DEF line
<1>5. InputInv'
  BY <1>1, <1>4 DEF ParametersInv, InputInv, EndOf
<1>6. /\ NumberRead = Len(file) - Len(rest) /\ NumberRead \in Nat
      /\ NumberRead' = NumberRead + 1 /\ line = Assignments[NumberRead + 1]
      /\ line = file[NumberRead + 1] /\ NumberRead + 1 \in DOMAIN file
  BY <1>1, <1>2, <1>4 DEF NumberRead
<1>7. RangeInv
  BY DEF ParametersInv
<1>8. CASE line.assigns
  <2>1. /\ RangeInv'
        /\ line.name = NameIn(line) =>
             \A p \in DOMAIN Options :
               storage'[p] = IF Legal(line, p) THEN Value(p, line.value) ELSE storage[p]
    BY <1>1, <1>7, <1>8, Parses
  <2>2. Blanks => line.name = NameIn(line)
    BY <1>6, <1>8 DEF Blanks, NameIn
  <2>3. StoredInv'
    BY <1>1, <1>6, <2>1, <2>2, OneMore
  <2> QED BY <1>5, <2>1, <2>3 DEF ParametersInv
<1>9. CASE ~ line.assigns
  <2>1. \A p \in DOMAIN Options :
          storage'[p] = IF Legal(line, p) THEN Value(p, line.value) ELSE storage[p]
    BY <1>1, <1>9 DEF Legal
  <2>2. RangeInv'
    BY <1>1, <1>7, <1>9 DEF RangeInv, InRange
  <2>3. StoredInv'
    BY <1>1, <1>6, <2>1, OneMore
  <2> QED BY <1>5, <2>2, <2>3 DEF ParametersInv
<1> QED BY <1>8, <1>9

(* The command line follows the file.                                      *)
LEMMA EndOfFileKeeps ==
  ParametersInv /\ EndOfFile => ParametersInv'
<1> SUFFICES ASSUME ParametersInv, EndOfFile  PROVE ParametersInv'
  OBVIOUS
<1>1. /\ input = "file" /\ rest = <<>> /\ input' = "arguments" /\ rest' = args
      /\ UNCHANGED <<file, args, storage>>
  BY DEF EndOfFile, NextInput
<1>2. /\ args \in Seq(Range(args)) /\ Len(file) \in Nat /\ Len(args) \in Nat
  BY InputsAreLines DEF ParametersInv
<1>3. InputInv'
  <2>1. EndOf(args, args)
    BY <1>2 DEF EndOf
  <2> QED BY <1>1, <2>1 DEF ParametersInv, InputInv, EndOf
<1>4. RangeInv'
  BY <1>1 DEF ParametersInv, RangeInv, InRange
<1>5. NumberRead' = NumberRead
  BY <1>1, <1>2 DEF NumberRead
<1>6. StoredInv'
  BY <1>1, <1>5 DEF ParametersInv, StoredInv, MeantUpto, LegalUpto, Latest, Assignments, Blanks
<1> QED BY <1>3, <1>4, <1>6 DEF ParametersInv

(* An option on the command line.                                          *)
LEMMA ReadArgumentKeeps ==
  ParametersInv /\ ReadArgument => ParametersInv'
<1> SUFFICES ASSUME ParametersInv, ReadArgument  PROVE ParametersInv'
  OBVIOUS
<1> DEFINE arg == Head(rest)
<1>1. /\ input = "arguments" /\ rest # <<>> /\ rest' = Tail(rest)
      /\ UNCHANGED <<input, file, args>>
      /\ arg.assigns => ParseParameter(arg.name, arg.value, arg)
      /\ ~ arg.assigns => UNCHANGED storage
  BY DEF ReadArgument
<1>2. /\ args \in Seq(Range(args)) /\ Len(args) \in Nat /\ Len(file) \in Nat
      /\ \A k \in 1..Len(args) : Assignments[Len(file) + k] = args[k]
  BY InputsAreLines DEF ParametersInv
<1>3. EndOf(rest, args)
  BY <1>1 DEF ParametersInv, InputInv
<1>4. /\ Len(rest) \in Nat /\ Len(rest) >= 1 /\ Len(Tail(rest)) = Len(rest) - 1
      /\ EndOf(Tail(rest), args) /\ arg = args[Len(args) - Len(rest) + 1]
      /\ Len(args) - Len(rest) + 1 \in 1..Len(args)
  BY <1>1, <1>2, <1>3, NextLine
<1> HIDE DEF arg
<1>5. InputInv'
  BY <1>1, <1>4 DEF ParametersInv, InputInv, EndOf
<1>6. /\ NumberRead = Len(file) + Len(args) - Len(rest) /\ NumberRead \in Nat
      /\ NumberRead' = NumberRead + 1
  BY <1>1, <1>2, <1>4 DEF NumberRead
<1>7. arg = Assignments[NumberRead + 1]
  <2>1. NumberRead + 1 = Len(file) + (Len(args) - Len(rest) + 1)
    BY <1>2, <1>4, <1>6
  <2> QED BY <1>2, <1>4, <2>1
<1>8. RangeInv
  BY DEF ParametersInv
<1>9. RangeInv' /\ \A p \in DOMAIN Options :
        storage'[p] = IF Legal(arg, p) THEN Value(p, arg.value) ELSE storage[p]
  <2>1. CASE arg.assigns
    BY <1>1, <1>8, <2>1, Parses
  <2>2. CASE ~ arg.assigns
    BY <1>1, <1>8, <2>2 DEF Legal, RangeInv, InRange
  <2> QED BY <2>1, <2>2
<1>10. StoredInv'
  BY <1>1, <1>6, <1>7, <1>9, OneMore
<1> QED BY <1>5, <1>9, <1>10 DEF ParametersInv

(* Nothing is left to read, or nothing happens.                            *)
LEMMA StartKeeps ==
  ParametersInv /\ (Start \/ UNCHANGED parametervars) => ParametersInv'
<1> SUFFICES ASSUME ParametersInv, Start \/ UNCHANGED parametervars  PROVE ParametersInv'
  OBVIOUS
<1>1. /\ UNCHANGED <<file, args, rest, storage>>
      /\ input' = input \/ (input = "arguments" /\ input' = "done" /\ rest = <<>>)
  BY DEF Start, parametervars
<1>2. InputInv'
  BY <1>1 DEF ParametersInv, InputInv, EndOf
<1>3. RangeInv'
  BY <1>1 DEF ParametersInv, RangeInv, InRange
<1>4. NumberRead' = NumberRead
  BY <1>1 DEF NumberRead
<1>5. StoredInv'
  BY <1>1, <1>4 DEF ParametersInv, StoredInv, MeantUpto, LegalUpto, Latest, Assignments, Blanks
<1> QED BY <1>2, <1>3, <1>5 DEF ParametersInv

(* The invariant holds throughout.                                         *)
LEMMA ParametersInductive ==
  ParametersSpec => []ParametersInv
<1>1. ParametersInv /\ [ParametersNext]_parametervars => ParametersInv'
  BY ReadLineKeeps, EndOfFileKeeps, ReadArgumentKeeps, StartKeeps DEF ParametersNext
<1> QED BY InitParameters, <1>1, PTL DEF ParametersSpec

(* ParameterSet.hpp lines 47 to 222: whatever is assigned to them, numbers *)
(* stay in their ranges and truth values are truth values.                 *)
THEOREM ParametersInRange ==
  ParametersSpec => []ParametersTypeOK
<1>1. ParametersInv => ParametersTypeOK
  BY DEF ParametersInv, InputInv, RangeInv, InRange, ParametersTypeOK
<1> QED BY <1>1, ParametersInductive, PTL

(* bugger.cpp lines 116 to 181: when the loop starts, every parameter has  *)
(* the value of the last legal assignment to it in the file and then on    *)
(* the command line, whatever bad ones there are in between.               *)
THEOREM LastLegalAlwaysCounts ==
  ParametersSpec => []LastLegalCounts
<1>1. ParametersInv => LastLegalCounts
  <2> SUFFICES ASSUME ParametersInv, input = "done", Blanks, NEW p \in DOMAIN Options
               PROVE  storage[p] = Meant(p)
    BY DEF LastLegalCounts, Blanks
  <2>1. NumberRead = Len(file) + Len(args) /\ DOMAIN Assignments = 1..NumberRead
    BY InputsAreLines DEF ParametersInv, InputInv, NumberRead
  <2>2. LegalUpto(p, NumberRead) = {k \in DOMAIN Assignments : Legal(Assignments[k], p)}
    BY <2>1 DEF LegalUpto
  <2>3. MeantUpto(p, NumberRead) = Meant(p)
    <3>1. CASE LegalUpto(p, NumberRead) = {}
      BY <2>2, <3>1 DEF MeantUpto, Meant
    <3>2. CASE LegalUpto(p, NumberRead) # {}
      BY <2>2, <3>2 DEF MeantUpto, Meant, Latest
    <3> QED BY <3>1, <3>2
  <2> QED BY <2>3 DEF ParametersInv, StoredInv
<1> QED BY <1>1, ParametersInductive, PTL

-------------------------------------------------------------------------------
(***************************************************************************)
(* The start up.                                                           *)
(***************************************************************************)
After == [targets  |-> {"status", "read", "settings", "problem", "solution", "run"},
          status   |-> {"read", "settings", "problem", "solution", "run"},
          read     |-> {"settings", "problem", "solution", "run"},
          settings |-> {"problem", "solution", "run"}]

Shape ==
  /\ step \in {"check", "targets", "status", "read", "settings", "problem",
             "solution", "run", "stop"}
  /\ enabled \in BOOLEAN
  /\ disk \in Disks /\ interface \in Interfaces
  /\ reference \in Words \cup {"feasible"}
  /\ instance.problem \in {"none", "solver", "general"}
  /\ instance.solution \in {"none", "empty", "solver", "general"}
  /\ instance = [settings |-> instance.settings, problem |-> instance.problem,
                 solution |-> instance.solution]
  /\ step \in {"solution", "run"} => instance.problem # "none"
  /\ step = "run" => instance.solution # "none"
  /\ step \in After.settings => instance.settings # "none"

(* What enables the setting modifier is known step by step: a target from  *)
(* the options, the target read, the settings read.                        *)
SettingInv ==
  /\ step = "targets" /\ enabled => options.target # ""
  /\ step \in After.targets /\ enabled =>
       /\ options.target # "" /\ targets = options.target
       /\ ParsesSettings(options.target)
  /\ step \in After.read /\ instance.settings \notin {"none", "empty"} =>
       instance.settings = options.settings /\ ParsesSettings(options.settings)
  /\ step = "settings" /\ instance.settings = "empty" =>
       instance.settings = options.settings /\ ParsesSettings(options.settings)
  /\ step \in After.settings /\ enabled =>
       instance.settings = options.settings /\ ParsesSettings(options.settings)

(* Only a reference that is a file may become a solution with values, and  *)
(* it never becomes one without.                                           *)
ReferenceInv ==
  /\ step \in After.status => reference = StatusOf(options.solution)
  /\ step \in After.read =>
       instance.solution \in IF reference = "feasible" THEN {"none", "solver", "general"}
                                                    ELSE {"none", "empty"}
  /\ step \in After.read /\ instance.solution = "solver" => instance.problem = "solver"

StartupInv == Shape /\ SettingInv /\ ReferenceInv /\ ReferenceIsTried

(* A word or nothing is no file, so that no reader can read it.            *)
LEMMA WordsUnread ==
  ASSUME disk \in Disks, NEW who, NEW word \in Words \cup {""}
  PROVE  ~Reads(who, word)
  BY DisksAssumption DEF Reads

(* What a reference is taken for. *)
LEMMA StatusMeans ==
  ASSUME NEW solution
  PROVE  /\ StatusOf(solution) \in Words \cup {"feasible"}
         /\ StatusOf(solution) = "feasible" <=> solution \notin Words \cup {""}
  BY DEF StatusOf, Words

(* What readInstance() returns: settings only if they were read, a         *)
(* solution only with a problem, an empty one only without a file.         *)
LEMMA InstanceRead ==
  ASSUME interface \in Interfaces, NEW solution,
         NEW read, read = ReadBySolver(solution)
  PROVE  /\ read.settings # "none" =>
              read.settings = options.settings /\ ParsesSettings(options.settings)
         /\ read.problem \in {"none", "solver"}
         /\ read.solution \in IF solution = "" THEN {"none", "empty"} ELSE {"none", "solver"}
         /\ read.solution = "solver" => read.problem = "solver"
         /\ read = [settings |-> read.settings, problem |-> read.problem,
                    solution |-> read.solution]
  <1>1. ReadScip(solution) = read \/ ReadSoplex(solution) = read \/ Nothing = read
    BY InterfacesAssumption DEF ReadBySolver, ReadNothing
  <1>2. CASE read = Nothing
    BY <1>2 DEF Nothing
  <1>3. CASE read = ReadScip(solution)
    <2>1. CASE ~ParsesSettings(options.settings)
      BY <1>3, <2>1 DEF ReadScip, Nothing
    <2>2. CASE ParsesSettings(options.settings) /\ ~Reads("solver", options.problem)
      <3>1. read = [settings |-> options.settings, problem |-> "none", solution |-> "none"]
        BY <1>3, <2>2 DEF ReadScip, Nothing
      <3>2. QED
        BY <2>2, <3>1
    <2>3. CASE ParsesSettings(options.settings) /\ Reads("solver", options.problem)
      <3> DEFINE values == IF solution = "" THEN "empty"
                           ELSE IF Reads("solver", solution) THEN "solver" ELSE "none"
      <3>1. read = [settings |-> options.settings, problem |-> "solver", solution |-> values]
        BY <1>3, <2>3 DEF ReadScip
      <3>2. values \in IF solution = "" THEN {"none", "empty"} ELSE {"none", "solver"}
        OBVIOUS
      <3> HIDE DEF values
      <3>3. read.settings = options.settings /\ read.problem = "solver" /\ read.solution = values
        BY <3>1
      <3>4. read = [settings |-> read.settings, problem |-> read.problem,
                    solution |-> read.solution]
        BY <3>1, <3>3
      <3>5. QED
        BY <2>3, <3>2, <3>3, <3>4
    <2>4. QED
      BY <2>1, <2>2, <2>3
  <1>4. CASE read = ReadSoplex(solution)
    <2>1. CASE ~ParsesSettings(options.settings)
      BY <1>4, <2>1 DEF ReadSoplex, Nothing
    <2>2. CASE ParsesSettings(options.settings) /\ ~Reads("solver", options.problem)
      <3>1. read = [settings |-> options.settings, problem |-> "none", solution |-> "none"]
        BY <1>4, <2>2 DEF ReadSoplex, Nothing
      <3>2. QED
        BY <2>2, <3>1
    <2>3. CASE ParsesSettings(options.settings) /\ Reads("solver", options.problem)
      <3> DEFINE values == IF solution = "" THEN "empty"
                           ELSE "none"
      <3>1. read = [settings |-> options.settings, problem |-> "solver", solution |-> values]
        BY <1>4, <2>3 DEF ReadSoplex
      <3>2. values \in IF solution = "" THEN {"none", "empty"} ELSE {"none", "solver"}
        OBVIOUS
      <3> HIDE DEF values
      <3>3. read.settings = options.settings /\ read.problem = "solver" /\ read.solution = values
        BY <3>1
      <3>4. read = [settings |-> read.settings, problem |-> read.problem,
                    solution |-> read.solution]
        BY <3>1, <3>3
      <3>5. QED
        BY <2>3, <3>2, <3>3, <3>4
    <2>4. QED
      BY <2>1, <2>2, <2>3
  <1>5. QED
    BY <1>1, <1>2, <1>3, <1>4

(* Nothing is read at first.                                               *)
LEMMA InitStartupInv ==
  StartupInit => StartupInv
  BY DEF StartupInit, StartupInv, Shape, SettingInv, ReferenceInv, ReferenceIsTried, Nothing,
         After, Words

(* The files exist.                                                        *)
LEMMA CheckFilesInv ==
  StartupInv /\ CheckFiles => StartupInv'
  BY DEF StartupInv, Shape, SettingInv, ReferenceInv, ReferenceIsTried, CheckFiles,
         After, FilesValid, Named, FileNotFound, Reads, ParsesSettings

(* The target settings enable the setting modifier.                        *)
LEMMA ParseTargetsInv ==
  StartupInv /\ ParseTargets => StartupInv'
  BY DEF StartupInv, Shape, SettingInv, ReferenceInv, ReferenceIsTried, ParseTargets,
         After, Reads, ParsesSettings

(* The option names a word or a file.                                      *)
LEMMA ChooseStatusInv ==
  StartupInv /\ ChooseStatus => StartupInv'
  <1> SUFFICES ASSUME StartupInv, ChooseStatus PROVE StartupInv'
    OBVIOUS
  <1>1. /\ step = "status" /\ step' = "read" /\ reference' = StatusOf(options.solution)
        /\ reference' \in Words \cup {"feasible"}
        /\ UNCHANGED <<options, disk, interface, enabled, targets, instance>>
    BY StatusMeans DEF ChooseStatus
  <1>2. Shape'
    BY <1>1 DEF StartupInv, Shape, After
  <1>3. SettingInv'
    BY <1>1 DEF StartupInv, SettingInv, After, ParsesSettings, Reads
  <1>4. ReferenceInv'
    BY <1>1 DEF ReferenceInv, After
  <1>5. ReferenceIsTried'
    BY <1>1 DEF ReferenceIsTried
  <1>6. QED
    BY <1>2, <1>3, <1>4, <1>5 DEF StartupInv

(* The solver reads what it can.                                           *)
LEMMA ReadInstanceInv ==
  StartupInv /\ ReadInstance => StartupInv'
  <1> SUFFICES ASSUME StartupInv, ReadInstance PROVE StartupInv'
    OBVIOUS
  <1> DEFINE named == IF reference = "feasible" THEN options.solution ELSE ""
  <1>1. /\ instance' = ReadBySolver(named) /\ interface \in Interfaces
        /\ step = "read" /\ step' = "settings"
        /\ UNCHANGED <<options, disk, interface, enabled, targets, reference>>
    BY DEF ReadInstance, StartupInv, Shape
  <1>2. /\ instance'.settings # "none" =>
             instance'.settings = options.settings /\ ParsesSettings(options.settings)
        /\ instance'.problem \in {"none", "solver"}
        /\ instance'.solution \in IF named = "" THEN {"none", "empty"} ELSE {"none", "solver"}
        /\ instance'.solution = "solver" => instance'.problem = "solver"
        /\ instance' = [settings |-> instance'.settings, problem |-> instance'.problem,
                        solution |-> instance'.solution]
    BY <1>1, InstanceRead
  <1>3. (named = "") <=> (reference # "feasible")
    BY <1>1, StatusMeans DEF StartupInv, ReferenceInv, After
  <1> HIDE DEF named
  <1>4. Shape'
    BY <1>1, <1>2 DEF StartupInv, Shape, After
  <1>5. SettingInv'
    BY <1>1, <1>2 DEF StartupInv, SettingInv, After, ParsesSettings, Reads
  <1>6. ReferenceInv'
    BY <1>1, <1>2, <1>3 DEF StartupInv, ReferenceInv, After
  <1>7. ReferenceIsTried'
    BY <1>1 DEF ReferenceIsTried
  <1>8. QED
    BY <1>4, <1>5, <1>6, <1>7 DEF StartupInv

(* Without settings the setting modifier is disabled.                      *)
LEMMA SettingsFallbackInv ==
  StartupInv /\ SettingsFallback => StartupInv'
  <1> SUFFICES ASSUME StartupInv, SettingsFallback PROVE StartupInv'
    OBVIOUS
  <1>1. /\ instance' = [settings |-> IF instance.settings = "none" THEN "empty"
                                     ELSE instance.settings,
                        problem |-> instance.problem, solution |-> instance.solution]
        /\ enabled' = (enabled /\ instance.settings # "none")
        /\ step = "settings" /\ step' = "problem"
        /\ UNCHANGED <<options, disk, interface, targets, reference>>
    BY DEF SettingsFallback, StartupInv, Shape
  <1>2. Shape'
    BY <1>1 DEF StartupInv, Shape, After
  <1>3. SettingInv'
    BY <1>1 DEF StartupInv, SettingInv, After, ParsesSettings, Reads
  <1>4. ReferenceInv'
    BY <1>1 DEF StartupInv, ReferenceInv, After
  <1>5. ReferenceIsTried'
    BY <1>1 DEF ReferenceIsTried
  <1>6. QED
    BY <1>2, <1>3, <1>4, <1>5 DEF StartupInv

(* The general parser is tried on the problem.                             *)
LEMMA ProblemFallbackInv ==
  StartupInv /\ ProblemFallback => StartupInv'
  <1> SUFFICES ASSUME StartupInv, ProblemFallback PROVE StartupInv'
    OBVIOUS
  <1>1. /\ step = "problem" /\ step' \in {"solution", "stop"}
        /\ instance'.settings = instance.settings
        /\ instance'.solution = instance.solution
        /\ instance' = [settings |-> instance'.settings, problem |-> instance'.problem,
                        solution |-> instance'.solution]
        /\ instance'.problem \in {"none", "solver", "general"}
        /\ instance.problem # "none" => instance'.problem = instance.problem
        /\ step' = "solution" => instance'.problem # "none"
        /\ step' = "stop" => ~Reads("general", options.problem)
        /\ UNCHANGED <<options, disk, interface, enabled, targets, reference>>
    BY DEF ProblemFallback, StartupInv, Shape
  <1>2. Shape'
    BY <1>1 DEF StartupInv, Shape, After
  <1>3. SettingInv'
    BY <1>1 DEF StartupInv, SettingInv, After, ParsesSettings, Reads
  <1>4. ReferenceInv'
    BY <1>1 DEF StartupInv, ReferenceInv, After
  <1>5. ReferenceIsTried'
    BY <1>1 DEF ReferenceIsTried, Reads
  <1>6. QED
    BY <1>2, <1>3, <1>4, <1>5 DEF StartupInv

(* The general parser is tried on the solution.                            *)
LEMMA SolutionFallbackInv ==
  StartupInv /\ SolutionFallback => StartupInv'
  <1> SUFFICES ASSUME StartupInv, SolutionFallback PROVE StartupInv'
    OBVIOUS
  <1>1. /\ step = "solution" /\ step' \in {"run", "stop"}
        /\ instance'.settings = instance.settings
        /\ instance'.problem = instance.problem
        /\ instance' = [settings |-> instance'.settings, problem |-> instance'.problem,
                        solution |-> instance'.solution]
        /\ \/ instance'.solution = instance.solution
           \/ instance'.solution = "general" /\ Reads("general", options.solution)
        /\ step' = "run" => instance'.solution # "none"
        /\ step' = "stop" => ~Reads("general", options.solution)
        /\ UNCHANGED <<options, disk, interface, enabled, targets, reference>>
    BY DEF SolutionFallback, StartupInv, Shape
  <1>2. Reads("general", options.solution) => reference = "feasible"
    BY <1>1, WordsUnread, StatusMeans DEF StartupInv, Shape, ReferenceInv, After
  <1>3. Shape'
    BY <1>1 DEF StartupInv, Shape, After
  <1>4. SettingInv'
    BY <1>1 DEF StartupInv, SettingInv, After, ParsesSettings, Reads
  <1>5. ReferenceInv'
    BY <1>1, <1>2 DEF StartupInv, ReferenceInv, After
  <1>6. ReferenceIsTried'
    BY <1>1 DEF ReferenceIsTried, Reads
  <1>7. QED
    BY <1>3, <1>4, <1>5, <1>6 DEF StartupInv

(* Every step keeps the invariant.                                         *)
LEMMA NextStartupInv ==
  StartupInv /\ [StartupNext]_startupvars => StartupInv'
  <1>1. StartupInv /\ UNCHANGED startupvars => StartupInv'
    <2> SUFFICES ASSUME StartupInv, UNCHANGED startupvars PROVE StartupInv'
      OBVIOUS
    <2>1. Shape'
      BY DEF startupvars, StartupInv, Shape
    <2>2. SettingInv'
      BY DEF startupvars, StartupInv, SettingInv, Reads, ParsesSettings
    <2>3. ReferenceInv'
      BY DEF startupvars, StartupInv, ReferenceInv
    <2>4. ReferenceIsTried'
      BY DEF startupvars, StartupInv, ReferenceIsTried, FilesValid, Named, FileNotFound, Reads
    <2>5. QED
      BY <2>1, <2>2, <2>3, <2>4 DEF StartupInv
  <1>2. QED
    BY <1>1, CheckFilesInv, ParseTargetsInv, ChooseStatusInv, ReadInstanceInv,
       SettingsFallbackInv, ProblemFallbackInv, SolutionFallbackInv DEF StartupNext

(* The invariant holds throughout. *)
LEMMA StartupInductive ==
  StartupSpec => []StartupInv
  BY InitStartupInv, NextStartupInv, PTL DEF StartupSpec

(* Start up is typed, and an instance that is set up has all its parts.    *)
THEOREM StartupTyped ==
  StartupSpec => []StartupTypeOK
  <1>1. StartupInv => StartupTypeOK
    <2> SUFFICES ASSUME StartupInv, step = "run", NEW part \in DOMAIN instance
                 PROVE  instance[part] # "none"
      BY DEF StartupInv, Shape, StartupTypeOK
    <2>1. part \in {"settings", "problem", "solution"}
      BY DEF StartupInv, Shape
    <2>2. QED
      BY <2>1 DEF StartupInv, Shape, After
  <1>2. QED
    BY <1>1, StartupInductive, PTL

(* BuggerRun.hpp lines 67 to 104: whatever files are missing or unreadable,*)
(* the setting modifier takes part only if both lists of settings were read*)
(* by the solver.                                                          *)
THEOREM SettingModifierSound ==
  StartupSpec => []SettingNeedsBoth
  <1>1. StartupInv => SettingNeedsBoth
    BY DEF StartupInv, SettingInv, SettingNeedsBoth, After
  <1>2. QED
    BY <1>1, StartupInductive, PTL

(* A run has reference values exactly if the option names a file: neither  *)
(* a word that happens to be tried as a file nor a reader that gives up    *)
(* changes what the checks of the solver expect.                           *)
THEOREM ReferenceKnown ==
  StartupSpec => []ReferenceMatchesStatus
  <1>1. StartupInv => ReferenceMatchesStatus
    <2> SUFFICES ASSUME StartupInv, step = "run"
                 PROVE  /\ reference = "feasible" <=> options.solution \notin Words \cup {""}
                        /\ reference = "feasible" <=> instance.solution \in {"solver", "general"}
      BY DEF ReferenceMatchesStatus
    <2>1. reference = StatusOf(options.solution) /\ instance.solution # "none"
      BY DEF StartupInv, Shape, ReferenceInv, After
    <2>2. reference = "feasible" <=> options.solution \notin Words \cup {""}
      BY <2>1, StatusMeans
    <2>3. reference = "feasible" <=> instance.solution \in {"solver", "general"}
      BY <2>1 DEF StartupInv, ReferenceInv, After
    <2>4. QED
      BY <2>2, <2>3
  <1>2. QED
    BY <1>1, StartupInductive, PTL

(* Reference values by the solver's columns belong to the solver's problem.*)
THEOREM ReferenceIndicesAgree ==
  StartupSpec => []IndicesAgree
  <1>1. StartupInv => IndicesAgree
    BY DEF StartupInv, ReferenceInv, IndicesAgree, After
  <1>2. QED
    BY <1>1, StartupInductive, PTL

(* The program gives up a reference solution only after the general parser.*)
THEOREM ReferenceNotGivenUp ==
  StartupSpec => []ReferenceIsTried
  <1>1. StartupInv => ReferenceIsTried
    BY DEF StartupInv
  <1>2. QED
    BY <1>1, StartupInductive, PTL

-------------------------------------------------------------------------------
(***************************************************************************)
(* The setting modifier.                                                   *)
(***************************************************************************)
Typed ==
  /\ pc \in {"scan", "solve", "done"}
  /\ pair \in Pairs /\ limit \in Limits /\ trial \in Limits
  /\ type \in 1..7 /\ position \in Nat \ {0}
  /\ applied \subseteq Differing /\ batches \subseteq Differing
  /\ tried \subseteq Differing
  /\ pc = "solve" => batches # {}
  /\ status \in {"kDidNotRun", "kNotAdmissible", "kUnsuccesful", "kSuccessful"}

(* Where the scan stands.  An entry is visited before the solve it ends in.*)
CursorInv ==
  /\ pc = "solve" => type <= 6 /\ position <= Len(target[type])
  /\ pc = "scan" /\ type <= 6 /\ target[type] # <<>> => position <= Len(target[type])
  /\ pc = "scan" /\ (type > 6 \/ target[type] = <<>>) => position = 1

Passed(e) ==
  \/ e[1] < type
  \/ e[1] = type /\ e[2] < position
  \/ e[1] = type /\ e[2] = position /\ pc = "solve"

(* Whatever the scan has passed was tried or waits in the batch, and there *)
(* is an entry to come on which a waiting batch ends.                      *)
TriedInv ==
  /\ pc # "done" => \A e \in Differing : Passed(e) => e \in tried \cup batches
  /\ pc = "scan" /\ batches # {} => \E u \in type..6 : target[u] # <<>>
  /\ pc = "done" => tried = Differing /\ batches = {}

(* The last settings that showed the bug are the accepted ones. *)
ShownInv ==
  /\ pc # "done" =>
       /\ settings = pair.settings
       /\ shown = [settings |-> SetTo(pair.settings, applied), limit |-> trial]
       /\ applied = {} => trial = limit
  /\ KeptShowBug

IInv == Typed /\ CursorInv /\ TriedInv /\ CopyIsExact /\ ShownInv

(* The lists of a pair, one by one.                                        *)
LEMMA ListType ==
  ASSUME pair \in Pairs
  PROVE  /\ \A t \in 1..6 : target[t] \in Seq(Values) /\ pair.settings[t] \in Seq(Values)
         /\ \A t \in 1..6 : Len(target[t]) \in Nat
         /\ \A t \in 1..6 : target[t] # <<>> <=> Len(target[t]) > 0
         /\ pair.settings \in [1..6 -> Seq(Values)]
  <1>1. pair.settings \in [1..6 -> Seq(Values)] /\ target \in [1..6 -> Seq(Values)]
    BY ListsAssumption DEF target
  <1>2. \A s \in Seq(Values) : Len(s) \in Nat /\ (s # <<>> <=> Len(s) > 0)
    OBVIOUS
  <1>3. QED
    BY <1>1, <1>2

(* An entry is a list and a position in it. *)
LEMMA EntryType ==
  ASSUME NEW t, NEW i
  PROVE  <<t, i>> \in Indices <=> t \in 1..6 /\ i \in 1..Len(target[t])
  <1>1. <<t, i>> \in Indices <=> \E u \in 1..6 : <<t, i>> \in {u} \X (1..Len(target[u]))
    BY DEF Indices
  <1>2. \A u : <<t, i>> \in {u} \X (1..Len(target[u])) <=> t = u /\ i \in 1..Len(target[u])
    OBVIOUS
  <1>3. QED
    BY <1>1, <1>2

(* A setting off its target is an entry of one of the lists.               *)
LEMMA DifferingEntry ==
  ASSUME NEW e \in Differing
  PROVE  e = <<e[1], e[2]>> /\ e[1] \in 1..6 /\ e[2] \in 1..Len(target[e[1]])
  BY DEF Differing, Indices

(* Entries that are set twice are set once. *)
LEMMA SetToTwice ==
  ASSUME NEW s, NEW X, NEW Y
  PROVE  SetTo(SetTo(s, X), Y) = SetTo(s, X \cup Y)
  <1> DEFINE once == SetTo(s, X)
  <1>1. \A t \in 1..6 : once[t] = [i \in DOMAIN s[t] |->
                                     IF <<t, i>> \in X THEN target[t][i] ELSE s[t][i]]
    BY DEF SetTo
  <1>2. \A t \in 1..6 : /\ DOMAIN once[t] = DOMAIN s[t]
                        /\ \A i \in DOMAIN s[t] :
                             once[t][i] = IF <<t, i>> \in X THEN target[t][i] ELSE s[t][i]
    BY <1>1
  <1> HIDE DEF once
  <1>3. \A t \in 1..6 :
          [i \in DOMAIN once[t] |-> IF <<t, i>> \in Y THEN target[t][i] ELSE once[t][i]]
            = [i \in DOMAIN s[t] |-> IF <<t, i>> \in X \cup Y THEN target[t][i] ELSE s[t][i]]
    BY <1>2
  <1>4. SetTo(once, Y) = SetTo(s, X \cup Y)
    BY <1>3 DEF SetTo
  <1>5. QED
    BY <1>4 DEF once

(* Nothing set leaves the lists alone. *)
LEMMA SetToNothing ==
  ASSUME pair \in Pairs
  PROVE  SetTo(pair.settings, {}) = pair.settings
  <1>1. \A s \in Seq(Values) : s = [i \in DOMAIN s |-> s[i]]
    OBVIOUS
  <1>2. \A t \in 1..6 : pair.settings[t] = [i \in DOMAIN pair.settings[t] |-> pair.settings[t][i]]
    BY <1>1, ListType
  <1>3. QED
    BY <1>2, ListType DEF SetTo

(* The entry the scan looks at differs from its target, or is no reduction.*)
LEMMA VisitedEntry ==
  ASSUME pair \in Pairs, type \in 1..6, position \in Nat \ {0},
         position <= Len(target[type])
  PROVE  /\ <<type, position>> \in Indices
         /\ <<type, position>> \in Differing <=>
              pair.settings[type][position] # target[type][position]
  <1>1. position \in 1..Len(target[type])
    <2>1. Len(target[type]) \in Nat
      BY ListType
    <2>2. QED
      BY <2>1
  <1>2. <<type, position>> \in Indices
    BY <1>1, EntryType
  <1>3. QED
    BY <1>2 DEF Differing

(* At first nothing is passed.                                             *)
LEMMA InitIInv ==
  Init => IInv
  <1> SUFFICES ASSUME Init PROVE IInv
    OBVIOUS
  <1>1. pair \in Pairs /\ SetTo(pair.settings, {}) = pair.settings
    BY SetToNothing DEF Init
  <1>2. Typed
    BY DEF Init, Typed
  <1>3. CursorInv
    <2>1. /\ \A t \in 1..6 : target[t] # <<>> <=> Len(target[t]) > 0
          /\ \A t \in 1..6 : Len(target[t]) \in Nat
      BY <1>1, ListType
    <2>2. target[1] # <<>> => 1 <= Len(target[1])
      BY <2>1
    <2>3. pc # "solve" /\ type = 1 /\ position = 1
      BY DEF Init
    <2>4. QED
      BY <2>2, <2>3 DEF CursorInv
  <1>4. TriedInv
    <2>1. \A e \in Differing : ~Passed(e)
      <3> SUFFICES ASSUME NEW e \in Differing, Passed(e) PROVE FALSE
        OBVIOUS
      <3>1. e = <<e[1], e[2]>> /\ e[1] \in 1..6
            /\ e[2] \in 1..Len(target[e[1]])
        BY DifferingEntry
      <3>2. Len(target[e[1]]) \in Nat
        BY <3>1, <1>1, ListType
      <3>3. pc # "solve" /\ type = 1 /\ position = 1
        BY DEF Init
      <3>4. QED
        BY <3>1, <3>2, <3>3 DEF Passed
    <2>2. QED
      BY <2>1 DEF Init, TriedInv
  <1>5. CopyIsExact /\ ShownInv
    BY <1>1 DEF Init, CopyIsExact, ShownInv, KeptShowBug
  <1>6. QED
    BY <1>2, <1>3, <1>4, <1>5 DEF IInv

(* Where an entry stands that the cursor passes in a step.                 *)
LEMMA AdvanceFacts ==
  ASSUME IInv, Advance, pc \in {"scan", "solve"}, type <= 6,
         position <= Len(target[type])
  PROVE  /\ type \in 1..6 /\ Len(target[type]) \in Nat \ {0}
         /\ \/ position < Len(target[type]) /\ type' = type /\ position' = position + 1
            \/ position = Len(target[type]) /\ type' = type + 1 /\ position' = 1
         /\ type' \in 1..7 /\ position' \in Nat \ {0}
  <1>1. pair \in Pairs /\ type \in 1..7 /\ position \in Nat \ {0}
    BY DEF IInv, Typed
  <1>2. type \in 1..6
    BY <1>1
  <1>3. \A t \in 1..6 : Len(target[t]) \in Nat
    BY <1>1, ListType
  <1>4. Len(target[type]) \in Nat
    BY <1>2, <1>3
  <1>5. QED
    BY <1>1, <1>2, <1>4 DEF Advance

(* Every entry the cursor has passed after it went on was passed before or *)
(* is the one it was on.                                                   *)
LEMMA AdvancePasses ==
  ASSUME IInv, Advance, pc \in {"scan", "solve"}, type <= 6, pc' = "scan",
         position <= Len(target[type]), NEW e \in Differing, Passed(e)'
  PROVE  Passed(e) \/ e = <<type, position>>
  <1>1. e = <<e[1], e[2]>> /\ e[1] \in 1..6
        /\ e[2] \in 1..Len(target[e[1]])
    BY DifferingEntry
  <1>2. \A t \in 1..6 : Len(target[t]) \in Nat
    BY ListType DEF IInv, Typed
  <1>3. Len(target[e[1]]) \in Nat
    BY <1>1, <1>2
  <1>4. QED
    BY <1>1, <1>3, AdvanceFacts DEF Passed, IInv, Typed

(* The cursor stays within the lists. *)
LEMMA AdvanceCursor ==
  ASSUME IInv, Advance, pc \in {"scan", "solve"}, type <= 6, pc' = "scan",
         position <= Len(target[type]), UNCHANGED pair
  PROVE  CursorInv'
  <1>1. target' = target /\ pair \in Pairs
    BY DEF target, IInv, Typed
  <1>2. \A t \in 1..6 : Len(target[t]) \in Nat /\ (target[t] # <<>> <=> Len(target[t]) > 0)
    BY <1>1, ListType
  <1>3. CASE position < Len(target[type]) /\ type' = type /\ position' = position + 1
    BY <1>1, <1>2, <1>3 DEF CursorInv, IInv, Typed
  <1>4. CASE position = Len(target[type]) /\ type' = type + 1 /\ position' = 1
    BY <1>1, <1>2, <1>4, AdvanceFacts DEF CursorInv, IInv, Typed
  <1>5. QED
    BY <1>3, <1>4, AdvanceFacts

-------------------------------------------------------------------------------
(* The entry under the cursor is visited, and may end the batch.           *)
LEMMA VisitIInv ==
  IInv /\ Visit => IInv'
  <1> SUFFICES ASSUME IInv, Visit PROVE IInv'
    OBVIOUS
  <1> DEFINE e    == <<type, position>>
             bs   == IF settings[type][position] # target[type][position]
                       THEN batches \cup {e} ELSE batches
             full == Full(bs, type, position)
  <1>1. /\ pc = "scan" /\ type <= 6 /\ position <= Len(target[type])
        /\ batches' = bs /\ copy' = SetTo(copy, bs)
        /\ pc' = IF full THEN "solve" ELSE "scan"
        /\ IF full THEN UNCHANGED <<type, position>> ELSE Advance
        /\ UNCHANGED <<pair, settings, limit, trial, applied, status, tried, shown>>
    BY DEF Visit
  <1>2. /\ pair \in Pairs /\ type \in 1..6 /\ position \in Nat \ {0}
        /\ settings = pair.settings /\ batches \subseteq Differing
    BY <1>1 DEF IInv, Typed, ShownInv
  <1>3. target' = target /\ Differing' = Differing
    BY <1>1 DEF target, Differing, Indices
  <1>4. /\ bs \subseteq Differing /\ batches \subseteq bs
        /\ e \in Differing => e \in bs
    BY <1>1, <1>2, VisitedEntry
  <1>5. full => bs # {}
    BY DEF Full
  <1>6. ~full /\ bs # {} => ~LastEntry(type, position)
    BY DEF Full
  <1> HIDE DEF bs, full
  <1>7. Typed'
    <2>1. type' \in 1..7 /\ position' \in Nat \ {0}
      BY <1>1, <1>2, AdvanceFacts
    <2>2. QED
      BY <1>1, <1>3, <1>4, <1>5, <2>1 DEF IInv, Typed
  <1>8. CursorInv'
    <2>1. CASE full
      BY <1>1, <1>3, <2>1 DEF CursorInv
    <2>2. CASE ~full
      BY <1>1, <2>2, AdvanceCursor
    <2>3. QED
      BY <2>1, <2>2
  <1>9. TriedInv'
    <2>1. \A x \in Differing : Passed(x)' => x \in tried \cup bs
      <3>1. CASE full
        <4> SUFFICES ASSUME NEW x \in Differing, Passed(x)' PROVE x \in tried \cup bs
          OBVIOUS
        <4>1. x = <<x[1], x[2]>> /\ x[1] \in 1..6
              /\ x[2] \in 1..Len(target[x[1]])
          BY DifferingEntry
        <4>2. Passed(x) \/ x = e
          BY <1>1, <3>1, <4>1 DEF Passed
        <4>3. QED
          BY <1>1, <1>4, <4>2 DEF IInv, TriedInv
      <3>2. CASE ~full
        <4> SUFFICES ASSUME NEW x \in Differing, Passed(x)' PROVE x \in tried \cup bs
          OBVIOUS
        <4>1. Passed(x) \/ x = e
          BY <1>1, <3>2, AdvancePasses
        <4>2. QED
          BY <1>1, <1>4, <4>1 DEF IInv, TriedInv
      <3>3. QED
        BY <3>1, <3>2
    <2>2. ~full /\ bs # {} => \E u \in type'..6 : target[u] # <<>>
      <3> SUFFICES ASSUME ~full, bs # {} PROVE \E u \in type'..6 : target[u] # <<>>
        OBVIOUS
      <3>1. CASE position < Len(target[type]) /\ type' = type
        <4>1. \A t \in 1..6 : target[t] # <<>> <=> Len(target[t]) > 0
          BY <1>2, ListType
        <4>2. \A t \in 1..6 : Len(target[t]) \in Nat
          BY <1>2, ListType
        <4>3. Len(target[type]) \in Nat /\ Len(target[type]) > 0
          BY <3>1, <4>2, <1>2
        <4>4. target[type] # <<>>
          BY <4>1, <4>3, <1>2
        <4>5. QED
          BY <3>1, <4>4, <1>2
      <3>2. CASE position = Len(target[type]) /\ type' = type + 1
        BY <3>2, <1>6 DEF LastEntry
      <3>3. QED
        BY <1>1, <3>1, <3>2, AdvanceFacts
    <2>3. QED
      BY <1>1, <1>3, <2>1, <2>2 DEF TriedInv
  <1>10. CopyIsExact'
    <2>1. copy = SetTo(pair.settings, applied \cup batches)
      BY DEF IInv, CopyIsExact
    <2>2. copy' = SetTo(pair.settings, (applied \cup batches) \cup bs)
      BY <1>1, <2>1, SetToTwice
    <2>3. (applied \cup batches) \cup bs = applied \cup bs
      BY <1>4
    <2>4. QED
      BY <1>1, <1>3, <2>2, <2>3 DEF CopyIsExact, SetTo
  <1>11. ShownInv'
    BY <1>1, <1>3 DEF IInv, ShownInv, KeptShowBug, SetTo
  <1>12. QED
    BY <1>7, <1>8, <1>9, <1>10, <1>11 DEF IInv

(* An empty list is passed.                                                *)
LEMMA PassEmptyIInv ==
  IInv /\ PassEmpty => IInv'
  <1> SUFFICES ASSUME IInv, PassEmpty PROVE IInv'
    OBVIOUS
  <1>1. /\ pc = "scan" /\ pc' = "scan" /\ type <= 6 /\ target[type] = <<>>
        /\ type' = type + 1
        /\ UNCHANGED <<pair, settings, limit, copy, trial, applied, batches,
                       position, status, tried, shown>>
    BY DEF PassEmpty
  <1>2. target' = target /\ Differing' = Differing
    BY <1>1 DEF target, Differing, Indices
  <1>3. type \in 1..6 /\ type' \in 1..7 /\ position = 1 /\ pair \in Pairs
    BY <1>1 DEF IInv, Typed, CursorInv
  <1>4. Typed'
    BY <1>1, <1>2, <1>3 DEF IInv, Typed
  <1>5. CursorInv'
    BY <1>1, <1>2, <1>3, ListType DEF IInv, CursorInv
  <1>6. TriedInv'
    <2>1. \A x \in Differing : Passed(x)' => Passed(x)
      <3> SUFFICES ASSUME NEW x \in Differing, Passed(x)' PROVE Passed(x)
        OBVIOUS
      <3>1. x = <<x[1], x[2]>> /\ x[1] \in 1..6
            /\ x[2] \in 1..Len(target[x[1]])
        BY DifferingEntry
      <3>2. \A t \in 1..6 : Len(target[t]) \in Nat
        BY <1>3, ListType
      <3>3. Len(target[x[1]]) \in Nat
        BY <3>1, <3>2
      <3>4. x[1] = type => Len(target[x[1]]) = 0
        BY <1>1
      <3>5. QED
        BY <1>1, <1>3, <3>1, <3>3, <3>4 DEF Passed
    <2>2. batches # {} => \E u \in type'..6 : target[u] # <<>>
      BY <1>1, <1>3 DEF IInv, TriedInv
    <2>3. QED
      BY <1>1, <1>2, <2>1, <2>2 DEF IInv, TriedInv
  <1>7. CopyIsExact' /\ ShownInv'
    BY <1>1, <1>2 DEF IInv, CopyIsExact, ShownInv, KeptShowBug, SetTo
  <1>8. QED
    BY <1>4, <1>5, <1>6, <1>7 DEF IInv

(* After a solve the batch is empty, and its entries were tried.           *)
LEMMA SolvedScan ==
  ASSUME IInv, pc = "solve", pc' = "scan", Advance, batches' = {},
         tried' = tried \cup batches, UNCHANGED pair
  PROVE  /\ CursorInv' /\ TriedInv'
         /\ type' \in 1..7 /\ position' \in Nat \ {0}
         /\ Differing' = Differing /\ target' = target
  <1>1. type <= 6 /\ position <= Len(target[type])
    BY DEF IInv, CursorInv
  <1>2. target' = target /\ Differing' = Differing
    BY DEF target, Differing, Indices
  <1>3. \A x \in Differing : Passed(x)' => x \in tried \cup batches
    <2> SUFFICES ASSUME NEW x \in Differing, Passed(x)' PROVE x \in tried \cup batches
      OBVIOUS
    <2>1. Passed(x) \/ x = <<type, position>>
      BY <1>1, AdvancePasses
    <2>2. Passed(x)
      BY <2>1 DEF Passed
    <2>3. QED
      BY <2>2 DEF IInv, TriedInv
  <1>4. TriedInv'
    BY <1>2, <1>3 DEF TriedInv
  <1>5. QED
    BY <1>1, <1>2, <1>4, AdvanceCursor, AdvanceFacts

(* A batch that does not show the bug is given up.                         *)
LEMMA RejectBatchIInv ==
  IInv /\ RejectBatch => IInv'
  <1> SUFFICES ASSUME IInv, RejectBatch PROVE IInv'
    OBVIOUS
  <1>1. /\ pc = "solve" /\ pc' = "scan" /\ Advance /\ batches' = {}
        /\ tried' = tried \cup batches
        /\ copy' = SetTo(settings, applied) /\ trial' = trial
        /\ UNCHANGED <<pair, settings, limit, applied, status, shown>>
    BY DEF RejectBatch, Reset, ResetLimit
  <1>2. /\ CursorInv' /\ TriedInv'
        /\ type' \in 1..7 /\ position' \in Nat \ {0}
        /\ Differing' = Differing /\ target' = target
    BY <1>1, SolvedScan
  <1>3. Typed'
    BY <1>1, <1>2 DEF IInv, Typed
  <1>4. CopyIsExact' /\ ShownInv'
    BY <1>1, <1>2 DEF IInv, CopyIsExact, ShownInv, KeptShowBug, SetTo
  <1>5. QED
    BY <1>2, <1>3, <1>4 DEF IInv

(* A batch that shows the bug is kept.                                     *)
LEMMA AcceptBatchIInv ==
  IInv /\ AcceptBatch => IInv'
  <1> SUFFICES ASSUME IInv, AcceptBatch PROVE IInv'
    OBVIOUS
  <1>1. /\ pc = "solve" /\ pc' = "scan" /\ Advance /\ batches' = {}
        /\ tried' = tried \cup batches /\ applied' = applied \cup batches
        /\ trial' \in Limits /\ shown' = [settings |-> copy, limit |-> trial']
        /\ UNCHANGED <<pair, settings, limit, copy, status>>
    BY DEF AcceptBatch
  <1>2. /\ CursorInv' /\ TriedInv'
        /\ type' \in 1..7 /\ position' \in Nat \ {0}
        /\ Differing' = Differing /\ target' = target
    BY <1>1, SolvedScan
  <1>3. Typed'
    BY <1>1, <1>2 DEF IInv, Typed
  <1>4. CopyIsExact'
    BY <1>1, <1>2 DEF IInv, CopyIsExact, SetTo
  <1>5. applied' # {}
    BY <1>1 DEF IInv, Typed
  <1>6. ShownInv'
    BY <1>1, <1>2, <1>5 DEF IInv, CopyIsExact, ShownInv, KeptShowBug, SetTo
  <1>7. QED
    BY <1>2, <1>3, <1>4, <1>6 DEF IInv

(* The lists come to their end.                                            *)
LEMMA FinishIInv ==
  IInv /\ Finish => IInv'
  <1> SUFFICES ASSUME IInv, Finish PROVE IInv'
    OBVIOUS
  <1>1. /\ pc = "scan" /\ pc' = "done" /\ type > 6
        /\ \/ applied = {} /\ UNCHANGED <<settings, limit>>
           \/ applied # {} /\ settings' = copy /\ limit' = trial
        /\ status' \in {"kDidNotRun", "kNotAdmissible", "kUnsuccesful", "kSuccessful"}
        /\ UNCHANGED <<pair, copy, trial, applied, batches, type, position, tried, shown>>
    BY DEF Finish
  <1>2. target' = target /\ Differing' = Differing
    BY <1>1 DEF target, Differing, Indices
  <1>3. batches = {}
    BY <1>1 DEF IInv, Typed, TriedInv
  <1>4. tried = Differing
    <2>1. \A x \in Differing : Passed(x)
      <3> SUFFICES ASSUME NEW x \in Differing PROVE Passed(x)
        OBVIOUS
      <3>1. x = <<x[1], x[2]>> /\ x[1] \in 1..6
            /\ x[2] \in 1..Len(target[x[1]])
        BY DifferingEntry
      <3>2. QED
        BY <1>1, <3>1 DEF Passed, IInv, Typed
    <2>2. QED
      BY <1>1, <1>3, <2>1 DEF IInv, Typed, TriedInv
  <1>5. Typed'
    BY <1>1, <1>2 DEF IInv, Typed
  <1>6. CursorInv' /\ TriedInv'
    BY <1>1, <1>2, <1>3, <1>4 DEF CursorInv, TriedInv
  <1>7. CopyIsExact'
    BY <1>1, <1>2 DEF IInv, CopyIsExact, SetTo
  <1>8. copy = SetTo(pair.settings, applied)
    BY <1>3 DEF IInv, CopyIsExact
  <1>9. applied = {} => SetTo(pair.settings, applied) = pair.settings
    BY SetToNothing DEF IInv, Typed
  <1>10. ShownInv'
    BY <1>1, <1>8, <1>9 DEF IInv, ShownInv, KeptShowBug
  <1>11. QED
    BY <1>5, <1>6, <1>7, <1>10 DEF IInv

(* Every step keeps the invariant.                                         *)
LEMMA NextIInv ==
  IInv /\ [Next]_vars => IInv'
  <1>1. IInv /\ UNCHANGED vars => IInv'
    <2> SUFFICES ASSUME IInv, UNCHANGED vars PROVE IInv'
      OBVIOUS
    <2>1. target' = target /\ Differing' = Differing
      BY DEF vars, target, Differing, Indices
    <2>2. Typed' /\ CursorInv'
      BY <2>1 DEF vars, IInv, Typed, CursorInv
    <2>3. TriedInv'
      BY <2>1 DEF vars, IInv, TriedInv, Passed
    <2>4. CopyIsExact' /\ ShownInv'
      BY <2>1 DEF vars, IInv, CopyIsExact, ShownInv, KeptShowBug, SetTo
    <2>5. QED
      BY <2>2, <2>3, <2>4 DEF IInv
  <1>2. QED
    BY <1>1, VisitIInv, PassEmptyIInv, RejectBatchIInv, AcceptBatchIInv, FinishIInv
       DEF Next, Done

(* The invariant holds throughout.                                         *)
LEMMA ScanIInv ==
  Spec => []IInv
  BY InitIInv, NextIInv, PTL DEF Spec

(* The cursor stays inside the lists, and only a batch is solved.          *)
THEOREM SettingsTyped ==
  Spec => []TypeOK
  <1>1. IInv => TypeOK
    BY DEF IInv, Typed, CursorInv, TypeOK
  <1>2. QED
    BY <1>1, ScanIInv, PTL

(* SettingModifier.hpp: what the modifier hands back showed the bug, with  *)
(* the limits the solver left at that time.                                *)
THEOREM SettingsShowBug ==
  Spec => []KeptShowBug
  <1>1. IInv => KeptShowBug
    BY DEF IInv, ShownInv
  <1>2. QED
    BY <1>1, ScanIInv, PTL

(* No setting off its target is left untried, whichever lists are empty.   *)
THEOREM SettingsAllTried ==
  Spec => []EverythingTried
  <1>1. IInv => EverythingTried
    BY DEF IInv, TriedInv, EverythingTried
  <1>2. QED
    BY <1>1, ScanIInv, PTL

(* The solver always gets the settings with the accepted and the pending   *)
(* entries at their targets, and nothing else changed.                     *)
THEOREM SettingsCopyExact ==
  Spec => []CopyIsExact
  <1>1. IInv => CopyIsExact
    BY DEF IInv
  <1>2. QED
    BY <1>1, ScanIInv, PTL

-------------------------------------------------------------------------------
(***************************************************************************)
(* Instances of SCIP.                                                      *)
(***************************************************************************)
Plus(x, t) == t + x
Chosen(T)  == CHOOSE x \in T : TRUE

Summing == INSTANCE FoldLemmas WITH Op <- Plus, Pick <- Chosen

-------------------------------------------------------------------------------
(* Rank of a number in a set. *)
Rank(set, i) == Cardinality({j \in set : j <= i})

(* Larger numbers have larger ranks.                                       *)
LEMMA RankGrows ==
  ASSUME NEW set \in SUBSET Nat, IsFiniteSet(set), NEW i \in set, NEW j \in set, i < j
  PROVE  Rank(set, i) < Rank(set, j)
<1> DEFINE I == {k \in set : k <= i}
           J == {k \in set : k <= j}
<1>1. I \subseteq J \ {j} /\ j \in J
  <2>1. ASSUME NEW k \in I  PROVE k \in J /\ k # j
    <3>1. k \in Nat /\ i \in Nat /\ j \in Nat /\ k <= i
      OBVIOUS
    <3> QED BY <3>1
  <2>2. j \in J
    OBVIOUS
  <2> HIDE DEF I, J
  <2> QED BY <2>1, <2>2
<1>2. IsFiniteSet(J) /\ Cardinality(J) \in Nat
  BY FS_Subset, FS_CardinalityType
<1>3. IsFiniteSet(J \ {j}) /\ Cardinality(J \ {j}) = Cardinality(J) - 1
  <2> HIDE DEF J
  <2> QED BY <1>1, <1>2, FS_RemoveElement
<1>4. Cardinality(I) <= Cardinality(J \ {j})
  <2> HIDE DEF I, J
  <2> QED BY <1>1, <1>3, FS_Subset
<1>5. Cardinality(I) \in Nat
  BY FS_Subset, FS_CardinalityType
<1>6. Rank(set, i) = Cardinality(I) /\ Rank(set, j) = Cardinality(J)
  BY DEF Rank
<1> HIDE DEF I, J
<1> QED BY <1>2, <1>3, <1>4, <1>5, <1>6

(* Every rank is that of one number.                                       *)
LEMMA EveryRank ==
  ASSUME NEW set \in SUBSET Nat, IsFiniteSet(set)
  PROVE  /\ Cardinality(set) \in Nat
         /\ \A i \in set : Rank(set, i) \in 1..Cardinality(set)
         /\ \A i, j \in set : Rank(set, i) = Rank(set, j) => i = j
         /\ \A k \in 1..Cardinality(set) : \E i \in set : Rank(set, i) = k
<1> DEFINE n == Cardinality(set)
           f == [i \in set |-> Rank(set, i)]
<1>1. n \in Nat
  BY FS_CardinalityType
<1>2. ASSUME NEW i \in set  PROVE Rank(set, i) \in 1..n
  <2> DEFINE I == {j \in set : j <= i}
  <2>1. IsFiniteSet(I) /\ Cardinality(I) <= n /\ Cardinality(I) \in Nat /\ i \in I
    BY FS_Subset, FS_CardinalityType
  <2>2. Cardinality(I) # 0
    <3> HIDE DEF I
    <3> QED BY <2>1, FS_EmptySet
  <2>3. Rank(set, i) = Cardinality(I)
    BY DEF Rank
  <2> HIDE DEF I, n
  <2> QED BY <1>1, <2>1, <2>2, <2>3
<1>3. ASSUME NEW i \in set, NEW j \in set, Rank(set, i) = Rank(set, j)  PROVE i = j
  <2>1. Rank(set, i) \in Int /\ Rank(set, j) \in Int
    BY <1>2
  <2>2. ~ (i < j) /\ ~ (j < i)
    BY <1>3, <2>1, RankGrows
  <2> QED BY <2>2
<1>4. f \in Injection(set, 1..n)
  <2> HIDE DEF n
  <2> QED BY <1>2, <1>3 DEF Injection, IsInjective
<1>5. IsFiniteSet(1..n) /\ Cardinality(1..n) = n
  <2> HIDE DEF n
  <2>1. 1 \in Int /\ n \in Int /\ (1 > n => n = 0) /\ n - 1 + 1 = n
    BY <1>1
  <2> QED BY <2>1, FS_Interval
<1>6. f \in Surjection(set, 1..n)
  <2> HIDE DEF f
  <2>1. n = Cardinality(set)
    OBVIOUS
  <2> HIDE DEF n
  <2> QED BY <1>4, <1>5, <2>1, FS_Injection
<1>7. \A k \in 1..n : \E i \in set : Rank(set, i) = k
  <2> HIDE DEF n
  <2> QED BY <1>6 DEF Surjection
<1> QED BY <1>1, <1>2, <1>3, <1>7

(* The sequence of a set holds each of its numbers once.                   *)
LEMMA AscendingHasAll ==
  ASSUME NEW set \in SUBSET Nat, IsFiniteSet(set)
  PROVE  LET a == Ascending(set)
         IN  /\ a \in Seq(set) /\ DOMAIN a = 1..Len(a)
             /\ \A k \in DOMAIN a : a[k] \in set
             /\ \A k, m \in DOMAIN a : a[k] = a[m] => k = m
             /\ \A i \in set : \E k \in DOMAIN a : a[k] = i
<1> DEFINE a == Ascending(set)
           n == Cardinality(set)
<1>1. n \in Nat
  BY EveryRank
<1>2. ASSUME NEW k \in 1..n  PROVE a[k] \in set /\ Rank(set, a[k]) = k
  <2>1. a[k] = CHOOSE i \in set : Rank(set, i) = k
    BY DEF Ascending, Rank
  <2>2. \E i \in set : Rank(set, i) = k
    BY EveryRank
  <2> HIDE DEF a
  <2> QED BY <2>1, <2>2
<1>3. a \in [1..n -> set]
  BY <1>2 DEF Ascending
<1>4. a \in Seq(set) /\ Len(a) = n /\ DOMAIN a = 1..n
  <2> HIDE DEF a, n
  <2> QED BY <1>1, <1>3
<1>5. ASSUME NEW i \in set  PROVE \E k \in 1..n : a[k] = i
  <2> DEFINE k == Rank(set, i)
  <2>1. k \in 1..n
    BY EveryRank
  <2>2. a[k] \in set /\ Rank(set, a[k]) = k
    BY <1>2, <2>1
  <2>3. a[k] = i
    <3>1. \A x, y \in set : Rank(set, x) = Rank(set, y) => x = y
      BY EveryRank
    <3> HIDE DEF a
    <3> QED BY <2>2, <3>1
  <2> HIDE DEF a, k
  <2> QED BY <2>1, <2>3
<1> HIDE DEF a, n
<1>6. \A k, m \in 1..n : a[k] = a[m] => k = m
  BY <1>2
<1> QED BY <1>2, <1>4, <1>5, <1>6 DEF a

-------------------------------------------------------------------------------
(* A lower bound or left side reaches SCIP as it is.                       *)
LEMMA BelowKept ==
  ASSUME NEW ex \in BOOLEAN, NEW x, NEW isinf \in BOOLEAN, IsBelow(ex, x, isinf)
  PROVE  /\ IsNumber(ex, Below(ex, x, isinf))
         /\ IsNegInfinite(ex, Below(ex, x, isinf)) <=> isinf
         /\ ~isinf => NumberOf(ex, Below(ex, x, isinf)) = x
<1>1. Infinity \in Int /\ Infinity > 0 /\ x \in Int
  BY InfinityAssumption DEF IsBelow
<1>2. CASE ex
  <2>1. CASE isinf
    BY <1>1, <1>2, <2>1 DEF IsBelow, Below, IsNumber, IsNegInfinite, NumberOf, RealOf, Rational
  <2>2. CASE ~isinf
    BY <1>1, <1>2, <2>2 DEF IsBelow, Below, IsNumber, IsNegInfinite, NumberOf, RealOf, Rational
  <2> QED BY <2>1, <2>2
<1>3. CASE ~ex
  BY <1>1, <1>3 DEF IsBelow, Below, IsNumber, IsNegInfinite, NumberOf
<1> QED BY <1>2, <1>3

(* So does an upper bound or right side.                                   *)
LEMMA AboveKept ==
  ASSUME NEW ex \in BOOLEAN, NEW x, NEW isinf \in BOOLEAN, IsAbove(ex, x, isinf)
  PROVE  /\ IsNumber(ex, Above(ex, x, isinf))
         /\ IsPosInfinite(ex, Above(ex, x, isinf)) <=> isinf
         /\ ~isinf => NumberOf(ex, Above(ex, x, isinf)) = x
<1>1. Infinity \in Int /\ Infinity > 0 /\ x \in Int
  BY InfinityAssumption DEF IsAbove
<1>2. CASE ex
  <2>1. CASE isinf
    BY <1>1, <1>2, <2>1 DEF IsAbove, Above, IsNumber, IsPosInfinite, NumberOf, RealOf, Rational
  <2>2. CASE ~isinf
    BY <1>1, <1>2, <2>2 DEF IsAbove, Above, IsNumber, IsPosInfinite, NumberOf, RealOf, Rational
  <2> QED BY <2>1, <2>2
<1>3. CASE ~ex
  BY <1>1, <1>3 DEF IsAbove, Above, IsNumber, IsPosInfinite, NumberOf
<1> QED BY <1>2, <1>3

(* The flags of a column that is read from a variable.                     *)
LEMMA ColFlags ==
  ASSUME NEW ex, NEW var
  PROVE  LET col == ColOf(ex, var)
         IN  /\ "LbInf" \in col.flags <=> IsNegInfinite(ex, var.lb)
             /\ "UbInf" \in col.flags <=> IsPosInfinite(ex, var.ub)
             /\ "Integral" \in col.flags <=> var.type \in {"BINARY", "INTEGER"}
             /\ "Fixed" \notin col.flags
             /\ col.name = var.name /\ col.obj = var.obj
             /\ col.lb = NumberOf(ex, var.lb) /\ col.ub = NumberOf(ex, var.ub)
BY DEF ColOf, FlagsIf

(* The flags of a row that is read from a constraint.                      *)
LEMMA RowFlags ==
  ASSUME NEW ex, NEW cons
  PROVE  LET row == RowOfCons(ex, cons)
         IN  /\ "LhsInf" \in row.flags <=> IsNegInfinite(ex, cons.lhs)
             /\ "RhsInf" \in row.flags <=> IsPosInfinite(ex, cons.rhs)
             /\ "Equation" \in row.flags
                  <=> {"LhsInf", "RhsInf"} \cap row.flags = {} /\ row.lhs = row.rhs
             /\ "Redundant" \notin row.flags
             /\ row.name = cons.name
             /\ row.lhs = IF IsNegInfinite(ex, cons.lhs) THEN NumberOf(ex, cons.lhs)
                                     ELSE Shift(NumberOf(ex, cons.lhs), cons.terms)
             /\ row.rhs = IF IsPosInfinite(ex, cons.rhs) THEN NumberOf(ex, cons.rhs)
                                     ELSE Shift(NumberOf(ex, cons.rhs), cons.terms)
             /\ row.coef = [i \in DOMAIN cons.terms |->
                              <<cons.terms[i].var, IF cons.terms[i].negated
                                  THEN -cons.terms[i].val ELSE cons.terms[i].val>>]
<1> DEFINE linf == IsNegInfinite(ex, cons.lhs)
           rinf == IsPosInfinite(ex, cons.rhs)
           lhs == IF linf THEN NumberOf(ex, cons.lhs)
                                     ELSE Shift(NumberOf(ex, cons.lhs), cons.terms)
           rhs == IF rinf THEN NumberOf(ex, cons.rhs)
                                     ELSE Shift(NumberOf(ex, cons.rhs), cons.terms)
           coef == [i \in DOMAIN cons.terms |->
                              <<cons.terms[i].var, IF cons.terms[i].negated
                                  THEN -cons.terms[i].val ELSE cons.terms[i].val>>]
           fl == FlagsIf(linf, "LhsInf") \cup FlagsIf(rinf, "RhsInf")
<1>1. RowOfCons(ex, cons) =
        [name |-> cons.name, lhs |-> lhs, rhs |-> rhs,
         flags |-> fl \cup Equation(fl, lhs, rhs), coef |-> coef]
  BY DEF RowOfCons
<1>2. /\ "LhsInf" \in fl <=> linf
      /\ "RhsInf" \in fl <=> rinf
      /\ fl \subseteq {"LhsInf", "RhsInf"}
  BY DEF FlagsIf
<1>3. /\ Equation(fl, lhs, rhs) \subseteq {"Equation"}
      /\ "Equation" \in Equation(fl, lhs, rhs) <=> {"LhsInf", "RhsInf"} \cap fl = {} /\ lhs = rhs
  BY DEF FlagsIf, Equation
<1> DEFINE eq == Equation(fl, lhs, rhs)
<1> HIDE DEF linf, rinf, lhs, rhs, coef, fl, eq
<1>4. /\ "LhsInf" \in fl \cup eq <=> linf
      /\ "RhsInf" \in fl \cup eq <=> rinf
      /\ "Equation" \in fl \cup eq <=> {"LhsInf", "RhsInf"} \cap (fl \cup eq) = {} /\ lhs = rhs
      /\ "Redundant" \notin fl \cup eq
  BY <1>2, <1>3 DEF eq
<1> QED BY <1>1, <1>4 DEF linf, rinf, lhs, rhs, coef, eq

-------------------------------------------------------------------------------
(* Sums of sequences.                                                      *)
Integral(f) == \A i \in DOMAIN f : f[i] \in Int

(* They are folds of FoldLemmas.                                           *)
LEMMA SumIsFold ==
  ASSUME NEW f
  PROVE  SumFunction(f) = Summing!Fold(0, f, DOMAIN f)
BY DEF SumFunction, SumFunctionOnSet, FoldFunctionOnSet, MapThenFoldSet,
       Summing!Fold, Summing!IsFold, Summing!FoldStep, Plus, Chosen

(* The fold adds integers.                                                 *)
LEMMA PlusAdds == Summing!Adds
BY DEF Summing!Adds, Plus, Chosen

(* A sum of integers is an integer.                                        *)
LEMMA SumIsInteger ==
  ASSUME NEW f, IsFiniteSet(DOMAIN f), Integral(f)
  PROVE  SumFunction(f) \in Int
<1> DEFINE S == DOMAIN f
<1>1. Summing!IsFiniteSet(S) /\ Summing!Integers(f, S)
  BY DEF IsFiniteSet, Summing!IsFiniteSet, Summing!Integers, Integral
<1> HIDE DEF S
<1>2. Summing!Fold(0, f, S) \in Int
  BY <1>1, PlusAdds, Summing!SumTyped
<1> QED BY <1>2, SumIsFold DEF S

(* A sum of zeros is zero.                                                 *)
LEMMA SumOfZeros ==
  ASSUME NEW f, IsFiniteSet(DOMAIN f), \A i \in DOMAIN f : f[i] = 0
  PROVE  SumFunction(f) = 0
<1> DEFINE S == DOMAIN f
           N == {}
<1>1. Summing!IsFiniteSet(S) /\ Summing!Integers(f, S)
  BY DEF IsFiniteSet, Summing!IsFiniteSet, Summing!Integers
<1>2. N \in SUBSET S /\ \A c \in S \ N : f[c] = 0
  OBVIOUS
<1> HIDE DEF S, N
<1>3. Summing!Fold(0, f, S) = Summing!Fold(0, f, N)
  BY <1>1, <1>2, PlusAdds, Summing!SumSupport
<1>4. Summing!Fold(0, f, N) = 0
  BY Summing!FoldEmpty DEF N
<1> QED BY <1>3, <1>4, SumIsFold DEF S

(* A sum of sums is the sum of their parts.                                *)
LEMMA SumOfSums ==
  ASSUME NEW S, IsFiniteSet(S), NEW f, NEW g, NEW h,
         DOMAIN f = S, DOMAIN g = S, DOMAIN h = S, Integral(f), Integral(g),
         \A i \in S : h[i] = f[i] + g[i]
  PROVE  SumFunction(h) = SumFunction(f) + SumFunction(g)
<1>1. Summing!IsFiniteSet(S) /\ Summing!Integers(f, S) /\ Summing!Integers(g, S)
  BY DEF IsFiniteSet, Summing!IsFiniteSet, Summing!Integers, Integral
<1>2. Summing!Fold(0, h, S) = Summing!Fold(0, f, S) + Summing!Fold(0, g, S)
  BY <1>1, PlusAdds, Summing!SumAdds
<1> QED BY <1>2, SumIsFold

(* What a negated variable moves to the sides.                             *)
Moved(terms) ==
  [i \in DOMAIN terms |-> IF terms[i].negated THEN terms[i].val ELSE 0]

Terms(set) == Seq([var : set, val : Int \ {0}, negated : BOOLEAN])

(* Sides move by an integer.                                               *)
LEMMA MovedTyped ==
  ASSUME NEW set, NEW terms \in Terms(set)
  PROVE  /\ IsFiniteSet(DOMAIN terms) /\ Integral(Moved(terms))
         /\ DOMAIN Moved(terms) = DOMAIN terms
         /\ SumFunction(Moved(terms)) \in Int
         /\ \A side : Shift(side, terms) = side - SumFunction(Moved(terms))
<1>1. Len(terms) \in Nat /\ DOMAIN terms = 1..Len(terms)
  BY DEF Terms
<1>2. IsFiniteSet(1..Len(terms))
  BY <1>1, FS_Interval
<1>3. Integral(Moved(terms)) /\ DOMAIN Moved(terms) = DOMAIN terms
  <2>1. ASSUME NEW i \in DOMAIN terms  PROVE Moved(terms)[i] \in Int
    <3> DEFINE T == [var : set, val : Int \ {0}, negated : BOOLEAN]
    <3>1. terms[i] \in T
      <4>1. terms \in Seq(T)
        BY DEF Terms
      <4> HIDE DEF T
      <4> QED BY <1>1, <4>1
    <3> QED BY <3>1 DEF Moved
  <2> QED BY <2>1 DEF Moved, Integral
<1>4. SumFunction(Moved(terms)) \in Int
  BY <1>1, <1>2, <1>3, SumIsInteger
<1> QED BY <1>1, <1>2, <1>3, <1>4 DEF Shift, Moved

(* Without negated variables sides stay where they are.                    *)
LEMMA NothingMoved ==
  ASSUME NEW set, NEW terms \in Terms(set), \A i \in DOMAIN terms : ~ terms[i].negated,
         NEW side \in Int
  PROVE  Shift(side, terms) = side
<1>1. \A i \in DOMAIN terms : Moved(terms)[i] = 0
  BY DEF Moved
<1>2. SumFunction(Moved(terms)) = 0
  BY <1>1, MovedTyped, SumOfZeros
<1> QED BY <1>2, MovedTyped

-------------------------------------------------------------------------------
(* Active columns and irredundant rows are finitely many.                  *)
LEMMA FinitelyMany ==
  ASSUME NEW ex, NEW q, IsProblem(ex, q)
  PROVE  /\ Active(q) \in SUBSET Nat /\ IsFiniteSet(Active(q))
         /\ Kept(q) \in SUBSET Nat /\ IsFiniteSet(Kept(q))
<1>1. /\ Len(q.cols) \in Nat /\ DOMAIN q.cols = 1..Len(q.cols)
      /\ Len(q.rows) \in Nat /\ DOMAIN q.rows = 1..Len(q.rows)
  BY DEF IsProblem
<1>2. IsFiniteSet(1..Len(q.cols)) /\ IsFiniteSet(1..Len(q.rows))
  BY <1>1, FS_Interval
<1>3. Active(q) \subseteq 1..Len(q.cols) /\ Kept(q) \subseteq 1..Len(q.rows)
  BY <1>1 DEF Active, Kept
<1>4. IsFiniteSet(Active(q)) /\ IsFiniteSet(Kept(q))
  BY <1>2, <1>3, FS_Subset
<1> QED BY <1>1, <1>3, <1>4

(* A column and the variable made of it say the same.                      *)
LEMMA VarOfColumn ==
  ASSUME NEW ex \in BOOLEAN, NEW q, IsProblem(ex, q), NEW c \in Active(q)
  PROVE  LET col == q.cols[c]
             var == VarOf(ex, col)
         IN  /\ IsNumber(ex, var.lb) /\ IsNumber(ex, var.ub)
             /\ VarFacts(ex, var) =
                  <<col.name, col.obj, Bound(col.lb, "LbInf" \in col.flags),
                    Bound(col.ub, "UbInf" \in col.flags), "Integral" \in col.flags>>
             /\ IsNegInfinite(ex, var.lb) <=> "LbInf" \in col.flags
             /\ IsPosInfinite(ex, var.ub) <=> "UbInf" \in col.flags
             /\ var.name = col.name /\ var.obj = col.obj
             /\ var.type \in {"BINARY", "INTEGER"} <=> "Integral" \in col.flags
<1> DEFINE col == q.cols[c]
           lb == Below(ex, col.lb, "LbInf" \in col.flags)
           ub == Above(ex, col.ub, "UbInf" \in col.flags)
           vartype == TypeOf(ex, col, lb, ub)
<1>1. VarOf(ex, col) = [name |-> col.name, lb |-> lb, ub |-> ub, obj |-> col.obj, type |-> vartype]
  BY DEF VarOf
<1>2. /\ IsBelow(ex, col.lb, "LbInf" \in col.flags) /\ IsAbove(ex, col.ub, "UbInf" \in col.flags)
      /\ ("LbInf" \in col.flags) \in BOOLEAN /\ ("UbInf" \in col.flags) \in BOOLEAN
  BY DEF IsProblem
<1> HIDE DEF col
<1>3. /\ IsNumber(ex, lb) /\ (IsNegInfinite(ex, lb) <=> "LbInf" \in col.flags)
      /\ ~("LbInf" \in col.flags) => NumberOf(ex, lb) = col.lb
  BY <1>2, BelowKept
<1>4. /\ IsNumber(ex, ub) /\ (IsPosInfinite(ex, ub) <=> "UbInf" \in col.flags)
      /\ ~("UbInf" \in col.flags) => NumberOf(ex, ub) = col.ub
  BY <1>2, AboveKept
<1>5. vartype \in {"BINARY", "INTEGER"} <=> "Integral" \in col.flags
  BY DEF TypeOf
<1> HIDE DEF lb, ub, vartype
<1>6. /\ Bound(NumberOf(ex, lb), IsNegInfinite(ex, lb)) = Bound(col.lb, "LbInf" \in col.flags)
      /\ Bound(NumberOf(ex, ub), IsPosInfinite(ex, ub)) = Bound(col.ub, "UbInf" \in col.flags)
  BY <1>3, <1>4 DEF Bound
<1> DEFINE var == VarOf(ex, col)
<1>7. /\ var.name = col.name /\ var.lb = lb /\ var.ub = ub /\ var.obj = col.obj
      /\ var.type = vartype
  BY <1>1
<1> HIDE DEF var
<1>8. VarFacts(ex, var) = <<col.name, col.obj, Bound(col.lb, "LbInf" \in col.flags),
                    Bound(col.ub, "UbInf" \in col.flags), "Integral" \in col.flags>>
  <2>1. (var.type \in {"BINARY", "INTEGER"}) = ("Integral" \in col.flags)
    BY <1>5, <1>7
  <2> QED BY <1>6, <1>7, <2>1 DEF VarFacts
<1> QED BY <1>3, <1>4, <1>5, <1>7, <1>8 DEF var, col

(* An active sequence of columns numbers all of them.                      *)
Numbering(active, q) ==
  /\ active \in Seq(Active(q)) /\ DOMAIN active = 1..Len(active)
  /\ \A v \in DOMAIN active : active[v] \in Active(q)
  /\ \A v, w \in DOMAIN active : active[v] = active[w] => v = w
  /\ \A c \in Active(q) : \E v \in DOMAIN active : active[v] = c

(* A row and the constraint made of it say the same.                       *)
LEMMA ConsOfRow ==
  ASSUME NEW ex \in BOOLEAN, NEW q, IsProblem(ex, q), NEW k \in Kept(q),
         NEW active, Numbering(active, q)
  PROVE  LET row  == q.rows[k]
             cons == ConsOf(ex, row, active)
         IN  /\ IsNumber(ex, cons.lhs) /\ IsNumber(ex, cons.rhs)
             /\ IsNegInfinite(ex, cons.lhs) <=> "LhsInf" \in row.flags
             /\ IsPosInfinite(ex, cons.rhs) <=> "RhsInf" \in row.flags
             /\ ~IsNegInfinite(ex, cons.lhs) => NumberOf(ex, cons.lhs) = row.lhs
             /\ ~IsPosInfinite(ex, cons.rhs) => NumberOf(ex, cons.rhs) = row.rhs
             /\ row.lhs \in Int /\ row.rhs \in Int
             /\ cons.name = row.name
             /\ cons.terms \in Terms(DOMAIN active)
             /\ DOMAIN cons.terms = DOMAIN row.coef
             /\ \A i \in DOMAIN row.coef :
                  /\ cons.terms[i].var \in DOMAIN active
                  /\ active[cons.terms[i].var] = row.coef[i][1]
                  /\ cons.terms[i].val = row.coef[i][2]
                  /\ ~ cons.terms[i].negated
<1> DEFINE row == q.rows[k]
           lhs == Below(ex, row.lhs, "LhsInf" \in row.flags)
           rhs == Above(ex, row.rhs, "RhsInf" \in row.flags)
           terms == [i \in DOMAIN row.coef |->
                [var |-> CHOOSE v \in DOMAIN active : active[v] = row.coef[i][1],
                 val |-> row.coef[i][2], negated |-> FALSE]]
           cons == ConsOf(ex, row, active)
<1>1. cons.name = row.name /\ cons.lhs = lhs /\ cons.rhs = rhs /\ cons.terms = terms
  <2> HIDE DEF row
  <2>1. cons = [name |-> row.name, lhs |-> lhs, rhs |-> rhs, terms |-> terms]
    BY DEF ConsOf
  <2> HIDE DEF cons, lhs, rhs, terms
  <2> QED BY <2>1
<1>2. /\ IsBelow(ex, row.lhs, "LhsInf" \in row.flags) /\ IsAbove(ex, row.rhs, "RhsInf" \in row.flags)
      /\ ("LhsInf" \in row.flags) \in BOOLEAN /\ ("RhsInf" \in row.flags) \in BOOLEAN
      /\ row.coef \in Seq(Active(q) \X (Int \ {0}))
  BY DEF IsProblem
<1> HIDE DEF row
<1>3. /\ IsNumber(ex, lhs) /\ (IsNegInfinite(ex, lhs) <=> "LhsInf" \in row.flags)
      /\ ~("LhsInf" \in row.flags) => NumberOf(ex, lhs) = row.lhs
  BY <1>2, BelowKept
<1>4. /\ IsNumber(ex, rhs) /\ (IsPosInfinite(ex, rhs) <=> "RhsInf" \in row.flags)
      /\ ~("RhsInf" \in row.flags) => NumberOf(ex, rhs) = row.rhs
  BY <1>2, AboveKept
<1>5. row.lhs \in Int /\ row.rhs \in Int
  BY <1>2 DEF IsBelow, IsAbove
<1>6. ASSUME NEW i \in DOMAIN row.coef
      PROVE  /\ terms[i] \in [var : DOMAIN active, val : Int \ {0}, negated : BOOLEAN]
             /\ active[terms[i].var] = row.coef[i][1]
             /\ terms[i].val = row.coef[i][2]
             /\ ~ terms[i].negated
  <2> DEFINE v == CHOOSE v \in DOMAIN active : active[v] = row.coef[i][1]
  <2>1. terms[i] = [var |-> v, val |-> row.coef[i][2], negated |-> FALSE]
    OBVIOUS
  <2>2. row.coef[i] \in Active(q) \X (Int \ {0})
    BY <1>2
  <2>3. row.coef[i][1] \in Active(q) /\ row.coef[i][2] \in Int \ {0}
    BY <2>2
  <2>4. v \in DOMAIN active /\ active[v] = row.coef[i][1]
    BY <2>3 DEF Numbering
  <2> HIDE DEF v, terms
  <2> QED BY <2>1, <2>3, <2>4
<1>7. Len(row.coef) \in Nat /\ DOMAIN row.coef = 1..Len(row.coef)
  BY <1>2
<1>8. terms \in Terms(DOMAIN active)
  <2> DEFINE T == [var : DOMAIN active, val : Int \ {0}, negated : BOOLEAN]
  <2>1. terms \in [1..Len(row.coef) -> T]
    BY <1>6, <1>7
  <2> HIDE DEF T, terms
  <2>2. terms \in Seq(T)
    BY <1>7, <2>1
  <2> QED BY <2>2 DEF Terms, T
<1>9. DOMAIN terms = DOMAIN row.coef
  OBVIOUS
<1>10. \A i \in DOMAIN row.coef : terms[i].var \in DOMAIN active
  <2> HIDE DEF terms
  <2> QED BY <1>6
<1> HIDE DEF lhs, rhs, terms, cons
<1> QED BY <1>1, <1>3, <1>4, <1>5, <1>6, <1>8, <1>9, <1>10 DEF cons, row

(* Numbering of SCIP are integers here.                                      *)
LEMMA NumberTyped ==
  ASSUME NEW ex \in BOOLEAN, NEW v, IsNumber(ex, v)
  PROVE  NumberOf(ex, v) \in Int
<1>1. Infinity \in Int
  BY InfinityAssumption
<1>2. CASE ex
  BY <1>1, <1>2 DEF IsNumber, NumberOf, RealOf
<1>3. CASE ~ex
  BY <1>3 DEF IsNumber, NumberOf
<1> QED BY <1>2, <1>3

(* What is read from a SCIP problem, one by one.                           *)
LEMMA WhatIsRead ==
  ASSUME NEW ex \in BOOLEAN, NEW m, IsModel(ex, m), NEW sol
  PROVE  LET p == ProblemOf(ex, m, sol)
         IN  /\ DOMAIN p.cols = DOMAIN m.vars /\ Active(p) = DOMAIN m.vars
             /\ DOMAIN p.rows = DOMAIN m.conss /\ Kept(p) = DOMAIN m.conss
             /\ \A v \in DOMAIN m.vars : p.cols[v] = ColOf(ex, m.vars[v])
             /\ \A k \in DOMAIN m.conss : p.rows[k] = RowOfCons(ex, m.conss[k])
             /\ p.min = m.min /\ p.offset = m.offset
             /\ p.primal = Translated(m.vars, sol)
             /\ DOMAIN p.primal = DOMAIN p.cols
             /\ p.cols \in Seq(Range(p.cols)) /\ p.rows \in Seq(Range(p.rows))
<1> DEFINE p == ProblemOf(ex, m, sol)
           cols == [v \in DOMAIN m.vars |-> ColOf(ex, m.vars[v])]
           rows == [k \in DOMAIN m.conss |-> RowOfCons(ex, m.conss[k])]
           primal == Translated(m.vars, sol)
<1>1. /\ p.cols = cols /\ p.rows = rows /\ p.min = m.min /\ p.offset = m.offset
      /\ p.primal = primal
  <2> HIDE DEF primal
  <2> QED BY DEF ProblemOf, primal
<1>2. DOMAIN primal = DOMAIN m.vars
  BY DEF Translated
<1>3. /\ Len(m.vars) \in Nat /\ DOMAIN m.vars = 1..Len(m.vars)
      /\ Len(m.conss) \in Nat /\ DOMAIN m.conss = 1..Len(m.conss)
  BY DEF IsModel
<1>4. cols \in [1..Len(m.vars) -> Range(cols)] /\ rows \in [1..Len(m.conss) -> Range(rows)]
  BY <1>3 DEF Range
<1>5. cols \in Seq(Range(cols)) /\ rows \in Seq(Range(rows))
  <2> HIDE DEF cols, rows
  <2> QED BY <1>3, <1>4
<1>6. Active(p) = DOMAIN m.vars
  <2>1. ASSUME NEW v \in DOMAIN m.vars  PROVE ~Fixed(cols[v])
    <3>1. "Fixed" \notin ColOf(ex, m.vars[v]).flags
      BY ColFlags
    <3> QED BY <3>1 DEF Fixed
  <2>2. DOMAIN cols = DOMAIN m.vars
    OBVIOUS
  <2> HIDE DEF cols, p
  <2> QED BY <1>1, <2>1, <2>2 DEF Active
<1>7. Kept(p) = DOMAIN m.conss
  <2>1. ASSUME NEW k \in DOMAIN m.conss  PROVE ~Redundant(rows[k])
    <3>1. "Redundant" \notin RowOfCons(ex, m.conss[k]).flags
      BY RowFlags
    <3> QED BY <3>1 DEF Redundant
  <2>2. DOMAIN rows = DOMAIN m.conss
    OBVIOUS
  <2> HIDE DEF rows, p
  <2> QED BY <1>1, <2>1, <2>2 DEF Kept
<1>8. /\ DOMAIN cols = DOMAIN m.vars /\ DOMAIN rows = DOMAIN m.conss
      /\ \A v \in DOMAIN m.vars : cols[v] = ColOf(ex, m.vars[v])
      /\ \A k \in DOMAIN m.conss : rows[k] = RowOfCons(ex, m.conss[k])
  OBVIOUS
<1> HIDE DEF p, cols, rows, primal
<1>9. QED BY <1>1, <1>2, <1>5, <1>6, <1>7, <1>8 DEF p, primal

(* What is read from a SCIP problem can be loaded again.                   *)
LEMMA ReadIsProblem ==
  ASSUME NEW ex \in BOOLEAN, NEW m, IsModel(ex, m), NEW sol
  PROVE  IsProblem(ex, ProblemOf(ex, m, sol))
<1> DEFINE p == ProblemOf(ex, m, sol)
<1>1. /\ DOMAIN p.cols = DOMAIN m.vars /\ Active(p) = DOMAIN m.vars
      /\ DOMAIN p.rows = DOMAIN m.conss /\ Kept(p) = DOMAIN m.conss
      /\ \A v \in DOMAIN m.vars : p.cols[v] = ColOf(ex, m.vars[v])
      /\ \A k \in DOMAIN m.conss : p.rows[k] = RowOfCons(ex, m.conss[k])
      /\ DOMAIN p.primal = DOMAIN p.cols
      /\ p.cols \in Seq(Range(p.cols)) /\ p.rows \in Seq(Range(p.rows))
  BY WhatIsRead
<1> HIDE DEF p
<1>2. Infinity \in Int /\ Infinity > 0
  BY InfinityAssumption
<1>3. ASSUME NEW v \in Active(p), NEW w \in Active(p), p.cols[v].name = p.cols[w].name
      PROVE  v = w
  <2>1. p.cols[v].name = m.vars[v].name /\ p.cols[w].name = m.vars[w].name
    BY <1>1, ColFlags
  <2> QED BY <1>1, <1>3, <2>1 DEF IsModel
<1>4. ASSUME NEW v \in Active(p)
      PROVE  /\ IsBelow(ex, p.cols[v].lb, "LbInf" \in p.cols[v].flags)
             /\ IsAbove(ex, p.cols[v].ub, "UbInf" \in p.cols[v].flags)
  <2> DEFINE var == m.vars[v]
             col == p.cols[v]
  <2>1. IsNumber(ex, var.lb) /\ IsNumber(ex, var.ub)
    BY <1>1 DEF IsModel
  <2>2. /\ "LbInf" \in col.flags <=> IsNegInfinite(ex, var.lb)
        /\ "UbInf" \in col.flags <=> IsPosInfinite(ex, var.ub)
        /\ col.lb = NumberOf(ex, var.lb) /\ col.ub = NumberOf(ex, var.ub)
    BY <1>1, ColFlags
  <2> HIDE DEF var, col
  <2>3. NumberOf(ex, var.lb) \in Int /\ NumberOf(ex, var.ub) \in Int
    BY <2>1, NumberTyped
  <2>4. IsBelow(ex, col.lb, "LbInf" \in col.flags)
    BY <1>2, <2>2, <2>3 DEF IsBelow, IsNegInfinite
  <2>5. IsAbove(ex, col.ub, "UbInf" \in col.flags)
    BY <1>2, <2>2, <2>3 DEF IsAbove, IsPosInfinite
  <2> QED BY <2>4, <2>5 DEF col
<1>5. ASSUME NEW k \in Kept(p)
      PROVE  LET row == p.rows[k]
             IN  /\ IsBelow(ex, row.lhs, "LhsInf" \in row.flags)
                 /\ IsAbove(ex, row.rhs, "RhsInf" \in row.flags)
                 /\ "Equation" \in row.flags
                      <=> {"LhsInf", "RhsInf"} \cap row.flags = {} /\ row.lhs = row.rhs
                 /\ row.coef \in Seq(Active(p) \X (Int \ {0}))
  <2> DEFINE cons == m.conss[k]
             row == p.rows[k]
  <2>1. /\ IsNumber(ex, cons.lhs) /\ IsNumber(ex, cons.rhs)
        /\ cons.terms \in Terms(DOMAIN m.vars)
        /\ NumberOf(ex, cons.lhs) > -Infinity =>
             Shift(NumberOf(ex, cons.lhs), cons.terms) > -Infinity
        /\ NumberOf(ex, cons.rhs) < Infinity =>
             Shift(NumberOf(ex, cons.rhs), cons.terms) < Infinity
    BY <1>1 DEF IsModel, Terms
  <2>2. row = RowOfCons(ex, cons)
    BY <1>1
  <2> HIDE DEF row, cons
  <2>3. /\ "LhsInf" \in row.flags <=> IsNegInfinite(ex, cons.lhs)
        /\ "RhsInf" \in row.flags <=> IsPosInfinite(ex, cons.rhs)
        /\ "Equation" \in row.flags
             <=> {"LhsInf", "RhsInf"} \cap row.flags = {} /\ row.lhs = row.rhs
        /\ row.lhs = IF IsNegInfinite(ex, cons.lhs) THEN NumberOf(ex, cons.lhs)
                                ELSE Shift(NumberOf(ex, cons.lhs), cons.terms)
        /\ row.rhs = IF IsPosInfinite(ex, cons.rhs) THEN NumberOf(ex, cons.rhs)
                                ELSE Shift(NumberOf(ex, cons.rhs), cons.terms)
        /\ row.coef = [i \in DOMAIN cons.terms |->
                         <<cons.terms[i].var, IF cons.terms[i].negated
                             THEN -cons.terms[i].val ELSE cons.terms[i].val>>]
    BY <2>2, RowFlags
  <2>4. NumberOf(ex, cons.lhs) \in Int /\ NumberOf(ex, cons.rhs) \in Int
    BY <2>1, NumberTyped
  <2>5. /\ SumFunction(Moved(cons.terms)) \in Int
        /\ \A side : Shift(side, cons.terms) = side - SumFunction(Moved(cons.terms))
    BY <2>1, MovedTyped
  <2>6. /\ Shift(NumberOf(ex, cons.lhs), cons.terms) \in Int
        /\ Shift(NumberOf(ex, cons.rhs), cons.terms) \in Int
    <3> HIDE DEF Moved
    <3> QED BY <2>4, <2>5
  <2>7. IsBelow(ex, row.lhs, "LhsInf" \in row.flags)
    <3>1. CASE IsNegInfinite(ex, cons.lhs)
      BY <1>2, <2>3, <2>4, <3>1 DEF IsBelow, IsNegInfinite
    <3>2. CASE ~IsNegInfinite(ex, cons.lhs)
      BY <1>2, <2>1, <2>3, <2>4, <2>6, <3>2 DEF IsBelow, IsNegInfinite
    <3> QED BY <3>1, <3>2
  <2>8. IsAbove(ex, row.rhs, "RhsInf" \in row.flags)
    <3>1. CASE IsPosInfinite(ex, cons.rhs)
      BY <1>2, <2>3, <2>4, <3>1 DEF IsAbove, IsPosInfinite
    <3>2. CASE ~IsPosInfinite(ex, cons.rhs)
      BY <1>2, <2>1, <2>3, <2>4, <2>6, <3>2 DEF IsAbove, IsPosInfinite
    <3> QED BY <3>1, <3>2
  <2>9. row.coef \in Seq(Active(p) \X (Int \ {0}))
    <3> DEFINE T == [var : DOMAIN m.vars, val : Int \ {0}, negated : BOOLEAN]
               U == Active(p) \X (Int \ {0})
               terms == cons.terms
    <3>1. terms \in Seq(T)
      BY <2>1 DEF Terms
    <3>2. Len(terms) \in Nat /\ DOMAIN terms = 1..Len(terms)
      <4> HIDE DEF T
      <4> QED BY <3>1
    <3>3. ASSUME NEW i \in DOMAIN terms
          PROVE  <<terms[i].var, IF terms[i].negated THEN -terms[i].val ELSE terms[i].val>> \in U
      <4>1. terms[i] \in T
        <5> HIDE DEF T, terms
        <5> QED BY <3>1, <3>2
      <4>2. terms[i].var \in Active(p) /\ terms[i].val \in Int \ {0}
        <5> HIDE DEF terms
        <5> QED BY <1>1, <4>1
      <4>3. -terms[i].val \in Int \ {0}
        <5> HIDE DEF terms
        <5> QED BY <4>2
      <4> DEFINE val == IF terms[i].negated THEN -terms[i].val ELSE terms[i].val
                 var == terms[i].var
      <4>4. val \in Int \ {0}
        BY <4>2, <4>3
      <4>5. var \in Active(p)
        BY <4>2
      <4>6. <<var, val>> \in U
        <5> HIDE DEF val, var
        <5> QED BY <4>4, <4>5
      <4> QED BY <4>6
    <3>4. row.coef \in [1..Len(terms) -> U]
      <4> HIDE DEF U
      <4> QED BY <2>3, <3>2, <3>3
    <3> HIDE DEF U, terms
    <3>5. row.coef \in Seq(U)
      BY <3>2, <3>4
    <3> QED BY <3>5 DEF U
  <2>10. "Equation" \in row.flags
           <=> {"LhsInf", "RhsInf"} \cap row.flags = {} /\ row.lhs = row.rhs
    BY <2>3
  <2> QED BY ONLY <2>7, <2>8, <2>9, <2>10 DEF row
<1>6. IsProblem(ex, p)
  BY <1>1, <1>3, <1>4, <1>5 DEF IsProblem
<1> QED BY <1>6 DEF p

-------------------------------------------------------------------------------
(* What is loaded into SCIP, one by one.                                   *)
LEMMA WhatIsLoaded ==
  ASSUME NEW ex \in BOOLEAN, NEW q, IsProblem(ex, q)
  PROVE  LET m      == ScipOf(ex, q)
             active == Ascending(Active(q))
             kept   == Ascending(Kept(q))
         IN  /\ Numbering(active, q)
             /\ kept \in Seq(Kept(q)) /\ DOMAIN kept = 1..Len(kept)
             /\ \A k \in DOMAIN kept : kept[k] \in Kept(q)
             /\ \A r \in Kept(q) : \E k \in DOMAIN kept : kept[k] = r
             /\ DOMAIN m.vars = DOMAIN active /\ DOMAIN m.conss = DOMAIN kept
             /\ \A v \in DOMAIN active : m.vars[v] = VarOf(ex, q.cols[active[v]])
             /\ \A k \in DOMAIN kept : m.conss[k] = ConsOf(ex, q.rows[kept[k]], active)
             /\ m.min = q.min /\ m.offset = q.offset
             /\ m.vars \in Seq(Range(m.vars)) /\ m.conss \in Seq(Range(m.conss))
<1> DEFINE m      == ScipOf(ex, q)
           active == Ascending(Active(q))
           kept   == Ascending(Kept(q))
           varlist == [v \in DOMAIN active |-> VarOf(ex, q.cols[active[v]])]
           conss  == [k \in DOMAIN kept |-> ConsOf(ex, q.rows[kept[k]], active)]
<1>1. /\ active \in Seq(Active(q)) /\ DOMAIN active = 1..Len(active)
      /\ \A k \in DOMAIN active : active[k] \in Active(q)
      /\ \A k, l \in DOMAIN active : active[k] = active[l] => k = l
      /\ \A i \in Active(q) : \E k \in DOMAIN active : active[k] = i
  BY FinitelyMany, AscendingHasAll
<1>2. /\ kept \in Seq(Kept(q)) /\ DOMAIN kept = 1..Len(kept)
      /\ \A k \in DOMAIN kept : kept[k] \in Kept(q)
      /\ \A i \in Kept(q) : \E k \in DOMAIN kept : kept[k] = i
  BY FinitelyMany, AscendingHasAll
<1>3. /\ m.vars = varlist /\ m.conss = conss /\ m.min = q.min /\ m.offset = q.offset
  <2>1. m = [min |-> q.min, offset |-> q.offset, vars |-> varlist, conss |-> conss]
    BY DEF ScipOf
  <2> HIDE DEF m, varlist, conss
  <2> QED BY <2>1
<1> HIDE DEF m, active, kept
<1>4. Len(active) \in Nat /\ Len(kept) \in Nat
  BY <1>1, <1>2
<1>5. varlist \in [1..Len(active) -> Range(varlist)] /\ conss \in [1..Len(kept) -> Range(conss)]
  BY <1>1, <1>2 DEF Range
<1>6. varlist \in Seq(Range(varlist)) /\ conss \in Seq(Range(conss))
  <2> HIDE DEF varlist, conss
  <2> QED BY <1>4, <1>5
<1>7. /\ DOMAIN varlist = DOMAIN active /\ DOMAIN conss = DOMAIN kept
      /\ \A v \in DOMAIN active : varlist[v] = VarOf(ex, q.cols[active[v]])
      /\ \A k \in DOMAIN kept : conss[k] = ConsOf(ex, q.rows[kept[k]], active)
  OBVIOUS
<1>8. Numbering(active, q)
  BY <1>1 DEF Numbering
<1> HIDE DEF varlist, conss
<1> QED BY <1>2, <1>3, <1>6, <1>7, <1>8 DEF m, active, kept

(* What is loaded into SCIP can be written and read.                       *)
LEMMA LoadedIsModel ==
  ASSUME NEW ex \in BOOLEAN, NEW q, IsProblem(ex, q)
  PROVE  IsModel(ex, ScipOf(ex, q))
<1> DEFINE m      == ScipOf(ex, q)
           active == Ascending(Active(q))
           kept   == Ascending(Kept(q))
<1>1. /\ Numbering(active, q)
      /\ \A k \in DOMAIN kept : kept[k] \in Kept(q)
      /\ DOMAIN m.vars = DOMAIN active /\ DOMAIN m.conss = DOMAIN kept
      /\ \A v \in DOMAIN active : m.vars[v] = VarOf(ex, q.cols[active[v]])
      /\ \A k \in DOMAIN kept : m.conss[k] = ConsOf(ex, q.rows[kept[k]], active)
      /\ m.vars \in Seq(Range(m.vars)) /\ m.conss \in Seq(Range(m.conss))
  BY WhatIsLoaded
<1> HIDE DEF m, active, kept
<1>2. ASSUME NEW v \in DOMAIN m.vars
      PROVE  /\ active[v] \in Active(q) /\ m.vars[v].name = q.cols[active[v]].name
             /\ IsNumber(ex, m.vars[v].lb) /\ IsNumber(ex, m.vars[v].ub)
  <2>1. active[v] \in Active(q)
    BY <1>1 DEF Numbering
  <2> QED BY <1>1, <2>1, VarOfColumn
<1>3. ASSUME NEW v \in DOMAIN m.vars, NEW w \in DOMAIN m.vars,
             m.vars[v].name = m.vars[w].name
      PROVE  v = w
  <2>1. active[v] = active[w]
    BY <1>2, <1>3 DEF IsProblem
  <2> QED BY <1>1, <2>1 DEF Numbering
<1>4. ASSUME NEW k \in DOMAIN m.conss
      PROVE  LET cons == m.conss[k]
             IN  /\ IsNumber(ex, cons.lhs) /\ IsNumber(ex, cons.rhs)
                 /\ cons.terms \in
                      Seq([var : DOMAIN m.vars, val : Int \ {0}, negated : BOOLEAN])
                 /\ NumberOf(ex, cons.lhs) > -Infinity =>
                      Shift(NumberOf(ex, cons.lhs), cons.terms) > -Infinity
                 /\ NumberOf(ex, cons.rhs) < Infinity =>
                      Shift(NumberOf(ex, cons.rhs), cons.terms) < Infinity
  <2> DEFINE cons == m.conss[k]
  <2>1. kept[k] \in Kept(q) /\ cons = ConsOf(ex, q.rows[kept[k]], active)
    BY <1>1
  <2> HIDE DEF cons
  <2>2. /\ IsNumber(ex, cons.lhs) /\ IsNumber(ex, cons.rhs)
        /\ cons.terms \in Terms(DOMAIN active)
        /\ DOMAIN cons.terms = DOMAIN q.rows[kept[k]].coef
        /\ \A i \in DOMAIN q.rows[kept[k]].coef : ~ cons.terms[i].negated
    BY <1>1, <2>1, ConsOfRow
  <2>3. NumberOf(ex, cons.lhs) \in Int /\ NumberOf(ex, cons.rhs) \in Int
    BY <2>2, NumberTyped
  <2>4. Shift(NumberOf(ex, cons.lhs), cons.terms) = NumberOf(ex, cons.lhs)
    BY <2>2, <2>3, NothingMoved
  <2>5. Shift(NumberOf(ex, cons.rhs), cons.terms) = NumberOf(ex, cons.rhs)
    BY <2>2, <2>3, NothingMoved
  <2>6. cons.terms \in Seq([var : DOMAIN m.vars, val : Int \ {0}, negated : BOOLEAN])
    <3>1. cons.terms \in Terms(DOMAIN m.vars)
      BY <1>1, <2>2
    <3> QED BY <3>1 DEF Terms
  <2> QED BY <2>2, <2>4, <2>5, <2>6 DEF cons
<1>5. \A v \in DOMAIN m.vars : IsNumber(ex, m.vars[v].lb) /\ IsNumber(ex, m.vars[v].ub)
  BY <1>2
<1>6. IsModel(ex, m)
  BY <1>1, <1>3, <1>4, <1>5 DEF IsModel
<1> QED BY <1>6 DEF m

(* The facts of a problem are in it, and no others.                        *)
LEMMA SolverHasProblem ==
  ASSUME NEW ex \in BOOLEAN, NEW q, IsProblem(ex, q)
  PROVE  LET m == ScipOf(ex, q)
         IN  /\ m.min = q.min /\ m.offset = q.offset
             /\ {VarFacts(ex, m.vars[v]) : v \in DOMAIN m.vars} =
                  {<<c.name, c.obj, c.lb, c.ub, c.int>> : c \in Facts(q).cols}
             /\ {ConsFacts(ex, m, m.conss[k]) : k \in DOMAIN m.conss} =
                  {<<r.name, r.lhs, r.rhs, r.coef>> : r \in Facts(q).rows}
<1> DEFINE m      == ScipOf(ex, q)
           active == Ascending(Active(q))
           kept   == Ascending(Kept(q))
           OfCol(c) == <<c.name, c.obj, c.lb, c.ub, c.int>>
           OfRow(r) == <<r.name, r.lhs, r.rhs, r.coef>>
<1>1. /\ Numbering(active, q)
      /\ \A k \in DOMAIN kept : kept[k] \in Kept(q)
      /\ \A r \in Kept(q) : \E k \in DOMAIN kept : kept[k] = r
      /\ DOMAIN m.vars = DOMAIN active /\ DOMAIN m.conss = DOMAIN kept
      /\ \A v \in DOMAIN active : m.vars[v] = VarOf(ex, q.cols[active[v]])
      /\ \A k \in DOMAIN kept : m.conss[k] = ConsOf(ex, q.rows[kept[k]], active)
      /\ m.min = q.min /\ m.offset = q.offset
  BY WhatIsLoaded
<1>2. /\ Facts(q).cols = {ColFacts(q, k) : k \in Active(q)}
      /\ Facts(q).rows = {RowFacts(q, k) : k \in Kept(q)}
  BY DEF Facts
<1> HIDE DEF m, active, kept
<1>3. ASSUME NEW v \in DOMAIN m.vars
      PROVE  VarFacts(ex, m.vars[v]) = OfCol(ColFacts(q, active[v]))
  <2>1. active[v] \in Active(q) /\ m.vars[v] = VarOf(ex, q.cols[active[v]])
    BY <1>1 DEF Numbering
  <2> DEFINE col == q.cols[active[v]]
  <2>2. VarFacts(ex, m.vars[v]) =
          <<col.name, col.obj, Bound(col.lb, "LbInf" \in col.flags),
            Bound(col.ub, "UbInf" \in col.flags), "Integral" \in col.flags>>
    BY <2>1, VarOfColumn
  <2> QED BY <2>2 DEF ColFacts
<1>4. ASSUME NEW k \in DOMAIN m.conss
      PROVE  ConsFacts(ex, m, m.conss[k]) = OfRow(RowFacts(q, kept[k]))
  <2> DEFINE cons == m.conss[k]
             row == q.rows[kept[k]]
             coef == {<<q.cols[row.coef[i][1]].name, row.coef[i][2]>> : i \in DOMAIN row.coef}
             terms == {<<m.vars[cons.terms[i].var].name, cons.terms[i].val>> :
                         i \in DOMAIN cons.terms}
  <2>1. kept[k] \in Kept(q) /\ cons = ConsOf(ex, row, active)
    BY <1>1
  <2>2. /\ IsNegInfinite(ex, cons.lhs) <=> "LhsInf" \in row.flags
        /\ IsPosInfinite(ex, cons.rhs) <=> "RhsInf" \in row.flags
        /\ ~IsNegInfinite(ex, cons.lhs) => NumberOf(ex, cons.lhs) = row.lhs
        /\ ~IsPosInfinite(ex, cons.rhs) => NumberOf(ex, cons.rhs) = row.rhs
        /\ cons.name = row.name
        /\ DOMAIN cons.terms = DOMAIN row.coef
        /\ \A i \in DOMAIN row.coef :
             /\ cons.terms[i].var \in DOMAIN active
             /\ active[cons.terms[i].var] = row.coef[i][1]
             /\ cons.terms[i].val = row.coef[i][2]
    <3> HIDE DEF cons
    <3> QED BY <1>1, <2>1, ConsOfRow
  <2>3. RowFacts(q, kept[k]) =
          [name |-> row.name, eq |-> "Equation" \in row.flags,
           lhs |-> Bound(row.lhs, "LhsInf" \in row.flags),
           rhs |-> Bound(row.rhs, "RhsInf" \in row.flags), coef |-> coef]
    BY DEF RowFacts
  <2>4. ConsFacts(ex, m, cons) =
          <<cons.name, Bound(NumberOf(ex, cons.lhs), IsNegInfinite(ex, cons.lhs)),
            Bound(NumberOf(ex, cons.rhs), IsPosInfinite(ex, cons.rhs)), terms>>
    BY DEF ConsFacts
  <2> HIDE DEF cons, row
  <2>5. ASSUME NEW i \in DOMAIN row.coef
        PROVE  <<m.vars[cons.terms[i].var].name, cons.terms[i].val>> =
               <<q.cols[row.coef[i][1]].name, row.coef[i][2]>>
    <3> DEFINE v == cons.terms[i].var
    <3>1. /\ v \in DOMAIN active /\ active[v] \in Active(q) /\ active[v] = row.coef[i][1]
          /\ m.vars[v] = VarOf(ex, q.cols[active[v]]) /\ cons.terms[i].val = row.coef[i][2]
      BY <1>1, <2>2 DEF Numbering
    <3>2. m.vars[v].name = q.cols[active[v]].name
      BY <3>1, VarOfColumn
    <3> QED BY <3>1, <3>2
  <2>6. terms = coef
    BY <2>2, <2>5
  <2>7. /\ Bound(NumberOf(ex, cons.lhs), IsNegInfinite(ex, cons.lhs))
             = Bound(row.lhs, "LhsInf" \in row.flags)
        /\ Bound(NumberOf(ex, cons.rhs), IsPosInfinite(ex, cons.rhs))
             = Bound(row.rhs, "RhsInf" \in row.flags)
    BY <2>2 DEF Bound
  <2> HIDE DEF coef, terms
  <2> QED BY <2>2, <2>3, <2>4, <2>6, <2>7 DEF cons
<1>5. {VarFacts(ex, m.vars[v]) : v \in DOMAIN m.vars} = {OfCol(c) : c \in Facts(q).cols}
  <2>1. ASSUME NEW v \in DOMAIN m.vars
        PROVE  VarFacts(ex, m.vars[v]) \in {OfCol(c) : c \in Facts(q).cols}
    <3>1. ColFacts(q, active[v]) \in Facts(q).cols
      BY <1>1, <1>2 DEF Numbering
    <3> HIDE DEF OfCol
    <3> QED BY <1>3, <3>1
  <2>2. ASSUME NEW c \in Facts(q).cols
        PROVE  \E v \in DOMAIN m.vars : VarFacts(ex, m.vars[v]) = OfCol(c)
    <3>1. PICK k \in Active(q) : c = ColFacts(q, k)
      BY <1>2
    <3>2. PICK v \in DOMAIN m.vars : active[v] = k
      BY <1>1 DEF Numbering
    <3> HIDE DEF OfCol
    <3> QED BY <1>3, <3>1, <3>2
  <2> HIDE DEF OfCol
  <2> QED BY <2>1, <2>2
<1>6. {ConsFacts(ex, m, m.conss[k]) : k \in DOMAIN m.conss} = {OfRow(r) : r \in Facts(q).rows}
  <2>1. ASSUME NEW k \in DOMAIN m.conss
        PROVE  ConsFacts(ex, m, m.conss[k]) \in {OfRow(r) : r \in Facts(q).rows}
    <3>1. RowFacts(q, kept[k]) \in Facts(q).rows
      BY <1>1, <1>2
    <3> HIDE DEF OfRow
    <3> QED BY <1>4, <3>1
  <2>2. ASSUME NEW r \in Facts(q).rows
        PROVE  \E k \in DOMAIN m.conss : ConsFacts(ex, m, m.conss[k]) = OfRow(r)
    <3>1. PICK l \in Kept(q) : r = RowFacts(q, l)
      BY <1>2
    <3>2. PICK k \in DOMAIN m.conss : kept[k] = l
      BY <1>1
    <3> HIDE DEF OfRow
    <3> QED BY <1>4, <3>1, <3>2
  <2> HIDE DEF OfRow
  <2> QED BY <2>1, <2>2
<1> QED BY <1>1, <1>5, <1>6 DEF m

(* The value of a column is found under the name of its variable.          *)
LEMMA ValueTranslated ==
  ASSUME NEW ex \in BOOLEAN, NEW q, IsProblem(ex, q),
         NEW v \in DOMAIN Ascending(Active(q))
  PROVE  Translated(ScipOf(ex, q).vars, SolutionValues(q))[v]
           = q.primal[Ascending(Active(q))[v]]
<1> DEFINE m      == ScipOf(ex, q)
           active == Ascending(Active(q))
           sol    == SolutionValues(q)
           Pair(w) == <<q.cols[active[w]].name, q.primal[active[w]]>>
           name   == m.vars[v].name
<1>1. /\ Numbering(active, q) /\ DOMAIN m.vars = DOMAIN active
      /\ \A w \in DOMAIN active : m.vars[w] = VarOf(ex, q.cols[active[w]])
  BY WhatIsLoaded
<1>2. sol = {Pair(w) : w \in DOMAIN active}
  BY DEF SolutionValues
<1> HIDE DEF m, active, sol
<1>3. v \in DOMAIN m.vars
  BY <1>1 DEF active
<1>4. Translated(m.vars, sol)[v] =
        IF \E p \in sol : p[1] = name THEN (CHOOSE p \in sol : p[1] = name)[2] ELSE 0
  BY <1>3 DEF Translated
<1>5. active[v] \in Active(q) /\ name = q.cols[active[v]].name
  <2>1. active[v] \in Active(q) /\ m.vars[v] = VarOf(ex, q.cols[active[v]])
    BY <1>1, <1>3 DEF Numbering
  <2> QED BY <2>1, VarOfColumn
<1>6. Pair(v) \in sol /\ Pair(v)[1] = name
  BY <1>1, <1>2, <1>3, <1>5
<1>7. ASSUME NEW p \in sol, p[1] = name  PROVE p[2] = q.primal[active[v]]
  <2>1. PICK w \in DOMAIN active : p = Pair(w)
    BY <1>2
  <2>2. active[w] \in Active(q) /\ q.cols[active[w]].name = q.cols[active[v]].name
    BY <1>1, <1>5, <1>7, <2>1 DEF Numbering
  <2>3. active[w] = active[v]
    BY <1>5, <2>2 DEF IsProblem
  <2> QED BY <2>1, <2>3
<1> HIDE DEF name, Pair
<1>8. \E p \in sol : p[1] = name
  BY <1>6
<1> DEFINE p == CHOOSE p \in sol : p[1] = name
<1>9. p \in sol /\ p[1] = name
  BY <1>8
<1>10. Translated(m.vars, sol)[v] = p[2]
  BY <1>4, <1>8
<1> HIDE DEF p
<1> QED BY <1>7, <1>9, <1>10 DEF m, sol, active

(* Loaded, written and read, a problem says what it said.                  *)
LEMMA FactsSurvive ==
  ASSUME NEW ex \in BOOLEAN, NEW q, IsProblem(ex, q)
  PROVE  Facts(ProblemOf(ex, ScipOf(ex, q), SolutionValues(q))) = Facts(q)
<1> DEFINE m      == ScipOf(ex, q)
           active == Ascending(Active(q))
           kept   == Ascending(Kept(q))
           sol    == SolutionValues(q)
           p      == ProblemOf(ex, m, sol)
<1>1. /\ Numbering(active, q)
      /\ \A k \in DOMAIN kept : kept[k] \in Kept(q)
      /\ \A r \in Kept(q) : \E k \in DOMAIN kept : kept[k] = r
      /\ DOMAIN m.vars = DOMAIN active /\ DOMAIN m.conss = DOMAIN kept
      /\ \A v \in DOMAIN active : m.vars[v] = VarOf(ex, q.cols[active[v]])
      /\ \A k \in DOMAIN kept : m.conss[k] = ConsOf(ex, q.rows[kept[k]], active)
      /\ m.min = q.min /\ m.offset = q.offset
  BY WhatIsLoaded
<1>2. IsModel(ex, m)
  BY LoadedIsModel
<1>3. \A v \in DOMAIN active : Translated(m.vars, sol)[v] = q.primal[active[v]]
  BY ValueTranslated
<1> HIDE DEF m, active, kept, sol
<1>4. /\ Active(p) = DOMAIN m.vars /\ Kept(p) = DOMAIN m.conss
      /\ \A v \in DOMAIN m.vars : p.cols[v] = ColOf(ex, m.vars[v])
      /\ \A k \in DOMAIN m.conss : p.rows[k] = RowOfCons(ex, m.conss[k])
      /\ p.min = m.min /\ p.offset = m.offset
      /\ p.primal = Translated(m.vars, sol)
  BY <1>2, WhatIsRead
<1> HIDE DEF p
<1>5. ASSUME NEW v \in DOMAIN active
      PROVE  ColFacts(p, v) = ColFacts(q, active[v])
  <2> DEFINE col == q.cols[active[v]]
             var == m.vars[v]
             new == p.cols[v]
  <2>1. active[v] \in Active(q) /\ var = VarOf(ex, col) /\ new = ColOf(ex, var)
    BY <1>1, <1>4 DEF Numbering
  <2>2. /\ VarFacts(ex, var) =
             <<col.name, col.obj, Bound(col.lb, "LbInf" \in col.flags),
               Bound(col.ub, "UbInf" \in col.flags), "Integral" \in col.flags>>
        /\ IsNegInfinite(ex, var.lb) <=> "LbInf" \in col.flags
        /\ IsPosInfinite(ex, var.ub) <=> "UbInf" \in col.flags
        /\ var.name = col.name /\ var.obj = col.obj
        /\ var.type \in {"BINARY", "INTEGER"} <=> "Integral" \in col.flags
    <3> HIDE DEF var
    <3> QED BY <2>1, VarOfColumn
  <2>3. /\ "LbInf" \in new.flags <=> IsNegInfinite(ex, var.lb)
        /\ "UbInf" \in new.flags <=> IsPosInfinite(ex, var.ub)
        /\ "Integral" \in new.flags <=> var.type \in {"BINARY", "INTEGER"}
        /\ new.name = var.name /\ new.obj = var.obj
        /\ new.lb = NumberOf(ex, var.lb) /\ new.ub = NumberOf(ex, var.ub)
    <3> HIDE DEF new, var
    <3> QED BY <2>1, ColFlags
  <2>4. /\ Bound(NumberOf(ex, var.lb), IsNegInfinite(ex, var.lb)) = Bound(col.lb, "LbInf" \in col.flags)
        /\ Bound(NumberOf(ex, var.ub), IsPosInfinite(ex, var.ub)) = Bound(col.ub, "UbInf" \in col.flags)
    <3> HIDE DEF var
    <3> QED BY <2>2 DEF VarFacts
  <2> HIDE DEF new, var, col
  <2>5. ("LbInf" \in new.flags) = IsNegInfinite(ex, var.lb)
    BY <2>3 DEF IsNegInfinite
  <2>6. ("UbInf" \in new.flags) = IsPosInfinite(ex, var.ub)
    BY <2>3 DEF IsPosInfinite
  <2>7. ("Integral" \in new.flags) = ("Integral" \in col.flags)
    BY <2>2, <2>3
  <2>8. p.primal[v] = q.primal[active[v]]
    BY <1>3, <1>4
  <2>9. ColFacts(p, v) =
          [name |-> new.name, obj |-> new.obj, int |-> "Integral" \in new.flags,
           lb |-> Bound(new.lb, "LbInf" \in new.flags),
           ub |-> Bound(new.ub, "UbInf" \in new.flags), val |-> p.primal[v]]
    BY DEF ColFacts, new
  <2>10. ColFacts(q, active[v]) =
          [name |-> col.name, obj |-> col.obj, int |-> "Integral" \in col.flags,
           lb |-> Bound(col.lb, "LbInf" \in col.flags),
           ub |-> Bound(col.ub, "UbInf" \in col.flags), val |-> q.primal[active[v]]]
    BY DEF ColFacts, col
  <2>11. /\ Bound(new.lb, "LbInf" \in new.flags) = Bound(col.lb, "LbInf" \in col.flags)
         /\ Bound(new.ub, "UbInf" \in new.flags) = Bound(col.ub, "UbInf" \in col.flags)
    BY <2>3, <2>4, <2>5, <2>6
  <2> QED BY <2>2, <2>3, <2>7, <2>8, <2>9, <2>10, <2>11
<1>6. ASSUME NEW k \in DOMAIN kept
      PROVE  RowFacts(p, k) = RowFacts(q, kept[k])
  <2> DEFINE row  == q.rows[kept[k]]
             cons == m.conss[k]
             new  == p.rows[k]
  <2>1. kept[k] \in Kept(q) /\ cons = ConsOf(ex, row, active) /\ new = RowOfCons(ex, cons)
    BY <1>1, <1>4
  <2>2. /\ IsNumber(ex, cons.lhs) /\ IsNumber(ex, cons.rhs)
        /\ IsNegInfinite(ex, cons.lhs) <=> "LhsInf" \in row.flags
        /\ IsPosInfinite(ex, cons.rhs) <=> "RhsInf" \in row.flags
        /\ ~IsNegInfinite(ex, cons.lhs) => NumberOf(ex, cons.lhs) = row.lhs
        /\ ~IsPosInfinite(ex, cons.rhs) => NumberOf(ex, cons.rhs) = row.rhs
        /\ row.lhs \in Int /\ row.rhs \in Int
        /\ cons.name = row.name
        /\ cons.terms \in Terms(DOMAIN active)
        /\ DOMAIN cons.terms = DOMAIN row.coef
        /\ \A i \in DOMAIN row.coef :
             /\ cons.terms[i].var \in DOMAIN active
             /\ active[cons.terms[i].var] = row.coef[i][1]
             /\ cons.terms[i].val = row.coef[i][2]
             /\ ~ cons.terms[i].negated
    <3> HIDE DEF cons
    <3> QED BY <1>1, <2>1, ConsOfRow
  <2>3. /\ "LhsInf" \in new.flags <=> IsNegInfinite(ex, cons.lhs)
        /\ "RhsInf" \in new.flags <=> IsPosInfinite(ex, cons.rhs)
        /\ "Equation" \in new.flags
             <=> {"LhsInf", "RhsInf"} \cap new.flags = {} /\ new.lhs = new.rhs
        /\ new.name = cons.name
        /\ new.lhs = IF IsNegInfinite(ex, cons.lhs) THEN NumberOf(ex, cons.lhs)
                                ELSE Shift(NumberOf(ex, cons.lhs), cons.terms)
        /\ new.rhs = IF IsPosInfinite(ex, cons.rhs) THEN NumberOf(ex, cons.rhs)
                                ELSE Shift(NumberOf(ex, cons.rhs), cons.terms)
        /\ new.coef = [i \in DOMAIN cons.terms |->
                         <<cons.terms[i].var, IF cons.terms[i].negated
                             THEN -cons.terms[i].val ELSE cons.terms[i].val>>]
    <3> HIDE DEF new, cons
    <3> QED BY <2>1, RowFlags
  <2>4. "Equation" \in row.flags
          <=> {"LhsInf", "RhsInf"} \cap row.flags = {} /\ row.lhs = row.rhs
    BY <2>1 DEF IsProblem
  <2> DEFINE coef == {<<q.cols[row.coef[i][1]].name, row.coef[i][2]>> : i \in DOMAIN row.coef}
             newcoef == {<<p.cols[new.coef[i][1]].name, new.coef[i][2]>> : i \in DOMAIN new.coef}
  <2>5. RowFacts(q, kept[k]) =
          [name |-> row.name, eq |-> "Equation" \in row.flags,
           lhs |-> Bound(row.lhs, "LhsInf" \in row.flags),
           rhs |-> Bound(row.rhs, "RhsInf" \in row.flags), coef |-> coef]
    BY DEF RowFacts
  <2>6. RowFacts(p, k) =
          [name |-> new.name, eq |-> "Equation" \in new.flags,
           lhs |-> Bound(new.lhs, "LhsInf" \in new.flags),
           rhs |-> Bound(new.rhs, "RhsInf" \in new.flags), coef |-> newcoef]
    BY DEF RowFacts
  <2> HIDE DEF row, cons, new
  <2>7. ASSUME NEW i \in DOMAIN row.coef
        PROVE  <<p.cols[new.coef[i][1]].name, new.coef[i][2]>> =
               <<q.cols[row.coef[i][1]].name, row.coef[i][2]>>
    <3> DEFINE v == cons.terms[i].var
    <3>1. /\ v \in DOMAIN active /\ active[v] \in Active(q) /\ active[v] = row.coef[i][1]
          /\ m.vars[v] = VarOf(ex, q.cols[active[v]]) /\ p.cols[v] = ColOf(ex, m.vars[v])
          /\ cons.terms[i].val = row.coef[i][2]
      BY <1>1, <1>4, <2>2 DEF Numbering
    <3>2. p.cols[v].name = q.cols[active[v]].name
      BY <3>1, VarOfColumn, ColFlags
    <3>3. new.coef[i][1] = v /\ new.coef[i][2] = row.coef[i][2]
      BY <2>2, <2>3
    <3> HIDE DEF v
    <3> QED BY <3>1, <3>2, <3>3
  <2>8. DOMAIN new.coef = DOMAIN row.coef
    BY <2>2, <2>3
  <2>9. newcoef = coef
    BY <2>7, <2>8
  <2>10. ~IsNegInfinite(ex, cons.lhs) => new.lhs = row.lhs
    <3>1. Shift(row.lhs, cons.terms) = row.lhs
      BY <2>2, NothingMoved
    <3> QED BY <2>2, <2>3, <3>1
  <2>11. ~IsPosInfinite(ex, cons.rhs) => new.rhs = row.rhs
    <3>1. Shift(row.rhs, cons.terms) = row.rhs
      BY <2>2, NothingMoved
    <3> QED BY <2>2, <2>3, <3>1
  <2>12. /\ "LhsInf" \in new.flags <=> "LhsInf" \in row.flags
         /\ "RhsInf" \in new.flags <=> "RhsInf" \in row.flags
    BY <2>2, <2>3
  <2>13. /\ Bound(new.lhs, "LhsInf" \in new.flags) = Bound(row.lhs, "LhsInf" \in row.flags)
         /\ Bound(new.rhs, "RhsInf" \in new.flags) = Bound(row.rhs, "RhsInf" \in row.flags)
    BY <2>2, <2>10, <2>11, <2>12 DEF Bound
  <2>14. ("Equation" \in new.flags) = ("Equation" \in row.flags)
    <3>1. CASE "LhsInf" \in row.flags \/ "RhsInf" \in row.flags
      BY <2>3, <2>4, <2>12, <3>1
    <3>2. CASE "LhsInf" \notin row.flags /\ "RhsInf" \notin row.flags
      BY <2>2, <2>3, <2>4, <2>10, <2>11, <2>12, <3>2
    <3> QED BY <3>1, <3>2
  <2> HIDE DEF coef, newcoef
  <2> QED BY <2>2, <2>3, <2>5, <2>6, <2>9, <2>13, <2>14
<1>7. {ColFacts(p, v) : v \in Active(p)} = {ColFacts(q, c) : c \in Active(q)}
  <2>1. ASSUME NEW v \in Active(p)  PROVE ColFacts(p, v) \in {ColFacts(q, c) : c \in Active(q)}
    <3>1. v \in DOMAIN active /\ active[v] \in Active(q)
      BY <1>1, <1>4 DEF Numbering
    <3> QED BY <1>5, <3>1
  <2>2. ASSUME NEW c \in Active(q)  PROVE ColFacts(q, c) \in {ColFacts(p, v) : v \in Active(p)}
    <3>1. PICK v \in DOMAIN active : active[v] = c
      BY <1>1 DEF Numbering
    <3> QED BY <1>1, <1>4, <1>5, <3>1
  <2> QED BY <2>1, <2>2
<1>8. {RowFacts(p, k) : k \in Kept(p)} = {RowFacts(q, r) : r \in Kept(q)}
  <2>1. ASSUME NEW k \in Kept(p)  PROVE RowFacts(p, k) \in {RowFacts(q, r) : r \in Kept(q)}
    <3>1. k \in DOMAIN kept /\ kept[k] \in Kept(q)
      BY <1>1, <1>4
    <3> QED BY <1>6, <3>1
  <2>2. ASSUME NEW r \in Kept(q)  PROVE RowFacts(q, r) \in {RowFacts(p, k) : k \in Kept(p)}
    <3>1. PICK k \in DOMAIN kept : kept[k] = r
      BY <1>1
    <3> QED BY <1>1, <1>4, <1>6, <3>1
  <2> QED BY <2>1, <2>2
<1>9. Facts(p) = Facts(q)
  BY <1>1, <1>4, <1>7, <1>8 DEF Facts
<1> QED BY <1>9 DEF p, m, sol

(* A row holds at a point if and only if the constraint it is read from    *)
(* does.                                                                   *)
LEMMA NegationHolds ==
  ASSUME NEW ex \in BOOLEAN, NEW m, IsModel(ex, m), NEW k \in DOMAIN m.conss,
         NEW x \in [DOMAIN m.vars -> 0..1]
  PROVE  RowHolds(RowOfCons(ex, m.conss[k]), x) <=> ConsHolds(ex, m.conss[k], x)
<1> DEFINE cons  == m.conss[k]
           terms == cons.terms
           row   == RowOfCons(ex, cons)
           f     == [i \in DOMAIN row.coef |-> row.coef[i][2] * x[row.coef[i][1]]]
           g     == Moved(terms)
           h     == [i \in DOMAIN terms |-> Term(terms[i], x)]
           set   == [var : DOMAIN m.vars, val : Int \ {0}, negated : BOOLEAN]
<1>1. IsNumber(ex, cons.lhs) /\ IsNumber(ex, cons.rhs) /\ terms \in Terms(DOMAIN m.vars)
  BY DEF IsModel, Terms
<1>2. /\ IsFiniteSet(DOMAIN terms) /\ Integral(g) /\ DOMAIN g = DOMAIN terms
      /\ SumFunction(g) \in Int
      /\ \A side : Shift(side, terms) = side - SumFunction(g)
  <2> HIDE DEF cons
  <2> QED BY <1>1, MovedTyped
<1>3. /\ "LhsInf" \in row.flags <=> IsNegInfinite(ex, cons.lhs)
      /\ "RhsInf" \in row.flags <=> IsPosInfinite(ex, cons.rhs)
      /\ row.lhs = IF IsNegInfinite(ex, cons.lhs) THEN NumberOf(ex, cons.lhs)
                              ELSE Shift(NumberOf(ex, cons.lhs), terms)
      /\ row.rhs = IF IsPosInfinite(ex, cons.rhs) THEN NumberOf(ex, cons.rhs)
                              ELSE Shift(NumberOf(ex, cons.rhs), terms)
      /\ row.coef = [i \in DOMAIN terms |->
                       <<terms[i].var, IF terms[i].negated THEN -terms[i].val ELSE terms[i].val>>]
  <2> HIDE DEF cons
  <2> QED BY RowFlags
<1>4. NumberOf(ex, cons.lhs) \in Int /\ NumberOf(ex, cons.rhs) \in Int
  <2> HIDE DEF cons
  <2> QED BY <1>1, NumberTyped
<1>5. terms \in Seq(set) /\ DOMAIN terms = 1..Len(terms)
  <2>1. terms \in Seq(set)
    BY <1>1 DEF Terms
  <2> HIDE DEF set, terms
  <2> QED BY <2>1
<1> HIDE DEF row, cons
<1>6. ASSUME NEW i \in DOMAIN terms
      PROVE  f[i] \in Int /\ h[i] = f[i] + g[i]
  <2>1. terms[i] \in set
    <3> HIDE DEF set, terms
    <3> QED BY <1>5
  <2>2. terms[i].var \in DOMAIN m.vars /\ terms[i].val \in Int /\ terms[i].negated \in BOOLEAN
    <3> HIDE DEF terms
    <3> QED BY <2>1
  <2> DEFINE y == x[terms[i].var]
             val == terms[i].val
  <2>3. y = 0 \/ y = 1
    <3> HIDE DEF terms
    <3> QED BY <2>2
  <2>4. row.coef[i] = <<terms[i].var, IF terms[i].negated THEN -val ELSE val>>
    BY <1>3
  <2>5. f[i] = (IF terms[i].negated THEN -val ELSE val) * y
    <3>1. f[i] = row.coef[i][2] * x[row.coef[i][1]]
      BY <1>3
    <3>2. /\ row.coef[i][1] = terms[i].var
          /\ row.coef[i][2] = IF terms[i].negated THEN -val ELSE val
      BY <2>4
    <3> HIDE DEF f, val
    <3> QED BY <3>1, <3>2
  <2>6. g[i] = IF terms[i].negated THEN val ELSE 0
    BY DEF Moved
  <2>7. h[i] = val * (IF terms[i].negated THEN 1 - y ELSE y)
    BY DEF Term
  <2> HIDE DEF y, val, f, g, h, terms
  <2>8. val \in Int
    BY <2>2 DEF val
  <2>9. CASE terms[i].negated
    <3>1. f[i] = (-val) * y /\ g[i] = val /\ h[i] = val * (1 - y)
      BY <2>5, <2>6, <2>7, <2>9
    <3>2. CASE y = 0
      BY <2>8, <3>1, <3>2
    <3>3. CASE y = 1
      BY <2>8, <3>1, <3>3
    <3> QED BY <2>3, <3>2, <3>3
  <2>10. CASE ~ terms[i].negated
    <3>1. f[i] = val * y /\ g[i] = 0 /\ h[i] = val * y
      BY <2>5, <2>6, <2>7, <2>10
    <3>2. CASE y = 0
      BY <2>8, <3>1, <3>2
    <3>3. CASE y = 1
      BY <2>8, <3>1, <3>3
    <3> QED BY <2>3, <3>2, <3>3
  <2> QED BY <2>9, <2>10
<1>7. DOMAIN f = DOMAIN terms /\ DOMAIN h = DOMAIN terms
  BY <1>3
<1> HIDE DEF f, g, h, terms
<1>8. Integral(f)
  BY <1>6, <1>7 DEF Integral
<1>9. SumFunction(h) = SumFunction(f) + SumFunction(g)
  BY <1>2, <1>6, <1>7, <1>8, SumOfSums
<1>10. SumFunction(f) \in Int
  BY <1>2, <1>7, <1>8, SumIsInteger
<1>11. ~IsNegInfinite(ex, cons.lhs) =>
         (row.lhs <= SumFunction(f) <=> NumberOf(ex, cons.lhs) <= SumFunction(h))
  BY <1>2, <1>3, <1>4, <1>9, <1>10
<1>12. ~IsPosInfinite(ex, cons.rhs) =>
         (SumFunction(f) <= row.rhs <=> SumFunction(h) <= NumberOf(ex, cons.rhs))
  BY <1>2, <1>3, <1>4, <1>9, <1>10
<1>13. RowHolds(row, x) <=>
         /\ ~IsNegInfinite(ex, cons.lhs) => row.lhs <= SumFunction(f)
         /\ ~IsPosInfinite(ex, cons.rhs) => SumFunction(f) <= row.rhs
  BY <1>3 DEF RowHolds, Holds, Bound, f
<1>14. ConsHolds(ex, cons, x) <=>
         /\ ~IsNegInfinite(ex, cons.lhs) => NumberOf(ex, cons.lhs) <= SumFunction(h)
         /\ ~IsPosInfinite(ex, cons.rhs) => SumFunction(h) <= NumberOf(ex, cons.rhs)
  BY DEF ConsHolds, Holds, Bound, h, terms
<1> QED BY <1>11, <1>12, <1>13, <1>14 DEF row, cons

-------------------------------------------------------------------------------
(* What is before the next step says what the first problem said.          *)
ScipInv ==
  /\ exact \in BOOLEAN
  /\ stage \in {"load", "loaded", "written", "assert"}
  /\ stage \in {"load", "loaded"} => IsProblem(exact, problem) /\ Facts(problem) = first
  /\ stage = "loaded" => scip = ScipOf(exact, problem)
  /\ stage = "written" \/ (stage = "load" /\ saved # <<>>) => IsModel(exact, saved.cip)
  /\ stage = "written" => Facts(ProblemOf(exact, saved.cip, saved.sol)) = first
  /\ stage = "load" /\ saved # <<>> => problem = ProblemOf(exact, saved.cip, saved.sol)

(* It holds at the beginning.                                              *)
LEMMA ScipInvInit == ScipInit => ScipInv
<1>1. ASSUME ScipInit  PROVE ScipInv
  <2>1. exact \in Exact /\ exact \in BOOLEAN
    BY <1>1, InstancesAssumption DEF ScipInit
  <2>2. CASE \E q \in ScipProblems :
               stage = "load" /\ problem = q /\ saved = <<>> /\ first = Facts(q)
    BY <2>1, <2>2, InstancesAssumption DEF ScipInv
  <2>3. CASE \E m \in ScipModels[exact] :
               /\ stage = "written" /\ problem = <<>>
               /\ saved = [cip |-> m.model, sol |-> m.sol]
               /\ first = Facts(ProblemOf(exact, m.model, m.sol))
    <3>1. PICK m \in ScipModels[exact] :
               /\ stage = "written" /\ problem = <<>>
               /\ saved = [cip |-> m.model, sol |-> m.sol]
               /\ first = Facts(ProblemOf(exact, m.model, m.sol))
      BY <2>3
    <3>2. IsModel(exact, m.model)
      BY <2>1, InstancesAssumption
    <3>3. saved.cip = m.model /\ saved.sol = m.sol
      BY <3>1
    <3> QED BY <2>1, <3>1, <3>2, <3>3 DEF ScipInv
  <2> QED BY <1>1, <2>2, <2>3 DEF ScipInit
<1> QED BY <1>1

(* Every step keeps it.                                                    *)
LEMMA ScipInvNext == ScipInv /\ [ScipNext]_scipvars => ScipInv'
<1> SUFFICES ASSUME ScipInv, [ScipNext]_scipvars  PROVE ScipInv'
  OBVIOUS
<1>1. CASE DoSetUp
  <2>1. CASE SidedRows(problem)
    BY <1>1, <2>1 DEF ScipInv, DoSetUp
  <2>2. CASE ~SidedRows(problem)
    BY <1>1, <2>2 DEF ScipInv, DoSetUp
  <2> QED BY <2>1, <2>2
<1>2. CASE WriteInstance
  <2>1. /\ stage = "loaded" /\ stage' = "written"
        /\ saved'.cip = scip /\ saved'.sol = SolutionValues(problem)
        /\ exact' = exact /\ first' = first
    BY <1>2 DEF WriteInstance
  <2>2. scip = ScipOf(exact, problem) /\ IsProblem(exact, problem) /\ Facts(problem) = first
        /\ exact \in BOOLEAN
    BY <2>1 DEF ScipInv
  <2>3. IsModel(exact, scip)
    BY <2>2, LoadedIsModel
  <2>4. Facts(ProblemOf(exact, scip, SolutionValues(problem))) = first
    BY <2>2, FactsSurvive
  <2> QED BY <2>1, <2>2, <2>3, <2>4 DEF ScipInv
<1>3. CASE ReadScipInstance
  <2>1. /\ stage = "written" /\ stage' = "load"
        /\ problem' = ProblemOf(exact, saved.cip, saved.sol)
        /\ exact' = exact /\ first' = first /\ saved' = saved
    BY <1>3 DEF ReadScipInstance
  <2>2. /\ IsModel(exact, saved.cip) /\ exact \in BOOLEAN
        /\ Facts(ProblemOf(exact, saved.cip, saved.sol)) = first
    BY <2>1 DEF ScipInv
  <2>3. IsProblem(exact, ProblemOf(exact, saved.cip, saved.sol))
    BY <2>2, ReadIsProblem
  <2> QED BY <2>1, <2>2, <2>3 DEF ScipInv
<1>4. CASE UNCHANGED scipvars
  BY <1>4 DEF ScipInv, scipvars
<1> QED BY <1>1, <1>2, <1>3, <1>4 DEF ScipNext

(* Entries and values have their columns and variables.                    *)
LEMMA PositionsFollow == ScipInv => PositionsValid
<1> SUFFICES ASSUME ScipInv  PROVE PositionsValid
  OBVIOUS
<1>1. ASSUME stage = "load"
      PROVE  /\ DOMAIN problem.primal = DOMAIN problem.cols
             /\ \A k \in Kept(problem) : \A i \in DOMAIN problem.rows[k].coef :
                  LET e == problem.rows[k].coef[i] IN e[1] \in Active(problem) /\ e[2] # 0
  <2>1. IsProblem(exact, problem)
    BY <1>1 DEF ScipInv
  <2>2. ASSUME NEW k \in Kept(problem), NEW i \in DOMAIN problem.rows[k].coef
        PROVE  /\ problem.rows[k].coef[i][1] \in Active(problem)
               /\ problem.rows[k].coef[i][2] # 0
    <3> DEFINE coef == problem.rows[k].coef
    <3>1. coef \in Seq(Active(problem) \X (Int \ {0}))
      BY <2>1 DEF IsProblem
    <3>2. coef[i] \in Active(problem) \X (Int \ {0})
      BY <3>1
    <3> HIDE DEF coef
    <3>3. coef[i][1] \in Active(problem) /\ coef[i][2] # 0
      BY <3>2
    <3> QED BY <3>3 DEF coef
  <2> QED BY <2>1, <2>2 DEF IsProblem
<1>2. ASSUME stage = "loaded",
             NEW k \in DOMAIN scip.conss, NEW i \in DOMAIN scip.conss[k].terms
      PROVE  scip.conss[k].terms[i].var \in DOMAIN scip.vars
  <2> DEFINE T == [var : DOMAIN scip.vars, val : Int \ {0}, negated : BOOLEAN]
             terms == scip.conss[k].terms
  <2>1. IsModel(exact, scip)
    BY <1>2, LoadedIsModel DEF ScipInv
  <2>2. terms \in Seq(T)
    BY <2>1 DEF IsModel
  <2>3. terms[i] \in T
    <3>1. i \in DOMAIN terms
      OBVIOUS
    <3> HIDE DEF T, terms
    <3> QED BY <2>2, <3>1
  <2> HIDE DEF terms
  <2>4. terms[i].var \in DOMAIN scip.vars
    BY <2>3
  <2> QED BY <2>4 DEF terms
<1> QED BY <1>1, <1>2 DEF PositionsValid

(* The property of the run follows from the invariant.                     *)
LEMMA ScipInvImplies == ScipInv => ProblemLoaded
<1> SUFFICES ASSUME ScipInv  PROVE ProblemLoaded
  OBVIOUS
<1>1. PositionsValid
  BY PositionsFollow
<1>2. LoadsProblem
  <2>1. ASSUME stage = "loaded"
        PROVE  exact \in BOOLEAN /\ IsProblem(exact, problem) /\ scip = ScipOf(exact, problem)
    BY <2>1 DEF ScipInv
  <2> QED BY <2>1, SolverHasProblem DEF LoadsProblem
<1>3. NegationKeepsRows
  <2>1. ASSUME stage = "load", saved # <<>>, NEW k \in DOMAIN problem.rows,
               NEW x \in [DOMAIN problem.cols -> 0..1]
        PROVE  RowHolds(problem.rows[k], x) <=> ConsHolds(exact, saved.cip.conss[k], x)
    <3>1. /\ exact \in BOOLEAN /\ IsModel(exact, saved.cip)
          /\ problem = ProblemOf(exact, saved.cip, saved.sol)
      BY <2>1 DEF ScipInv
    <3>2. /\ DOMAIN problem.cols = DOMAIN saved.cip.vars
          /\ DOMAIN problem.rows = DOMAIN saved.cip.conss
          /\ problem.rows[k] = RowOfCons(exact, saved.cip.conss[k])
      BY <2>1, <3>1, WhatIsRead
    <3>3. k \in DOMAIN saved.cip.conss /\ x \in [DOMAIN saved.cip.vars -> 0..1]
      BY <2>1, <3>2
    <3>4. RowHolds(RowOfCons(exact, saved.cip.conss[k]), x)
            <=> ConsHolds(exact, saved.cip.conss[k], x)
      BY <3>1, <3>3, NegationHolds
    <3> QED BY <3>2, <3>4
  <2> QED BY <2>1 DEF NegationKeepsRows
<1>4. SurvivesDisk
  BY DEF ScipInv, SurvivesDisk
<1> QED BY <1>1, <1>2, <1>3, <1>4 DEF ProblemLoaded

(* Whatever problems, SCIP files and interface: positions and entries are  *)
(* valid whenever a problem is set up.                                     *)
THEOREM InstanceTyped == ScipSpec => []ScipTypeOK
<1>1. ScipInv => ScipTypeOK
  BY PositionsFollow DEF ScipInv, ScipTypeOK
<1> QED BY <1>1, ScipInvInit, ScipInvNext, PTL DEF ScipSpec

(* The solver gets the problem, a row of a file holds where the row built  *)
(* from it does, and a problem that is written and read stays what it was, *)
(* for any number of columns and rows, in both interfaces.                 *)
THEOREM ProblemAlwaysLoaded == ScipSpec => []ProblemLoaded
BY ScipInvInit, ScipInvNext, ScipInvImplies, PTL DEF ScipSpec

-------------------------------------------------------------------------------
(***************************************************************************)
(* The solution files.  The lines before the next one have been read.      *)
(***************************************************************************)
LinesBefore(lines, name, n) == {k \in LinesFor(lines, name) : k < n}

LastOf(set) == CHOOSE k \in set : \A i \in set : i <= k

ValueIn(lines, found) == IF found = {} THEN 0 ELSE Numbers[lines[LastOf(found)][2]]

NumbersDenoted == {Numbers[w] : w \in DOMAIN Numbers}

SolInv ==
  /\ parsing \in {"skip", "read", "done", "assert"}
  /\ IsSolution(solfile, colnames, standsfor)
  /\ at \in 1..Len(solfile) + 1
  /\ solvalues \in [DOMAIN colnames -> NumbersDenoted]
  /\ parsing = "skip" => \A i \in 1..at - 1 : ~StartsColumn(solfile[i], colnames)
  /\ parsing = "done" => at = Len(solfile) + 1
  /\ parsing # "assert" =>
       /\ \A k \in 1..at - 1 :
            IsForColumn(solfile[k], colnames) => Len(solfile[k]) > 1
       /\ \A j \in DOMAIN colnames :
            solvalues[j] = ValueIn(solfile, LinesBefore(solfile, colnames[j], at))

(* A file has a number of lines, and the columns have names of their own.  *)
LEMMA LinesOfSolution ==
  ASSUME NEW lines, NEW names, NEW values, IsSolution(lines, names, values)
  PROVE  /\ Len(lines) \in Nat /\ DOMAIN lines = 1..Len(lines)
         /\ \A k \in DOMAIN lines : Len(lines[k]) \in Nat /\ (lines[k] = <<>> \/ Len(lines[k]) > 0)
         /\ \A j, k \in DOMAIN names : names[j] = names[k] => j = k
         /\ \A name : LinesFor(lines, name) \subseteq 1..Len(lines)
<1>1. Len(lines) \in Nat /\ DOMAIN lines = 1..Len(lines)
  <2>1. lines \in Seq(Range(lines))
    BY DEF IsSolution
  <2> QED BY <2>1
<1>2. ASSUME NEW k \in DOMAIN lines
      PROVE  Len(lines[k]) \in Nat /\ (lines[k] = <<>> \/ Len(lines[k]) > 0)
  <2>1. lines[k] \in Seq(Range(lines[k]))
    BY DEF IsSolution
  <2> QED BY <2>1
<1>3. \A j, k \in DOMAIN names : names[j] = names[k] => j = k
  BY DEF IsSolution, AreNames
<1> QED BY <1>1, <1>2, <1>3 DEF LinesFor

(* Before the first line of a column nothing was read of it.               *)
LEMMA NoLineBefore ==
  ASSUME NEW lines, NEW name, NEW n \in Nat, LinesFor(lines, name) \subseteq Nat,
         \A k \in LinesFor(lines, name) : k >= n
  PROVE  ValueIn(lines, LinesBefore(lines, name, n)) = 0
<1>1. LinesBefore(lines, name, n) = {}
  BY DEF LinesBefore
<1> QED BY <1>1 DEF ValueIn

(* A line of another column changes nothing.                               *)
LEMMA OtherLine ==
  ASSUME NEW lines, NEW name, NEW n \in Nat, LinesFor(lines, name) \subseteq Nat,
         n \notin LinesFor(lines, name)
  PROVE  LinesBefore(lines, name, n + 1) = LinesBefore(lines, name, n)
BY DEF LinesBefore

(* The line of a column replaces its value.                                *)
LEMMA OwnLine ==
  ASSUME NEW lines, NEW name, NEW n \in Nat, LinesFor(lines, name) \subseteq Nat,
         n \in LinesFor(lines, name)
  PROVE  ValueIn(lines, LinesBefore(lines, name, n + 1)) = Numbers[lines[n][2]]
<1> DEFINE found == LinesBefore(lines, name, n + 1)
<1>1. n \in found /\ found \subseteq Nat /\ \A i \in found : i <= n
  BY DEF LinesBefore
<1> HIDE DEF found
<1>2. LastOf(found) = n
  <2>1. \A k \in found : (\A i \in found : i <= k) <=> k = n
    BY <1>1
  <2>2. \E k \in found : \A i \in found : i <= k
    BY <1>1
  <2> QED BY <2>1, <2>2 DEF LastOf
<1>3. found # {}
  BY <1>1
<1>4. ValueIn(lines, found) = Numbers[lines[n][2]]
  BY <1>2, <1>3 DEF ValueIn
<1> QED BY <1>4 DEF found

(* All lines have been read at the end.                                    *)
LEMMA AllLinesBefore ==
  ASSUME NEW lines, NEW name, Len(lines) \in Nat,
         LinesFor(lines, name) \subseteq 1..Len(lines)
  PROVE  ValueFor(lines, name) = ValueIn(lines, LinesBefore(lines, name, Len(lines) + 1))
<1>1. LinesBefore(lines, name, Len(lines) + 1) = LinesFor(lines, name)
  BY DEF LinesBefore
<1>2. ValueFor(lines, name) = ValueIn(lines, LinesFor(lines, name))
  BY DEF ValueFor, ValueIn, LastOf
<1> QED BY <1>1, <1>2

(* A list of lines behind another.                                         *)
LEMMA Appended ==
  ASSUME NEW S, NEW s, NEW t, s \in Seq(S), t \in Seq(S)
  PROVE  /\ s \o t \in Seq(S) /\ Len(s \o t) = Len(s) + Len(t)
         /\ \A k \in 1..Len(s) : (s \o t)[k] = s[k]
         /\ \A k \in 1..Len(t) : (s \o t)[k + Len(s)] = t[k]
OBVIOUS

(* What the writer writes: a header, then a line for every nonzero value.  *)
LEMMA WrittenLines ==
  ASSUME NEW m \in Models, NEW x \in [DOMAIN m -> SolValues]
  PROVE  LET listed == Ascending(Written(m, x))
             lines  == WriteSol(m, x)
         IN  /\ Len(listed) \in Nat /\ DOMAIN listed = 1..Len(listed)
             /\ \A k \in DOMAIN listed : listed[k] \in Written(m, x)
             /\ \A j, k \in DOMAIN listed : listed[j] = listed[k] => j = k
             /\ \A c \in Written(m, x) : \E k \in DOMAIN listed : listed[k] = c
             /\ lines \in Seq(Range(lines))
             /\ Len(lines) = Len(listed) + 1 /\ DOMAIN lines = 1..Len(listed) + 1
             /\ lines[1] = Header
             /\ \A k \in DOMAIN listed :
                  lines[k + 1] = <<m[listed[k]].name, x[listed[k]], m[listed[k]].obj>>
<1> DEFINE listed == Ascending(Written(m, x))
           lines == WriteSol(m, x)
           Line(k) == <<m[listed[k]].name, x[listed[k]], m[listed[k]].obj>>
           body == [k \in DOMAIN listed |-> Line(k)]
           Lines == {Header} \cup {Line(k) : k \in DOMAIN listed}
<1>1. Written(m, x) \in SUBSET Nat /\ IsFiniteSet(Written(m, x))
  <2>1. m \in Seq(Range(m))
    BY ModelsAssumption
  <2>2. Len(m) \in Nat /\ DOMAIN m = 1..Len(m)
    BY <2>1
  <2>3. Written(m, x) \subseteq 1..Len(m)
    BY <2>2 DEF Written
  <2>4. IsFiniteSet(1..Len(m))
    BY <2>2, FS_Interval
  <2> QED BY <2>3, <2>4, FS_Subset
<1>2. /\ listed \in Seq(Written(m, x)) /\ DOMAIN listed = 1..Len(listed)
      /\ \A k \in DOMAIN listed : listed[k] \in Written(m, x)
      /\ \A j, k \in DOMAIN listed : listed[j] = listed[k] => j = k
      /\ \A c \in Written(m, x) : \E k \in DOMAIN listed : listed[k] = c
  BY <1>1, AscendingHasAll
<1>3. lines = <<Header>> \o body
  BY DEF WriteSol
<1>4. Len(listed) \in Nat
  <2> HIDE DEF listed
  <2> QED BY <1>2
<1>5. /\ body \in Seq(Lines) /\ Len(body) = Len(listed)
      /\ \A k \in 1..Len(listed) : body[k] = Line(k)
  <2>1. body \in [1..Len(listed) -> Lines]
    BY <1>2
  <2>2. \A k \in 1..Len(listed) : body[k] = Line(k)
    BY <1>2
  <2> HIDE DEF listed, body, Lines, Line
  <2> QED BY <1>4, <2>1, <2>2
<1>6. <<Header>> \in Seq(Lines) /\ Len(<<Header>>) = 1 /\ <<Header>>[1] = Header
  <2>1. Header \in Lines
    OBVIOUS
  <2> HIDE DEF Lines
  <2> QED BY <2>1
<1> HIDE DEF listed, body, Lines, Line
<1>7. /\ lines \in Seq(Lines) /\ Len(lines) = Len(listed) + 1
      /\ lines[1] = Header
      /\ \A k \in 1..Len(listed) : lines[k + 1] = body[k]
  <2> DEFINE head == <<Header>>
  <2>1. /\ head \in Seq(Lines) /\ Len(head) = 1 /\ head[1] = Header
    BY <1>6
  <2>2. lines = head \o body
    BY <1>3
  <2> HIDE DEF head, lines
  <2>3. head \in Seq(Lines) /\ body \in Seq(Lines)
    BY <1>5, <2>1
  <2>4. /\ head \o body \in Seq(Lines) /\ Len(head \o body) = Len(head) + Len(body)
        /\ \A k \in 1..Len(head) : (head \o body)[k] = head[k]
        /\ \A k \in 1..Len(body) : (head \o body)[k + Len(head)] = body[k]
    BY <2>3, Appended
  <2>5. /\ lines \in Seq(Lines) /\ Len(lines) = Len(head) + Len(body)
        /\ \A k \in 1..Len(head) : lines[k] = head[k]
        /\ \A k \in 1..Len(body) : lines[k + Len(head)] = body[k]
    BY <2>2, <2>4, Zenon
  <2> QED BY <1>4, <1>5, <2>1, <2>5
<1> HIDE DEF lines
<1>8. DOMAIN lines = 1..Len(listed) + 1 /\ lines \in Seq(Range(lines))
  <2>1. lines \in [1..Len(listed) + 1 -> Lines]
    BY <1>4, <1>7
  <2>2. lines \in [1..Len(listed) + 1 -> Range(lines)]
    BY <2>1 DEF Range
  <2> QED BY <1>4, <2>1, <2>2
<1>9. \A k \in DOMAIN listed : lines[k + 1] = Line(k)
  BY <1>2, <1>5, <1>7
<1> QED BY <1>2, <1>4, <1>7, <1>8, <1>9 DEF listed, lines, Line

(* The names of the columns that are read, each once.                      *)
LEMMA NamesRead ==
  ASSUME NEW m \in Models
  PROVE  LET act   == Ascending(Unfixed(m))
             names == ActiveNames(m)
         IN  /\ AreNames(names) /\ DOMAIN names = DOMAIN act
             /\ \A j \in DOMAIN names : act[j] \in Unfixed(m) /\ names[j] = m[act[j]].name
             /\ \A j \in DOMAIN names : names[j] \in Names
             /\ \A c \in Unfixed(m) : \E j \in DOMAIN names : act[j] = c
             /\ \A c \in DOMAIN m : m[c].name \in Names
             /\ \A c, d \in DOMAIN m : m[c].name = m[d].name => c = d
<1> DEFINE act == Ascending(Unfixed(m))
           names == ActiveNames(m)
           all == [j \in DOMAIN m |-> m[j].name]
<1>1. /\ m \in Seq(Range(m)) /\ AreNames(all)
  BY ModelsAssumption
<1>2. Len(m) \in Nat /\ DOMAIN m = 1..Len(m)
  BY <1>1
<1>3. Unfixed(m) \in SUBSET Nat /\ IsFiniteSet(Unfixed(m))
  <2>1. Unfixed(m) \subseteq 1..Len(m)
    BY <1>2 DEF Unfixed
  <2>2. IsFiniteSet(1..Len(m))
    BY <1>2, FS_Interval
  <2> QED BY <2>1, <2>2, FS_Subset
<1>4. /\ \A c \in DOMAIN m : m[c].name \in Names
      /\ \A c, d \in DOMAIN m : m[c].name = m[d].name => c = d
  <2>1. all \in Seq(Names) /\ \A c, d \in DOMAIN all : all[c] = all[d] => c = d
    BY <1>1 DEF AreNames
  <2>2. DOMAIN all = DOMAIN m /\ \A c \in DOMAIN m : all[c] = m[c].name
    OBVIOUS
  <2> HIDE DEF all
  <2> QED BY <2>1, <2>2
<1>5. /\ act \in Seq(Unfixed(m)) /\ DOMAIN act = 1..Len(act)
      /\ \A k \in DOMAIN act : act[k] \in Unfixed(m)
      /\ \A j, k \in DOMAIN act : act[j] = act[k] => j = k
      /\ \A c \in Unfixed(m) : \E k \in DOMAIN act : act[k] = c
  BY <1>3, AscendingHasAll
<1>6. names = [k \in DOMAIN act |-> m[act[k]].name]
  BY DEF ActiveNames
<1>7. Len(act) \in Nat
  <2> HIDE DEF act
  <2> QED BY <1>5
<1> HIDE DEF act, names
<1>8. DOMAIN names = DOMAIN act /\ \A j \in DOMAIN names : names[j] = m[act[j]].name
  BY <1>6
<1>9. \A j \in DOMAIN names : names[j] \in Names /\ act[j] \in DOMAIN m
  BY <1>4, <1>5, <1>8 DEF Unfixed
<1>10. names \in Seq(Names)
  <2>1. names \in [1..Len(act) -> Names]
    BY <1>5, <1>6, <1>8, <1>9
  <2> QED BY <1>7, <2>1
<1>11. \A j, k \in DOMAIN names : names[j] = names[k] => j = k
  BY <1>4, <1>5, <1>8, <1>9
<1>12. AreNames(names)
  BY <1>10, <1>11 DEF AreNames
<1> QED BY <1>4, <1>5, <1>8, <1>9, <1>12 DEF act, names

(* The line of a column starts with its name.                              *)
LEMMA OwnLineStarts ==
  ASSUME NEW m \in Models, NEW c \in DOMAIN m, NEW w \in SolValues
  PROVE  StartsWith(<<m[c].name, w, m[c].obj>>, m[c].name)
<1> DEFINE name == m[c].name
           obj == m[c].obj
           words == <<name, w, obj>>
<1>1. name \in Names
  BY NamesRead
<1>2. <<name, name>> \in Begins /\ <<name, name>> \notin Occurs
  BY <1>1, WordsAssumption
<1>3. /\ <<name, w>> \notin Begins /\ <<name, w>> \notin Occurs
      /\ <<name, obj>> \notin Begins /\ <<name, obj>> \notin Occurs
  BY ModelsAssumption DEF NameOnce
<1> HIDE DEF name, obj
<1>4. /\ words # <<>> /\ Len(words) = 3 /\ DOMAIN words = 1..3
      /\ words[1] = name /\ words[2] = w /\ words[3] = obj
  OBVIOUS
<1> HIDE DEF words
<1>5. StartsWith(words, name)
  BY <1>2, <1>3, <1>4 DEF StartsWith
<1> QED BY <1>5 DEF words, name, obj

(* A file that was written is one, for the columns that are left.          *)
LEMMA WrittenIsSolution ==
  ASSUME NEW m \in Models, NEW x \in [DOMAIN m -> SolValues]
  PROVE  IsSolution(WriteSol(m, x), ActiveNames(m), Meaning(m, x))
<1> DEFINE listed == Ascending(Written(m, x))
           act == Ascending(Unfixed(m))
           lines == WriteSol(m, x)
           names == ActiveNames(m)
           values == Meaning(m, x)
<1>1. /\ Len(listed) \in Nat /\ DOMAIN listed = 1..Len(listed)
      /\ \A k \in DOMAIN listed : listed[k] \in Written(m, x)
      /\ \A j, k \in DOMAIN listed : listed[j] = listed[k] => j = k
      /\ \A c \in Written(m, x) : \E k \in DOMAIN listed : listed[k] = c
      /\ lines \in Seq(Range(lines))
      /\ Len(lines) = Len(listed) + 1 /\ DOMAIN lines = 1..Len(listed) + 1
      /\ lines[1] = Header
      /\ \A k \in DOMAIN listed :
           lines[k + 1] = <<m[listed[k]].name, x[listed[k]], m[listed[k]].obj>>
  BY WrittenLines
<1>2. /\ AreNames(names) /\ DOMAIN names = DOMAIN act
      /\ \A j \in DOMAIN names : act[j] \in Unfixed(m) /\ names[j] = m[act[j]].name
      /\ \A j \in DOMAIN names : names[j] \in Names
      /\ \A c \in DOMAIN m : m[c].name \in Names
      /\ \A c, d \in DOMAIN m : m[c].name = m[d].name => c = d
  BY NamesRead
<1>3. /\ \A c \in Written(m, x) : c \in DOMAIN m
      /\ \A c \in Unfixed(m) : c \in DOMAIN m
      /\ \A c \in Unfixed(m) : c \notin Written(m, x) => Numbers[x[c]] = 0
      /\ SolValues \subseteq DOMAIN Numbers
  BY WordsAssumption DEF Written, Unfixed
<1>4. \A j \in DOMAIN names : values[names[j]] = Numbers[x[act[j]]]
  <2>1. SUFFICES ASSUME NEW j \in DOMAIN names
                 PROVE  values[names[j]] = Numbers[x[act[j]]]
    OBVIOUS
  <2> DEFINE c == act[j]
             name == names[j]
  <2>2. c \in Unfixed(m) /\ c \in DOMAIN m /\ name = m[c].name
    BY <1>2, <1>3, <2>1
  <2>3. values[name] = Numbers[x[CHOOSE i \in DOMAIN m : m[i].name = name]]
    <3>1. name \in {m[i].name : i \in Unfixed(m)}
      BY <2>2
    <3> HIDE DEF name, c
    <3> QED BY <3>1 DEF Meaning
  <2>4. (CHOOSE i \in DOMAIN m : m[i].name = name) = c
    <3> HIDE DEF name, c
    <3> QED BY <1>2, <2>2
  <2> QED BY <2>3, <2>4
<1> HIDE DEF listed, act, lines, names, values
<1>5. /\ ~IsForColumn(lines[1], names)
      /\ lines[1] \in Seq(Range(lines[1]))
  <2>1. Header[1] \notin Names
    BY WordsAssumption
  <2>2. \A j \in DOMAIN names : ~IsFor(Header, names[j])
    BY <1>2, <2>1 DEF IsFor
  <2>3. Header \in Seq(Range(Header))
    <3>1. Header[1] \in Range(Header) /\ Header[2] \in Range(Header)
      BY DEF Header, Range
    <3>2. ASSUME NEW S, NEW a \in S, NEW b \in S  PROVE <<a, b>> \in Seq(S)
      OBVIOUS
    <3> QED BY <3>1, <3>2 DEF Header
  <2> QED BY <1>1, <2>2, <2>3 DEF IsForColumn
<1>6. ASSUME NEW k \in DOMAIN listed
      PROVE  /\ lines[k + 1] # <<>> /\ Len(lines[k + 1]) = 3
             /\ lines[k + 1] \in Seq(Range(lines[k + 1]))
             /\ lines[k + 1][1] = m[listed[k]].name
             /\ lines[k + 1][2] = x[listed[k]]
             /\ x[listed[k]] \in SolValues /\ listed[k] \in DOMAIN m
             /\ StartsWith(lines[k + 1], m[listed[k]].name)
  <2> DEFINE c == listed[k]
             name == m[c].name
             w == x[c]
             obj == m[c].obj
  <2>1. c \in DOMAIN m /\ w \in SolValues /\ lines[k + 1] = <<name, w, obj>>
    BY <1>1, <1>3, <1>6
  <2>2. StartsWith(<<name, w, obj>>, name)
    BY <2>1, OwnLineStarts
  <2> HIDE DEF c, name, w, obj
  <2> DEFINE words == <<name, w, obj>>
  <2>3. /\ words # <<>> /\ Len(words) = 3 /\ DOMAIN words = 1..3
        /\ words[1] = name /\ words[2] = w
    OBVIOUS
  <2>4. words \in Seq(Range(words))
    <3>1. words \in [1..3 -> Range(words)]
      BY DEF Range
    <3> QED BY <3>1
  <2> HIDE DEF words
  <2>5. lines[k + 1] = words /\ StartsWith(words, name)
    BY <2>1, <2>2 DEF words
  <2>6. /\ lines[k + 1] # <<>> /\ Len(lines[k + 1]) = 3
        /\ lines[k + 1] \in Seq(Range(lines[k + 1]))
        /\ lines[k + 1][1] = name /\ lines[k + 1][2] = w
        /\ w \in SolValues /\ c \in DOMAIN m /\ StartsWith(lines[k + 1], name)
    BY <2>1, <2>3, <2>4, <2>5
  <2> QED BY <2>6 DEF c, name, w
<1>7. ASSUME NEW k \in DOMAIN lines
      PROVE  /\ lines[k] \in Seq(Range(lines[k]))
             /\ IsForColumn(lines[k], names) =>
                  /\ \E i \in 1..k : StartsColumn(lines[i], names)
                  /\ Len(lines[k]) > 1 => lines[k][2] \in DOMAIN Numbers
  <2>1. CASE k = 1
    BY <1>5, <2>1
  <2>2. CASE k # 1
    <3> DEFINE i == k - 1
    <3>1. i \in DOMAIN listed /\ i + 1 = k /\ k \in 1..k
      BY <1>1, <1>7, <2>2
    <3> HIDE DEF i
    <3>2. /\ lines[k] # <<>> /\ lines[k] \in Seq(Range(lines[k]))
          /\ lines[k][2] \in DOMAIN Numbers
          /\ lines[k][1] = m[listed[i]].name
          /\ StartsWith(lines[k], m[listed[i]].name)
      <4>1. /\ lines[i + 1] # <<>> /\ lines[i + 1] \in Seq(Range(lines[i + 1]))
            /\ lines[i + 1][1] = m[listed[i]].name
            /\ lines[i + 1][2] = x[listed[i]] /\ x[listed[i]] \in SolValues
            /\ StartsWith(lines[i + 1], m[listed[i]].name)
        BY <1>6, <3>1
      <4> QED BY <1>3, <3>1, <4>1
    <3>3. IsForColumn(lines[k], names) => StartsColumn(lines[k], names)
      BY <3>2 DEF IsForColumn, IsFor, StartsColumn
    <3> QED BY <3>1, <3>2, <3>3
  <2> QED BY <2>1, <2>2
<1>8. ASSUME NEW j \in DOMAIN names
      PROVE  values[names[j]] = ValueFor(lines, names[j])
  <2> DEFINE c == act[j]
             name == names[j]
             found == LinesFor(lines, name)
  <2>1. /\ c \in Unfixed(m) /\ c \in DOMAIN m /\ name = m[c].name /\ name \in Names
        /\ values[name] = Numbers[x[c]]
    BY <1>2, <1>3, <1>4, <1>8
  <2>2. ValueFor(lines, name) = ValueIn(lines, found)
    BY DEF ValueFor, ValueIn, LastOf
  <2> HIDE DEF c, name
  <2>3. \A k \in DOMAIN listed : k + 1 \in found <=> listed[k] = c
    <3>1. SUFFICES ASSUME NEW k \in DOMAIN listed
                   PROVE  k + 1 \in found <=> listed[k] = c
      OBVIOUS
    <3>2. /\ lines[k + 1] # <<>> /\ lines[k + 1][1] = m[listed[k]].name
          /\ listed[k] \in DOMAIN m
      BY <1>6, <3>1
    <3>3. k + 1 \in DOMAIN lines
      BY <1>1, <3>1
    <3>4. k + 1 \in found <=> m[listed[k]].name = name
      BY <3>2, <3>3 DEF LinesFor, IsFor
    <3>5. m[listed[k]].name = name <=> listed[k] = c
      BY <1>2, <2>1, <3>2
    <3> QED BY <3>4, <3>5
  <2>4. 1 \notin found
    <3>1. ~IsFor(lines[1], name)
      BY <1>5, <1>8 DEF IsForColumn, name
    <3> QED BY <3>1 DEF LinesFor
  <2>5. found \subseteq {k + 1 : k \in DOMAIN listed}
    <3>1. SUFFICES ASSUME NEW f \in found  PROVE \E k \in DOMAIN listed : f = k + 1
      OBVIOUS
    <3>2. f \in 1..Len(listed) + 1 /\ f # 1
      BY <1>1, <2>4, <3>1 DEF LinesFor
    <3>3. f - 1 \in DOMAIN listed /\ f = (f - 1) + 1
      BY <1>1, <3>2
    <3> QED BY <3>3
  <2> HIDE DEF found
  <2>6. CASE c \in Written(m, x)
    <3>1. PICK k \in DOMAIN listed : listed[k] = c
      BY <1>1, <2>6
    <3>2. found = {k + 1}
      BY <1>1, <2>3, <2>5, <3>1
    <3>3. LastOf(found) = k + 1
      <4>1. k + 1 \in Int
        BY <1>1, <3>1
      <4>2. \A f \in {k + 1} : \A i \in {k + 1} : i <= f
        BY <4>1
      <4> QED BY <3>2, <4>2 DEF LastOf
    <3>4. lines[k + 1][2] = x[c]
      BY <1>6, <3>1
    <3>5. ValueIn(lines, found) = Numbers[x[c]]
      BY <3>2, <3>3, <3>4 DEF ValueIn
    <3> QED BY <2>1, <2>2, <3>5 DEF name
  <2>7. CASE c \notin Written(m, x)
    <3>1. Numbers[x[c]] = 0
      BY <1>3, <2>1, <2>7
    <3>2. found = {}
      BY <1>1, <2>3, <2>5, <2>7
    <3>3. ValueIn(lines, found) = 0
      BY <3>2 DEF ValueIn
    <3> QED BY <2>1, <2>2, <3>1, <3>3 DEF name
  <2> QED BY <2>6, <2>7
<1>9. IsSolution(lines, names, values)
  BY <1>1, <1>2, <1>7, <1>8 DEF IsSolution
<1> QED BY <1>9 DEF lines, names, values

(* Nothing is read at first.                                               *)
LEMMA SolInvInit == SolInit => SolInv
<1> SUFFICES ASSUME SolInit  PROVE SolInv
  OBVIOUS
<1>1. IsSolution(solfile, colnames, standsfor)
  <2>1. CASE \E m \in Models : \E x \in [DOMAIN m -> SolValues] :
               /\ solfile = WriteSol(m, x)
               /\ colnames = ActiveNames(m) /\ standsfor = Meaning(m, x)
    BY <2>1, WrittenIsSolution
  <2>2. CASE \E f \in SolFiles :
               solfile = f.lines /\ colnames = f.colnames /\ standsfor = f.standsfor
    BY <2>2, SolFilesAssumption
  <2> QED BY <2>1, <2>2 DEF SolInit
<1>2. parsing = "skip" /\ at = 1 /\ solvalues = [j \in DOMAIN colnames |-> 0]
  BY DEF SolInit
<1>3. /\ Len(solfile) \in Nat
      /\ \A name : LinesFor(solfile, name) \subseteq 1..Len(solfile)
  BY <1>1, LinesOfSolution
<1>4. \A j \in DOMAIN colnames :
        ValueIn(solfile, LinesBefore(solfile, colnames[j], 1)) = 0
  <2>1. ASSUME NEW name
        PROVE  /\ LinesFor(solfile, name) \subseteq Nat
               /\ \A k \in LinesFor(solfile, name) : k >= 1
    BY <1>3
  <2> QED BY <2>1, NoLineBefore
<1>5. solvalues \in [DOMAIN colnames -> NumbersDenoted]
  <2>1. 0 \in NumbersDenoted
    BY WordsAssumption DEF NumbersDenoted
  <2> QED BY <1>2, <2>1
<1> QED BY <1>1, <1>2, <1>3, <1>4, <1>5 DEF SolInv

(* Lines of the header are skipped, and no line of a column is.            *)
LEMMA SkipHeaderInv == SolInv /\ SkipHeader => SolInv'
<1> SUFFICES ASSUME SolInv, SkipHeader  PROVE SolInv'
  OBVIOUS
<1>1. /\ parsing = "skip" /\ at <= Len(solfile) /\ at \in Nat /\ at >= 1
      /\ IsSolution(solfile, colnames, standsfor)
      /\ solfile' = solfile /\ colnames' = colnames
      /\ solvalues' = solvalues /\ standsfor' = standsfor
  BY DEF SolInv, SkipHeader
<1>2. /\ Len(solfile) \in Nat /\ DOMAIN solfile = 1..Len(solfile)
      /\ \A name : LinesFor(solfile, name) \subseteq 1..Len(solfile)
  BY <1>1, LinesOfSolution
<1>3. CASE StartsColumn(solfile[at], colnames)
  <2>1. parsing' = "read" /\ at' = at
    BY <1>3 DEF SkipHeader
  <2> QED BY <1>1, <2>1 DEF SolInv
<1>4. CASE ~StartsColumn(solfile[at], colnames)
  <2>1. parsing' = "skip" /\ at' = at + 1
    BY <1>1, <1>4 DEF SkipHeader
  <2>2. \A i \in 1..at : ~StartsColumn(solfile[i], colnames)
    BY <1>1, <1>4 DEF SolInv
  <2>3. ~IsForColumn(solfile[at], colnames)
    BY <1>1, <1>2, <2>2 DEF IsSolution
  <2>4. ASSUME NEW j \in DOMAIN colnames
        PROVE  solvalues[j] = ValueIn(solfile, LinesBefore(solfile, colnames[j], at + 1))
    <3>1. at \notin LinesFor(solfile, colnames[j])
      BY <2>3 DEF LinesFor, IsForColumn
    <3>2. LinesFor(solfile, colnames[j]) \subseteq Nat
      BY <1>2
    <3>3. LinesBefore(solfile, colnames[j], at + 1) = LinesBefore(solfile, colnames[j], at)
      BY <1>1, <3>1, <3>2, OtherLine
    <3> QED BY <1>1, <3>3 DEF SolInv
  <2>5. \A k \in 1..at : IsForColumn(solfile[k], colnames) => Len(solfile[k]) > 1
    BY <1>1, <2>3 DEF SolInv
  <2> QED BY <1>1, <1>2, <2>1, <2>2, <2>4, <2>5 DEF SolInv
<1> QED BY <1>3, <1>4

(* A line of a column sets the value of that column and of no other.       *)
LEMMA ReadColumnInv == SolInv /\ ReadColumn => SolInv'
<1> SUFFICES ASSUME SolInv, ReadColumn  PROVE SolInv'
  OBVIOUS
<1>1. /\ parsing = "read" /\ at <= Len(solfile) /\ at \in Nat /\ at >= 1
      /\ IsSolution(solfile, colnames, standsfor)
      /\ solvalues \in [DOMAIN colnames -> NumbersDenoted]
      /\ solfile' = solfile /\ colnames' = colnames /\ standsfor' = standsfor
  BY DEF SolInv, ReadColumn
<1>2. /\ Len(solfile) \in Nat /\ DOMAIN solfile = 1..Len(solfile)
      /\ \A name : LinesFor(solfile, name) \subseteq 1..Len(solfile)
      /\ \A j, k \in DOMAIN colnames : colnames[j] = colnames[k] => j = k
  BY <1>1, LinesOfSolution
<1>3. \A j \in DOMAIN colnames : LinesFor(solfile, colnames[j]) \subseteq Nat
  BY <1>2
<1>4. CASE /\ ~IsForColumn(solfile[at], colnames)
           /\ at' = at + 1 /\ parsing' = parsing /\ solvalues' = solvalues
  <2>1. ASSUME NEW j \in DOMAIN colnames
        PROVE  solvalues[j] = ValueIn(solfile, LinesBefore(solfile, colnames[j], at + 1))
    <3>1. at \notin LinesFor(solfile, colnames[j])
      BY <1>4 DEF LinesFor, IsForColumn
    <3>2. LinesBefore(solfile, colnames[j], at + 1) = LinesBefore(solfile, colnames[j], at)
      BY <1>1, <1>3, <3>1, OtherLine
    <3> QED BY <1>1, <3>2 DEF SolInv
  <2>2. \A k \in 1..at : IsForColumn(solfile[k], colnames) => Len(solfile[k]) > 1
    BY <1>1, <1>4 DEF SolInv
  <2> QED BY <1>1, <1>2, <1>4, <2>1, <2>2 DEF SolInv
<1>5. ASSUME NEW j \in DOMAIN colnames,
             IsFor(solfile[at], colnames[j]), Len(solfile[at]) > 1,
             solvalues' = Assigned(j, Numbers[solfile[at][2]]),
             at' = at + 1, parsing' = parsing
      PROVE  SolInv'
  <2>1. solfile[at][2] \in DOMAIN Numbers
    BY <1>1, <1>2, <1>5 DEF IsSolution, IsForColumn
  <2>2. /\ solvalues' \in [DOMAIN colnames -> NumbersDenoted]
        /\ solvalues'[j] = Numbers[solfile[at][2]]
        /\ \A i \in DOMAIN colnames : i # j => solvalues'[i] = solvalues[i]
    BY <1>1, <1>5, <2>1 DEF Assigned, NumbersDenoted
  <2>3. ASSUME NEW i \in DOMAIN colnames
        PROVE  solvalues'[i] = ValueIn(solfile, LinesBefore(solfile, colnames[i], at + 1))
    <3>1. CASE i = j
      <4>1. at \in LinesFor(solfile, colnames[j])
        BY <1>1, <1>2, <1>5 DEF LinesFor
      <4> QED BY <1>1, <1>3, <2>2, <3>1, <4>1, OwnLine
    <3>2. CASE i # j
      <4>1. at \notin LinesFor(solfile, colnames[i])
        BY <1>2, <1>5, <3>2 DEF LinesFor, IsFor
      <4>2. LinesBefore(solfile, colnames[i], at + 1) = LinesBefore(solfile, colnames[i], at)
        BY <1>1, <1>3, <4>1, OtherLine
      <4> QED BY <1>1, <2>2, <3>2, <4>2 DEF SolInv
    <3> QED BY <3>1, <3>2
  <2>4. \A k \in 1..at : IsForColumn(solfile[k], colnames) => Len(solfile[k]) > 1
    BY <1>1, <1>5 DEF SolInv
  <2> QED BY <1>1, <1>2, <1>5, <2>2, <2>3, <2>4 DEF SolInv
<1>6. CASE parsing' = "assert" /\ at' = at /\ solvalues' = solvalues
  BY <1>1, <1>6 DEF SolInv
<1> QED BY <1>4, <1>5, <1>6 DEF ReadColumn

(* The file ends where all lines have been read.                           *)
LEMMA EndOfSolutionInv == SolInv /\ EndOfSolution => SolInv'
<1> SUFFICES ASSUME SolInv, EndOfSolution  PROVE SolInv'
  OBVIOUS
<1>1. /\ parsing \in {"skip", "read"} /\ parsing' = "done" /\ at > Len(solfile)
      /\ solfile' = solfile /\ at' = at /\ colnames' = colnames
      /\ solvalues' = solvalues /\ standsfor' = standsfor
  BY DEF EndOfSolution
<1>2. at = Len(solfile) + 1
  <2>1. Len(solfile) \in Nat
    BY LinesOfSolution DEF SolInv
  <2> QED BY <1>1, <2>1 DEF SolInv
<1> QED BY <1>1, <1>2 DEF SolInv

(* Every step keeps it.                                                    *)
LEMMA SolInvNext == SolInv /\ [SolNext]_solvars => SolInv'
<1> SUFFICES ASSUME SolInv, [SolNext]_solvars  PROVE SolInv'
  OBVIOUS
<1>1. CASE UNCHANGED solvars
  BY <1>1 DEF SolInv, solvars
<1> QED BY <1>1, SkipHeaderInv, ReadColumnInv, EndOfSolutionInv DEF SolNext

(* What was read at the end is what the file stands for.                   *)
LEMMA SolInvImplies == SolInv => SolutionRead
<1> SUFFICES ASSUME SolInv  PROVE SolutionRead
  OBVIOUS
<1>1. SolTypeOK
  BY DEF SolInv, SolTypeOK, NumbersDenoted
<1>2. ASSUME parsing = "done", NEW j \in DOMAIN colnames
      PROVE  solvalues[j] = standsfor[colnames[j]]
  <2>1. /\ IsSolution(solfile, colnames, standsfor) /\ at = Len(solfile) + 1
        /\ \A k \in 1..at - 1 : IsForColumn(solfile[k], colnames) => Len(solfile[k]) > 1
        /\ solvalues[j] = ValueIn(solfile, LinesBefore(solfile, colnames[j], at))
    BY <1>2 DEF SolInv
  <2>2. /\ Len(solfile) \in Nat /\ DOMAIN solfile = 1..Len(solfile)
        /\ LinesFor(solfile, colnames[j]) \subseteq 1..Len(solfile)
    BY <2>1, LinesOfSolution
  <2>3. \A k \in DOMAIN solfile : IsForColumn(solfile[k], colnames) => Len(solfile[k]) > 1
    BY <2>1, <2>2
  <2>4. standsfor[colnames[j]] = ValueFor(solfile, colnames[j])
    BY <2>1, <2>3 DEF IsSolution
  <2>5. ValueFor(solfile, colnames[j])
          = ValueIn(solfile, LinesBefore(solfile, colnames[j], Len(solfile) + 1))
    BY <2>2, AllLinesBefore
  <2> QED BY <2>1, <2>4, <2>5
<1> QED BY <1>1, <1>2 DEF SolutionRead, SolutionKept

(* A solution that was written is read back as the values of the columns   *)
(* that are left, for any number of columns, fixed columns, zeros and      *)
(* names within names, if no name of a column occurs again in its line;    *)
(* and so is every file that tells its header from its columns.            *)
THEOREM SolutionAlwaysRead == SolSpec => []SolutionRead
BY SolInvInit, SolInvNext, SolInvImplies, PTL DEF SolSpec

===============================================================================
