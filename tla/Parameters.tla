------------------------------ MODULE Parameters -------------------------------
(***************************************************************************)
(* The parameters of the bugger: main() registers them in a ParameterSet,  *)
(* reads assignments from the parameter file, then from the command line.  *)
(* A text is a string of a small set; what its conversions make of it are  *)
(* constants, and Cut is a name without its last letter.                   *)
(***************************************************************************)
EXTENDS Integers, Sequences, SequencesExt

CONSTANTS
  Options,          \* the parameters by name: type, least and largest value, default
  Ints,             \* texts that are numbers and their values
  Vectors,          \* texts that are lists of numbers and their values
  Cut,              \* what is left of names that lose a letter
  ParameterFiles,   \* their lines, or <<>> if the file cannot be read
  Arguments         \* lists of options that are left on the command line

ASSUME OptionsAssumption ==
  \A p \in DOMAIN Options :
    CASE Options[p].type = "number" -> Options[p].default \in Options[p].min..Options[p].max
      [] Options[p].type = "bool"   -> Options[p].default \in BOOLEAN
      [] OTHER -> Options[p].type \in {"vector", "string"}

ASSUME InputsAssumption ==
  \A lines \in ParameterFiles \cup Arguments : lines \in Seq(Range(lines))

VARIABLES
  input,     \* "file", "arguments", "done"
  file,      \* the lines of the parameter file
  args,      \* the unparsed options
  rest,      \* what is still to be read of the two
  storage,   \* the values of the parameters
  reports    \* the assignments that failed and why

parametervars == <<input, file, args, rest, storage, reports>>

ParametersInit ==
  /\ input = "file"
  /\ file \in ParameterFiles /\ args \in Arguments
  /\ rest = file
  /\ storage = [p \in DOMAIN Options |-> Options[p].default]
  /\ reports = {}

(***************************************************************************)
(* The values that an option takes from a text, none or one.               *)
(***************************************************************************)
NumberFrom(option, text) ==
  {Ints[t] : t \in {text} \cap DOMAIN Ints} \cap option.min..option.max

TruthFrom(text) == {b \in BOOLEAN : text = IF b THEN "1" ELSE "0"}

ListFrom(text) == {Vectors[t] : t \in {text} \cap DOMAIN Vectors}

(* A string is stored as it is. *)
Parsed(option, text) ==
  CASE option.type = "number" -> NumberFrom(option, text)
    [] option.type = "bool"   -> TruthFrom(text)
    [] option.type = "vector" -> ListFrom(text)
    [] option.type = "string" -> {text}

Value(name, text) == CHOOSE v \in Parsed(Options[name], text) : TRUE

(* parseParameter(): an unknown name or a bad value throws, nothing is set. *)
ParseParameter(name, text, line) ==
  IF name \notin DOMAIN Options
    THEN reports' = reports \cup {<<line, "unknown">>} /\ UNCHANGED storage
  ELSE IF Parsed(Options[name], text) = {}
    THEN reports' = reports \cup {<<line, "invalid">>} /\ UNCHANGED storage
  ELSE /\ storage' = [storage EXCEPT ![name] = Value(name, text)]
       /\ UNCHANGED reports

(* The name loses the letter before the equality sign, or the blank there. *)
NameIn(line) ==
  IF line.blank THEN line.name
  ELSE IF line.name \in DOMAIN Cut THEN Cut[line.name] ELSE ""

(* Lines without an equality sign, comments cut off, are no assignments.   *)
ReadLine ==
  /\ input = "file" /\ rest # <<>>
  /\ rest' = Tail(rest)
  /\ LET line == Head(rest)
     IN  IF line.assigns THEN ParseParameter(NameIn(line), line.value, line)
         ELSE UNCHANGED <<storage, reports>>
  /\ UNCHANGED <<input, file, args>>

(* The command line is forgotten if there was a file. *)
NextInput_File == IF file = <<>> THEN args ELSE <<>>

NextInput == args

EndOfFile ==
  /\ input = "file" /\ rest = <<>>
  /\ input' = "arguments" /\ rest' = NextInput
  /\ UNCHANGED <<file, args, storage, reports>>

ReadArgument ==
  /\ input = "arguments" /\ rest # <<>>
  /\ rest' = Tail(rest)
  /\ LET arg == Head(rest)
     IN  IF arg.assigns THEN ParseParameter(arg.name, arg.value, arg)
         ELSE reports' = reports \cup {<<arg, "value expected">>} /\ UNCHANGED storage
  /\ UNCHANGED <<input, file, args>>

Start ==
  /\ input = "arguments" /\ rest = <<>>
  /\ input' = "done"
  /\ UNCHANGED <<file, args, rest, storage, reports>>

ParametersNext == ReadLine \/ EndOfFile \/ ReadArgument \/ Start

ParametersSpec == ParametersInit /\ [][ParametersNext]_parametervars

-------------------------------------------------------------------------------
(* What a user reads in the two inputs, in their order. *)
Assignments == file \o args

Legal(a, p) == a.assigns /\ a.name = p /\ Parsed(Options[p], a.value) # {}

Meant(p) ==
  LET legal == {k \in DOMAIN Assignments : Legal(Assignments[k], p)}
  IN  IF legal = {} THEN Options[p].default
      ELSE Value(p, Assignments[CHOOSE k \in legal : \A j \in legal : j <= k].value)

(* Parameters never leave their ranges, whatever is assigned to them: the  *)
(* loop and the modifiers rely on it.                                      *)
ParametersTypeOK ==
  /\ input \in {"file", "arguments", "done"}
  /\ \A p \in DOMAIN Options :
       CASE Options[p].type = "number" -> storage[p] \in Options[p].min..Options[p].max
         [] Options[p].type = "bool"   -> storage[p] \in BOOLEAN
         [] OTHER -> TRUE

(* Where files write a blank before the equality sign, the last legal      *)
(* assignment to a parameter counts, with the command line after the file, *)
(* and bad ones in between change nothing.                                 *)
LastLegalCounts ==
  input = "done" /\ (\A k \in DOMAIN file : file[k].assigns => file[k].blank) =>
    \A p \in DOMAIN Options : storage[p] = Meant(p)

===============================================================================
