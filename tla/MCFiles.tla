-------------------------------- MODULE MCFiles --------------------------------
(***************************************************************************)
(* One run for the five modules of what is read from files and written to  *)
(* them.  They share no state: component says which of them a behaviour    *)
(* belongs to, its Init and Next are the ones below, and the variables of  *)
(* the others stay None.  Parameters, ScipInstance, SolFile and Startup    *)
(* are extended, so that proofs can name their properties.                 *)
(*                                                                         *)
(*   Mps         MpsFile: two columns and two rows with every kind of      *)
(*               domain and of sides, and files no writer of this program  *)
(*               produces: two pairs on a line, unordered rows, ranges on  *)
(*               all types, other bounds, broken ones.                     *)
(*   Sol         SolFile: three columns, one name within another, as the   *)
(*               writer lists them and in files with other headers,        *)
(*               unknown columns and blank lines.                          *)
(*   Scip        ScipInstance: problems of three columns and two rows,     *)
(*               removed columns and rows, SCIP files with negated         *)
(*               variables, in both interfaces.                            *)
(*   Settings    Parameters: one parameter of every type; files and        *)
(*               command lines of up to two assignments, legal, out of     *)
(*               range, of the wrong type and unknown.                     *)
(*   Startup     Startup: all combinations of options, of files that exist *)
(*               and of readers.                                           *)
(***************************************************************************)
EXTENDS Parameters, ScipInstance, SolFile, Startup, TLC

CONSTANTS MpsProblems, MpsFiles

VARIABLES
  component,
  pc, pos, keyword, p, meant, result   \* MpsFile; file is that of Parameters

Mps == INSTANCE MpsFile WITH Problems <- MpsProblems, Files <- MpsFiles

ASSUME FilesAssumption == Mps!ProblemsAssumption

-------------------------------------------------------------------------------
None == 0

(* The variables that no other component has. *)
mpsOnly      == <<pc, pos, keyword, p, meant, result>>
solOnly      == solvars
scipOnly     == scipvars
settingsOnly == <<input, args, rest, storage, reports>>

NoMps ==
  /\ pc = None /\ pos = None /\ keyword = None
  /\ p = None /\ meant = None /\ result = None

NoSol ==
  /\ parsing = "none" /\ solfile = None /\ at = None
  /\ colnames = None /\ solvalues = None /\ standsfor = None

NoScip ==
  /\ stage = "none" /\ exact = None /\ problem = None
  /\ scip = None /\ saved = None /\ first = None

NoSettings ==
  input = "none" /\ args = None /\ rest = None /\ storage = None /\ reports = None

NoStartup ==
  /\ step = "none" /\ options = None /\ disk = None /\ interface = None
  /\ enabled = None /\ targets = None /\ reference = None /\ instance = None

Init ==
  \/ /\ component = "mps" /\ Mps!Init
     /\ NoSol /\ NoScip /\ NoSettings /\ NoStartup
  \/ /\ component = "sol" /\ SolInit
     /\ NoMps /\ NoScip /\ NoSettings /\ NoStartup /\ file = None
  \/ /\ component = "scip" /\ ScipInit
     /\ NoMps /\ NoSol /\ NoSettings /\ NoStartup /\ file = None
  \/ /\ component = "settings" /\ ParametersInit
     /\ NoMps /\ NoSol /\ NoScip /\ NoStartup
  \/ /\ component = "startup" /\ StartupInit
     /\ NoMps /\ NoSol /\ NoScip /\ NoSettings /\ file = None

MpsStep ==
  /\ component = "mps" /\ Mps!Next
  /\ UNCHANGED <<component, solOnly, scipOnly, settingsOnly, startupvars>>

SolStep ==
  /\ component = "sol" /\ SolNext
  /\ UNCHANGED <<component, file, mpsOnly, scipOnly, settingsOnly, startupvars>>

ScipStep ==
  /\ component = "scip" /\ ScipNext
  /\ UNCHANGED <<component, file, mpsOnly, solOnly, settingsOnly, startupvars>>

SettingsStep ==
  /\ component = "settings" /\ ParametersNext
  /\ UNCHANGED <<component, mpsOnly, solOnly, scipOnly, startupvars>>

StartupStep ==
  /\ component = "startup" /\ StartupNext
  /\ UNCHANGED <<component, file, mpsOnly, solOnly, scipOnly, settingsOnly>>

Next == MpsStep \/ SolStep \/ ScipStep \/ SettingsStep \/ StartupStep

vars ==
  <<component, file, mpsOnly, solOnly, scipOnly, settingsOnly, startupvars>>

(* Every file is read to its end by one thread. *)
Spec == Init /\ [][Next]_vars /\ WF_vars(MpsStep \/ SolStep)

-------------------------------------------------------------------------------
(* A written problem is read back with the same columns, domains, rows,    *)
(* sides, coefficients and objective, equations are rows with two equal    *)
(* sides, and entries are handed over in the order the storage relies on.  *)
(* Other files are read as the problem they stand for, or refused.         *)
ProblemRead ==
  component = "mps" =>
    Mps!TypeOK /\ Mps!RoundTrip /\ Mps!EquationsAreEqual /\ Mps!ColumnsSorted

(* Both readers come to an end with every file. *)
FilesEnd ==
  <>(/\ component = "mps" => pc \in {"done", "fail", "assert"}
     /\ component = "sol" => parsing \in {"done", "assert"})

-------------------------------------------------------------------------------
Col(name, lb, ub, obj, flags) ==
  [name |-> name, lb |-> lb, ub |-> ub, obj |-> obj, flags |-> flags]

Row(name, lhs, rhs, flags) ==
  [name |-> name, lhs |-> lhs, rhs |-> rhs, flags |-> flags]

Problem(min, offset, c1, c2, r1, r2, coef) ==
  [min |-> min, offset |-> offset, cols |-> <<c1, c2>>, rows |-> <<r1, r2>>,
   coef |-> coef]

FirstCols ==
  {Col("x", d[1], d[2], 3, d[3]) :
     d \in {<<0, 0, {"LbInf", "UbInf"}>>, <<0, 0, {"UbInf"}>>, <<0, 3, {}>>,
            <<-2, 0, {"UbInf"}>>, <<0, -1, {"LbInf"}>>, <<2, 2, {}>>,
            <<0, 1, {"Integral"}>>, <<0, 0, {"Integral", "UbInf"}>>,
            <<2, 0, {"Integral", "UbInf"}>>, <<-2, 2, {"Integral"}>>,
            <<0, 0, {"Integral", "LbInf", "UbInf"}>>,
            <<0, 2, {"Integral", "LbInf"}>>, <<0, 0, {"Integral"}>>}}

SecondCols ==
  {Col("y", 0, 0, 0, {"UbInf"}), Col("y", -3, -1, 2, {}),
   Col("y", 0, 5, 0, {"Integral"}), Col("y", 1, 1, 4, {"Integral", "Fixed"})}

Rows(name) ==
  {Row(name, 0, 0, {"LhsInf", "RhsInf"}), Row(name, -1, 0, {"RhsInf"}),
   Row(name, 0, 4, {"LhsInf"}), Row(name, 2, 2, {"Equation"}),
   Row(name, -1, 3, {}), Row(name, 2, 2, {}), Row(name, 1, 2, {"Redundant"})}

MpsCoefs ==
  {[x \in (1..2) \X (1..2) |->
      IF x[2] = 2 /\ fixed THEN 0 ELSE c[x[1]][x[2]]] :
     c \in {<<<<1, 2>>, <<3, -1>>>>, <<<<1, 0>>, <<0, 1>>>>}, fixed \in BOOLEAN}

(* A column is written with its objective or with an entry. *)
ColumnListed(q, j) ==
  \/ "Fixed" \in q.cols[j].flags \/ q.cols[j].obj # 0
  \/ \E i \in DOMAIN q.rows : "Redundant" \notin q.rows[i].flags /\ q.coef[<<i, j>>] # 0

Consistent(q) ==
  \A j \in DOMAIN q.cols : "Fixed" \in q.cols[j].flags =>
    \A i \in DOMAIN q.rows : q.coef[<<i, j>>] = 0

AllProblems ==
  {q \in {Problem(c1.lb < 2, c1.ub - 1, c1, c2, r1, r2, coef) :
            c1 \in FirstCols, c2 \in SecondCols, r1 \in Rows("r"),
            r2 \in Rows("s"), coef \in MpsCoefs} : Consistent(q)}

MCMpsProblems == {q \in AllProblems : \A j \in 1..2 : ColumnListed(q, j)}

HandColumns ==
  <<<<"COLUMNS">>, <<"x", "s", 3, "r", 1>>, <<"x", "OBJ", 3>>,
    <<"y", "s", -1, "r", 2>>>>

HandRows(t1, t2) ==
  <<<<"NAME", "hand">>, <<"OBJSENSE">>, <<"MAX">>, <<"ROWS">>, <<"N", "OBJ">>,
    <<t1, "r">>, <<t2, "s">>>>

HandTail == <<<<"RHS">>, <<"RHS", "r", 2, "s", 4>>, <<"ENDATA">>>>

HandMeant(c1, c2, r1, r2) ==
  Problem(FALSE, 0, c1, c2, r1, r2,
          [x \in (1..2) \X (1..2) |-> <<<<1, 2>>, <<3, -1>>>>[x[1]][x[2]]])

x0 == Col("x", 0, 0, 3, {"UbInf"})
y0 == Col("y", 0, 0, 0, {"UbInf"})

(* Ranges of both signs on rows of all types. *)
RangeFile(type, val, row) ==
  [lines |-> HandRows(type, "L") \o HandColumns \o
             <<<<"RHS">>, <<"B", "r", 2, "s", 4>>,
               <<"RANGES">>, <<"RNG", "r", val>>, <<"ENDATA">>>>,
   meant |-> HandMeant(x0, y0, row, Row("s", 0, 4, {"LhsInf"}))]

RangeFiles ==
  {RangeFile("G", 3, Row("r", 2, 5, {})), RangeFile("G", -3, Row("r", 2, 5, {})),
   RangeFile("L", 3, Row("r", -1, 2, {})), RangeFile("L", -3, Row("r", -1, 2, {})),
   RangeFile("E", 3, Row("r", 2, 5, {})), RangeFile("E", -3, Row("r", -1, 2, {})),
   RangeFile("E", 0, Row("r", 2, 2, {"Equation"}))}

(* Bounds of an integral and of a continuous column. *)
BoundFile(lines, c1, c2) ==
  [lines |-> HandRows("G", "L") \o <<<<"COLUMNS">>, <<"m", "'MARKER'", "'INTORG'">>>> \o
             SubSeq(HandColumns, 2, 3) \o <<<<"m", "'MARKER'", "'INTEND'">>>> \o
             SubSeq(HandColumns, 4, 4) \o
             <<<<"RHS">>, <<"B", "r", 2>>, <<"B", "s", 4>>, <<"BOUNDS">>>> \o
             lines \o <<<<"ENDATA">>>>,
   meant |-> HandMeant(c1, c2, Row("r", 2, 0, {"RhsInf"}), Row("s", 0, 4, {"LhsInf"}))]

xi(lb, ub, inf) == Col("x", lb, ub, 3, {"Integral"} \cup inf)
yi(lb, ub, inf) == Col("y", lb, ub, 0, {"Integral"} \cup inf)

BoundFiles ==
  {BoundFile(<<>>, xi(0, 1, {}), y0),
   BoundFile(<<<<"LO", "B", "x", 2>>, <<"BV", "B", "y">>>>,
             xi(2, 0, {"UbInf"}), yi(0, 1, {})),
   BoundFile(<<<<"UP", "B", "x", 7>>, <<"LI", "B", "y", -2>>>>,
             xi(0, 7, {}), yi(-2, 0, {"UbInf"})),
   BoundFile(<<<<"UP", "B", "x", 7>>, <<"LO", "B", "x", 2>>, <<"UI", "B", "y", 3>>>>,
             xi(2, 7, {}), yi(0, 3, {})),
   BoundFile(<<<<"LO", "B", "x", 2>>, <<"UP", "B", "x", 7>>, <<"FR", "B", "y">>>>,
             xi(2, 7, {}), Col("y", 0, 0, 0, {"LbInf", "UbInf"})),
   BoundFile(<<<<"FR", "B", "x">>, <<"UP", "B", "x", 2>>>>,
             xi(0, 2, {"LbInf"}), y0)}

BrokenFiles ==
  {[lines |-> l, meant |-> <<>>] :
     l \in {SubSeq(HandRows("G", "L") \o HandColumns \o HandTail, 1, n) :
              n \in {2, 3, 6, 9, 11, 13}} \cup
           {HandRows("X", "L") \o HandColumns \o HandTail,
            HandRows("G", "L") \o <<<<"N", "r">>>> \o HandColumns \o HandTail,
            HandRows("G", "L") \o HandColumns \o <<<<"x", "r", 1>>>> \o HandTail,
            HandRows("G", "L") \o <<<<"COLUMNS">>, <<"m", "'MARKER'", "'INTEND'">>>>
              \o HandTail,
            HandRows("G", "L") \o HandColumns \o <<<<"y", "r">>>> \o HandTail}}

MCMpsFiles == RangeFiles \cup BoundFiles \cup BrokenFiles

-------------------------------------------------------------------------------
MCNames == {"x", "xx", "y"}

MCNumbers == "0" :> 0 @@ "2" :> 2 @@ "-1.5" :> -1

MCValues == DOMAIN MCNumbers

MCBegins == {<<"x", "x">>, <<"x", "xx">>, <<"xx", "xx">>, <<"y", "y">>}

MCOccurs == {<<"x", "xx">>}

MCModels ==
  {[j \in 1..3 |-> [name |-> names[j], fixed |-> j \in fixed, obj |-> "obj:1"]] :
     names \in {<<"x", "xx", "y">>, <<"xx", "y", "x">>}, fixed \in SUBSET (1..3)}

SolMeant(vx, vxx, vy) == "x" :> vx @@ "xx" :> vxx @@ "y" :> vy

SolFileOf(lines, vx, vxx, vy) ==
  [lines |-> lines, colnames |-> <<"x", "xx", "y">>, standsfor |-> SolMeant(vx, vxx, vy)]

MCSolFiles ==
  {SolFileOf(<<<<"solution", "status:", "optimal">>, <<"objective", "value:", "2">>,
            <<"y", "2", "(obj:1)">>, <<"x", "-1.5", "(obj:0)">>>>, -1, 0, 2),
   SolFileOf(<<<<"z", "2">>, <<>>, <<"xx", "2">>, <<>>, <<"z", "2">>,
            <<"y", "0">>, <<"x", "2">>>>, 2, 2, 0),
   SolFileOf(<<<<"x", "2">>, <<"y">>>>, 2, 0, 0),
   SolFileOf(<<<<"objective", "value:", "0">>>>, 0, 0, 0),
   SolFileOf(<<>>, 0, 0, 0)}

-------------------------------------------------------------------------------
MCInfinity == 9

MCExact == BOOLEAN

ScipRow(name, lhs, rhs, flags, coef) ==
  [name |-> name, lhs |-> lhs, rhs |-> rhs, flags |-> flags, coef |-> coef]

(* Numbers of infinite bounds have the sign of the infinity. *)
MCCols ==
  {Col("x", 0, 1, 2, {"Integral"}), Col("x", 0, 3, 0, {"Integral", "UbInf"}),
   Col("x", -9, 2, -1, {"LbInf", "ImplInt"}), Col("x", -1, 9, 1, {"LbInf", "UbInf"}),
   Col("x", 1, 1, 3, {"Fixed"})}

MCSides ==
  {[lhs |-> 1, rhs |-> 1, flags |-> {"Equation"}], [lhs |-> -1, rhs |-> 2, flags |-> {}],
   [lhs |-> -2, rhs |-> 0, flags |-> {"LhsInf"}], [lhs |-> 0, rhs |-> 9, flags |-> {"RhsInf"}],
   [lhs |-> 1, rhs |-> 2, flags |-> {"Redundant"}]}

(* Fixed columns have no entries. *)
ScipProblem(col, side) ==
  [min |-> "Integral" \in col.flags, offset |-> 2,
   cols |-> <<col, Col("y", -2, 2, 1, {}), Col("z", 0, 1, 0, {"Integral"})>>,
   rows |-> <<ScipRow("r", side.lhs, side.rhs, side.flags,
                  IF "Fixed" \in col.flags THEN <<<<3, 2>>>> ELSE <<<<1, -1>>, <<3, 2>>>>),
              ScipRow("s", 0, 3, {"RhsInf"}, <<<<2, 1>>, <<3, 1>>>>)>>,
   primal |-> <<1, 0, 1>>]

MCScipProblems == {ScipProblem(col, side) : col \in MCCols, side \in MCSides}

(* A file of SCIP: a number is what the interface makes of it. *)
MCNumber(ex, x) ==
  IF ex THEN [val |-> x, isinf |-> x \in {-9, 9}] ELSE x

MCVar(ex, name, lb, ub, type) ==
  [name |-> name, lb |-> MCNumber(ex, lb), ub |-> MCNumber(ex, ub), obj |-> 1, type |-> type]

MCModel(ex, sides, negated, type) ==
  [model |->
     [min |-> TRUE, offset |-> 0,
      vars |-> <<MCVar(ex, "x", 0, 1, "BINARY"), MCVar(ex, "y", 0, 1, "BINARY"),
                 MCVar(ex, "z", -9, 9, type)>>,
      conss |-> <<[name |-> "c", lhs |-> MCNumber(ex, sides[1]),
                   rhs |-> MCNumber(ex, sides[2]),
                   terms |-> <<[var |-> 1, val |-> 2, negated |-> 1 \in negated],
                               [var |-> 2, val |-> -1, negated |-> 2 \in negated],
                               [var |-> 3, val |-> 1, negated |-> FALSE]>>]>>],
   sol |-> {<<"y", 1>>}]

MCScipModels ==
  [ex \in BOOLEAN |->
     {MCModel(ex, sides, negated, type) :
        sides \in {<<1, 2>>, <<1, 1>>, <<-9, 1>>, <<0, 9>>}, negated \in SUBSET {1, 2},
        type \in {"CONTINUOUS", "INTEGER"}}]

-------------------------------------------------------------------------------
Number(min, max, default) == [type |-> "number", min |-> min, max |-> max, default |-> default]

MCOptions ==
  "mode" :> Number(-1, 1, -1) @@ "nbatches" :> Number(0, 3, 2) @@
  "passcodes" :> [type |-> "vector", default |-> <<>>] @@
  "side.enabled" :> [type |-> "bool", default |-> TRUE] @@
  "debug_filename" :> [type |-> "string", default |-> ""]

MCInts == "-1" :> -1 @@ "0" :> 0 @@ "1" :> 1 @@ "2" :> 2 @@ "4" :> 4

MCVectors == "" :> <<>> @@ "-1" :> <<-1>> @@ "0" :> <<0>> @@ "1" :> <<1>> @@ "2" :> <<2>>
             @@ "4" :> <<4>> @@ "2 3" :> <<2, 3>>

MCCut == "mode" :> "mod" @@ "nbatches" :> "nbatche"

MCTexts == {"-1", "1", "4", "2 3", "b"}

Line(name, blank, value) == [name |-> name, blank |-> blank, value |-> value, assigns |-> TRUE]

MCRemark == [name |-> "#", blank |-> TRUE, value |-> "", assigns |-> FALSE]

MCLines == {Line(n, TRUE, v) : n \in DOMAIN MCOptions \cup {"mod"}, v \in MCTexts}

MCParameterFiles ==
  {<<>>, <<Line("mode", FALSE, "0"), Line("nbatches", TRUE, "1")>>} \cup
  {<<l, MCRemark>> : l \in MCLines} \cup
  {<<Line("nbatches", TRUE, "1"), l>> : l \in MCLines}

MCArguments ==
  {<<>>, <<MCRemark>>} \cup
  {<<l, Line("mode", TRUE, "4")>> : l \in MCLines} \cup
  {<<Line("side.enabled", TRUE, "0"), l>> : l \in MCLines}

-------------------------------------------------------------------------------
MCFileOptions ==
  [problem : {"", "p"}, param : {"", "a"}, settings : {"", "s"},
   target : {"", "t"}, solution : {"", "unknown", "infeasible", "unbounded", "x"}]

Readers(general) == IF general THEN SUBSET {"solver", "general"} ELSE SUBSET {"solver"}

(* SolParser reads every file; a parameter file is read line by line. *)
MCDisks ==
  {[f \in files |->
      CASE f = "p" -> rp [] f = "s" -> rs [] f = "t" -> rt
        [] f = "x" -> rx \cup {"general"} [] f = "a" -> {}] :
     files \in {F \in SUBSET {"a", "p", "s", "t", "x"} : Cardinality(F) >= 4},
     rp \in Readers(TRUE), rs \in Readers(FALSE), rt \in Readers(FALSE),
     rx \in Readers(FALSE)}

MCInterfaces == {"scip", "soplex", "default"}
===============================================================================
