-------------------------------- MODULE SolFile --------------------------------
(***************************************************************************)
(* SolWriter<REAL>::writeSol and SolParser<REAL>::readSol.  A solution     *)
(* file is a sequence of lines, a line the sequence of its words; of words *)
(* only the names and numbers they are matter, and which names they hold.  *)
(* A line that is indented begins with an empty word.                      *)
(***************************************************************************)
EXTENDS AscendingLists, SequencesExt

CONSTANTS
  Names,      \* names of columns
  Numbers,    \* the numbers that words denote
  Begins,     \* pairs of names and words: the word begins with the name
  Occurs,     \* pairs of names and words: the name occurs after the start
  Models,     \* problems: sequences of columns [name, fixed, obj]
  SolValues,  \* words for values of the columns
  SolFiles    \* files of other origin, with the columns they are read for

VARIABLES
  parsing,    \* "skip", "read", "done", "assert"
  solfile,    \* the lines
  at,         \* the line to read next
  colnames,   \* the columns of the problem the solution is read for
  solvalues,  \* their values
  standsfor   \* the values the file stands for, by name

solvars == <<parsing, solfile, at, colnames, solvalues, standsfor>>

-------------------------------------------------------------------------------
(***************************************************************************)
(* The writer lists the nonzero values of the active columns.              *)
(***************************************************************************)
Header == <<"=obj=", "number">>

Written(m, x) == {j \in DOMAIN m : ~m[j].fixed /\ Numbers[x[j]] # 0}

WriteSol(m, x) ==
  LET listed == Ascending(Written(m, x))
  IN  <<Header>> \o
      [k \in DOMAIN listed |->
         <<m[listed[k]].name, x[listed[k]], m[listed[k]].obj>>]

(* The problem as it is read back has no fixed columns. *)
Unfixed(m) == {j \in DOMAIN m : ~m[j].fixed}

ActiveNames(m) ==
  LET listed == Ascending(Unfixed(m)) IN [k \in DOMAIN listed |-> m[listed[k]].name]

Meaning(m, x) ==
  [n \in {m[j].name : j \in Unfixed(m)} |->
     Numbers[x[CHOOSE j \in DOMAIN m : m[j].name = n]]]

-------------------------------------------------------------------------------
(***************************************************************************)
(* The parser.                                                             *)
(***************************************************************************)
(* strline.rfind( colname ) == 0: the last occurrence starts the line.     *)
StartsWith(words, name) ==
  /\ words # <<>> /\ <<name, words[1]>> \in Begins
  /\ \A k \in DOMAIN words : <<name, words[k]>> \notin Occurs
  /\ \A k \in 2..Len(words) : <<name, words[k]>> \notin Begins

StartsColumn(words, names) == \E j \in DOMAIN names : StartsWith(words, names[j])

(* The first word is looked up. *)
IsFor(words, name) == words # <<>> /\ words[1] = name

IsForColumn(words, names) == \E j \in DOMAIN names : IsFor(words, names[j])

SolInit ==
  /\ \/ \E m \in Models : \E x \in [DOMAIN m -> SolValues] :
          /\ solfile = WriteSol(m, x)
          /\ colnames = ActiveNames(m) /\ standsfor = Meaning(m, x)
     \/ \E f \in SolFiles :
          solfile = f.lines /\ colnames = f.colnames /\ standsfor = f.standsfor
  /\ parsing = "skip" /\ at = 1
  /\ solvalues = [j \in DOMAIN colnames |-> 0]

(* skip_header(): lines are skipped until one starts with a column.  Empty *)
(* lines are none of these, and none of the lines that are read.           *)
SkipHeader ==
  /\ parsing = "skip" /\ at <= Len(solfile)
  /\ IF StartsColumn(solfile[at], colnames)
       THEN parsing' = "read" /\ UNCHANGED at
       ELSE at' = at + 1 /\ UNCHANGED parsing
  /\ UNCHANGED <<solfile, colnames, solvalues, standsfor>>

(* The value is that of the last column. *)
Assigned_Last(j, value) == [solvalues EXCEPT ![Len(colnames)] = value]

Assigned(j, value) == [solvalues EXCEPT ![j] = value]

(* A line of an unknown column is skipped with a warning; one of a known   *)
(* column is asserted to have a value.                                     *)
ReadColumn ==
  /\ parsing = "read" /\ at <= Len(solfile)
  /\ LET words == solfile[at]
     IN  \/ /\ ~IsForColumn(words, colnames)
            /\ at' = at + 1 /\ UNCHANGED <<parsing, solvalues>>
         \/ \E j \in DOMAIN colnames :
              /\ IsFor(words, colnames[j]) /\ Len(words) > 1
              /\ solvalues' = Assigned(j, Numbers[words[2]])
              /\ at' = at + 1 /\ UNCHANGED parsing
         \/ /\ IsForColumn(words, colnames) /\ Len(words) = 1
            /\ parsing' = "assert" /\ UNCHANGED <<at, solvalues>>
  /\ UNCHANGED <<solfile, colnames, standsfor>>

(* The header has to end. *)
EndOfSolution_Reading ==
  /\ parsing = "read" /\ at > Len(solfile) /\ parsing' = "done"
  /\ UNCHANGED <<solfile, at, colnames, solvalues, standsfor>>

(* The end of the file within the header leaves all values zero. *)
EndOfSolution ==
  /\ parsing \in {"skip", "read"} /\ at > Len(solfile) /\ parsing' = "done"
  /\ UNCHANGED <<solfile, at, colnames, solvalues, standsfor>>

SolNext == SkipHeader \/ ReadColumn \/ EndOfSolution

SolSpec == SolInit /\ [][SolNext]_solvars

-------------------------------------------------------------------------------
(***************************************************************************)
(* What names, words and files are.                                        *)
(***************************************************************************)
AreNames(names) ==
  /\ names \in Seq(Names)
  /\ \A j, k \in DOMAIN names : names[j] = names[k] => j = k

(* A name begins itself and does not occur in itself again. *)
ASSUME WordsAssumption ==
  /\ 0 \in {Numbers[w] : w \in DOMAIN Numbers}
  /\ SolValues \subseteq DOMAIN Numbers
  /\ Header[1] \notin Names
  /\ \A n \in Names : <<n, n>> \in Begins \ Occurs

(* No name of a column occurs in its value or its objective: skip_header() *)
(* takes such a line for one of the header if it is the first.             *)
NameOnce(col) ==
  \A w \in SolValues \cup {col.obj} : <<col.name, w>> \notin Begins \cup Occurs

ASSUME ModelsAssumption ==
  \A m \in Models :
    /\ m \in Seq(Range(m))
    /\ AreNames([j \in DOMAIN m |-> m[j].name])
    /\ \A j \in DOMAIN m : m[j].fixed \in BOOLEAN /\ NameOnce(m[j])

(* The lines of a column, and the value of the last one. *)
LinesFor(lines, name) == {k \in DOMAIN lines : IsFor(lines[k], name)}

ValueFor(lines, name) ==
  LET found == LinesFor(lines, name)
      last  == CHOOSE k \in found : \A i \in found : i <= k
  IN  IF found = {} THEN 0 ELSE Numbers[lines[last][2]]

(* The header ends at the first line of a column or earlier, values are    *)
(* numbers, and a file with a value for all columns it names stands for    *)
(* what the last lines of the columns say.                                 *)
IsSolution(lines, names, values) ==
  /\ AreNames(names)
  /\ lines \in Seq(Range(lines))
  /\ \A k \in DOMAIN lines :
       /\ lines[k] \in Seq(Range(lines[k]))
       /\ IsForColumn(lines[k], names) =>
            /\ \E i \in 1..k : StartsColumn(lines[i], names)
            /\ Len(lines[k]) > 1 => lines[k][2] \in DOMAIN Numbers
  /\ (\A k \in DOMAIN lines : IsForColumn(lines[k], names) => Len(lines[k]) > 1) =>
       \A j \in DOMAIN names : values[names[j]] = ValueFor(lines, names[j])

ASSUME SolFilesAssumption ==
  \A f \in SolFiles : IsSolution(f.lines, f.colnames, f.standsfor)

-------------------------------------------------------------------------------
(* What a parser between two lines is.                                     *)
SolTypeOK ==
  /\ parsing \in {"skip", "read", "done", "assert"}
  /\ at \in 1..Len(solfile) + 1
  /\ solvalues \in [DOMAIN colnames -> {Numbers[w] : w \in DOMAIN Numbers}]

(* A solution that was read has the values the file stands for, whatever   *)
(* header, unknown columns, order and zeros the file comes with.           *)
SolutionKept ==
  parsing = "done" => \A j \in DOMAIN colnames : solvalues[j] = standsfor[colnames[j]]

(* Both, while a solution is read. *)
SolutionRead == parsing # "none" => SolTypeOK /\ SolutionKept

===============================================================================
