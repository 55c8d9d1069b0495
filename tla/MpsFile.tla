-------------------------------- MODULE MpsFile --------------------------------
(***************************************************************************)
(* MpsWriter<REAL>::writeProb and MpsParser<REAL>.  A file is a sequence   *)
(* of lines, a line the sequence of its words; numbers are the numbers     *)
(* they denote, column widths and comments are left out.  The writer is an *)
(* operator, the parser a state machine that reads one line per step, in   *)
(* the section its keyword names.  meant is the problem the file stands    *)
(* for.                                                                    *)
(***************************************************************************)
EXTENDS SparseStorage

CONSTANTS
  Problems,  \* problems to write
  Files      \* other files, with the problem they stand for, or <<>> if
             \* they are to be refused

(* Columns and rows are sequences of records with sets of flags, coef maps *)
(* pairs of row and column numbers to integers.                            *)
ProblemsAssumption ==
  \A p \in Problems :
    /\ DOMAIN p.coef = (1..Len(p.rows)) \X (1..Len(p.cols))
    /\ \A i \in DOMAIN p.rows :
         {"LhsInf", "RhsInf"} \cap p.rows[i].flags = {} =>
           p.rows[i].lhs <= p.rows[i].rhs

VARIABLES
  pc,       \* "read", "build", "done", "fail", "assert"
  file, pos,  \* the lines, and the one to read next
  keyword,  \* the section
  p,        \* the members of the parser
  meant,    \* the problem the file stands for
  result    \* the problem that was read

vars == <<pc, file, pos, keyword, p, meant, result>>

Redundant(row) == "Redundant" \in row.flags
Inactive(col)  == "Fixed" \in col.flags
Integral(col)  == "Integral" \in col.flags
Finite(x, inf) == inf \notin x.flags

When(test, lines) == IF test THEN lines ELSE <<>>

(***************************************************************************)
(* The writer.                                                             *)
(***************************************************************************)
RowType(row) ==
  CASE ~Finite(row, "LhsInf") /\ ~Finite(row, "RhsInf") -> "N"
    [] Finite(row, "LhsInf") /\ ~Finite(row, "RhsInf") -> "G"
    [] ~Finite(row, "LhsInf") /\ Finite(row, "RhsInf") -> "L"
    [] OTHER -> "E"

Ranged(row) ==
  /\ Finite(row, "LhsInf") /\ Finite(row, "RhsInf")
  /\ "Equation" \notin row.flags /\ ~Redundant(row)

WriteRows(q) ==
  <<<<"ROWS">>, <<"N", "OBJ">>>> \o
  FlattenSeq([i \in DOMAIN q.rows |->
    When(~Redundant(q.rows[i]), <<<<RowType(q.rows[i]), q.rows[i].name>>>>)])

(* A column is listed with its entries only, so one without any is not.    *)
WriteColumn(q, j) ==
  LET listed == SelectSeq([i \in DOMAIN q.rows |-> i], LAMBDA i :
                  q.coef[<<i, j>>] # 0 /\ ~Redundant(q.rows[i]))
  IN  When(q.cols[j].obj # 0, <<<<q.cols[j].name, "OBJ", q.cols[j].obj>>>>) \o
      [k \in DOMAIN listed |->
         <<q.cols[j].name, q.rows[listed[k]].name, q.coef[<<listed[k], j>>]>>]

(* Continuous columns first, then the integral ones between markers. *)
WriteColumns(q) ==
  LET listed(integral) == FlattenSeq([j \in DOMAIN q.cols |->
        When(~Inactive(q.cols[j]) /\ Integral(q.cols[j]) = integral, WriteColumn(q, j))])
      marker(word) == <<"MARK0000", "'MARKER'", word>>
  IN  <<<<"COLUMNS">>>> \o listed(FALSE) \o
      When(\E j \in DOMAIN q.cols : Integral(q.cols[j]),
           <<marker("'INTORG'")>> \o listed(TRUE) \o <<marker("'INTEND'")>>)

WrittenSide(row) == IF Finite(row, "LhsInf") THEN row.lhs ELSE row.rhs

WriteRhs(q) ==
  <<<<"RHS">>>> \o When(q.offset # 0, <<<<"B", "OBJ", -q.offset>>>>) \o
  FlattenSeq([i \in DOMAIN q.rows |->
    LET row == q.rows[i]
    IN  When(~Redundant(row) /\ RowType(row) # "N" /\ WrittenSide(row) # 0,
             <<<<"B", row.name, WrittenSide(row)>>>>)])

WriteRanges(q) ==
  When(\E i \in DOMAIN q.rows : Ranged(q.rows[i]),
    <<<<"RANGES">>>> \o
    FlattenSeq([i \in DOMAIN q.rows |->
      LET row == q.rows[i]
      IN  When(Ranged(row) /\ row.rhs # row.lhs,
               <<<<"B", row.name, row.rhs - row.lhs>>>>)]))

WriteBound(col) ==
  LET lbinf == ~Finite(col, "LbInf")
      ubinf == ~Finite(col, "UbInf")
  IN  IF ~lbinf /\ ~ubinf /\ col.lb = col.ub
        THEN <<<<"FX", "BND", col.name, col.lb>>>>
        ELSE (IF lbinf THEN <<<<"MI", "BND", col.name>>>>
              ELSE When(col.lb # 0, <<<<"LO", "BND", col.name, col.lb>>>>)) \o
             (IF ubinf THEN <<<<"PL", "BND", col.name>>>>
              ELSE <<<<"UP", "BND", col.name, col.ub>>>>)

WriteBounds(q) ==
  <<<<"BOUNDS">>>> \o
  FlattenSeq([j \in DOMAIN q.cols |->
    When(~Inactive(q.cols[j]), WriteBound(q.cols[j]))])

Write(q) ==
  <<<<"NAME", "x">>, <<"OBJSENSE">>, <<IF q.min THEN "MIN" ELSE "MAX">>>> \o
  WriteRows(q) \o WriteColumns(q) \o WriteRhs(q) \o WriteRanges(q) \o
  WriteBounds(q) \o <<<<"ENDATA">>>>

-------------------------------------------------------------------------------
(***************************************************************************)
(* The parser.                                                             *)
(***************************************************************************)
Sections == {"OBJSENSE", "ROWS", "COLUMNS", "RHS", "RANGES", "BOUNDS"}

EmptyParser ==
  [rows |-> <<>>, hasobj |-> FALSE, index |-> <<>>, cols |-> <<>>,
   entries |-> <<>>, coeffobj |-> <<>>, colstart |-> 0, integral |-> FALSE,
   offset |-> 0, min |-> TRUE, lbset |-> {}, ubset |-> {}]

Init ==
  /\ \/ \E q \in Problems : file = Write(q) /\ meant = q
     \/ \E f \in Files : file = f.lines /\ meant = f.meant
  /\ pc = "read" /\ pos = 1 /\ keyword = "none"
  /\ p = EmptyParser /\ result = <<>>

line == file[pos]

(* checkFirstWord(): the line starts a section.  NAME does not. *)
StartsSection == line[1] \in Sections \cup {"ENDATA"}

InSection(section) == pc = "read" /\ keyword = section /\ pos <= Len(file)

Continue(q) ==
  /\ p' = q /\ pos' = pos + 1
  /\ UNCHANGED <<pc, file, keyword, meant, result>>

Stop(how) ==
  /\ pc' = how /\ pos' = pos + 1
  /\ UNCHANGED <<file, keyword, p, meant, result>>

(* The section that starts reads the following lines; ENDATA ends them. *)
Enter(q) ==
  /\ p' = q /\ pos' = pos + 1
  /\ IF line[1] = "ENDATA" THEN pc' = "build" /\ UNCHANGED keyword
                           ELSE keyword' = line[1] /\ UNCHANGED pc
  /\ UNCHANGED <<file, meant, result>>

ParseDefault ==
  /\ InSection("none")
  /\ IF StartsSection THEN Enter(p) ELSE Continue(p)

ParseObjsense ==
  /\ InSection("OBJSENSE")
  /\ IF StartsSection THEN Enter(p)
     ELSE Continue([p EXCEPT !.min = IF line[1] = "MIN" THEN TRUE
                                     ELSE IF line[1] = "MAX" THEN FALSE ELSE @])

Named(f, name, k) == [x \in DOMAIN f \cup {name} |-> IF x = name THEN k ELSE f[x]]

RowFlagsOf(type) ==
  CASE type = "G" -> {"RhsInf"} [] type = "L" -> {"LhsInf"}
    [] type = "E" -> {"Equation"} [] type = "N" -> {"LhsInf", "RhsInf"}

(* A free row after the objective is kept, with the type of an L row. *)
NewRow(type, name) ==
  [name |-> name, lhs |-> 0, rhs |-> 0, flags |-> RowFlagsOf(type),
   type |-> IF type = "N" THEN "L" ELSE type]

ParseRows ==
  /\ InSection("ROWS")
  /\ IF StartsSection
       THEN Enter(IF p.hasobj THEN p
                  ELSE [p EXCEPT !.index = Named(@, "artificial_empty_objective", -1)])
     ELSE IF line[1] \notin {"N", "G", "E", "L"} \/ line[2] \in DOMAIN p.index
       THEN Stop("fail")
     ELSE IF line[1] = "N" /\ ~p.hasobj
       THEN Continue([p EXCEPT !.hasobj = TRUE, !.index = Named(@, line[2], -1)])
     ELSE Continue([p EXCEPT !.rows = Append(@, NewRow(line[1], line[2])),
                             !.index = Named(@, line[2], Len(p.rows))])

(* The entries of the last column are put in the order of their rows. *)
SortedFrom(entries, from) ==
  SubSeq(entries, 1, from) \o
  SortSeq(SubSeq(entries, from + 1, Len(entries)), LAMBDA a, b : a[2] < b[2])

(* Integral columns are binary until the bounds say otherwise. *)
NewColumn(name, integral) ==
  [name |-> name, lb |-> 0, ub |-> IF integral THEN 1 ELSE 0, obj |-> 0,
   flags |-> IF integral THEN {"Integral"} ELSE {"UbInf"}]

SortLast(q) ==
  IF Len(q.cols) > 1 THEN [q EXCEPT !.entries = SortedFrom(@, q.colstart)] ELSE q

(* The entries before the new column are sorted only if they have to be. *)
AddColumn(q, name) ==
  LET next == SortLast([q EXCEPT !.cols = Append(@, NewColumn(name, q.integral))])
  IN  [next EXCEPT !.colstart = Len(next.entries)]

(* A pair of the objective goes to its coefficients, others to the matrix. *)
AddEntry(q, name, val) ==
  LET col == Len(q.cols) - 1
      row == q.index[name]
  IN  IF row >= 0 THEN [q EXCEPT !.entries = Append(@, <<col, row, val>>)]
                  ELSE [q EXCEPT !.coeffobj = Append(@, <<col, val>>)]

(* The one or two pairs of name and number of a line, applied in order. *)
Pairwise(q, op(_, _, _)) ==
  LET once == op(q, line[2], line[3])
  IN  IF Len(line) = 5 THEN op(once, line[4], line[5]) ELSE once

PairLine == Len(line) \in {3, 5}

ParseCols ==
  /\ InSection("COLUMNS")
  /\ IF StartsSection THEN Enter(SortLast(p))
     ELSE IF line[2] = "'MARKER'"
       THEN IF line[3] = IF p.integral THEN "'INTEND'" ELSE "'INTORG'"
              THEN Continue([p EXCEPT !.integral = ~@]) ELSE Stop("fail")
     ELSE LET known == \E j \in DOMAIN p.cols : p.cols[j].name = line[1]
              same  == p.cols # <<>> /\ Last(p.cols).name = line[1]
          IN  IF ~PairLine \/ (known /\ ~same) THEN Stop("fail")
              ELSE Continue(Pairwise(IF same THEN p ELSE AddColumn(p, line[1]),
                                     AddEntry))

(* Sides are set for the type of the row; the objective takes an offset. *)
AddRhs(q, name, val) ==
  LET i == q.index[name] + 1
  IN  IF i = 0 THEN [q EXCEPT !.offset = -val]
      ELSE [q EXCEPT
              !.rows[i].rhs   = IF q.rows[i].type = "G" THEN @ ELSE val,
              !.rows[i].lhs   = IF q.rows[i].type = "L" THEN @ ELSE val,
              !.rows[i].flags = @ \ (IF q.rows[i].type = "G" THEN {"LhsInf"}
                                     ELSE IF q.rows[i].type = "L" THEN {"RhsInf"}
                                     ELSE {"LhsInf", "RhsInf"})]

(* A line of the set RHS does not start the section again. *)
ParseRhs ==
  /\ InSection("RHS")
  /\ IF StartsSection /\ line[1] # "RHS" THEN Enter(p)
     ELSE IF PairLine THEN Continue(Pairwise(p, AddRhs)) ELSE Stop("fail")

Abs(x) == IF x < 0 THEN -x ELSE x

(* An equation with a range stays marked as one. *)
AddRange_Equation(q, name, val) ==
  LET i   == q.index[name] + 1
      row == q.rows[i]
  IN  [q EXCEPT !.rows[i].lhs = IF val < 0 THEN @ + val ELSE @,
                !.rows[i].rhs = IF val > 0 THEN @ + val ELSE @,
                !.rows[i].flags = IF row.type = "E" THEN @ ELSE @ \ {"LhsInf", "RhsInf"}]

(* A range opens the infinite side, or an equation to the side of its sign.*)
AddRange(q, name, val) ==
  LET i   == q.index[name] + 1
      row == q.rows[i]
  IN  [q EXCEPT !.rows[i] =
         CASE row.type = "G" ->
                [row EXCEPT !.rhs = row.lhs + Abs(val), !.flags = @ \ {"RhsInf"}]
           [] row.type = "L" ->
                [row EXCEPT !.lhs = row.rhs - Abs(val), !.flags = @ \ {"LhsInf"}]
           [] row.type = "E" /\ val > 0 ->
                [row EXCEPT !.rhs = @ + val, !.flags = @ \ {"Equation"}]
           [] row.type = "E" /\ val < 0 ->
                [row EXCEPT !.lhs = @ + val, !.flags = @ \ {"Equation"}]
           [] OTHER -> row]

ParseRanges ==
  /\ InSection("RANGES")
  /\ IF StartsSection /\ line[1] # "RANGES" THEN Enter(p)
     ELSE IF PairLine THEN Continue(Pairwise(p, AddRange)) ELSE Stop("fail")

(* Which bounds a line sets, and whether it makes the column integral. *)
SetsLb    == line[1] \in {"LO", "FX", "MI", "BV", "LI", "FR"}
SetsUb    == line[1] \in {"UP", "FX", "PL", "BV", "UI", "FR"}
MakesInt  == line[1] \in {"BV", "LI", "UI"}
NoNumber  == line[1] \in {"MI", "PL", "BV", "FR"}

BoundWords == {"UP", "LO", "FX", "MI", "PL", "BV", "LI", "UI", "FR"}

(* A bound without a number: binary, or infinite on the sides that are set.*)
AddInfinite(q, j) ==
  IF line[1] = "BV"
    THEN [q EXCEPT !.cols[j].lb = 0, !.cols[j].ub = 1,
                   !.cols[j].flags = (@ \ {"UbInf"}) \cup {"Integral"}]
    ELSE [q EXCEPT !.cols[j].flags =
            @ \cup (IF SetsLb THEN {"LbInf"} ELSE {})
              \cup (IF SetsUb THEN {"UbInf"} ELSE {})]

(* A bound with a number.  The default upper bound of an integral column   *)
(* is dropped when only a lower one is given.                              *)
AddDomain(q, j, val) ==
  LET lbset == q.lbset \cup IF SetsLb THEN {j} ELSE {}
      ubset == q.ubset \cup IF SetsUb THEN {j} ELSE {}
      col   == q.cols[j]
      int   == MakesInt \/ Integral(col)
      drop  == int /\ ~SetsUb /\ j \notin ubset
  IN  [q EXCEPT !.lbset = lbset, !.ubset = ubset,
         !.cols[j] = [col EXCEPT
           !.lb = IF SetsLb THEN val ELSE IF int /\ j \notin lbset THEN 0 ELSE @,
           !.ub = IF SetsUb THEN val ELSE @,
           !.flags = ((@ \ ((IF SetsLb THEN {"LbInf"} ELSE {}) \cup
                            (IF SetsUb THEN {"UbInf"} ELSE {})))
                      \cup (IF drop THEN {"UbInf"} ELSE {}))
                      \cup (IF int THEN {"Integral"} ELSE {})]]

ParseBounds ==
  /\ InSection("BOUNDS")
  /\ IF StartsSection THEN Enter(p)
     ELSE IF line[1] \notin BoundWords THEN Stop("fail")
     ELSE LET named == {j \in DOMAIN p.cols : p.cols[j].name = line[3]}
          IN  IF named = {} THEN Stop("assert")
              ELSE LET j == CHOOSE x \in named : TRUE
                   IN  IF NoNumber THEN Continue(AddInfinite(p, j))
                       ELSE IF Len(line) = 4 THEN Continue(AddDomain(p, j, line[4]))
                       ELSE Stop("fail")

(* A file that ends within a section is refused. *)
EndOfFile == pc = "read" /\ pos > Len(file) /\ Stop("fail")

(* readProb(): objective, matrix by columns, domains and names. *)
ReadProb ==
  /\ pc = "build" /\ pc' = "done"
  /\ LET fits  == BuildFits(p.entries, Len(p.cols), 2, 4)
         store == Build(p.entries, Len(p.cols), Len(p.rows), 2, 4)
         obj(j) == LET of == SelectSeq(p.coeffobj, LAMBDA x : x[1] = j - 1)
                   IN  IF of = <<>> THEN 0 ELSE Last(of)[2]
     IN  result' =
           [min |-> p.min, offset |-> p.offset, rows |-> p.rows,
            fits |-> fits, sorted |-> BuildSorted(p.entries),
            cols |-> [j \in DOMAIN p.cols |-> [p.cols[j] EXCEPT !.obj = obj(j)]],
            coef |-> IF fits THEN Triplets(store) ELSE {}]
  /\ UNCHANGED <<file, pos, keyword, p, meant>>

Next ==
  \/ ParseDefault \/ ParseObjsense \/ ParseRows \/ ParseCols \/ ParseRhs
  \/ ParseRanges \/ ParseBounds \/ EndOfFile \/ ReadProb

(* The file is read to its end by one thread. *)
Spec == Init /\ [][Next]_vars /\ WF_vars(Next)

-------------------------------------------------------------------------------
TypeOK ==
  /\ pc \in {"read", "build", "done", "fail", "assert"}
  /\ pos \in 1..Len(file) + 2
  /\ keyword \in Sections \cup {"none"}
  /\ \A i \in DOMAIN p.rows :
       p.rows[i].flags \subseteq {"LhsInf", "RhsInf", "Equation"}
  /\ \A j \in DOMAIN p.cols :
       p.cols[j].flags \subseteq {"Integral", "LbInf", "UbInf"}
  /\ \A k \in DOMAIN p.entries :
       p.entries[k][1] < Len(p.cols) /\ p.entries[k][2] < Len(p.rows)

ColumnFacts(c) ==
  [name |-> c.name, obj |-> c.obj, int |-> Integral(c),
   lb |-> IF Finite(c, "LbInf") THEN {c.lb} ELSE {},
   ub |-> IF Finite(c, "UbInf") THEN {c.ub} ELSE {}]

RowFacts(x) ==
  [name |-> x.name,
   lhs |-> IF Finite(x, "LhsInf") THEN {x.lhs} ELSE {},
   rhs |-> IF Finite(x, "RhsInf") THEN {x.rhs} ELSE {}]

(* What a problem says about its active columns and irredundant rows. *)
Facts(q) ==
  LET cols == {j \in DOMAIN q.cols : ~Inactive(q.cols[j])}
      rows == {i \in DOMAIN q.rows : ~Redundant(q.rows[i])}
  IN [min |-> q.min, offset |-> q.offset,
      cols |-> {ColumnFacts(q.cols[j]) : j \in cols},
      rows |-> {RowFacts(q.rows[i]) : i \in rows},
      coef |-> {<<q.rows[i].name, q.cols[j].name, q.coef[<<i, j>>]>> :
                  <<i, j>> \in {x \in rows \X cols : q.coef[x] # 0}}]

ResultFacts ==
  [min |-> result.min, offset |-> result.offset,
   cols |-> {ColumnFacts(result.cols[j]) : j \in DOMAIN result.cols},
   rows |-> {RowFacts(result.rows[i]) : i \in DOMAIN result.rows},
   coef |-> {<<result.rows[t[2] + 1].name, result.cols[t[1] + 1].name, t[3]>> :
               t \in result.coef}]

(* A written problem is read back with the same columns, domains, rows,    *)
(* sides, coefficients and objective, though the writer reorders columns,  *)
(* leaves out default bounds and writes a ranged row as an equation with a *)
(* range.  Other files are read as the problem they stand for, or refused. *)
RoundTrip ==
  pc \in {"done", "fail", "assert"} =>
    IF meant = <<>> THEN pc = "fail"
    ELSE pc = "done" /\ ResultFacts = Facts(meant)

(* A row is marked as an equation only if its two sides are finite and     *)
(* equal, as the modifiers and the solver interfaces take for granted.     *)
EquationsAreEqual ==
  pc = "done" =>
    \A i \in DOMAIN result.rows :
      "Equation" \in result.rows[i].flags =>
        /\ {"LhsInf", "RhsInf"} \cap result.rows[i].flags = {}
        /\ result.rows[i].lhs = result.rows[i].rhs

(* With two columns or more the entries are handed over in the order the   *)
(* storage relies on, whatever the order of the lines of a column.         *)
ColumnsSorted ==
  pc = "done" /\ Len(result.cols) > 1 => result.sorted

===============================================================================
