----------------------------- MODULE SparseStorage -----------------------------
(***************************************************************************)
(* SparseStorage<REAL>: a matrix in compressed row format with free space  *)
(* behind the rows.  A storage is a record: the ranges of the rows, the    *)
(* array of cells (column and value), the numbers of rows, columns and     *)
(* nonzeros, the length of the array, and the two parameters of the free   *)
(* space.  Rows, columns and cells count from zero as in the code.         *)
(***************************************************************************)
EXTENDS Integers, FiniteSets, Sequences, FiniteSetsExt, SequencesExt

Cell == [col : Int, val : Int]

(* The space a row of the given size is allotted, and that of all rows. *)
RowAlloc(s, size) == size * s.spare + s.inter

NAlloc(nnz, nRows, spare, inter) == nnz * spare + nRows * inter

Size(s, r) == s.end[r] - s.start[r]

RowOf(s, r) == [i \in 1..Size(s, r) |-> s.cells[s.start[r] + i - 1]]

Columns(row) == {row[i].col : i \in DOMAIN row}

(* The triplets a storage holds. *)
Triplets(s) ==
  {<<r, s.cells[p].col, s.cells[p].val>> :
     <<r, p>> \in {q \in (0..s.nRows - 1) \X (0..s.nAlloc - 1) :
                     s.start[q[1]] <= q[2] /\ q[2] < s.end[q[1]]}}

(* Running sums of the allotted spaces. *)
Starts(n, alloc(_)) ==
  LET f[r \in 0..n] == IF r = 0 THEN 0 ELSE f[r - 1] + alloc(r - 1) IN f

(* An array of the given length with rows at their starts. *)
Cells(nAlloc, start, rows, n) ==
  [p \in 0..nAlloc - 1 |->
     LET holds(r) == start[r] <= p /\ p < start[r] + Len(rows[r])
     IN  IF \E r \in 0..n - 1 : holds(r)
           THEN LET r == CHOOSE q \in 0..n - 1 : holds(q)
                IN  rows[r][p - start[r] + 1]
           ELSE [col |-> 0, val |-> 0]]

(***************************************************************************)
(* The constructor from sorted triplets.  Zeros are dropped, but count for *)
(* the length of the array; a row without triplets is allotted no space,   *)
(* unless it is the first one.                                             *)
(***************************************************************************)
Build(entries, nRows, nCols, spare, inter) ==
  LET ofRow(r)  == SelectSeq(entries, LAMBDA t : t[1] = r)
      content   == [r \in 0..nRows - 1 |->
                      LET kept == SelectSeq(ofRow(r), LAMBDA t : t[3] # 0)
                      IN  [i \in DOMAIN kept |->
                             [col |-> kept[i][2], val |-> kept[i][3]]]]
      space(r)  == IF r = 0 \/ ofRow(r) # <<>>
                     THEN Len(content[r]) * spare + inter ELSE 0
      start     == Starts(nRows, space)
      nAlloc    == NAlloc(Len(entries), nRows, spare, inter)
  IN [nRows |-> nRows, nCols |-> nCols,
      nnz   |-> Len(SelectSeq(entries, LAMBDA t : t[3] # 0)),
      nAlloc |-> nAlloc, spare |-> spare, inter |-> inter, start |-> start,
      end   |-> [r \in 0..nRows |->
                   start[r] + IF r = nRows THEN 0 ELSE Len(content[r])],
      cells |-> Cells(nAlloc, start, content, nRows)]

(* Its assertion that the last row and its space lie within the array; the *)
(* space of row 0 is set aside even if there is no row.                    *)
BuildFits(entries, nRows, spare, inter) ==
  nRows = 0 => inter <= NAlloc(Len(entries), nRows, spare, inter)

(* Its assertion on triplets that are said to be sorted. *)
BuildSorted(entries) ==
  \A i \in 1..Len(entries) - 1 :
    \/ entries[i][1] < entries[i + 1][1]
    \/ entries[i][1] = entries[i + 1][1] /\ entries[i][2] <= entries[i + 1][2]

(***************************************************************************)
(* getTranspose(): counts the entries of the columns and appends every     *)
(* entry to its column, row by row.                                        *)
(***************************************************************************)
GetTranspose(s) ==
  LET ofCol(c)  == [r \in 0..s.nRows - 1 |->
                      SelectSeq(RowOf(s, r), LAMBDA x : x.col = c)]
      upTo(c)   == LET f[r \in 0..s.nRows] ==
                         IF r = 0 THEN <<>>
                         ELSE f[r - 1] \o
                              [i \in DOMAIN ofCol(c)[r - 1] |->
                                 [col |-> r - 1, val |-> ofCol(c)[r - 1][i].val]]
                   IN  f[s.nRows]
      content   == [c \in 0..s.nCols - 1 |-> upTo(c)]
      nAlloc    == NAlloc(s.nnz, s.nCols, s.spare, s.inter)
      starts    == Starts(s.nCols, LAMBDA c : RowAlloc(s, Len(content[c])))
      start     == [starts EXCEPT ![s.nCols] = nAlloc]
  IN [s EXCEPT
        !.nRows = s.nCols, !.nCols = s.nRows, !.nAlloc = nAlloc,
        !.start = start,
        !.end   = [c \in 0..s.nCols |->
                     start[c] + IF c = s.nCols THEN 0 ELSE Len(content[c])],
        !.cells = Cells(nAlloc, start, content, s.nCols)]

(* Row r of s with new contents; what lies behind them stays as it was. *)
WithRow(s, r, row) ==
  [s EXCEPT
     !.cells = [p \in DOMAIN s.cells |->
                  IF s.start[r] <= p /\ p < s.start[r] + Len(row)
                    THEN row[p - s.start[r] + 1] ELSE s.cells[p]],
     !.end[r] = s.start[r] + Len(row),
     !.nnz = s.nnz + Len(row) - Size(s, r)]

(* changeRowInplace(): entries of the row take new values; those that      *)
(* become zero are removed and the following ones move up.                 *)
ChangedInplace(row, changes) ==
  LET new == [i \in DOMAIN row |->
                IF row[i].col \in DOMAIN changes
                  THEN [row[i] EXCEPT !.val = changes[row[i].col]] ELSE row[i]]
  IN  SelectSeq(new, LAMBDA x : x.val # 0)

ChangeRowInplace(s, r, changes) ==
  WithRow(s, r, ChangedInplace(RowOf(s, r), changes))

(***************************************************************************)
(* changeRow(), with the merge that adds: entries are added to those of    *)
(* the row or inserted between them.  The caller has to make sure that     *)
(* the row does not outgrow its space.                                     *)
(***************************************************************************)
Merged(row, changes) ==
  LET cols   == Columns(row) \cup DOMAIN changes
      old(c) == {row[i].val : i \in {j \in DOMAIN row : row[j].col = c}}
      val(c) == (IF old(c) = {} THEN 0 ELSE CHOOSE v \in old(c) : TRUE)
                + IF c \in DOMAIN changes THEN changes[c] ELSE 0
      order  == SetToSortSeq({c \in cols : val(c) # 0}, <)
  IN  [i \in DOMAIN order |-> [col |-> order[i], val |-> val(order[i])]]

ChangeRowFits(s, r, changes) ==
  Len(Merged(RowOf(s, r), changes)) <= s.start[r + 1] - s.start[r]

ChangeRow(s, r, changes) == WithRow(s, r, Merged(RowOf(s, r), changes))

(***************************************************************************)
(* compress(): rows and columns with size -1 are removed, the rows that    *)
(* stay move to the front and give back the space beyond what they are     *)
(* allotted.  A row that outgrew its allotment uses up space gained before.*)
(***************************************************************************)
NewIndex(keep, i) == Cardinality({j \in keep : j < i})

Compress(s, rows, cols, full) ==
  LET t      == IF full THEN [s EXCEPT !.spare = 1, !.inter = 0] ELSE s
      room(r) == s.start[r + 1] - s.start[r]
      offset == [r \in 0..s.nRows |->
                   LET f[q \in 0..s.nRows] ==
                         IF q = 0 THEN 0
                         ELSE IF q - 1 \notin rows THEN f[q - 1] + room(q - 1)
                         ELSE Max({f[q - 1] + room(q - 1)
                                   - RowAlloc(t, Size(s, q - 1)), 0})
                   IN  f[r]]
      n      == Cardinality(rows)
      old(k) == IF k = n THEN s.nRows
                ELSE CHOOSE r \in rows : NewIndex(rows, r) = k
      start  == [k \in 0..n |-> s.start[old(k)] - offset[old(k)]]
      end    == [k \in 0..n |-> s.end[old(k)] - offset[old(k)]]
      nAlloc == s.nAlloc - offset[s.nRows]
      at(p)  == {k \in 0..n - 1 : start[k] <= p /\ p < end[k]}
  IN [t EXCEPT
        !.nRows = n, !.nCols = Cardinality(cols), !.nAlloc = nAlloc,
        !.start = start, !.end = end,
        !.cells = [p \in 0..nAlloc - 1 |->
           IF at(p) = {} THEN s.cells[p]
           ELSE LET k == CHOOSE x \in at(p) : TRUE
                    c == s.cells[s.start[old(k)] + p - start[k]]
                IN  [c EXCEPT !.col = NewIndex(cols, c.col)]]]

(* getRowStarts() asserts that no space is left between the rows. *)
Contiguous(s) == \A r \in 0..s.nRows - 1 : s.end[r] = s.start[r + 1]

(* The ranges are in order and lie within the array. *)
RangesOrdered(s) ==
  /\ \A r \in 0..s.nRows - 1 :
       0 <= s.start[r] /\ s.start[r] <= s.end[r] /\ s.end[r] <= s.start[r + 1]
  /\ s.start[s.nRows] <= s.nAlloc
  /\ DOMAIN s.cells = 0..s.nAlloc - 1

(* Every row lists its columns in increasing order, with nonzero values. *)
RowsSorted(s) ==
  \A r \in 0..s.nRows - 1 :
    LET row == RowOf(s, r)
    IN  /\ \A i \in 1..Len(row) - 1 : row[i].col < row[i + 1].col
        /\ \A i \in DOMAIN row : row[i].val # 0 /\ row[i].col \in 0..s.nCols - 1

WellFormed(s) ==
  RangesOrdered(s) /\ RowsSorted(s) /\ s.nnz = Cardinality(Triplets(s))
===============================================================================
