---------------------------- MODULE StorageSession -----------------------------
(***************************************************************************)
(* A storage of SparseStorage.tla in use: built from triplets, then its    *)
(* rows are changed, transposed, compressed and shifted to make room.      *)
(* shiftRows() searches for free space on both sides of a row, one row per *)
(* step, and then moves rows together.  matrix is what the storage should  *)
(* represent, moved the number of cells moved for the current row.         *)
(***************************************************************************)
EXTENDS SparseStorage

CONSTANTS
  Entries,    \* sequences of triplets to build from
  Dims,       \* numbers of rows and columns
  Spaces,     \* pairs of spare ratio and space between rows
  Values,     \* values of changed entries
  Requests,   \* what shiftRows() is asked for: rows and their space
  MaxShifts,  \* values of maxshiftperrow
  MaxOps      \* bound on the number of operations

EntriesAssumption == \A e \in Entries : BuildSorted(e)
SpacesAssumption == \A p \in Spaces : p[1] >= 1 /\ p[2] >= 1

VARIABLES
  pc,       \* "idle", "search", "moveleft", "moveright"
  s,        \* the storage
  ops,      \* operations done
  request,  \* the rows to make room for and the space they need
  i,        \* the request being served
  missing, maxshift, limit, l, r, lastleft, lastright,   \* its search
  matrix,   \* the triplets the storage should hold
  moved,    \* cells moved for the request
  tight     \* the storage was compressed in full and not changed since

search == <<missing, maxshift, l, r, lastleft, lastright>>
vars == <<pc, s, ops, request, i, limit, search, matrix, moved, tight>>

Idle == pc = "idle" /\ ops < MaxOps

Init ==
  /\ pc = "idle" /\ ops = 0
  /\ \E e \in Entries, d \in Dims, p \in Spaces :
       /\ \A k \in 1..Len(e) : e[k][1] < d[1] /\ e[k][2] < d[2]
       /\ BuildFits(e, d[1], p[1], p[2])
       /\ s = Build(e, d[1], d[2], p[1], p[2])
       /\ matrix = {e[k] : k \in {j \in 1..Len(e) : e[j][3] # 0}}
  /\ request = <<>> /\ i = 0 /\ limit = 0
  /\ missing = 0 /\ maxshift = 0 /\ l = 0 /\ r = 0
  /\ lastleft = 0 /\ lastright = 0
  /\ moved = 0 /\ tight = FALSE

Done(t) == s' = t /\ ops' = ops + 1
           /\ UNCHANGED <<pc, request, i, limit, search, moved>>

(* Entries of a row take new values, zero removes them. *)
Change ==
  /\ Idle
  /\ \E row \in 0..s.nRows - 1 :
     \E cols \in SUBSET Columns(RowOf(s, row)) \ {{}} :
     \E f \in [cols -> Values \cup {0}] :
       /\ Done(ChangeRowInplace(s, row, f))
       /\ matrix' = {t \in matrix : t[1] # row \/ t[2] \notin cols} \cup
                    {<<row, c, f[c]>> : c \in {x \in cols : f[x] # 0}}
  /\ tight' = FALSE

(* Entries are added to a row that has the space for it. *)
Merge ==
  /\ Idle
  /\ \E row \in 0..s.nRows - 1 :
     \E cols \in SUBSET (0..s.nCols - 1) \ {{}} : \E f \in [cols -> Values] :
       /\ ChangeRowFits(s, row, f)
       /\ Done(ChangeRow(s, row, f))
       /\ LET old(c) == {t[3] : t \in {x \in matrix : x[1] = row /\ x[2] = c}}
              sum(c) == f[c] + IF old(c) = {} THEN 0 ELSE Max(old(c))
          IN  matrix' =
                {t \in matrix : t[1] # row \/ t[2] \notin cols} \cup
                {<<row, c, sum(c)>> : c \in {x \in cols : sum(x) # 0}}
  /\ tight' = FALSE

Transpose ==
  /\ Idle /\ Done(GetTranspose(s))
  /\ matrix' = {<<t[2], t[1], t[3]>> : t \in matrix}
  /\ tight' = FALSE

(* Rows and columns without entries are removed. *)
Shrink ==
  /\ Idle
  /\ \E full \in BOOLEAN :
     \E rows \in SUBSET (0..s.nRows - 1), cols \in SUBSET (0..s.nCols - 1) :
       /\ \A t \in matrix : t[1] \in rows /\ t[2] \in cols
       /\ Done(Compress(s, rows, cols, full))
       /\ matrix' = {<<NewIndex(rows, t[1]), NewIndex(cols, t[2]), t[3]>> :
                       t \in matrix}
       /\ tight' = full

-------------------------------------------------------------------------------
(* The space of row q, and whether the current request lacks some. *)
SpaceAfter(q) == s.start[q + 1] - s.end[q]

StartRequest(q, k, max) ==
  /\ i' = k
  /\ missing' = q[k][2] - SpaceAfter(q[k][1])
  /\ maxshift' = max
  /\ l' = q[k][1] /\ r' = q[k][1] + 1
  /\ lastleft' = 0 /\ lastright' = 0 /\ moved' = 0
  /\ pc' = "search"

ShiftRows ==
  /\ Idle
  /\ \E q \in Requests, m \in MaxShifts :
       /\ \A k \in DOMAIN q : q[k][1] < s.nRows
       /\ request' = q /\ limit' = m
       /\ StartRequest(q, 1, m)
  /\ ops' = ops + 1 /\ tight' = FALSE
  /\ UNCHANGED <<s, matrix>>

GiveUp ==
  /\ pc' = "idle" /\ request' = <<>> /\ i' = 0
  /\ UNCHANGED <<s, ops, limit, search, matrix, moved, tight>>

(* The next row is served, or shiftRows() returns true. *)
NextRequest ==
  /\ pc = "next"
  /\ IF i < Len(request)
       THEN StartRequest(request, i + 1, limit)
       ELSE pc' = "idle" /\ UNCHANGED <<i, search, moved>>
  /\ UNCHANGED <<s, ops, request, limit, matrix, tight>>

row == request[i][1]

LeftBound == IF i = 1 THEN 0 ELSE request[i - 1][1] + 1

RightBound == IF i = Len(request) THEN s.nRows ELSE request[i + 1][1]

LeftGap  == Min({missing, s.start[l] - s.end[l - 1]})
RightGap == Min({missing, SpaceAfter(r)})

(* Row l is taken into the block that moves left. *)
GoLeft(gap) ==
  /\ maxshift' = maxshift - Size(s, l)
  /\ lastleft' = gap /\ missing' = missing - LeftGap
  /\ l' = l - 1
  /\ UNCHANGED <<pc, s, ops, request, i, limit, r, lastright, matrix, moved,
                 tight>>

GoRight(gap) ==
  /\ maxshift' = maxshift - Size(s, r)
  /\ lastright' = gap /\ missing' = missing - RightGap
  /\ r' = r + 1
  /\ UNCHANGED <<pc, s, ops, request, i, limit, l, lastleft, matrix, moved,
                 tight>>

OrLast(gap, last) == IF gap # 0 THEN gap ELSE last

(* The direction that gives the most space per moved cell. *)
PrefersLeft ==
  \/ Size(s, l) = 0
  \/ /\ Size(s, r) # 0 /\ Size(s, l) <= maxshift
     /\ LeftGap * Size(s, r) >= RightGap * Size(s, l)

CanLeft  == l > LeftBound
CanRight == r < RightBound

(* One turn of the search with rows on both sides. *)
SearchBoth ==
  /\ pc = "search" /\ missing > 0 /\ CanLeft /\ CanRight
  /\ IF PrefersLeft THEN GoLeft(OrLast(LeftGap, lastleft))
     ELSE IF Size(s, r) <= maxshift THEN GoRight(OrLast(RightGap, lastright))
     ELSE GiveUp

(* One turn with rows on one side only. *)
SearchOne ==
  /\ pc = "search" /\ missing > 0 /\ ~(CanLeft /\ CanRight)
  /\ IF CanLeft /\ Size(s, l) <= maxshift THEN GoLeft(LeftGap)
     ELSE IF CanRight /\ Size(s, r) <= maxshift THEN GoRight(RightGap)
     ELSE GiveUp

Found ==
  /\ pc = "search" /\ missing <= 0
  /\ pc' = IF lastleft > 0 THEN "moveleft"
           ELSE IF lastright > 0 THEN "moveright" ELSE "next"
  /\ UNCHANGED <<s, ops, request, i, limit, search, matrix, moved, tight>>

(* s with the rows from lo to hi one behind the other, the first at p. *)
Packed(lo, hi, p) ==
  LET start  == Starts(hi - lo + 1, LAMBDA k : Size(s, lo + k))
      new(q) == p + start[q - lo]
      at(x)  == {q \in lo..hi : new(q) <= x /\ x < new(q) + Size(s, q)}
  IN [s EXCEPT
        !.start = [q \in DOMAIN @ |-> IF q \in lo..hi THEN new(q) ELSE @[q]],
        !.end   = [q \in DOMAIN @ |->
                     IF q \in lo..hi THEN new(q) + Size(s, q) ELSE @[q]],
        !.cells = [x \in DOMAIN @ |->
                     IF at(x) = {} THEN @[x]
                     ELSE LET q == CHOOSE y \in at(x) : TRUE
                          IN  @[s.start[q] + x - new(q)]]]

CellsOf(lo, hi) ==
  LET start == Starts(hi - lo + 1, LAMBDA k : Size(s, lo + k))
  IN  start[hi - lo + 1]

(* Every row of the block moves, also those before the first gap. *)
FirstMoved_All == l + 1

(* The block starts behind the first gap that was taken. *)
FirstMoved == Min({q \in l + 1..row : s.start[q] # s.end[q - 1]})

LastMoved == Max({q \in row + 1..r - 1 : s.end[q] # s.start[q + 1]})

(* The rows up to the requested one move left over the gaps. *)
MoveLeft ==
  /\ pc = "moveleft"
  /\ s' = Packed(FirstMoved, row, s.start[FirstMoved] - lastleft)
  /\ moved' = moved + CellsOf(FirstMoved, row)
  /\ pc' = IF lastright > 0 THEN "moveright" ELSE "next"
  /\ UNCHANGED <<ops, request, i, limit, search, matrix, tight>>

(* Those behind it move right. *)
MoveRight ==
  /\ pc = "moveright"
  /\ LET n == CellsOf(row + 1, LastMoved)
     IN  /\ s' = Packed(row + 1, LastMoved, s.end[LastMoved] + lastright - n)
         /\ moved' = moved + n
  /\ pc' = "next"
  /\ UNCHANGED <<ops, request, i, limit, search, matrix, tight>>

Next ==
  \/ Change \/ Merge \/ Transpose \/ Shrink
  \/ ShiftRows \/ SearchBoth \/ SearchOne \/ Found
  \/ MoveLeft \/ MoveRight \/ NextRequest

Spec == Init /\ [][Next]_vars

-------------------------------------------------------------------------------
TypeOK ==
  /\ pc \in {"idle", "search", "moveleft", "moveright", "next"}
  /\ ops \in 0..MaxOps
  /\ \A p \in DOMAIN s.cells : s.cells[p] \in Cell
  /\ pc # "idle" => i \in DOMAIN request /\ maxshift >= 0

(* The storage holds the matrix that was built and changed, whatever was   *)
(* transposed, compressed or shifted in between, and also between the two  *)
(* moves of a shift.                                                       *)
Represents == Triplets(s) = matrix

(* The rows stay sorted, in order and within the array, without zeros, and *)
(* the number of nonzeros is right: the assertions of SparseStorage.hpp on *)
(* its ranges, columns and sizes.                                          *)
StorageWellFormed == WellFormed(s)

(* A row that was made room for has its space, and keeps it while the rows *)
(* behind it are served (SparseStorage.hpp asserts this per row).          *)
SpaceMade ==
  pc = "next" =>
    \A k \in 1..i : SpaceAfter(request[k][1]) >= request[k][2]

(* No more cells are moved for a row than the caller allows. *)
MovesWithinLimit == moved <= limit

(* Full compression leaves no space between rows, which getRowStarts()     *)
(* asserts, and no cell without an entry before the end of the last row.   *)
TightStaysTight ==
  tight => /\ Contiguous(s) /\ s.start[0] = 0
           /\ s.end[s.nRows] = s.nnz
===============================================================================
