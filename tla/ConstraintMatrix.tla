--------------------------- MODULE ConstraintMatrix ----------------------------
(***************************************************************************)
(* ConstraintMatrix<REAL>: a storage by rows, one by columns, the sizes of *)
(* both, sides and row flags.  An operation is a sequence of phases.  In a *)
(* phase tasks run in parallel (tbb::parallel_invoke), each through a list *)
(* of its own; the next phase begins when all lists are empty.             *)
(***************************************************************************)
EXTENDS SparseStorage

CONSTANTS
  Entries,   \* sequences of triplets to build from
  Dims,      \* numbers of rows and columns
  Spaces,    \* pairs of spare ratio and space between rows
  Values,    \* values of changed coefficients
  MaxOps     \* bound on the number of operations

EntriesAssumption == \A e \in Entries : BuildSorted(e)
SpacesAssumption == \A p \in Spaces : p[1] >= 1 /\ p[2] >= 1

VARIABLES
  pc,       \* "idle" or the phase of an operation
  m,        \* storages, sizes, sides and flags
  todo,     \* the lists of the tasks of the phase
  arg,      \* what the operation was called with
  ops,      \* operations begun
  matrix    \* the entries there should be, by row id, column and value

vars == <<pc, m, todo, arg, ops, matrix>>

Deleted == -1

Rows == 0..m.rows.nRows - 1
Cols == 0..m.cols.nRows - 1

(* A side is the id of its row, so that one can tell which row it is.      *)
Init ==
  /\ pc = "idle" /\ todo = <<>> /\ arg = <<>> /\ ops = 0
  /\ \E e \in Entries, d \in Dims, p \in Spaces :
       LET rows == Build(e, d[1], d[2], p[1], p[2])
           cols == GetTranspose(rows)
           ids  == [r \in 0..d[1] - 1 |-> r + 1]
       IN  /\ \A k \in 1..Len(e) : e[k][1] < d[1] /\ e[k][2] < d[2]
           /\ m = [rows |-> rows, cols |-> cols,
                   rowsize |-> [r \in 0..d[1] - 1 |-> Size(rows, r)],
                   colsize |-> [c \in 0..d[2] - 1 |-> Size(cols, c)],
                   lhs |-> ids, rhs |-> ids, redundant |-> {}]
           /\ matrix = {<<t[1] + 1, t[2], t[3]>> : t \in Triplets(rows)}

(* Begins an operation. *)
Call(phase, work, a) ==
  /\ pc = "idle" /\ ops < MaxOps /\ ops' = ops + 1
  /\ pc' = phase /\ todo' = work /\ arg' = a

(* The first task that ends is waited for. *)
PhaseDone_Any == \E t \in DOMAIN todo : todo[t] = <<>>

PhaseDone == \A t \in DOMAIN todo : todo[t] = <<>>

GoTo(phase, work) ==
  PhaseDone /\ pc' = phase /\ todo' = work /\ UNCHANGED <<arg, ops, matrix>>

(* A task works on the next item of its list. *)
Work(task, effect(_)) ==
  /\ todo[task] # <<>>
  /\ m' = effect(Head(todo[task]))
  /\ todo' = [todo EXCEPT ![task] = Tail(@)]
  /\ UNCHANGED <<pc, arg, ops, matrix>>

Ascending(set) == SetToSortSeq(set, <)

-------------------------------------------------------------------------------
(***************************************************************************)
(* changeCoefficients(): new values for entries of the matrix, zero        *)
(* removes them.                                                           *)
(***************************************************************************)
ChangeCoefficients ==
  \E places \in SUBSET {<<t[1], t[2]>> : t \in Triplets(m.rows)} \ {{}} :
  \E f \in [places -> Values \cup {0}] :
    LET keep == {t \in Triplets(m.rows) : <<t[1], t[2]>> \notin places}
        new  == {<<p[1], p[2], f[p]>> : p \in {q \in places : f[q] # 0}}
    IN  /\ Call("change", [rows |-> Ascending({p[1] : p \in places}),
                           cols |-> Ascending({p[2] : p \in places})], f)
        /\ matrix' = {<<m.lhs[t[1]], t[2], t[3]>> : t \in keep \cup new}
        /\ UNCHANGED m

ChangeRowTask ==
  /\ pc = "change"
  /\ Work("rows", LAMBDA r :
       LET f    == [c \in {p[2] : p \in {q \in DOMAIN arg : q[1] = r}} |-> arg[<<r, c>>]]
           rows == ChangeRowInplace(m.rows, r, f)
       IN  [m EXCEPT !.rows = rows, !.rowsize[r] = Size(rows, r)])

ChangeColTask ==
  /\ pc = "change"
  /\ Work("cols", LAMBDA c :
       LET f    == [r \in {p[1] : p \in {q \in DOMAIN arg : q[2] = c}} |-> arg[<<r, c>>]]
           cols == ChangeRowInplace(m.cols, c, f)
       IN  [m EXCEPT !.cols = cols, !.colsize[c] = Size(cols, c)])

-------------------------------------------------------------------------------
(***************************************************************************)
(* deleteRowsAndCols(): redundant rows and fixed columns, in any order.    *)
(* They are marked by their sizes, then removed from their own storage,    *)
(* while the other sizes are counted down, then from the other storage.    *)
(***************************************************************************)
Orders(set) == {Ascending(set), Reverse(Ascending(set))}

DeleteRowsAndCols ==
  \E rows \in SUBSET {r \in Rows : m.rowsize[r] # Deleted},
     cols \in SUBSET {c \in Cols : m.colsize[c] # Deleted} :
  \E dr \in Orders(rows), dc \in Orders(cols) :
    /\ rows # {} \/ cols # {}
    /\ Call("mark", [rows |-> dr, cols |-> dc], [rows |-> dr, cols |-> dc])
    /\ m' = [m EXCEPT !.redundant = @ \cup rows]
    /\ matrix' = {<<m.lhs[t[1]], t[2], t[3]>> :
                    t \in {x \in Triplets(m.rows) : x[1] \notin rows /\ x[2] \notin cols}}

MarkRow ==
  /\ pc = "mark"
  /\ Work("rows", LAMBDA r : [m EXCEPT !.rows.nnz = @ - m.rowsize[r], !.rowsize[r] = Deleted])

MarkCol ==
  /\ pc = "mark"
  /\ Work("cols", LAMBDA c : [m EXCEPT !.colsize[c] = Deleted])

(* The sizes without the entries of row k of storage s. *)
Fallen(sizes, s, k) ==
  [j \in DOMAIN sizes |->
     IF j \in Columns(RowOf(s, k)) /\ sizes[j] # Deleted THEN sizes[j] - 1 ELSE sizes[j]]

(* An empty range in front of the next row. *)
Emptied(s, k) == [s EXCEPT !.start[k] = s.start[k + 1], !.end[k] = s.start[k + 1]]

RemoveRow ==
  /\ pc = "remove"
  /\ Work("rows", LAMBDA r :
       [m EXCEPT !.colsize = Fallen(m.colsize, m.rows, r),
                 !.rows = Emptied(m.rows, r), !.lhs[r] = 0, !.rhs[r] = 0])

RemoveCol ==
  /\ pc = "remove"
  /\ Work("cols", LAMBDA c :
       [m EXCEPT !.rowsize = Fallen(m.rowsize, m.cols, c), !.cols = Emptied(m.cols, c)])

(* The entries of row k of storage s that stay, given the other sizes. *)
Staying(s, k, sizes) == SelectSeq(RowOf(s, k), LAMBDA x : sizes[x.col] # Deleted)

(* An empty column moves its range, a column does not count the nonzeros.  *)
ShiftCol ==
  /\ pc = "shift"
  /\ Work("cols", LAMBDA c :
       IF m.colsize[c] \in {Deleted, Size(m.cols, c)} THEN m
       ELSE IF m.colsize[c] = 0 THEN [m EXCEPT !.cols = Emptied(m.cols, c)]
       ELSE [m EXCEPT !.cols =
               [WithRow(m.cols, c, Staying(m.cols, c, m.rowsize)) EXCEPT !.nnz = m.cols.nnz]])

ShiftRow ==
  /\ pc = "shift"
  /\ Work("rows", LAMBDA r :
       IF m.rowsize[r] \in {Deleted, Size(m.rows, r)} THEN m
       ELSE [m EXCEPT !.rows = WithRow(m.rows, r, Staying(m.rows, r, m.colsize))])

-------------------------------------------------------------------------------
(***************************************************************************)
(* compress(): both storages, then, by the indices they return, the sizes, *)
(* sides and flags.                                                        *)
(***************************************************************************)
Kept(sizes) == {k \in DOMAIN sizes : sizes[k] # Deleted}

CompressMatrix ==
  \E full \in BOOLEAN :
    /\ Call("compress", [rows |-> <<full>>, cols |-> <<full>>],
            [rows |-> Kept(m.rowsize), cols |-> Kept(m.colsize)])
    /\ matrix' = {<<t[1], NewIndex(Kept(m.colsize), t[2]), t[3]>> : t \in matrix}
    /\ UNCHANGED m

CompressRows ==
  /\ pc = "compress"
  /\ Work("rows", LAMBDA full :
       [m EXCEPT !.rows = Compress(m.rows, Kept(m.rowsize), Kept(m.colsize), full)])

CompressCols ==
  /\ pc = "compress"
  /\ Work("cols", LAMBDA full :
       [m EXCEPT !.cols = Compress(m.cols, Kept(m.colsize), Kept(m.rowsize), full)])

(* compress_vector(). *)
Compressed(keep, vec) ==
  [k \in 0..Cardinality(keep) - 1 |-> vec[CHOOSE j \in keep : NewIndex(keep, j) = k]]

CompressVectors ==
  /\ pc = "vectors"
  /\ \E v \in {"rowsize", "lhs", "rhs"} :
       Work(v, LAMBDA i : [m EXCEPT ![v] = Compressed(arg.rows, @)])

CompressColsize ==
  /\ pc = "vectors"
  /\ Work("colsize", LAMBDA i : [m EXCEPT !.colsize = Compressed(arg.cols, @)])

CompressFlags ==
  /\ pc = "vectors"
  /\ Work("flags", LAMBDA i :
       [m EXCEPT !.redundant = {NewIndex(arg.rows, r) : r \in @ \cap arg.rows}])

-------------------------------------------------------------------------------
Return ==
  /\ pc \in {"change", "vectors"} /\ GoTo("idle", <<>>) /\ UNCHANGED m

StartRemove ==
  /\ pc = "mark" /\ GoTo("remove", arg) /\ UNCHANGED m

StartShift ==
  /\ pc = "remove"
  /\ GoTo("shift", [rows |-> Ascending(Rows), cols |-> Ascending(Cols)])
  /\ UNCHANGED m

(* The columns take over the number of nonzeros. *)
FinishDelete ==
  /\ pc = "shift" /\ GoTo("idle", <<>>)
  /\ m' = [m EXCEPT !.cols.nnz = m.rows.nnz]

StartVectors ==
  /\ pc = "compress"
  /\ GoTo("vectors", [v \in {"rowsize", "colsize", "lhs", "rhs", "flags"} |-> <<0>>])
  /\ UNCHANGED m

Phases == Return \/ StartRemove \/ StartShift \/ FinishDelete \/ StartVectors

Tasks ==
  \/ ChangeRowTask \/ ChangeColTask \/ MarkRow \/ MarkCol \/ RemoveRow \/ RemoveCol
  \/ ShiftRow \/ ShiftCol \/ CompressRows \/ CompressCols
  \/ CompressVectors \/ CompressColsize \/ CompressFlags

Next == ChangeCoefficients \/ DeleteRowsAndCols \/ CompressMatrix \/ Phases \/ Tasks

Spec == Init /\ [][Next]_vars

-------------------------------------------------------------------------------
TypeOK ==
  /\ pc \in {"idle", "change", "mark", "remove", "shift", "compress", "vectors"}
  /\ ops \in 0..MaxOps
  /\ pc = "idle" =>
       /\ m.rows.nCols = m.cols.nRows /\ m.cols.nCols = m.rows.nRows
       /\ DOMAIN m.rowsize = Rows /\ DOMAIN m.lhs = Rows /\ DOMAIN m.rhs = Rows
       /\ DOMAIN m.colsize = Cols /\ m.redundant \subseteq Rows

(* Between operations both storages hold the same matrix, the one that was *)
(* asked for, with rows and columns sorted and the nonzeros counted, in    *)
(* whatever order the tasks ran.                                           *)
Represents ==
  pc = "idle" =>
    /\ WellFormed(m.rows) /\ WellFormed(m.cols)
    /\ {<<m.lhs[t[1]], t[2], t[3]>> : t \in Triplets(m.rows)} = matrix
    /\ {<<m.lhs[t[2]], t[1], t[3]>> : t \in Triplets(m.cols)} = matrix

(* The sizes are those of the rows and columns; what is deleted is empty.  *)
(* A row is redundant exactly while it waits to be compressed away.        *)
SizesAgree ==
  pc = "idle" =>
    /\ \A r \in Rows : m.rowsize[r] = IF r \in m.redundant THEN Deleted ELSE Size(m.rows, r)
    /\ \A r \in m.redundant : Size(m.rows, r) = 0
    /\ \A c \in Cols : 
         m.colsize[c] \in IF Size(m.cols, c) = 0 THEN {0, Deleted} ELSE {Size(m.cols, c)}

(* When a row or column is about to be shifted, its size is the number of  *)
(* entries that stay, as the assertions of the last phase say.             *)
SizesCount ==
  pc = "shift" =>
    /\ \A r \in ToSet(todo.rows) :
         m.rowsize[r] = Deleted \/ m.rowsize[r] = Len(Staying(m.rows, r, m.colsize))
    /\ \A c \in ToSet(todo.cols) :
         m.colsize[c] = Deleted \/ m.colsize[c] = Len(Staying(m.cols, c, m.rowsize))

(* The two sides of a row stay together, and no side of a row that was     *)
(* deleted survives a compression.                                         *)
SidesFollow ==
  pc = "idle" =>
    /\ m.lhs = m.rhs
    /\ \A r \in Rows : m.lhs[r] = 0 <=> r \in m.redundant
    /\ \A q, r \in Rows : q < r /\ m.lhs[q] # 0 /\ m.lhs[r] # 0 => m.lhs[q] < m.lhs[r]
===============================================================================
