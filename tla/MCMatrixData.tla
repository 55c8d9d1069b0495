----------------------------- MODULE MCMatrixData ------------------------------
(***************************************************************************)
(* One run for the three modules of the matrix.  They share no state:      *)
(* component says which of them a behaviour belongs to, and the variables  *)
(* of the others rest at None.                                             *)
(*                                                                         *)
(*   Matrix     ConstraintMatrix: three rows and two columns with three    *)
(*              entries, in two opposite corners and a third one.          *)
(*   Storage    StorageSession: four rows and two columns, one entry an    *)
(*              explicit zero, with one cell of space behind each row.     *)
(*   Buffer     MatrixBuffer: up to four of the six entries of two rows    *)
(*              and three columns, with priorities of two levels and with  *)
(*              those of the code's hash.                                  *)
(***************************************************************************)
EXTENDS Integers, FiniteSets, Sequences

CONSTANTS
  Spaces, MaxOps,                                          \* of both storages
  MatrixEntries, MatrixDims, MatrixValues,                 \* ConstraintMatrix
  StorageEntries, StorageDims, StorageValues, Requests, MaxShifts,
  Places, PlacesRows, PlacesCols, Priorities, MaxEntries   \* MatrixBuffer

VARIABLES
  component,
  pc, ops, matrix,                                         \* shared names
  m, todo, arg,                                            \* ConstraintMatrix
  s, request, i, missing, maxshift, limit, lastleft, lastright, moved, tight,
  l, r,                                                    \* and MatrixBuffer
  priority, entries, tree, order, slot, t, stack, visited, storages

Matrix == INSTANCE ConstraintMatrix
            WITH Entries <- MatrixEntries, Dims <- MatrixDims, Values <- MatrixValues

Storage == INSTANCE StorageSession
             WITH Entries <- StorageEntries, Dims <- StorageDims, Values <- StorageValues

Buffer == INSTANCE MatrixBuffer WITH NRows <- PlacesRows, NCols <- PlacesCols

ASSUME MatrixAssumption ==
  /\ Matrix!EntriesAssumption /\ Matrix!SpacesAssumption
  /\ Storage!EntriesAssumption /\ Storage!SpacesAssumption
  /\ Buffer!PlacesAssumption /\ Buffer!PrioritiesAssumption
  /\ MaxOps \in Nat

-------------------------------------------------------------------------------
None == 0

(* The variables that no other component has. *)
matrixOnly     == <<m, todo, arg>>
storageOnly    == <<s, request, i, missing, maxshift, limit, lastleft, lastright, moved, tight>>
bufferOnly     == <<priority, entries, tree, order, slot, t, stack, visited, storages>>

NoMatrix == m = None /\ todo = None /\ arg = None

NoStorage ==
  /\ s = None /\ request = None /\ i = None /\ missing = None /\ maxshift = None
  /\ limit = None /\ lastleft = None /\ lastright = None /\ moved = None /\ tight = None

NoBuffer ==
  /\ priority = None /\ entries = None /\ tree = None /\ order = None /\ slot = None
  /\ t = None /\ stack = None /\ visited = None /\ storages = None

Init ==
  \/ component = "matrix" /\ Matrix!Init /\ l = None /\ r = None
     /\ NoStorage /\ NoBuffer
  \/ component = "storage" /\ Storage!Init /\ NoMatrix /\ NoBuffer
  \/ component = "buffer" /\ Buffer!Init /\ ops = None /\ matrix = None
     /\ NoMatrix /\ NoStorage

MatrixStep ==
  /\ component = "matrix" /\ Matrix!Next
  /\ UNCHANGED <<component, l, r, storageOnly, bufferOnly>>

StorageStep ==
  /\ component = "storage" /\ Storage!Next
  /\ UNCHANGED <<component, matrixOnly, bufferOnly>>

BufferStep ==
  /\ component = "buffer" /\ Buffer!Next
  /\ UNCHANGED <<component, ops, matrix, matrixOnly, storageOnly>>

Next == MatrixStep \/ StorageStep \/ BufferStep

vars == <<component, pc, ops, matrix, l, r, matrixOnly, storageOnly, bufferOnly>>

Spec == Init /\ [][Next]_vars

-------------------------------------------------------------------------------
(* The two storages of the constraint matrix hold the matrix that was      *)
(* asked for whatever the order of the tasks, its sizes are those of the   *)
(* rows and columns, also when the last phase asserts it, and the sides of *)
(* a row move with it.                                                     *)
MatrixKept ==
  component = "matrix" =>
    /\ Matrix!TypeOK /\ Matrix!Represents /\ Matrix!SizesAgree
    /\ Matrix!SizesCount /\ Matrix!SidesFollow

(* A storage holds its matrix between any two moves, with its rows sorted  *)
(* and apart, and with no space left after a full compression; shiftRows() *)
(* makes the room it is asked for, keeps it while it serves the rows       *)
(* behind, and moves no more cells for a row than it may.                  *)
StorageKept ==
  component = "storage" =>
    /\ Storage!TypeOK /\ Storage!Represents /\ Storage!StorageWellFormed
    /\ Storage!TightStaysTight /\ Storage!SpaceMade /\ Storage!MovesWithinLimit

(* The splay trees of the buffer lose no entry and take none twice, their  *)
(* traversals return them in order, and the two storages built from them   *)
(* are transposes of each other.                                           *)
EntriesFound ==
  component = "buffer" =>
    /\ Buffer!TypeOK /\ Buffer!AllFound /\ Buffer!NullNodeClean
    /\ Buffer!TraversalSorted /\ Buffer!StoragesTransposed

-------------------------------------------------------------------------------
Sorted(cells, value) ==
  LET Before(a, b) == a[1] < b[1] \/ (a[1] = b[1] /\ a[2] < b[2])
      n(c) == Cardinality({d \in cells : Before(d, c)}) + 1
  IN  [k \in 1..Cardinality(cells) |->
         LET c == CHOOSE c \in cells : n(c) = k IN <<c[1], c[2], value[c]>>]

MCSpaces == {<<1, 1>>}

MCMatrixEntries ==
  {Sorted(c, [x \in c |-> 1]) :
     c \in {d \cup {<<0, 0>>, <<2, 1>>} :
              d \in {{<<0, 1>>}, {<<1, 0>>}}}}

MCMatrixDims == {<<3, 2>>}

MCCells == (0..2) \X (0..1)

MCStorageEntries ==
  {Sorted(c, [x \in c |-> IF x = <<1, 0>> THEN 0 ELSE 1]) :
     c \in {d \in SUBSET MCCells : Cardinality(d) \in {3, 6}}} \cup
  {Sorted(c \cup {<<3, 0>>}, [x \in c \cup {<<3, 0>>} |-> 2]) :
     c \in {d \in SUBSET MCCells : Cardinality(d) = 4}}

MCStorageDims == {<<4, 2>>}

MCRequests ==
  {<<<<q, n>>>> : q \in 0..2, n \in 2..3} \cup
  {<<<<p, 2>>, <<q, 2>>>> : p \in 0..1, q \in 2..3} \cup
  {<<<<0, 2>>, <<2, 0>>, <<3, 2>>>>, <<<<1, 0>>, <<2, 3>>>>}

MCPlaces == (0..1) \X (0..2)

MCPriorities ==
  {[o \in {"row", "col"} |->
      [p \in MCPlaces |-> IF o = "row" THEN f[p] ELSE f[<<1 - p[1], 2 - p[2]>>]]] :
     f \in {g \in [MCPlaces -> 1..2] :
              g[<<0, 0>>] = 1 /\ g[<<0, 2>>] = 2 /\ g[<<1, 0>>] = 1 /\ g[<<1, 2>>] = 1}}

(* The ranks of the 32 bit hashes of these places: the upper half of the   *)
(* product of 0x9e3779b97f4a7c15 with the row and the column.              *)
MCHash ==
  {[row |-> [p \in MCPlaces |->
       CASE p = <<0, 0>> -> 1 [] p = <<0, 1>> -> 5 [] p = <<0, 2>> -> 3
         [] p = <<1, 0>> -> 4 [] p = <<1, 1>> -> 2 [] p = <<1, 2>> -> 6],
    col |-> [p \in MCPlaces |->
       CASE p = <<0, 0>> -> 1 [] p = <<0, 1>> -> 3 [] p = <<0, 2>> -> 6
         [] p = <<1, 0>> -> 5 [] p = <<1, 1>> -> 2 [] p = <<1, 2>> -> 4]]}

MCBoth == MCPriorities \cup MCHash
===============================================================================
