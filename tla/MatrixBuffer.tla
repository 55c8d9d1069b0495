----------------------------- MODULE MatrixBuffer ------------------------------
(***************************************************************************)
(* MatrixBuffer<REAL>: entries of a matrix in the order they were added,   *)
(* linked into two search trees, one in row major and one in column major  *)
(* order.  Node 0 is the null node, which the splay uses as scratch space. *)
(* A new entry descends to its place by priority, and the subtree there is *)
(* splayed to put the entry on top.  Every turn of the loops is a step.    *)
(* Two storages are built by traversing the trees with an explicit stack.  *)
(***************************************************************************)
EXTENDS SparseStorage

CONSTANTS
  Places,      \* pairs of row and column
  NRows, NCols,
  Priorities,  \* the possible values of the hash: [Orders -> [Places -> Nat]]
  MaxEntries   \* bound on the number of entries

Orders == {"row", "col"}
Sides  == {"left", "right"}

PlacesAssumption == Places \subseteq (0..NRows - 1) \X (0..NCols - 1)
PrioritiesAssumption == Priorities \subseteq [Orders -> [Places -> Nat]]

VARIABLES
  pc,        \* "idle", "descend", "splay", "iterate", "built"
  priority,  \* the hash of places, one for each order
  entries,   \* places in the order they were added; entry n is node n
  tree,      \* for each order the root and the children
  order,     \* the tree that is worked on
  slot,      \* the pointer that is looked at: a side and a node
  t, l, r,   \* top, left and right tree of the splay
  stack, visited,  \* the traversal: its stack and the nodes it returned
  storages   \* what was built for each order

vars == <<pc, priority, entries, tree, order, slot, t, l, r, stack, visited,
          storages>>

n == Len(entries)

Opposite(side) == IF side = "left" THEN "right" ELSE "left"

(* The order in which a tree sorts its nodes. *)
Key(o, place) == IF o = "row" THEN place ELSE <<place[2], place[1]>>

Lesser(o, a, b) ==
  LET x == Key(o, entries[a])
      y == Key(o, entries[b])
  IN  x[1] < y[1] \/ (x[1] = y[1] /\ x[2] < y[2])

EmptyTree == [root |-> 0, child |-> [side \in Sides |-> [k \in {0} |-> 0]]]

Init ==
  /\ pc = "idle"
  /\ priority \in Priorities
  /\ entries = <<>>
  /\ tree = [o \in Orders |-> EmptyTree]
  /\ order = "row" /\ slot = <<"root", 0>>
  /\ t = 0 /\ l = 0 /\ r = 0
  /\ stack = <<>> /\ visited = <<>> /\ storages = <<>>

AtSlot(x) == IF slot[1] = "root" THEN x.root ELSE x.child[slot[1]][slot[2]]

PutSlot(x, k) ==
  IF slot[1] = "root" THEN [x EXCEPT !.root = k]
  ELSE [x EXCEPT !.child[slot[1]][slot[2]] = k]

WithNode(x, k) ==
  [x EXCEPT !.child = [side \in Sides |->
                         [j \in 0..k |-> IF j = k THEN 0 ELSE @[side][j]]]]

(* addEntry(): a leaf for both trees, linked into the row tree first. *)
AddEntry ==
  /\ pc = "idle" /\ n < MaxEntries /\ storages = <<>>
  /\ \E p \in Places \ {entries[k] : k \in 1..n} : entries' = Append(entries, p)
  /\ tree' = [o \in Orders |-> WithNode(tree[o], n + 1)]
  /\ pc' = "descend" /\ order' = "row" /\ slot' = <<"root", 0>>
  /\ UNCHANGED <<priority, t, l, r, stack, visited, storages>>

(* The tree in which node n took its slot; the column tree comes next. *)
Linked(x) ==
  /\ tree' = [tree EXCEPT ![order] = PutSlot(x, n)]
  /\ IF order = "row"
       THEN pc' = "descend" /\ order' = "col"
       ELSE pc' = "idle" /\ UNCHANGED order
  /\ slot' = <<"root", 0>>
  /\ t' = 0 /\ l' = 0 /\ r' = 0
  /\ UNCHANGED <<priority, entries, stack, visited, storages>>

SideOf(a, b) == IF Lesser(order, a, b) THEN "left" ELSE "right"

Prio(k) == priority[order][entries[k]]

(* The descent stops at a free slot or at a node with smaller priority. *)
Descend ==
  /\ pc = "descend"
  /\ LET k == AtSlot(tree[order])
     IN  IF k = 0 THEN Linked(tree[order])
         ELSE IF Prio(k) < Prio(n)
           THEN /\ pc' = "splay" /\ t' = k /\ l' = 0 /\ r' = 0
                /\ UNCHANGED <<priority, entries, tree, order, slot, stack,
                               visited, storages>>
           ELSE /\ slot' = <<SideOf(n, k), k>>
                /\ UNCHANGED <<pc, priority, entries, tree, order, t, l, r,
                               stack, visited, storages>>

(* Child y of top on the given side becomes the top. *)
Rotate(x, side, top) ==
  LET y == x.child[side][top]
  IN  [x EXCEPT !.child[side][top] = x.child[Opposite(side)][y],
                !.child[Opposite(side)][y] = top]

(* The middle trees of top are forgotten. *)
Assemble_Dropped(x, top, lt, rt) ==
  LET b == [x EXCEPT !.child["left"][top] = x.child["right"][0],
                     !.child["right"][top] = x.child["left"][0]]
  IN  [b EXCEPT !.child["left"][0] = 0, !.child["right"][0] = 0]

(* The left and right trees are hung below top. *)
Assemble(x, top, lt, rt) ==
  LET a == [x EXCEPT !.child["right"][lt] = x.child["left"][top]]
      b == [a EXCEPT !.child["left"][rt] = a.child["right"][top]]
      c == [b EXCEPT !.child["left"][top] = b.child["right"][0],
                     !.child["right"][top] = b.child["left"][0]]
  IN  [c EXCEPT !.child["left"][0] = 0, !.child["right"][0] = 0]

(* Node n becomes the root of the assembled tree with top. *)
OnTop(x, top) ==
  LET side == SideOf(n, top)
  IN  [x EXCEPT !.child[side][n] = x.child[side][top],
                !.child[Opposite(side)][n] = top,
                !.child[side][top] = 0]

(* One turn of the top down splay: rotate if the next two steps go the     *)
(* same way, then link top into the tree of the nodes on its other side.   *)
Splay ==
  /\ pc = "splay"
  /\ LET x     == tree[order]
         side  == SideOf(n, t)
         y     == x.child[side][t]
         zig   == y # 0 /\ SideOf(n, y) = side
         x1    == IF zig THEN Rotate(x, side, t) ELSE x
         t1    == IF zig THEN y ELSE t
         below == IF side = "left" THEN r ELSE l
         ends  == y = 0 \/ x1.child[side][t1] = 0
         x2    == [x1 EXCEPT !.child[side][below] = t1]
     IN  IF ends THEN Linked(OnTop(Assemble(x1, t1, l, r), t1))
         ELSE /\ tree' = [tree EXCEPT ![order] = x2]
              /\ t' = x2.child[side][t1]
              /\ IF side = "left" THEN r' = t1 /\ UNCHANGED l
                                  ELSE l' = t1 /\ UNCHANGED r
              /\ UNCHANGED <<pc, priority, entries, order, slot, stack, visited,
                             storages>>

-------------------------------------------------------------------------------
(* The nodes from k down the left side, the last one on top of the stack. *)
Spine(x, k) ==
  LET f[j \in 0..n] == IF j = 0 THEN <<>> ELSE <<j>> \o f[x.child["left"][j]]
  IN  f[k]

(* begin(): the stack holds the null node below the left spine. *)
Begin ==
  /\ pc = "idle" /\ n > 0
  /\ storages = <<>> \/ DOMAIN storages = {"row"}
  /\ order' = IF storages = <<>> THEN "row" ELSE "col"
  /\ stack' = <<0>> \o Spine(tree[order'], tree[order'].root)
  /\ visited' = <<>> /\ pc' = "iterate"
  /\ UNCHANGED <<priority, entries, tree, slot, t, l, r, storages>>

(* next(): the node on top is returned, its right subtree follows. *)
NextEntry ==
  /\ pc = "iterate" /\ Last(stack) # 0
  /\ LET k == Last(stack)
     IN  /\ visited' = Append(visited, k)
         /\ stack' = Front(stack) \o
                     Spine(tree[order], tree[order].child["right"][k])
  /\ UNCHANGED <<pc, priority, entries, tree, order, slot, t, l, r, storages>>

(* Entry k has value k, so that entries can be told apart. *)
Value(k) == k

(***************************************************************************)
(* buildCSR() and buildCSC(): a row takes the entries of the traversal as  *)
(* long as they are its own.  Unlike in the constructor from triplets,     *)
(* only rows with entries are allotted space.                              *)
(***************************************************************************)
FromTraversal(o, nodes) ==
  LET nRows   == IF o = "row" THEN NRows ELSE NCols
      nCols   == IF o = "row" THEN NCols ELSE NRows
      key(k)  == Key(o, entries[k])
      first   == LET f[i \in 0..nRows] ==
                       IF i = 0 THEN 1
                       ELSE LET p == f[i - 1]
                                q == {j \in p..Len(nodes) + 1 :
                                        j > Len(nodes) \/ key(nodes[j])[1] # i - 1}
                            IN  Min(q)
                 IN  f
      content == [i \in 0..nRows - 1 |->
                    [j \in 1..first[i + 1] - first[i] |->
                       LET k == nodes[first[i] + j - 1]
                       IN  [col |-> key(k)[2], val |-> Value(k)]]]
      space(i) == IF content[i] = <<>> THEN 0 ELSE Len(content[i]) * 2 + 4
      nAlloc  == NAlloc(n, nRows, 2, 4)
      start   == [Starts(nRows, space) EXCEPT ![nRows] = nAlloc]
  IN [nRows |-> nRows, nCols |-> nCols, nnz |-> n, nAlloc |-> nAlloc,
      spare |-> 2, inter |-> 4, start |-> start,
      end   |-> [i \in 0..nRows |->
                   start[i] + IF i = nRows THEN 0 ELSE Len(content[i])],
      cells |-> Cells(nAlloc, start, content, nRows)]

(* The end of the traversal: the storage of this order is complete. *)
EndTraversal ==
  /\ pc = "iterate" /\ Last(stack) = 0
  /\ storages' = [o \in DOMAIN storages \cup {order} |->
                   IF o = order THEN FromTraversal(o, visited) ELSE storages[o]]
  /\ pc' = IF order = "row" THEN "idle" ELSE "built"
  /\ UNCHANGED <<priority, entries, tree, order, slot, t, l, r, stack, visited>>

Next == AddEntry \/ Descend \/ Splay \/ Begin \/ NextEntry \/ EndTraversal

Spec == Init /\ [][Next]_vars

-------------------------------------------------------------------------------
TypeOK ==
  /\ pc \in {"idle", "descend", "splay", "iterate", "built"}
  /\ \A o \in Orders, side \in Sides :
       tree[o].root \in 0..n /\ tree[o].child[side] \in [0..n -> 0..n]
  /\ t \in 0..n /\ l \in 0..n /\ r \in 0..n

(* findEntry(): the nodes on the way to a place, by the order of the tree. *)
FindEntry(o, place) ==
  LET x == tree[o]
      less(a, b) == a[1] < b[1] \/ (a[1] = b[1] /\ a[2] < b[2])
      f[k \in 0..n] ==
        IF k = 0 THEN 0
        ELSE IF less(Key(o, place), Key(o, entries[k])) THEN f[x.child["left"][k]]
        ELSE IF less(Key(o, entries[k]), Key(o, place)) THEN f[x.child["right"][k]]
        ELSE k
  IN  f[x.root]

(* After every addEntry() both trees find every entry added so far, and    *)
(* nothing else: the splay loses no subtree and puts none out of order.    *)
AllFound ==
  pc \in {"idle", "built"} =>
    \A o \in Orders, p \in Places :
      LET k == FindEntry(o, p)
      IN  IF \E j \in 1..n : entries[j] = p
            THEN k # 0 /\ entries[k] = p ELSE k = 0

(* The null node is as a new one finds it whenever no splay runs. *)
NullNodeClean ==
  pc # "splay" =>
    \A o \in Orders, side \in Sides : tree[o].child[side][0] = 0

(* A traversal returns the nodes of its order in increasing order, each    *)
(* once, and ends after the last one.                                      *)
TraversalSorted ==
  /\ \A j \in 1..Len(visited) - 1 : Lesser(order, visited[j], visited[j + 1])
  /\ pc = "iterate" /\ Last(stack) = 0 => Len(visited) = n

(* The two storages are well formed and transposes of each other.          *)
StoragesTransposed ==
  pc = "built" =>
    /\ WellFormed(storages["row"]) /\ WellFormed(storages["col"])
    /\ Triplets(storages["col"]) =
         {<<x[2], x[1], x[3]>> : x \in Triplets(storages["row"])}
    /\ Triplets(GetTranspose(storages["row"])) = Triplets(storages["col"])
    /\ Triplets(storages["row"]) =
         {<<entries[k][1], entries[k][2], Value(k)>> : k \in 1..n}

===============================================================================
