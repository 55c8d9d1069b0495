---------------------------- MODULE AscendingLists -----------------------------
(***************************************************************************)
(* Lists that loops over numbered columns and rows produce: the numbers    *)
(* that a condition picks, from the first to the last.                     *)
(***************************************************************************)
EXTENDS Integers, FiniteSets, Sequences

(* The numbers of a set in ascending order. *)
Ascending(set) ==
  [k \in 1..Cardinality(set) |->
     CHOOSE i \in set : Cardinality({j \in set : j <= i}) = k]

===============================================================================
