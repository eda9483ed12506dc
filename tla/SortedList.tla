------------------------------ MODULE SortedList ------------------------------
(***************************************************************************)
(* What the AVL trees promise to the tables that are built on them: a list *)
(* in the order of the keys, and of insertion among equal ones.            *)
(***************************************************************************)
EXTENDS Integers, Sequences, SequencesExt

CONSTANTS Items, KeyOf
VARIABLE order

ListInsert(n, duplicates) ==
  /\ n \notin Range(order)
  /\ duplicates \/ \A m \in Range(order) : KeyOf[m] # KeyOf[n]
  /\ LET low(m) == KeyOf[m] <= KeyOf[n]
     IN  order' = Append(SelectSeq(order, low), n) \o SelectSeq(order, LAMBDA m : ~low(m))

ListDelete(n) == n \in Range(order) /\ order' = SelectSeq(order, LAMBDA m : m # n)

ListInit == order = <<>>

ListNext ==
  \E n \in Items : ListDelete(n) \/ \E duplicates \in BOOLEAN : ListInsert(n, duplicates)

ListSpec == ListInit /\ [][ListNext]_order
==============================================================================
