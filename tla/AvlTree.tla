-------------------------------- MODULE AvlTree --------------------------------
(***************************************************************************)
(* The balanced trees under the tables of topology, routes, duplicates,    *)
(* gateways and candidates of the path computation (common/avl.c).  Nodes  *)
(* with equal keys hang behind their leader in the threaded list only.     *)
(* The code has each rotation and rebalancing twice, for left and right;   *)
(* here the side is a parameter.                                           *)
(***************************************************************************)
EXTENDS Integers, Sequences, FiniteSets

CONSTANTS AvlNodes, AvlKey, NoNode

VARIABLES tree,       \* struct avl_tree and the fields of all struct avl_node
          inserted    \* the nodes that are in the tree

avlVars == <<tree, inserted>>

AvlSides == {"left", "right"}
Opposite(s) == IF s = "left" THEN "right" ELSE "left"
Sign(s) == IF s = "left" THEN -1 ELSE 1
SideOf(T, p, n) == IF T.child["left"][p] = n THEN "left" ELSE "right"

(* The tree with v in place of node n under p; p is NoNode for the root.   *)
WithChild(T, p, s, v) ==
  IF p = NoNode THEN [T EXCEPT !.root = v] ELSE [T EXCEPT !.child[s][p] = v]
WithParent(T, n, p) == IF n = NoNode THEN T ELSE [T EXCEPT !.parent[n] = p]

avl_find_rec(T, key) ==
  LET find[n \in AvlNodes] ==
        LET s == IF key < AvlKey[n] THEN "left" ELSE "right"
        IN  IF key = AvlKey[n] \/ T.child[s][n] = NoNode THEN n ELSE find[T.child[s][n]]
  IN  find[T.root]

avl_find(T, key) ==
  IF T.root = NoNode \/ AvlKey[avl_find_rec(T, key)] # key THEN NoNode ELSE avl_find_rec(T, key)

(* avl_rotate_right lifts the left child, avl_rotate_left the right one.   *)
Rotate(T, node, s) ==
  LET up     == T.child[s][node]
      middle == T.child[Opposite(s)][up]
      parent == T.parent[node]
      bn     == Sign(s) * T.balance[node]
      bu     == Sign(s) * T.balance[up]
      bn1    == bn - 1 - (IF bu > 0 THEN bu ELSE 0)
      bu1    == bu - 1 + (IF bn1 < 0 THEN bn1 ELSE 0)
      T1     == WithChild(T, parent, IF parent = NoNode THEN s ELSE SideOf(T, parent, node), up)
      T2     == [WithParent(T1, middle, node) EXCEPT !.child[s][node] = middle,
                                                     !.child[Opposite(s)][up] = node]
  IN  [T2 EXCEPT !.parent[up] = parent, !.parent[node] = up,
                 !.balance[node] = Sign(s) * bn1, !.balance[up] = Sign(s) * bu1]

RECURSIVE post_insert(_, _)
post_insert(T, node) ==
  LET parent == T.parent[node]
      s      == SideOf(T, parent, node)
      U      == [T EXCEPT !.balance[parent] = @ + Sign(s)]
      V      == Rotate(U, node, Opposite(s))
  IN  IF parent = NoNode THEN T
      ELSE CASE U.balance[parent] = 0 -> U
             [] U.balance[parent] = Sign(s) -> post_insert(U, parent)
             [] OTHER -> IF U.balance[node] = Sign(s) THEN Rotate(U, parent, s)
                         ELSE Rotate(V, V.parent[V.parent[node]], s)

------------------------------------------------------------------------------
(* The threaded list.                                                      *)

avl_insert_before(T, pos, node) ==
  LET prev == T.prev[pos]
      U    == IF prev = NoNode THEN [T EXCEPT !.first = node] ELSE [T EXCEPT !.next[prev] = node]
  IN  [U EXCEPT !.prev[node] = prev, !.next[node] = pos, !.prev[pos] = node, !.count = @ + 1]

avl_insert_after(T, pos, node) ==
  LET next == T.next[pos]
      U    == IF next = NoNode THEN [T EXCEPT !.last = node] ELSE [T EXCEPT !.prev[next] = node]
  IN  [U EXCEPT !.prev[node] = pos, !.next[node] = next, !.next[pos] = node, !.count = @ + 1]

avl_remove(T, node) ==
  LET prev == T.prev[node]
      next == T.next[node]
      U    == IF prev = NoNode THEN [T EXCEPT !.first = next] ELSE [T EXCEPT !.next[prev] = next]
      V    == IF next = NoNode THEN [U EXCEPT !.last = prev] ELSE [U EXCEPT !.prev[next] = prev]
  IN  [V EXCEPT !.count = @ - 1]

(* The fields of a node outside the tree; avl_insert sets them all.        *)
BlankNode(T, n) ==
  [T EXCEPT !.parent[n] = NoNode, !.child["left"][n] = NoNode, !.child["right"][n] = NoNode,
            !.next[n] = NoNode, !.prev[n] = NoNode, !.balance[n] = 0, !.leader[n] = TRUE]

(* Mutant: a new node goes in behind the leader of the equal ones.         *)
LeaderItself(T, n) == n

(* The last of the nodes with the key of n.                                *)
LastEqual(T, n) ==
  LET last[m \in AvlNodes] ==
        IF T.next[m] # NoNode /\ ~T.leader[T.next[m]] THEN last[T.next[m]] ELSE m
  IN  last[n]

(* The new node hangs under the node where the search for its key ends.    *)
avl_insert(T, new, duplicates) ==
  LET B     == BlankNode(T, new)
      node  == avl_find_rec(B, AvlKey[new])
      last  == LastEqual(B, node)
      under(s) == LET L == IF s = "left" THEN avl_insert_before(B, node, new)
                           ELSE avl_insert_after(B, last, new)
                  IN  [L EXCEPT !.parent[new] = node, !.child[s][node] = new]
      side  == IF AvlKey[new] < AvlKey[node] THEN "left" ELSE "right"
  IN  CASE T.root = NoNode -> [B EXCEPT !.root = new, !.first = new, !.last = new, !.count = 1]
        [] T.root # NoNode /\ AvlKey[new] = AvlKey[node] ->
             IF duplicates THEN [avl_insert_after(B, last, new) EXCEPT !.leader[new] = FALSE] ELSE T
        [] OTHER ->
             IF T.balance[node] = 1 THEN [under("left") EXCEPT !.balance[node] = 0]
             ELSE IF T.balance[node] = -1 THEN [under("right") EXCEPT !.balance[node] = 0]
             ELSE post_insert([under(side) EXCEPT !.balance[node] = Sign(side)], node)

------------------------------------------------------------------------------
(* Mutant: the change of the height is not passed on after a rotation.     *)
ShortenedHere(T, parent, s) ==
  LET o == Opposite(s)
      U == [T EXCEPT !.balance[parent] = @ + Sign(o)]
      sibling == U.child[o][parent]
  IN  IF U.balance[parent] \in {0, Sign(o)} THEN U
      ELSE IF U.balance[sibling] \in {0, Sign(o)} THEN Rotate(U, parent, o)
      ELSE Rotate(Rotate(U, sibling, s), parent, o)

RECURSIVE Shortened(_, _, _)
(* The tree under parent has become one lower on side s.                   *)
Shortened(T, parent, s) ==
  LET o == Opposite(s)
      U == [T EXCEPT !.balance[parent] = @ + Sign(o)]
      sibling == U.child[o][parent]
      up(W, n) == IF W.parent[n] = NoNode THEN W    \* avl_post_delete
                  ELSE Shortened(W, W.parent[n], SideOf(W, W.parent[n], n))
      rotated(W) == LET R == Rotate(W, parent, o) IN up(R, R.parent[parent])
  IN  CASE U.balance[parent] = 0 -> up(U, parent)
        [] U.balance[parent] = Sign(o) -> U
        [] OTHER -> IF U.balance[sibling] = 0 THEN Rotate(U, parent, o)
                    ELSE IF U.balance[sibling] = Sign(o) THEN rotated(U)
                    ELSE rotated(Rotate(U, sibling, s))

avl_post_delete(T, node) ==
  IF T.parent[node] = NoNode THEN T
  ELSE Shortened(T, T.parent[node], SideOf(T, T.parent[node], node))

avl_local_min(T, node) ==
  LET min[n \in AvlNodes] == IF T.child["left"][n] = NoNode THEN n ELSE min[T.child["left"][n]]
  IN  min[node]

(* A node with one child at most leaves the tree.                          *)
DeleteOuter(T, node) ==
  LET parent == T.parent[node]
      s      == SideOf(T, parent, node)
      only   == IF T.child["left"][node] = NoNode THEN T.child["right"][node] ELSE T.child["left"][node]
  IN  IF only = NoNode
      THEN IF parent = NoNode THEN [T EXCEPT !.root = NoNode]
           ELSE Shortened([T EXCEPT !.child[s][parent] = NoNode], parent, s)
      ELSE IF parent = NoNode THEN [T EXCEPT !.root = only, !.parent[only] = NoNode]
           ELSE avl_post_delete([T EXCEPT !.child[s][parent] = only, !.parent[only] = parent], only)

(* Node n takes the place of node.                                         *)
TakesPlace(T, node, n) ==
  LET parent == T.parent[node]
      U == [T EXCEPT !.balance[n] = T.balance[node], !.parent[n] = parent,
                     !.child["left"][n] = T.child["left"][node],
                     !.child["right"][n] = T.child["right"][node]]
      V == WithParent(WithParent(U, T.child["left"][node], n), T.child["right"][node], n)
  IN  WithChild(V, parent, IF parent = NoNode THEN "left" ELSE SideOf(T, parent, node), n)

avl_delete_worker(T, node) ==
  LET min == avl_local_min(T, T.child["right"][node])
  IN  IF NoNode \in {T.child["left"][node], T.child["right"][node]} THEN DeleteOuter(T, node)
      ELSE TakesPlace(DeleteOuter(T, min), node, min)

avl_delete(T, node) ==
  LET next == T.next[node]
      U == IF ~T.leader[node] THEN T
           ELSE IF next # NoNode /\ ~T.leader[next]
                THEN TakesPlace([T EXCEPT !.leader[next] = TRUE], node, next)
                ELSE avl_delete_worker(T, node)
  IN  BlankNode(avl_remove(U, node), node)

------------------------------------------------------------------------------
AvlInit ==
  /\ LET none == [n \in AvlNodes |-> NoNode]
     IN  tree = [root |-> NoNode, first |-> NoNode, last |-> NoNode, count |-> 0,
                 parent |-> none, child |-> [s \in AvlSides |-> none], next |-> none, prev |-> none,
                 balance |-> [n \in AvlNodes |-> 0], leader |-> [n \in AvlNodes |-> TRUE]]
  /\ inserted = {}

AvlInsert(n, duplicates) ==
  /\ n \notin inserted
  /\ tree' = avl_insert(tree, n, duplicates)
  /\ inserted' = IF tree' = tree THEN inserted ELSE inserted \cup {n}

AvlDelete(n) ==
  n \in inserted /\ tree' = avl_delete(tree, n) /\ inserted' = inserted \ {n}

AvlNext ==
  \E n \in AvlNodes : AvlDelete(n) \/ \E duplicates \in BOOLEAN : AvlInsert(n, duplicates)

AvlSpec == AvlInit /\ [][AvlNext]_avlVars

------------------------------------------------------------------------------
RECURSIVE Walk(_)
Walk(n) == IF n = NoNode THEN <<>> ELSE <<n>> \o Walk(tree.next[n])
Listed == Walk(tree.first)

RECURSIVE Height(_)
Height(n) ==
  LET l == Height(tree.child["left"][n])
      r == Height(tree.child["right"][n])
  IN  IF n = NoNode THEN 0 ELSE 1 + (IF l > r THEN l ELSE r)

List == INSTANCE SortedList WITH Items <- AvlNodes, KeyOf <- AvlKey, order <- Listed

(* A walk along the tree sees a list sorted by key, with equal keys in the *)
(* order of insertion; a node is refused only for a key that is there and  *)
(* must be unique (avl_insert, avl_delete).                                *)
TreeIsSortedList == List!ListSpec

(* The tree stays balanced, its balances are the differences of heights,   *)
(* a search from the root finds the first node of each key, links to       *)
(* parents and backwards agree with those to children and onwards, and the *)
(* count is that of the nodes.                                             *)
TreeBalanced ==
  /\ \A n \in inserted :
       /\ tree.leader[n] =>
            /\ tree.balance[n] = Height(tree.child["right"][n]) - Height(tree.child["left"][n])
            /\ tree.balance[n] \in -1 .. 1
            /\ avl_find(tree, AvlKey[n]) = n
            /\ \A s \in AvlSides : tree.child[s][n] # NoNode => tree.parent[tree.child[s][n]] = n
       /\ IF tree.next[n] = NoNode THEN tree.last = n ELSE tree.prev[tree.next[n]] = n
  /\ \A n \in AvlNodes : avl_find(tree, AvlKey[n]) # NoNode => avl_find(tree, AvlKey[n]) \in inserted
  /\ tree.root # NoNode => tree.parent[tree.root] = NoNode
  /\ tree.count = Cardinality(inserted)
==============================================================================
