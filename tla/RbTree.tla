------------------------------- MODULE RbTree -------------------------------
(***************************************************************************)
(* The red-black tree that holds memory areas, cached pages and timers, as *)
(* the pointer algorithm of the code, against a sorted sequence in which   *)
(* equal keys stay in the order of their insertion.                        *)
(*                                                                         *)
(* dsa/rbtree.c                                                            *)
(***************************************************************************)
EXTENDS Integers, SequencesExt

CONSTANTS
    RbNodes,    \* the nodes are 1 .. RbNodes
    RbSame      \* how many consecutive nodes have the same key

Nil == 0
Node == 1 .. RbNodes
key(n) == (n + RbSame - 1) \div RbSame
Other(s) == IF s = "left" THEN "right" ELSE "left"

VARIABLES
    tree,     \* [root, parent, kid, red]; kid[side][node]
    order     \* the nodes of the tree in sorted order

rbVars == <<tree, order>>

jlos_rbtree_init ==
    [root |-> Nil, parent |-> [n \in 0 .. RbNodes |-> Nil], red |-> [n \in 0 .. RbNodes |-> FALSE],
     kid |-> [s \in {"left", "right"} |-> [n \in 0 .. RbNodes |-> Nil]]]

\* v takes the place of u under u's parent.
Replace(T, u, v) ==
    LET p == T.parent[u]
        s == IF u = T.kid["left"][p] THEN "left" ELSE "right"
    IN  IF p = Nil THEN [T EXCEPT !.root = v] ELSE [T EXCEPT !.kid[s][p] = v]

\* The child's inner subtree changes sides.
Rotate(T, x, s) ==
    LET y == T.kid[Other(s)][x]
        inner == T.kid[s][y]
        T1 == [Replace(T, x, y) EXCEPT !.kid[Other(s)][x] = inner, !.parent[y] = T.parent[x]]
        T2 == IF inner = Nil THEN T1 ELSE [T1 EXCEPT !.parent[inner] = x]
    IN  [T2 EXCEPT !.kid[s][y] = x, !.parent[x] = y]

rbtree_left_rotate(T, x) == Rotate(T, x, "left")
rbtree_right_rotate(T, x) == Rotate(T, x, "right")
Turn(T, x, s) == IF s = "left" THEN rbtree_left_rotate(T, x) ELSE rbtree_right_rotate(T, x)

\* The node is a left child of its parent; a node that is not counts as right.
SideOf(T, n) == IF n = T.kid["left"][T.parent[n]] THEN "left" ELSE "right"

RECURSIVE rbtree_insert_fixup(_, _)
rbtree_insert_fixup(T, z) ==
    LET p == T.parent[z]
        g == T.parent[p]
        s == SideOf(T, p)
        y == T.kid[Other(s)][g]
        inside == z = T.kid[Other(s)][p]
        T1 == IF inside THEN Turn(T, p, s) ELSE T
        z1 == IF inside THEN p ELSE z
        p1 == T1.parent[z1]
        g1 == T1.parent[p1]
    IN  IF ~T.red[p] THEN [T EXCEPT !.red[T.root] = FALSE]
        ELSE IF T.red[y]
        THEN rbtree_insert_fixup([T EXCEPT !.red[p] = FALSE, !.red[y] = FALSE, !.red[g] = TRUE], g)
        ELSE rbtree_insert_fixup(
               Turn([T1 EXCEPT !.red[p1] = FALSE, !.red[g1] = TRUE], g1, Other(s)), z1)

\* The leaf under which z goes, and the side.
RECURSIVE Descend(_, _, _, _)
Descend(T, z, y, x) ==
    IF x = Nil THEN y
    ELSE Descend(T, z, x, T.kid[IF key(z) < key(x) THEN "left" ELSE "right"][x])

\* A red leaf, then the repair.
jlos_rbtree_insert(T, z) ==
    LET y == Descend(T, z, Nil, T.root)
        T1 == [T EXCEPT !.parent[z] = y, !.red[z] = TRUE]
        T2 == IF y = Nil THEN [T1 EXCEPT !.root = z]
              ELSE [T1 EXCEPT !.kid[IF key(z) < key(y) THEN "left" ELSE "right"][y] = z]
    IN  rbtree_insert_fixup([T2 EXCEPT !.kid["left"][z] = Nil, !.kid["right"][z] = Nil], z)

rbtree_transplant(T, u, v) == [Replace(T, u, v) EXCEPT !.parent[v] = T.parent[u]]

RECURSIVE rbtree_delete_fixup(_, _)
rbtree_delete_fixup(T, x) ==
    LET s == SideOf(T, x)
        o == Other(s)
        p == T.parent[x]
        w0 == T.kid[o][p]
        T1 == IF T.red[w0] THEN Turn([T EXCEPT !.red[w0] = FALSE, !.red[p] = TRUE], p, s) ELSE T
        p1 == T1.parent[x]
        w1 == T1.kid[o][p1]
        near == T1.kid[s][w1]
        T2 == IF T1.red[T1.kid[o][w1]] THEN T1
              ELSE Turn([T1 EXCEPT !.red[near] = FALSE, !.red[w1] = TRUE], w1, o)
        p2 == T2.parent[x]
        w2 == T2.kid[o][p2]
        T3 == Turn([T2 EXCEPT !.red[w2] = T2.red[p2], !.red[p2] = FALSE,
                              !.red[T2.kid[o][w2]] = FALSE], p2, s)
    IN  IF x = T.root \/ T.red[x] THEN [T EXCEPT !.red[x] = FALSE]
        ELSE IF ~T1.red[near] /\ ~T1.red[T1.kid[o][w1]]
        THEN rbtree_delete_fixup([T1 EXCEPT !.red[w1] = TRUE], p1)
        ELSE rbtree_delete_fixup(T3, T3.root)

RECURSIVE Outermost(_, _, _)
Outermost(T, x, s) == IF T.kid[s][x] = Nil THEN x ELSE Outermost(T, T.kid[s][x], s)

rbtree_minimum(T, x) == Outermost(T, x, "left")
rbtree_maximum(T, x) == Outermost(T, x, "right")

\* Fault: the successor does not take over the left subtree.
SpliceSuccessor_LeftLost(T, z) ==
    LET y == rbtree_minimum(T, T.kid["right"][z])
        x == T.kid["right"][y]
        T1 == IF T.parent[y] = z THEN [T EXCEPT !.parent[x] = y]
              ELSE LET U == rbtree_transplant(T, y, x)
                   IN  [U EXCEPT !.kid["right"][y] = U.kid["right"][z],
                                 !.parent[U.kid["right"][z]] = y]
        T2 == rbtree_transplant(T1, z, y)
    IN  [tree |-> [T2 EXCEPT !.red[y] = T2.red[z]], x |-> x, red |-> T.red[y]]

\* The successor of the removed node takes its place.
SpliceSuccessor(T, z) ==
    LET y == rbtree_minimum(T, T.kid["right"][z])
        x == T.kid["right"][y]
        T1 == IF T.parent[y] = z THEN [T EXCEPT !.parent[x] = y]
              ELSE LET U == rbtree_transplant(T, y, x)
                   IN  [U EXCEPT !.kid["right"][y] = U.kid["right"][z],
                                 !.parent[U.kid["right"][z]] = y]
        T2 == rbtree_transplant(T1, z, y)
    IN  [tree |-> [T2 EXCEPT !.kid["left"][y] = T2.kid["left"][z],
                             !.parent[T2.kid["left"][z]] = y, !.red[y] = T2.red[z]],
         x |-> x, red |-> T.red[y]]

Removed(T, z) ==
    CASE T.kid["left"][z] = Nil ->
           [tree |-> rbtree_transplant(T, z, T.kid["right"][z]), x |-> T.kid["right"][z], red |-> T.red[z]]
      [] T.kid["left"][z] # Nil /\ T.kid["right"][z] = Nil ->
           [tree |-> rbtree_transplant(T, z, T.kid["left"][z]), x |-> T.kid["left"][z], red |-> T.red[z]]
      [] OTHER -> SpliceSuccessor(T, z)

\* The links of a node outside the tree, and the parent of nil, are not read.
Cleared(T, z) ==
    [T EXCEPT !.parent = [n \in 0 .. RbNodes |-> IF n \in {Nil, z} THEN Nil ELSE @[n]],
              !.kid["left"][z] = Nil, !.kid["right"][z] = Nil, !.red[z] = FALSE]

\* When the colour that left the tree was black, paths are repaired.
jlos_rbtree_remove(T, z) ==
    LET r == Removed(T, z)
    IN  Cleared(IF r.red THEN r.tree ELSE rbtree_delete_fixup(r.tree, r.x), z)
---------------------------------------------------------------------------
(* Lookups and traversal                                                   *)

RECURSIVE FindLe(_, _, _, _)
FindLe(T, k, x, best) ==
    IF x = Nil THEN best
    ELSE IF key(x) <= k THEN FindLe(T, k, T.kid["right"][x], x)
    ELSE FindLe(T, k, T.kid["left"][x], best)
jlos_rbtree_find_key_le(T, k) == FindLe(T, k, T.root, Nil)
jlos_rbtree_find_le(T, n) == FindLe(T, key(n), T.root, Nil)

RECURSIVE Find(_, _, _)
Find(T, k, x) ==
    IF x = Nil \/ key(x) = k THEN x
    ELSE Find(T, k, T.kid[IF key(x) < k THEN "right" ELSE "left"][x])
jlos_rbtree_find_key(T, k) == Find(T, k, T.root)
jlos_rbtree_find(T, n) == Find(T, key(n), T.root)

RECURSIVE Climb(_, _, _)
Climb(T, x, s) ==
    LET y == T.parent[x] IN IF y # Nil /\ x = T.kid[s][y] THEN Climb(T, y, s) ELSE y

\* The first node of the right subtree, else the first ancestor to the right.
jlos_rbtree_next(T, x) ==
    IF T.kid["right"][x] # Nil THEN rbtree_minimum(T, T.kid["right"][x]) ELSE Climb(T, x, "right")
jlos_rbtree_prev(T, x) ==
    IF T.kid["left"][x] # Nil THEN rbtree_maximum(T, T.kid["left"][x]) ELSE Climb(T, x, "left")
jlos_rbtree_first(T) == IF T.root = Nil THEN Nil ELSE rbtree_minimum(T, T.root)
jlos_rbtree_last(T) == IF T.root = Nil THEN Nil ELSE rbtree_maximum(T, T.root)
---------------------------------------------------------------------------
Member == {order[i] : i \in 1 .. Len(order)}

RbInit == tree = jlos_rbtree_init /\ order = <<>>

RbInsert(z) ==
    /\ z \in Node \ Member
    /\ tree' = jlos_rbtree_insert(tree, z)
    /\ order' = SelectSeq(order, LAMBDA n : key(n) <= key(z)) \o <<z>>
                \o SelectSeq(order, LAMBDA n : key(n) > key(z))

RbRemove(z) ==
    /\ z \in Member
    /\ tree' = jlos_rbtree_remove(tree, z) /\ order' = SelectSeq(order, LAMBDA n : n # z)

RbNext == \E z \in Node : RbInsert(z) \/ RbRemove(z)

RbSpec == RbInit /\ [][RbNext]_rbVars
---------------------------------------------------------------------------
RECURSIVE BlackHeight(_, _), InOrder(_, _)
\* -1 when two paths below n differ
BlackHeight(T, n) ==
    IF n = Nil THEN 0
    ELSE LET a == BlackHeight(T, T.kid["left"][n])
         IN  IF a = -1 \/ a # BlackHeight(T, T.kid["right"][n]) THEN -1
             ELSE a + (IF T.red[n] THEN 0 ELSE 1)
InOrder(T, n) ==
    IF n = Nil THEN <<>> ELSE InOrder(T, T.kid["left"][n]) \o <<n>> \o InOrder(T, T.kid["right"][n])

\* After every sequence of insertions and removals all paths have the same
\* number of black nodes and no red node has a red child, so that the height
\* stays logarithmic.
RbBalanced ==
    /\ BlackHeight(tree, tree.root) # -1 /\ ~tree.red[tree.root] /\ ~tree.red[Nil]
    /\ \A n \in Member : tree.red[n] =>
         \A s \in {"left", "right"} : ~tree.red[tree.kid[s][n]]

\* The tree holds exactly the inserted nodes, sorted, equal keys in the order
\* of insertion.
RbHoldsOrder == InOrder(tree, tree.root) = order

\* Traversal in both directions and the lookups agree with the sorted sequence:
\* every parent link that they climb is right.
RbLookups ==
    LET at(i) == IF i \in 1 .. Len(order) THEN order[i] ELSE Nil
        le(k) == SelectSeq(order, LAMBDA n : key(n) <= k)
    IN  /\ jlos_rbtree_first(tree) = at(1) /\ jlos_rbtree_last(tree) = at(Len(order))
        /\ \A i \in 1 .. Len(order) :
             /\ jlos_rbtree_next(tree, order[i]) = at(i + 1)
             /\ jlos_rbtree_prev(tree, order[i]) = at(i - 1)
        /\ \A k \in 0 .. key(RbNodes) + 1 :
             /\ jlos_rbtree_find_key_le(tree, k) = IF le(k) = <<>> THEN Nil ELSE Last(le(k))
             /\ LET f == jlos_rbtree_find_key(tree, k)
                IN  IF \E n \in Member : key(n) = k THEN f \in Member /\ key(f) = k ELSE f = Nil
        /\ \A n \in Node : /\ jlos_rbtree_find(tree, n) = jlos_rbtree_find_key(tree, key(n))
                           /\ jlos_rbtree_find_le(tree, n) = jlos_rbtree_find_key_le(tree, key(n))
=============================================================================
