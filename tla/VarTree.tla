------------------------------ MODULE VarTree -------------------------------
(***************************************************************************)
(* The VarTree of src/src/tree.c: the search tree behind every scope,      *)
(* every keyword argument list and every list with named keys.  Keys are   *)
(* the addresses of interned names, so any order of them can occur.        *)
(*                                                                         *)
(* A tree is Nil or a record; `count' is the field the code rebalances by. *)
(***************************************************************************)
EXTENDS Integers, FiniteSets

Nil == <<>>

newTree(k, d) == [key |-> k, data |-> d, count |-> 0, left |-> Nil, right |-> Nil]

Opp(side) == IF side = "left" THEN "right" ELSE "left"
Count(t) == IF t = Nil THEN -1 ELSE t.count
Recounted(t) ==
    [t EXCEPT !.count = 1 + (IF Count(t.left) > Count(t.right)
                             THEN Count(t.left) ELSE Count(t.right))]

-----------------------------------------------------------------------------
(* Searching.                                                              *)
RECURSIVE findNodeInTree(_, _)
findNodeInTree(t, k) ==
    IF t = Nil \/ t.key = k THEN t
    ELSE findNodeInTree(IF t.key < k THEN t.right ELSE t.left, k)

None == "none"

findInTree(t, k) ==
    LET n == findNodeInTree(t, k) IN IF n = Nil THEN None ELSE n.data

-----------------------------------------------------------------------------
(* Inserting.                                                              *)

\* Bug: the double rotation is left out.
SinglePivot(c, near) == c

(* The child that is to take the root's place: t[near] itself, or, after a *)
(* first rotation, its inner child.                                        *)
Pivot(c, near) ==
    LET far == Opp(near) IN
    IF c[far] # Nil /\ (c[near] = Nil \/ c[far].count > c[near].count)
    THEN [c[far] EXCEPT ![near] = Recounted([c EXCEPT ![far] = c[far][near]])]
    ELSE c

\* Bug: keys are exchanged instead of nodes, and their data stays behind.
RotateKeysOnly(t, near) ==
    LET far == Opp(near)
        up == Pivot(t[near], near)
        down == Recounted([t EXCEPT ![near] = up[far], !.data = up.data])
    IN  [up EXCEPT ![far] = down, !.data = t.data, !.count = down.count + 1]

\* Bug: the pivot's inner subtree stays under it, at the outer side.
RotateInsideOut(t, near) ==
    LET far == Opp(near)
        up == Pivot(t[near], near)
        down == Recounted([t EXCEPT ![near] = up[near]])
    IN  [up EXCEPT ![far] = down, ![near] = up[far], !.count = down.count + 1]

(* t[near] has become too deep: it takes t's place.                        *)
Rotate(t, near) ==
    LET far == Opp(near)
        up == Pivot(t[near], near)
        down == Recounted([t EXCEPT ![near] = up[far]])
    IN  [up EXCEPT ![far] = down, !.count = down.count + 1]

RECURSIVE recurInsertInTree(_, _, _)
recurInsertInTree(t, k, d) ==
    LET near == IF k < t.key THEN "left" ELSE "right"
        far == Opp(near)
    IN  IF t[near] = Nil
        THEN [t EXCEPT ![near] = newTree(k, d), !.count = IF @ = 0 THEN 1 ELSE @]
        ELSE LET c == recurInsertInTree(t[near], k, d)
                 grown == [t EXCEPT ![near] = c]
             IN  IF c.count # t.count THEN grown
                 ELSE IF t[far] = Nil \/ c.count - t[far].count > 1
                 THEN Rotate(grown, near)
                 ELSE [grown EXCEPT !.count = @ + 1]

RECURSIVE Update(_, _, _)
Update(t, k, d) ==
    IF t.key = k THEN [t EXCEPT !.data = d]
    ELSE IF t.key < k THEN [t EXCEPT !.right = Update(@, k, d)]
    ELSE [t EXCEPT !.left = Update(@, k, d)]

insertInTree(t, k, d) ==
    IF findNodeInTree(t, k) # Nil THEN Update(t, k, d) ELSE recurInsertInTree(t, k, d)

RECURSIVE copyTree(_)
copyTree(t) ==
    IF t = Nil THEN Nil
    ELSE [newTree(t.key, t.data) EXCEPT !.left = copyTree(t.left),
                                        !.right = copyTree(t.right)]

-----------------------------------------------------------------------------
(* Deleting.  recurDeleteInTree empties the root of t by moving a key up   *)
(* from below.                                                             *)

Leaf(t) == t.left = Nil /\ t.right = Nil

MoveUp(t, n) == [t EXCEPT !.key = n.key, !.data = n.data]

\* Bug: the child that goes down is not hung under the one that comes up.
RebalancedLosing(c, near, n) ==
    LET far == Opp(near)
        cn == IF n = Nil THEN 0 ELSE n.count
    IN  IF c[far] # Nil /\ c[far].count - cn > 1
        THEN Recounted(c[far])
        ELSE Recounted([c EXCEPT ![near] = n])

(* The child c of the root has lost a node from its `near' side, which is  *)
(* now n.  Too deep a `far' side is rotated up; the node that goes down    *)
(* keeps the count of n (tree.c:51-69, 75-94).                             *)
Rebalanced(c, near, n) ==
    LET far == Opp(near)
        cn == IF n = Nil THEN 0 ELSE n.count
        rest == [c EXCEPT ![near] = n]
    IN  IF c[far] # Nil /\ c[far].count - cn > 1
        THEN Recounted([c[far] EXCEPT ![near] =
               [rest EXCEPT ![far] = c[far][near], !.count = cn]])
        ELSE Recounted(rest)

RECURSIVE recurDeleteInTree(_)

(* The root's key comes from the child on that side, and the child is      *)
(* emptied in its turn.                                                    *)
MoveChildUp(t, side) ==
    Recounted([MoveUp(t, t[side]) EXCEPT ![side] = recurDeleteInTree(@)])

(* The root's key comes from the child's child on the side of the root.    *)
MoveInnerUp(t, side) ==
    LET near == Opp(side)
        n == t[side][near]
    IN  [MoveUp(t, n) EXCEPT ![side] = Rebalanced(@, near, recurDeleteInTree(n))]

recurDeleteInTree(t) ==
    IF t = Nil \/ Leaf(t) THEN Nil
    ELSE IF t.left = Nil THEN MoveChildUp(t, "right")
    ELSE IF t.right = Nil \/ (t.left.right = Nil /\ Leaf(t.right))
    THEN MoveChildUp(t, "left")
    ELSE IF t.right.left # Nil /\ (t.right.right # Nil \/ t.left.right = Nil)
    THEN MoveInnerUp(t, "right")
    ELSE IF t.left.right # Nil THEN MoveInnerUp(t, "left")
    ELSE MoveChildUp(t, "right")

\* Bug: the data is looked at before the subtrees are cleaned.
RECURSIVE deleteDataTopDown(_, _)
deleteDataTopDown(t, d) ==
    IF t = Nil THEN Nil
    ELSE IF t.data = d THEN recurDeleteInTree(t)
    ELSE [t EXCEPT !.left = deleteDataTopDown(@, d), !.right = deleteDataTopDown(@, d)]

RECURSIVE deleteDataInTree(_, _)
deleteDataInTree(t, d) ==
    IF t = Nil THEN Nil
    ELSE LET rest == [t EXCEPT !.left = deleteDataInTree(@, d),
                               !.right = deleteDataInTree(@, d)]
         IN  IF t.data = d THEN recurDeleteInTree(rest) ELSE rest

(* The search for the key to delete: note the sides.                       *)
RECURSIVE deleteInTree(_, _)
deleteInTree(t, k) ==
    IF t = Nil THEN Nil
    ELSE IF t.key = k THEN recurDeleteInTree(t)
    ELSE IF t.key < k THEN [t EXCEPT !.left = deleteInTree(@, k)]
    ELSE [t EXCEPT !.right = deleteInTree(@, k)]

-----------------------------------------------------------------------------
(* What a tree should be.                                                  *)

RECURSIVE Nodes(_)
Nodes(t) ==
    IF t = Nil THEN {}
    ELSE {<<t.key, t.data>>} \cup Nodes(t.left) \cup Nodes(t.right)

Keys(t) == {n[1] : n \in Nodes(t)}

RECURSIVE Ordered(_)
Ordered(t) ==
    t # Nil => /\ \A k \in Keys(t.left) : k < t.key
               /\ \A k \in Keys(t.right) : k > t.key
               /\ Ordered(t.left) /\ Ordered(t.right)

RECURSIVE Height(_)
Height(t) ==
    IF t = Nil THEN -1
    ELSE 1 + (IF Height(t.left) > Height(t.right) THEN Height(t.left) ELSE Height(t.right))

RECURSIVE Balanced(_)
Balanced(t) ==
    t # Nil => /\ Height(t.left) - Height(t.right) \in -1 .. 1
               /\ Balanced(t.left) /\ Balanced(t.right)

RECURSIVE Counted(_)
Counted(t) == t # Nil => t.count = Height(t) /\ Counted(t.left) /\ Counted(t.right)

RECURSIVE Size(_)
Size(t) == IF t = Nil THEN 0 ELSE 1 + Size(t.left) + Size(t.right)
=============================================================================
