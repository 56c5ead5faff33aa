----------------------------- MODULE MCKeyTree ------------------------------
(* The uses of a tree, small, and what tree.c says of itself.              *)
EXTENDS KeyTree

MCKeys == 1 .. 12
Bound(ops, n, data) ==
    [ops |-> ops, keys |-> 1 .. n, data |-> data, nodes |-> n, before |-> <<>>]

NamedKeys == Bound({"bind", "namedkey"}, 7, {"d"})
ScopeOf6 == Bound({"bind", "copy"}, 6, {"d", "e"})
Globals == [Bound({"bind", "unbinddata", "copy"}, 5, {"d", "e"}) EXCEPT !.nodes = 4]
LoopScope == Bound({"bind", "unbind"}, 5, {"d"})

(* Trees large enough that taking the root out rotates below it.           *)
Full(order) == [Bound({"unbind"}, 12, {"d"}) EXCEPT !.before = order]
Orders == {<<1, 2, 7, 6, 5, 4, 11, 12, 8, 3, 9, 10>>, <<1, 5, 3, 4, 9, 6, 8, 10, 2, 7, 11, 12>>,
           <<1, 2, 8, 7, 5, 3, 11, 12, 4, 6, 9, 10>>, <<1, 5, 9, 4, 8, 3, 7, 10, 6, 12, 2, 11>>}

AllUses == {NamedKeys, ScopeOf6, Globals, LoopScope} \cup {Full(o) : o \in Orders}

(* "Self-balancing" (tree.c:1): siblings' heights differ by one at most.   *)
SelfBalancing == Balanced(tree)

(* "binary search tree" (tree.c:1): names are in search order.             *)
BinarySearchTree == Ordered(tree)

(* "binary search tree" (tree.c:1): the key that deleteInTree is asked to  *)
(* delete is not found afterwards.                                         *)
UnbindRemoves == \A k \in Keys(tree) : findInTree(deleteInTree(tree, k), k) = None

(* A key that was in a list still accesses its value after `set' gave the  *)
(* list one more (README.md:71).                                           *)
NamedKeysStay ==
    [][\A k \in use.keys, d \in use.data :
         SetNamedKey(k, d) => Keys(tree) \subseteq Keys(tree')]_vars
=============================================================================
