------------------------------ MODULE KeyTree -------------------------------
(***************************************************************************)
(* One VarTree and what the interpreter does with it: the tree of a scope, *)
(* of default arguments, of a list with named keys, or of the globals.     *)
(* Each of them is put to some of the operations: a use names those, the   *)
(* names and values bound, a bound on the nodes of the tree, which could   *)
(* grow for ever (a name that is no longer found is bound again), and the  *)
(* names that were bound before, in their order.                           *)
(***************************************************************************)
EXTENDS VarTree, SequencesExt

CONSTANTS Key, Data, Uses
ASSUME KeysOrdered == Key \subseteq Int
ASSUME NoneIsNoData == None \notin Data
ASSUME UsesKnown ==
    \A u \in Uses : /\ u.keys \subseteq Key /\ u.data \subseteq Data
                    /\ u.nodes \in Nat /\ u.before \in Seq(u.keys)

VARIABLES
    tree,
    use     \* which use the tree is put to

vars == <<tree, use>>

BoundIn(t, k, d) == IF t = Nil THEN newTree(k, d) ELSE insertInTree(t, k, d)

Init ==
    /\ use \in Uses
    /\ LET d == CHOOSE d \in use.data : TRUE
       IN  tree = FoldLeft(LAMBDA t, k : BoundIn(t, k, d), Nil, use.before)

(* set, scope() and for bind a name; the caller makes the first node       *)
(* (builtin.c:694-699, funcdef.c:90-93).                                   *)
Bind(k, d) ==
    /\ "bind" \in use.ops
    /\ Size(tree) < use.nodes \/ findNodeInTree(tree, k) # Nil
    /\ tree' = BoundIn(tree, k, d)

RECURSIVE NodeOf(_, _)
NodeOf(t, k) == IF t.key = k THEN t ELSE NodeOf(IF t.key < k THEN t.right ELSE t.left, k)

(* set(l.k ...) inserts in the tree of l's named keys and drops the new    *)
(* root insertInTree returns: the list goes on with the node that was the  *)
(* root, and what hangs below it.                                          *)
SetNamedKey(k, d) ==
    /\ "namedkey" \in use.ops
    /\ tree # Nil
    /\ Size(tree) < use.nodes \/ findNodeInTree(tree, k) # Nil
    /\ tree' = NodeOf(insertInTree(tree, k, d), tree.key)

(* for over a range, and save, take their variable out again.              *)
Unbind(k) ==
    /\ "unbind" \in use.ops
    /\ tree' = deleteInTree(tree, k)

(* cleanupFffll takes the builtins and the standard streams, each bound to *)
(* two names, out of the globals.                                          *)
UnbindData(d) ==
    /\ "unbinddata" \in use.ops
    /\ tree' = deleteDataInTree(tree, d)

(* scope() starts from a copy of the default arguments.                    *)
Copy ==
    /\ "copy" \in use.ops
    /\ tree' = copyTree(tree)

Next ==
    /\ \/ \E k \in use.keys, d \in use.data : Bind(k, d) \/ SetNamedKey(k, d)
       \/ \E k \in use.keys : Unbind(k)
       \/ \E d \in use.data : UnbindData(d)
       \/ Copy
    /\ UNCHANGED use

Spec == Init /\ [][Next]_vars

-----------------------------------------------------------------------------
(* A tree that names are only bound in.                                    *)
Grows == use.ops \subseteq {"bind", "namedkey", "copy"}

(* As long as names are only bound, they stay in search order, so that     *)
(* findInTree finds what was bound: after double rotations, and with a     *)
(* root that was forgotten (tree.c:173-261, builtin.c:628).                *)
OrderKept == Grows => Ordered(tree)

(* ... and the tree is an AVL tree, with the height of every node in its   *)
(* `count', which is what the next insertion decides by (tree.c:181-215):  *)
(* except in a copy, which is made with a count of 0 in every node.        *)
BalanceKept == Grows /\ "copy" \notin use.ops => Balanced(tree) /\ Counted(tree)

(* A scope is a map: binding a name gives it the new value, whether it was *)
(* bound or not, every other name keeps its own over all the rotations     *)
(* that causes, and a copy has the same; also after copying, which leaves  *)
(* wrong counts, and with a forgotten root (tree.c:22-30, 173-271).        *)
Contents(t) == [k \in use.keys |-> findInTree(t, k)]
BindExact ==
    Grows => /\ \A k \in use.keys, d \in use.data :
                   Contents(BoundIn(tree, k, d)) = [Contents(tree) EXCEPT ![k] = d]
             /\ Contents(copyTree(tree)) = Contents(tree)

(* deleteInTree takes out no node but the one with its key, whatever the   *)
(* tree looks like: moving keys up loses none (tree.c:32-117).             *)
UnbindSparesOthers ==
    [][\A k \in use.keys : Unbind(k) =>
         {n \in Nodes(tree) : n[1] # k} \subseteq Nodes(tree')]_vars

(* deleteDataInTree takes out exactly the nodes with its data, so that     *)
(* cleanup frees what is left once (tree.c:119-127, value.c:107-139).      *)
UnbindDataExact ==
    [][\A d \in use.data : UnbindData(d) =>
         Nodes(tree') = {n \in Nodes(tree) : n[2] # d}]_vars
=============================================================================
