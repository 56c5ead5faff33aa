----------------------------- MODULE MCHeapList -----------------------------
(* Two users of HeapList, on pools of two nodes and arrays that start with *)
(* room for one entry.  Stacks: varlist, jmplist, yyinlist, buffernames    *)
(* and parseTreeList.  Queues: statement lists, the elements of key-value  *)
(* lists, stringlist and numlist.  One node of the last pool is left when  *)
(* all handles hold one, so that it could be cut too early.                *)
EXTENDS ListContents, TLC

Stack == {"push", "pop", "delete"}
Queue == {"add", "delete", "clone", "free"}
StacksAndQueues == {Stack, Queue}

Symmetry == Permutations(Data) \cup Permutations(List)

(* Which handle holds a node makes no difference.                          *)
WithoutHandles == <<manager, pools, maxpools, next, free, freelen, heap, Held, listVars>>
=============================================================================
