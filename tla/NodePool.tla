------------------------------ MODULE NodePool ------------------------------
(***************************************************************************)
(* What the list-node allocator of src/src/list.c promises its callers:    *)
(* allocList hands out a node nobody holds, and freeListNode takes a node  *)
(* back.  Where nodes come from is left to ListAlloc, which implements     *)
(* this module.                                                            *)
(***************************************************************************)
CONSTANTS
    Handle,   \* the places of the program that can hold a List*
    Node,     \* every node there could ever be
    NULL

VARIABLE holds   \* the node each handle points to, or NULL

Init == holds = [h \in Handle |-> NULL]

Held == {holds[h] : h \in Handle} \ {NULL}

Alloc(h) ==
    /\ holds[h] = NULL
    /\ holds'[h] \in Node
    /\ holds'[h] \notin Held
    /\ holds' = [holds EXCEPT ![h] = holds'[h]]

Free(h) ==
    /\ holds[h] # NULL
    /\ holds' = [holds EXCEPT ![h] = NULL]

Next == \E h \in Handle : Alloc(h) \/ Free(h)

Spec == Init /\ [][Next]_holds
=============================================================================
