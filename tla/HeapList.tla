------------------------------ MODULE HeapList ------------------------------
(***************************************************************************)
(* The lists of src/src/list.c on the allocator's nodes: the operations    *)
(* the interpreter and the compiler use, which keep a list's first node in *)
(* place, so that the List* their callers hold stays good.  newList makes  *)
(* one node with no data; a node without data is passed over by whoever    *)
(* goes through the list.                                                  *)
(*                                                                         *)
(* Every user keeps to some of the operations, `ops', as one of Users.     *)
(* The steps are those of the allocator, module ListAlloc, which has one   *)
(* of its handles hold every node of a list.                               *)
(***************************************************************************)
EXTENDS ListAlloc, Chains

CONSTANTS
    List,      \* the places that hold a List*
    Data,
    Users,     \* the sets of operations that are used together
    LastPool   \* bound on the pools

None == "none"     \* the NULL that is no data
ASSUME DataIsSomething == None \notin Data

(* A list is a stack or a queue: no List* is given both to                 *)
(* addToListBeginning and to addToListEnd.                                 *)
ASSUME PushedOrAdded == \A u \in Users : ~({"push", "add"} \subseteq u)

Idle == [op |-> "idle"]

VARIABLES
    ptr,      \* the List* of each place, or NULL
    data,     \* the two fields of every node
    link,
    going,    \* the clone or freeing of a list that is under way
    crashed,  \* a NULL pointer was followed
    ops       \* the operations of this user

listVars == <<ptr, data, link, going, crashed, ops>>
heapVars == <<vars, listVars>>

(* The nodes, and what is just past the end of a pool.                     *)
Node == (0 .. LastPool) \X (0 .. PoolSize)

HeapInit ==
    /\ Init
    /\ ptr = [l \in List |-> NULL]
    /\ data = [n \in Node |-> None]
    /\ link = [n \in Node |-> NULL]
    /\ going = Idle
    /\ crashed = FALSE
    /\ ops \in Users

(* The nodes that whoever goes on from n to the end comes by.              *)
From(n) == Reach(Held, link, n)
Nodes(l) == From(ptr[l])

Ready == ~crashed /\ going = Idle /\ manager # "freed"
Using(op, l) == op \in ops /\ Ready /\ ptr[l] # NULL

(* A node, New, is handed out to some handle that is free; the node n is   *)
(* given back.                                                             *)
Spare == CHOOSE h \in Handle : holds[h] = NULL
New == holds'[Spare]
Alloc ==
    /\ \E h \in Handle : holds[h] = NULL
    /\ AllocList(Spare) /\ New \in Node

Free(n) == FreeListNode(CHOOSE h \in Handle : holds[h] = n)

-----------------------------------------------------------------------------
NewList(l) ==
    /\ Ready /\ ptr[l] = NULL
    /\ Alloc
    /\ ptr' = [ptr EXCEPT ![l] = New]
    /\ data' = [data EXCEPT ![New] = None]
    /\ link' = [link EXCEPT ![New] = NULL]
    /\ UNCHANGED <<going, crashed>>

\* Bug: the node is linked before it has taken over the rest.
PushLosingRest(l, d) ==
    /\ Using("push", l)
    /\ Alloc
    /\ link' = [link EXCEPT ![New] = NULL, ![ptr[l]] = New]
    /\ data' = [data EXCEPT ![New] = data[ptr[l]], ![ptr[l]] = d]
    /\ UNCHANGED <<ptr, going, crashed>>

(* The first node's data moves to a new node behind it.                    *)
AddToListBeginning(l, d) ==
    /\ Using("push", l)
    /\ Alloc
    /\ link' = [link EXCEPT ![New] = link[ptr[l]], ![ptr[l]] = New]
    /\ data' = [data EXCEPT ![New] = data[ptr[l]], ![ptr[l]] = d]
    /\ UNCHANGED <<ptr, going, crashed>>

(* A first node without data is filled; otherwise a node is added.         *)
FillFirst(l, d) ==
    /\ data[ptr[l]] = None
    /\ data' = [data EXCEPT ![ptr[l]] = d]
    /\ UNCHANGED <<vars, link>>

AddLast(l, d) ==
    /\ data[ptr[l]] # None
    /\ Alloc
    /\ data' = [data EXCEPT ![New] = d]
    /\ \E last \in Nodes(l) :
          link[last] = NULL /\ link' = [link EXCEPT ![last] = New, ![New] = NULL]

AddToListEnd(l, d) ==
    /\ Using("add", l)
    /\ FillFirst(l, d) \/ AddLast(l, d)
    /\ UNCHANGED <<ptr, going, crashed>>

\* Bug: the second node's data is not taken over.
DeleteFirstKeeping(l, d) ==
    LET n == ptr[l]
        m == link[n]
    IN  /\ data[n] = d /\ m # NULL
        /\ link' = [link EXCEPT ![n] = link[m], ![m] = NULL]
        /\ data' = [data EXCEPT ![m] = None]
        /\ Free(m)

(* The first node with the data goes.  If that is the list's first, it     *)
(* takes over the data and the rest of the second, which goes instead.  A  *)
(* node that is given back forgets its data and, as whoever is handed it   *)
(* sets it, its link.                                                      *)
DeleteFirst(l, d) ==
    LET n == ptr[l]
        m == link[n]
    IN  /\ data[n] = d /\ m # NULL
        /\ link' = [link EXCEPT ![n] = link[m], ![m] = NULL]
        /\ data' = [data EXCEPT ![n] = data[m], ![m] = None]
        /\ Free(m)

DeleteFurther(l, d) ==
    \E n \in Held :
      LET m == link[n] IN
        /\ m # NULL /\ data[m] = d
        /\ data' = [data EXCEPT ![m] = None]
        /\ link' = [link EXCEPT ![n] = link[m], ![m] = NULL]
        /\ Free(m)
        /\ n \in Nodes(l)
        /\ \A k \in Nodes(l) \ {m} : data[k] = d => m \notin From(k)

DeleteFromListData(l, d) ==
    /\ Using("delete", l)
    /\ DeleteFirst(l, d) \/ DeleteFurther(l, d)
    /\ UNCHANGED <<ptr, going, crashed>>

(* A list of one node has no second one to take over from.                 *)
DeleteOnly(l, d) ==
    /\ Using("delete", l)
    /\ data[ptr[l]] = d /\ link[ptr[l]] = NULL
    /\ crashed' = TRUE
    /\ UNCHANGED <<vars, ptr, data, link, going>>

(* The caller goes on with the List* this returns.                         *)
DeleteFromListBeginning(l) ==
    /\ Using("pop", l)
    /\ ptr' = [ptr EXCEPT ![l] = link[ptr[l]]]
    /\ data' = [data EXCEPT ![ptr[l]] = None]
    /\ link' = [link EXCEPT ![ptr[l]] = NULL]
    /\ Free(ptr[l])
    /\ UNCHANGED <<going, crashed>>

(* cloneList: the first node; and one after the other the rest.  `at' is   *)
(* the node copied last, `to' its copy.                                    *)
Cloning(l, m, at, to) ==
    IF link[at] = NULL THEN Idle
    ELSE [op |-> "clone", list |-> l, of |-> m, at |-> at, to |-> to]

CloneList(l, m) ==
    /\ Using("clone", m) /\ ptr[l] = NULL
    /\ Alloc
    /\ ptr' = [ptr EXCEPT ![l] = New]
    /\ data' = [data EXCEPT ![New] = data[ptr[m]]]
    /\ link' = [link EXCEPT ![New] = NULL]
    /\ going' = Cloning(l, m, ptr[m], New)
    /\ UNCHANGED crashed

CloneNode ==
    LET from == link[going.at] IN
    /\ Alloc
    /\ data' = [data EXCEPT ![New] = data[from]]
    /\ link' = [link EXCEPT ![going.to] = New, ![New] = NULL]
    /\ going' = Cloning(going.list, going.of, from, New)
    /\ UNCHANGED <<ptr, crashed>>

(* freeList: every node is taken off before it is given back.              *)
FreeList(l) ==
    /\ Using("free", l)
    /\ ptr' = [ptr EXCEPT ![l] = NULL]
    /\ going' = [op |-> "free", at |-> ptr[l]]
    /\ UNCHANGED <<vars, data, link, crashed>>

FreeNode ==
    /\ Free(going.at)
    /\ data' = [data EXCEPT ![going.at] = None]
    /\ link' = [link EXCEPT ![going.at] = NULL]
    /\ going' = IF link[going.at] = NULL THEN Idle ELSE [going EXCEPT !.at = link[going.at]]
    /\ UNCHANGED <<ptr, crashed>>

(* The end of the program, whatever lists there are.                       *)
End == Ready /\ FreeListAlloc /\ UNCHANGED <<ptr, data, link, going, crashed>>

HeapNext ==
    /\ \/ \E l \in List : NewList(l) \/ DeleteFromListBeginning(l) \/ FreeList(l)
       \/ \E l \in List, d \in Data :
            \/ AddToListBeginning(l, d) \/ AddToListEnd(l, d)
            \/ DeleteFromListData(l, d) \/ DeleteOnly(l, d)
       \/ \E l, m \in List : CloneList(l, m)
       \/ going.op = "clone" /\ CloneNode
       \/ going.op = "free" /\ FreeNode
       \/ End
    /\ UNCHANGED ops

HeapSpec == HeapInit /\ [][HeapNext]_heapVars

-----------------------------------------------------------------------------
(* No node is lost and none is shared: the nodes handed out are those of   *)
(* the lists, each in one list, so that freeing one list harms no other,   *)
(* and no list goes on at a node that was given back (list.c:128-152,      *)
(* 191-207, 226-272, 318-330).                                             *)
NodesOwned ==
    LET nodes == [l \in List |-> Nodes(l)]
        leaving == IF going.op = "free" THEN From(going.at) ELSE {}
        There(n) == n \in Held \cup {NULL}
    IN  manager = "up" =>
            /\ Held = leaving \cup UNION {nodes[l] : l \in List}
            /\ \A l \in List : nodes[l] \cap leaving = {}
            /\ \A l, m \in List : l # m => nodes[l] \cap nodes[m] = {}
            /\ \A l \in List : There(ptr[l])
            /\ \A n \in Held : There(link[n])
=============================================================================
