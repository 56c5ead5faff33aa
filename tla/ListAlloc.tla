----------------------------- MODULE ListAlloc ------------------------------
(***************************************************************************)
(* The list-node allocator: ListManager, allocList, freeListNode and       *)
(* freeListAlloc of src/src/list.c, with the DynArray (src/src/array.c)    *)
(* it keeps returned nodes in.                                             *)
(*                                                                         *)
(* Nodes are cut from pools of PoolSize nodes.  A node is named by its     *)
(* pool and its place in it.  The newest pool is cut upwards at `next'; a  *)
(* node given back is either the one just below that frontier, which then  *)
(* retreats, or it goes on the stack of free nodes.                        *)
(***************************************************************************)
EXTENDS Integers, Sequences

CONSTANTS
    Handle,     \* the places of the program that can hold a List*
    NULL,
    PoolSize,   \* nodes per pool                               (16 in the code)
    PoolStep,   \* first size and growth of the array of pools   (4 in the code)
    FreeLen     \* first length of the array of free nodes       (8 in the code)

Slot == Nat \X (0 .. PoolSize - 1)

ASSUME SizesPositive ==
    /\ PoolSize \in Nat \ {0}
    /\ PoolStep \in Nat \ {0}
    /\ FreeLen  \in Nat \ {0}

ASSUME NullIsNoSlot == NULL \notin Slot

VARIABLES
    manager,    \* "none" before the first call, "up", "freed" by freeListAlloc
    pools,      \* ListManager->pools: index of the newest pool, -1 when none
    maxpools,   \* ListManager->maxpools: capacity of ListManager->new
    next,       \* ListManager->next: nodes cut from the newest pool
    free,       \* ListManager->free, its first `last' entries
    freelen,    \* ListManager->free->length: capacity of that array
    heap,       \* the pools malloc has handed out and not got back
    holds       \* the node each handle of the program points to, or NULL

vars == <<manager, pools, maxpools, next, free, freelen, heap, holds>>

Init ==
    /\ manager = "none"
    /\ pools = 0 /\ maxpools = 0 /\ next = 0
    /\ free = <<>> /\ freelen = 0
    /\ heap = {}
    /\ holds = [h \in Handle |-> NULL]

Held == {holds[h] : h \in Handle} \ {NULL}
Freed == {free[i] : i \in 1 .. Len(free)}

(* The nodes cut so far. *)
Cut == {s \in (0 .. pools) \X (0 .. PoolSize - 1) : s[1] < pools \/ s[2] < next}

-----------------------------------------------------------------------------
(* allocList.  Its answer is written to a handle that holds nothing.       *)

Give(h, s) == holds' = [holds EXCEPT ![h] = s]

FirstAlloc(h) ==
    /\ manager = "none"
    /\ manager' = "up"
    /\ pools' = 0 /\ maxpools' = PoolStep /\ next' = 1
    /\ free' = <<>> /\ freelen' = FreeLen
    /\ heap' = {0}
    /\ Give(h, <<0, 0>>)

\* Bug: the answer stays on the stack.
PopKeepsEntry(h) ==
    /\ free # <<>>
    /\ Give(h, free[Len(free)])
    /\ UNCHANGED <<manager, pools, maxpools, next, free, freelen, heap>>

PopFromArray(h) ==
    /\ free # <<>>
    /\ Give(h, free[Len(free)])
    /\ free' = SubSeq(free, 1, Len(free) - 1)
    /\ UNCHANGED <<manager, pools, maxpools, next, freelen, heap>>

CutFromPool(h) ==
    /\ free = <<>>
    /\ next # PoolSize
    /\ Give(h, <<pools, next>>)
    /\ next' = next + 1
    /\ UNCHANGED <<manager, pools, maxpools, free, freelen, heap>>

\* Bug: the array of pools grows one pool too late.
RoomTooLate(n, max) == IF n > max THEN max + PoolStep ELSE max

Room(n, max) == IF n = max THEN max + PoolStep ELSE max

\* Bug: the new pool is not counted, so the old one is cut again.
NewPoolUncounted(h) ==
    /\ free = <<>>
    /\ next = PoolSize
    /\ heap' = heap \cup {pools + 1}
    /\ Give(h, <<pools, 0>>)
    /\ next' = 1
    /\ UNCHANGED <<manager, pools, maxpools, free, freelen>>

CutFromNewPool(h) ==
    /\ free = <<>>
    /\ next = PoolSize
    /\ pools' = pools + 1
    /\ maxpools' = Room(pools + 1, maxpools)
    /\ heap' = heap \cup {pools + 1}
    /\ Give(h, <<pools + 1, 0>>)
    /\ next' = 1
    /\ UNCHANGED <<manager, free, freelen>>

AllocList(h) ==
    /\ holds[h] = NULL
    /\ \/ FirstAlloc(h)
       \/ /\ manager = "up"
          /\ PopFromArray(h) \/ CutFromPool(h) \/ CutFromNewPool(h)

-----------------------------------------------------------------------------
(* freeListNode.                                                           *)

\* Bug: the place in the pool is compared, the pool is not.
AtFrontierOfAnyPool(s) == next # 0 /\ s[2] = next - 1

AtFrontier(s) == next # 0 /\ s = <<pools, next - 1>>

RetreatInPool(h) ==
    /\ AtFrontier(holds[h])
    /\ next # 1
    /\ next' = next - 1
    /\ UNCHANGED <<pools, free, freelen, heap>>

\* Bug: the pool given back is still counted.
ReleaseUncounted(h) ==
    /\ AtFrontier(holds[h])
    /\ next = 1
    /\ next' = PoolSize
    /\ heap' = heap \ {pools}
    /\ UNCHANGED <<pools, free, freelen>>

ReleasePool(h) ==
    /\ AtFrontier(holds[h])
    /\ next = 1
    /\ next' = PoolSize
    /\ heap' = heap \ {pools}
    /\ pools' = pools - 1
    /\ UNCHANGED <<free, freelen>>

GrownLen == IF Len(free) = freelen THEN 2 * freelen ELSE freelen

AppendToArray(h) ==
    /\ ~AtFrontier(holds[h])
    /\ freelen' = GrownLen
    /\ free' = Append(free, holds[h])
    /\ UNCHANGED <<pools, next, heap>>

FreeListNode(h) ==
    /\ manager = "up"
    /\ holds[h] # NULL
    /\ RetreatInPool(h) \/ ReleasePool(h) \/ AppendToArray(h)
    /\ holds' = [holds EXCEPT ![h] = NULL]
    /\ UNCHANGED <<manager, maxpools>>

-----------------------------------------------------------------------------
(* freeListAlloc gives the pools back and leaves every List* dangling.     *)

FreeListAlloc ==
    /\ manager = "up"
    /\ manager' = "freed"
    /\ heap' = heap \ (0 .. pools)
    /\ free' = <<>> /\ freelen' = 0
    /\ UNCHANGED <<pools, maxpools, next, holds>>

Next ==
    \/ \E h \in Handle : AllocList(h) \/ FreeListNode(h)
    \/ FreeListAlloc

Spec == Init /\ [][Next]_vars

-----------------------------------------------------------------------------
(* The allocator's variables keep their types; `pools' may reach -1, when  *)
(* the last node of the first pool comes back (list.c:345-350).            *)
TypeOK ==
    /\ manager \in {"none", "up", "freed"}
    /\ pools \in Nat \cup {-1}
    /\ maxpools \in Nat
    /\ next \in 0 .. PoolSize
    /\ free \in Seq(Slot)
    /\ freelen \in Nat
    /\ heap \in SUBSET Nat
    /\ holds \in [Handle -> Slot \cup {NULL}]

(* allocList never hands out a node that somebody still holds: whatever    *)
(* the order of allocations and frees, two handles share no node           *)
(* (list.c:166-178).                                                       *)
NoAliasing ==
    \A g, h \in Handle : holds[g] = holds[h] /\ holds[g] # NULL => g = h

(* Every node cut from a pool is held or waits once on the free stack: no  *)
(* node is lost, and none waits there twice or while it is held            *)
(* (list.c:343-356).                                                       *)
Accounting ==
    manager = "up" =>
        /\ Cut = Held \cup Freed
        /\ Held \cap Freed = {}
        /\ \A i, j \in 1 .. Len(free) : free[i] = free[j] => i = j

(* The pools in use are those up to `pools', so a pool given back by       *)
(* freeListNode is reached by no handle and by no entry of the free stack, *)
(* and none is forgotten when freeListAlloc returns (list.c:335-350).      *)
NoDanglingPool ==
    /\ manager = "up" => /\ heap = 0 .. pools
                         /\ \A s \in Held \cup Freed : s[1] \in heap
    /\ manager = "freed" => heap = {}

(* Neither ListManager->new nor the free array is ever indexed past its    *)
(* capacity, however the two grow (list.c:170-175, array.c:34-41).         *)
ArraysLargeEnough ==
    manager = "up" => pools < maxpools /\ Len(free) <= freelen

(* ListManager->next is 0 in no state a caller can see, so the test for it *)
(* in freeListNode (list.c:345) never decides, and with no pool left it    *)
(* is PoolSize, which makes the next allocation open one.                  *)
FrontierOpen ==
    manager = "up" => next > 0 /\ (pools = -1 => next = PoolSize)

(* ListAlloc implements NodePool.                                          *)
Abstract == INSTANCE NodePool WITH Node <- Slot
PoolSpec == Abstract!Spec
=============================================================================
