--------------------------- MODULE HeapListProofs ---------------------------
(***************************************************************************)
(* Theorems about the list-node allocator (ListAlloc), for every set of    *)
(* handles and every size of pool and array, and then about the lists of   *)
(* HeapList made of its nodes, for every set of places, of data and of     *)
(* operations that are used together: the steps of the lists are steps of  *)
(* the allocator, so that its theorems hold of them, and no node is lost   *)
(* or shared.                                                              *)
(***************************************************************************)
EXTENDS ListContents, FiniteSetTheorems, SequenceTheorems, WellFoundedInduction, TLAPS

-----------------------------------------------------------------------------
(* The allocator.                                                          *)

(* Nothing is held before the first call, and the array of free nodes has  *)
(* a capacity that doubling makes larger.                                  *)
Bookkeeping ==
    /\ manager = "none" => holds = [h \in Handle |-> NULL] /\ heap = {}
    /\ manager = "up" => freelen > 0

(* The inductive invariant: the allocator's safety properties need each    *)
(* other, and Bookkeeping.                                                 *)
IInv ==
    /\ TypeOK
    /\ NoAliasing
    /\ Accounting
    /\ NoDanglingPool
    /\ ArraysLargeEnough
    /\ FrontierOpen
    /\ Bookkeeping

-----------------------------------------------------------------------------
(* Storing a node nobody holds in an empty handle adds it to the held      *)
(* nodes and keeps handles apart (the assignments of allocList's answer).  *)
LEMMA GiveFresh ==
    ASSUME holds \in [Handle -> Slot \cup {NULL}], NoAliasing,
           NEW h \in Handle, holds[h] = NULL,
           NEW s \in Slot, s \notin Held, Give(h, s)
    PROVE  /\ holds' \in [Handle -> Slot \cup {NULL}]
           /\ NoAliasing'
           /\ Held' = Held \cup {s}
<1>1. holds' \in [Handle -> Slot \cup {NULL}]
  BY DEF Give
<1>2. NoAliasing'
  BY DEF Give, NoAliasing, Held
<1>3. Held' = Held \cup {s}
  BY NullIsNoSlot DEF Give, Held
<1> QED  BY <1>1, <1>2, <1>3

(* Clearing a handle takes exactly its node out of the held ones, since no *)
(* other handle has it (what freeListNode's caller may do).                *)
LEMMA TakeBack ==
    ASSUME holds \in [Handle -> Slot \cup {NULL}], NoAliasing,
           NEW h \in Handle, holds[h] # NULL,
           holds' = [holds EXCEPT ![h] = NULL]
    PROVE  /\ holds' \in [Handle -> Slot \cup {NULL}]
           /\ NoAliasing'
           /\ Held' = Held \ {holds[h]}
           /\ holds[h] \in Slot /\ holds[h] \in Held
<1>1. holds' \in [Handle -> Slot \cup {NULL}] /\ holds[h] \in Slot
  OBVIOUS
<1>2. NoAliasing'
  BY DEF NoAliasing
<1>3. Held' = Held \ {holds[h]} /\ holds[h] \in Held
  BY DEF Held, NoAliasing
<1> QED  BY <1>1, <1>2, <1>3

(* The first n entries of a sequence.                                      *)
LEMMA Prefix ==
    ASSUME NEW S, NEW s \in Seq(S), NEW n \in Nat, n <= Len(s)
    PROVE  /\ SubSeq(s, 1, n) \in Seq(S)
           /\ Len(SubSeq(s, 1, n)) = n
           /\ \A i \in 1 .. n : SubSeq(s, 1, n)[i] = s[i]
<1>1. SubSeq(s, 1, n) \in Seq(S)
  OBVIOUS
<1>2. Len(SubSeq(s, 1, n)) = n
  OBVIOUS
<1>3. \A i \in 1 .. n : SubSeq(s, 1, n)[i] = s[i]
  OBVIOUS
<1> QED  BY <1>1, <1>2, <1>3, Zenon

(* popFromArray takes the last entry, and only that one, off the stack     *)
(* (array.c:65-70).                                                        *)
LEMMA PopLast ==
    ASSUME free \in Seq(Slot), free # <<>>,
           \A i, j \in 1 .. Len(free) : free[i] = free[j] => i = j,
           free' = SubSeq(free, 1, Len(free) - 1)
    PROVE  /\ free' \in Seq(Slot)
           /\ Len(free') = Len(free) - 1
           /\ free[Len(free)] \in Slot /\ free[Len(free)] \in Freed
           /\ Freed' = Freed \ {free[Len(free)]}
           /\ \A i, j \in 1 .. Len(free') : free'[i] = free'[j] => i = j
<1>1. Len(free) \in Nat /\ Len(free) > 0
  BY EmptySeq
<1>2. /\ free' \in Seq(Slot)
      /\ Len(free') = Len(free) - 1
      /\ \A i \in 1 .. Len(free) - 1 : free'[i] = free[i]
  <2>1. Len(free) - 1 \in Nat /\ Len(free) - 1 <= Len(free)
    BY <1>1
  <2> QED  BY <2>1, Prefix, Zenon
<1>3. free[Len(free)] \in Slot /\ free[Len(free)] \in Freed
  BY <1>1 DEF Freed
<1>4. Freed' = Freed \ {free[Len(free)]}
  <2>1. 1 .. Len(free) = (1 .. Len(free')) \cup {Len(free)}
    BY <1>1, <1>2
  <2> QED  BY <1>1, <1>2, <2>1 DEF Freed
<1>5. \A i, j \in 1 .. Len(free') : free'[i] = free'[j] => i = j
  BY <1>1, <1>2
<1> QED  BY <1>2, <1>3, <1>4, <1>5

(* appendToArray adds one entry, behind the others (array.c:34-41).        *)
LEMMA PushLast ==
    ASSUME free \in Seq(Slot), NEW s \in Slot, s \notin Freed,
           \A i, j \in 1 .. Len(free) : free[i] = free[j] => i = j,
           free' = Append(free, s)
    PROVE  /\ free' \in Seq(Slot)
           /\ Len(free') = Len(free) + 1
           /\ Freed' = Freed \cup {s}
           /\ \A i, j \in 1 .. Len(free') : free'[i] = free'[j] => i = j
<1>1. /\ free' \in Seq(Slot)
      /\ Len(free) \in Nat
      /\ Len(free') = Len(free) + 1
      /\ \A i \in 1 .. Len(free) : free'[i] = free[i]
      /\ free'[Len(free) + 1] = s
  OBVIOUS
<1>2. Freed' = Freed \cup {s}
  BY <1>1 DEF Freed
<1>3. \A i, j \in 1 .. Len(free') : free'[i] = free'[j] => i = j
  BY <1>1 DEF Freed
<1> QED  BY <1>1, <1>2, <1>3

-----------------------------------------------------------------------------
LEMMA InitInv == Init => IInv
<1> SUFFICES ASSUME Init PROVE IInv
  OBVIOUS
<1>1. TypeOK
  BY SizesPositive, EmptySeq DEF Init, TypeOK
<1>2. NoAliasing /\ Accounting /\ NoDanglingPool /\ ArraysLargeEnough
      /\ FrontierOpen /\ Bookkeeping
  BY DEF Init, NoAliasing, Accounting, NoDanglingPool, ArraysLargeEnough,
         FrontierOpen, Bookkeeping
<1> QED  BY <1>1, <1>2 DEF IInv

(* The first allocList call builds the manager (list.c:155-165).           *)
LEMMA FirstAllocInv ==
    ASSUME IInv, NEW h \in Handle, holds[h] = NULL, FirstAlloc(h)
    PROVE  IInv'
<1> USE SizesPositive DEF IInv, FirstAlloc
<1>1. Held = {} /\ <<0, 0>> \in Slot /\ <<0, 0>> \notin Held
  BY DEF Bookkeeping, Held, Slot
<1>2. /\ holds' \in [Handle -> Slot \cup {NULL}]
      /\ NoAliasing'
      /\ Held' = {<<0, 0>>}
  BY <1>1, GiveFresh DEF TypeOK
<1>3. Freed' = {} /\ Cut' = {<<0, 0>>} /\ Len(free') = 0
  BY EmptySeq DEF Freed, Cut
<1>4. TypeOK'
  BY <1>2, EmptySeq DEF TypeOK
<1>5. Accounting' /\ FrontierOpen' /\ ArraysLargeEnough' /\ Bookkeeping'
  BY <1>2, <1>3 DEF Accounting, FrontierOpen, ArraysLargeEnough, Bookkeeping
<1>6. NoDanglingPool'
  BY <1>2, <1>3 DEF NoDanglingPool
<1> QED  BY <1>2, <1>4, <1>5, <1>6

(* Reusing the newest free node (list.c:166-168).                          *)
LEMMA PopInv ==
    ASSUME IInv, NEW h \in Handle, holds[h] = NULL, manager = "up",
           PopFromArray(h)
    PROVE  IInv'
<1> USE SizesPositive DEF IInv, PopFromArray
<1> DEFINE s == free[Len(free)]
<1>1. /\ free' \in Seq(Slot)
      /\ Len(free') = Len(free) - 1
      /\ s \in Slot /\ s \in Freed
      /\ Freed' = Freed \ {s}
      /\ \A i, j \in 1 .. Len(free') : free'[i] = free'[j] => i = j
  BY PopLast DEF TypeOK, Accounting
<1>2. s \notin Held
  BY <1>1 DEF Accounting
<1>3. /\ holds' \in [Handle -> Slot \cup {NULL}]
      /\ NoAliasing'
      /\ Held' = Held \cup {s}
  BY <1>1, <1>2, GiveFresh DEF TypeOK
<1>4. Cut' = Cut
  BY DEF Cut
<1>5. TypeOK'
  BY <1>1, <1>3 DEF TypeOK
<1>6. Accounting'
  BY <1>1, <1>2, <1>3, <1>4 DEF Accounting
<1>7. NoDanglingPool'
  BY <1>1, <1>3 DEF NoDanglingPool
<1>8. ArraysLargeEnough' /\ FrontierOpen' /\ Bookkeeping'
  BY <1>1 DEF ArraysLargeEnough, FrontierOpen, Bookkeeping, TypeOK
<1> HIDE DEF s
<1> QED  BY <1>3, <1>5, <1>6, <1>7, <1>8

(* Cutting the next node of the newest pool (list.c:178).                  *)
LEMMA CutInv ==
    ASSUME IInv, NEW h \in Handle, holds[h] = NULL, manager = "up",
           CutFromPool(h)
    PROVE  IInv'
<1> USE SizesPositive DEF IInv, CutFromPool
<1>1. pools \in Nat /\ next \in 1 .. PoolSize - 1
  BY DEF TypeOK, FrontierOpen
<1> DEFINE s == <<pools, next>>
<1>2. s \in Slot /\ s \notin Cut /\ Freed = {} /\ s \notin Held
  BY <1>1, EmptySeq DEF Slot, Cut, Accounting, Freed
<1>3. /\ holds' \in [Handle -> Slot \cup {NULL}]
      /\ NoAliasing'
      /\ Held' = Held \cup {s}
  BY <1>2, GiveFresh DEF TypeOK
<1>4. Cut' = Cut \cup {s} /\ Freed' = Freed
  BY <1>1 DEF Cut, Freed
<1>5. TypeOK'
  BY <1>1, <1>3 DEF TypeOK
<1>6. Accounting'
  BY <1>2, <1>3, <1>4 DEF Accounting
<1>7. NoDanglingPool'
  BY <1>1, <1>3, <1>4 DEF NoDanglingPool
<1>8. ArraysLargeEnough' /\ FrontierOpen' /\ Bookkeeping'
  BY <1>1 DEF ArraysLargeEnough, FrontierOpen, Bookkeeping
<1> HIDE DEF s
<1> QED  BY <1>3, <1>5, <1>6, <1>7, <1>8

(* Opening a pool and cutting its first node (list.c:169-178).             *)
LEMMA NewPoolInv ==
    ASSUME IInv, NEW h \in Handle, holds[h] = NULL, manager = "up",
           CutFromNewPool(h)
    PROVE  IInv'
<1> USE SizesPositive DEF IInv, CutFromNewPool
<1> DEFINE s == <<pools + 1, 0>>
<1>1. pools \in Nat \cup {-1} /\ pools + 1 \in Nat
  BY DEF TypeOK
<1>2. s \in Slot /\ s \notin Cut /\ Freed = {} /\ s \notin Held
  BY <1>1, EmptySeq DEF Slot, Cut, Accounting, Freed
<1>3. /\ holds' \in [Handle -> Slot \cup {NULL}]
      /\ NoAliasing'
      /\ Held' = Held \cup {s}
  BY <1>2, GiveFresh DEF TypeOK
<1>4. Cut' = Cut \cup {s} /\ Freed' = Freed
  BY <1>1 DEF Cut, Freed
<1>5. maxpools' \in Nat /\ pools' < maxpools'
  BY <1>1 DEF TypeOK, ArraysLargeEnough, Room
<1>6. TypeOK'
  BY <1>1, <1>3, <1>5 DEF TypeOK
<1>7. Accounting'
  BY <1>2, <1>3, <1>4 DEF Accounting
<1>8. NoDanglingPool'
  <2>1. heap' = 0 .. pools'
    BY <1>1 DEF NoDanglingPool
  <2>2. \A t \in Held' \cup Freed' : t[1] \in heap'
    BY <1>3, <1>4 DEF NoDanglingPool
  <2> QED  BY <2>1, <2>2 DEF NoDanglingPool
<1>9. ArraysLargeEnough' /\ FrontierOpen' /\ Bookkeeping'
  BY <1>1, <1>5 DEF ArraysLargeEnough, FrontierOpen, Bookkeeping
<1> HIDE DEF s
<1> QED  BY <1>3, <1>6, <1>7, <1>8, <1>9

(* Giving back the node below the frontier (list.c:345-346).               *)
LEMMA RetreatInv ==
    ASSUME IInv, NEW h \in Handle, manager = "up", holds[h] # NULL,
           holds' = [holds EXCEPT ![h] = NULL],
           UNCHANGED <<manager, maxpools>>, RetreatInPool(h)
    PROVE  IInv'
<1> USE SizesPositive DEF IInv, RetreatInPool
<1> DEFINE s == holds[h]
<1>1. s = <<pools, next - 1>> /\ next \in 2 .. PoolSize /\ pools \in Nat \cup {-1}
  BY DEF TypeOK, AtFrontier
<1>2. /\ holds' \in [Handle -> Slot \cup {NULL}]
      /\ NoAliasing'
      /\ Held' = Held \ {s}
      /\ s \in Slot /\ s \in Held
  BY TakeBack DEF TypeOK
<1>3. Cut' = Cut \ {s} /\ Freed' = Freed
  BY <1>1 DEF Cut, Freed
<1>4. TypeOK'
  BY <1>1, <1>2 DEF TypeOK
<1>5. Accounting'
  BY <1>2, <1>3 DEF Accounting
<1>6. NoDanglingPool'
  BY <1>2, <1>3 DEF NoDanglingPool
<1>7. ArraysLargeEnough' /\ FrontierOpen' /\ Bookkeeping'
  <2>1. pools # -1
    BY <1>1, <1>2 DEF Slot
  <2> QED  BY <1>1, <2>1 DEF ArraysLargeEnough, FrontierOpen, Bookkeeping
<1> HIDE DEF s
<1> QED  BY <1>2, <1>4, <1>5, <1>6, <1>7

(* Giving back the last node of the newest pool releases the pool.  No     *)
(* entry of the free stack lies in it: the only node cut from it was held  *)
(* (list.c:346-351).                                                       *)
LEMMA ReleaseInv ==
    ASSUME IInv, NEW h \in Handle, manager = "up", holds[h] # NULL,
           holds' = [holds EXCEPT ![h] = NULL],
           UNCHANGED <<manager, maxpools>>, ReleasePool(h)
    PROVE  IInv'
<1> USE SizesPositive DEF IInv, ReleasePool
<1> DEFINE s == holds[h]
<1>1. /\ holds' \in [Handle -> Slot \cup {NULL}]
      /\ NoAliasing'
      /\ Held' = Held \ {s}
      /\ s \in Slot /\ s \in Held
  BY TakeBack DEF TypeOK
<1>2. s = <<pools, 0>> /\ next = 1 /\ pools \in Nat
  BY <1>1 DEF AtFrontier, Slot, TypeOK
<1>3. Cut' = Cut \ {s} /\ Freed' = Freed
  BY <1>2 DEF Cut, Freed
<1>4. TypeOK'
  BY <1>1, <1>2 DEF TypeOK
<1>5. Accounting'
  BY <1>1, <1>3 DEF Accounting
<1>6. NoDanglingPool'
  <2>1. heap' = 0 .. pools'
    BY <1>2 DEF NoDanglingPool
  <2>2. \A t \in Cut' : t[1] \in 0 .. pools'
    BY <1>2 DEF Cut
  <2>3. Cut' = Held' \cup Freed'
    BY <1>5 DEF Accounting
  <2> QED  BY <2>1, <2>2, <2>3 DEF NoDanglingPool
<1>7. ArraysLargeEnough' /\ FrontierOpen' /\ Bookkeeping'
  BY <1>2 DEF ArraysLargeEnough, FrontierOpen, Bookkeeping, TypeOK
<1> HIDE DEF s
<1> QED  BY <1>1, <1>4, <1>5, <1>6, <1>7

(* Any other node goes on the free stack (list.c:352-354).                 *)
LEMMA AppendInv ==
    ASSUME IInv, NEW h \in Handle, manager = "up", holds[h] # NULL,
           holds' = [holds EXCEPT ![h] = NULL],
           UNCHANGED <<manager, maxpools>>, AppendToArray(h)
    PROVE  IInv'
<1> USE SizesPositive DEF IInv, AppendToArray
<1> DEFINE s == holds[h]
<1>1. /\ holds' \in [Handle -> Slot \cup {NULL}]
      /\ NoAliasing'
      /\ Held' = Held \ {s}
      /\ s \in Slot /\ s \in Held
  BY TakeBack DEF TypeOK
<1>2. s \notin Freed
  BY <1>1 DEF Accounting
<1>3. /\ free' \in Seq(Slot)
      /\ Len(free') = Len(free) + 1
      /\ Freed' = Freed \cup {s}
      /\ \A i, j \in 1 .. Len(free') : free'[i] = free'[j] => i = j
  <2>1. \A i, j \in 1 .. Len(free) : free[i] = free[j] => i = j
    BY DEF Accounting
  <2> QED  BY <1>1, <1>2, <2>1, PushLast DEF TypeOK
<1>4. Cut' = Cut
  BY DEF Cut
<1>5. Len(free) \in Nat /\ freelen' \in Nat /\ Len(free') <= freelen'
      /\ freelen' > 0
  <2>1. Len(free) \in Nat /\ Len(free) <= freelen /\ freelen \in Nat
    BY DEF TypeOK, ArraysLargeEnough
  <2>2. freelen > 0
    BY DEF Bookkeeping
  <2> QED  BY <1>3, <2>1, <2>2 DEF GrownLen
<1>6. TypeOK'
  BY <1>1, <1>3, <1>5 DEF TypeOK
<1>7. Accounting'
  BY <1>1, <1>2, <1>3, <1>4 DEF Accounting
<1>8. NoDanglingPool'
  BY <1>1, <1>3 DEF NoDanglingPool
<1>9. ArraysLargeEnough' /\ FrontierOpen' /\ Bookkeeping'
  BY <1>5 DEF ArraysLargeEnough, FrontierOpen, Bookkeeping
<1> HIDE DEF s
<1> QED  BY <1>1, <1>6, <1>7, <1>8, <1>9

(* freeListAlloc gives every pool back (list.c:332-341).                   *)
LEMMA FreeAllInv == ASSUME IInv, FreeListAlloc PROVE IInv'
<1> USE DEF IInv, FreeListAlloc
<1>1. TypeOK'
  BY EmptySeq DEF TypeOK
<1>2. NoAliasing'
  BY DEF NoAliasing
<1>3. NoDanglingPool'
  BY DEF NoDanglingPool
<1>4. Accounting' /\ ArraysLargeEnough' /\ FrontierOpen' /\ Bookkeeping'
  BY DEF Accounting, ArraysLargeEnough, FrontierOpen, Bookkeeping
<1> QED  BY <1>1, <1>2, <1>3, <1>4

LEMMA StutterInv == ASSUME IInv, UNCHANGED vars PROVE IInv'
<1>1. TypeOK' /\ NoAliasing' /\ Bookkeeping'
  BY DEF IInv, vars, TypeOK, NoAliasing, Bookkeeping
<1>2. Accounting' /\ NoDanglingPool'
  <2>1. Held' = Held /\ Freed' = Freed /\ Cut' = Cut
    BY DEF vars, Held, Freed, Cut
  <2> QED  BY <2>1 DEF IInv, vars, Accounting, NoDanglingPool
<1>3. ArraysLargeEnough' /\ FrontierOpen'
  BY DEF IInv, vars, ArraysLargeEnough, FrontierOpen
<1> QED  BY <1>1, <1>2, <1>3 DEF IInv

(* Every step of the allocator keeps the invariant.                        *)
LEMMA NextInv == IInv /\ [Next]_vars => IInv'
<1> SUFFICES ASSUME IInv, [Next]_vars PROVE IInv'
  OBVIOUS
<1>1. ASSUME NEW h \in Handle, AllocList(h) PROVE IInv'
  BY <1>1, FirstAllocInv, PopInv, CutInv, NewPoolInv DEF AllocList
<1>2. ASSUME NEW h \in Handle, FreeListNode(h) PROVE IInv'
  BY <1>2, RetreatInv, ReleaseInv, AppendInv DEF FreeListNode
<1>3. CASE FreeListAlloc
  BY <1>3, FreeAllInv
<1>4. CASE UNCHANGED vars
  BY <1>4, StutterInv
<1> QED  BY <1>1, <1>2, <1>3, <1>4 DEF Next

-----------------------------------------------------------------------------
(* The inductive invariant holds in every reachable state.                 *)
THEOREM Inductive == Spec => []IInv
<1> QED  BY InitInv, NextInv, PTL DEF Spec

(* The allocator's variables keep their types.                             *)
THEOREM TypeCorrect == Spec => []TypeOK
<1>1. IInv => TypeOK
  BY DEF IInv
<1> QED  BY <1>1, Inductive, PTL

(* allocList never hands out a node that somebody still holds.             *)
THEOREM NeverAliases == Spec => []NoAliasing
<1>1. IInv => NoAliasing
  BY DEF IInv
<1> QED  BY <1>1, Inductive, PTL

(* No node is lost, and none is on the free stack twice or while held.     *)
THEOREM NodesAccounted == Spec => []Accounting
<1>1. IInv => Accounting
  BY DEF IInv
<1> QED  BY <1>1, Inductive, PTL

(* A pool that was given back to malloc is reached by no handle and by no  *)
(* entry of the free stack.                                                *)
THEOREM NoPoolDangles == Spec => []NoDanglingPool
<1>1. IInv => NoDanglingPool
  BY DEF IInv
<1> QED  BY <1>1, Inductive, PTL

(* Neither of the allocator's arrays is indexed past its capacity.         *)
THEOREM ArraysFit == Spec => []ArraysLargeEnough
<1>1. IInv => ArraysLargeEnough
  BY DEF IInv
<1> QED  BY <1>1, Inductive, PTL

(* The frontier of the newest pool is at 0 in no state a caller can see    *)
(* (list.c:345).                                                           *)
THEOREM FrontierStaysOpen == Spec => []FrontierOpen
<1>1. IInv => FrontierOpen
  BY DEF IInv
<1> QED  BY <1>1, Inductive, PTL

-----------------------------------------------------------------------------
(* Every answer of allocList is a node that nobody holds.                  *)
LEMMA AllocIsFresh ==
    ASSUME IInv, NEW h \in Handle, AllocList(h)
    PROVE  \E s \in Slot \ Held : Give(h, s)
<1>1. CASE FirstAlloc(h)
  <2>1. Held = {} /\ <<0, 0>> \in Slot
    BY <1>1, SizesPositive DEF IInv, FirstAlloc, Bookkeeping, Held, Slot
  <2> QED  BY <1>1, <2>1 DEF FirstAlloc
<1>2. CASE manager = "up" /\ PopFromArray(h)
  <2>1. free # <<>> /\ free \in Seq(Slot)
        /\ \A i, j \in 1 .. Len(free) : free[i] = free[j] => i = j
        /\ free' = SubSeq(free, 1, Len(free) - 1)
    BY <1>2 DEF IInv, TypeOK, Accounting, PopFromArray
  <2>2. free[Len(free)] \in Slot /\ free[Len(free)] \in Freed
    BY <2>1, PopLast
  <2> QED  BY <1>2, <2>2 DEF IInv, Accounting, PopFromArray
<1>3. CASE manager = "up" /\ CutFromPool(h)
  <2>1. <<pools, next>> \in Slot /\ <<pools, next>> \notin Cut
    BY <1>3, SizesPositive
       DEF IInv, TypeOK, FrontierOpen, CutFromPool, Slot, Cut
  <2> QED  BY <1>3, <2>1 DEF IInv, Accounting, CutFromPool
<1>4. CASE manager = "up" /\ CutFromNewPool(h)
  <2>1. <<pools + 1, 0>> \in Slot /\ <<pools + 1, 0>> \notin Cut
    BY <1>4, SizesPositive DEF IInv, TypeOK, CutFromNewPool, Slot, Cut
  <2> QED  BY <1>4, <2>1 DEF IInv, Accounting, CutFromNewPool
<1> QED  BY <1>1, <1>2, <1>3, <1>4 DEF AllocList

(* The pool allocator implements the promise of NodePool.                  *)
THEOREM ImplementsNodePool == Spec => PoolSpec
<1>1. Init => Abstract!Init
  BY DEF Init, Abstract!Init
<1>2. IInv /\ [Next]_vars => [Abstract!Next]_holds
  <2> SUFFICES ASSUME IInv, [Next]_vars PROVE [Abstract!Next]_holds
    OBVIOUS
  <2>1. ASSUME NEW h \in Handle, AllocList(h) PROVE Abstract!Alloc(h)
    <3>1. PICK s \in Slot \ Held : Give(h, s)
      BY <2>1, AllocIsFresh
    <3>2. holds[h] = NULL /\ holds'[h] = s
      BY <2>1, <3>1 DEF AllocList, Give, IInv, TypeOK
    <3> QED  BY <3>1, <3>2 DEF Abstract!Alloc, Abstract!Held, Held, Give
  <2>2. ASSUME NEW h \in Handle, FreeListNode(h) PROVE Abstract!Free(h)
    BY <2>2 DEF FreeListNode, Abstract!Free
  <2>3. CASE FreeListAlloc
    BY <2>3 DEF FreeListAlloc
  <2>4. CASE UNCHANGED vars
    BY <2>4 DEF vars
  <2> QED  BY <2>1, <2>2, <2>3, <2>4 DEF Next, Abstract!Next
<1> QED  BY <1>1, <1>2, Inductive, PTL DEF Spec, PoolSpec, Abstract!Spec

-----------------------------------------------------------------------------
(* The lists.                                                              *)

(* The nodes that are first in a list, or next to be given back.           *)
Leaving == IF going.op = "free" THEN {going.at} ELSE {}
Heads == {ptr[l] : l \in List} \cup Leaving

(* No node is linked to a first one, and none to the same node as another. *)
Apart(L, lnk, heads) ==
    /\ \A n \in L : lnk[n] \in L => lnk[n] \notin heads
    /\ \A n, k \in L : lnk[n] \in L /\ lnk[n] = lnk[k] => n = k

(* All are found from the first ones on: nothing less has these and is     *)
(* closed under the links.                                                 *)
Whole(L, lnk, heads) ==
    \A S \in SUBSET L : heads \cap L \subseteq S /\ Closed(L, lnk, S) => S = L

Typed ==
    /\ Held \subseteq Node
    /\ link \in [Node -> Node \cup {NULL}]
    /\ \A n \in Held : link[n] \in Held \cup {NULL}
    /\ ptr \in [List -> Held \cup {NULL}]

(* What is under way: a list that is given back is in no place any more,   *)
(* and the copy made last is the last node of its list.                    *)
Going ==
    \/ going = Idle
    \/ \E at \in Held :
         /\ going = [op |-> "free", at |-> at]
         /\ \A l \in List : ptr[l] # at
    \/ \E l, m \in List, at, to \in Held :
         /\ going = [op |-> "clone", list |-> l, of |-> m, at |-> at, to |-> to]
         /\ link[at] \in Held /\ link[to] = NULL

Owned ==
    /\ Typed
    /\ Going
    /\ \A l, m \in List : ptr[l] = ptr[m] /\ ptr[l] # NULL => l = m
    /\ Apart(Held, link, Heads)
    /\ Whole(Held, link, Heads)

(* The inductive invariant.                                                *)
HeapInv == IInv /\ (manager # "freed" => Owned)

-----------------------------------------------------------------------------
(* How nodes come and go.  In each lemma the nodes L with the links lnk    *)
(* and first nodes heads become others, which keep apart and whole.        *)

(* A new list of one node n.                                               *)
LEMMA NewHead ==
    ASSUME NEW L, NEW lnk, NEW heads, Apart(L, lnk, heads), Whole(L, lnk, heads),
           NEW n, n \notin L, \A k \in L : lnk[k] # n,
           NEW after, \A k \in L : after[k] = lnk[k], after[n] \notin L \cup {n},
           NEW new, n \in new, \A k \in L : k \in new <=> k \in heads
    PROVE  Apart(L \cup {n}, after, new) /\ Whole(L \cup {n}, after, new)
<1>1. Apart(L \cup {n}, after, new)
  BY DEF Apart
<1>2. Whole(L \cup {n}, after, new)
  <2> SUFFICES ASSUME NEW S \in SUBSET (L \cup {n}), new \cap (L \cup {n}) \subseteq S,
                      Closed(L \cup {n}, after, S)
               PROVE  S = L \cup {n}
    BY DEF Whole
  <2>1. n \in S /\ heads \cap L \subseteq S \ {n}
    OBVIOUS
  <2>2. Closed(L, lnk, S \ {n}) /\ S \ {n} \in SUBSET L
    BY DEF Closed
  <2>3. S \ {n} = L
    BY <2>1, <2>2 DEF Whole
  <2> QED  BY <2>1, <2>3
<1> QED  BY <1>1, <1>2

(* A new node n behind the node p.                                         *)
LEMMA AddBehind ==
    ASSUME NEW L, NEW lnk, NEW heads, Apart(L, lnk, heads), Whole(L, lnk, heads),
           NEW n, n \notin L, \A k \in L : lnk[k] # n,
           NEW p \in L,
           NEW after, after[p] = n, after[n] = lnk[p], \A k \in L \ {p} : after[k] = lnk[k],
           NEW new, n \notin new, \A k \in L : k \in new <=> k \in heads
    PROVE  Apart(L \cup {n}, after, new) /\ Whole(L \cup {n}, after, new)
<1>1. Apart(L \cup {n}, after, new)
  BY DEF Apart
<1>2. Whole(L \cup {n}, after, new)
  <2> SUFFICES ASSUME NEW S \in SUBSET (L \cup {n}), new \cap (L \cup {n}) \subseteq S,
                      Closed(L \cup {n}, after, S)
               PROVE  S = L \cup {n}
    BY DEF Whole
  <2>1. heads \cap L \subseteq S \ {n} /\ S \ {n} \in SUBSET L
    OBVIOUS
  <2>2. Closed(L, lnk, S \ {n})
    BY DEF Closed
  <2>3. S \ {n} = L
    BY <2>1, <2>2 DEF Whole
  <2>4. n \in S
    BY <2>3 DEF Closed
  <2> QED  BY <2>3, <2>4
<1> QED  BY <1>1, <1>2

(* The first node h of a list goes, and the one behind it is the first.    *)
LEMMA DropHead ==
    ASSUME NEW L, NEW lnk, NEW heads, Apart(L, lnk, heads), Whole(L, lnk, heads),
           NEW h \in L, h \in heads,
           NEW after, \A k \in L \ {h} : after[k] = lnk[k],
           NEW new, \A k \in L \ {h} : k \in new <=> k \in heads \/ k = lnk[h]
    PROVE  Apart(L \ {h}, after, new) /\ Whole(L \ {h}, after, new)
<1>1. Apart(L \ {h}, after, new)
  BY DEF Apart
<1>2. Whole(L \ {h}, after, new)
  <2> SUFFICES ASSUME NEW S \in SUBSET (L \ {h}), new \cap (L \ {h}) \subseteq S,
                      Closed(L \ {h}, after, S)
               PROVE  S = L \ {h}
    BY DEF Whole
  <2>1. heads \cap L \subseteq S \cup {h} /\ S \cup {h} \in SUBSET L
    OBVIOUS
  <2>2. \A k \in L : lnk[k] # h
    BY DEF Apart
  <2>3. lnk[h] \in L => lnk[h] \in S
    BY <2>2
  <2>4. Closed(L, lnk, S \cup {h})
    BY <2>2, <2>3 DEF Closed
  <2>5. S \cup {h} = L
    BY <2>1, <2>4 DEF Whole
  <2> QED  BY <2>5
<1> QED  BY <1>1, <1>2

(* No node leads back to itself: the circle would not be found.            *)
LEMMA NoLoop ==
    ASSUME NEW L, NEW lnk, NEW heads, Apart(L, lnk, heads), Whole(L, lnk, heads), NEW p \in L
    PROVE  lnk[p] # p
<1> SUFFICES ASSUME lnk[p] = p PROVE FALSE
  OBVIOUS
<1>1. heads \cap L \subseteq L \ {p} /\ Closed(L, lnk, L \ {p})
  BY DEF Apart, Closed
<1>2. L \ {p} = L
  BY <1>1 DEF Whole
<1> QED  BY <1>2

(* The node m behind p goes.                                               *)
LEMMA DropNext ==
    ASSUME NEW L, NEW lnk, NEW heads, Apart(L, lnk, heads), Whole(L, lnk, heads),
           NEW p \in L, NEW m \in L, m = lnk[p],
           NEW after, after[p] = lnk[m], \A k \in L \ {p, m} : after[k] = lnk[k],
           NEW new, \A k \in L : k \in new <=> k \in heads
    PROVE  Apart(L \ {m}, after, new) /\ Whole(L \ {m}, after, new)
<1>1. p # m /\ lnk[m] # m
  BY NoLoop
<1>2. Apart(L \ {m}, after, new)
  BY <1>1 DEF Apart
<1>3. Whole(L \ {m}, after, new)
  <2> SUFFICES ASSUME NEW S \in SUBSET (L \ {m}), new \cap (L \ {m}) \subseteq S,
                      Closed(L \ {m}, after, S)
               PROVE  S = L \ {m}
    BY DEF Whole
  <2>1. heads \cap L \subseteq S
    BY DEF Apart
  <2> DEFINE T == IF p \in S THEN S \cup {m} ELSE S
  <2>2. T \in SUBSET L /\ heads \cap L \subseteq T
    BY <2>1
  <2>3. Closed(L, lnk, T)
    <3> SUFFICES ASSUME NEW k \in T, lnk[k] \in L  PROVE lnk[k] \in T
      BY DEF Closed
    <3>1. CASE k = m
      BY <3>1, <1>1 DEF Closed
    <3>2. CASE k = p
      BY <3>2, <1>1
    <3>3. CASE k # m /\ k # p
      <4>1. lnk[k] # m
        BY <3>3 DEF Apart
      <4> QED  BY <3>3, <4>1 DEF Closed
    <3> QED  BY <3>1, <3>2, <3>3
  <2>4. T = L
    BY <2>2, <2>3 DEF Whole
  <2> QED  BY <2>4
<1> QED  BY <1>2, <1>3

-----------------------------------------------------------------------------
(* The node that is handed out is nobody's, and the step is one of the     *)
(* allocator.                                                              *)
LEMMA AllocStep ==
    ASSUME IInv, Alloc
    PROVE  /\ New \in Node /\ New \notin Held /\ New # NULL
           /\ Held' = Held \cup {New}
           /\ manager # "freed"
           /\ Next /\ IInv'
<1>1. PICK h \in Handle : h = Spare /\ holds[h] = NULL
  BY DEF Alloc, Spare
<1>2. AllocList(h) /\ New = holds'[h] /\ New \in Node
  BY <1>1 DEF Alloc, New
<1>3. PICK s \in Slot \ Held : Give(h, s)
  BY <1>2, AllocIsFresh
<1>4. /\ holds \in [Handle -> Slot \cup {NULL}] /\ NoAliasing
      /\ New = s
  BY <1>2, <1>3 DEF IInv, TypeOK, Give
<1>5. Held' = Held \cup {s}
  BY <1>1, <1>3, <1>4, GiveFresh
<1>6. Next
  BY <1>2 DEF Next
<1>7. IInv'
  BY <1>6, NextInv
<1>8. manager # "freed"
  BY <1>2 DEF AllocList, FirstAlloc
<1> QED  BY <1>2, <1>3, <1>4, <1>5, <1>6, <1>7, <1>8, NullIsNoSlot

(* Only the node that is given back is nobody's then.                      *)
LEMMA FreeStep ==
    ASSUME IInv, NEW n, n \in Held, Free(n)
    PROVE  /\ Held' = Held \ {n}
           /\ manager # "freed" /\ manager' # "freed"
           /\ Next /\ IInv'
<1>1. PICK h \in Handle : h = (CHOOSE g \in Handle : holds[g] = n) /\ holds[h] = n
  BY DEF Held
<1>2. FreeListNode(h)
  BY <1>1 DEF Free
<1>3. /\ holds \in [Handle -> Slot \cup {NULL}] /\ NoAliasing
      /\ holds[h] # NULL /\ holds' = [holds EXCEPT ![h] = NULL]
  BY <1>2 DEF IInv, TypeOK, FreeListNode
<1>4. Held' = Held \ {n}
  BY <1>1, <1>3, TakeBack
<1>5. Next
  BY <1>2 DEF Next
<1>6. IInv'
  BY <1>5, NextInv
<1>7. manager # "freed" /\ manager' # "freed"
  BY <1>2 DEF FreeListNode
<1> QED  BY <1>4, <1>5, <1>6, <1>7

-----------------------------------------------------------------------------
(* A node is first in a list of its own (newList, cloneList).              *)
LEMMA FirstOwned ==
    ASSUME HeapInv, Alloc, NEW n, n = New, NEW l \in List,
           ptr[l] = NULL, ptr' = [ptr EXCEPT ![l] = n],
           link' = [link EXCEPT ![n] = NULL],
           Leaving = {}, Leaving' = {}
    PROVE  /\ Typed'
           /\ \A j, m \in List : ptr'[j] = ptr'[m] /\ ptr'[j] # NULL => j = m
           /\ Apart(Held', link', Heads') /\ Whole(Held', link', Heads')
<1>1. /\ n \in Node /\ n \notin Held /\ n # NULL /\ Held' = Held \cup {n}
      /\ Owned /\ Apart(Held, link, Heads) /\ Whole(Held, link, Heads)
  BY AllocStep DEF HeapInv, Owned
<1>2. NULL \notin Held
  BY DEF Held
<1>3. Typed'
  BY <1>1 DEF Owned, Typed
<1>4. \A j, m \in List : ptr'[j] = ptr'[m] /\ ptr'[j] # NULL => j = m
  BY <1>1 DEF Owned, Typed
<1>5. n \in Heads' /\ \A k \in Held : k \in Heads' <=> k \in Heads
  BY <1>1, <1>2 DEF Owned, Typed, Heads
<1>6. \A k \in Held : link[k] # n /\ link'[k] = link[k]
  BY <1>1 DEF Owned, Typed
<1>7. link'[n] \notin Held \cup {n}
  BY <1>1, <1>2 DEF Owned, Typed
<1>8. Apart(Held', link', Heads') /\ Whole(Held', link', Heads')
  <2>1. Apart(Held \cup {n}, link', Heads') /\ Whole(Held \cup {n}, link', Heads')
    BY ONLY <1>1, <1>5, <1>6, <1>7, NewHead
  <2> QED  BY <1>1, <2>1
<1> QED  BY <1>3, <1>4, <1>8

(* A node is put behind that of p, in a list that stays where it is: its   *)
(* first (addToListBeginning), its last (addToListEnd), or the last of a   *)
(* copy (cloneList).                                                       *)
LEMMA BehindOwned ==
    ASSUME HeapInv, Alloc, NEW n, n = New, NEW p \in Held,
           link' = [link EXCEPT ![n] = link[p], ![p] = n],
           ptr' = ptr, Leaving = {}, Leaving' = {}
    PROVE  /\ Typed'
           /\ \A l, m \in List : ptr'[l] = ptr'[m] /\ ptr'[l] # NULL => l = m
           /\ Apart(Held', link', Heads') /\ Whole(Held', link', Heads')
<1>1. /\ n \in Node /\ n \notin Held /\ n # NULL /\ Held' = Held \cup {n}
      /\ Owned /\ Apart(Held, link, Heads) /\ Whole(Held, link, Heads)
  BY AllocStep DEF HeapInv, Owned
<1>2. Typed'
  BY <1>1 DEF Owned, Typed
<1>3. n \notin Heads' /\ \A k \in Held : k \in Heads' <=> k \in Heads
  BY <1>1 DEF Owned, Typed, Heads
<1>4. /\ \A k \in Held : link[k] # n
      /\ link'[p] = n /\ link'[n] = link[p]
      /\ \A k \in Held \ {p} : link'[k] = link[k]
  BY <1>1 DEF Owned, Typed
<1>5. Apart(Held \cup {n}, link', Heads') /\ Whole(Held \cup {n}, link', Heads')
  BY ONLY <1>1, <1>3, <1>4, p \in Held, AddBehind
<1> QED  BY <1>1, <1>2, <1>5 DEF Owned

(* The first node h of a list is given back: the list goes on behind it    *)
(* (deleteFromListBeginning, freeList).                                    *)
LEMMA HeadGone ==
    ASSUME HeapInv, NEW h \in Held, Free(h), h \in Heads,
           link' = [link EXCEPT ![h] = NULL],
           \A k \in Held \ {h} : k \in Heads' <=> k \in Heads \/ k = link[h]
    PROVE  /\ Owned /\ Held' = Held \ {h} /\ link[h] \in Held' \cup {NULL}
           /\ link' \in [Node -> Node \cup {NULL}]
           /\ \A n \in Held' : link'[n] \in Held' \cup {NULL}
           /\ Apart(Held', link', Heads') /\ Whole(Held', link', Heads')
<1>1. /\ Held' = Held \ {h}
      /\ Owned /\ Apart(Held, link, Heads) /\ Whole(Held, link, Heads)
  BY FreeStep DEF HeapInv, Owned
<1>2. \A k \in Held : link[k] # h
  BY <1>1 DEF Apart
<1>3. /\ link' \in [Node -> Node \cup {NULL}]
      /\ \A k \in Held \ {h} : link'[k] = link[k]
      /\ \A k \in Held : link[k] \in Held' \cup {NULL}
  BY <1>1, <1>2 DEF Owned, Typed
<1>4. Apart(Held \ {h}, link', Heads') /\ Whole(Held \ {h}, link', Heads')
  BY <1>1, <1>3, DropHead
<1> QED  BY <1>1, <1>3, <1>4

(* The node behind p is given back (deleteFromListData).                   *)
LEMMA NextGone ==
    ASSUME HeapInv, NEW p \in Held, NEW m, m = link[p], m # NULL, Free(m),
           link' = [link EXCEPT ![p] = link[m], ![m] = NULL],
           ptr' = ptr, going = Idle, going' = Idle
    PROVE  Owned'
<1>1. m \in Held /\ NULL \notin Held
  <2>1. Owned
    <3>1. manager = "up"
      BY DEF Free, FreeListNode
    <3> QED  BY <3>1 DEF HeapInv
  <2> QED  BY <2>1 DEF Owned, Typed, Held
<1>2. /\ Held' = Held \ {m}
      /\ Owned /\ Apart(Held, link, Heads) /\ Whole(Held, link, Heads)
  BY <1>1, FreeStep DEF HeapInv, Owned
<1>3. p # m /\ link[m] # m
  BY <1>1, <1>2, NoLoop
<1>4. \A k \in Held \ {p} : link[k] # m
  BY <1>1, <1>2 DEF Apart
<1>5. \A l \in List : ptr[l] # m
  BY <1>1, <1>2 DEF Apart, Heads
<1>6. Typed'
  BY <1>1, <1>2, <1>3, <1>4, <1>5 DEF Owned, Typed
<1>7. Heads' = Heads
  BY DEF Heads, Leaving
<1>8. link'[p] = link[m] /\ \A k \in Held \ {p, m} : link'[k] = link[k]
  BY <1>1, <1>2, <1>3 DEF Owned, Typed
<1>9. Apart(Held \ {m}, link', Heads') /\ Whole(Held \ {m}, link', Heads')
  BY ONLY <1>1, <1>2, <1>7, <1>8, p \in Held, m = link[p], DropNext
<1> QED  BY <1>2, <1>6, <1>9 DEF Owned, Going

-----------------------------------------------------------------------------
(* The operations.  Each is a step of the allocator, or none of it.        *)

LEMMA NewListInv ==
    ASSUME HeapInv, NEW l \in List, NewList(l)
    PROVE  HeapInv' /\ [Next]_vars
<1>1. Alloc /\ Next /\ IInv'
  BY AllocStep DEF NewList, HeapInv
<1>2. PICK n : n = New
  OBVIOUS
<1>3. /\ going = Idle /\ going' = Idle /\ ptr[l] = NULL
      /\ ptr' = [ptr EXCEPT ![l] = n] /\ link' = [link EXCEPT ![n] = NULL]
  BY <1>2 DEF NewList, Ready
<1>4. Leaving = {} /\ Leaving' = {}
  BY <1>3 DEF Leaving, Idle
<1>5. Owned'
  BY <1>1, <1>2, <1>3, <1>4, FirstOwned DEF Owned, Going
<1> QED  BY <1>1, <1>5 DEF HeapInv

(* (list.c:128-137)                                                        *)
LEMMA PushInv ==
    ASSUME HeapInv, NEW l \in List, NEW d \in Data, AddToListBeginning(l, d)
    PROVE  HeapInv' /\ [Next]_vars
<1>1. Alloc /\ Next /\ IInv' /\ Owned
  BY AllocStep DEF AddToListBeginning, HeapInv
<1>2. PICK n, p : n = New /\ p = ptr[l]
  OBVIOUS
<1>3. /\ going = Idle /\ going' = Idle /\ ptr' = ptr
      /\ link' = [link EXCEPT ![n] = link[p], ![p] = n]
  BY <1>2 DEF AddToListBeginning, Using, Ready
<1>4. p \in Held
  BY <1>1, <1>2 DEF Owned, Typed, AddToListBeginning, Using
<1>5. Leaving = {} /\ Leaving' = {}
  BY <1>3 DEF Leaving, Idle
<1>6. Owned'
  BY <1>1, <1>2, <1>3, <1>4, <1>5, BehindOwned DEF Owned, Going
<1> QED  BY <1>1, <1>6 DEF HeapInv

(* Nothing that the invariant is about changes.                            *)
LEMMA KeptInv ==
    ASSUME HeapInv, UNCHANGED <<vars, ptr, link, going>>
    PROVE  HeapInv' /\ [Next]_vars
<1>1. IInv' /\ UNCHANGED vars
  BY StutterInv DEF HeapInv
<1>2. Held' = Held /\ Heads' = Heads /\ manager' = manager
  BY DEF Held, Heads, Leaving, vars
<1>3. Owned => Owned'
  BY <1>2 DEF Owned, Typed, Going
<1> QED  BY <1>1, <1>2, <1>3 DEF HeapInv

(* (list.c:139-152)                                                        *)
LEMMA AddInv ==
    ASSUME HeapInv, NEW l \in List, NEW d \in Data, AddToListEnd(l, d)
    PROVE  HeapInv' /\ [Next]_vars
<1>1. going = Idle /\ going' = Idle /\ ptr' = ptr
  BY DEF AddToListEnd, Using, Ready
<1>2. CASE FillFirst(l, d)
  BY <1>1, <1>2, KeptInv DEF FillFirst
<1>3. CASE AddLast(l, d)
  <2>1. Alloc /\ Next /\ IInv' /\ Owned /\ New \notin Held
    BY <1>3, AllocStep DEF AddLast, HeapInv
  <2>2. PICK n : n = New
    OBVIOUS
  <2>3. PICK p \in Nodes(l) : link[p] = NULL /\ link' = [link EXCEPT ![p] = n, ![n] = NULL]
    BY <1>3, <2>2 DEF AddLast
  <2>4. p \in Held /\ p # n
    BY <2>1, <2>2 DEF Nodes, From, Reach
  <2>5. link' = [link EXCEPT ![n] = link[p], ![p] = n]
    BY <2>1, <2>3, <2>4 DEF Owned, Typed
  <2>6. Leaving = {} /\ Leaving' = {}
    BY <1>1 DEF Leaving, Idle
  <2>7. Owned'
    BY <1>1, <2>1, <2>2, <2>4, <2>5, <2>6, BehindOwned DEF Owned, Going
  <2> QED  BY <2>1, <2>7 DEF HeapInv
<1> QED  BY <1>2, <1>3 DEF AddToListEnd

(* (list.c:226-248)                                                        *)
LEMMA DeleteInv ==
    ASSUME HeapInv, NEW l \in List, NEW d \in Data, DeleteFromListData(l, d)
    PROVE  HeapInv' /\ [Next]_vars
<1>1. going = Idle /\ going' = Idle /\ ptr' = ptr /\ ptr[l] # NULL
  BY DEF DeleteFromListData, Using, Ready
<1>2. PICK p, m : /\ m = link[p] /\ m # NULL /\ Free(m)
                  /\ p \in Held \cup {ptr[l]}
                  /\ link' = [link EXCEPT ![p] = link[m], ![m] = NULL]
  <2>1. CASE DeleteFirst(l, d)
    BY <2>1 DEF DeleteFirst
  <2>2. CASE DeleteFurther(l, d)
    BY <2>2 DEF DeleteFurther
  <2> QED  BY <2>1, <2>2 DEF DeleteFromListData
<1>3. manager = "up" /\ Owned
  BY <1>2 DEF Free, FreeListNode, HeapInv
<1>4. p \in Held /\ m \in Held
  BY <1>1, <1>2, <1>3 DEF Owned, Typed
<1>5. Owned'
  BY <1>1, <1>2, <1>4, NextGone
<1>6. Next /\ IInv'
  BY <1>2, <1>4, FreeStep DEF HeapInv
<1> QED  BY <1>5, <1>6 DEF HeapInv

(* (list.c:267-272)                                                        *)
LEMMA TakeInv ==
    ASSUME HeapInv, NEW l \in List, DeleteFromListBeginning(l)
    PROVE  HeapInv' /\ [Next]_vars
<1>1. PICK h : h = ptr[l]
  OBVIOUS
<1>2. /\ going = Idle /\ going' = Idle /\ h # NULL /\ Free(h)
      /\ ptr' = [ptr EXCEPT ![l] = link[h]] /\ link' = [link EXCEPT ![h] = NULL]
  BY <1>1 DEF DeleteFromListBeginning, Using, Ready
<1>3. Owned
  BY <1>2 DEF Free, FreeListNode, HeapInv
<1>4. h \in Held /\ h \in Heads /\ NULL \notin Held
  BY <1>1, <1>2, <1>3 DEF Owned, Typed, Heads, Held
<1>5. \A m \in List : m # l => ptr[m] # h
  BY <1>1, <1>2, <1>3 DEF Owned
<1>6. Heads' = {ptr'[m] : m \in List} /\ Heads = {ptr[m] : m \in List}
  BY <1>2 DEF Heads, Leaving, Idle
<1>7. \A k \in Held \ {h} : k \in Heads' <=> k \in Heads \/ k = link[h]
  BY <1>1, <1>2, <1>3, <1>5, <1>6 DEF Owned, Typed
<1>8. /\ Held' = Held \ {h} /\ link[h] \in Held' \cup {NULL}
      /\ link' \in [Node -> Node \cup {NULL}]
      /\ \A n \in Held' : link'[n] \in Held' \cup {NULL}
      /\ Apart(Held', link', Heads') /\ Whole(Held', link', Heads')
  BY <1>2, <1>4, <1>7, HeadGone
<1>9. Typed'
  BY <1>2, <1>3, <1>5, <1>8 DEF Owned, Typed
<1>10. \A j, m \in List : ptr'[j] = ptr'[m] /\ ptr'[j] # NULL => j = m
  <2>1. \A m \in List : link[h] # NULL => ptr[m] # link[h]
    BY <1>3, <1>4 DEF Owned, Apart, Heads, Typed
  <2> QED  BY <1>2, <1>3, <2>1 DEF Owned, Typed
<1>11. Next /\ IInv'
  BY <1>2, <1>4, FreeStep DEF HeapInv
<1> QED  BY <1>2, <1>8, <1>9, <1>10, <1>11 DEF HeapInv, Owned, Going

(* The first node of a copy (list.c:191-198).                              *)
LEMMA CloneListInv ==
    ASSUME HeapInv, NEW l \in List, NEW m \in List, CloneList(l, m)
    PROVE  HeapInv' /\ [Next]_vars
<1>1. Alloc /\ Next /\ IInv' /\ Owned /\ New \notin Held /\ Held' = Held \cup {New}
  BY AllocStep DEF CloneList, HeapInv
<1>2. PICK n, at : n = New /\ at = ptr[m]
  OBVIOUS
<1>3. /\ going = Idle /\ ptr[l] = NULL /\ at # NULL
      /\ going' = Cloning(l, m, at, n)
      /\ ptr' = [ptr EXCEPT ![l] = n] /\ link' = [link EXCEPT ![n] = NULL]
  BY <1>2 DEF CloneList, Using, Ready
<1>4. Leaving = {} /\ Leaving' = {}
  BY <1>3 DEF Leaving, Idle, Cloning
<1>5. /\ Typed'
      /\ \A j, k \in List : ptr'[j] = ptr'[k] /\ ptr'[j] # NULL => j = k
      /\ Apart(Held', link', Heads') /\ Whole(Held', link', Heads')
  BY <1>1, <1>2, <1>3, <1>4, FirstOwned
<1>6. Going'
  <2>1. CASE link[at] = NULL
    BY <1>3, <2>1 DEF Cloning, Going
  <2>2. CASE link[at] # NULL
    <3>1. going' = [op |-> "clone", list |-> l, of |-> m, at |-> at, to |-> n]
      BY <1>3, <2>2 DEF Cloning
    <3>2. at \in Held' /\ n \in Held' /\ link'[n] = NULL /\ link'[at] \in Held'
      BY <1>1, <1>2, <1>3, <1>5, <2>2 DEF Owned, Typed
    <3> QED  BY <3>1, <3>2 DEF Going
  <2> QED  BY <2>1, <2>2
<1> QED  BY <1>1, <1>5, <1>6 DEF HeapInv, Owned

(* The next one (list.c:199-205).                                          *)
LEMMA CloneNodeInv ==
    ASSUME HeapInv, going.op = "clone", CloneNode
    PROVE  HeapInv' /\ [Next]_vars
<1>1. Alloc /\ Next /\ IInv' /\ Owned /\ New \notin Held /\ Held' = Held \cup {New}
  BY AllocStep DEF CloneNode, HeapInv
<1>2. PICK n : n = New
  OBVIOUS
<1>3. PICK l \in List, m \in List, at \in Held, to \in Held :
         /\ going = [op |-> "clone", list |-> l, of |-> m, at |-> at, to |-> to]
         /\ link[at] \in Held /\ link[to] = NULL
  BY <1>1 DEF Owned, Going, Idle
<1>4. PICK from \in Held : from = link[at]
  BY <1>3
<1>5. /\ going' = Cloning(l, m, from, n) /\ ptr' = ptr
      /\ link' = [link EXCEPT ![to] = n, ![n] = NULL]
  BY <1>2, <1>3, <1>4 DEF CloneNode
<1>6. link' = [link EXCEPT ![n] = link[to], ![to] = n]
  BY <1>1, <1>2, <1>3, <1>5 DEF Owned, Typed
<1>7. Leaving = {} /\ Leaving' = {}
  BY <1>3, <1>5 DEF Leaving, Idle, Cloning
<1>8. /\ Typed'
      /\ \A j, k \in List : ptr'[j] = ptr'[k] /\ ptr'[j] # NULL => j = k
      /\ Apart(Held', link', Heads') /\ Whole(Held', link', Heads')
  BY <1>1, <1>2, <1>5, <1>6, <1>7, BehindOwned
<1>9. Going'
  <2>1. CASE link[from] = NULL
    BY <1>5, <2>1 DEF Cloning, Going
  <2>2. CASE link[from] # NULL
    <3>1. going' = [op |-> "clone", list |-> l, of |-> m, at |-> from, to |-> n]
      BY <1>5, <2>2 DEF Cloning
    <3>2. from # to /\ from # n /\ to # n
      BY <1>1, <1>2, <1>3, <2>2
    <3>3. from \in Held' /\ n \in Held' /\ link'[n] = NULL /\ link'[from] \in Held'
      <4>1. link \in [Node -> Node \cup {NULL}] /\ Held \subseteq Node /\ n \in Node
        BY <1>1, <1>2, AllocStep DEF HeapInv, Owned, Typed
      <4>2. link[from] \in Held
        BY <1>1, <2>2 DEF Owned, Typed
      <4> QED  BY <1>1, <1>2, <1>5, <3>2, <4>1, <4>2
    <3> QED  BY <3>1, <3>3 DEF Going
  <2> QED  BY <2>1, <2>2
<1> QED  BY <1>1, <1>8, <1>9 DEF HeapInv, Owned

(* A list leaves its place (list.c:318-322).                               *)
LEMMA FreeListInv ==
    ASSUME HeapInv, NEW l \in List, FreeList(l)
    PROVE  HeapInv' /\ [Next]_vars
<1>1. PICK h : h = ptr[l]
  OBVIOUS
<1>2. /\ going = Idle /\ h # NULL /\ UNCHANGED <<vars, link>>
      /\ ptr' = [ptr EXCEPT ![l] = NULL]
      /\ going' = [op |-> "free", at |-> h]
  BY <1>1 DEF FreeList, Using, Ready
<1>3. IInv' /\ UNCHANGED vars
  BY <1>2, StutterInv DEF HeapInv
<1>4. Held' = Held /\ manager' = manager /\ NULL \notin Held
  BY <1>2 DEF Held, vars
<1>5. ASSUME Owned PROVE Owned'
  <2>1. h \in Held /\ \A m \in List : ptr'[m] # h
    BY <1>1, <1>2, <1>4, <1>5 DEF Owned, Typed
  <2>2. Typed' /\ Going'
    BY <1>2, <1>4, <1>5, <2>1 DEF Owned, Typed, Going
  <2>3. \A j, k \in List : ptr'[j] = ptr'[k] /\ ptr'[j] # NULL => j = k
    BY <1>2, <1>5 DEF Owned, Typed
  <2>4. Heads = {ptr[m] : m \in List} /\ Heads' = {ptr'[m] : m \in List} \cup {h}
    BY <1>2 DEF Heads, Leaving, Idle
  <2>5. \A k \in Held : k \in Heads' <=> k \in Heads
    BY <1>1, <1>2, <1>4, <1>5, <2>4 DEF Owned, Typed
  <2>6. Heads' \cap Held = Heads \cap Held
    BY <2>5
  <2>7. Apart(Held', link', Heads') /\ Whole(Held', link', Heads')
    BY <1>2, <1>4, <1>5, <2>5, <2>6 DEF Owned, Apart, Whole
  <2> QED  BY <2>2, <2>3, <2>7 DEF Owned
<1> QED  BY <1>3, <1>4, <1>5 DEF HeapInv

(* Its first node is given back (list.c:323-328).                          *)
LEMMA FreeNodeInv ==
    ASSUME HeapInv, going.op = "free", FreeNode
    PROVE  HeapInv' /\ [Next]_vars
<1>1. Owned
  BY DEF FreeNode, Free, FreeListNode, HeapInv
<1>2. PICK h \in Held : going = [op |-> "free", at |-> h] /\ \A l \in List : ptr[l] # h
  BY <1>1 DEF Owned, Going, Idle
<1>3. /\ Free(h) /\ link' = [link EXCEPT ![h] = NULL] /\ ptr' = ptr
      /\ going' = IF link[h] = NULL THEN Idle ELSE [op |-> "free", at |-> link[h]]
  BY <1>2 DEF FreeNode
<1>4. Heads = {ptr[l] : l \in List} \cup {h} /\ h \in Heads /\ NULL \notin Held
  BY <1>2 DEF Heads, Leaving, Held
<1>5. Heads' = {ptr[l] : l \in List} \cup (IF link[h] = NULL THEN {} ELSE {link[h]})
  BY <1>3 DEF Heads, Leaving, Idle
<1>6. \A k \in Held \ {h} : k \in Heads' <=> k \in Heads \/ k = link[h]
  BY <1>4, <1>5
<1>7. /\ Held' = Held \ {h} /\ link[h] \in Held' \cup {NULL}
      /\ link' \in [Node -> Node \cup {NULL}]
      /\ \A n \in Held' : link'[n] \in Held' \cup {NULL}
      /\ Apart(Held', link', Heads') /\ Whole(Held', link', Heads')
  BY <1>3, <1>4, <1>6, HeadGone
<1>8. Typed'
  BY <1>1, <1>2, <1>3, <1>7 DEF Owned, Typed
<1>9. Going'
  <2>1. \A l \in List : link[h] # NULL => ptr[l] # link[h]
    BY <1>1, <1>4 DEF Owned, Apart, Typed
  <2> QED  BY <1>3, <1>7, <2>1 DEF Going
<1>10. Next /\ IInv'
  BY <1>3, FreeStep DEF HeapInv
<1> QED  BY <1>1, <1>3, <1>7, <1>8, <1>9, <1>10 DEF HeapInv, Owned

-----------------------------------------------------------------------------
LEMMA HeapInitInv == HeapInit => HeapInv
<1> SUFFICES ASSUME HeapInit PROVE HeapInv
  OBVIOUS
<1>1. IInv /\ Held = {}
  BY InitInv DEF HeapInit, Init, Held
<1>2. Typed /\ Going /\ \A l \in List : ptr[l] = NULL
  BY <1>1 DEF HeapInit, Typed, Going
<1>3. Apart(Held, link, Heads) /\ Whole(Held, link, Heads)
  BY <1>1 DEF Apart, Whole
<1> QED  BY <1>1, <1>2, <1>3 DEF HeapInv, Owned

(* Every step of the lists keeps the invariant, and is one of the          *)
(* allocator or leaves it alone.                                           *)
LEMMA HeapNextInv == HeapInv /\ [HeapNext]_heapVars => HeapInv' /\ [Next]_vars
<1> SUFFICES ASSUME HeapInv, [HeapNext]_heapVars PROVE HeapInv' /\ [Next]_vars
  OBVIOUS
<1>1. ASSUME NEW l \in List, NewList(l) \/ DeleteFromListBeginning(l) \/ FreeList(l)
      PROVE  HeapInv' /\ [Next]_vars
  BY <1>1, NewListInv, TakeInv, FreeListInv
<1>2. ASSUME NEW l \in List, NEW d \in Data,
             AddToListBeginning(l, d) \/ AddToListEnd(l, d) \/ DeleteFromListData(l, d)
      PROVE  HeapInv' /\ [Next]_vars
  BY <1>2, PushInv, AddInv, DeleteInv
<1>3. ASSUME NEW l \in List, NEW d \in Data, DeleteOnly(l, d)
      PROVE  HeapInv' /\ [Next]_vars
  BY <1>3, KeptInv DEF DeleteOnly
<1>4. ASSUME NEW l \in List, NEW m \in List, CloneList(l, m)
      PROVE  HeapInv' /\ [Next]_vars
  BY <1>4, CloneListInv
<1>5. CASE going.op = "clone" /\ CloneNode
  BY <1>5, CloneNodeInv
<1>6. CASE going.op = "free" /\ FreeNode
  BY <1>6, FreeNodeInv
<1>7. CASE End
  <2>1. Next /\ manager' = "freed"
    BY <1>7 DEF End, FreeListAlloc, Next
  <2> QED  BY <2>1, NextInv DEF HeapInv
<1>8. CASE UNCHANGED heapVars
  BY <1>8, KeptInv DEF heapVars, listVars
<1> QED  BY <1>1, <1>2, <1>3, <1>4, <1>5, <1>6, <1>7, <1>8 DEF HeapNext

(* The inductive invariant holds in every reachable state.                 *)
THEOREM HeapInductive == HeapSpec => []HeapInv
<1> QED  BY HeapInitInv, HeapNextInv, PTL DEF HeapSpec

(* The lists only take from the allocator what it hands out and only give  *)
(* back what they hold: what is proved of the allocator holds of them.     *)
THEOREM ListsUseAllocator == HeapSpec => Spec
<1>1. HeapInit => Init
  BY DEF HeapInit
<1> QED  BY <1>1, HeapNextInv, HeapInductive, PTL DEF HeapSpec, Spec

(* So no two places hold the same node of the pools.                       *)
THEOREM ListsNeverAlias == HeapSpec => []NoAliasing
<1> QED  BY ListsUseAllocator, NeverAliases, PTL

-----------------------------------------------------------------------------
(* What is found from a node on is closed under the links, and the least   *)
(* set that is.                                                            *)
LEMMA ReachIs ==
    ASSUME NEW L, NEW lnk, NEW n
    PROVE  /\ Reach(L, lnk, n) \subseteq L
           /\ n \in L => n \in Reach(L, lnk, n)
           /\ Closed(L, lnk, Reach(L, lnk, n))
           /\ \A S \in SUBSET L : (n \in L => n \in S) /\ Closed(L, lnk, S) => Reach(L, lnk, n) \subseteq S
  BY DEF Reach, Closed

(* From two first nodes no node is found that is the same.                 *)
LEMMA ReachApart ==
    ASSUME NEW L, NEW lnk, NEW heads, Apart(L, lnk, heads),
           NEW a, NEW b, a # b, a \in heads, b \in heads
    PROVE  Reach(L, lnk, a) \cap Reach(L, lnk, b) = {}
<1> DEFINE A == Reach(L, lnk, a)
           B == Reach(L, lnk, b)
<1>1. \A k \in B : k = b \/ \E j \in B : lnk[j] = k
  <2> DEFINE S == {k \in B : k = b \/ \E j \in B : lnk[j] = k}
  <2>1. S \in SUBSET L /\ (b \in L => b \in S)
    BY ReachIs
  <2>2. Closed(L, lnk, S)
    BY ReachIs DEF Closed
  <2>3. B \subseteq S
    BY <2>1, <2>2, ReachIs
  <2> QED  BY <2>3
<1>2. a \notin B
  BY <1>1, ReachIs DEF Apart
<1>3. A \ B \in SUBSET L /\ (a \in L => a \in A \ B)
  BY <1>2, ReachIs
<1>4. Closed(L, lnk, A \ B)
  <2> SUFFICES ASSUME NEW k \in A \ B, lnk[k] \in L PROVE lnk[k] \in A \ B
    BY DEF Closed
  <2>1. k \in L /\ lnk[k] \in A
    BY ReachIs DEF Closed
  <2>2. ASSUME lnk[k] \in B PROVE FALSE
    <3>1. lnk[k] # b
      BY <2>1 DEF Apart
    <3>2. PICK j \in B : lnk[j] = lnk[k]
      BY <1>1, <2>2, <3>1
    <3>3. j \in L /\ j = k
      BY <2>1, <3>2, ReachIs DEF Apart
    <3> QED  BY <3>2, <3>3
  <2> QED  BY <2>1, <2>2
<1>5. A \subseteq A \ B
  BY <1>3, <1>4, ReachIs
<1> QED  BY <1>5

LEMMA OwnedNodes == HeapInv => NodesOwned
<1> SUFFICES ASSUME HeapInv, manager = "up" PROVE NodesOwned
  BY DEF NodesOwned
<1>1. Owned /\ NULL \notin Held
  BY DEF HeapInv, Held
<1> DEFINE leaving == IF going.op = "free" THEN From(going.at) ELSE {}
           all == leaving \cup UNION {Nodes(l) : l \in List}
<1>2. \A n : From(n) \subseteq Held /\ (n \in Held => n \in From(n)) /\ Closed(Held, link, From(n))
  BY ReachIs DEF From
<1>3. Held = all
  <2>1. all \in SUBSET Held
    BY <1>2 DEF Nodes
  <2>2. Heads \cap Held \subseteq all
    BY <1>2 DEF Nodes, Heads, Leaving
  <2>3. Closed(Held, link, all)
    BY <1>2 DEF Nodes, Closed
  <2> QED  BY <1>1, <2>1, <2>2, <2>3 DEF Owned, Whole
<1>4. \A l \in List : Nodes(l) \cap leaving = {}
  <2> SUFFICES ASSUME NEW l \in List, going.op = "free" PROVE Nodes(l) \cap From(going.at) = {}
    OBVIOUS
  <2>1. ptr[l] # going.at /\ ptr[l] \in Heads /\ going.at \in Heads
    BY <1>1 DEF Owned, Going, Idle, Heads, Leaving
  <2> QED  BY <1>1, <2>1, ReachApart DEF Owned, Nodes, From
<1>5. \A l, m \in List : l # m => Nodes(l) \cap Nodes(m) = {}
  <2> SUFFICES ASSUME NEW l \in List, NEW m \in List, l # m PROVE Nodes(l) \cap Nodes(m) = {}
    OBVIOUS
  <2>1. CASE ptr[l] = NULL
    BY <1>1, <2>1 DEF Nodes, From, Reach
  <2>2. CASE ptr[l] # NULL
    <3>1. ptr[l] # ptr[m] /\ ptr[l] \in Heads /\ ptr[m] \in Heads
      BY <1>1, <2>2 DEF Owned, Heads
    <3> QED  BY <1>1, <3>1, ReachApart DEF Owned, Nodes, From
  <2> QED  BY <2>1, <2>2
<1>6. /\ \A l \in List : ptr[l] \in Held \cup {NULL}
      /\ \A n \in Held : link[n] \in Held \cup {NULL}
  BY <1>1 DEF Owned, Typed
<1> QED  BY <1>3, <1>4, <1>5, <1>6 DEF NodesOwned

(* No node is lost and none is shared, and no list goes on at a node that  *)
(* was given back, for any lists and any operations on them.               *)
THEOREM NodesStayOwned == HeapSpec => []NodesOwned
<1> QED  BY HeapInductive, OwnedNodes, PTL

-----------------------------------------------------------------------------
(* The lists as sequences.                                                 *)

(* s are the k nodes that are found from n on, in order.                   *)
Chain(L, lnk, n, k, s) ==
    /\ k \in Nat \ {0}
    /\ s \in [1 .. k -> L] /\ s[1] = n
    /\ \A i, j \in 1 .. k : s[i] = s[j] => i = j
    /\ \A i \in 1 .. k - 1 : lnk[s[i]] = s[i + 1]
    /\ lnk[s[k]] = NULL

(* What they have in them, if all but the last have something.             *)
Filled(dat, k, s) == IF dat[s[k]] = None THEN k - 1 ELSE k
Found(dat, k, s) == [i \in 1 .. Filled(dat, k, s) |-> dat[s[i]]]

(* Every set of numbers has a least one.                                   *)
LEMMA Least ==
    ASSUME NEW T \in SUBSET Nat, T # {}
    PROVE  \E x \in T : \A y \in T : x <= y
<1> DEFINE R == {ss \in Nat \X Nat : ss[1] < ss[2]}
<1>1. IsWellFoundedOn(R, Nat)
  BY NatLessThanWellFounded DEF OpToRel
<1>2. PICK x \in T : \A y \in T : ~(<<y, x>> \in R)
  <2> HIDE DEF R
  <2> QED  BY <1>1, WFMin
<1>3. \A y \in T : ~(y < x)
  BY <1>2
<1> QED  BY <1>3

(* From each node on the rest is found, and nothing else.                  *)
LEMMA ChainReach ==
    ASSUME NEW L, NEW lnk, NEW n, NEW k, NEW s, Chain(L, lnk, n, k, s), NULL \notin L,
           NEW i \in 1 .. k
    PROVE  Reach(L, lnk, s[i]) = {s[j] : j \in i .. k}
<1> DEFINE rest == {s[j] : j \in i .. k}
           R == Reach(L, lnk, s[i])
<1>1. R \subseteq rest
  <2>1. rest \in SUBSET L /\ s[i] \in rest
    BY DEF Chain
  <2>2. Closed(L, lnk, rest)
    <3> SUFFICES ASSUME NEW j \in i .. k, lnk[s[j]] \in L PROVE lnk[s[j]] \in rest
      BY DEF Closed
    <3>1. j # k
      BY DEF Chain
    <3> QED  BY <3>1 DEF Chain
  <2> QED  BY <2>1, <2>2, ReachIs
<1>2. rest \subseteq R
  <2> SUFFICES ASSUME {j \in i .. k : s[j] \notin R} # {} PROVE FALSE
    OBVIOUS
  <2>1. PICK j \in i .. k : s[j] \notin R /\ \A h \in i .. k : s[h] \notin R => j <= h
    <3>1. {h \in i .. k : s[h] \notin R} \in SUBSET Nat
      BY DEF Chain
    <3> QED  BY <3>1, Least
  <2>2. s[i] \in R
    BY ReachIs DEF Chain
  <2>3. j - 1 \in i .. k /\ j - 1 \in 1 .. k - 1
    BY <2>1, <2>2 DEF Chain
  <2>4. s[j - 1] \in R
    BY <2>1, <2>3
  <2>5. lnk[s[j - 1]] = s[j] /\ s[j] \in L
    BY <2>3 DEF Chain
  <2> QED  BY <2>1, <2>4, <2>5, ReachIs DEF Closed
<1> QED  BY <1>1, <1>2

LEMMA ChainBehind ==
    ASSUME NEW L, NEW lnk, NEW n, NEW k, NEW s, Chain(L, lnk, n, k, s), NULL \notin L,
           NEW i \in 1 .. k, NEW j \in i .. k
    PROVE  s[j] \in Reach(L, lnk, s[i])
  BY ChainReach

(* There are not more of them than nodes.                                  *)
LEMMA ChainFits ==
    ASSUME NEW L, NEW lnk, NEW n, NEW k, NEW s, Chain(L, lnk, n, k, s), IsFiniteSet(L)
    PROVE  Cardinality(L) \in Nat /\ k <= Cardinality(L)
<1>1. s \in Injection(1 .. k, L)
  BY DEF Chain, Injection, IsInjective
<1>2. Cardinality(1 .. k) = k /\ Cardinality(L) \in Nat
  BY FS_Interval, FS_CardinalityType DEF Chain
<1> QED  BY <1>1, <1>2, FS_Injection

(* A sequence with one more at its end, at its beginning, or one less.     *)
IsSeq(s, k) == k \in Nat /\ s = [i \in 1 .. k |-> s[i]]

LEMMA SeqIs ==
    ASSUME NEW k, NEW s, IsSeq(s, k)
    PROVE  /\ s \in Seq({s[i] : i \in 1 .. k}) /\ Len(s) = k
           /\ DOMAIN s = 1 .. k
<1>1. s \in [1 .. k -> {s[i] : i \in 1 .. k}]
  BY DEF IsSeq
<1> QED  BY <1>1 DEF IsSeq

LEMMA SeqSame ==
    ASSUME NEW S, NEW T, NEW s \in Seq(S), NEW t \in Seq(T), Len(s) = Len(t),
           \A i \in 1 .. Len(s) : s[i] = t[i]
    PROVE  s = t
  OBVIOUS

LEMMA AppendIs ==
    ASSUME NEW k, NEW s, IsSeq(s, k), NEW t, IsSeq(t, k + 1), \A i \in 1 .. k : t[i] = s[i]
    PROVE  Append(s, t[k + 1]) = t
<1> DEFINE S == {s[i] : i \in 1 .. k} \cup {t[k + 1]}
           T == {t[i] : i \in 1 .. k + 1}
           u == Append(s, t[k + 1])
<1>1. k \in Nat /\ s \in Seq(S) /\ Len(s) = k /\ t \in Seq(T) /\ Len(t) = k + 1
  BY SeqIs DEF IsSeq
<1> HIDE DEF S, T
<1>2. u \in Seq(S) /\ Len(u) = k + 1 /\ u[k + 1] = t[k + 1] /\ \A i \in 1 .. k : u[i] = s[i]
  <2>1. t[k + 1] \in S
    BY DEF S
  <2> QED  BY <1>1, <2>1
<1>3. \A i \in 1 .. k + 1 : u[i] = t[i]
  BY <1>1, <1>2
<1> HIDE DEF u
<1> QED  BY <1>1, <1>2, <1>3, SeqSame DEF u

LEMMA PrependIs ==
    ASSUME NEW k, NEW s, IsSeq(s, k), NEW t, IsSeq(t, k + 1), \A i \in 1 .. k : t[i + 1] = s[i]
    PROVE  <<t[1]>> \o s = t /\ Tail(t) = s
<1> DEFINE T == {t[i] : i \in 1 .. k + 1}
           u == <<t[1]>> \o s
<1>1. k \in Nat /\ Len(s) = k /\ t \in Seq(T) /\ Len(t) = k + 1 /\ t[1] \in T
  BY SeqIs DEF IsSeq
<1>2. s \in Seq(T)
  <2>1. \A i \in 1 .. k : s[i] \in T
    <3>1. \A i \in 1 .. k : i + 1 \in 1 .. k + 1
      BY <1>1
    <3> QED  BY <3>1
  <2>2. s \in [1 .. k -> T]
    BY <2>1 DEF IsSeq
  <2> HIDE DEF T
  <2>3. s \in Seq(T)
    BY <1>1, <2>2
  <2> QED  BY <2>3 DEF T
<1> HIDE DEF T
<1>3. u \in Seq(T) /\ Len(u) = k + 1 /\ u[1] = t[1] /\ \A i \in 1 .. k : u[i + 1] = s[i]
  BY <1>1, <1>2
<1>4. \A i \in 1 .. k + 1 : u[i] = t[i]
  <2> TAKE i \in 1 .. k + 1
  <2>1. i = 1 \/ (i - 1 \in 1 .. k /\ i = (i - 1) + 1)
    BY <1>1
  <2> QED  BY <1>3, <2>1
<1>5. u = t
  <2> HIDE DEF u
  <2> QED  BY <1>1, <1>3, <1>4, SeqSame
<1>6. Tail(t) \in Seq(T) /\ Len(Tail(t)) = k /\ \A i \in 1 .. k : Tail(t)[i] = t[i + 1]
  <2>1. t # <<>>
    BY <1>1
  <2> QED  BY <1>1, <2>1
<1> QED  BY <1>1, <1>2, <1>5, <1>6, SeqSame

Without(t, p) == SubSeq(t, 1, p - 1) \o SubSeq(t, p + 1, Len(t))

LEMMA RemoveIs ==
    ASSUME NEW k, NEW s, IsSeq(s, k), NEW t, IsSeq(t, k + 1), NEW p \in 1 .. k + 1,
           \A i \in 1 .. k : s[i] = IF i < p THEN t[i] ELSE t[i + 1]
    PROVE  Without(t, p) = s
<1> DEFINE T == {t[i] : i \in 1 .. k + 1}
           b == SubSeq(t, 1, p - 1)
           e == SubSeq(t, p + 1, k + 1)
<1>1. k \in Nat /\ Len(s) = k /\ t \in Seq(T) /\ Len(t) = k + 1
  BY SeqIs DEF IsSeq
<1>2. s \in Seq(T)
  <2>1. \A i \in 1 .. k : s[i] \in T
    <3>1. \A i \in 1 .. k : i \in 1 .. k + 1 /\ i + 1 \in 1 .. k + 1
      BY <1>1
    <3> QED  BY <3>1
  <2>2. s \in [1 .. k -> T]
    BY <2>1 DEF IsSeq
  <2> HIDE DEF T
  <2>3. s \in Seq(T)
    BY <1>1, <2>2
  <2> QED  BY <2>3 DEF T
<1> HIDE DEF T
<1>3. b \in Seq(T) /\ Len(b) = p - 1 /\ \A i \in 1 .. p - 1 : b[i] = t[i]
  BY <1>1
<1>4. e \in Seq(T) /\ Len(e) = k + 1 - p /\ \A i \in 1 .. k + 1 - p : e[i] = t[p + i]
  BY <1>1
<1> HIDE DEF b, e
<1>5. /\ b \o e \in Seq(T) /\ Len(b \o e) = k
      /\ \A i \in 1 .. k : (b \o e)[i] = IF i < p THEN b[i] ELSE e[i - (p - 1)]
  BY <1>1, <1>3, <1>4
<1>6. \A i \in 1 .. k : (b \o e)[i] = s[i]
  <2> TAKE i \in 1 .. k
  <2>1. CASE i < p
    BY <1>1, <1>3, <1>5, <2>1
  <2>2. CASE ~(i < p)
    <3>1. i - (p - 1) \in 1 .. k + 1 - p /\ p + (i - (p - 1)) = i + 1
      BY <1>1, <2>2
    <3> QED  BY <1>1, <1>4, <1>5, <2>2, <3>1
  <2> QED  BY <2>1, <2>2
<1> QED  BY <1>1, <1>2, <1>5, <1>6, SeqSame DEF b, e, Without

(* Going through them finds what they have.                                *)
LEMMA ItemsAre ==
    ASSUME NEW L, NEW lnk, NEW n, NEW k, NEW s, Chain(L, lnk, n, k, s), NULL \notin L,
           NEW dat, \A i \in 1 .. k - 1 : dat[s[i]] # None,
           NEW many \in Nat, k <= many
    PROVE  Items(lnk, dat, n, many) = Found(dat, k, s)
<1>1. PICK m : m = Filled(dat, k, s)
  OBVIOUS
<1>2. k \in Nat \ {0} /\ m \in Nat /\ m <= k /\ k - 1 <= m
  BY <1>1 DEF Chain, Filled
<1> DEFINE At(i) == IF i < k THEN s[i + 1] ELSE NULL
           Until(i) == IF i <= m THEN i ELSE m
           Has(i) == [j \in 1 .. Until(i) |-> dat[s[j]]]
           walk == [i \in 0 .. many |-> [at |-> At(i), found |-> Has(i)]]
           Step(r) == IF r.at = NULL THEN r
                      ELSE [at |-> lnk[r.at],
                            found |-> IF dat[r.at] = None THEN r.found
                                      ELSE Append(r.found, dat[r.at])]
           Goes(f) == f = [i \in 0 .. many |->
                             IF i = 0 THEN [at |-> n, found |-> <<>>] ELSE Step(f[i - 1])]
           read == CHOOSE f : Goes(f)
<1>3. At(0) = n /\ Has(0) = <<>>
  BY <1>2 DEF Chain
<1>4. ASSUME NEW i \in 1 .. many
      PROVE  [at |-> At(i), found |-> Has(i)] = Step([at |-> At(i - 1), found |-> Has(i - 1)])
  <2>1. CASE k < i
    <3>1. At(i) = NULL /\ At(i - 1) = NULL /\ Until(i) = m /\ Until(i - 1) = m
      BY <1>2, <2>1
    <3> QED  BY <3>1
  <2>2. CASE i <= k
    <3>1. At(i - 1) = s[i] /\ s[i] # NULL /\ At(i) = lnk[s[i]]
      BY <1>2, <2>2 DEF Chain
    <3>2. Until(i - 1) = i - 1
      BY <1>2, <2>2
    <3>3. CASE dat[s[i]] = None
      <4>1. i = k /\ m = k - 1
        BY <1>1, <1>2, <2>2, <3>3 DEF Filled
      <4>2. Until(i) = i - 1
        BY <1>2, <4>1
      <4> QED  BY <3>1, <3>2, <3>3, <4>2
    <3>4. CASE dat[s[i]] # None
      <4>1. Until(i) = i
        BY <1>1, <1>2, <2>2, <3>4 DEF Filled
      <4>2. Has(i) = Append(Has(i - 1), dat[s[i]])
        <5>1. i - 1 \in Nat /\ (i - 1) + 1 = i
          OBVIOUS
        <5>2. Has(i - 1) = [j \in 1 .. i - 1 |-> dat[s[j]]] /\ Has(i) = [j \in 1 .. i |-> dat[s[j]]]
          <6> HIDE DEF Until
          <6> QED  BY <3>2, <4>1
        <5> HIDE DEF Has
        <5>3. IsSeq(Has(i - 1), i - 1) /\ IsSeq(Has(i), (i - 1) + 1)
          BY <5>1, <5>2 DEF IsSeq
        <5>4. /\ \A j \in 1 .. i - 1 : Has(i)[j] = Has(i - 1)[j]
              /\ Has(i)[(i - 1) + 1] = dat[s[i]]
          BY <5>1, <5>2
        <5> QED  BY <5>1, <5>3, <5>4, AppendIs
      <4> QED  BY <3>1, <3>4, <4>2
    <3> QED  BY <3>3, <3>4
  <2> QED  BY <1>2, <2>1, <2>2
<1> HIDE DEF At, Has, Step
<1>5. /\ walk[0] = [at |-> n, found |-> <<>>]
      /\ \A i \in 1 .. many : walk[i] = Step(walk[i - 1])
  BY <1>3, <1>4
<1> HIDE DEF walk
<1>6. Goes(walk)
  <2>1. walk = [i \in 0 .. many |-> walk[i]]
    BY DEF walk
  <2>2. \A i \in 0 .. many : i # 0 => i \in 1 .. many
    OBVIOUS
  <2> QED  BY <1>5, <2>1, <2>2
<1>7. Goes(read)
  <2> HIDE DEF Goes
  <2> QED  BY <1>6
<1> HIDE DEF read
<1>8. \A i \in 0 .. many : read[i] = walk[i]
  <2> SUFFICES ASSUME {i \in 0 .. many : read[i] # walk[i]} # {} PROVE FALSE
    OBVIOUS
  <2>1. PICK i \in 0 .. many : read[i] # walk[i] /\ \A h \in 0 .. many : read[h] # walk[h] => i <= h
    <3>1. {h \in 0 .. many : read[h] # walk[h]} \in SUBSET Nat
      OBVIOUS
    <3> QED  BY <3>1, Least
  <2>2. i # 0
    BY <1>5, <1>7, <2>1
  <2>3. i \in 1 .. many /\ i - 1 \in 0 .. many /\ ~(i <= i - 1)
    BY <2>1, <2>2
  <2>4. read[i - 1] = walk[i - 1]
    BY <2>1, <2>3
  <2>5. read[i] = Step(read[i - 1])
    BY <1>7, <2>2, <2>3
  <2> QED  BY <1>5, <2>1, <2>3, <2>4, <2>5
<1>9. read[many].found = Found(dat, k, s)
  <2>1. walk[many].found = Has(many)
    BY DEF walk
  <2>2. Has(many) = Found(dat, k, s)
    BY <1>1, <1>2 DEF Found, Has
  <2> QED  BY <1>8, <2>1, <2>2
<1> QED  BY <1>9 DEF Items, read, Step

-----------------------------------------------------------------------------
(* What the changes of links make of a chain.                              *)

(* No node of it is changed.                                               *)
LEMMA ChainKept ==
    ASSUME NEW L, NEW lnk, NEW n, NEW k, NEW s, Chain(L, lnk, n, k, s),
           NEW after, NEW there, \A i \in 1 .. k : s[i] \in there /\ after[s[i]] = lnk[s[i]]
    PROVE  Chain(there, after, n, k, s)
<1>1. k \in Nat \ {0} /\ s \in [1 .. k -> there]
  BY DEF Chain
<1>2. \A i \in 1 .. k - 1 : i \in 1 .. k
  BY <1>1
<1> QED  BY <1>1, <1>2 DEF Chain

(* A list of one node.                                                     *)
LEMMA ChainOfOne ==
    ASSUME NEW L, NEW lnk, NEW n \in L, lnk[n] = NULL
    PROVE  Chain(L, lnk, n, 1, [i \in 1 .. 1 |-> n])
  BY DEF Chain

(* A new node e behind the p-th.                                           *)
Inserted(s, k, p, e) ==
    [i \in 1 .. k + 1 |-> IF i <= p THEN s[i] ELSE IF i = p + 1 THEN e ELSE s[i - 1]]

LEMMA ChainInsert ==
    ASSUME NEW L, NEW lnk, NEW n, NEW k, NEW s, Chain(L, lnk, n, k, s),
           NEW e, e \notin L, NEW p \in 1 .. k,
           NEW after, after[s[p]] = e, after[e] = lnk[s[p]],
           \A x \in L : x # s[p] => after[x] = lnk[x]
    PROVE  Chain(L \cup {e}, after, n, k + 1, Inserted(s, k, p, e))
<1>1. PICK t : t = Inserted(s, k, p, e)
  OBVIOUS
<1>2. /\ k \in Nat \ {0} /\ k + 1 \in Nat \ {0} /\ (k + 1) - 1 = k
      /\ \A i \in 1 .. k : s[i] \in L
  BY DEF Chain
<1>3. \A i \in 1 .. k + 1 : t[i] = IF i <= p THEN s[i] ELSE IF i = p + 1 THEN e ELSE s[i - 1]
  BY <1>1 DEF Inserted
<1>4. \A i \in 1 .. k + 1 : /\ i <= p => i \in 1 .. k
                            /\ ~(i <= p) /\ i # p + 1 => i - 1 \in 1 .. k /\ p < i - 1
  BY <1>2
<1>5. t \in [1 .. k + 1 -> L \cup {e}]
  <2>1. \A i \in 1 .. k + 1 : t[i] \in L \cup {e}
    BY <1>2, <1>3, <1>4
  <2> QED  BY <1>1, <2>1 DEF Inserted
<1>6. \A i, j \in 1 .. k + 1 : t[i] = t[j] => i = j
  <2> TAKE i, j \in 1 .. k + 1
  <2> HAVE t[i] = t[j]
  <2>1. \A x, y \in 1 .. k : s[x] = s[y] => x = y
    BY DEF Chain
  <2>2. \A x \in 1 .. k : s[x] # e
    BY <1>2
  <2>3. CASE i <= p
    BY <1>2, <1>3, <1>4, <2>1, <2>2, <2>3
  <2>4. CASE i = p + 1
    BY <1>2, <1>3, <1>4, <2>1, <2>2, <2>4
  <2>5. CASE ~(i <= p) /\ i # p + 1
    BY <1>2, <1>3, <1>4, <2>1, <2>2, <2>5
  <2> QED  BY <2>3, <2>4, <2>5
<1>7. \A i \in 1 .. k : after[t[i]] = t[i + 1]
  <2> TAKE i \in 1 .. k
  <2>1. i \in 1 .. k + 1 /\ i + 1 \in 1 .. k + 1 /\ p + 1 \in 1 .. k + 1 /\ (p + 1) - 1 = p
    BY <1>2
  <2>2. \A x \in 1 .. k : x # p => s[x] # s[p] /\ after[s[x]] = lnk[s[x]]
    BY <1>2 DEF Chain
  <2>3. \A x \in 1 .. k - 1 : lnk[s[x]] = s[x + 1]
    BY DEF Chain
  <2>4. CASE i = p
    BY <1>3, <2>1, <2>4
  <2>5. CASE i < p
    <3>1. t[i] = s[i] /\ t[i + 1] = s[i + 1] /\ i \in 1 .. k - 1
      BY <1>2, <1>3, <2>1, <2>5
    <3> QED  BY <2>2, <2>3, <2>5, <3>1
  <2>6. CASE i = p + 1
    <3>1. t[i] = e /\ t[i + 1] = s[p + 1] /\ p \in 1 .. k - 1
      BY <1>2, <1>3, <2>1, <2>6
    <3> QED  BY <2>3, <3>1
  <2>7. CASE i > p + 1
    <3>1. t[i] = s[i - 1] /\ t[i + 1] = s[(i - 1) + 1] /\ i - 1 \in 1 .. k - 1 /\ i - 1 # p
          /\ i - 1 \in 1 .. k
      BY <1>2, <1>3, <2>1, <2>7
    <3> QED  BY <2>2, <2>3, <3>1
  <2> QED  BY <2>4, <2>5, <2>6, <2>7
<1>8. after[t[k + 1]] = NULL
  <2>1. lnk[s[k]] = NULL /\ \A x \in 1 .. k : s[x] = s[p] => x = p
    BY DEF Chain
  <2>2. CASE p = k
    <3>1. t[k + 1] = e
      BY <1>2, <1>3, <2>2
    <3> QED  BY <2>1, <2>2, <3>1
  <2>3. CASE p # k
    <3>1. t[k + 1] = s[k] /\ k \in 1 .. k
      BY <1>2, <1>3, <2>3
    <3>2. s[k] # s[p] /\ s[k] \in L
      BY <1>2, <2>1, <2>3, <3>1
    <3> QED  BY <2>1, <3>1, <3>2
  <2> QED  BY <2>2, <2>3
<1>9. t[1] = n
  <2>1. 1 \in 1 .. k + 1 /\ 1 <= p /\ s[1] = n
    BY <1>2 DEF Chain
  <2> QED  BY <1>3, <2>1
<1> QED  BY <1>1, <1>2, <1>5, <1>6, <1>7, <1>8, <1>9 DEF Chain

(* The node behind the p-th goes.                                          *)
Removed(s, k, p) == [i \in 1 .. k - 1 |-> IF i <= p THEN s[i] ELSE s[i + 1]]

LEMMA ChainRemove ==
    ASSUME NEW L, NEW lnk, NEW n, NEW k, NEW s, Chain(L, lnk, n, k, s),
           NEW p \in 1 .. k - 1,
           NEW after, after[s[p]] = lnk[s[p + 1]],
           \A x \in L : x # s[p] /\ x # s[p + 1] => after[x] = lnk[x]
    PROVE  Chain(L \ {s[p + 1]}, after, n, k - 1, Removed(s, k, p))
<1>1. PICK t : t = Removed(s, k, p)
  OBVIOUS
<1>2. /\ k \in Nat \ {0} /\ k - 1 \in Nat \ {0}
      /\ \A i \in 1 .. k : s[i] \in L
      /\ \A x, y \in 1 .. k : s[x] = s[y] => x = y
      /\ \A x \in 1 .. k - 1 : lnk[s[x]] = s[x + 1]
      /\ p \in 1 .. k /\ p + 1 \in 1 .. k
  <2>1. k \in Nat \ {0}
    BY DEF Chain
  <2>2. k - 1 \in Nat \ {0} /\ p \in 1 .. k /\ p + 1 \in 1 .. k
    BY <2>1
  <2> QED  BY <2>1, <2>2 DEF Chain
<1>3. \A i \in 1 .. k - 1 : t[i] = IF i <= p THEN s[i] ELSE s[i + 1]
  BY <1>1 DEF Removed
<1>4. \A i \in 1 .. k - 1 : i \in 1 .. k /\ i + 1 \in 1 .. k
  BY <1>2
<1>5. t \in [1 .. k - 1 -> L \ {s[p + 1]}]
  <2>1. ASSUME NEW i \in 1 .. k - 1 PROVE t[i] \in L \ {s[p + 1]}
    <3>1. CASE i <= p
      BY <1>2, <1>3, <1>4, <3>1
    <3>2. CASE ~(i <= p)
      BY <1>2, <1>3, <1>4, <3>2
    <3> QED  BY <3>1, <3>2
  <2> QED  BY <1>1, <2>1 DEF Removed
<1>6. \A i, j \in 1 .. k - 1 : t[i] = t[j] => i = j
  BY <1>2, <1>3, <1>4
<1>7. \A x \in 1 .. k : x # p /\ x # p + 1 => after[s[x]] = lnk[s[x]]
  BY <1>2
<1>8. \A i \in 1 .. k - 1 - 1 : after[t[i]] = t[i + 1]
  <2> TAKE i \in 1 .. k - 1 - 1
  <2>1. i \in 1 .. k - 1 /\ i + 1 \in 1 .. k - 1 /\ i + 1 \in 1 .. k
    BY <1>2
  <2>2. CASE i = p
    BY <1>2, <1>3, <2>1, <2>2
  <2>3. CASE i < p
    <3>1. t[i] = s[i] /\ t[i + 1] = s[i + 1]
      BY <1>2, <1>3, <2>1, <2>3
    <3> QED  BY <1>2, <1>4, <1>7, <2>1, <2>3, <3>1
  <2>4. CASE i > p
    <3>1. t[i] = s[i + 1] /\ t[i + 1] = s[(i + 1) + 1]
      BY <1>2, <1>3, <2>1, <2>4
    <3>2. after[s[i + 1]] = lnk[s[i + 1]]
      BY <1>2, <1>7, <2>1, <2>4
    <3> QED  BY <1>2, <2>1, <3>1, <3>2
  <2> QED  BY <2>2, <2>3, <2>4
<1>9. after[t[k - 1]] = NULL
  <2>1. lnk[s[k]] = NULL /\ k - 1 \in 1 .. k - 1 /\ (k - 1) + 1 = k /\ k \in 1 .. k
    BY <1>2 DEF Chain
  <2>2. CASE p = k - 1
    BY <1>2, <1>3, <2>1, <2>2
  <2>3. CASE p # k - 1
    <3>1. t[k - 1] = s[k]
      BY <1>2, <1>3, <2>1, <2>3
    <3>2. after[s[k]] = lnk[s[k]]
      BY <1>2, <1>7, <2>1, <2>3
    <3> QED  BY <2>1, <3>1, <3>2
  <2> QED  BY <2>2, <2>3
<1>10. t[1] = n
  <2>1. 1 \in 1 .. k - 1 /\ 1 <= p /\ s[1] = n
    BY <1>2 DEF Chain
  <2> QED  BY <1>3, <2>1
<1> QED  BY <1>1, <1>2, <1>5, <1>6, <1>8, <1>9, <1>10 DEF Chain

(* The first node goes.                                                    *)
Rest(s, k) == [i \in 1 .. k - 1 |-> s[i + 1]]

LEMMA ChainTail ==
    ASSUME NEW L, NEW lnk, NEW n, NEW k, NEW s, Chain(L, lnk, n, k, s), k # 1,
           NEW after, \A x \in L : x # n => after[x] = lnk[x]
    PROVE  Chain(L \ {n}, after, lnk[n], k - 1, Rest(s, k))
<1>1. PICK t : t = Rest(s, k) /\ t = [i \in 1 .. k - 1 |-> s[i + 1]]
  BY DEF Rest
<1>2. /\ k \in Nat \ {0} /\ k - 1 \in Nat \ {0} /\ 1 \in 1 .. k - 1 /\ 1 \in 1 .. k
      /\ \A i \in 1 .. k : s[i] \in L
      /\ \A x, y \in 1 .. k : s[x] = s[y] => x = y
      /\ \A x \in 1 .. k - 1 : lnk[s[x]] = s[x + 1]
      /\ s[1] = n /\ lnk[s[k]] = NULL
  BY DEF Chain
<1>3. \A i \in 1 .. k - 1 : t[i] = s[i + 1] /\ i + 1 \in 1 .. k /\ i + 1 # 1
  BY <1>1, <1>2
<1>4. \A i \in 1 .. k - 1 : t[i] \in L \ {n} /\ after[t[i]] = lnk[t[i]]
  BY <1>2, <1>3
<1>5. t \in [1 .. k - 1 -> L \ {n}] /\ t[1] = lnk[n]
  BY <1>1, <1>2, <1>3, <1>4
<1>6. \A i, j \in 1 .. k - 1 : t[i] = t[j] => i = j
  BY <1>2, <1>3
<1>7. \A i \in 1 .. k - 1 - 1 : after[t[i]] = t[i + 1]
  <2> TAKE i \in 1 .. k - 1 - 1
  <2>1. i \in 1 .. k - 1 /\ i + 1 \in 1 .. k - 1
    BY <1>2
  <2> QED  BY <1>2, <1>3, <1>4, <2>1
<1>8. after[t[k - 1]] = NULL
  <2>1. k - 1 \in 1 .. k - 1 /\ (k - 1) + 1 = k
    BY <1>2
  <2> QED  BY <1>2, <1>3, <1>4, <2>1
<1>9. Chain(L \ {n}, after, lnk[n], k - 1, t)
  BY <1>2, <1>5, <1>6, <1>7, <1>8 DEF Chain
<1> QED  BY <1>1, <1>9

-----------------------------------------------------------------------------
(* What the lists of the program have in them.                             *)

(* Every list ends.                                                        *)
Chained == \A l \in List : ptr[l] # NULL => \E k, s : Chain(Held, link, ptr[l], k, s)

(* Only the last node of a list may have no data, and only the first if    *)
(* data is added at the end.                                               *)
Given ==
    /\ IsFiniteSet(Held)
    /\ data \in [Node -> Data \cup {None}]
    /\ \A n \in Held : data[n] = None => link[n] = NULL
    /\ ops \in Users
    /\ "add" \in ops => \A n \in Held : link[n] # NULL => data[link[n]] # None

(* A copy that is being made has what was copied, and is shorter.          *)
Copied ==
    going.op = "clone" =>
        /\ going.list \in List /\ going.of \in List /\ going.list # going.of
        /\ \E k, s, j, t :
            /\ Chain(Held, link, ptr[going.of], k, s) /\ Chain(Held, link, ptr[going.list], j, t)
            /\ j < k /\ going.at = s[j] /\ going.to = t[j]
            /\ \A i \in 1 .. j : data[t[i]] = data[s[i]]

ContentsInv == Chained /\ Given /\ Copied

(* What a list has, if its nodes are known.                                *)
LEMMA ContentsAre ==
    ASSUME NEW L, NEW lnk, NEW n, NEW k, NEW s, Chain(L, lnk, n, k, s), NULL \notin L,
           IsFiniteSet(L), NEW dat, \A x \in L : dat[x] = None => lnk[x] = NULL
    PROVE  /\ Items(lnk, dat, n, Cardinality(L)) = Found(dat, k, s)
           /\ Filled(dat, k, s) \in {k - 1, k} /\ Filled(dat, k, s) \in Nat
           /\ \A i \in 1 .. Filled(dat, k, s) : dat[s[i]] # None
           /\ IsSeq(Found(dat, k, s), Filled(dat, k, s))
           /\ Found(dat, k, s) # Absent
<1>1. PICK m : m = Filled(dat, k, s)
  OBVIOUS
<1>2. k \in Nat \ {0} /\ m \in Nat /\ m \in {k - 1, k}
  BY <1>1 DEF Chain, Filled
<1>3. \A i \in 1 .. k - 1 : dat[s[i]] # None
  <2> TAKE i \in 1 .. k - 1
  <2>1. lnk[s[i]] = s[i + 1] /\ s[i] \in L /\ s[i + 1] \in L
    <3>1. i \in 1 .. k /\ i + 1 \in 1 .. k
      BY <1>2
    <3> QED  BY <3>1 DEF Chain
  <2> QED  BY <2>1
<1>4. \A i \in 1 .. m : dat[s[i]] # None
  BY <1>1, <1>2, <1>3 DEF Filled
<1>5. Items(lnk, dat, n, Cardinality(L)) = Found(dat, k, s)
  BY <1>3, ChainFits, ItemsAre
<1>6. IsSeq(Found(dat, k, s), m)
  BY <1>1, <1>2 DEF IsSeq, Found
<1>7. Found(dat, k, s) # Absent
  <2> SUFFICES ASSUME Found(dat, k, s) = <<None>> PROVE FALSE
    BY DEF Absent
  <2>1. Len(<<None>>) = 1 /\ <<None>>[1] = None
    OBVIOUS
  <2>2. m = 1
    BY <1>6, <2>1, SeqIs
  <2>3. Found(dat, k, s)[1] = dat[s[1]]
    BY <1>1, <2>2 DEF Found
  <2> QED  BY <1>4, <2>1, <2>2, <2>3
<1> QED  BY <1>1, <1>2, <1>4, <1>5, <1>6, <1>7

LEMMA NodesApart ==
    ASSUME Owned
    PROVE  /\ \A l, m \in List : l # m => Nodes(l) \cap Nodes(m) = {}
           /\ going.op = "free" => \A l \in List : going.at \notin Nodes(l)
<1>1. NULL \notin Held
  BY DEF Held
<1>2. ASSUME NEW l \in List, NEW m \in List, l # m PROVE Nodes(l) \cap Nodes(m) = {}
  <2>1. CASE ptr[l] = NULL
    BY <1>1, <2>1 DEF Nodes, From, Reach
  <2>2. CASE ptr[l] # NULL
    <3>1. ptr[l] # ptr[m] /\ ptr[l] \in Heads /\ ptr[m] \in Heads
      BY <1>2, <2>2 DEF Owned, Heads
    <3> QED  BY <3>1, ReachApart DEF Owned, Nodes, From
  <2> QED  BY <2>1, <2>2
<1>3. ASSUME going.op = "free", NEW l \in List PROVE going.at \notin Nodes(l)
  <2>1. going.at \in Held /\ ptr[l] # going.at /\ ptr[l] \in Heads /\ going.at \in Heads
    BY <1>3 DEF Owned, Going, Idle, Heads, Leaving
  <2>2. going.at \in From(going.at)
    BY <2>1, ReachIs DEF From
  <2> QED  BY <2>1, <2>2, ReachApart DEF Owned, Nodes, From
<1> QED  BY <1>2, <1>3

(* A list of which no node is changed has what it had.                     *)
LEMMA ListKept ==
    ASSUME ContentsInv, NEW l \in List, ptr[l] # NULL, ptr'[l] = ptr[l], IsFiniteSet(Held'),
           \A n \in Nodes(l) : n \in Held' /\ link'[n] = link[n] /\ data'[n] = data[n],
           NEW k, NEW s, Chain(Held, link, ptr[l], k, s)
    PROVE  /\ Chain(Held', link', ptr'[l], k, s)
           /\ \A i \in 1 .. k : s[i] \in Nodes(l)
           /\ Contents(l) = Found(data, k, s)
           /\ Contents(l)' = Contents(l)
<1>1. NULL \notin Held /\ NULL \notin Held' /\ k \in Nat \ {0} /\ s[1] = ptr[l]
  BY DEF Held, Chain
<1>2. Nodes(l) = {s[i] : i \in 1 .. k}
  BY <1>1, ChainReach DEF Nodes, From
<1>3. Chain(Held', link', ptr'[l], k, s)
  BY <1>2, ChainKept
<1>4. Contents(l) = Found(data, k, s)
  BY <1>1, ContentsAre DEF ContentsInv, Given, Contents
<1>5. \A i \in 1 .. k - 1 : data'[s[i]] # None
  <2> TAKE i \in 1 .. k - 1
  <2>1. i \in 1 .. k /\ i + 1 \in 1 .. k
    BY <1>1
  <2>2. link[s[i]] = s[i + 1] /\ s[i] \in Held /\ s[i + 1] \in Held /\ data'[s[i]] = data[s[i]]
    BY <1>2, <2>1 DEF Chain
  <2> QED  BY <1>1, <2>2 DEF ContentsInv, Given
<1>6. Items(link', data', ptr'[l], Cardinality(Held')) = Found(data', k, s)
  BY <1>1, <1>3, <1>5, ChainFits, ItemsAre
<1>7. Found(data', k, s) = Found(data, k, s)
  <2>1. \A i \in 1 .. k : data'[s[i]] = data[s[i]]
    BY <1>2
  <2>2. Filled(data', k, s) = Filled(data, k, s) /\ 1 .. Filled(data, k, s) \subseteq 1 .. k
    BY <1>1, <2>1 DEF Filled
  <2> QED  BY <2>1, <2>2 DEF Found
<1> QED  BY <1>2, <1>3, <1>4, <1>6, <1>7 DEF Contents

(* An operation on one list leaves the others alone.                       *)
LEMMA OthersKept ==
    ASSUME Owned, ContentsInv, NEW l \in List, IsFiniteSet(Held'),
           \A n \in Held : n \notin Nodes(l) =>
               n \in Held' /\ link'[n] = link[n] /\ data'[n] = data[n],
           NEW m \in List, m # l, ptr[m] # NULL, ptr'[m] = ptr[m]
    PROVE  /\ \A k, s : Chain(Held, link, ptr[m], k, s) => Chain(Held', link', ptr'[m], k, s)
           /\ \E k, s : Chain(Held', link', ptr'[m], k, s)
           /\ Contents(m)' = Contents(m)
           /\ \A n \in Nodes(m) : n \in Held' /\ link'[n] = link[n] /\ data'[n] = data[n]
<1>1. \A n \in Nodes(m) : n \in Held' /\ link'[n] = link[n] /\ data'[n] = data[n]
  <2>1. \A n \in Nodes(m) : n \in Held /\ n \notin Nodes(l)
    BY NodesApart, ReachIs DEF Nodes, From
  <2> QED  BY <2>1
<1>2. PICK k, s : Chain(Held, link, ptr[m], k, s)
  BY DEF ContentsInv, Chained
<1>3. ASSUME NEW j, NEW t, Chain(Held, link, ptr[m], j, t)
      PROVE  Chain(Held', link', ptr'[m], j, t) /\ Contents(m)' = Contents(m)
  BY <1>1, <1>3, ListKept
<1> QED  BY <1>1, <1>2, <1>3

(* What the users see of each list.                                        *)
LEMMA Seen ==
    ASSUME NEW l \in List
    PROVE  /\ AsSequences[l] = IF ptr[l] = NULL \/ Copying(l) THEN Absent ELSE Contents(l)
           /\ AsSequences'[l] = IF ptr'[l] = NULL \/ Copying(l)' THEN Absent ELSE Contents(l)'
  BY DEF AsSequences

LEMMA SeenElsewhere ==
    ASSUME NEW l \in List, \A m \in List : m # l => AsSequences'[m] = AsSequences[m]
    PROVE  /\ AsSequences' = [AsSequences EXCEPT ![l] = AsSequences'[l]]
           /\ AsSequences'[l] = AsSequences[l] => AsSequences' = AsSequences
<1>1. /\ AsSequences = [m \in List |-> AsSequences[m]]
      /\ AsSequences' = [m \in List |-> AsSequences'[m]]
  BY DEF AsSequences
<1> HIDE DEF AsSequences
<1> QED  BY <1>1

(* An operation on one list is seen in no other.                           *)
LEMMA OthersSame ==
    ASSUME Owned, ContentsInv, going = Idle, going' = Idle, NEW l \in List,
           \A m \in List : m # l => ptr'[m] = ptr[m],
           IsFiniteSet(Held'),
           \A n \in Held : n \notin Nodes(l) =>
               n \in Held' /\ link'[n] = link[n] /\ data'[n] = data[n]
    PROVE  /\ \A m \in List : m # l /\ ptr[m] # NULL =>
                  \E k, s : Chain(Held', link', ptr'[m], k, s)
           /\ AsSequences' = [AsSequences EXCEPT ![l] = AsSequences'[l]]
           /\ AsSequences'[l] = IF ptr'[l] = NULL THEN Absent ELSE Contents(l)'
           /\ AsSequences[l] = IF ptr[l] = NULL THEN Absent ELSE Contents(l)
<1>1. \A m \in List : ~Copying(m) /\ ~Copying(m)'
  BY DEF Copying, Idle
<1>2. ASSUME NEW m \in List, m # l, ptr[m] # NULL
      PROVE  /\ \E k, s : Chain(Held', link', ptr'[m], k, s)
             /\ Contents(m)' = Contents(m)
  BY <1>2, OthersKept
<1>3. \A m \in List : m # l => AsSequences'[m] = AsSequences[m]
  BY <1>1, <1>2, Seen
<1> QED  BY <1>1, <1>2, <1>3, Seen, SeenElsewhere

Passed(k, s) == {s[i] : i \in 1 .. k}

(* What is known before an operation on a list that is there.              *)
LEMMA ListIs ==
    ASSUME HeapInv, ContentsInv, NEW l \in List, ptr[l] # NULL, NEW k, NEW s,
           Chain(Held, link, ptr[l], k, s)
    PROVE  /\ NULL \notin Held /\ IsFiniteSet(Held) /\ ptr[l] \in Held
           /\ k \in Nat \ {0} /\ s[1] = ptr[l]
           /\ \A i \in 1 .. k : s[i] \in Held /\ s[i] \in Nodes(l)
           /\ Nodes(l) = Passed(k, s)
           /\ Contents(l) = Found(data, k, s) /\ Contents(l) # Absent
           /\ Filled(data, k, s) \in {k - 1, k} /\ Filled(data, k, s) \in Nat
           /\ IsSeq(Found(data, k, s), Filled(data, k, s))
<1>1. NULL \notin Held /\ k \in Nat \ {0} /\ s[1] = ptr[l] /\ \A i \in 1 .. k : s[i] \in Held
  BY DEF Held, Chain
<1>2. 1 \in 1 .. k
  BY <1>1
<1>3. Nodes(l) = {s[i] : i \in 1 .. k}
  BY <1>1, <1>2, ChainReach DEF Nodes, From
<1> QED  BY <1>1, <1>2, <1>3, ContentsAre DEF ContentsInv, Given, Contents, Passed

(* An operation after which the nodes of its list are known.               *)
LEMMA Becomes ==
    ASSUME Owned, ContentsInv, going = Idle, going' = Idle, NEW l \in List,
           \A m \in List : m # l => ptr'[m] = ptr[m],
           Given',
           \A n \in Held : n \notin Nodes(l) =>
               n \in Held' /\ link'[n] = link[n] /\ data'[n] = data[n],
           NEW k, NEW s, Chain(Held', link', ptr'[l], k, s)
    PROVE  /\ ContentsInv'
           /\ Promise!Become(l, Found(data', k, s))
           /\ AsSequences[l] = IF ptr[l] = NULL THEN Absent ELSE Contents(l)
           /\ IsSeq(Found(data', k, s), Filled(data', k, s))
<1>1. NULL \notin Held' /\ ptr'[l] # NULL /\ IsFiniteSet(Held')
  <2>1. NULL \notin Held'
    BY DEF Held
  <2>2. 1 \in 1 .. k
    BY DEF Chain
  <2> QED  BY <2>1, <2>2 DEF Chain, Given
<1>2. /\ \A m \in List : m # l /\ ptr[m] # NULL => \E j, t : Chain(Held', link', ptr'[m], j, t)
      /\ AsSequences' = [AsSequences EXCEPT ![l] = AsSequences'[l]]
      /\ AsSequences'[l] = IF ptr'[l] = NULL THEN Absent ELSE Contents(l)'
      /\ AsSequences[l] = IF ptr[l] = NULL THEN Absent ELSE Contents(l)
  BY <1>1, OthersSame
<1>3. Chained'
  BY <1>2 DEF Chained
<1>4. ContentsInv'
  BY <1>3 DEF ContentsInv, Copied, Idle
<1>5. /\ Contents(l)' = Found(data', k, s)
      /\ IsSeq(Found(data', k, s), Filled(data', k, s))
  BY <1>1, ContentsAre DEF Given, Contents
<1>6. Promise!Become(l, Found(data', k, s))
  BY <1>1, <1>2, <1>5 DEF Promise!Become
<1> QED  BY <1>2, <1>4, <1>5, <1>6

LEMMA NewListExact ==
    ASSUME HeapInv, ContentsInv, ops' = ops, NEW l \in List, NewList(l)
    PROVE  ContentsInv' /\ Promise!New(l)
<1>1. PICK n : n = New
  OBVIOUS
<1>2. n \in Node /\ n \notin Held /\ n # NULL /\ Held' = Held \cup {n} /\ Owned
  BY <1>1, AllocStep DEF NewList, HeapInv
<1>3. /\ going = Idle /\ going' = Idle /\ ptr[l] = NULL
      /\ ptr' = [ptr EXCEPT ![l] = n] /\ link' = [link EXCEPT ![n] = NULL]
      /\ data' = [data EXCEPT ![n] = None]
  BY <1>1 DEF NewList, Ready
<1>4. /\ link \in [Node -> Node \cup {NULL}] /\ Held \subseteq Node
      /\ \A x \in Held : link[x] \in Held \cup {NULL}
      /\ ptr \in [List -> Held \cup {NULL}]
  BY <1>2 DEF Owned, Typed
<1>5. /\ ptr'[l] = n /\ link'[n] = NULL /\ data'[n] = None
      /\ \A x \in Held : link'[x] = link[x] /\ data'[x] = data[x]
      /\ data' \in [Node -> Data \cup {None}]
      /\ \A m \in List : m # l => ptr'[m] = ptr[m]
  BY <1>2, <1>3, <1>4 DEF ContentsInv, Given
<1>6. Given'
  <2>1. IsFiniteSet(Held')
    BY <1>2, FS_AddElement DEF ContentsInv, Given
  <2> QED  BY <1>2, <1>4, <1>5, <2>1 DEF ContentsInv, Given
<1>7. PICK k, s : k = 1 /\ s = [i \in 1 .. 1 |-> n]
  OBVIOUS
<1>8. Chain(Held', link', ptr'[l], k, s)
  <2>1. n \in Held'
    BY <1>2
  <2> QED  BY <1>5, <1>7, <2>1, ChainOfOne
<1>9. /\ ContentsInv'
      /\ Promise!Become(l, Found(data', k, s))
      /\ AsSequences[l] = Absent
  <2>1. \A x \in Held : x \notin Nodes(l) => x \in Held' /\ link'[x] = link[x] /\ data'[x] = data[x]
    BY <1>2, <1>5
  <2>2. /\ ContentsInv'
        /\ Promise!Become(l, Found(data', k, s))
        /\ AsSequences[l] = IF ptr[l] = NULL THEN Absent ELSE Contents(l)
    BY <1>2, <1>3, <1>5, <1>6, <1>8, <2>1, Becomes
  <2> QED  BY <1>3, <2>2
<1>10. Found(data', k, s) = <<>>
  <2>1. Filled(data', k, s) = 0
    BY <1>5, <1>7 DEF Filled
  <2> QED  BY <2>1 DEF Found
<1> QED  BY <1>9, <1>10 DEF Promise!New, Promise!There

(* (list.c:128-137)                                                        *)
LEMMA PushExact ==
    ASSUME HeapInv, ContentsInv, ops' = ops, NEW l \in List, NEW d \in Data,
           AddToListBeginning(l, d)
    PROVE  ContentsInv' /\ Promise!Push(l, d)
<1>1. PICK n, h : n = New /\ h = ptr[l]
  OBVIOUS
<1>2. n \in Node /\ n \notin Held /\ n # NULL /\ Held' = Held \cup {n} /\ Owned
  BY <1>1, AllocStep DEF AddToListBeginning, HeapInv
<1>3. /\ going = Idle /\ going' = Idle /\ h # NULL /\ ptr' = ptr /\ "push" \in ops
      /\ link' = [link EXCEPT ![n] = link[h], ![h] = n]
      /\ data' = [data EXCEPT ![n] = data[h], ![h] = d]
  BY <1>1 DEF AddToListBeginning, Using, Ready
<1>4. /\ link \in [Node -> Node \cup {NULL}] /\ Held \subseteq Node
      /\ \A x \in Held : link[x] \in Held \cup {NULL}
      /\ h \in Held
  BY <1>1, <1>2, <1>3 DEF Owned, Typed
<1>5. /\ link'[n] = link[h] /\ link'[h] = n /\ data'[n] = data[h] /\ data'[h] = d
      /\ \A x \in Held : x # h => link'[x] = link[x] /\ data'[x] = data[x]
      /\ data' \in [Node -> Data \cup {None}]
  BY <1>2, <1>3, <1>4 DEF ContentsInv, Given
<1>6. Given'
  <2>1. IsFiniteSet(Held')
    BY <1>2, FS_AddElement DEF ContentsInv, Given
  <2>2. \A x \in Held' : data'[x] = None => link'[x] = NULL
    BY <1>2, <1>4, <1>5, DataIsSomething DEF ContentsInv, Given
  <2>3. "add" \notin ops
    BY <1>3, PushedOrAdded DEF ContentsInv, Given
  <2> QED  BY <1>5, <2>1, <2>2, <2>3 DEF ContentsInv, Given
<1>7. PICK k, s : Chain(Held, link, ptr[l], k, s)
  BY <1>1, <1>3 DEF ContentsInv, Chained
<1>8. /\ k \in Nat \ {0} /\ s[1] = h /\ \A i \in 1 .. k : s[i] \in Held /\ s[i] \in Nodes(l)
      /\ Contents(l) = Found(data, k, s) /\ Contents(l) # Absent
      /\ IsSeq(Found(data, k, s), Filled(data, k, s)) /\ Filled(data, k, s) \in {k - 1, k}
  <2>1. /\ k \in Nat \ {0} /\ s[1] = ptr[l]
        /\ \A i \in 1 .. k : s[i] \in Held /\ s[i] \in Nodes(l)
        /\ Contents(l) = Found(data, k, s) /\ Contents(l) # Absent
        /\ Filled(data, k, s) \in {k - 1, k}
        /\ IsSeq(Found(data, k, s), Filled(data, k, s))
    BY <1>1, <1>3, <1>7, ListIs
  <2> QED  BY <1>1, <2>1
<1>9. PICK p, j, t : p = 1 /\ j = k + 1 /\ t = Inserted(s, k, p, n)
  OBVIOUS
<1>10. Chain(Held', link', ptr'[l], j, t)
  <2>1. p \in 1 .. k /\ s[p] = h /\ ptr'[l] = ptr[l]
    BY <1>3, <1>8, <1>9
  <2>2. /\ link'[s[p]] = n /\ link'[n] = link[s[p]]
        /\ \A x \in Held : x # s[p] => link'[x] = link[x]
    BY <1>5, <2>1
  <2>3. Chain(Held \cup {n}, link', ptr[l], k + 1, Inserted(s, k, p, n))
    BY <1>2, <1>7, <2>1, <2>2, ChainInsert
  <2> QED  BY <1>2, <1>9, <2>1, <2>3
<1>11. /\ ContentsInv' /\ Promise!Become(l, Found(data', j, t))
       /\ AsSequences[l] = IF ptr[l] = NULL THEN Absent ELSE Contents(l)
       /\ IsSeq(Found(data', j, t), Filled(data', j, t))
  <2>1. \A x \in Held : x \notin Nodes(l) => x \in Held' /\ link'[x] = link[x] /\ data'[x] = data[x]
    <3>1. 1 \in 1 .. k
      BY <1>8
    <3>2. h \in Nodes(l)
      BY <1>8, <3>1
    <3> QED  BY <1>2, <1>5, <3>2
  <2>2. \A m \in List : m # l => ptr'[m] = ptr[m]
    BY <1>3
  <2> QED  BY <1>2, <1>3, <1>6, <1>10, <2>1, <2>2, Becomes
<1>12. Found(data', j, t) = <<d>> \o Found(data, k, s)
  <2>1. PICK m, f, g : m = Filled(data, k, s) /\ f = Found(data, k, s) /\ g = Found(data', j, t)
    OBVIOUS
  <2>2. \A i \in 1 .. k : data'[t[i + 1]] = data[s[i]]
    <3> TAKE i \in 1 .. k
    <3>1. i + 1 \in 1 .. k + 1 /\ (i + 1) - 1 = i /\ 2 \in 1 .. k + 1
      BY <1>8
    <3>2. CASE i = 1
      BY <1>5, <1>8, <1>9, <3>1, <3>2 DEF Inserted
    <3>3. CASE i # 1
      <4>1. t[i + 1] = s[i] /\ s[i] # h /\ s[i] \in Held
        BY <1>7, <1>8, <1>9, <3>1, <3>3 DEF Inserted, Chain
      <4> QED  BY <1>5, <4>1
    <3> QED  BY <3>2, <3>3
  <2>3. Filled(data', j, t) = m + 1 /\ m \in Nat /\ m <= k
    <3>1. data'[t[j]] = data[s[k]]
      BY <1>8, <1>9, <2>2
    <3> QED  BY <1>8, <1>9, <2>1, <3>1 DEF Filled
  <2>4. g[1] = d
    <3>1. t[1] = h /\ 1 \in 1 .. m + 1
      BY <1>8, <1>9, <2>3 DEF Inserted
    <3> QED  BY <1>5, <2>1, <2>3, <3>1 DEF Found
  <2>5. \A i \in 1 .. m : g[i + 1] = f[i]
    <3> TAKE i \in 1 .. m
    <3>1. i + 1 \in 1 .. m + 1 /\ i \in 1 .. k
      BY <1>8, <2>3
    <3> QED  BY <2>1, <2>2, <2>3, <3>1 DEF Found
  <2>6. IsSeq(f, m) /\ IsSeq(g, m + 1)
    BY <1>8, <1>11, <2>1, <2>3
  <2> QED  BY <2>1, <2>4, <2>5, <2>6, PrependIs
<1> QED  BY <1>1, <1>3, <1>8, <1>11, <1>12 DEF Promise!Push, Promise!There

(* (list.c:267-272)                                                        *)
LEMMA TakeExact ==
    ASSUME HeapInv, ContentsInv, ops' = ops, NEW l \in List, DeleteFromListBeginning(l)
    PROVE  /\ ContentsInv'
           /\ IF link[ptr[l]] = NULL THEN Promise!Destroy(l) ELSE Promise!Pop(l)
<1>1. PICK h : h = ptr[l]
  OBVIOUS
<1>2. /\ going = Idle /\ going' = Idle /\ h # NULL /\ Free(h)
      /\ ptr' = [ptr EXCEPT ![l] = link[h]] /\ link' = [link EXCEPT ![h] = NULL]
      /\ data' = [data EXCEPT ![h] = None]
  BY <1>1 DEF DeleteFromListBeginning, Using, Ready
<1>3. Owned /\ NULL \notin Held
  BY <1>2 DEF Free, FreeListNode, HeapInv, Held
<1>4. h \in Held /\ Held \subseteq Node /\ ptr \in [List -> Held \cup {NULL}]
  BY <1>1, <1>2, <1>3 DEF Owned, Typed
<1>5. Held' = Held \ {h} /\ manager' # "freed"
  BY <1>2, <1>4, FreeStep DEF HeapInv
<1>6. \A x \in Held' : link'[x] \in Held' \cup {NULL}
  <2>1. HeapInv'
    BY TakeInv
  <2> QED  BY <1>5, <2>1 DEF HeapInv, Owned, Typed
<1>7. /\ \A x \in Held : x # h => link'[x] = link[x] /\ data'[x] = data[x]
      /\ data' \in [Node -> Data \cup {None}]
      /\ ptr'[l] = link[h] /\ \A m \in List : m # l => ptr'[m] = ptr[m]
  BY <1>2, <1>3, <1>4 DEF ContentsInv, Given, Owned, Typed
<1>8. Given'
  <2>1. IsFiniteSet(Held')
    BY <1>5, FS_RemoveElement DEF ContentsInv, Given
  <2>2. \A x \in Held' : data'[x] = None => link'[x] = NULL
    BY <1>5, <1>7 DEF ContentsInv, Given
  <2>3. "add" \in ops => \A x \in Held' : link'[x] # NULL => data'[link'[x]] # None
    BY <1>5, <1>6, <1>7 DEF ContentsInv, Given
  <2> QED  BY <1>7, <2>1, <2>2, <2>3 DEF ContentsInv, Given
<1>9. PICK k, s : Chain(Held, link, ptr[l], k, s)
  BY <1>1, <1>2 DEF ContentsInv, Chained
<1>10. /\ k \in Nat \ {0} /\ s[1] = h /\ \A i \in 1 .. k : s[i] \in Held /\ s[i] \in Nodes(l)
       /\ Contents(l) = Found(data, k, s) /\ Contents(l) # Absent
       /\ Filled(data, k, s) \in {k - 1, k}
       /\ IsSeq(Found(data, k, s), Filled(data, k, s))
  <2>1. /\ k \in Nat \ {0} /\ s[1] = ptr[l]
        /\ \A i \in 1 .. k : s[i] \in Held /\ s[i] \in Nodes(l)
        /\ Contents(l) = Found(data, k, s) /\ Contents(l) # Absent
        /\ Filled(data, k, s) \in {k - 1, k}
        /\ IsSeq(Found(data, k, s), Filled(data, k, s))
    BY <1>1, <1>2, <1>9, ListIs
  <2> QED  BY <1>1, <2>1
<1>11. \A x \in Held : x \notin Nodes(l) => x \in Held' /\ link'[x] = link[x] /\ data'[x] = data[x]
  <2>1. 1 \in 1 .. k
    BY <1>10
  <2>2. h \in Nodes(l)
    BY <1>10, <2>1
  <2> QED  BY <1>5, <1>7, <2>2
<1>12. CASE link[h] = NULL
  <2>1. /\ \A m \in List : m # l /\ ptr[m] # NULL => \E j, t : Chain(Held', link', ptr'[m], j, t)
        /\ AsSequences' = [AsSequences EXCEPT ![l] = AsSequences'[l]]
        /\ AsSequences'[l] = IF ptr'[l] = NULL THEN Absent ELSE Contents(l)'
        /\ AsSequences[l] = IF ptr[l] = NULL THEN Absent ELSE Contents(l)
    BY <1>2, <1>3, <1>7, <1>8, <1>11, OthersSame DEF Given
  <2>2. Chained'
    BY <1>7, <1>12, <2>1 DEF Chained
  <2>3. ContentsInv'
    BY <1>2, <1>8, <2>2 DEF ContentsInv, Copied, Idle
  <2>4. AsSequences'[l] = Absent /\ AsSequences[l] # Absent
    BY <1>1, <1>2, <1>7, <1>10, <1>12, <2>1
  <2> QED  BY <1>1, <1>12, <2>1, <2>3, <2>4 DEF Promise!Destroy, Promise!There, Promise!Become
<1>13. CASE link[h] # NULL
  <2>1. k # 1
    BY <1>9, <1>10, <1>13 DEF Chain
  <2>2. PICK j, t : j = k - 1 /\ t = Rest(s, k)
    OBVIOUS
  <2>3. Chain(Held', link', ptr'[l], j, t)
    <3>1. Chain(Held, link, h, k, s) /\ \A x \in Held : x # h => link'[x] = link[x]
      BY <1>1, <1>7, <1>9
    <3>2. Chain(Held \ {h}, link', link[h], k - 1, Rest(s, k))
      BY <2>1, <3>1, ChainTail
    <3> QED  BY <1>5, <1>7, <2>2, <3>2
  <2>4. /\ ContentsInv' /\ Promise!Become(l, Found(data', j, t))
        /\ AsSequences[l] = IF ptr[l] = NULL THEN Absent ELSE Contents(l)
        /\ IsSeq(Found(data', j, t), Filled(data', j, t))
    BY <1>2, <1>3, <1>7, <1>8, <1>11, <2>3, Becomes
  <2>5. PICK m, f, g : m = Filled(data', j, t) /\ f = Found(data, k, s) /\ g = Found(data', j, t)
    OBVIOUS
  <2>6. \A i \in 1 .. j : data'[t[i]] = data[s[i + 1]]
    <3> TAKE i \in 1 .. j
    <3>1. i + 1 \in 1 .. k /\ i + 1 # 1 /\ 1 \in 1 .. k /\ t[i] = s[i + 1]
      BY <1>10, <2>2 DEF Rest
    <3>2. s[i + 1] # s[1] /\ s[i + 1] \in Held
      BY <1>9, <1>10, <3>1 DEF Chain
    <3> QED  BY <1>7, <1>10, <3>1, <3>2
  <2>7. Filled(data, k, s) = m + 1 /\ m \in Nat /\ m <= j /\ j \in Nat
    <3>1. data'[t[j]] = data[s[k]] /\ j = k - 1 /\ j \in Nat \ {0}
      <4>1. j \in 1 .. j /\ j + 1 = k /\ j = k - 1 /\ j \in Nat \ {0}
        BY <1>10, <2>1, <2>2
      <4> QED  BY <2>6, <4>1
    <3> QED  BY <1>10, <2>5, <3>1 DEF Filled
  <2>8. \A i \in 1 .. m : f[i + 1] = g[i]
    <3> TAKE i \in 1 .. m
    <3>1. i + 1 \in 1 .. m + 1 /\ i \in 1 .. j
      BY <2>7
    <3> QED  BY <2>5, <2>6, <2>7, <3>1 DEF Found
  <2>9. IsSeq(g, m) /\ IsSeq(f, m + 1)
    BY <1>10, <2>4, <2>5, <2>7
  <2>10. Tail(f) = g /\ f # <<>>
    <3>1. Len(f) = m + 1
      BY <2>9, SeqIs
    <3>2. f # <<>>
      BY <2>7, <3>1
    <3>3. <<f[1]>> \o g = f /\ Tail(f) = g
      BY ONLY <2>8, <2>9, PrependIs
    <3> QED  BY <3>2, <3>3
  <2>11. AsSequences[l] = f /\ f # Absent
    BY <1>1, <1>2, <1>10, <2>4, <2>5
  <2> QED  BY <1>1, <1>13, <2>4, <2>5, <2>10, <2>11 DEF Promise!Pop, Promise!There
<1> QED  BY <1>12, <1>13

(* A first node without data is filled (list.c:142-145).                   *)
LEMMA FillExact ==
    ASSUME HeapInv, ContentsInv, ops' = ops, NEW l \in List, NEW d \in Data,
           AddToListEnd(l, d), FillFirst(l, d)
    PROVE  ContentsInv' /\ Promise!Add(l, d)
<1>1. PICK h : h = ptr[l]
  OBVIOUS
<1>2. /\ going = Idle /\ going' = Idle /\ h # NULL /\ ptr' = ptr /\ link' = link
      /\ data' = [data EXCEPT ![h] = d] /\ data[h] = None /\ Held' = Held /\ manager # "freed"
  BY <1>1 DEF AddToListEnd, FillFirst, Using, Ready, Held, vars
<1>3. Owned /\ h \in Held /\ Held \subseteq Node
  BY <1>1, <1>2 DEF HeapInv, Owned, Typed
<1>4. PICK k, s : Chain(Held, link, ptr[l], k, s)
  BY <1>1, <1>2 DEF ContentsInv, Chained
<1>5. /\ k \in Nat \ {0} /\ s[1] = h /\ \A i \in 1 .. k : s[i] \in Held /\ s[i] \in Nodes(l)
      /\ Contents(l) = Found(data, k, s) /\ Contents(l) # Absent
      /\ IsSeq(Found(data, k, s), Filled(data, k, s))
  <2>1. /\ k \in Nat \ {0} /\ s[1] = ptr[l]
        /\ \A i \in 1 .. k : s[i] \in Held /\ s[i] \in Nodes(l)
        /\ Contents(l) = Found(data, k, s) /\ Contents(l) # Absent
        /\ IsSeq(Found(data, k, s), Filled(data, k, s))
    BY <1>1, <1>2, <1>4, ListIs
  <2> QED  BY <1>1, <2>1
<1>6. /\ data'[h] = d /\ \A x \in Held : x # h => data'[x] = data[x]
      /\ data' \in [Node -> Data \cup {None}] /\ d # None
  BY <1>2, <1>3, DataIsSomething DEF ContentsInv, Given
<1>7. k = 1
  <2>1. link[h] = NULL
    BY <1>2, <1>3 DEF ContentsInv, Given
  <2>2. k # 1 => s[2] = NULL
    BY <1>4, <1>5, <2>1 DEF Chain
  <2>3. k # 1 => 2 \in 1 .. k
    BY <1>5
  <2> QED  BY <1>5, <2>2, <2>3 DEF Held
<1>8. Given'
  <2>1. \A x \in Held' : data'[x] = None => link'[x] = NULL
    BY <1>2, <1>6 DEF ContentsInv, Given
  <2>2. "add" \in ops => \A x \in Held' : link'[x] # NULL => data'[link'[x]] # None
    <3> SUFFICES ASSUME "add" \in ops, NEW x \in Held, link[x] # NULL PROVE data'[link[x]] # None
      BY <1>2
    <3>1. link[x] \in Held /\ data[link[x]] # None
      BY <1>3 DEF ContentsInv, Given, Owned, Typed
    <3> QED  BY <1>6, <3>1
  <2> QED  BY <1>2, <1>6, <2>1, <2>2 DEF ContentsInv, Given
<1>9. Chain(Held', link', ptr'[l], k, s)
  BY <1>2, <1>4
<1>10. /\ ContentsInv' /\ Promise!Become(l, Found(data', k, s))
       /\ AsSequences[l] = IF ptr[l] = NULL THEN Absent ELSE Contents(l)
       /\ IsSeq(Found(data', k, s), Filled(data', k, s))
  <2>1. 1 \in 1 .. k
    BY <1>5
  <2>2. h \in Nodes(l)
    BY <1>5, <2>1
  <2>3. \A x \in Held : x \notin Nodes(l) => x \in Held' /\ link'[x] = link[x] /\ data'[x] = data[x]
    BY <1>2, <1>6, <2>2
  <2>4. \A m \in List : m # l => ptr'[m] = ptr[m]
    BY <1>2
  <2> QED  BY <1>2, <1>3, <1>8, <1>9, <2>3, <2>4, Becomes
<1>11. Append(Found(data, k, s), d) = Found(data', k, s)
  <2>1. PICK m, f, g : m = 0 /\ f = Found(data, k, s) /\ g = Found(data', k, s)
    OBVIOUS
  <2>2. Filled(data, k, s) = m /\ Filled(data', k, s) = m + 1
    BY <1>2, <1>5, <1>6, <1>7, <2>1 DEF Filled
  <2>3. IsSeq(f, m) /\ IsSeq(g, m + 1)
    BY <1>5, <1>10, <2>1, <2>2
  <2>4. g[m + 1] = d
    BY <1>5, <1>6, <2>1, <2>2 DEF Found
  <2>5. \A i \in 1 .. m : g[i] = f[i]
    BY <2>1
  <2>6. Append(f, g[m + 1]) = g
    BY ONLY <2>3, <2>5, AppendIs
  <2> QED  BY <2>1, <2>4, <2>6
<1> QED  BY <1>1, <1>2, <1>5, <1>10, <1>11 DEF Promise!Add, Promise!There

(* A node is added behind the last (list.c:146-151).                       *)
LEMMA AddLastExact ==
    ASSUME HeapInv, ContentsInv, ops' = ops, NEW l \in List, NEW d \in Data,
           AddToListEnd(l, d), AddLast(l, d)
    PROVE  ContentsInv' /\ Promise!Add(l, d)
<1>1. PICK n, h : n = New /\ h = ptr[l]
  OBVIOUS
<1>2. n \in Node /\ n \notin Held /\ n # NULL /\ Held' = Held \cup {n} /\ Owned
  BY <1>1, AllocStep DEF AddLast, HeapInv
<1>3. /\ going = Idle /\ going' = Idle /\ h # NULL /\ ptr' = ptr /\ "add" \in ops
      /\ data' = [data EXCEPT ![n] = d] /\ data[h] # None /\ d # None
  BY <1>1, DataIsSomething DEF AddToListEnd, AddLast, Using, Ready
<1>4. PICK last \in Nodes(l) :
         link[last] = NULL /\ link' = [link EXCEPT ![last] = n, ![n] = NULL]
  BY <1>1 DEF AddLast
<1>5. PICK k, s : Chain(Held, link, ptr[l], k, s)
  BY <1>1, <1>3 DEF ContentsInv, Chained
<1>6. /\ k \in Nat \ {0} /\ s[1] = h /\ \A i \in 1 .. k : s[i] \in Held /\ s[i] \in Nodes(l)
      /\ \A x \in Nodes(l) : \E i \in 1 .. k : x = s[i]
      /\ Contents(l) = Found(data, k, s) /\ Contents(l) # Absent
      /\ IsSeq(Found(data, k, s), Filled(data, k, s))
  <2>1. /\ k \in Nat \ {0} /\ s[1] = ptr[l]
        /\ \A i \in 1 .. k : s[i] \in Held /\ s[i] \in Nodes(l)
        /\ Contents(l) = Found(data, k, s) /\ Contents(l) # Absent
        /\ IsSeq(Found(data, k, s), Filled(data, k, s))
    BY <1>1, <1>3, <1>5, ListIs
  <2>2. Nodes(l) = Passed(k, s)
    BY <1>1, <1>3, <1>5, ListIs
  <2> QED  BY <1>1, <2>1, <2>2 DEF Passed
<1>7. last = s[k] /\ last \in Held /\ last # n /\ k \in 1 .. k
  <2>1. PICK i \in 1 .. k : last = s[i]
    BY <1>6
  <2>2. i # k => i \in 1 .. k - 1 /\ i + 1 \in 1 .. k
    BY <1>6
  <2>3. i # k => s[i + 1] = NULL
    BY <1>4, <1>5, <2>1, <2>2 DEF Chain
  <2>4. i = k
    BY <1>6, <2>2, <2>3 DEF Held
  <2> QED  BY <1>2, <1>6, <2>1, <2>4
<1>8. data[last] # None
  <2>1. CASE k = 1
    BY <1>3, <1>6, <1>7, <2>1
  <2>2. CASE k # 1
    <3>1. k - 1 \in 1 .. k - 1 /\ k - 1 \in 1 .. k /\ (k - 1) + 1 = k
      BY <1>6, <2>2
    <3>2. link[s[k - 1]] = last /\ s[k - 1] \in Held
      BY <1>5, <1>6, <1>7, <3>1 DEF Chain
    <3>3. last # NULL
      BY <1>7 DEF Held
    <3> QED  BY <1>3, <3>2, <3>3 DEF ContentsInv, Given
  <2> QED  BY <2>1, <2>2
<1>9. /\ link'[last] = n /\ link'[n] = NULL /\ data'[n] = d
      /\ \A x \in Held : data'[x] = data[x]
      /\ \A x \in Held : x # last => link'[x] = link[x]
      /\ data' \in [Node -> Data \cup {None}]
  BY <1>2, <1>3, <1>4, <1>7 DEF ContentsInv, Given, Owned, Typed
<1>10. Given'
  <2>1. IsFiniteSet(Held')
    BY <1>2, FS_AddElement DEF ContentsInv, Given
  <2>2. \A x \in Held' : data'[x] = None => link'[x] = NULL
    BY <1>2, <1>3, <1>8, <1>9 DEF ContentsInv, Given
  <2>3. \A x \in Held' : link'[x] # NULL => data'[link'[x]] # None
    <3> SUFFICES ASSUME NEW x \in Held', link'[x] # NULL PROVE data'[link'[x]] # None
      OBVIOUS
    <3>1. CASE x = last
      BY <1>3, <1>9, <3>1
    <3>2. CASE x # last
      <4>1. x \in Held /\ link'[x] = link[x]
        BY <1>2, <1>9, <3>2
      <4>2. link[x] \in Held /\ data[link[x]] # None
        BY <1>2, <1>3, <4>1 DEF ContentsInv, Given, Owned, Typed
      <4> QED  BY <1>9, <4>1, <4>2
    <3> QED  BY <3>1, <3>2
  <2> QED  BY <1>9, <2>1, <2>2, <2>3 DEF ContentsInv, Given
<1>11. PICK j, t : j = k + 1 /\ t = Inserted(s, k, k, n)
  OBVIOUS
<1>12. Chain(Held', link', ptr'[l], j, t)
  <2>1. /\ link'[s[k]] = n /\ link'[n] = link[s[k]]
        /\ \A x \in Held : x # s[k] => link'[x] = link[x]
        /\ ptr'[l] = ptr[l]
    BY <1>3, <1>4, <1>7, <1>9
  <2>2. Chain(Held \cup {n}, link', ptr[l], k + 1, Inserted(s, k, k, n))
    BY <1>2, <1>5, <1>7, <2>1, ChainInsert
  <2> QED  BY <1>2, <1>11, <2>1, <2>2
<1>13. /\ ContentsInv' /\ Promise!Become(l, Found(data', j, t))
       /\ AsSequences[l] = IF ptr[l] = NULL THEN Absent ELSE Contents(l)
       /\ IsSeq(Found(data', j, t), Filled(data', j, t))
  <2>1. \A x \in Held : x \notin Nodes(l) => x \in Held' /\ link'[x] = link[x] /\ data'[x] = data[x]
    BY <1>2, <1>4, <1>9
  <2>2. \A m \in List : m # l => ptr'[m] = ptr[m]
    BY <1>3
  <2> QED  BY <1>2, <1>3, <1>10, <1>12, <2>1, <2>2, Becomes
<1>14. Append(Found(data, k, s), d) = Found(data', j, t)
  <2>1. PICK f, g : f = Found(data, k, s) /\ g = Found(data', j, t)
    OBVIOUS
  <2>2. t[k + 1] = n /\ \A i \in 1 .. k : t[i] = s[i]
    BY <1>6, <1>11 DEF Inserted
  <2>3. Filled(data, k, s) = k /\ Filled(data', j, t) = k + 1
    BY <1>3, <1>7, <1>8, <1>9, <1>11, <2>2 DEF Filled
  <2>4. IsSeq(f, k) /\ IsSeq(g, k + 1)
    BY <1>6, <1>13, <2>1, <2>3
  <2>5. g[k + 1] = d
    <3>1. k + 1 \in 1 .. k + 1
      BY <1>6
    <3> QED  BY <1>9, <2>1, <2>2, <2>3, <3>1 DEF Found
  <2>6. \A i \in 1 .. k : g[i] = f[i]
    <3> TAKE i \in 1 .. k
    <3>1. i \in 1 .. k + 1
      BY <1>6
    <3> QED  BY <1>6, <1>9, <2>1, <2>2, <2>3, <3>1 DEF Found
  <2>7. Append(f, g[k + 1]) = g
    BY ONLY <2>4, <2>6, AppendIs
  <2> QED  BY <2>1, <2>5, <2>7
<1> QED  BY <1>1, <1>3, <1>6, <1>13, <1>14 DEF Promise!Add, Promise!There

(* The node behind the p-th of the list l is given back, and the q-th data *)
(* is gone.                                                                *)
Deleting(l, d, k, s, p, q) ==
    LET n == s[p]
        m == s[p + 1]
    IN  /\ ptr[l] # NULL /\ ptr' = ptr /\ going = Idle /\ going' = Idle
        /\ Chain(Held, link, ptr[l], k, s)
        /\ Free(m)
        /\ link' = [link EXCEPT ![n] = link[m], ![m] = NULL]
        /\ data' \in [Node -> Data \cup {None}]
        /\ \A x \in Held : x # n /\ x # m => data'[x] = data[x]
        /\ data'[n] = None => link[m] = NULL
        /\ "add" \in ops => data'[n] # None
        /\ \A i \in 1 .. k - 1 :
             data'[Removed(s, k, p)[i]] = IF i < q THEN data[s[i]] ELSE data[s[i + 1]]
        /\ data[s[q]] = d /\ \A i \in 1 .. q - 1 : data[s[i]] # d

LEMMA Deletes ==
    ASSUME HeapInv, ContentsInv, HeapInv', ops' = ops, NEW l \in List, NEW d \in Data,
           NEW k, NEW s, NEW p \in 1 .. k - 1, NEW q \in 1 .. k, Deleting(l, d, k, s, p, q)
    PROVE  ContentsInv' /\ Promise!Delete(l, d)
<1> PICK n, m, t : n = s[p] /\ m = s[p + 1] /\ t = Removed(s, k, p)
  OBVIOUS
<1>0. /\ ptr[l] # NULL /\ ptr' = ptr /\ going = Idle /\ going' = Idle
      /\ Chain(Held, link, ptr[l], k, s)
      /\ Free(m)
      /\ link' = [link EXCEPT ![n] = link[m], ![m] = NULL]
      /\ data' \in [Node -> Data \cup {None}]
      /\ \A x \in Held : x # n /\ x # m => data'[x] = data[x]
      /\ data'[n] = None => link[m] = NULL
      /\ "add" \in ops => data'[n] # None
      /\ \A i \in 1 .. k - 1 : data'[t[i]] = IF i < q THEN data[s[i]] ELSE data[s[i + 1]]
      /\ data[s[q]] = d /\ \A i \in 1 .. q - 1 : data[s[i]] # d
  BY DEF Deleting
<1>a. ptr[l] # NULL /\ Chain(Held, link, ptr[l], k, s)
  BY <1>0
<1> USE <1>0
<1>1. /\ k \in Nat \ {0} /\ s[1] = ptr[l]
      /\ \A i \in 1 .. k : s[i] \in Held /\ s[i] \in Nodes(l)
      /\ Contents(l) = Found(data, k, s) /\ Contents(l) # Absent
      /\ IsSeq(Found(data, k, s), Filled(data, k, s)) /\ Filled(data, k, s) \in {k - 1, k}
      /\ NULL \notin Held
  <2>1. /\ k \in Nat \ {0} /\ s[1] = ptr[l]
        /\ \A i \in 1 .. k : s[i] \in Held /\ s[i] \in Nodes(l)
        /\ Contents(l) = Found(data, k, s) /\ Contents(l) # Absent
        /\ IsSeq(Found(data, k, s), Filled(data, k, s)) /\ Filled(data, k, s) \in {k - 1, k}
    BY ONLY HeapInv, ContentsInv, l \in List, <1>a, ListIs
  <2> QED  BY <2>1 DEF Held
<1>2. /\ p \in 1 .. k /\ p + 1 \in 1 .. k /\ p \in 1 .. k - 1 /\ k - 1 \in Nat \ {0}
      /\ k - 1 \in 1 .. k
  BY <1>1
<1>3. /\ n \in Held /\ m \in Held /\ n \in Nodes(l) /\ m \in Nodes(l) /\ n # m /\ link[n] = m
  BY <1>1, <1>2 DEF Chain
<1>4. Held' = Held \ {m} /\ Owned /\ Owned'
  BY <1>3, FreeStep DEF HeapInv
<1>5. /\ link'[n] = link[m] /\ \A x \in Held : x # n /\ x # m => link'[x] = link[x]
      /\ link[m] # n /\ link[m] # m
  <2>1. n \in Node /\ m \in Node /\ link \in [Node -> Node \cup {NULL}]
    BY <1>3, <1>4 DEF Owned, Typed
  <2>2. link'[n] = link[m] /\ \A x \in Held : x # n /\ x # m => link'[x] = link[x]
    BY <1>3, <1>4, <2>1 DEF Owned, Typed
  <2>3. link[m] # m
    BY <1>3, <1>4, NoLoop DEF Owned
  <2>4. link[m] # n
    <3>1. CASE p + 1 = k
      BY <1>1, <1>3, <3>1 DEF Chain
    <3>2. CASE p + 1 # k
      <4>1. p + 1 \in 1 .. k - 1 /\ (p + 1) + 1 \in 1 .. k /\ (p + 1) + 1 # p
        BY <1>1, <1>2, <3>2
      <4> QED  BY <1>2, <4>1 DEF Chain
    <3> QED  BY <3>1, <3>2
  <2> QED  BY <2>2, <2>3, <2>4
<1>6. Given'
  <2>1. IsFiniteSet(Held')
    BY <1>4, FS_RemoveElement DEF ContentsInv, Given
  <2>2. ASSUME NEW x \in Held', data'[x] = None PROVE link'[x] = NULL
    <3>1. CASE x = n
      BY <1>5, <2>2, <3>1
    <3>2. CASE x # n
      <4>1. x \in Held /\ data'[x] = data[x] /\ link'[x] = link[x]
        BY <1>4, <1>5, <3>2
      <4> QED  BY <2>2, <4>1 DEF ContentsInv, Given
    <3> QED  BY <3>1, <3>2
  <2>3. ASSUME "add" \in ops, NEW x \in Held', link'[x] # NULL PROVE data'[link'[x]] # None
    <3>1. link'[x] \in Held /\ link'[x] # m
      BY <1>4, <2>3 DEF Owned, Typed
    <3>2. CASE link'[x] = n
      BY <2>3, <3>2
    <3>3. CASE link'[x] # n
      <4>1. data'[link'[x]] = data[link'[x]]
        BY <3>1, <3>3
      <4>2. \E y \in Held : link'[x] = link[y]
        BY <1>3, <1>4, <1>5
      <4> QED  BY <2>3, <4>1, <4>2 DEF ContentsInv, Given
    <3> QED  BY <3>2, <3>3
  <2> QED  BY <2>1, <2>2, <2>3 DEF ContentsInv, Given
<1>7. PICK j : j = k - 1
  OBVIOUS
<1>8. Chain(Held', link', ptr'[l], j, t)
  <2>1. link'[s[p]] = link[s[p + 1]]
    BY <1>5
  <2>2. \A x \in Held : x # s[p] /\ x # s[p + 1] => link'[x] = link[x]
    BY <1>5
  <2>3. Chain(Held \ {s[p + 1]}, link', ptr[l], k - 1, Removed(s, k, p))
    BY ONLY <1>a, p \in 1 .. k - 1, <2>1, <2>2, ChainRemove
  <2> QED  BY <1>4, <1>7, <2>3
<1>9. /\ ContentsInv' /\ Promise!Become(l, Found(data', j, t))
      /\ AsSequences[l] = IF ptr[l] = NULL THEN Absent ELSE Contents(l)
      /\ IsSeq(Found(data', j, t), Filled(data', j, t))
  <2>1. \A x \in Held : x \notin Nodes(l) => x \in Held' /\ link'[x] = link[x] /\ data'[x] = data[x]
    BY <1>3, <1>4, <1>5
  <2>2. \A i \in List : i # l => ptr'[i] = ptr[i]
    OBVIOUS
  <2> QED  BY <1>4, <1>6, <1>8, <2>1, <2>2, Becomes
<1>10. PICK c, f, g : c = Filled(data', j, t) /\ f = Found(data, k, s) /\ g = Found(data', j, t)
  OBVIOUS
<1>11. Filled(data, k, s) = c + 1 /\ c \in Nat /\ c <= j /\ j \in Nat /\ q \in 1 .. c + 1
  <2>1. /\ j \in 1 .. k - 1 /\ j + 1 = k /\ j \in Nat \ {0} /\ q \in 1 .. k /\ ~(k < q)
        /\ (j < q => q = k)
    BY <1>1, <1>2, <1>7
  <2>2. d # None
    BY DataIsSomething
  <2>3. CASE j < q
    <3>1. data[s[k]] # None /\ data'[t[j]] = data[s[j]]
      BY <2>1, <2>2, <2>3
    <3>2. link[s[j]] = s[k] /\ s[k] # NULL /\ s[j] \in Held
      BY <1>1, <1>2, <1>7, <2>1 DEF Chain
    <3>3. data'[t[j]] # None
      BY <3>1, <3>2 DEF ContentsInv, Given
    <3> QED  BY <1>10, <2>1, <3>1, <3>3 DEF Filled
  <2>4. CASE ~(j < q)
    <3>1. data'[t[j]] = data[s[k]]
      BY <2>1, <2>4
    <3>2. q \in 1 .. j /\ q \in 1 .. j + 1
      BY <2>1, <2>4
    <3>3. CASE data[s[k]] = None
      <4>1. Filled(data, k, s) = j /\ c = j - 1
        BY <1>7, <1>10, <3>1, <3>3 DEF Filled
      <4> QED  BY <2>1, <3>2, <4>1
    <3>4. CASE data[s[k]] # None
      <4>1. Filled(data, k, s) = k /\ c = j
        BY <1>7, <1>10, <3>1, <3>4 DEF Filled
      <4> QED  BY <2>1, <3>2, <4>1
    <3> QED  BY <3>3, <3>4
  <2> QED  BY <2>3, <2>4
<1>12. \A i \in 1 .. c : g[i] = IF i < q THEN f[i] ELSE f[i + 1]
  <2> TAKE i \in 1 .. c
  <2>1. i \in 1 .. c + 1 /\ i + 1 \in 1 .. c + 1 /\ i \in 1 .. k - 1
    BY <1>7, <1>11
  <2>2. g[i] = data'[t[i]] /\ f[i] = data[s[i]] /\ f[i + 1] = data[s[i + 1]]
    BY <1>10, <1>11, <2>1 DEF Found
  <2> QED  BY <2>1, <2>2
<1>13. IsSeq(g, c) /\ IsSeq(f, c + 1)
  BY <1>1, <1>9, <1>10, <1>11
<1>14. Without(f, q) = g
  BY ONLY <1>11, <1>12, <1>13, RemoveIs
<1>15. DOMAIN f = 1 .. c + 1
  BY <1>13, SeqIs
<1>16. f[q] = d /\ \A i \in 1 .. q - 1 : f[i] # d
  <2>1. \A i \in 1 .. q - 1 : i \in 1 .. c + 1
    BY <1>11
  <2> QED  BY <1>10, <1>11, <2>1 DEF Found
<1>17. Promise!Become(l, Promise!RemoveAt(f, q))
  BY <1>9, <1>10, <1>14 DEF Promise!RemoveAt, Without
<1>18. AsSequences[l] = f /\ f # Absent
  BY <1>1, <1>9, <1>10
<1> QED  BY <1>9, <1>11, <1>15, <1>16, <1>17, <1>18 DEF Promise!Delete, Promise!There

(* (list.c:226-248)                                                        *)
LEMMA DeleteExact ==
    ASSUME HeapInv, ContentsInv, ops' = ops, NEW l \in List, NEW d \in Data,
           DeleteFromListData(l, d)
    PROVE  ContentsInv' /\ Promise!Delete(l, d)
<1>1. going = Idle /\ going' = Idle /\ ptr' = ptr /\ ptr[l] # NULL /\ HeapInv'
  <2>1. HeapInv'
    BY DeleteInv
  <2> QED  BY <2>1 DEF DeleteFromListData, Using, Ready
<1>2. PICK k, s : Chain(Held, link, ptr[l], k, s)
  BY <1>1 DEF ContentsInv, Chained
<1>3. /\ k \in Nat \ {0} /\ s[1] = ptr[l] /\ NULL \notin Held
      /\ \A i \in 1 .. k : s[i] \in Held /\ s[i] \in Nodes(l)
      /\ Nodes(l) = Passed(k, s)
  <2>1. /\ k \in Nat \ {0} /\ s[1] = ptr[l]
        /\ \A i \in 1 .. k : s[i] \in Held /\ s[i] \in Nodes(l)
        /\ Nodes(l) = Passed(k, s)
    BY <1>1, <1>2, ListIs
  <2> QED  BY <2>1 DEF Held
<1>4. Owned
  <2>1. manager = "up"
    BY DEF DeleteFromListData, DeleteFirst, DeleteFurther, Free, FreeListNode
  <2> QED  BY <2>1 DEF HeapInv
<1>5. /\ data \in [Node -> Data \cup {None}] /\ Held \subseteq Node
      /\ \A i, j \in 1 .. k : s[i] = s[j] => i = j
      /\ \A i \in 1 .. k - 1 : link[s[i]] = s[i + 1]
      /\ link[s[k]] = NULL
  BY <1>2, <1>4 DEF ContentsInv, Given, Owned, Typed, Chain
<1>6. CASE DeleteFirst(l, d)
  <2>1. PICK n, m : n = ptr[l] /\ m = link[n]
    OBVIOUS
  <2>2. /\ data[n] = d /\ m # NULL /\ Free(m)
        /\ link' = [link EXCEPT ![n] = link[m], ![m] = NULL]
        /\ data' = [data EXCEPT ![n] = data[m], ![m] = None]
    BY <1>6, <2>1 DEF DeleteFirst
  <2>3. k # 1
    BY <1>3, <1>5, <2>1, <2>2
  <2>4. PICK p : p = 1
    OBVIOUS
  <2>5. PICK t : t = Removed(s, k, p)
    OBVIOUS
  <2>6. p \in 1 .. k - 1 /\ p \in 1 .. k /\ p + 1 \in 1 .. k /\ p # p + 1
    BY <1>3, <2>3, <2>4
  <2>7. n = s[p] /\ m = s[p + 1] /\ n # m /\ n \in Held /\ m \in Held
    BY <1>3, <1>5, <2>1, <2>4, <2>6
  <2>8. /\ data'[n] = data[m] /\ \A x \in Held : x # n /\ x # m => data'[x] = data[x]
        /\ data' \in [Node -> Data \cup {None}]
    BY <1>5, <2>2, <2>7
  <2>9. data'[n] = None => link[m] = NULL
    BY <2>7, <2>8 DEF ContentsInv, Given
  <2>10. "add" \in ops => data'[n] # None
    BY <2>1, <2>2, <2>7, <2>8 DEF ContentsInv, Given
  <2>11. \A i \in 1 .. k - 1 : data'[t[i]] = IF i < p THEN data[s[i]] ELSE data[s[i + 1]]
    <3> TAKE i \in 1 .. k - 1
    <3>1. i \in 1 .. k /\ i + 1 \in 1 .. k /\ ~(i < p) /\ (i # p => i + 1 # p /\ i + 1 # p + 1 /\ ~(i <= p))
      BY <1>3, <2>4
    <3>2. CASE i = p
      <4>1. t[i] = n
        BY <2>4, <2>5, <2>7, <3>2 DEF Removed
      <4> QED  BY <2>4, <2>7, <2>8, <3>2, <4>1
    <3>3. CASE i # p
      <4>1. t[i] = s[i + 1]
        BY <2>5, <3>1, <3>3 DEF Removed
      <4>2. s[i + 1] # n /\ s[i + 1] # m /\ s[i + 1] \in Held
        BY <1>3, <1>5, <2>6, <2>7, <3>1, <3>3
      <4> QED  BY <2>8, <3>1, <4>1, <4>2
    <3> QED  BY <3>2, <3>3
  <2>12. data[s[p]] = d /\ \A i \in 1 .. p - 1 : data[s[i]] # d
    BY <2>2, <2>4, <2>7
  <2>13. p \in 1 .. k - 1 /\ p \in 1 .. k /\ n = s[p] /\ m = s[p + 1]
    BY <2>6, <2>7
  <2>14. Deleting(l, d, k, s, p, p)
    BY <1>1, <1>2, <2>2, <2>5, <2>8, <2>9, <2>10, <2>11, <2>12, <2>13 DEF Deleting
  <2> QED  BY <1>1, <2>13, <2>14, Deletes
<1>7. CASE DeleteFurther(l, d)
  <2>1. PICK n, m :
           /\ n \in Held /\ m = link[n] /\ m # NULL /\ data[m] = d
           /\ data' = [data EXCEPT ![m] = None]
           /\ link' = [link EXCEPT ![n] = link[m], ![m] = NULL]
           /\ Free(m)
           /\ n \in Nodes(l)
           /\ \A x \in Nodes(l) \ {m} : data[x] = d => m \notin From(x)
    BY <1>7 DEF DeleteFurther
  <2>2. PICK p \in 1 .. k : n = s[p]
    BY <1>3, <2>1 DEF Passed
  <2>3. p \in 1 .. k - 1 /\ p + 1 \in 1 .. k /\ p # p + 1
    BY <1>3, <1>5, <2>1, <2>2
  <2>4. m = s[p + 1] /\ n # m /\ m \in Held
    BY <1>3, <1>5, <2>1, <2>2, <2>3
  <2>5. PICK t, q : t = Removed(s, k, p) /\ q = p + 1
    OBVIOUS
  <2>6. q \in 1 .. k
    BY <2>3, <2>5
  <2>7. /\ \A x \in Held : x # m => data'[x] = data[x]
        /\ data' \in [Node -> Data \cup {None}]
    BY <1>5, <2>1
  <2>8. data'[n] # None
    BY <2>1, <2>4, <2>7 DEF ContentsInv, Given
  <2>9. \A i \in 1 .. k - 1 : data'[t[i]] = IF i < q THEN data[s[i]] ELSE data[s[i + 1]]
    <3> TAKE i \in 1 .. k - 1
    <3>1. i \in 1 .. k /\ i + 1 \in 1 .. k /\ (i <= p <=> i < q) /\ (i <= p => i # p + 1)
          /\ (~(i <= p) => i + 1 # p + 1)
      BY <1>3, <2>5
    <3>2. t[i] = IF i <= p THEN s[i] ELSE s[i + 1]
      BY <2>5 DEF Removed
    <3>3. t[i] # m /\ t[i] \in Held
      BY <1>3, <1>5, <2>3, <2>4, <3>1, <3>2
    <3> QED  BY <2>7, <3>1, <3>2, <3>3
  <2>10. \A i \in 1 .. q - 1 : data[s[i]] # d
    <3> SUFFICES ASSUME NEW i \in 1 .. q - 1, data[s[i]] = d PROVE FALSE
      OBVIOUS
    <3>1. i \in 1 .. k /\ p + 1 \in i .. k /\ i # p + 1
      BY <1>3, <2>3, <2>5
    <3>2. s[i] \in Nodes(l) \ {m}
      BY <1>3, <1>5, <2>3, <2>4, <3>1
    <3>3. m \in From(s[i])
      BY <1>2, <1>3, <2>4, <3>1, ChainBehind DEF From
    <3> QED  BY <2>1, <3>2, <3>3
  <2>11. data[s[q]] = d
    BY <2>1, <2>4, <2>5
  <2>12. /\ \A x \in Held : x # n /\ x # m => data'[x] = data[x]
         /\ (data'[n] = None => link[m] = NULL) /\ ("add" \in ops => data'[n] # None)
    BY <2>7, <2>8
  <2>13. /\ p \in 1 .. k - 1 /\ q \in 1 .. k /\ n = s[p] /\ m = s[p + 1] /\ Free(m)
         /\ link' = [link EXCEPT ![n] = link[m], ![m] = NULL]
         /\ data' \in [Node -> Data \cup {None}] /\ t = Removed(s, k, p)
    BY <2>1, <2>2, <2>3, <2>4, <2>5, <2>6, <2>7
  <2>14. Deleting(l, d, k, s, p, q)
    BY <1>1, <1>2, <2>9, <2>10, <2>11, <2>12, <2>13 DEF Deleting
  <2> QED  BY <1>1, <2>13, <2>14, Deletes
<1> QED  BY <1>6, <1>7 DEF DeleteFromListData

(* A list leaves its place (list.c:318-322).                               *)
LEMMA FreeListExact ==
    ASSUME HeapInv, ContentsInv, ops' = ops, NEW l \in List, FreeList(l)
    PROVE  ContentsInv' /\ Promise!Destroy(l)
<1>1. PICK h : h = ptr[l]
  OBVIOUS
<1>2. /\ going = Idle /\ h # NULL /\ link' = link /\ data' = data /\ Held' = Held
      /\ ptr' = [ptr EXCEPT ![l] = NULL]
      /\ going' = [op |-> "free", at |-> h] /\ manager # "freed"
  BY <1>1 DEF FreeList, Using, Ready, Held, vars
<1>3. /\ ptr'[l] = NULL /\ \A m \in List : m # l => ptr'[m] = ptr[m]
  BY <1>2 DEF HeapInv, Owned, Typed
<1>4. ContentsInv'
  <2>1. Chained'
    BY <1>2, <1>3 DEF ContentsInv, Chained
  <2>2. Given' /\ Copied'
    BY <1>2 DEF ContentsInv, Given, Copied
  <2> QED  BY <2>1, <2>2 DEF ContentsInv
<1>5. \A m \in List : ~Copying(m) /\ ~Copying(m)'
  BY <1>2 DEF Copying, Idle
<1>6. \A m \in List : m # l => AsSequences'[m] = AsSequences[m]
  <2> SUFFICES ASSUME NEW m \in List, m # l PROVE AsSequences'[m] = AsSequences[m]
    OBVIOUS
  <2>1. ptr'[m] = ptr[m] /\ Contents(m)' = Contents(m)
    BY <1>2, <1>3 DEF Contents
  <2> QED  BY <1>5, <2>1, Seen
<1>7. AsSequences'[l] = Absent
  BY <1>3, Seen
<1>8. AsSequences[l] # Absent
  <2>1. PICK k, s : Chain(Held, link, ptr[l], k, s)
    BY <1>1, <1>2 DEF ContentsInv, Chained
  <2>2. Contents(l) # Absent
    BY <1>1, <1>2, <2>1, ListIs
  <2> QED  BY <1>1, <1>2, <1>5, <2>2, Seen
<1> QED  BY <1>4, <1>6, <1>7, <1>8, SeenElsewhere DEF Promise!Destroy, Promise!There, Promise!Become

(* Its nodes are given back (list.c:323-328).                              *)
LEMMA FreeNodeExact ==
    ASSUME HeapInv, ContentsInv, ops' = ops, going.op = "free", FreeNode
    PROVE  ContentsInv' /\ AsSequences' = AsSequences
<1>1. Owned /\ HeapInv'
  BY FreeNodeInv DEF FreeNode, Free, FreeListNode, HeapInv
<1>2. PICK h \in Held : going = [op |-> "free", at |-> h] /\ \A l \in List : ptr[l] # h
  BY <1>1 DEF Owned, Going, Idle
<1>3. /\ Free(h) /\ link' = [link EXCEPT ![h] = NULL] /\ ptr' = ptr
      /\ data' = [data EXCEPT ![h] = None]
      /\ going' = IF link[h] = NULL THEN Idle ELSE [op |-> "free", at |-> link[h]]
  BY <1>2 DEF FreeNode
<1>4. Held' = Held \ {h} /\ Owned'
  BY <1>1, <1>3, FreeStep DEF HeapInv
<1>5. /\ \A x \in Held : x # h => link'[x] = link[x] /\ data'[x] = data[x]
      /\ data' \in [Node -> Data \cup {None}]
  BY <1>1, <1>3 DEF ContentsInv, Given, Owned, Typed
<1>6. Given'
  <2>1. IsFiniteSet(Held')
    BY <1>4, FS_RemoveElement DEF ContentsInv, Given
  <2>2. \A x \in Held' : data'[x] = None => link'[x] = NULL
    BY <1>4, <1>5 DEF ContentsInv, Given
  <2>3. ASSUME "add" \in ops, NEW x \in Held', link'[x] # NULL PROVE data'[link'[x]] # None
    <3>1. link'[x] \in Held' /\ link'[x] = link[x] /\ x \in Held
      BY <1>4, <1>5, <2>3 DEF Owned, Typed
    <3> QED  BY <1>4, <1>5, <2>3, <3>1 DEF ContentsInv, Given
  <2> QED  BY <1>5, <2>1, <2>2, <2>3 DEF ContentsInv, Given
<1>7. \A m \in List : ~Copying(m) /\ ~Copying(m)'
  BY <1>2, <1>3 DEF Copying, Idle
<1>8. ASSUME NEW m \in List, ptr[m] # NULL
      PROVE  (\E k, s : Chain(Held', link', ptr'[m], k, s)) /\ Contents(m)' = Contents(m)
  <2>1. \A n \in Nodes(m) : n \in Held /\ n # h
    <3>1. h \notin Nodes(m)
      BY <1>1, <1>2, NodesApart
    <3> QED  BY <3>1, ReachIs DEF Nodes, From
  <2>2. \A n \in Nodes(m) : n \in Held' /\ link'[n] = link[n] /\ data'[n] = data[n]
    BY <1>4, <1>5, <2>1
  <2>3. PICK k, s : Chain(Held, link, ptr[m], k, s)
    BY <1>8 DEF ContentsInv, Chained
  <2>4. IsFiniteSet(Held') /\ ptr'[m] = ptr[m]
    BY <1>3, <1>6 DEF Given
  <2> QED  BY <1>8, <2>2, <2>3, <2>4, ListKept
<1>9. ContentsInv'
  <2>1. Chained'
    BY <1>3, <1>8 DEF Chained
  <2>2. Copied'
    BY <1>3 DEF Copied, Idle
  <2> QED  BY <1>6, <2>1, <2>2 DEF ContentsInv
<1>10. AsSequences' = AsSequences
  <2>1. \A m \in List : AsSequences'[m] = AsSequences[m]
    BY <1>3, <1>7, <1>8, Seen
  <2>2. /\ AsSequences = [m \in List |-> AsSequences[m]]
        /\ AsSequences' = [m \in List |-> AsSequences'[m]]
    BY DEF AsSequences
  <2> HIDE DEF AsSequences
  <2> QED  BY <2>1, <2>2
<1> QED  BY <1>9, <1>10

(* Nothing that it is about changes.                                       *)
LEMMA KeptContents ==
    ASSUME ContentsInv, UNCHANGED <<holds, ptr, data, link, going, ops>>
    PROVE  ContentsInv' /\ AsSequences' = AsSequences
<1>1. Held' = Held
  BY DEF Held
<1>2. Chained' /\ Given' /\ Copied'
  BY <1>1 DEF ContentsInv, Chained, Given, Copied
<1>3. \A m \in List : Contents(m)' = Contents(m) /\ (Copying(m)' <=> Copying(m))
  BY <1>1 DEF Contents, Copying
<1>4. AsSequences' = AsSequences
  BY <1>1, <1>3 DEF AsSequences
<1> QED  BY <1>2, <1>4 DEF ContentsInv

LEMMA InitContents == HeapInit => ContentsInv
<1> SUFFICES ASSUME HeapInit PROVE ContentsInv
  OBVIOUS
<1>1. Held = {}
  BY DEF HeapInit, Init, Held
<1>2. IsFiniteSet(Held)
  BY <1>1, FS_EmptySet
<1> QED  BY <1>1, <1>2 DEF HeapInit, ContentsInv, Chained, Given, Copied, Idle

(* A copy's first node is put in its place (list.c:191-198).               *)
LEMMA CloneListExact ==
    ASSUME HeapInv, ContentsInv, ops' = ops, NEW l \in List, NEW m \in List, CloneList(l, m)
    PROVE  /\ ContentsInv'
           /\ going' = Idle => Promise!Copy(l, m)
           /\ going' # Idle => AsSequences' = AsSequences
<1>1. PICK n, at : n = New /\ at = ptr[m]
  OBVIOUS
<1>2. n \in Node /\ n \notin Held /\ n # NULL /\ Held' = Held \cup {n} /\ Owned
  BY <1>1, AllocStep DEF CloneList, HeapInv
<1>3. /\ going = Idle /\ ptr[l] = NULL /\ at # NULL /\ l # m
      /\ going' = Cloning(l, m, at, n)
      /\ ptr' = [ptr EXCEPT ![l] = n] /\ link' = [link EXCEPT ![n] = NULL]
      /\ data' = [data EXCEPT ![n] = data[at]]
  BY <1>1 DEF CloneList, Using, Ready
<1>4. /\ link \in [Node -> Node \cup {NULL}] /\ Held \subseteq Node /\ at \in Held
      /\ \A x \in Held : link[x] \in Held \cup {NULL}
      /\ ptr \in [List -> Held \cup {NULL}]
  BY <1>1, <1>2, <1>3 DEF Owned, Typed
<1>5. /\ ptr'[l] = n /\ link'[n] = NULL /\ data'[n] = data[at]
      /\ \A x \in Held : link'[x] = link[x] /\ data'[x] = data[x] /\ x \in Held'
      /\ data' \in [Node -> Data \cup {None}]
      /\ \A j \in List : j # l => ptr'[j] = ptr[j]
  BY <1>2, <1>3, <1>4 DEF ContentsInv, Given
<1>6. Given'
  <2>1. IsFiniteSet(Held')
    BY <1>2, FS_AddElement DEF ContentsInv, Given
  <2> QED  BY <1>2, <1>4, <1>5, <2>1 DEF ContentsInv, Given
<1>7. PICK i, t : i = 1 /\ t = [j \in 1 .. 1 |-> n]
  OBVIOUS
<1>8. Chain(Held', link', ptr'[l], i, t) /\ t[i] = n
  <2>1. n \in Held'
    BY <1>2
  <2>2. Chain(Held', link', ptr'[l], i, t)
    BY <1>5, <1>7, <2>1, ChainOfOne
  <2> QED  BY <1>7, <2>2
<1>9. PICK k, s : Chain(Held, link, ptr[m], k, s)
  BY <1>1, <1>3 DEF ContentsInv, Chained
<1>10. k \in Nat \ {0} /\ s[1] = at /\ Contents(m) = Found(data, k, s) /\ Contents(m) # Absent
  <2>1. k \in Nat \ {0} /\ s[1] = ptr[m] /\ Contents(m) = Found(data, k, s) /\ Contents(m) # Absent
    BY <1>1, <1>3, <1>9, ListIs
  <2> QED  BY <1>1, <2>1
<1>11. CASE link[at] = NULL
  <2>1. going' = Idle
    BY <1>3, <1>11 DEF Cloning
  <2>2. k = 1
    <3>1. k # 1 => 1 \in 1 .. k - 1 /\ 2 \in 1 .. k
      BY <1>10
    <3>2. k # 1 => s[2] \in Held /\ s[2] = NULL
      BY <1>9, <1>10, <1>11, <3>1 DEF Chain
    <3> QED  BY <3>2 DEF Held
  <2>3. Found(data', i, t) = Found(data, k, s)
    <3>1. data'[t[i]] = data[s[k]]
      BY <1>5, <1>8, <1>10, <2>2
    <3>2. Filled(data', i, t) = Filled(data, k, s) /\ Filled(data, k, s) \in {0, 1}
      BY <1>7, <2>2, <3>1 DEF Filled
    <3>3. \A j \in 1 .. Filled(data, k, s) : j = 1
      BY <3>2
    <3> QED  BY <1>7, <2>2, <3>1, <3>2, <3>3 DEF Found
  <2>4. /\ ContentsInv' /\ Promise!Become(l, Found(data', i, t))
        /\ AsSequences[l] = Absent
    <3>1. /\ ContentsInv' /\ Promise!Become(l, Found(data', i, t))
          /\ AsSequences[l] = IF ptr[l] = NULL THEN Absent ELSE Contents(l)
      BY <1>2, <1>3, <1>5, <1>6, <1>8, <2>1, Becomes
    <3> QED  BY <1>3, <3>1
  <2>5. AsSequences[m] = Contents(m)
    <3>1. ~Copying(m)
      BY <1>3 DEF Copying, Idle
    <3> QED  BY <1>1, <1>3, <3>1, Seen
  <2>6. Promise!Copy(l, m)
    BY <1>10, <2>3, <2>4, <2>5 DEF Promise!Copy, Promise!There
  <2> QED  BY <2>1, <2>4, <2>6
<1>12. CASE link[at] # NULL
  <2>1. going' = [op |-> "clone", list |-> l, of |-> m, at |-> at, to |-> n] /\ going' # Idle
    <3>1. going' = [op |-> "clone", list |-> l, of |-> m, at |-> at, to |-> n]
      BY <1>3, <1>12 DEF Cloning
    <3> QED  BY <3>1 DEF Idle
  <2>2. IsFiniteSet(Held')
    BY <1>6 DEF Given
  <2>3. ASSUME NEW j \in List, j # l, ptr[j] # NULL
        PROVE  /\ \A c, r : Chain(Held, link, ptr[j], c, r) => Chain(Held', link', ptr'[j], c, r)
               /\ \E c, r : Chain(Held', link', ptr'[j], c, r)
               /\ Contents(j)' = Contents(j)
    BY <1>2, <1>5, <2>2, <2>3, OthersKept
  <2>4. Chained'
    BY <1>5, <1>8, <2>3 DEF Chained
  <2>5. i < k
    <3>1. k # 1
      BY <1>9, <1>10, <1>12 DEF Chain
    <3> QED  BY <1>7, <1>10, <3>1
  <2>6. Chain(Held', link', ptr'[m], k, s)
    BY <1>1, <1>3, <1>9, <2>3
  <2>7. data'[t[i]] = data'[s[i]] /\ at = s[i] /\ \A j \in 1 .. i : j = i
    BY <1>4, <1>5, <1>7, <1>8, <1>10
  <2>8. Copied'
    BY <1>3, <1>8, <2>1, <2>5, <2>6, <2>7 DEF Copied
  <2>9. \A j \in List : (Copying(j)' <=> j = l) /\ ~Copying(j)
    BY <1>3, <2>1 DEF Copying, Idle
  <2>10. \A j \in List : j # l => AsSequences'[j] = AsSequences[j]
    BY <1>5, <2>3, <2>9, Seen
  <2>11. AsSequences'[l] = AsSequences[l]
    BY <1>3, <2>9, Seen
  <2> QED  BY <1>6, <2>1, <2>4, <2>8, <2>10, <2>11, SeenElsewhere DEF ContentsInv
<1> QED  BY <1>11, <1>12

(* The next one is put behind the copy made last (list.c:199-205).         *)
LEMMA CloneNodeExact ==
    ASSUME HeapInv, ContentsInv, ops' = ops, going.op = "clone", CloneNode
    PROVE  /\ ContentsInv'
           /\ going' = Idle => Promise!Copy(going.list, going.of)
           /\ going' # Idle => AsSequences' = AsSequences
<1>1. PICK n : n = New
  OBVIOUS
<1>2. n \in Node /\ n \notin Held /\ n # NULL /\ Held' = Held \cup {n} /\ Owned
  BY <1>1, AllocStep DEF CloneNode, HeapInv
<1>3. PICK l \in List, m \in List, at \in Held, to \in Held :
         /\ going = [op |-> "clone", list |-> l, of |-> m, at |-> at, to |-> to]
         /\ link[at] \in Held /\ link[to] = NULL
  BY <1>2 DEF Owned, Going, Idle
<1>4. PICK from \in Held : from = link[at] /\ from # NULL
  BY <1>3 DEF Held
<1>5. /\ going' = Cloning(l, m, from, n) /\ ptr' = ptr
      /\ link' = [link EXCEPT ![to] = n, ![n] = NULL]
      /\ data' = [data EXCEPT ![n] = data[from]]
  BY <1>1, <1>3, <1>4 DEF CloneNode
<1>6. /\ l # m
      /\ \E k, s, j, t :
            /\ Chain(Held, link, ptr[m], k, s) /\ Chain(Held, link, ptr[l], j, t)
            /\ j < k /\ at = s[j] /\ to = t[j]
            /\ \A i \in 1 .. j : data[t[i]] = data[s[i]]
  BY <1>3 DEF ContentsInv, Copied
<1>7. PICK k, s, j, t :
            /\ Chain(Held, link, ptr[m], k, s) /\ Chain(Held, link, ptr[l], j, t)
            /\ j < k /\ at = s[j] /\ to = t[j]
            /\ \A i \in 1 .. j : data[t[i]] = data[s[i]]
  BY <1>6
<1>8. ptr[l] # NULL /\ ptr[m] # NULL
  <2>1. k \in Nat \ {0} /\ j \in Nat \ {0} /\ s[1] = ptr[m] /\ t[1] = ptr[l]
    BY <1>7 DEF Chain
  <2>2. 1 \in 1 .. k /\ 1 \in 1 .. j
    BY <2>1
  <2> QED  BY <1>7, <2>1, <2>2 DEF Chain, Held
<1>9. /\ k \in Nat \ {0} /\ \A i \in 1 .. k : s[i] \in Held
      /\ Contents(m) = Found(data, k, s) /\ Contents(m) # Absent
  <2>1. Chain(Held, link, ptr[m], k, s) /\ ptr[m] # NULL
    BY <1>7, <1>8
  <2>2. k \in Nat \ {0} /\ \A i \in 1 .. k : s[i] \in Held
    BY ONLY HeapInv, ContentsInv, <2>1, ListIs, m \in List
  <2>3. Contents(m) = Found(data, k, s) /\ Contents(m) # Absent
    BY ONLY HeapInv, ContentsInv, <2>1, ListIs, m \in List
  <2> QED  BY <2>2, <2>3
<1>10. j \in Nat \ {0} /\ \A i \in 1 .. j : t[i] \in Held /\ t[i] \in Nodes(l)
  <2>1. Chain(Held, link, ptr[l], j, t)
    BY <1>7
  <2> QED  BY <1>8, <2>1, ListIs
<1>11. /\ j \in 1 .. k - 1 /\ j + 1 \in 1 .. k /\ j \in 1 .. j /\ j + 1 \in 1 .. j + 1
       /\ s[j + 1] = from /\ to \in Nodes(l)
  <2>1. j \in 1 .. k - 1 /\ j + 1 \in 1 .. k /\ j \in 1 .. j /\ j + 1 \in 1 .. j + 1
    BY <1>7, <1>9, <1>10
  <2> QED  BY <1>4, <1>7, <1>10, <2>1 DEF Chain
<1>12. /\ link'[to] = n /\ link'[n] = NULL /\ data'[n] = data[from]
       /\ \A x \in Held : data'[x] = data[x] /\ x \in Held'
       /\ \A x \in Held : x # to => link'[x] = link[x]
       /\ data' \in [Node -> Data \cup {None}]
  <2>1. link \in [Node -> Node \cup {NULL}] /\ Held \subseteq Node
    BY <1>2 DEF Owned, Typed
  <2> QED  BY <1>2, <1>4, <1>5, <2>1 DEF ContentsInv, Given
<1>13. data[to] # None /\ ("add" \in ops => data[from] # None)
  <2>1. data[to] = data[at]
    BY <1>7, <1>11
  <2> QED  BY <1>3, <1>4, <2>1 DEF ContentsInv, Given, Held
<1>14. Given'
  <2>1. IsFiniteSet(Held')
    BY <1>2, FS_AddElement DEF ContentsInv, Given
  <2>2. \A x \in Held' : data'[x] = None => link'[x] = NULL
    BY <1>2, <1>12, <1>13 DEF ContentsInv, Given
  <2>3. ASSUME "add" \in ops, NEW x \in Held', link'[x] # NULL PROVE data'[link'[x]] # None
    <3>1. CASE x = to
      BY <1>12, <1>13, <2>3, <3>1
    <3>2. CASE x # to
      <4>1. x \in Held /\ link'[x] = link[x]
        BY <1>2, <1>12, <2>3, <3>2
      <4>2. link[x] \in Held /\ data[link[x]] # None
        BY <1>2, <2>3, <4>1 DEF ContentsInv, Given, Owned, Typed
      <4> QED  BY <1>12, <4>1, <4>2
    <3> QED  BY <3>1, <3>2
  <2> QED  BY <1>12, <2>1, <2>2, <2>3 DEF ContentsInv, Given
<1>15. PICK c, r : c = j + 1 /\ r = Inserted(t, j, j, n)
  OBVIOUS
<1>16. Chain(Held', link', ptr'[l], c, r)
  <2>1. /\ Chain(Held, link, ptr[l], j, t) /\ j \in 1 .. j
        /\ link'[t[j]] = n /\ link'[n] = link[t[j]]
        /\ \A x \in Held : x # t[j] => link'[x] = link[x]
        /\ ptr'[l] = ptr[l]
    BY <1>3, <1>5, <1>7, <1>11, <1>12
  <2>2. Chain(Held \cup {n}, link', ptr[l], j + 1, Inserted(t, j, j, n))
    BY <1>2, <2>1, ChainInsert
  <2> QED  BY <1>2, <1>15, <2>1, <2>2
<1>17. /\ r[c] = n /\ c = j + 1
       /\ \A i \in 1 .. c : data'[r[i]] = data[s[i]] /\ data'[s[i]] = data[s[i]]
  <2>1. r[j + 1] = n /\ \A i \in 1 .. j : r[i] = t[i]
    BY <1>10, <1>11, <1>15 DEF Inserted
  <2>2. ASSUME NEW i \in 1 .. j + 1
        PROVE  data'[r[i]] = data[s[i]] /\ data'[s[i]] = data[s[i]]
    <3>1. i \in 1 .. k /\ (i # j + 1 => i \in 1 .. j)
      <4>1. k \in Nat \ {0} /\ j \in Nat \ {0} /\ j + 1 \in 1 .. k
        BY <1>9, <1>10, <1>11
      <4> QED  BY <4>1
    <3>2. data'[s[i]] = data[s[i]]
      BY <1>9, <1>12, <3>1
    <3>3. CASE i = j + 1
      BY <1>11, <1>12, <2>1, <3>2, <3>3
    <3>4. CASE i # j + 1
      BY <1>7, <1>10, <1>12, <2>1, <3>1, <3>2, <3>4
    <3> QED  BY <3>2, <3>3, <3>4
  <2> QED  BY <1>15, <2>1, <2>2
<1>18. ASSUME NEW o \in List, o # l, ptr[o] # NULL
       PROVE  /\ \A e, u : Chain(Held, link, ptr[o], e, u) => Chain(Held', link', ptr'[o], e, u)
              /\ \E e, u : Chain(Held', link', ptr'[o], e, u)
              /\ Contents(o)' = Contents(o)
  <2>1. \A x \in Held : x \notin Nodes(l) => x \in Held' /\ link'[x] = link[x] /\ data'[x] = data[x]
    BY <1>11, <1>12
  <2>2. IsFiniteSet(Held') /\ ptr'[o] = ptr[o]
    BY <1>5, <1>14 DEF Given
  <2> QED  BY <1>2, <1>18, <2>1, <2>2, OthersKept
<1>19. Chained'
  BY <1>5, <1>16, <1>18 DEF Chained
<1>20. \A o \in List : Copying(o) <=> o = l
  BY <1>3 DEF Copying
<1>21. AsSequences[l] = Absent /\ AsSequences[m] = Contents(m)
  BY <1>6, <1>8, <1>20, Seen
<1>22. CASE link[from] = NULL
  <2>1. going' = Idle
    BY <1>5, <1>22 DEF Cloning
  <2>2. \A o \in List : ~Copying(o)'
    BY <2>1 DEF Copying, Idle
  <2>3. \A o \in List : o # l => AsSequences'[o] = AsSequences[o]
    BY <1>5, <1>18, <1>20, <2>2, Seen
  <2>4. AsSequences'[l] = Contents(l)'
    BY <1>5, <1>8, <2>2, Seen
  <2>5. c = k
    <3>1. c # k => c \in 1 .. k - 1 /\ c + 1 \in 1 .. k
      BY <1>9, <1>11, <1>17
    <3>2. c # k => s[c + 1] = NULL
      BY <1>7, <1>11, <1>17, <1>22, <3>1 DEF Chain
    <3> QED  BY <1>9, <3>1, <3>2 DEF Held
  <2>6. Contents(l)' = Found(data', c, r)
    <3>1. NULL \notin Held'
      BY DEF Held
    <3> QED  BY <1>14, <1>16, <3>1, ContentsAre DEF Given, Contents
  <2>7. Found(data', c, r) = Found(data, k, s)
    <3>1. Filled(data', c, r) = Filled(data, k, s) /\ Filled(data, k, s) \in {k - 1, k}
      BY <1>11, <1>17, <2>5 DEF Filled
    <3>2. \A i \in 1 .. Filled(data, k, s) : i \in 1 .. c
      BY <1>9, <2>5, <3>1
    <3> QED  BY <1>17, <3>1, <3>2 DEF Found
  <2>8. ContentsInv'
    BY <1>14, <1>19, <2>1 DEF ContentsInv, Copied, Idle
  <2>9. Promise!Become(l, Contents(m))
    BY <1>9, <2>3, <2>4, <2>6, <2>7, SeenElsewhere DEF Promise!Become
  <2>10. Promise!Copy(l, m)
    BY <1>9, <1>21, <2>9 DEF Promise!Copy, Promise!There
  <2> QED  BY <1>3, <2>1, <2>8, <2>10
<1>23. CASE link[from] # NULL
  <2>1. going' = [op |-> "clone", list |-> l, of |-> m, at |-> from, to |-> n] /\ going' # Idle
    <3>1. going' = [op |-> "clone", list |-> l, of |-> m, at |-> from, to |-> n]
      BY <1>5, <1>23 DEF Cloning
    <3> QED  BY <3>1 DEF Idle
  <2>2. c < k
    <3>1. c # k
      BY <1>7, <1>11, <1>17, <1>23 DEF Chain
    <3> QED  BY <1>9, <1>11, <1>17, <3>1
  <2>3. Chain(Held', link', ptr'[m], k, s)
    BY <1>6, <1>7, <1>8, <1>18
  <2>4. from = s[c] /\ n = r[c] /\ \A i \in 1 .. c : data'[r[i]] = data'[s[i]]
    BY <1>11, <1>17
  <2>5. Copied'
    BY <1>6, <1>16, <2>1, <2>2, <2>3, <2>4 DEF Copied
  <2>6. \A o \in List : Copying(o)' <=> o = l
    BY <2>1 DEF Copying
  <2>7. \A o \in List : o # l => AsSequences'[o] = AsSequences[o]
    BY <1>5, <1>18, <1>20, <2>6, Seen
  <2>8. AsSequences'[l] = AsSequences[l]
    BY <1>20, <2>6, Seen
  <2> QED  BY <1>14, <1>19, <2>1, <2>5, <2>7, <2>8, SeenElsewhere DEF ContentsInv
<1> QED  BY <1>22, <1>23

(* Every step keeps what is known of the lists, and is the operation on    *)
(* one sequence that it is named for.                                      *)
LEMMA StepExact ==
    ASSUME HeapInv, ContentsInv, HeapNext
    PROVE  /\ ContentsInv'
           /\ \A l \in List, d \in Data :
                /\ AddToListBeginning(l, d) => Promise!Push(l, d)
                /\ AddToListEnd(l, d) => Promise!Add(l, d)
                /\ DeleteFromListData(l, d) => Promise!Delete(l, d)
           /\ \A l \in List :
                /\ NewList(l) => Promise!New(l)
                /\ DeleteFromListBeginning(l) =>
                       IF link[ptr[l]] = NULL THEN Promise!Destroy(l) ELSE Promise!Pop(l)
                /\ FreeList(l) => Promise!Destroy(l)
           /\ \A l, m \in List : CloneList(l, m) /\ going' = Idle => Promise!Copy(l, m)
           /\ going.op = "clone" /\ going' = Idle => Promise!Copy(going.list, going.of)
           /\ going'.op = "clone" \/ going.op = "free" => UNCHANGED AsSequences
<1>1. ops' = ops
  BY DEF HeapNext
<1>2. ASSUME NEW l \in List, NEW d \in Data
      PROVE  /\ AddToListBeginning(l, d) => ContentsInv' /\ Promise!Push(l, d)
             /\ AddToListEnd(l, d) => ContentsInv' /\ Promise!Add(l, d)
             /\ DeleteFromListData(l, d) => ContentsInv' /\ Promise!Delete(l, d)
             /\ DeleteOnly(l, d) => ContentsInv'
  <2>1. AddToListBeginning(l, d) => ContentsInv' /\ Promise!Push(l, d)
    BY <1>1, PushExact
  <2>2. AddToListEnd(l, d) => ContentsInv' /\ Promise!Add(l, d)
    BY <1>1, FillExact, AddLastExact DEF AddToListEnd
  <2>3. DeleteFromListData(l, d) => ContentsInv' /\ Promise!Delete(l, d)
    BY <1>1, DeleteExact
  <2>4. DeleteOnly(l, d) => ContentsInv'
    BY <1>1, KeptContents DEF DeleteOnly, vars
  <2> QED  BY <2>1, <2>2, <2>3, <2>4
<1>3. ASSUME NEW l \in List
      PROVE  /\ NewList(l) => ContentsInv' /\ Promise!New(l)
             /\ DeleteFromListBeginning(l) =>
                  /\ ContentsInv'
                  /\ IF link[ptr[l]] = NULL THEN Promise!Destroy(l) ELSE Promise!Pop(l)
             /\ FreeList(l) => ContentsInv' /\ Promise!Destroy(l)
  <2>1. NewList(l) => ContentsInv' /\ Promise!New(l)
    BY <1>1, NewListExact
  <2>2. DeleteFromListBeginning(l) =>
          /\ ContentsInv'
          /\ IF link[ptr[l]] = NULL THEN Promise!Destroy(l) ELSE Promise!Pop(l)
    BY <1>1, TakeExact
  <2>3. FreeList(l) => ContentsInv' /\ Promise!Destroy(l)
    BY <1>1, FreeListExact
  <2> QED  BY <2>1, <2>2, <2>3
<1>4. ASSUME NEW l \in List, NEW m \in List, CloneList(l, m)
      PROVE  /\ ContentsInv'
             /\ going' = Idle => Promise!Copy(l, m)
             /\ going' # Idle => AsSequences' = AsSequences
  BY <1>1, <1>4, CloneListExact
<1>5. going.op = "clone" /\ CloneNode =>
        /\ ContentsInv'
        /\ going' = Idle => Promise!Copy(going.list, going.of)
        /\ going' # Idle => AsSequences' = AsSequences
  BY <1>1, CloneNodeExact
<1>6. going.op = "free" /\ FreeNode => ContentsInv' /\ AsSequences' = AsSequences
  BY <1>1, FreeNodeExact
<1>7. End => ContentsInv'
  BY <1>1, KeptContents DEF End, FreeListAlloc
<1>8. ContentsInv'
  BY <1>2, <1>3, <1>4, <1>5, <1>6, <1>7 DEF HeapNext
<1>9. going # Idle => (going.op = "clone" /\ CloneNode) \/ (going.op = "free" /\ FreeNode)
  BY DEF HeapNext, NewList, DeleteFromListBeginning, FreeList, AddToListBeginning, AddToListEnd,
         DeleteFromListData, DeleteOnly, CloneList, End, Using, Ready
<1>10. going.op = "clone" \/ going.op = "free" => going # Idle
  BY DEF Idle
<1>11. going.op = "clone" /\ going' = Idle => Promise!Copy(going.list, going.of)
  BY <1>5, <1>9, <1>10
<1>12. going.op = "free" => AsSequences' = AsSequences
  BY <1>6, <1>9, <1>10
<1>13. going'.op = "clone" => AsSequences' = AsSequences
  <2> SUFFICES ASSUME going'.op = "clone" PROVE AsSequences' = AsSequences
    OBVIOUS
  <2>1. going' # Idle
    BY DEF Idle
  <2>2. CASE going # Idle
    BY <1>5, <1>6, <1>9, <2>1, <2>2
  <2>3. CASE going = Idle
    <3>1. \E l, m \in List : CloneList(l, m)
      BY <2>1, <2>3
         DEF HeapNext, NewList, DeleteFromListBeginning, FreeList, AddToListBeginning,
             AddToListEnd, DeleteFromListData, DeleteOnly, CloneList, End, Idle
    <3> QED  BY <1>4, <2>1, <3>1
  <2> QED  BY <2>2, <2>3
<1> QED  BY <1>2, <1>3, <1>4, <1>8, <1>11, <1>12, <1>13

(* The lists are sequences: whatever an operation does with their nodes    *)
(* and data, and whatever nodes the allocator hands out, it does to one    *)
(* sequence what it is named for, and nothing to any other                 *)
(* (list.c:128-152, 191-207, 226-272, 318-330, 380-385).                   *)
THEOREM OperationsStayExact == HeapSpec => OperationsExact
<1>1. HeapInit => HeapInv /\ ContentsInv
  BY HeapInitInv, InitContents
<1>2. HeapInv /\ ContentsInv /\ [HeapNext]_heapVars => (HeapInv /\ ContentsInv)'
  <2>1. ContentsInv /\ UNCHANGED heapVars => ContentsInv'
    BY KeptContents DEF heapVars, listVars, vars
  <2>2. HeapInv /\ ContentsInv /\ HeapNext => ContentsInv'
    BY StepExact
  <2> QED  BY <2>1, <2>2, HeapNextInv
<1> QED  BY <1>1, <1>2, StepExact, PTL DEF HeapSpec, OperationsExact
=============================================================================
