---------------------------- MODULE ListContents ----------------------------
(* What the lists of HeapList have in them, and that this is what          *)
(* ListPromise says.                                                       *)
EXTENDS HeapList, FiniteSets

(* What is found from the node n on by whoever goes through at most that   *)
(* many nodes, passing over those without data.                            *)
Items(links, values, n, many) ==
    LET read[i \in 0 .. many] ==
          IF i = 0 THEN [at |-> n, found |-> <<>>]
          ELSE LET r == read[i - 1] IN
               IF r.at = NULL THEN r
               ELSE [at |-> links[r.at],
                     found |-> IF values[r.at] = None THEN r.found
                               ELSE Append(r.found, values[r.at])]
    IN  read[many].found

Contents(l) == Items(link, data, ptr[l], Cardinality(Held))

(* A copy is a list from its last node on.                                 *)
Absent == <<None>>
Copying(l) == going.op = "clone" /\ going.list = l
AsSequences == [l \in List |-> IF ptr[l] = NULL \/ Copying(l) THEN Absent ELSE Contents(l)]
Promise == INSTANCE ListPromise WITH contents <- AsSequences

(* The lists are sequences, and every operation is the operation on one of *)
(* them that it is named for: the data it moves between nodes shows in     *)
(* that list only (list.c, the same).                                      *)
OperationsExact ==
    [][/\ \A l \in List, d \in Data :
            /\ AddToListBeginning(l, d) => Promise!Push(l, d)
            /\ AddToListEnd(l, d) => Promise!Add(l, d)
            /\ DeleteFromListData(l, d) => Promise!Delete(l, d)
       /\ \A l \in List :
            /\ NewList(l) => Promise!New(l)
            /\ DeleteFromListBeginning(l) =>
                   IF link[ptr[l]] = NULL THEN Promise!Destroy(l) ELSE Promise!Pop(l)
            /\ FreeList(l) => Promise!Destroy(l)
       /\ \A l, m \in List : CloneList(l, m) /\ going' = Idle => Promise!Copy(l, m)
       /\ going.op = "clone" /\ going' = Idle => Promise!Copy(going.list, going.of)
       /\ going'.op = "clone" \/ going.op = "free" => UNCHANGED AsSequences]_heapVars
=============================================================================
