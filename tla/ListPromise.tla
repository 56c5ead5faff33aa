----------------------------- MODULE ListPromise ----------------------------
(* What the lists of src/src/list.c are to their users: sequences of data, *)
(* each list apart from the others.                                        *)
EXTENDS Sequences, SequencesExt

CONSTANTS List, Data, Absent   \* Absent is no sequence

VARIABLE contents   \* contents[l]: the data in l, or Absent

Init == contents = [l \in List |-> Absent]

There(l) == contents[l] # Absent
Become(l, s) == contents' = [contents EXCEPT ![l] = s]

New(l) == ~There(l) /\ Become(l, <<>>)
Copy(l, m) == ~There(l) /\ There(m) /\ Become(l, contents[m])
Push(l, d) == There(l) /\ Become(l, <<d>> \o contents[l])
Add(l, d) == There(l) /\ Become(l, Append(contents[l], d))
Pop(l) == There(l) /\ contents[l] # <<>> /\ Become(l, Tail(contents[l]))
Delete(l, d) ==
    /\ There(l)
    /\ \E i \in DOMAIN contents[l] :
         /\ contents[l][i] = d /\ \A j \in 1 .. i - 1 : contents[l][j] # d
         /\ Become(l, RemoveAt(contents[l], i))
Destroy(l) == There(l) /\ Become(l, Absent)

Next == \E l \in List : \/ New(l) \/ Pop(l) \/ Destroy(l)
                        \/ \E m \in List : Copy(l, m)
                        \/ \E d \in Data : Push(l, d) \/ Add(l, d) \/ Delete(l, d)

Spec == Init /\ [][Next]_contents
=============================================================================
