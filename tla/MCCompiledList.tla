--------------------------- MODULE MCCompiledList ---------------------------
(* Programs for CompiledList.  The ranges that _list_next goes through as  *)
(* documented: up to a positive end, or down to a negative one.  A range   *)
(* is the first element of its list: the grammar makes no others           *)
(* (fffll.y:311-315).                                                      *)
EXTENDS ListElements

Program(a, b, rs) == [a |-> a, b |-> b, ranges |-> rs]

\* [0..2, 5] and [2..-1]
Mixed == Program(<<Rng(1), Num(5)>>, <<Rng(2)>>, <<Range_(0, 0, 2), Range_(2, 0, -1)>>)

\* [3..-4..-6, 8] and [1..3..8]
Steps == Program(<<Rng(1), Num(8)>>, <<Rng(2)>>, <<Range_(3, -4, -6), Range_(1, 3, 8)>>)

\* [-3..2..2, 5] and [4..5]
Crossing ==
    Program(<<Rng(1), Num(5)>>, <<Rng(2)>>, <<Range_(-3, 2, 2), Range_(4, 0, 5)>>)

\* [0..2..3, 1, 4] and []
Empty == Program(<<Rng(1), Num(1), Num(4)>>, <<>>, <<Range_(0, 2, 3)>>)

UsualPrograms == {Mixed, Steps, Crossing, Empty}

Descending == {Program(<<Rng(1), Num(5)>>, <<>>, <<Range_(4, 0, 1)>>)}
Negative == {Program(<<Rng(1), Num(5)>>, <<>>, <<Range_(-4, 1, -1)>>)}

-----------------------------------------------------------------------------
(* What the documentation says, and the code does not do.                  *)

(* "Each value in the range is assigned its own number key" (README.md:65):*)
(* what a loop adds to a list is the number it passes.                     *)
NumbersPushed ==
    [][\A l \in DOMAIN lists :
        push(l) /\ loops # <<>> /\ Top.passed # <<>> =>
            Last(Elements(lists[l])') \in {7, Last(Top.passed)}]_vars

(* tail makes a list of its own (builtin.c:717-726, for the interpreter):  *)
(* adding to one list adds to no other.                                    *)
TailsApart ==
    [][\A l, m \in DOMAIN lists :
        push(l) /\ m # l => Elements(lists[m])' = Elements(lists[m])]_vars
=============================================================================
