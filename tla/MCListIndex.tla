----------------------------- MODULE MCListIndex -----------------------------
(* A list that begins with a range and ends with another list, which has a *)
(* named key back to the first.                                            *)
EXTENDS ListIndex

NoKeys == [k \in {} |-> NotSet]
Globals == [a |-> Ref(1), i |-> Num(3), _c |-> NotSet]

\* set(a [0..2..5, 7, [k: a, 8]])
Nested ==
    [lists |-> << List(<<Range_(0, 2, 5), Num(7), Ref(2)>>, NoKeys),
                  List(<<Num(8)>>, [k |-> Ref(1)]) >>,
     globals |-> Globals]

\* set(a [5..2, [3, 4]])
Downward ==
    [lists |-> << List(<<Range_(5, -2, 2), Ref(2)>>, NoKeys), List(<<Num(3), Num(4)>>, NoKeys) >>,
     globals |-> Globals]

UsualPrograms == {Nested, Downward}

\* set(a [0..3, 7])
ExactRange == {[lists |-> << List(<<Range_(0, 0, 3), Num(7)>>, NoKeys) >>, globals |-> Globals]}

\* set(a [0..2..5, [7..2..10]])
TwoRanges ==
    {[lists |-> << List(<<Range_(0, 2, 5), Ref(2)>>, NoKeys), List(<<Range_(7, 2, 10)>>, NoKeys) >>,
      globals |-> Globals]}

\* set(a [k: [3], 5]), and set(a [])
Keyed ==
    {[lists |-> << List(<<Num(5)>>, [k |-> Ref(2)]), List(<<Num(3)>>, NoKeys) >>, globals |-> Globals]}
Empty == {[lists |-> << [List(<<>>, NoKeys) EXCEPT !.made = FALSE] >>, globals |-> Globals]}

MCName == {"a", "i", "_c"}
MCConstant == {"_c"}
MCValue == {Num(1), Str("k")}
Index == {At(0), At(1), At(3), At(4), Named("k"), Of("i")}
MCPath == {<<>>} \cup [1 .. 1 -> Index]
    \cup {<<i, j>> : i \in {At(1), At(4), Of("i")}, j \in {At(0), At(3), Named("k")}}
=============================================================================
