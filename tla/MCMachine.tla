---------------------------- MODULE MCMachine ----------------------------
(***************************************************************************)
(* Programs for module Machine.                                            *)
(***************************************************************************)
EXTENDS Machine

X == Var("x")
Y == Var("y")
K == Var("k")
F == Var("f")
G == Var("g")
H == Var("h")
Stdout == Num(0)
One == Num(1)
Kw(x, v) == [x |-> x, v |-> v]
Fn(params, kws, body) == [params |-> params, kws |-> kws, body |-> body]
Do1(f, v) == Call(f, <<v>>, <<>>)
Write(v) == Call(Builtin("write"), <<Stdout, v>>, <<>>)
Add(v, w) == Call(Builtin("add"), <<v, w>>, <<>>)
Is(v, op, w) == Bool(<<v, op, w>>, FALSE)
While1(x, limit, body) ==
    For(<<Is(x, "<", limit), Block(Append(body, Set(x.x, Add(x, One))))>>, <<>>)
Over(x, list, body) == For(<<Block(body)>>, <<Kw(x, list)>>)

(* f takes an argument, g a keyword, h both; all of them set a name of     *)
(* theirs, and f the name g reads.                                         *)
Functions == <<
    Fn(<<"x">>, <<>>, <<Set("x", Add(X, One)), Do1(G, X)>>),
    Fn(<<>>, <<Kw("k", Num(5))>>, <<Set("k", Add(K, X)), Add(K, One)>>),
    Fn(<<"y">>, <<Kw("k", Num(7))>>, <<Set("y", Add(Y, K)), Add(Y, X)>>) >>
Before == <<Set("f", Function(1)), Set("g", Function(2)), Set("h", Function(3)),
            Set("x", Num(3)), Set("y", Num(4)), Set("k", Num(6))>>
After == <<Write(Y), Write(K)>>

Simple == {Num(2), X, Add(X, One)}
Calls(args) ==
    {Call(G, <<>>, <<>>)} \cup {Do1(F, v) : v \in args} \cup {Do1(G, v) : v \in args}
      \cup {Do1(H, v) : v \in args}
      \cup {Call(G, <<>>, <<Kw("k", v)>>) : v \in args}
      \cup {Call(H, <<v, w>>, <<>>) : v \in args, w \in {One, X}}
WithKeyword == {Call(H, <<v>>, <<Kw("k", One)>>) : v \in Simple}
Values == Simple \cup Calls(Simple) \cup WithKeyword

Calling == {[main |-> Before \o <<Write(v)>> \o After, fns |-> Functions] :
                v \in Calls(Values) \cup WithKeyword \cup {Add(u, w) : u, w \in Values}}

(* Conditions, loops, recursion.                                           *)
Conditions ==
    {Bool(<<X>>, neg) : neg \in {FALSE}}
      \cup {Bool(<<X, op, One>>, neg) : op \in {"<", "=", ">"}, neg \in BOOLEAN}
      \cup {Bool(<<X, op, One, join, Y, "=", Num(2)>>, neg) :
               op \in {"<", ">"}, join \in {"&", "|"}, neg \in BOOLEAN}
      \cup {Bool(<<X, join, Y>>, FALSE) : join \in {"&", "|"}}
      \cup {Bool(<<X, join, Y, "<", One>>, FALSE) : join \in {"&", "|"}}

W(n) == Block(<<Write(Num(n))>>)
Ifs == {<<c, W(1)>> : c \in Conditions} \cup {<<c, W(1), W(2)>> : c \in Conditions}
         \cup {<<Is(X, "=", One), W(1), Is(Y, "=", One), W(2)>>,
               <<Is(X, "=", One), W(1), Is(Y, "=", One), W(2), W(3)>>,
               <<Is(X, "=", One), W(1), Is(Y, "=", One), W(2), Is(X, "=", Y), W(3), W(4)>>}
Branching ==
    {[main |-> <<Set("x", Num(m)), Set("y", Num(n)), If(i), Write(X)>>, fns |-> <<>>] :
        m, n \in 0 .. 2, i \in Ifs}

Loops == {
    <<Set("x", Num(0)), While1(X, Num(3), <<Write(X)>>)>>,
    <<Set("x", Num(0)), While1(X, Num(3), <<Set("y", X), While1(Y, Num(2), <<Write(Y)>>)>>)>>,
    <<Over("x", List(<<>>), <<Write(X)>>)>>,
    <<Over("x", List(<<One, Num(4)>>), <<Write(X)>>), Write(Num(9))>>,
    <<Over("x", List(<<One, Num(4)>>), <<Set("y", X)>>)>>,
    <<Set("y", List(<<One, Num(4)>>)), Over("x", Y, <<Over("k", Y, <<Write(Add(X, K))>>)>>)>>,
    <<Over("x", List(<<One, Num(4)>>), <<If(<<Is(X, "=", One),
             Block(<<Over("y", List(<<X, Num(2)>>), <<Write(Y)>>)>>), W(8)>>)>>)>>}
Looping == {[main |-> main, fns |-> <<>>] : main \in Loops}

(* f calls itself; g calls it for each element of a list.                  *)
Recursive == <<
    Fn(<<"x">>, <<>>, <<If(<<Is(X, ">", Num(0)), Block(<<Do1(F, Add(X, Num(-1))), Write(X)>>)>>), Add(X, One)>>),
    Fn(<<"y">>, <<>>, <<Over("k", List(<<Y, Add(Y, Y)>>), <<Write(Do1(F, K))>>), Add(Y, Y)>>),
    Fn(<<>>, <<>>, <<Set("h", Function(2))>>),
    Fn(<<"y">>, <<>>, <<Write(One)>>) >>
Recursing ==
    {[main |-> <<Set("f", Function(1)), Set("g", Function(2)), s>>, fns |-> Recursive] :
        s \in {Write(Do1(F, Num(2))), Write(Do1(G, One)), Do1(G, Do1(F, One)),
               Do1(Function(4), Function(1)),
               Write(Do1(Function(2), One)),
               Write(Do1(Call(Function(3), <<>>, <<>>), One))}}

(* Programs that fail.                                                     *)
Failing ==
    {[main |-> <<Write(One), s, Write(Num(2))>>, fns |-> Recursive] :
        s \in {Do1(F, One), Add(X, One), If(<<Bool(<<X>>, FALSE), W(1)>>),
               Over("x", Y, <<Write(X)>>), Do1(Function(1), One)}}

MCPrograms ==
    {Compiled(p) : p \in Calling \cup Branching \cup Looping \cup Recursing \cup Failing}
MCNames == {"f", "g", "h", "x", "y", "k"}

-----------------------------------------------------------------------------
(* Programs that do something else when compiled.                          *)

Only(main, fns) == {Compiled([main |-> main, fns |-> fns])}
XY == <<Set("x", One), Set("y", Num(2))>>
Hk == Fn(<<"x">>, <<Kw("k", Num(7))>>, <<Add(X, K)>>)
Gk == Fn(<<>>, <<Kw("k", Num(5))>>, <<Add(K, One)>>)
HG == <<Set("h", Function(1)), Set("g", Function(2))>>

\* After a call of a function with two arguments their names are exchanged.
TwoParameters ==
    Only(XY \o <<Do1(Function(1), One), Write(X)>>, <<Fn(<<"x", "y">>, <<>>, <<Write(X)>>)>>)
TwoKeywords ==
    Only(XY \o <<Call(Function(1), <<>>, <<>>), Write(X)>>,
         <<Fn(<<>>, <<Kw("x", Num(3)), Kw("y", Num(4))>>, <<Write(X)>>)>>)
\* The call that is an argument takes the flag of the call it is for.
FlagTakenEarly ==
    Only(HG \o <<Write(Call(H, <<Call(G, <<>>, <<>>)>>, <<Kw("k", One)>>))>>, <<Hk, Gk>>)
\* A keyword no parameter has: its flag stays, and the next one takes it away.
StrayKeyword ==
    Only(HG \o <<Call(G, <<>>, <<Kw("x", One)>>), Write(Do1(H, Num(2)))>>, <<Hk, Gk>>)
\* A keyword for the first parameter: the second takes the second argument.
KeywordForParameter ==
    Only(<<Write(Call(Function(1), <<Num(3)>>, <<Kw("x", One)>>))>>,
         <<Fn(<<"x", "y">>, <<Kw("k", Num(7))>>, <<Add(X, Y)>>)>>)
\* A keyword that is given is set again by an argument left over.
SurplusOverKeyword == Only(HG \o <<Write(Call(H, <<One, Num(2)>>, <<Kw("k", Num(3))>>))>>, <<Hk, Gk>>)
\* Without arguments the parameters are what lies below on the stack.
TooFewArguments ==
    Only(<<Write(Add(Call(Function(1), <<>>, <<>>), One))>>, <<Fn(<<"x", "y">>, <<>>, <<Add(Y, Y)>>)>>)
\* The condition of a for over a list fails: the next node is in the name.
LoopLeftEarly ==
    Only(<<For(<<Is(X, "<", One), W(1)>>, <<Kw("x", List(<<Num(0), Num(2), Num(3)>>))>>), Write(One)>>, <<>>)
LoopNameAfter == Only(<<Set("x", One), Over("x", List(<<Num(2)>>), <<>>), Write(X)>>, <<>>)
\* ! of what is not a comparison inverts one bit.
NotOfNumber == Only(<<Set("x", Num(2)), Write(Bool(<<X>>, TRUE))>>, <<>>)
NegativeNumbers == Only(<<Write(Is(Num(-1), "<", Num(-2)))>>, <<>>)
\* What is passed for a function are the first bytes of its code.
FunctionAsArgument ==
    Only(<<Do1(Function(1), Function(2))>>, <<Fn(<<"f">>, <<>>, <<Do1(F, One)>>), Fn(<<>>, <<>>, <<Write(One)>>)>>)
\* Arguments are evaluated from last to first.
LastArgumentFirst ==
    Only(<<Add(Do1(Function(1), One), Do1(Function(1), Num(2)))>>,
         <<Fn(<<"x">>, <<>>, <<Write(X), Add(X, X)>>)>>)
\* A name a function sets is not its own.
SetInFunction ==
    Only(<<Set("x", One), Call(Function(1), <<>>, <<>>), Write(X)>>, <<Fn(<<>>, <<>>, <<Set("x", Num(2))>>)>>)
\* The elements of a list are evaluated when it is made, not when they are read.
ListOfCalls ==
    Only(<<Over("k", List(<<One, Do1(Function(1), One)>>), <<Write(K)>>)>>,
         <<Fn(<<"x">>, <<>>, <<Write(Num(9)), Add(X, X)>>)>>)
\* A function's value is that of its last statement, also if that is false.
LastStatementWrites ==
    Only(<<Write(Do1(Function(1), One))>>, <<Fn(<<"x">>, <<>>, <<Add(X, X), Write(X)>>)>>)
=============================================================================
