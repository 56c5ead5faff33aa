----------------------------- MODULE MCBoolExpr -----------------------------
(* Instances of BoolExpr: which expressions the program has.               *)
EXTENDS BoolExpr

AnyValue == {Num(0), Num(1), Num(3), Str(1, 0), Str(2, 3),
             Lst(0, {"k"}), Lst(1, {"k", "m"}), Lst(3, {"k"})}
MCValues == [x |-> {Num(0), Num(1)}, y |-> AnyValue]
MCInputs == <<0, 1>>
MCMatching == {Num(1), Str(2, 3)}

Compared(l, op, r) == [l |-> l, op |-> op, r |-> r]
Alone(l) == Compared(l, "none", l)

One(t) == {[neg |-> b, terms |-> <<t>>, joins |-> <<>>] : b \in BOOLEAN}
Two(t, u) ==
    {[neg |-> b, terms |-> <<t, u>>, joins |-> <<j>>] : b \in BOOLEAN, j \in {"and", "or"}}
(* What the code does as specified: numbers and names set to numbers in    *)
(* any comparison, strings in ~, values of any type in = with numbers and  *)
(* strings, unless they count the same, anything with a type in ?, and a   *)
(* call as a left operand only.                                            *)
Numbers == {Lit(Num(0)), Lit(Num(1)), Lit(Num(2)), Var("x")}
PlainTerms ==
    {Compared(l, op, r) : l \in Numbers \cup {Call}, op \in {"<", "=", ">"}, r \in {Lit(Num(1)), Var("x")}}
    \cup {Alone(Call), Alone(Var("x")), Alone(Lit(Num(0)))}
    \cup {Compared(Var("y"), "?", u) : u \in {Var("x"), Lit(Str(1, 0)), Lit(Lst(1, {"k"}))}}
    \cup {Compared(Var("y"), "=", Lit(v)) : v \in {Num(1), Num(3), Str(1, 0), Str(2, 3)}}
    \cup {Compared(Var("y"), "~", Regex)}
JoinedTerms ==
    {Compared(Call, "=", Var("x")), Alone(Call), Compared(Var("x"), "<", Lit(Num(1))),
     Compared(Var("y"), "=", Lit(Str(2, 3))), Compared(Var("y"), "~", Regex)}
PlainExprs ==
    UNION {One(t) : t \in PlainTerms} \cup UNION {Two(t, u) : t, u \in JoinedTerms}

NestedExprs == One(Alone(Nested(Compared(Lit(Num(2)), "=", Lit(Num(1))))))
OrderExprs == One(Compared(Lit(Str(1, 1)), "<", Lit(Str(2, 3))))
TypeExprs == One(Compared(Var("y"), "?", Lit(Lst(2, {}))))
CallExprs == One(Compared(Lit(Num(1)), "=", Call))
ListExprs == One(Compared(Var("y"), "=", Lit(Lst(0, {"m"}))))

-----------------------------------------------------------------------------
(* "the expression inside of the ( and ) will be evaluated" (README.md:79),*)
(* an expression that is an operand of another one, too.                   *)
NestedEvaluated == AsSpecified

(* "=, < and > are the equality, less than and greater than operators"     *)
(* (README.md:83): < on two strings is decided by the strings.             *)
StringsOrdered == AsSpecified

(* "? ... will evaluate to true if both values have the same type"         *)
(* (README.md:85), for lists without named keys too.                       *)
ListTypesCompared == AsSpecified

(* "Each function call in a program will be executed in the order in which *)
(* it appears" (README.md:103): once for each evaluation.                  *)
CallsMadeOnce ==
    \A e \in Exprs :
        ~Unknown(e) => evaluateBoolExpr(e).pos = FoldLeft(LAMBDA p, t : After(t, p), pos, e.terms)
=============================================================================
