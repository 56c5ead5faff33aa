------------------------------ MODULE Meaning ------------------------------
(***************************************************************************)
(* What module Compile's programs do in the interpreter (funcdef.c,        *)
(* evaluate.c, builtin.c).  A value is the syntax tree of a number or a    *)
(* function, a list of such, or a truth value.  Keyword arguments and the  *)
(* elements of lists, which are evaluated when they are read, are values   *)
(* or names here.                                                          *)
(*                                                                         *)
(* A state is [scopes, out, ok, val]: the scopes, innermost first; what    *)
(* was written; whether evaluation goes on; and the last value.            *)
(***************************************************************************)
EXTENDS Compile

Truth(b) == [e |-> "t", t |-> b]
falsevalue == Truth(FALSE)

Fail(st) == [st EXCEPT !.ok = FALSE]
Gives(st, v) == [st EXCEPT !.val = v]

(* The name in the innermost scope that has it.                            *)
valueFromName(x, st) ==
    LET has == {i \in DOMAIN st.scopes : x \in DOMAIN st.scopes[i]}
    IN  IF has = {} THEN Fail(st)
        ELSE Gives(st, st.scopes[CHOOSE i \in has : \A j \in has : i <= j][x])

evaluateValueAsBool(v) ==
    CASE v.e = "n" -> v.n # 0
      [] v.e = "t" -> v.t
      [] OTHER -> TRUE

RECURSIVE evaluateValue(_, _)

(* The values of several expressions, from first to last.                  *)
evaluateList(vs, st) ==
    LET One(s, v) ==
            LET r == evaluateValue(v, s)
            IN  IF s.ok THEN Gives(r, Append(s.val, r.val)) ELSE s
    IN  FoldLeft(One, Gives(st, <<>>), vs)

(* What statements return that is not false; an error ends them.           *)
evaluateStatements(body, st) ==
    LET One(s, v) ==
            LET r == evaluateValue(v, s)
            IN  IF ~s.ok THEN s ELSE IF r.val = falsevalue THEN Gives(r, s.val) ELSE r
    IN  FoldLeft(One, Gives(st, falsevalue), body)

(* Comparisons, and the & or | between two of them.                        *)
RECURSIVE Terms(_)
Terms(stack) ==
    IF stack = <<>> THEN <<>>
    ELSE IF Len(stack) = 1 \/ stack[2] \in {"&", "|"}
    THEN << <<stack[1]>> >> \o Terms(SubSeq(stack, 3, Len(stack)))
    ELSE << SubSeq(stack, 1, 3) >> \o Terms(SubSeq(stack, 5, Len(stack)))

evaluateBoolExpr(v, st) ==
    LET terms == Terms(v.stack)
        Of(t) == IF Len(t) = 1 THEN t ELSE <<t[1], t[3]>>
        all == evaluateList(FlattenSeq([i \in DOMAIN terms |-> Of(terms[i])]), st)
        Holds(t, vs) ==
            IF Len(t) = 1 THEN evaluateValueAsBool(vs[1])
            ELSE CASE t[2] = "=" -> vs[1] = vs[2]
                   [] t[2] = "<" -> vs[1].n < vs[2].n
                   [] t[2] = ">" -> vs[1].n > vs[2].n
        first == Holds(terms[1], all.val)
        other == Holds(terms[2], SubSeq(all.val, Len(Of(terms[1])) + 1, Len(all.val)))
        joined == IF Len(terms) = 1 THEN first
                  ELSE IF "&" \in {v.stack[i] : i \in {2, 4} \cap DOMAIN v.stack} THEN first /\ other
                  ELSE first \/ other
    IN  IF all.ok THEN Gives(all, Truth(joined # v.neg)) ELSE all

(* set: in the innermost scope.                                            *)
Insert(st, x, v) == [st EXCEPT !.scopes[1] = (x :> v) @@ @]

setDef(v, st) ==
    LET r == evaluateValue(v.v, st)
    IN  IF r.ok THEN Insert(r, v.x, r.val) ELSE r

RECURSIVE ifDef(_, _)
ifDef(args, st) ==
    LET be == evaluateValue(args[1], st)
    IN  CASE args = <<>> -> Gives(st, falsevalue)
          [] Len(args) = 1 -> evaluateStatements(args[1].body, st)
          [] OTHER -> IF ~be.ok THEN be
                      ELSE IF be.val.t THEN evaluateStatements(args[2].body, be)
                      ELSE ifDef(SubSeq(args, 3, Len(args)), be)

(* for with a condition.  `last' is what the statements returned.          *)
RECURSIVE While(_, _, _)
While(v, last, st) ==
    LET be == evaluateValue(v.args[1], st)
        r == evaluateStatements(v.args[2].body, be)
    IN  IF ~be.ok THEN be
        ELSE IF ~be.val.t THEN Gives(be, last)
        ELSE IF r.ok THEN While(v, r.val, r) ELSE r

(* for over a list.  The condition is looked at after each turn.  An error *)
(* in the statements counts in the last turn only.                         *)
RECURSIVE Turns(_, _, _)
Turns(v, items, st) ==
    LET r == evaluateStatements(Last(v.args).body, Insert([st EXCEPT !.ok = TRUE], v.kws[1].x, items[1]))
        be == evaluateValue(v.args[1], [r EXCEPT !.ok = TRUE])
        after == [be EXCEPT !.ok = @ /\ r.ok, !.val = r.val]
    IN  IF items = <<>> THEN st
        ELSE IF Len(v.args) = 1 THEN Turns(v, Tail(items), r)
        ELSE IF be.ok /\ be.val.t THEN Turns(v, Tail(items), after) ELSE after

forDef(v, st) ==
    LET u == evaluateValue(v.kws[1].v, st)
    IN  IF v.kws = <<>> THEN While(v, falsevalue, st)
        ELSE IF ~u.ok \/ (u.val = List(<<>>) /\ Len(v.args) = 2) THEN Fail(u)
        ELSE IF u.val.e # "l" THEN Gives(u, falsevalue)
        ELSE Turns(v, u.val.items, Gives(u, falsevalue))

addDef(args, st) ==
    LET r == evaluateList(args, st)
    IN  IF ~r.ok THEN r
        ELSE IF \E i \in DOMAIN r.val : r.val[i].e # "n" THEN Fail(r)
        ELSE Gives(r, Num(FoldLeft(LAMBDA n, v : n + v.n, 0, r.val)))

(* To the stream that is the first argument.                               *)
writeDef(args, st) ==
    LET r == evaluateList(Tail(args), st)
    IN  IF r.ok THEN [r EXCEPT !.out = @ \o r.val, !.val = falsevalue] ELSE r

(* scope: arguments are for the names the call's keywords do not give, the *)
(* keywords' names last, and not reached if the last name before them is   *)
(* given.  Without a name left an argument is not evaluated.  Keywords are *)
(* looked at only if the function has some.                                *)
Bindings(kws) == [x \in {kws[i].x : i \in DOMAIN kws} |->
                    kws[CHOOSE i \in DOMAIN kws : kws[i].x = x].v]

scope(fn, call, st) ==
    LET given == DOMAIN Bindings(call.kws)
        names == IF fn.params # <<>> /\ Last(fn.params) \in given THEN fn.params
                 ELSE fn.params \o [i \in DOMAIN fn.kws |-> fn.kws[i].x]
        free == SelectSeq(names, LAMBDA x : x \notin given)
        most == Len(free) + (IF names # <<>> /\ Last(names) \in given THEN 1 ELSE 0)
        r == evaluateList(SubSeq(call.args, 1, Min({most, Len(call.args)})), st)
        bound == 1 .. Min({Len(free), Len(r.val)})
        args == [x \in {free[i] : i \in bound} |->
                    r.val[CHOOSE i \in bound : free[i] = x]]
        kws == IF fn.kws = <<>> THEN <<>> ELSE Bindings(call.kws) @@ Bindings(fn.kws)
    IN  [r EXCEPT !.scopes = <<args @@ kws>> \o @]

(* A scope is taken off again after a value only.                          *)
evaluateFuncVal(v, st) ==
    LET f == evaluateValue(v.f, st)
        called == scope(st.fns[f.val.id], v, f)
        r == evaluateStatements(st.fns[f.val.id].body, called)
    IN  CASE v.f.e = "builtin" -> IF v.f.name = "add" THEN addDef(v.args, st) ELSE writeDef(v.args, st)
          [] ~f.ok -> f
          [] f.val.e # "a" -> Fail(f)
          [] OTHER -> IF ~called.ok THEN called
                      ELSE IF r.ok THEN [r EXCEPT !.scopes = Tail(@)] ELSE r

(* What a name is bound to may be a name.                                  *)
evaluateValue(v, st) ==
    CASE v.e = "v" -> LET r == valueFromName(v.x, st) IN IF r.ok THEN evaluateValue(r.val, r) ELSE r
      [] v.e = "c" -> evaluateFuncVal(v, st)
      [] v.e = "b" -> evaluateBoolExpr(v, st)
      [] v.e = "set" -> setDef(v, st)
      [] v.e = "if" -> ifDef(v.args, st)
      [] v.e = "for" -> forDef(v, st)
      [] OTHER -> Gives(st, v)

Meaning(p) ==
    evaluateStatements(p.main, [fns |-> p.fns, scopes |-> << <<>> >>, out |-> <<>>, ok |-> TRUE,
                                val |-> falsevalue])
=============================================================================
