------------------------------ MODULE BoolExpr ------------------------------
(***************************************************************************)
(* Boolean expressions in the interpreter: what evaluateBoolExpr of        *)
(* src/src/typecast.c makes of the stack the parser built, as names are    *)
(* set, strings are shared and calls return other values between two       *)
(* evaluations, and what README.md says they mean.                         *)
(*                                                                         *)
(* An expression is [neg, terms, joins]: one comparison, or two and the    *)
(* `and' or `or' between them (fffll.y:439-456): the grammar does not take *)
(* the longer chains of README.md:89.  A comparison is [l, op, r]; op is   *)
(* "none" for a value alone.  Numbers are small integers, for which the    *)
(* comparisons' EPSILON makes no difference.                               *)
(***************************************************************************)
EXTENDS Integers, FiniteSets, Sequences, SequencesExt

CONSTANTS
    Exprs,      \* the expressions of the program
    Vars,       \* names
    Values,     \* the values each name may be set to
    Inputs,     \* what the program's calls return, in order, once around
    Matching,   \* the values whose text the regular expression matches
    MaxRefs,    \* bound on the references to a String
    Odd         \* comparisons for which README.md is not followed

ASSUME InputsGiven == Inputs \in Seq(Int) /\ Inputs # <<>>

VARIABLES
    env,     \* what each name is set to, or Unset
    refs,    \* reference count of each interned String, by text
    pos,     \* calls made so far, modulo Len(Inputs)
    result   \* of the last evaluation

vars == <<env, refs, pos, result>>

Unset == [type |-> "unset"]
Num(n) == [type |-> "n", n |-> n]
Str(text, len) == [type |-> "s", text |-> text, len |-> len]
(* A list of n values without and `keys' with names; data is NULL in [].   *)
Lst(n, keys) == [type |-> "l", n |-> n, keys |-> keys]

Lit(v) == [kind |-> "lit", v |-> v]
Var(x) == [kind |-> "var", x |-> x]
Call == [kind |-> "call"]
Nested(t) == [kind |-> "bool", term |-> t]
Regex == [kind |-> "rgx"]

Texts == {v.text : v \in {u \in UNION {Values[x] : x \in Vars} : u.type = "s"}}

-----------------------------------------------------------------------------
(* The code.                                                               *)

(* lasteval of an expression from newBoolExpr on: an expression inside     *)
(* another one is never evaluated, only looked at (typecast.c:89, 281).    *)
LastEval == -1

(* evaluateValue: the value, and the calls made.                           *)
Fetch(u, p) ==
    CASE u.kind = "lit" -> [v |-> u.v, pos |-> p]
      [] u.kind = "var" -> [v |-> env[u.x], pos |-> p]
      [] u.kind = "call" -> [v |-> Num(Inputs[p + 1]), pos |-> (p + 1) % Len(Inputs)]
      [] u.kind = "rgx" -> [v |-> [type |-> "x"], pos |-> p]
      [] u.kind = "bool" -> [v |-> [type |-> "b"], pos |-> p]

(* A list's count is taken from the tree of its named keys, also if it has *)
(* none.                                                                   *)
Crashing(v) == v.type = "l" /\ v.keys = {} /\ v.n > 0

(* What the code takes for a truth value: of a list its length, and the   *)
(* height of the tree of its named keys, which is one less than their      *)
(* number as long as they are two at most.                                 *)
evaluateValueAsBool(v) ==
    CASE v.type = "n" -> v.n
      [] v.type = "s" -> v.len
      [] v.type = "l" -> IF v.keys = {} THEN 0 ELSE v.n + Cardinality(v.keys) - 1
      [] v.type = "b" -> LastEval
      [] OTHER -> 1

(* < and > on strings read the two Strings, not their texts, byte by byte: *)
(* the reference counts come first (typecast.c:43, 83, 174-182).           *)
Compare(w, op, v, j, k) ==
    IF w.type = "s" /\ v.type = "s" THEN
        CASE op = "=" -> w.text = v.text
          [] op = "<" -> refs[w.text] < refs[v.text]
          [] op = ">" -> refs[w.text] > refs[v.text]
    ELSE CASE op = "=" -> j = k
           [] op = "<" -> j < k
           [] op = ">" -> j > k

(* ? : the same type, and for lists all names of the second in the first.  *)
SameType(w, v) ==
    w.type = v.type /\ (v.type = "l" => v.keys \subseteq w.keys)

(* One turn of the loop over the stack.  st.end is "" as long as it goes   *)
(* on, "null" when NULL was returned, "crash" when a NULL was followed.    *)
(* A nested expression leaves w NULL on the left, and leaves v what it was *)
(* on the right.                                                           *)
Term(st, t) ==
    LET left == Fetch(t.l, st.pos)
        w == left.v
        right == Fetch(t.r, left.pos)
        v == IF t.r.kind = "bool" THEN w ELSE right.v
        again == IF t.r.kind = "call" THEN Fetch(t.r, right.pos) ELSE right
        noW == t.l.kind = "bool"
        Out(b, p) == [st EXCEPT !.pos = p, !.out = Append(@, b)]
    IN  IF st.end # "" THEN st
        ELSE IF w = Unset THEN [st EXCEPT !.end = "null"]
        ELSE IF Crashing(w) THEN [st EXCEPT !.end = "crash"]
        ELSE IF t.op = "none" THEN Out(evaluateValueAsBool(w) # 0, left.pos)
        ELSE IF right.v = Unset THEN [st EXCEPT !.end = "null"]
        ELSE IF Crashing(right.v) THEN [st EXCEPT !.end = "crash"]
        ELSE IF t.op = "~" THEN Out(~noW /\ w \in Matching, again.pos)
        ELSE IF t.op = "?" THEN
            IF ~noW /\ w.type = "l" /\ v.type = "l" /\ (w.keys = {} \/ v.keys = {})
            THEN [st EXCEPT !.end = "crash"]
            ELSE Out(~noW /\ SameType(w, v), again.pos)
        ELSE Out(Compare(w, t.op, right.v, evaluateValueAsBool(w), evaluateValueAsBool(again.v)), again.pos)

(* The results are joined from left to right.                              *)
Join(acc, join, b) == IF join = "and" THEN acc /\ b ELSE acc \/ b

\* Bug: the second result only is used.
ReduceLast(out, joins) == out[Len(out)]

Reduce(out, joins) ==
    IF Len(out) = 1 THEN out[1] ELSE Join(out[1], joins[1], out[2])

evaluateBoolExpr(e) ==
    LET st == FoldLeft(Term, [pos |-> pos, out |-> <<>>, end |-> ""], e.terms)
    IN  [pos |-> st.pos,
         result |-> IF st.end # "" THEN st.end
                    ELSE IF Reduce(st.out, e.joins) # e.neg THEN "true" ELSE "false"]

-----------------------------------------------------------------------------
Init ==
    /\ env = [x \in Vars |-> Unset]
    /\ refs = [t \in Texts |-> 1]
    /\ pos = 0
    /\ result = "none"

Set(x, v) ==
    /\ env' = [env EXCEPT ![x] = v]
    /\ UNCHANGED <<refs, pos, result>>

(* The text is used somewhere else in the program, or no longer.           *)
Share(t) ==
    /\ refs' \in {[refs EXCEPT ![t] = @ + 1], [refs EXCEPT ![t] = @ - 1]}
    /\ refs'[t] \in 1 .. MaxRefs
    /\ UNCHANGED <<env, pos, result>>

Evaluate(e) ==
    /\ result # "crash"
    /\ LET r == evaluateBoolExpr(e)
       IN  pos' = r.pos /\ result' = r.result
    /\ UNCHANGED <<env, refs>>

Next ==
    \/ \E x \in Vars : \E v \in Values[x] : Set(x, v)
    \/ \E t \in Texts : Share(t)
    \/ \E e \in Exprs : Evaluate(e)

Spec == Init /\ [][Next]_vars

-----------------------------------------------------------------------------
(* What README.md:79-89 says.  Values are compared by what they are: texts *)
(* in their order, a nested expression by its result.                      *)

RECURSIVE Holds(_, _)
Value(u, p) ==
    IF u.kind = "bool" THEN Num(IF Holds(u.term, p) THEN 1 ELSE 0) ELSE Fetch(u, p).v

True(v) == IF v.type = "s" THEN v.len # 0 ELSE v.n # 0

Less(w, v) == IF w.type = "s" THEN w.text < v.text ELSE w.n < v.n

Holds(t, p) ==
    LET w == Value(t.l, p)
        v == Value(t.r, Fetch(t.l, p).pos)
    IN  CASE t.op = "none" -> True(w)
          [] t.op = "=" -> w = v
          [] t.op = "<" -> Less(w, v)
          [] t.op = ">" -> Less(v, w)
          [] t.op = "?" -> (w.type = v.type /\ (w.type = "l" => v.keys \subseteq w.keys))
          [] t.op = "~" -> w \in Matching

Operands(e) == {t.l : t \in ToSet(e.terms)}
                 \cup {t.r : t \in {s \in ToSet(e.terms) : s.op # "none"}}

Unknown(e) == \E u \in Operands(e) : u.kind = "var" /\ env[u.x] = Unset

After(t, p) ==
    LET q == Fetch(t.l, p).pos IN IF t.op = "none" THEN q ELSE Fetch(t.r, q).pos

Meaning(e) ==
    IF Unknown(e) THEN "null"
    ELSE LET first == Holds(e.terms[1], pos)
             all == IF Len(e.terms) = 1 THEN first
                    ELSE LET second == Holds(e.terms[2], After(e.terms[1], pos))
                         IN  IF e.joins[1] = "and" THEN first /\ second ELSE first \/ second
         IN  IF all # e.neg THEN "true" ELSE "false"

(* `=' on values that are not both numbers or both strings compares what   *)
(* they count: a number itself, a string its characters, a list what is in *)
(* it (typecast.c:184-218, 267-289).  Where two different ones count the   *)
(* same, as 3 and "abc" do, they are equal to the code.                    *)
CountTheSame(t, p) ==
    LET w == Value(t.l, p)
        v == Value(t.r, Fetch(t.l, p).pos)
    IN  /\ t.op = "=" /\ w # v /\ ~(w.type = "s" /\ v.type = "s")
        /\ evaluateValueAsBool(w) = evaluateValueAsBool(v)

Habits(e) ==
    IF ~Unknown(e)
       /\ (\/ CountTheSame(e.terms[1], pos)
           \/ Len(e.terms) = 2 /\ CountTheSame(e.terms[2], After(e.terms[1], pos)))
    THEN {"same count"} ELSE {}

(* A boolean expression evaluates to what README.md says, whatever was set *)
(* or shared before: it is looked at with the values its names have now,   *)
(* fails when one is not set, and `!' negates the joined results.  Not so, *)
(* and left out by Odd, where values of different types, or two lists,     *)
(* count the same (typecast.c:40-257).                                     *)
AsSpecified ==
    \A e \in Exprs : Habits(e) \subseteq Odd => evaluateBoolExpr(e).result = Meaning(e)
=============================================================================
