------------------------------- MODULE Values -------------------------------
(***************************************************************************)
(* The reference counts of Values in the interpreter: who takes a count    *)
(* and who gives it back when names are set, builtins and functions called *)
(* and scopes left (src/src/evaluate.c:9-171, funcdef.c:22-127,            *)
(* builtin.c:37-62, 553-702, typecast.c:69-130, value.c:176-236).          *)
(*                                                                         *)
(* A Value is a number here.  A call is taken step by step: its arguments  *)
(* are evaluated one after the other, and each may be a call.  `calls' are *)
(* the calls that are under way, innermost first, the program at the end.  *)
(* The blocks of if and for are statements of the function they are in:    *)
(* what they return is what their last statement does, unless it is false. *)
(* Errors are left out: they only leave counts where they are.             *)
(***************************************************************************)
EXTENDS Integers, Sequences, SequencesExt

CONSTANTS
    Literal,     \* the Values the program's text is made of
    Made,        \* those that are made when it runs
    falsevalue,
    Params,      \* the names of the function's parameters ...
    Keyword,     \* ... and of the one that has a default
    Names,       \* all that are set
    Started,     \* those that were set before
    LoopNames,   \* the names for gives the elements of a list
    Odd,         \* what programs do although the counts are not up to it
    MaxCalls     \* bound on the calls of a program's run

Value == Literal \cup Made \cup {falsevalue}

ASSUME ValuesDiffer ==
    Literal \cap Made = {} /\ falsevalue \notin Literal \cup Made
ASSUME NamesDiffer ==
    /\ Params \in Seq(ToSet(Params)) /\ Started \subseteq Names
    /\ LoopNames \cap (Names \cup ToSet(Params) \cup {Keyword}) = {}
ASSUME OddKnown == Odd \subseteq {"kept", "passed on", "looped", "nested", "compared"}
ASSUME Bounds == MaxCalls \in Nat

(* Odd are: "kept", a name is set to what a function has returned; "passed *)
(* on", a function returns what another returned or what is not its own,   *)
(* false among it; "looped", a for over a list in a function; "nested", a  *)
(* set in an argument; "compared", a call in a comparison.                 *)

VARIABLES
    live,      \* the Values that are allocated
    refcount,
    varlist,   \* the scopes, innermost first
    calls,
    val,       \* what was evaluated last: nothing, or a Value and by what
    begun      \* how many calls were begun

vars == <<live, refcount, varlist, calls, val, begun>>

Nothing == [v |-> falsevalue, by |-> "nothing"]
Gives(v, by) == val' = [v |-> v, by |-> by]

(* Calls.  A function's body has returned `last' so far.                   *)
Body == [call |-> "body", last |-> [v |-> falsevalue, by |-> "call"]]
SetOf(x) == [call |-> "set", name |-> x]
Builtin(name) == [call |-> name, items |-> <<>>]
ScopeOf(tree, given) ==
    [call |-> "scope", tree |-> tree, given |-> given, left |-> Append(Params, Keyword)]

(* The program has begun: names in Started have a Value each that add made.*)
Init ==
    /\ \E scope \in [Started -> Made] :
         /\ IsInjective(scope)
         /\ varlist = <<scope>>
         /\ live = Literal \cup {falsevalue} \cup Range(scope)
    /\ refcount = [v \in Value |-> IF v \in live THEN 1 ELSE 0]
    /\ calls = <<Body>>
    /\ val = Nothing
    /\ begun = 0

Innermost == calls[1]
AtStatement == val = Nothing /\ Innermost.call = "body"

(* An argument can be read.                                                *)
AtArgument ==
    /\ val = Nothing
    /\ \/ Innermost.call = "set"
       \/ Innermost.call \in {"add", "write", "compare"} /\ Len(Innermost.items) < 2
       \/ Innermost.call = "scope" /\ Innermost.left # <<>>

Count(v, n) == refcount' = [refcount EXCEPT ![v] = @ + n]

(* freeValue of each Value v, lost[v] times, after refcount + more.        *)
FreeAfter(more, lost) ==
    /\ refcount' = [v \in Value |-> refcount[v] + more[v] - lost[v]]
    /\ live' = live \ {v \in Value : lost[v] > 0 /\ refcount'[v] < 1}

Just(v, n) == [w \in Value |-> IF w = v THEN n ELSE 0]
None == [w \in Value |-> 0]
Bound(scope, x, v) == [y \in DOMAIN scope \cup {x} |-> IF y = x THEN v ELSE scope[y]]
Where(v, f) == {x \in DOMAIN f : f[x] = v}
Times(f) == [v \in Value |-> Cardinality(Where(v, f))]

-----------------------------------------------------------------------------
(* evaluateValue.                                                          *)

(* A literal is counted, as nothing else is.                               *)
Literally(v) ==
    /\ AtArgument /\ v \in Literal
    /\ Count(v, 1)
    /\ Gives(v, "literal")
    /\ UNCHANGED <<live, varlist, calls, begun>>

(* A name, in the innermost scope that has it.                             *)
valueFromName(x) ==
    /\ AtArgument
    /\ \E i \in DOMAIN varlist :
         /\ x \in DOMAIN varlist[i]
         /\ \A j \in 1 .. i - 1 : x \notin DOMAIN varlist[j]
         /\ Gives(varlist[i][x], "name")
    /\ UNCHANGED <<live, refcount, varlist, calls, begun>>

(* A call: set, add, write, a condition, or the function, whose keyword is *)
(* its default or is given.  A block is evaluated as its statements are.   *)
Begin(call) ==
    /\ AtStatement \/ (AtArgument /\ call.call # "compare")
    /\ call.call = "set" => AtStatement \/ "nested" \in Odd
    /\ begun < MaxCalls
    /\ begun' = begun + 1
    /\ calls' = <<call>> \o calls
    /\ UNCHANGED <<live, varlist, val>>

BeginSet(x) == Begin(SetOf(x)) /\ UNCHANGED refcount
BeginBuiltin(name) == Begin(Builtin(name)) /\ UNCHANGED refcount
BeginCall(v, given) ==
    /\ Begin(ScopeOf([x \in {Keyword} |-> v], given))
    /\ Count(v, 1)

-----------------------------------------------------------------------------
(* Builtins.                                                               *)

Holding(v) == calls' = [calls EXCEPT ![1].items = Append(@, v)]

\* Bug: a call's Value is taken for its own.
evaluateListNamesOnly ==
    /\ Innermost.call \in {"add", "write"} /\ val # Nothing
    /\ Count(val.v, IF val.by = "name" THEN 1 ELSE 0)
    /\ Holding(val.v)
    /\ val' = Nothing
    /\ UNCHANGED <<live, varlist, begun>>

(* evaluateList counts what is not its own: a name's Value, and that of a  *)
(* call that does not make one.                                            *)
evaluateList ==
    /\ Innermost.call \in {"add", "write"} /\ val # Nothing
    /\ Count(val.v, IF val.by \in {"name", "call"} THEN 1 ELSE 0)
    /\ Holding(val.v)
    /\ val' = Nothing
    /\ UNCHANGED <<live, varlist, begun>>

(* add and others like it free the list and make a Value.                  *)
addDef ==
    /\ Innermost.call = "add" /\ val = Nothing /\ Innermost.items # <<>>
    /\ LET left == [v \in Value |-> refcount[v] - Times(Innermost.items)[v]]
           freed == {v \in Value : Times(Innermost.items)[v] > 0 /\ left[v] < 1}
       IN  \E new \in Made \ (live \ freed) :
             /\ live' = (live \ freed) \cup {new}
             /\ refcount' = [left EXCEPT ![new] = 1]
             /\ Gives(new, "alloc")
    /\ calls' = Tail(calls)
    /\ UNCHANGED <<varlist, begun>>

writeDef ==
    /\ Innermost.call = "write" /\ val = Nothing /\ Innermost.items # <<>>
    /\ FreeAfter(None, Times(Innermost.items))
    /\ Gives(falsevalue, "call")
    /\ calls' = Tail(calls)
    /\ UNCHANGED <<varlist, begun>>

(* evaluateBoolExpr frees what it evaluated, unless a name has it, and     *)
(* looks at it after that.                                                 *)
evaluateBoolExpr ==
    /\ Innermost.call = "compare" /\ val # Nothing
    /\ val.by \in {"name", "literal"} \/ "compared" \in Odd
    /\ FreeAfter(None, IF val.by = "name" THEN None ELSE Just(val.v, 1))
    /\ Holding(val.v)
    /\ val' = Nothing
    /\ UNCHANGED <<varlist, begun>>

Compared ==
    /\ Innermost.call = "compare" /\ val = Nothing /\ Innermost.items # <<>>
    /\ calls' = Tail(calls)
    /\ UNCHANGED <<live, refcount, varlist, val, begun>>

(* set counts a name's Value, frees the one the name had in the innermost  *)
(* scope, and returns the new one.                                         *)
setDef ==
    /\ Innermost.call = "set" /\ val # Nothing
    /\ val.by = "call" => "kept" \in Odd
    /\ LET x == Innermost.name
           had == IF x \in DOMAIN varlist[1] THEN Just(varlist[1][x], 1) ELSE None
       IN  /\ FreeAfter(IF val.by = "name" THEN Just(val.v, 1) ELSE None, had)
           /\ varlist' = [varlist EXCEPT ![1] = Bound(@, x, val.v)]
    /\ Gives(val.v, "call")
    /\ calls' = Tail(calls)
    /\ UNCHANGED begun

(* for: the name gets an element of a list in the program's text.          *)
forDef(i, v) ==
    /\ AtStatement
    /\ Len(varlist) > 1 => "looped" \in Odd
    /\ begun < MaxCalls
    /\ begun' = begun + 1
    /\ varlist' = [varlist EXCEPT ![1] = Bound(@, i, v)]
    /\ UNCHANGED <<live, refcount, calls, val>>

-----------------------------------------------------------------------------
(* The function.                                                           *)

(* scope: an argument is counted and bound to the next name, and what a    *)
(* builtin made is then freed once.  After the keyword, if it was given,   *)
(* there is no name, and no freeing.                                       *)
Argument ==
    /\ Innermost.call = "scope" /\ val # Nothing
    /\ LET x == Head(Innermost.left)
           bound == x # Keyword \/ ~Innermost.given
       IN  /\ Count(val.v, IF bound /\ val.by = "alloc" THEN 0 ELSE 1)
           /\ calls' = [calls EXCEPT ![1].left = Tail(@),
                                     ![1].tree = IF bound THEN Bound(@, x, val.v) ELSE @]
    /\ val' = Nothing
    /\ UNCHANGED <<live, varlist, begun>>

EnterFunction ==
    /\ Innermost.call = "scope" /\ val = Nothing
    /\ varlist' = <<Innermost.tree>> \o varlist
    /\ calls' = <<Body>> \o Tail(calls)
    /\ UNCHANGED <<live, refcount, val, begun>>

(* evaluateStatements: what is returned is the last that is not false.     *)
evaluateStatements ==
    /\ Innermost.call = "body" /\ val # Nothing
    /\ calls' = [calls EXCEPT ![1].last = IF val.v = falsevalue THEN @ ELSE val]
    /\ val' = Nothing
    /\ UNCHANGED <<live, refcount, varlist, begun>>

\* Bug: what is returned is freed with the others.
descopeAll ==
    /\ AtStatement /\ Len(calls) > 1
    /\ LET v == Innermost.last.v IN
         /\ v \in Range(varlist[1]) \/ Innermost.last.by = "alloc" \/ "passed on" \in Odd
         /\ FreeAfter(Just(v, -1), Times(varlist[1]))
         /\ Gives(v, "call")
    /\ varlist' = Tail(varlist)
    /\ calls' = Tail(calls)
    /\ UNCHANGED begun

(* descope frees what the scope's names have, but for what is returned,    *)
(* which loses a count.                                                    *)
descope ==
    /\ AtStatement /\ Len(calls) > 1
    /\ LET v == Innermost.last.v IN
         /\ v \in Range(varlist[1]) \/ Innermost.last.by = "alloc" \/ "passed on" \in Odd
         /\ FreeAfter(Just(v, -1), [Times(varlist[1]) EXCEPT ![v] = 0])
         /\ Gives(v, "call")
    /\ varlist' = Tail(varlist)
    /\ calls' = Tail(calls)
    /\ UNCHANGED begun

Next ==
    \/ \E v \in Literal : Literally(v)
    \/ \E x \in Names \cup LoopNames : valueFromName(x)
    \/ \E x \in Names : BeginSet(x)
    \/ \E name \in {"add", "write", "compare"} : BeginBuiltin(name)
    \/ \E v \in Literal, given \in BOOLEAN : BeginCall(v, given)
    \/ evaluateList \/ addDef \/ writeDef \/ evaluateBoolExpr \/ Compared \/ setDef
    \/ \E i \in LoopNames, v \in Literal : forDef(i, v)
    \/ Argument \/ EnterFunction \/ evaluateStatements \/ descope

Spec == Init /\ [][Next]_vars

-----------------------------------------------------------------------------
(* Who has a share in a Value: the program's text and the builtins, names, *)
(* and calls whose arguments are being evaluated.                          *)
Arguments(call) ==
    CASE call.call \in {"add", "write"} -> call.items
      [] call.call = "scope" -> call.tree
      [] OTHER -> <<>>

Owners(v) ==
    (IF v \in Made THEN {} ELSE {<<"text", 0, 0>>})
        \cup (UNION {{<<"name", i, x>> : x \in Where(v, varlist[i]) \ LoopNames} : i \in DOMAIN varlist})
        \cup (UNION {{<<"argument", i, j>> : j \in Where(v, Arguments(calls[i]))} : i \in DOMAIN calls})

(* Every name, every part of the program's text and every call under way   *)
(* has Values that were not freed, whatever names share them               *)
(* (value.c:176-236, funcdef.c:44-52, 83, builtin.c:37-62, 569-570).       *)
NothingDangles ==
    /\ Literal \cup {falsevalue} \subseteq live
    /\ \A i \in DOMAIN varlist : Range(varlist[i]) \subseteq live
    /\ \A i \in DOMAIN calls :
         /\ Range(Arguments(calls[i])) \subseteq live
         /\ calls[i].call = "compare" => Range(calls[i].items) \subseteq live
    /\ val.v \in live

(* The count of a Value covers its owners.                                 *)
OwnersCounted == \A v \in live : refcount[v] >= Cardinality(Owners(v))
=============================================================================
