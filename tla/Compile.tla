------------------------------ MODULE Compile ------------------------------
(***************************************************************************)
(* The code src/src/compiler.c emits for a syntax tree: printFunc for the  *)
(* definition of a function, valueToLlvmString for everything else.        *)
(*                                                                         *)
(* Code is a sequence of instructions.  An instruction here is one of the  *)
(* machine's, or a few that always stand together.  A jump has its         *)
(* distance for a label: 0 leads to the next instruction.  Left out are    *)
(* names that begin with an underscore, names with indices, regular        *)
(* expressions, ranges (module CompiledList), save and die (module         *)
(* CompiledSave), and ? , for which no comparison is emitted.              *)
(***************************************************************************)
EXTENDS Integers, Sequences, SequencesExt

(* Syntax trees.  A boolean expression is the stack the parser made: a     *)
(* value, and operators with a value each.  Keywords are pairs [x, v].     *)
Num(n) == [e |-> "n", n |-> n]
Var(x) == [e |-> "v", x |-> x]
Function(id) == [e |-> "a", id |-> id]
Builtin(name) == [e |-> "builtin", name |-> name]
Call(f, args, kws) == [e |-> "c", f |-> f, args |-> args, kws |-> kws]
Bool(stack, neg) == [e |-> "b", stack |-> stack, neg |-> neg]
List(items) == [e |-> "l", items |-> items]
Block(body) == [e |-> "d", body |-> body]
Set(x, v) == [e |-> "set", x |-> x, v |-> v]
If(args) == [e |-> "if", args |-> args]
For(args, kws) == [e |-> "for", args |-> args, kws |-> kws]

Do(op) == << <<op>> >>
DoTo(op, arg) == << <<op, arg>> >>
Each(s, Code(_)) == FlattenSeq([i \in 1 .. Len(s) |-> Code(s[i])])

RECURSIVE valueToLlvmString(_)

(* A value in rax.                                                         *)
Rax(v) ==
    CASE v.e = "n" -> DoTo("number", v.n)
      [] v.e = "v" -> DoTo("load", v.x)
      [] v.e = "a" -> DoTo("block", v.id)
      [] OTHER -> valueToLlvmString(v)

(* The same where it is an argument or a default: what is loaded for a     *)
(* function are the first bytes of its code.                               *)
Argument(v) == IF v.e = "a" THEN Do("code") ELSE Rax(v)

(* BOOL_REALLOC: what the value holds.                                     *)
Held(v) == Rax(v) \o Do("held")

(* The joining of two comparisons, if the & or | was read before.          *)
Join(op) == IF op = "" THEN <<>> ELSE DoTo("pop", "rbx") \o DoTo("join", op)

(* The rest of a boolean expression; `join' is the & or | read last.       *)
RECURSIVE Rest(_, _)
Rest(stack, join) ==
    IF stack = <<>> THEN Join(join)
    ELSE LET op == stack[1]
             rest == SubSeq(stack, 3, Len(stack))
         IN  DoTo("push", "rax") \o Held(stack[2])
             \o IF op \in {"&", "|"} THEN Rest(rest, op)
                ELSE DoTo("pop", "rbx") \o DoTo("compare", op) \o Join(join) \o Rest(rest, "")

BoolCode(v) ==
    Held(v.stack[1]) \o Rest(Tail(v.stack), "")
        \o (IF v.neg THEN Do("not") ELSE <<>>) \o Do("bool")

(* A list: rbx is the node to fill.  The first node stays on the stack.    *)
ListCode(v) ==
    LET Item(u) ==
            Do("copy to rbx") \o Do("alloc_list") \o DoTo("push", "rax")
                \o (IF u.e \in {"n", "v"} THEN Rax(u)
                    ELSE DoTo("push", "rbx") \o Rax(u) \o DoTo("pop", "rbx"))
                \o Do("set data") \o DoTo("pop", "rax") \o Do("set next")
    IN  Do("alloc_list") \o DoTo("push", "rax") \o Each(v.items, Item)
            \o DoTo("pop", "rax") \o Do("list")

(* Conditions and blocks, and perhaps a last block.  A block that is not   *)
(* the last one jumps to the end.                                          *)
RECURSIVE IfCode(_)
IfCode(args) ==
    IF Len(args) = 1 THEN valueToLlvmString(args[1])
    ELSE LET rest == IF Len(args) = 2 THEN <<>> ELSE IfCode(SubSeq(args, 3, Len(args)))
             block == valueToLlvmString(args[2])
                        \o (IF rest = <<>> THEN <<>> ELSE DoTo("jump", Len(rest)))
         IN  valueToLlvmString(args[1]) \o DoTo("jump if 0", Len(block)) \o block \o rest

(* for: a condition, perhaps, and a block.  With a keyword the block runs  *)
(* for each element of a list; the node to go on from is on the stack, and *)
(* under it the value the name had.                                        *)
ForCode(v) ==
    LET block == valueToLlvmString(Last(v.args))
        turn == IF Len(v.args) = 1 THEN block
                ELSE valueToLlvmString(v.args[1]) \o DoTo("jump if 0", Len(block) + 1) \o block
        Around(code) == code \o DoTo("jump", -Len(code) - 1)
        x == v.kws[1].x
        next == DoTo("pop", "rax") \o Do("list_next") \o DoTo("jump if NULL", Len(turn) + 3)
                  \o DoTo("store", x) \o DoTo("push", "rbx")
    IN  IF v.kws = <<>> THEN Around(turn)
        ELSE DoTo("load", x) \o DoTo("push", "rax") \o Held(v.kws[1].v) \o DoTo("push", "rax")
                \o Around(next \o turn) \o DoTo("pop", "rax") \o DoTo("store", x)

(* The parts of a call: the keywords' names are set and flagged; the other *)
(* arguments are pushed on a 0, the first one last; the function; and the  *)
(* stack and the names as they were.                                       *)
Keywords(v) ==
    LET Keyword(k) == DoTo("load", k.x) \o DoTo("push", "rax") \o Argument(k.v) \o DoTo("flag", k.x)
    IN  Each(v.kws, Keyword)

Pushed(v) ==
    DoTo("push", "0") \o Each(Reverse(v.args), LAMBDA u : Argument(u) \o DoTo("push", "rax"))

Called(v) ==
    CASE v.f.e = "builtin" -> DoTo("call builtin", v.f.name)
      [] v.f.e = "v" -> DoTo("call name", v.f.x)
      [] v.f.e \in {"a", "c"} -> Rax(v.f) \o Do("call rax")

Restored(v) == Each(Reverse(v.kws), LAMBDA k : DoTo("restore", k.x))

\* Bug: the arguments are dropped, the 0 under them is not.
CallLeavingZero(v) ==
    Keywords(v) \o Pushed(v) \o Called(v) \o DoTo("drop", Len(v.args)) \o Restored(v)

CallCode(v) ==
    Keywords(v) \o Pushed(v) \o Called(v) \o DoTo("drop", Len(v.args) + 1) \o Restored(v)

valueToLlvmString(v) ==
    CASE v.e = "set" -> Rax(v.v) \o DoTo("store", v.x)
      [] v.e = "if" -> IfCode(v.args)
      [] v.e = "for" -> ForCode(v)
      [] v.e = "c" -> CallCode(v)
      [] v.e = "b" -> BoolCode(v)
      [] v.e = "d" -> Each(v.body, valueToLlvmString)
      [] v.e = "l" -> ListCode(v)

-----------------------------------------------------------------------------
(* A function [params, kws, body].                                         *)

(* Its names' values are saved.  A name without a flag gets an argument,   *)
(* from rbp+16 on, or its default.                                         *)
Params(fn) == [i \in 1 .. Len(fn.params) |-> <<"bind", fn.params[i], i - 1>>]

Defaults(fn) ==
    LET Default(k) ==
            LET code == Argument(k.v) \o DoTo("store", k.x)
            IN  DoTo("save name", k.x) \o << <<"jump if flagged", k.x, Len(code)>> >> \o code
    IN  Each(fn.kws, Default)

(* Arguments left over are for the keywords, up to the caller's 0.         *)
Surplus(fn) ==
    LET n == Len(fn.kws)
    IN  [i \in 1 .. n |-> <<"surplus", fn.kws[i].x, Len(fn.params) + i - 1, n - i>>]

Prologue(fn) == Do("enter") \o Params(fn) \o Defaults(fn) \o Surplus(fn)

\* Bug: the names of the positional arguments are put back first.
EpilogueParamsFirst(fn) ==
    Each(fn.params, LAMBDA x : DoTo("restore", x))
        \o Each(fn.kws, LAMBDA k : DoTo("restore", k.x)) \o Do("leave")

(* What is emitted for a name should come before what was for the others,  *)
(* but they are looked for where the text ends: it comes after them.       *)
Epilogue(fn) ==
    Each(fn.kws, LAMBDA k : DoTo("restore", k.x))
        \o Each(fn.params, LAMBDA x : DoTo("restore", x)) \o Do("leave")

printFunc(fn) == Prologue(fn) \o Each(fn.body, valueToLlvmString) \o Epilogue(fn)
=============================================================================
