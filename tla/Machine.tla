------------------------------ MODULE Machine ------------------------------
(***************************************************************************)
(* The program the compiler made, running: module Compile's code with the  *)
(* layout main gives it (fffll.y:707-728), and the parts of asm/ it calls. *)
(*                                                                         *)
(* A program is [main, fns]: statements, and functions [params, kws, body].*)
(* Each of its names is a place in memory: calls save and restore it, and  *)
(* a flag next to it says that a keyword argument has just been stored.    *)
(***************************************************************************)
EXTENDS Meaning

CONSTANTS
    Programs,   \* the programs, compiled
    Names,      \* their names
    MaxWord     \* the smallest number of 64 bits, negated

ASSUME WordsAreWide == MaxWord \in Nat \ {0}

VARIABLES
    program,
    pc, rax, rbx, rbp,
    stack,      \* grows to the right
    mem,        \* what each name is set to
    flag,       \* its flag: the upper bit of a byte
    nodes,      \* list nodes [data, next]
    out,        \* what was written
    mode        \* "run", "halted", or "fault": the machine cannot go on

vars == <<program, pc, rax, rbx, rbp, stack, mem, flag, nodes, out, mode>>

(* A word is 0, bits, or the address of something: a number, a boolean,    *)
(* a list, code, a list node, or nothing in particular.                    *)
Word(is, val) == [is |-> is, val |-> val]
Null == Word("null", 0)
Number(n) == Word("n", n)
Bits(b) == Word("bits", b)
Code(at) == Word("a", at)
Node(i) == Word("node", i)
Junk == Word("junk", 0)

(* A number's bits are those of a double, compared as a signed integer:    *)
(* of two negative numbers the one further from 0 is the greater.          *)
DoubleBits(n) == IF n >= 0 THEN 2 * n ELSE 2 * (-n) - MaxWord

-----------------------------------------------------------------------------
(* Layout.                                                                 *)

(* Where the statements of a body start.                                   *)
Starts(base, body) ==
    {base + Len(Each(SubSeq(body, 1, i - 1), valueToLlvmString)) : i \in 1 .. Len(body)}

Assembled(p) ==
    LET main == Each(p.main, valueToLlvmString) \o Do("halt")
        fn == [i \in 1 .. Len(p.fns) |-> printFunc(p.fns[i])]
        entry == [i \in 1 .. Len(fn) |-> Len(main) + 1 + Len(FlattenSeq(SubSeq(fn, 1, i - 1)))]
    IN  [code |-> main \o FlattenSeq(fn),
         entry |-> entry,
         starts |-> Starts(1, p.main),
         bodies |-> [i \in 1 .. Len(fn) |->
                        Starts(entry[i] + Len(Prologue(p.fns[i])), p.fns[i].body)]]

(* A program, its code, and what the interpreter does with it.             *)
Compiled(p) == [source |-> p, text |-> Assembled(p), meaning |-> Meaning(p)]
ASSUME ProgramsCompiled == \A p \in Programs : p = Compiled(p.source)
text == program.text

Init ==
    /\ program \in Programs
    /\ pc = 1
    /\ rax = Null /\ rbx = Null
    /\ rbp = 0
    /\ stack = <<>>
    /\ mem = [x \in Names |-> Null]
    /\ flag = [x \in Names |-> 0]
    /\ nodes = <<>>
    /\ out = <<>>
    /\ mode = "run"

-----------------------------------------------------------------------------
(* Instructions.                                                           *)

Instr == text.code[pc]
Op == Instr[1]
Top == stack[Len(stack)]
Popped == SubSeq(stack, 1, Len(stack) - 1)

(* The word at rbp+16+8*k: the k-th argument, from 0, if there is one.     *)
Arg(k) == IF rbp - 2 - k >= 1 THEN stack[rbp - 2 - k] ELSE Junk

(* What a builtin finds: the words down to a 0.                            *)
RECURSIVE DownTo0(_)
DownTo0(s) ==
    IF s = <<>> \/ Last(s) = Null THEN <<>> ELSE <<Last(s)>> \o DownTo0(Front(s))
Given == DownTo0(stack)

Total(words) == FoldLeft(LAMBDA n, w : n + w.val, 0, words)

(* What [rax+4] holds.                                                     *)
Content(w) ==
    CASE w.is = "n" -> Bits(DoubleBits(w.val))
      [] w.is = "b" -> Bits(w.val)
      [] w.is = "l" -> Node(w.val)
HasContent(w) == w.is \in {"n", "b", "l"}

Toggled(bit) == IF bit % 2 = 0 THEN bit + 1 ELSE bit - 1
Bit(b) == Bits(IF b THEN 1 ELSE 0)
Compare(op, v, w) ==
    CASE op = "=" -> v = w
      [] op = "<" -> v.val < w.val
      [] op = ">" -> v.val > w.val
NonZero(w) == w # Bits(0)
Joined(op, v, w) ==
    IF op = "&" THEN NonZero(v) /\ NonZero(w) ELSE NonZero(v) \/ NonZero(w)

(* What write shows of them.                                              *)
Shown(words) ==
    [i \in DOMAIN words |-> IF words[i].is = "n" THEN Num(words[i].val) ELSE Truth(words[i].val # 0)]

(* An address or a page of code is no number and no list: what reads it    *)
(* stops the program, and so does a call to what is no code.               *)
Faulting ==
    \/ Op \in {"held", "jump if 0"} /\ ~HasContent(rax)
    \/ Op = "list_next" /\ rax.is # "node"
    \/ Op = "call name" /\ mem[Instr[2]].is # "a"
    \/ Op = "call rax" /\ rax.is # "a"
    \/ Op = "call builtin" /\ Instr[2] = "add" /\
         (Given = <<>> \/ \E i \in DOMAIN Given : Given[i].is # "n")
    \/ Op = "call builtin" /\ Instr[2] = "write" /\
         (Given = <<>> \/ \E i \in 2 .. Len(Given) : Given[i].is \notin {"n", "b"})

Fetch == mode = "run" /\ ~Faulting
Next1 == pc' = pc + 1

(* Something in rax.  What a comparison or a join has on its left is in    *)
(* rbx.                                                                    *)
Load ==
    /\ Fetch
    /\ Op \in {"number", "load", "block", "code", "held", "not", "compare", "join", "bool"}
    /\ rax' = CASE Op = "number" -> Number(Instr[2])
                [] Op = "load" -> mem[Instr[2]]
                [] Op = "block" -> Code(text.entry[Instr[2]])
                [] Op = "code" -> Junk
                [] Op = "held" -> Content(rax)
                [] Op = "not" -> Word(rax.is, Toggled(rax.val))
                [] Op = "compare" -> Bit(Compare(Instr[2], rbx, rax))
                [] Op = "join" -> Bit(Joined(Instr[2], rbx, rax))
                [] Op = "bool" -> Word("b", rax.val)
    /\ Next1
    /\ UNCHANGED <<program, rbx, rbp, stack, mem, flag, nodes, out, mode>>

Push ==
    /\ Fetch /\ Op = "push"
    /\ stack' = Append(stack, CASE Instr[2] = "rax" -> rax
                                [] Instr[2] = "rbx" -> rbx
                                [] Instr[2] = "0" -> Null)
    /\ Next1
    /\ UNCHANGED <<program, rax, rbx, rbp, mem, flag, nodes, out, mode>>

Pop ==
    /\ Fetch /\ Op = "pop"
    /\ stack' = Popped
    /\ IF Instr[2] = "rax" THEN rax' = Top /\ UNCHANGED rbx
                           ELSE rbx' = Top /\ UNCHANGED rax
    /\ Next1
    /\ UNCHANGED <<program, rbp, mem, flag, nodes, out, mode>>

Drop ==
    /\ Fetch /\ Op = "drop"
    /\ stack' = SubSeq(stack, 1, Len(stack) - Instr[2])
    /\ Next1
    /\ UNCHANGED <<program, rax, rbx, rbp, mem, flag, nodes, out, mode>>

Store ==
    /\ Fetch /\ Op \in {"store", "flag"}
    /\ mem' = [mem EXCEPT ![Instr[2]] = rax]
    /\ flag' = IF Op = "flag" THEN [flag EXCEPT ![Instr[2]] = Toggled(@)] ELSE flag
    /\ Next1
    /\ UNCHANGED <<program, rax, rbx, rbp, stack, nodes, out, mode>>

Restore ==
    /\ Fetch /\ Op = "restore"
    /\ mem' = [mem EXCEPT ![Instr[2]] = Top]
    /\ stack' = Popped
    /\ Next1
    /\ UNCHANGED <<program, rax, rbx, rbp, flag, nodes, out, mode>>

Jump ==
    /\ Fetch
    /\ \/ /\ Op = "jump"
          /\ pc' = pc + 1 + Instr[2]
       \/ /\ Op = "jump if 0"
          /\ pc' = pc + 1 + (IF NonZero(Content(rax)) THEN 0 ELSE Instr[2])
       \/ /\ Op = "jump if NULL"
          /\ pc' = pc + 1 + (IF rax # Null THEN 0 ELSE Instr[2])
    /\ UNCHANGED <<program, rax, rbx, rbp, stack, mem, flag, nodes, out, mode>>

(* Lists.  A node that was not filled is the end.                          *)
AllocList ==
    /\ Fetch /\ Op = "alloc_list"
    /\ nodes' = Append(nodes, [data |-> Null, next |-> Null])
    /\ rax' = Node(Len(nodes) + 1)
    /\ Next1
    /\ UNCHANGED <<program, rbx, rbp, stack, mem, flag, out, mode>>

Fill ==
    /\ Fetch
    /\ \/ Op = "set data" /\ nodes' = [nodes EXCEPT ![rbx.val].data = rax] /\ UNCHANGED <<rax, rbx>>
       \/ Op = "set next" /\ nodes' = [nodes EXCEPT ![rbx.val].next = rax] /\ UNCHANGED <<rax, rbx>>
       \/ Op = "copy to rbx" /\ rbx' = rax /\ UNCHANGED <<rax, nodes>>
       \/ Op = "list" /\ rax' = Word("l", rax.val) /\ UNCHANGED <<rbx, nodes>>
    /\ Next1
    /\ UNCHANGED <<program, rbp, stack, mem, flag, out, mode>>

\* Bug: the node it was given is the next one.
_list_next_staying ==
    /\ Fetch /\ Op = "list_next"
    /\ rax' = nodes[rax.val].data
    /\ rbx' = rax
    /\ Next1
    /\ UNCHANGED <<program, rbp, stack, mem, flag, nodes, out, mode>>

_list_next ==
    /\ Fetch /\ Op = "list_next"
    /\ LET node == nodes[rax.val]
       IN  /\ rax' = node.data
           /\ rbx' = IF node.data = Null THEN rax ELSE node.next
    /\ Next1
    /\ UNCHANGED <<program, rbp, stack, mem, flag, nodes, out, mode>>

(* Calls and functions.                                                    *)
CallFunction ==
    /\ Fetch /\ Op \in {"call name", "call rax"}
    /\ stack' = Append(stack, Word("addr", pc + 1))
    /\ pc' = IF Op = "call name" THEN mem[Instr[2]].val ELSE rax.val
    /\ UNCHANGED <<program, rax, rbx, rbp, mem, flag, nodes, out, mode>>

(* add; and write, to the stream that is its first argument.               *)
CallBuiltin ==
    /\ Fetch /\ Op = "call builtin"
    /\ IF Instr[2] = "add" THEN rax' = Number(Total(Given)) /\ UNCHANGED out
                           ELSE rax' = Null /\ out' = out \o Shown(Tail(Given))
    /\ rbx' = Junk
    /\ Next1
    /\ UNCHANGED <<program, rbp, stack, mem, flag, nodes, mode>>

Enter ==
    /\ Fetch /\ Op = "enter"
    /\ stack' = Append(stack, Word("rbp", rbp))
    /\ rbp' = Len(stack) + 1
    /\ Next1
    /\ UNCHANGED <<program, rax, rbx, mem, flag, nodes, out, mode>>

Bind ==
    /\ Fetch /\ Op = "bind"
    /\ LET x == Instr[2]
       IN  /\ stack' = Append(stack, mem[x])
           /\ IF flag[x] = 1 THEN flag' = [flag EXCEPT ![x] = 0] /\ UNCHANGED mem
                             ELSE mem' = [mem EXCEPT ![x] = Arg(Instr[3])] /\ UNCHANGED flag
    /\ Next1
    /\ UNCHANGED <<program, rax, rbx, rbp, nodes, out, mode>>

SaveName ==
    /\ Fetch /\ Op = "save name"
    /\ stack' = Append(stack, mem[Instr[2]])
    /\ Next1
    /\ UNCHANGED <<program, rax, rbx, rbp, mem, flag, nodes, out, mode>>

\* Bug: the flag stays for the next call.
JumpKeepingFlag ==
    /\ Fetch /\ Op = "jump if flagged"
    /\ pc' = pc + 1 + (IF flag[Instr[2]] = 1 THEN Instr[3] ELSE 0)
    /\ UNCHANGED <<program, rax, rbx, rbp, stack, mem, flag, nodes, out, mode>>

(* A flag that was set is cleared, and its name's default skipped.         *)
JumpIfFlagged ==
    /\ Fetch /\ Op = "jump if flagged"
    /\ pc' = pc + 1 + (IF flag[Instr[2]] = 1 THEN Instr[3] ELSE 0)
    /\ flag' = [flag EXCEPT ![Instr[2]] = 0]
    /\ UNCHANGED <<program, rax, rbx, rbp, stack, mem, nodes, out, mode>>

SurplusArgument ==
    /\ Fetch /\ Op = "surplus"
    /\ IF Arg(Instr[3]) = Null
       THEN pc' = pc + 1 + Instr[4] /\ UNCHANGED mem
       ELSE Next1 /\ mem' = [mem EXCEPT ![Instr[2]] = Arg(Instr[3])]
    /\ UNCHANGED <<program, rax, rbx, rbp, stack, flag, nodes, out, mode>>

Leave ==
    /\ Fetch /\ Op = "leave"
    /\ pc' = stack[rbp - 1].val
    /\ rbp' = stack[rbp].val
    /\ stack' = SubSeq(stack, 1, rbp - 2)
    /\ UNCHANGED <<program, rax, rbx, mem, flag, nodes, out, mode>>

_safe_exit ==
    /\ Fetch /\ Op = "halt"
    /\ mode' = "halted"
    /\ UNCHANGED <<program, pc, rax, rbx, rbp, stack, mem, flag, nodes, out>>

Fault ==
    /\ mode = "run" /\ Faulting
    /\ mode' = "fault"
    /\ UNCHANGED <<program, pc, rax, rbx, rbp, stack, mem, flag, nodes, out>>

Next ==
    \/ Load \/ Push \/ Pop \/ Drop \/ Store \/ Restore \/ Jump
    \/ AllocList \/ Fill \/ _list_next
    \/ CallFunction \/ CallBuiltin \/ Enter \/ Bind \/ SaveName
    \/ JumpIfFlagged \/ SurplusArgument \/ Leave \/ _safe_exit \/ Fault

(* The processor runs on.                                                  *)
Spec == Init /\ [][Next]_vars /\ WF_vars(Next)

-----------------------------------------------------------------------------
(* Correctness.                                                            *)

(* Every statement leaves the stack as it found it: before one of the main *)
(* program it is empty, before one of a function it holds the values the   *)
(* names of the function had.                                              *)
StackBalanced ==
    mode = "run" =>
        /\ pc \in text.starts => stack = <<>>
        /\ \A i \in DOMAIN program.source.fns :
              pc \in text.bodies[i] =>
                  Len(stack) = rbp + Len(program.source.fns[i].params) + Len(program.source.fns[i].kws)

(* A keyword argument's flag is taken by the call it is for, before that   *)
(* call's first statement.                                                 *)
FlagsTaken ==
    mode = "run" /\ (pc \in text.starts \/ Op = "leave") => \A x \in Names : flag[x] = 0

(* A compiled program writes what it writes in the interpreter and ends    *)
(* well if it does there.                                                  *)
ComputesSource ==
    LET st == program.meaning
    IN  mode # "run" => /\ (mode = "halted") = st.ok
                        /\ st.ok => out = st.out
                        /\ ~st.ok => IsPrefix(out, st.out)

(* A program that comes to its end in the interpreter comes to one.        *)
ProgramEnds == <>(mode # "run")
=============================================================================
