---------------------------- MODULE CompiledSave ----------------------------
(***************************************************************************)
(* `save' and `die' in compiled programs: the code src/src/compiler.c      *)
(* emits for save (lines 323-338), _die, _open and _safe_exit of           *)
(* src/asm/std.s, and the node allocator of src/asm/list.s they share with *)
(* the program's lists.                                                    *)
(*                                                                         *)
(* The program is a main program without functions; what comes next in it  *)
(* is not fixed.  The machine stack grows upwards here and holds only the  *)
(* words that save leaves on it.  What lies above its top is overwritten   *)
(* by every call.                                                          *)
(***************************************************************************)
EXTENDS Integers, Sequences, SequencesExt, FiniteSets, Chains

CONSTANTS
    Msgs,       \* messages die is given
    Files,      \* file descriptors
    PageSize,   \* nodes in a page           (256 in the code)
    MaxPages,   \* bound on the pages used
    MaxSaves,   \* bound on the saves a run enters
    Programs    \* what handlers of a program may do, see below

ASSUME PagesHoldLists == PageSize \in Nat /\ PageSize > 2 /\ MaxPages \in Nat \ {0}
ASSUME BoundIsNumber == MaxSaves \in Nat

(* The handlers of a program have saves in them, or raise errors of their  *)
(* own, or do both.                                                        *)
ASSUME ProgramsKnown == Programs \subseteq SUBSET {"save", "raise"}

VARIABLES
    stack,      \* the words save leaves on the stack
    frames,     \* the saves the program counter is inside of, innermost last
    outside,    \* for each save entered, the frames around it
    listmanager, jmplist, closelist,   \* the nodes these labels point to
    data, next, \* the two words of every node
    opened,     \* the files opened (history)
    mode,       \* "run", "exited", or how the program broke
    handlers    \* what the handlers of the program may do

heap == <<listmanager, jmplist, closelist, data, next>>
vars == <<stack, frames, outside, heap, opened, mode, handlers>>

Node == (1 .. MaxPages) \X (0 .. PageSize - 1)
Zero == <<>>

(* Words on the stack.  An address in the program's code is no message.    *)
Branch(id) == [word |-> "branch", id |-> id]
Message(m) == [word |-> "message", m |-> m]
OldValue == [word |-> "old value"]
NewValue == [word |-> "new value"]

(* A frame of a handler has what the error's name refers to.               *)
Body(id) == [kind |-> "body", id |-> id]
Handler(id, name) == [kind |-> "handler", id |-> id, name |-> name]

Init ==
    /\ stack = <<>> /\ frames = <<>> /\ outside = <<>>
    /\ jmplist = <<1, 0>> /\ closelist = <<1, 1>> /\ listmanager = <<1, 2>>
    /\ data = [n \in Node |-> Zero]
    /\ next = [n \in Node |-> Zero]
    /\ opened = {}
    /\ mode = "run"
    /\ handlers \in Programs

In(kind) == frames # <<>> /\ Last(frames).kind = kind
Handling == \E i \in 1 .. Len(frames) : frames[i].kind = "handler"

-----------------------------------------------------------------------------
Labels == [manager |-> listmanager, jmp |-> jmplist, close |-> closelist, node |-> Zero]

(* _alloc_list from a state h of the labels: the node at listmanager.  At  *)
(* the last node of a page it starts another with _init_list, which makes  *)
(* jmplist and closelist anew, and answers with closelist's node.          *)
AllocList(h) ==
    LET page == h.manager[1]
        i == h.manager[2]
    IN  IF i < PageSize - 1
        THEN [h EXCEPT !.manager = <<page, i + 1>>, !.node = <<page, i>>]
        ELSE [manager |-> <<page + 1, 2>>, node |-> <<page + 1, 1>>,
              jmp |-> <<page + 1, 0>>, close |-> <<page + 1, 1>>]

InMemory(h) == h.node \in Node

(* A node is written for the program's own lists.                          *)
MakeList ==
    LET h == AllocList(Labels) IN
    /\ mode = "run" /\ InMemory(h)
    /\ listmanager' = h.manager /\ jmplist' = h.jmp /\ closelist' = h.close
    /\ data' = [data EXCEPT ![h.node] = <<"value">>]
    /\ UNCHANGED <<stack, frames, outside, next, opened, mode, handlers>>

\* Bug: the files opened before are dropped.
OpenForgetting(f) ==
    LET h == AllocList(Labels) IN
    /\ mode = "run" /\ InMemory(h) /\ f \notin opened
    /\ listmanager' = h.manager /\ jmplist' = h.jmp
    /\ data' = [data EXCEPT ![h.node] = <<"file", f>>]
    /\ closelist' = h.node
    /\ opened' = opened \cup {f}
    /\ UNCHANGED <<stack, frames, outside, next, mode, handlers>>

Open(f) ==
    LET h == AllocList(Labels) IN
    /\ mode = "run" /\ InMemory(h) /\ f \notin opened
    /\ listmanager' = h.manager /\ jmplist' = h.jmp
    /\ data' = [data EXCEPT ![h.node] = <<"file", f>>]
    /\ next' = [next EXCEPT ![h.node] = h.close]
    /\ closelist' = h.node
    /\ opened' = opened \cup {f}
    /\ UNCHANGED <<stack, frames, outside, mode, handlers>>

-----------------------------------------------------------------------------
\* Bug: the first node is not linked to the others.
SaveUnlinked ==
    LET first == AllocList(Labels)
        second == AllocList([first EXCEPT !.jmp = first.node])
        id == Len(outside) + 1
    IN  /\ mode = "run" /\ Len(outside) < MaxSaves /\ (Handling => "save" \in handlers)
        /\ InMemory(first) /\ InMemory(second)
        /\ listmanager' = second.manager /\ jmplist' = second.jmp /\ closelist' = second.close
        /\ data' = [data EXCEPT ![first.node] = second.node, ![second.node] = <<"frame">>]
        /\ next' = [next EXCEPT ![second.node] = Len(stack) + 1]
        /\ stack' = Append(stack, Branch(id))
        /\ outside' = Append(outside, frames)
        /\ frames' = Append(frames, Body(id))
        /\ UNCHANGED <<opened, mode, handlers>>

(* save: a node in front of jmplist, a second one that keeps rbp and rsp,  *)
(* and on the stack the address of the handler.                            *)
Save ==
    LET first == AllocList(Labels)
        second == AllocList([first EXCEPT !.jmp = first.node])
        id == Len(outside) + 1
    IN  /\ mode = "run" /\ Len(outside) < MaxSaves /\ (Handling => "save" \in handlers)
        /\ InMemory(first) /\ InMemory(second)
        /\ listmanager' = second.manager /\ jmplist' = second.jmp /\ closelist' = second.close
        /\ data' = [data EXCEPT ![first.node] = second.node, ![second.node] = <<"frame">>]
        /\ next' = [next EXCEPT ![first.node] = first.jmp, ![second.node] = Len(stack) + 1]
        /\ stack' = Append(stack, Branch(id))
        /\ outside' = Append(outside, frames)
        /\ frames' = Append(frames, Body(id))
        /\ UNCHANGED <<opened, mode, handlers>>

(* The end of the body jumps over the handler, and takes away neither the  *)
(* node nor the address.                                                   *)
SaveEnds ==
    /\ mode = "run" /\ In("body")
    /\ frames' = Front(frames)
    /\ UNCHANGED <<stack, outside, heap, opened, mode, handlers>>

(* _die with `word' for its argument: rsp is that of the first of jmplist, *)
(* and `ret' goes where the word there says, if it is there still.  The    *)
(* handler keeps what its name referred to and the message on the stack.   *)
rsp == next[data[jmplist]]

Raise(word, sp) ==
    IF data[jmplist] = Zero THEN
        /\ mode' = "nullderef"
        /\ UNCHANGED <<stack, frames, jmplist>>
    ELSE IF rsp > sp \/ stack[rsp].word # "branch" THEN
        /\ mode' = "wild jump"
        /\ UNCHANGED <<stack, frames, jmplist>>
    ELSE LET id == stack[rsp].id IN
        /\ jmplist' = next[jmplist]
        /\ stack' = SubSeq(stack, 1, rsp - 1) \o <<OldValue, word>>
        /\ frames' = Append(outside[id], Handler(id, word))
        /\ UNCHANGED mode

Die(m) ==
    /\ mode = "run"
    /\ Raise(Message(m), Len(stack))
    /\ UNCHANGED <<outside, listmanager, closelist, data, next, opened, handlers>>

(* The handler sets the error's name.                                      *)
SetName ==
    /\ mode = "run" /\ In("handler")
    /\ frames' = [frames EXCEPT ![Len(frames)].name = NewValue]
    /\ UNCHANGED <<stack, outside, heap, opened, mode, handlers>>

(* The end of a handler takes two words off the stack for the message and  *)
(* the name's old value.                                                   *)
Top == Last(stack)
Below == SubSeq(stack, 1, Len(stack) - 2)

HandlerSaves ==
    /\ mode = "run" /\ In("handler")
    /\ Top # Last(frames).name
    /\ stack' = Below
    /\ frames' = Front(frames)
    /\ UNCHANGED <<outside, heap, opened, mode, handlers>>

(* _die is called without an argument: what it takes for one is the word   *)
(* on top of the stack, below which the program was started.               *)
HandlerRaises ==
    /\ mode = "run" /\ In("handler") /\ "raise" \in handlers
    /\ Top = Last(frames).name
    /\ IF Below = <<>>
       THEN mode' = "nullderef" /\ UNCHANGED <<stack, frames, jmplist>>
       ELSE Raise(Last(Below), Len(Below))
    /\ UNCHANGED <<outside, listmanager, closelist, data, next, opened, handlers>>

-----------------------------------------------------------------------------
(* The nodes of jmplist and closelist that hold something, and those of    *)
(* them that are found from n on.                                          *)
Listed == {n \in Node : data[n] \notin {Zero, <<"frame">>, <<"value">>}}
Chain(n) == Reach(Listed, next, n)

(* _safe_exit closes what closelist has, up to the first node that holds   *)
(* nothing.                                                                *)
Exit ==
    /\ mode = "run"
    /\ mode' = "exited"
    /\ UNCHANGED <<stack, frames, outside, heap, opened, handlers>>

Next ==
    \/ MakeList \/ \E f \in Files : Open(f)
    \/ Save \/ SaveEnds
    \/ \E m \in Msgs : Die(m)
    \/ SetName \/ HandlerSaves \/ HandlerRaises
    \/ Exit

Spec == Init /\ [][Next]_vars

-----------------------------------------------------------------------------
Entries == {stack[next[data[n]]].id : n \in {k \in Chain(jmplist) :
              next[data[k]] <= Len(stack) /\ stack[next[data[k]]].word = "branch"}}

(* An error raised in the body of a save finds the save: its node is on    *)
(* jmplist, and its handler's address where that node says, whatever other *)
(* saves began, ended or failed meanwhile (compiler.c:323-338,             *)
(* std.s:317-331).                                                         *)
ActiveHandled ==
    \A i \in 1 .. Len(frames) : frames[i].kind = "body" => frames[i].id \in Entries

(* Every file opened is on closelist, to be closed on exit, while saves    *)
(* and lists take their nodes from the same page (std.s:197-211, 422-447). *)
FilesListed ==
    \A f \in opened : \E n \in Chain(closelist) : data[n] = <<"file", f>>
=============================================================================
