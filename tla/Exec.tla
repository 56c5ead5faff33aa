-------------------------------- MODULE Exec --------------------------------
(***************************************************************************)
(* Control in the interpreter: how function calls, loops, `die' and `save' *)
(* move along the C stack (src/src/evaluate.c, funcdef.c, builtin.c,       *)
(* exception.c, repl.c), and the two lists they keep in step with it:      *)
(* `varlist', the scopes, and `jmplist', the jmp_bufs of active saves.     *)
(*                                                                         *)
(* An error travels in two ways.  A NULL result is handed from caller to   *)
(* caller; `die' and raiseErr longjmp to the innermost save when there is  *)
(* one.  What is evaluated are the statements of imported files, one file  *)
(* after the other (fffll.y:141-163).  The program is not fixed: whenever  *)
(* statements are being evaluated the next one may be anything the         *)
(* language allows.                                                        *)
(***************************************************************************)
EXTENDS Integers, Sequences

CONSTANTS
    Msgs,        \* texts of error messages
    NoMsg,       \* diemsg before the first error
    MaxDepth,    \* bound on the C stack, in frames of this model
    MaxScopes    \* bound on the number of scopes

ASSUME BoundsPositive == MaxDepth \in Nat \ {0} /\ MaxScopes \in Nat \ {0, 1}
ASSUME NoMsgIsNoText == NoMsg \notin Msgs

VARIABLES
    stack,     \* the C stack: one record per active call that matters here
    mode,      \* what the innermost frame is doing, see Modes
    varlist,   \* the scopes, innermost first: what the error name is bound to
    jmplist,   \* depth of the saveDef frame each jmp_buf was filled in
    diemsg,    \* text of the last error
    unsaved    \* an error was raised with no save to catch it (history)

vars == <<stack, mode, varlist, jmplist, diemsg, unsaved>>

(* Nothing in a scope but the binding of the name that save's keyword      *)
(* argument gives the error matters here: it is unbound, bound to a        *)
(* message text, or bound to a value the program gave it.                  *)
Unbound == "unbound"
Other   == "other"
Binding == Msgs \cup {Unbound, Other}

Modes == {"idle",       \* between two imports
          "run",        \* evaluateStatements is about to take a statement
          "value",      \* the innermost call has just returned a value
          "null",       \* ... or NULL
          "raise",      \* recoverErr has been called
          "badjump",    \* longjmp to a jmp_buf setjmp never filled
          "nullderef"}  \* a NULL pointer was followed

Crashed == mode \in {"badjump", "nullderef"}

(* module: an imported file.  args: an argument being evaluated in         *)
(* scope().  func: the body of a function.  if: a condition of `if', or    *)
(* the block it chose.  each: for over a list or a range.  while: for with *)
(* a condition, or none.  save: the block given to save.  handler: its     *)
(* keyword argument, after an error.  `base' is the place, from the        *)
(* outermost, of the scope the frame's statements belong to.               *)
Kinds == {"module", "args", "func", "if", "each", "while", "save", "handler"}

Frame(kind, base) == [kind |-> kind, base |-> base]
HandlerFrame(base, str, again) ==
    [kind |-> "handler", base |-> base, str |-> str, again |-> again]

Top == stack[Len(stack)]
In(kind) == stack # <<>> /\ Top.kind = kind
Push(f) == Len(stack) < MaxDepth /\ stack' = Append(stack, f)
Pop == stack' = SubSeq(stack, 1, Len(stack) - 1)
SetTop(f) == stack' = [stack EXCEPT ![Len(stack)] = f]

Init ==
    /\ stack = <<>>
    /\ mode = "idle"
    /\ varlist = <<Unbound>>
    /\ jmplist = <<>>
    /\ diemsg = NoMsg
    /\ unsaved = FALSE

-----------------------------------------------------------------------------
(* Between statements.                                                     *)

(* The statements of an imported file, in a scope of their own.            *)
Import ==
    /\ mode = "idle"
    /\ Len(varlist) < MaxScopes
    /\ varlist' = <<Unbound>> \o varlist
    /\ Push(Frame("module", Len(varlist) + 1))
    /\ mode' = "run"
    /\ UNCHANGED <<jmplist, diemsg, unsaved>>

(* Whatever the statements return, the innermost scope becomes the module's *)
(* key-value list and is taken off the list.                               *)
ImportDone ==
    /\ In("module") /\ mode \in {"value", "null"}
    /\ varlist' = Tail(varlist)
    /\ Pop
    /\ mode' = "idle"
    /\ UNCHANGED <<jmplist, diemsg, unsaved>>

-----------------------------------------------------------------------------
(* Statements.                                                             *)

(* evaluateStatements goes on after a value and gives up on a NULL.        *)
NextStatement ==
    /\ mode = "value"
    /\ \/ In("func") \/ In("if") \/ In("save") \/ In("handler") \/ In("module")
    /\ mode' = "run"
    /\ UNCHANGED <<stack, varlist, jmplist, diemsg, unsaved>>

(* A builtin that does not touch control returns a value, or NULL when it  *)
(* reports its error with errmsg alone, as an undefined name does.         *)
Builtin(m) ==
    /\ mode = "run" /\ m \in {"value", "null"}
    /\ mode' = m
    /\ UNCHANGED <<stack, varlist, jmplist, diemsg, unsaved>>

(* set(e ...): the innermost scope gets the binding (builtin.c:694-699).   *)
SetErrorName ==
    /\ mode = "run"
    /\ varlist' = [varlist EXCEPT ![1] = Other]
    /\ mode' = "value"
    /\ UNCHANGED <<stack, jmplist, diemsg, unsaved>>

(* Calling a function: its arguments are evaluated in the caller's scope.  *)
CallFunction ==
    /\ mode = "run"
    /\ Push(Frame("args", Top.base))
    /\ UNCHANGED <<mode, varlist, jmplist, diemsg, unsaved>>

(* The arguments have values: scope() adds the new scope.                  *)
EnterFunction ==
    /\ In("args") /\ mode \in {"run", "value"}
    /\ Len(varlist) < MaxScopes
    /\ varlist' = <<Unbound>> \o varlist
    /\ SetTop(Frame("func", Len(varlist) + 1))
    /\ mode' = "run"
    /\ UNCHANGED <<jmplist, diemsg, unsaved>>

NextArgument ==
    /\ In("args") /\ mode = "value"
    /\ mode' = "run"
    /\ UNCHANGED <<stack, varlist, jmplist, diemsg, unsaved>>

\* Bug: a scope is taken away that was not added.
ArgumentFailsDescopes ==
    /\ In("args") /\ mode = "null"
    /\ varlist' = Tail(varlist)
    /\ Pop
    /\ UNCHANGED <<mode, jmplist, diemsg, unsaved>>

(* An argument has no value: scope() adds the scope and fails, and         *)
(* evaluateFuncDef returns without descope().                              *)
ArgumentFails ==
    /\ In("args") /\ mode = "null"
    /\ Len(varlist) < MaxScopes
    /\ varlist' = <<Unbound>> \o varlist
    /\ Pop
    /\ UNCHANGED <<mode, jmplist, diemsg, unsaved>>

(* The body ends: descope() takes the innermost scope away, unless the     *)
(* body returned NULL.                                                     *)
FunctionReturns ==
    /\ In("func") /\ mode = "value"
    /\ varlist' = Tail(varlist)
    /\ Pop
    /\ UNCHANGED <<mode, jmplist, diemsg, unsaved>>

FunctionFails ==
    /\ In("func") /\ mode = "null"
    /\ Pop
    /\ UNCHANGED <<mode, varlist, jmplist, diemsg, unsaved>>

(* if: conditions until one holds, then its block, whose result is that of *)
(* `if'.  A condition without a value ends it with NULL, as the block may. *)
EnterIf ==
    /\ mode = "run"
    /\ Push(Frame("if", Top.base))
    /\ UNCHANGED <<mode, varlist, jmplist, diemsg, unsaved>>

LeaveIf ==
    /\ In("if") /\ mode \in {"value", "null"}
    /\ Pop
    /\ UNCHANGED <<mode, varlist, jmplist, diemsg, unsaved>>

(* for.  Over a list or a range the result of the body is kept but not     *)
(* looked at; otherwise a NULL ends the loop.  A condition that has no     *)
(* value ends either with NULL.                                            *)
EnterLoop(kind) ==
    /\ mode = "run" /\ kind \in {"each", "while"}
    /\ Push(Frame(kind, Top.base))
    /\ UNCHANGED <<mode, varlist, jmplist, diemsg, unsaved>>

Iterate ==
    /\ \/ In("each") /\ mode \in {"value", "null"}
       \/ In("while") /\ mode = "value"
    /\ mode' = "run"
    /\ UNCHANGED <<stack, varlist, jmplist, diemsg, unsaved>>

LeaveLoop ==
    /\ In("each") \/ In("while")
    /\ mode \in {"value", "null"}
    /\ Pop
    /\ mode' \in {mode, "null"}
    /\ UNCHANGED <<varlist, jmplist, diemsg, unsaved>>

-----------------------------------------------------------------------------
(* Errors.                                                                 *)

(* dieDef: the message changes only if its argument has a value.           *)
Die(m) ==
    /\ mode = "run" /\ m \in Msgs \cup {diemsg}
    /\ diemsg' = m
    /\ mode' = "raise"
    /\ UNCHANGED <<stack, varlist, jmplist, unsaved>>

\* Bug: the buffer goes to the far end of jmplist.
SaveAtEnd ==
    /\ mode = "run"
    /\ Push(Frame("save", Top.base))
    /\ jmplist' = Append(jmplist, Len(stack) + 1)
    /\ UNCHANGED <<mode, varlist, diemsg, unsaved>>

(* saveDef adds its jmp_buf to jmplist and, in this order, looks at its    *)
(* arguments and calls setjmp.                                             *)
Save ==
    /\ mode = "run"
    /\ Push(Frame("save", Top.base))
    /\ jmplist' = <<Len(stack) + 1>> \o jmplist
    /\ UNCHANGED <<mode, varlist, diemsg, unsaved>>

Unfilled == 0

SaveWithoutArguments(m) ==
    /\ mode = "run" /\ m \in Msgs
    /\ jmplist' = <<Unfilled>> \o jmplist
    /\ diemsg' = m
    /\ mode' = "raise"
    /\ UNCHANGED <<stack, varlist, unsaved>>

\* Bug: a NULL result is returned before the buffer is taken off jmplist.
SaveReturnsEarly ==
    /\ In("save") /\ mode \in {"value", "null"}
    /\ jmplist' = IF mode = "value" THEN Tail(jmplist) ELSE jmplist
    /\ Pop
    /\ UNCHANGED <<mode, varlist, diemsg, unsaved>>

SaveReturns ==
    /\ In("save") /\ mode \in {"value", "null"}
    /\ jmplist' = Tail(jmplist)
    /\ Pop
    /\ UNCHANGED <<mode, varlist, diemsg, unsaved>>

(* recoverErr with no save active: the message is printed.                 *)
RecoverNowhere ==
    /\ mode = "raise" /\ jmplist = <<>>
    /\ mode' = "null"
    /\ unsaved' = TRUE
    /\ UNCHANGED <<stack, varlist, jmplist, diemsg>>

(* longjmp: the C stack is cut back to the frame that filled the buffer.   *)
(* Nothing puts varlist back.                                              *)
Target == stack[jmplist[1]]
Unwound(f) == [i \in 1 .. jmplist[1] |-> IF i = jmplist[1] THEN f ELSE stack[i]]

(* The handler's statements run with the error name bound to the message   *)
(* in whatever scope is innermost.  An error raised by a handler comes     *)
(* back to it: its buffer is still the first of jmplist.                   *)
RunHandler ==
    /\ mode = "raise" /\ jmplist # <<>> /\ jmplist[1] # Unfilled
    /\ diemsg # NoMsg
    /\ stack' = Unwound(HandlerFrame(Target.base, diemsg, Target.kind = "handler"))
    /\ varlist' = [varlist EXCEPT ![1] = diemsg]
    /\ mode' = "run"
    /\ UNCHANGED <<jmplist, diemsg, unsaved>>

(* A keyword argument that is no statement list saves nothing.  Which it   *)
(* is was settled by the call of save, and is chosen here, where it is     *)
(* first looked at.                                                        *)
NoHandler ==
    /\ mode = "raise" /\ jmplist # <<>> /\ jmplist[1] # Unfilled
    /\ Target.kind = "save"
    /\ stack' = SubSeq(stack, 1, jmplist[1] - 1)
    /\ jmplist' = Tail(jmplist)
    /\ UNCHANGED <<mode, varlist, diemsg, unsaved>>

(* The jumps that end in undefined behaviour: to a buffer not filled, to a *)
(* save without a keyword argument, or with no message to make a String of.*)
FatalJump ==
    /\ mode = "raise" /\ jmplist # <<>>
    /\ \/ /\ jmplist[1] = Unfilled
          /\ mode' = "badjump"
       \/ /\ jmplist[1] # Unfilled
          /\ Target.kind = "save" \/ diemsg = NoMsg
          /\ mode' = "nullderef"
    /\ UNCHANGED <<stack, varlist, jmplist, diemsg, unsaved>>

(* The handler's statements have ended, with whatever result: the error is *)
(* saved if the name is bound to another value than the message it was     *)
(* given.  deleteInTree then unbinds the name, if the name's node happens  *)
(* to be the root of the scope's tree.                                     *)
EndOfHandler(unbinds) ==
    /\ In("handler") /\ mode \in {"value", "null"}
    /\ varlist[1] # Unbound
    /\ varlist' = IF unbinds THEN [varlist EXCEPT ![1] = Unbound] ELSE varlist
    /\ jmplist' = Tail(jmplist)
    /\ Pop
    /\ mode' = IF varlist[1] # Top.str THEN "value" ELSE "raise"
    /\ UNCHANGED <<diemsg, unsaved>>

(* The innermost scope is not the one the name was bound in.               *)
ErrorNameLost ==
    /\ In("handler") /\ mode \in {"value", "null"}
    /\ varlist[1] = Unbound
    /\ mode' = "nullderef"
    /\ UNCHANGED <<stack, varlist, jmplist, diemsg, unsaved>>

Next ==
    \/ Import \/ ImportDone
    \/ NextStatement \/ SetErrorName
    \/ \E m \in {"value", "null"} : Builtin(m)
    \/ CallFunction \/ EnterFunction \/ NextArgument \/ ArgumentFails
    \/ FunctionReturns \/ FunctionFails
    \/ \E kind \in {"each", "while"} : EnterLoop(kind)
    \/ Iterate \/ LeaveLoop \/ EnterIf \/ LeaveIf
    \/ \E m \in Msgs \cup {diemsg} : Die(m)
    \/ Save
    \/ \E m \in Msgs : SaveWithoutArguments(m)
    \/ SaveReturns
    \/ RecoverNowhere \/ RunHandler \/ NoHandler \/ FatalJump
    \/ \E unbinds \in BOOLEAN : EndOfHandler(unbinds)
    \/ ErrorNameLost

Spec == Init /\ [][Next]_vars

-----------------------------------------------------------------------------
Saving(i) == stack[i].kind \in {"save", "handler"}

(* jmplist holds one buffer for every saveDef on the C stack, innermost    *)
(* first, and no other: after any mix of returns, NULL results and jumps,  *)
(* longjmp never goes to a frame that has returned (builtin.c:502-551).    *)
JmpListLive ==
    ~Crashed /\ ~(jmplist # <<>> /\ jmplist[1] = Unfilled) =>
        /\ \A i \in 1 .. Len(jmplist) : jmplist[i] \in 1 .. Len(stack) /\ Saving(jmplist[i])
        /\ \A i, j \in 1 .. Len(jmplist) : i < j => jmplist[i] > jmplist[j]
        /\ \A k \in 1 .. Len(stack) : Saving(k) => \E i \in 1 .. Len(jmplist) : jmplist[i] = k

(* However many scopes errors leave behind, the scopes of the active calls *)
(* stay: descope() and the end of an import never take away the global     *)
(* scope, or that of a caller (funcdef.c:44-52, fffll.y:155).              *)
ScopesKept ==
    /\ Len(varlist) >= 1
    /\ \A i \in 1 .. Len(stack) : Len(varlist) >= stack[i].base

(* An error is offered to every active save on its way out: no step takes  *)
(* a saveDef off the C stack while another one is active inside it         *)
(* (builtin.c:544-548, exception.c:47-54).                                 *)
NoSaveSkipped ==
    [][\A i, k \in 1 .. Len(stack) :
         i < k /\ Saving(i) /\ Saving(k) => i <= Len(stack')]_vars
=============================================================================
