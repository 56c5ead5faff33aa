------------------------------- MODULE MCExec -------------------------------
(* Small instances of Exec, and what the documentation says of errors and  *)
(* scopes.                                                                 *)
EXTENDS Exec, TLC

MsgSymmetry == Permutations(Msgs)

-----------------------------------------------------------------------------
(* What the documentation says, and the code does not do.                  *)

(* "Each function has its own level of scope" (README.md:97): while a body *)
(* is being evaluated, the innermost scope is the one its call added.      *)
OwnScope == mode = "run" /\ In("func") => Len(varlist) = Top.base

(* "stop execution immediately with an error message" (README.md:107):    *)
(* once an error was raised that no save could catch, no further statement *)
(* is evaluated.                                                           *)
DieStops == unsaved => mode # "run"

(* "Otherwise, the error was not ``saved'' and will be propagated to the   *)
(* next save block up" (README.md:109): a saving block runs once, and an   *)
(* error it raises itself goes to the next save up.                        *)
HandlerRunsOnce ==
    \A i \in 1 .. Len(stack) : stack[i].kind = "handler" => ~stack[i].again

(* "Wrong number of arguments for save" (exception.c:22): a save without   *)
(* arguments is reported, by a jump to a save that is active.              *)
SaveArgumentsReported == mode # "badjump"

(* README.md:109 again: when a saving block ends, its error is saved or    *)
(* propagated, also if the block itself failed.                            *)
HandlerDecides ==
    [][In("handler") /\ mode \in {"value", "null"} => mode' # "nullderef"]_vars
=============================================================================
