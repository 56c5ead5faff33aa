-------------------------- MODULE MCCompiledSave ---------------------------
(* Instances of CompiledSave, and what the documentation says of errors.   *)
EXTENDS CompiledSave, TLC

(* Programs whose handlers have saves or raise errors, and those whose     *)
(* handlers do both.                                                       *)
Apart == {{"save"}, {"raise"}}
Both == {{"save", "raise"}}
Symmetry == Permutations(Msgs) \cup Permutations(Files)

(* "call the die builtin in order to stop execution immediately with an    *)
(* error message" (README.md:107): outside of every save, too.             *)
DieReports == mode # "nullderef"

(* "One may place a block of code that may die as the first argument to    *)
(* save" (README.md:107): the handler that runs is that of a block the     *)
(* program has not left.                                                   *)
HandlerOfItsBlock ==
    [][\A m \in Msgs : Die(m) /\ frames' # frames /\ mode' = "run" =>
         Body(Last(frames').id) \in ToSet(frames)]_vars

(* "Otherwise, the error was not saved and will be propagated to the next  *)
(* save block up" (README.md:109): with its message.                       *)
MessagePropagated ==
    [][HandlerRaises /\ mode' = "run" => Last(frames').name = Last(frames).name]_vars

(* README.md:107 again, for a program with lists of any length.            *)
HandlersSurviveGrowth == ActiveHandled
=============================================================================
