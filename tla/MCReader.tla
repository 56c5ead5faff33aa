------------------------------ MODULE MCReader ------------------------------
(* Small sets of files for Reader, and what the documentation says of      *)
(* imports.                                                                *)
EXTENDS Reader

(* main imports a and b, a imports b, b imports nothing.                   *)
SmallTexts ==
    [f \in {"main", "a", "b"} |->
        CASE f = "main" ->
               {<<Percent("a"), Call, Call>>,
                <<Call, Percent("a"), Call, Percent("b")>>,
                <<Call, Call, Percent("b"), Percent("a"), Call>>,
                <<Open, Call, Open, Call, Close, Call, Close, Percent("a"), Call>>,
                <<Percent("b"), Open, Call, Call, Close, Percent("b")>>,
                <<Percent("a")>>, <<>>}
          [] f = "a" ->
               {<<Call, Call>>, <<Percent("b"), Call>>, <<Call, Percent("b")>>,
                <<Call, Call, Percent("b"), Open, Call, Close>>,
                <<Call, Percent("b"), Call>>, <<Open, Call, Close>>, <<>>}
          [] f = "b" ->
               {<<Call>>, <<Call, Open, Call, Close, Call>>, <<>>}]

TidyTexts ==
    [f \in {"main", "a"} |->
        IF f = "main" THEN {<<Call, Percent("a"), Call>>} ELSE {<<Call>>}]
ImportsFirst ==
    [f \in {"main", "a", "b"} |->
        CASE f = "main" -> {<<Percent("a"), Percent("b"), Call>>}
          [] f = "a" -> {<<Call>>}
          [] f = "b" -> {<<Call>>}]
ImportLast ==
    [f \in {"main", "a", "b"} |->
        CASE f = "main" -> {<<Percent("a"), Call>>}
          [] f = "a" -> {<<Call, Percent("b")>>}
          [] f = "b" -> {<<Call>>}]
TwoCallsFirst ==
    [f \in {"main", "a"} |->
        IF f = "main" THEN {<<Call, Call, Percent("a"), Call>>} ELSE {<<Call>>}]

-----------------------------------------------------------------------------
(* What the documentation says, and the code does not do.                  *)

(* "Imports are now contained entirely in their own namespace" (NEWS:9):   *)
(* what is evaluated for an import are the statements of its own file.     *)
OwnNamespace ==
    \A i \in 1 .. Len(modules) : \A s \in ToSet(lists[modules[i].data]) :
        opened[s.nth] = modules[i].prefix

(* "Each function call in a program will be executed in the order in which *)
(* it appears in the program" (README.md:103), imports in the middle: the  *)
(* statements before an import come before those of the import.            *)
InOrder ==
    end = "accepted" =>
        \A s, t \in ToSet(Program) :
            s.nth = 1 /\ t.nth # 1 /\ (\A p \in 1 .. s.pos : disk[Main][p].item # "import")
            => \E i, j \in 1 .. Len(Program) : i < j /\ Program[i] = s /\ Program[j] = t

(* README.md:103 again, for the statements of one import: what is before   *)
(* an import is evaluated before what comes after it.                      *)
EvaluatedInOrder ==
    \A i, j \in DOMAIN evaluated :
        i < j /\ evaluated[i].nth = evaluated[j].nth => evaluated[i].pos < evaluated[j].pos

(* "Imports are relative to the directory in which the importer resides"   *)
(* (README.md:31): an import beside the importer is found.                 *)
ImportsFound == At("import") => Reachable(disk[Here.file][Here.pos].file)

(* "A fffll program consists of a series of function calls, comments and   *)
(* imports" (README.md:103), in any order: also an import that ends with   *)
(* one can be evaluated.                                                   *)
ModulesEvaluated == ~repl => end # "nullderef"

-----------------------------------------------------------------------------
(* At the prompt.                                                          *)
BlockTyped == [f \in {"main"} |-> {<<Open, Call, Call, Close>>}]
ImportTyped ==
    [f \in {"main", "a"} |->
        IF f = "main" THEN {<<Call, Percent("a"), Call>>} ELSE {<<Call>>}]

(* "One may place a block of code that may die as the first argument to    *)
(* `save`" (README.md:107): whether and when a block is evaluated is up to *)
(* the function it is given to, and reading it evaluates nothing.          *)
BlocksWait ==
    \A i \in DOMAIN evaluated : Depth(disk[opened[evaluated[i].nth]], evaluated[i].pos) = 0

(* "Imports cause another fffll file to be executed in the middle of the   *)
(* execution of the file doing the import" (README.md:103): the session    *)
(* goes on after it.                                                       *)
ImportGoesOn == end = "accepted" => Len(yyin) = 1
=============================================================================
