------------------------------- MODULE Reader -------------------------------
(***************************************************************************)
(* How source files become statement lists: the lexer's handling of        *)
(* imports (src/src/lexer.c) and the actions of the grammar's              *)
(* `statementlist' (src/src/fffll.y), with the lists they share:           *)
(*                                                                         *)
(*   yyinlist       the files whose reading was interrupted by an import   *)
(*   buffernames    the names of the files being imported                  *)
(*   parseTreeList  the statement lists being built                        *)
(*                                                                         *)
(* The lexer pushes and the grammar pops, and the parser reads one token   *)
(* ahead: a function call becomes a statement only when the lexer has      *)
(* delivered the token that follows it.                                    *)
(*                                                                         *)
(* A run on a file evaluates the imports and compiles the rest.  At the    *)
(* prompt (`repl') a call is evaluated when its last bracket was read,     *)
(* unless it is an argument itself, and what is kept is its value.  Only   *)
(* the innermost block's brackets are looked at: the calls in a block are  *)
(* evaluated as well, before the call the block is an argument of.         *)
(***************************************************************************)
EXTENDS Integers, Sequences, SequencesExt, FiniteSets

CONSTANTS
    Main,         \* the file named on the command line, or what is typed
    Texts,        \* what each file can hold: Texts[f] is a set of texts
    Installed,    \* the files found in the directory FFFLL_DIR names
    MaxImports    \* bound on the imports of one run

(* A text is a sequence of items, as they matter here: a call, the opening *)
(* and the closing of a call with a block as its argument, or an import.   *)
(* A list of imports, %a,b, is read as one import after the other.         *)
Call       == [item |-> "call"]
Open       == [item |-> "open"]
Close      == [item |-> "close"]
Percent(f) == [item |-> "import", file |-> f]
Item == {Call, Open, Close} \cup {Percent(f) : f \in DOMAIN Texts}

Depth(text, i) ==
    Cardinality({j \in 1 .. i : text[j] = Open})
        - Cardinality({j \in 1 .. i : text[j] = Close})

(* Blocks are closed, never empty, and hold calls only: imports are part   *)
(* of programs, not of statement lists (README.md:93, 103).                *)
ASSUME TextsWellFormed ==
    \A f \in DOMAIN Texts : \A text \in Texts[f] :
        /\ text \in Seq(Item)
        /\ Depth(text, Len(text)) = 0
        /\ \A i \in 1 .. Len(text) :
             /\ Depth(text, i) >= 0
             /\ text[i].item = "import" => Depth(text, i) = 0
             /\ text[i] = Open => i < Len(text) /\ text[i + 1] # Close
ASSUME MainHasText == Main \in DOMAIN Texts

VARIABLES
    repl,           \* the program is run without a file: at the prompt
    disk,           \* the text of each file
    argfilename,    \* the path to Main, as dirname() has left it
    yyin,           \* the inputs, innermost first
    buffernames,    \* the imports being read, innermost first
    parseTreeList,  \* the lists being built, innermost first
    lists,          \* every statement list made, in order
    parser,         \* the parser's stack, innermost first
    modules,        \* the imports read, each with the list evaluated for it
    blocks,         \* the blocks read, each with its list
    evaluated,      \* the statements evaluated so far, in order (history)
    opened,         \* the files opened, in order (history)
    end             \* how reading ended

vars == <<repl, disk, argfilename, yyin, buffernames, parseTreeList, lists,
          parser, modules, blocks, evaluated, opened, end>>
input == <<repl, disk>>
files == <<input, argfilename, buffernames, opened>>
output == <<modules, blocks, evaluated>>

(* The parser's stack holds, for the program and for each block begun, the *)
(* `statementlist' read so far and the `funcall' after it.                 *)
None == 0
Nothing == <<>>
Context(list, funcall) == [list |-> list, funcall |-> funcall]

Input(f, nth) == [file |-> f, nth |-> nth, pos |-> 1]

Init ==
    /\ disk \in {d \in [DOMAIN Texts -> UNION {Texts[f] : f \in DOMAIN Texts}] :
                   \A f \in DOMAIN Texts : d[f] \in Texts[f]}
    /\ repl \in BOOLEAN
    /\ argfilename \in IF repl THEN {"."} ELSE {"main", "dir/main"}
    /\ yyin = <<Input(Main, 1)>>
    /\ buffernames = <<>>
    /\ parseTreeList = <<>>
    /\ lists = <<>>
    /\ parser = <<Context(None, Nothing)>>
    /\ modules = <<>>
    /\ blocks = {}
    /\ evaluated = <<>>
    /\ opened = <<Main>>
    /\ end = "reading"

Here == yyin[1]
Ended == Here.pos > Len(disk[Here.file])
At(item) == end = "reading" /\ ~Ended /\ disk[Here.file][Here.pos].item = item
AtEnd == end = "reading" /\ Ended
Advance == yyin' = [yyin EXCEPT ![1].pos = @ + 1]

(* The item last read, a call or the closing of one, as a statement.       *)
Statement == [nth |-> Here.nth, pos |-> Here.pos]

Pending == parser[1].funcall # Nothing
FuncallRead == parser' = [parser EXCEPT ![1].funcall = <<Statement>>]
StatementInto(list) == parser' = [parser EXCEPT ![1] = Context(list, Nothing)]

-----------------------------------------------------------------------------
(* The lexer at a %.                                                       *)

(* dirname() cuts the file's name off the path it is given, and the path   *)
(* stays cut.                                                              *)
CutPath(path) == IF path = "dir/main" THEN "dir" ELSE path

(* Imports are kept beside Main: they are found there, if the path still   *)
(* leads there, or in FFFLL_DIR.  At the prompt that is where the program  *)
(* was started.                                                            *)
Reachable(f) == argfilename # "dir" \/ f \in Installed

(* The lexer goes on in the import, and pushes a list for it.  What is     *)
(* typed has no ends of lines, so that a comma has to follow the name.     *)
Import ==
    /\ At("import")
    /\ LET f == disk[Here.file][Here.pos].file IN
         /\ Reachable(f)
         /\ Len(opened) <= MaxImports
         /\ yyin' = <<Input(f, Len(opened) + 1), [Here EXCEPT !.pos = @ + 1]>> \o Tail(yyin)
         /\ buffernames' = <<f>> \o buffernames
         /\ opened' = Append(opened, f)
    /\ lists' = Append(lists, <<>>)
    /\ parseTreeList' = <<Len(lists) + 1>> \o parseTreeList
    /\ argfilename' = CutPath(argfilename)
    /\ UNCHANGED <<input, parser, output, end>>

(* An import that is not found is reported, and reading goes on.           *)
ImportNotFound ==
    /\ At("import")
    /\ ~Reachable(disk[Here.file][Here.pos].file)
    /\ Advance
    /\ argfilename' = CutPath(argfilename)
    /\ UNCHANGED <<input, buffernames, opened, parseTreeList, lists, parser, output, end>>

-----------------------------------------------------------------------------
(* The parser.  A pending call becomes a statement once a token follows.   *)

TokenFollows == At("call") \/ At("open") \/ At("close") \/ AtEnd

\* Bug: the list is not pushed when imports are being read.
FirstStatementUnlisted ==
    /\ TokenFollows /\ Pending /\ parser[1].list = None
    /\ lists' = Append(lists, parser[1].funcall)
    /\ parseTreeList' =
         IF buffernames = <<>> THEN <<Len(lists) + 1>> \o parseTreeList ELSE parseTreeList
    /\ StatementInto(Len(lists) + 1)
    /\ UNCHANGED <<yyin, files, output, end>>

(* statementlist: funcall                                                  *)
FirstStatement ==
    /\ TokenFollows /\ Pending /\ parser[1].list = None
    /\ lists' = Append(lists, parser[1].funcall)
    /\ parseTreeList' = <<Len(lists) + 1>> \o parseTreeList
    /\ StatementInto(Len(lists) + 1)
    /\ UNCHANGED <<yyin, files, output, end>>

\* Bug: the statement is put at the beginning of the list.
FurtherStatementFirst ==
    /\ TokenFollows /\ Pending /\ parser[1].list # None
    /\ lists' = [lists EXCEPT ![parseTreeList[1]] =
                    parser[1].funcall \o (IF repl THEN <<>> ELSE @)]
    /\ StatementInto(parseTreeList[1])
    /\ UNCHANGED <<yyin, files, parseTreeList, output, end>>

(* statementlist: statementlist funcall.  The list is the one in front.    *)
(* At the prompt it keeps the last value.                                  *)
FurtherStatement ==
    /\ TokenFollows /\ Pending /\ parser[1].list # None
    /\ lists' = [lists EXCEPT ![parseTreeList[1]] =
                    (IF repl THEN <<>> ELSE @) \o parser[1].funcall]
    /\ StatementInto(parseTreeList[1])
    /\ UNCHANGED <<yyin, files, parseTreeList, output, end>>

(* funcall: at the prompt it is evaluated now.                             *)
Evaluated == evaluated' = IF repl THEN Append(evaluated, Statement) ELSE evaluated

ReadCall ==
    /\ At("call") /\ ~Pending
    /\ FuncallRead
    /\ Evaluated
    /\ Advance
    /\ UNCHANGED <<files, parseTreeList, lists, modules, blocks, end>>

(* There an error gives no value, which is shown all the same; of a call   *)
(* of what a call returned it is not, and the parser gives up.             *)
CallFails ==
    /\ repl /\ ~Pending
    /\ At("call") \/ At("close")
    /\ end' \in {"nullderef", "aborted"}
    /\ UNCHANGED <<yyin, files, parseTreeList, lists, parser, output>>

OpenBlock ==
    /\ At("open") /\ ~Pending
    /\ parser' = <<Context(None, Nothing)>> \o parser
    /\ Advance
    /\ UNCHANGED <<files, parseTreeList, lists, output, end>>

\* Bug: the block's list stays in front.
CloseBlockListed ==
    /\ At("close") /\ ~Pending
    /\ blocks' = blocks \cup {[of |-> Statement, list |-> parser[1].list]}
    /\ parser' = [Tail(parser) EXCEPT ![1].funcall = <<Statement>>]
    /\ Evaluated
    /\ Advance
    /\ UNCHANGED <<files, parseTreeList, lists, modules, end>>

(* value: { statementlist }, and the function call it is an argument of.   *)
CloseBlock ==
    /\ At("close") /\ ~Pending
    /\ parseTreeList' = RemoveFirst(parseTreeList, parser[1].list)
    /\ blocks' = blocks \cup {[of |-> Statement, list |-> parser[1].list]}
    /\ parser' = [Tail(parser) EXCEPT ![1].funcall = <<Statement>>]
    /\ Evaluated
    /\ Advance
    /\ UNCHANGED <<files, lists, modules, end>>

(* The input that ends has another one under it.  Under an import at the   *)
(* prompt there is none, and the lexer says that all input has ended.      *)
ImportEnds == AtEnd /\ Len(yyin) > (IF repl THEN 2 ELSE 1) /\ ~Pending
InputEnds == AtEnd /\ Len(yyin) <= (IF repl THEN 2 ELSE 1) /\ ~Pending

\* Bug: reading goes on in the file that was named on the command line.
EndOfImportToMain ==
    /\ ImportEnds /\ parser[1].list # None
    /\ lists[parseTreeList[1]] # <<>>
    /\ modules' = IF repl THEN modules
                  ELSE Append(modules, [prefix |-> buffernames[1], data |-> parseTreeList[1]])
    /\ evaluated' = IF repl THEN evaluated ELSE evaluated \o lists[parseTreeList[1]]
    /\ parseTreeList' = Tail(parseTreeList)
    /\ yyin' = <<yyin[Len(yyin)]>> \o Tail(Tail(yyin))
    /\ buffernames' = Tail(buffernames)
    /\ UNCHANGED <<input, argfilename, opened, lists, parser, blocks, end>>

\* Bug: the list still has the calls, at the prompt too.
EndOfImportEvaluatedAgain ==
    /\ ImportEnds /\ parser[1].list # None
    /\ lists[parseTreeList[1]] # <<>>
    /\ modules' = IF repl THEN modules
                  ELSE Append(modules, [prefix |-> buffernames[1], data |-> parseTreeList[1]])
    /\ evaluated' = evaluated \o lists[parseTreeList[1]]
    /\ parseTreeList' = Tail(parseTreeList)
    /\ yyin' = Tail(yyin)
    /\ buffernames' = Tail(buffernames)
    /\ UNCHANGED <<input, argfilename, opened, lists, parser, blocks, end>>

(* EOFSYM, and statementlist: statementlist EOFSYM.  The list in front is  *)
(* evaluated, values doing nothing, in a scope that becomes the import's   *)
(* key-value list, and is kept to be compiled under the same name.         *)
EndOfImport ==
    /\ ImportEnds /\ parser[1].list # None
    /\ lists[parseTreeList[1]] # <<>>
    /\ modules' = IF repl THEN modules
                  ELSE Append(modules, [prefix |-> buffernames[1], data |-> parseTreeList[1]])
    /\ evaluated' = IF repl THEN evaluated ELSE evaluated \o lists[parseTreeList[1]]
    /\ parseTreeList' = Tail(parseTreeList)
    /\ yyin' = Tail(yyin)
    /\ buffernames' = Tail(buffernames)
    /\ UNCHANGED <<input, argfilename, opened, lists, parser, blocks, end>>

(* evaluateStatements evaluates the first node of a list without looking   *)
(* whether it holds a statement.                                           *)
EndOfEmptyImport ==
    /\ ImportEnds /\ parser[1].list # None
    /\ lists[parseTreeList[1]] = <<>>
    /\ end' = "nullderef"
    /\ UNCHANGED <<yyin, files, parseTreeList, lists, parser, output>>

EndOfMain ==
    /\ InputEnds /\ parser[1].list # None
    /\ end' = "accepted"
    /\ UNCHANGED <<yyin, files, parseTreeList, lists, parser, output>>

(* An import or a program is no program before the first statement.        *)
NoStatement ==
    /\ AtEnd /\ ~Pending /\ parser[1].list = None
    /\ end' = "syntax error"
    /\ UNCHANGED <<yyin, files, parseTreeList, lists, parser, output>>

Next ==
    \/ Import \/ ImportNotFound
    \/ FirstStatement \/ FurtherStatement
    \/ ReadCall \/ CallFails \/ OpenBlock \/ CloseBlock
    \/ EndOfImport \/ EndOfEmptyImport \/ EndOfMain \/ NoStatement

Spec == Init /\ [][Next]_vars

(* What is compiled: the modules in the order they ended, then the list in *)
(* front.                                                                  *)
Program ==
    FlattenSeq([i \in 1 .. Len(modules) |-> lists[modules[i].data]])
        \o lists[parseTreeList[1]]

-----------------------------------------------------------------------------
(* The statements read so far, of the nth file opened.                     *)
StatementsRead(nth) ==
    LET text == disk[opened[nth]]
        read == {i \in 1 .. Len(yyin) : yyin[i].nth = nth}
        upTo == IF read = {} THEN Len(text) ELSE yyin[CHOOSE i \in read : TRUE].pos - 1
    IN  {[nth |-> nth, pos |-> p] : p \in {q \in 1 .. upTo : text[q] \in {Call, Close}}}

Listed(sts) == UNION {ToSet(sts[i]) : i \in DOMAIN sts}
InUse ==
    ToSet(parseTreeList) \cup {m.data : m \in ToSet(modules)} \cup {b.list : b \in blocks}

AllRead == UNION {StatementsRead(nth) : nth \in 1 .. Len(opened)}

(* Whatever mix of imports, calls and blocks is read from files, every     *)
(* statement is waiting in the parser or in one list that something still  *)
(* holds, once (fffll.y:162, 165-175, 274-288, 581).                       *)
NoStatementLost ==
    LET waiting == UNION {ToSet(parser[i].funcall) : i \in 1 .. Len(parser)}
        held == [l \in InUse |-> lists[l]]
    IN  ~repl =>
        /\ Listed(held) \cup waiting = AllRead
        /\ Listed(held) \cap waiting = {}
        /\ \A l, k \in InUse : l # k => ToSet(lists[l]) \cap ToSet(lists[k]) = {}
        /\ \A l \in InUse : IsInjective(lists[l])

(* A list never has a later statement of a file before an earlier one.     *)
OrderKept ==
    \A l \in 1 .. Len(lists) : \A i, j \in 1 .. Len(lists[l]) :
        i < j /\ lists[l][i].nth = lists[l][j].nth => lists[l][i].pos < lists[l][j].pos

(* No statement is evaluated again when an import has ended.  At the       *)
(* prompt all that were read are evaluated, in the imports too, and none   *)
(* before an earlier one of its file (fffll.y:141-171, 178-272).           *)
EvaluatedOnce ==
    /\ IsInjective(evaluated)
    /\ repl =>
        /\ ToSet(evaluated) = AllRead
        /\ \A i, j \in DOMAIN evaluated :
             i < j /\ evaluated[i].nth = evaluated[j].nth => evaluated[i].pos < evaluated[j].pos

(* A block gets the statements inside it, no more and no less, and none of *)
(* a block inside it; at the prompt, the last one's value (fffll.y:164-199,*)
(* 581-584).                                                               *)
BlocksWhole ==
    \A b \in blocks :
        LET text == disk[opened[b.of.nth]]
            depth == Depth(text, b.of.pos) + 1
            begin == CHOOSE i \in 1 .. b.of.pos :
                        /\ text[i] = Open /\ Depth(text, i) = depth
                        /\ \A j \in i .. b.of.pos - 1 : Depth(text, j) >= depth
            inside == {p \in begin + 1 .. b.of.pos - 1 :
                         text[p] \in {Call, Close} /\ Depth(text, p) = depth}
            kept == IF repl THEN {p \in inside : \A q \in inside : q <= p} ELSE inside
        IN  ToSet(lists[b.list]) = {[nth |-> b.of.nth, pos |-> p] : p \in kept}

(* The three lists agree: the name EOFSYM carries is that of the file that *)
(* ended, and there is a list for every import and for every statement     *)
(* list begun, so that one is left for Main (lexer.c:266-274, 395-405).    *)
InStep ==
    /\ Len(buffernames) = Len(yyin) - 1
    /\ \A i \in 1 .. Len(buffernames) : yyin[i].file = buffernames[i]
    /\ Len(parseTreeList) =
         Len(yyin) - 1 + Cardinality({i \in 1 .. Len(parser) : parser[i].list # None})
=============================================================================
