# A TLA+ model of fffll

fffll ("fun functional fixed-length lists") is a small functional language.
This directory holds TLA+ modules that model its interpreter and compiler
(`src/src/*.c`, `src/src/fffll.y`) and the assembly run-time of compiled
programs (`src/asm/*.s`), the TLC configurations that check them on small
instances, and proofs about them for TLAPS.

The program is sequential: one thread, no signals, no callbacks from outside.
What is hard in it is not concurrency.  It is that several global structures
(scopes, jump buffers, inputs, statement lists, free nodes, interned strings)
must stay in step with the C stack and with each other through a very large
number of legal sequences of calls, while errors leave the normal path by
`longjmp`, by a NULL that is handed upwards, or, in compiled code, by a jump
through words left on the machine stack.  In every module below the fffll
program is not fixed: whatever the language allows next may come next.

`README.md:n` and `NEWS:n` below, and in the modules, are the repository's
(`src/README.md`, `src/NEWS`).

## 1. Inventory

| Component | Source | State it keeps | Operations | Correct means |
|---|---|---|---|---|
| List-node allocator | `list.c:154-179, 332-356`, `array.c` | `ListManager`: pools, frontier, array of freed nodes | allocList, freeListNode, freeListAlloc | no node handed out twice, none lost, no access past an array, no freed pool still referred to |
| Linked lists | `list.c` | chains of nodes | newList, addToListBeginning/End, deleteFromListData/Beginning, cloneList, freeList, and others nobody calls | each operation does its job on its list and leaves the others alone; nodes have one owner |
| Name trees | `tree.c` | AVL trees of names | insertInTree, findInTree, deleteInTree, deleteDataInTree, copyTree | ordered, balanced, a partial map |
| Evaluation and errors | `evaluate.c`, `funcdef.c`, `builtin.c`, `exception.c`, `repl.c` | C stack, `varlist`, `jmplist`, `diemsg` | statements, calls, `for`, `if`, `die`, `save`, imports | an error reaches the innermost active save; the innermost scope is that of the active function |
| Lists as values | `evaluate.c`, `builtin.c`, `typecast.c` | list literals, shared by reference; scopes | indexing, `set`, `push`, `head`, `tail` | a name with indices reads the element; `set` changes that one only |
| Boolean expressions | `typecast.c`, `fffll.y:431-499` | `lasteval`, the parser's stack of values | evaluateBoolExpr | what README.md:77-89 says, as far as section 5 goes |
| Strings and messages | `value.c:69-105`, `builtin.c:526-548`, `exception.c` | `stringlist`, reference counts, `diemsg` | addToStringList, freeString, die, save | equal texts are one String, no text is freed while used |
| Values | `value.c`, `builtin.c:37-62, 553-702`, `funcdef.c:22-127` | a count in each Value | set, calls, builtins, leaving a scope | nothing that can still be reached was freed; each count covers the owners |
| Lexer | `lexer.c` | `parencount`, `yyinlist`, `buffernames` | yylex | comments, strings, names and inserted commas as in README.md:25-49; imports found |
| Parser | `fffll.y` | `parseTreeList`, the parser's stack | actions of the grammar | every statement in one list, in order |
| Prompt | `repl.c:38-60`, `fffll.y:125-236`, `lexer.c` | the same, statements evaluated while parsed | actions of the grammar | every statement evaluated once, in order |
| Compiler | `compiler.c` | the text it emits, the names it has seen | valueToLlvmString, printFunc, main | the compiled program writes what the interpreted one writes |
| Run-time | `asm/list.s`, `asm/std.s` | pages of nodes, labels `jmplist`, `closelist`, the machine stack | _alloc_list, _open, _die, _safe_exit, ranges, heap | an error in a save finds its handler; open files are closed at exit |
| numtostr | `asm/numtostr.s` | none | number to text | not modelled: floating point |
| Input/output, HTTP, regular expressions | `builtin.c`, `regex.c` | external | read, write, open, ... | not modelled: external libraries |
| Python implementation | `src/python/fffll.py` | | | not modelled: superseded |

How they interact:

- The parser calls the lexer for one token at a time, one ahead.  Both push
  to and pop from `parseTreeList`, `yyinlist` and `buffernames`: the lexer at
  `%import` and at the end of a file, the grammar when it reduces.
- When a module ends, the grammar evaluates its list (interpreter) or hands it
  to the compiler.
- `evaluateStatements` calls `evaluateFuncVal`, which calls a builtin or
  `evaluateFuncDef`; `scope`/`descope` push and pop `varlist`.  A scope is a
  tree of names.  `save` pushes a `jmp_buf` to `jmplist`; `raiseErr` and
  `die` go through `recoverErr`, which jumps there; `errmsg` only prints, and a
  NULL is handed upwards.
- All of them get their nodes from `ListManager`, their strings from
  `stringlist`.

## 2. Modules

| Module | Models | State and actions |
|---|---|---|
| `NodePool` | what an allocator promises | who holds which node; take, give back |
| `ListAlloc` | the allocator | `ListManager`'s fields, the pools malloc gave, what each handle holds.  `AllocList` is `allocList` with its three sources of nodes, `FreeListNode` with its two destinations and the release of pools, `FreeListAlloc`.  Implements `NodePool` |
| `ListPromise` | what the list operations promise | contents of lists as sequences |
| `HeapList` | `list.c` as pointers, on `ListAlloc` | `data` and `next` of every node; one action per operation in use, or per node for `freeList` and `cloneList`, each with the allocator's action.  `Users` says which operations the user of a list keeps to |
| `Chains` | what is found from a node on, link by link | an operator without state, used by `HeapList`, `CompiledSave` and `CompiledList`: the least set closed under the links |
| `ListContents` | what the lists of `HeapList` have in them | sequences read off the nodes; every operation compared with `ListPromise` |
| `HeapListProofs` | theorems about `ListAlloc`, `HeapList` and `ListContents` | |
| `VarTree` | `tree.c` | functions on trees that mirror the code's, each node with key, data, `count` and subtrees |
| `KeyTree` | one tree and its users | bind, bind a named key and drop the new root, unbind by key or by data, copy |
| `Exec` | control in the interpreter | `stack` is the C stack with a record per active call that matters, `mode` what the innermost does, `varlist`, `jmplist`, `diemsg`.  One action per step between two of those calls |
| `ExecProofs` | theorems about `Exec` | |
| `BoolExpr` | `evaluateBoolExpr` | environment, reference counts of strings, calls made |
| `ListIndex` | indexing, set, push, tail | `heap` of list literals, `scopes`; `evaluateValue`, `setDef`, ... are operators from which the actions are made |
| `StringTable` | interned strings, `diemsg` | Strings, their buffers, what really refers to them.  `Spec` is the code; `OnceSpec` has each message meet one save only |
| `StringTableProofs` | theorems about `StringTable` | |
| `Reader` | lexer and grammar at the level of statements, files and the prompt | files, inputs, the three lists, the parser's stack, what was `evaluated`; actions are reductions and the lexer's imports and ends of file; `repl` says that standard input is read |
| `ReaderProofs` | theorems about `Reader` | |
| `Values` | reference counts of Values in the interpreter | which Values are allocated and their counts, scopes, calls under way with the arguments evaluated so far.  A program is not given: what it calls next is chosen at each step |
| `ValuesProofs` | theorems about `Values` | |
| `Scanner` | the lexer at the level of characters | `lex` is the code's state, `doc` a reader that follows README.md; one step per character |
| `ScannerProofs` | theorems about `Scanner` | |
| `Compile` | the compiler | operators from a program's syntax to instructions; jumps are relative |
| `Meaning` | the interpreter on the same syntax | operators that give what a program writes, and whether it fails |
| `Machine` | the compiled program | registers, stack, names, flags of keywords, memory of list nodes, output; one action per instruction that differs, `_list_next` among them.  `Programs` are given with their code and meaning, as `Compiled` says |
| `CompiledSave` | compiled `save`, `die`, `open`, exit, allocation of nodes | two-word nodes in pages, labels, words on the machine stack; what comes next in the program is not given, but `handlers` says whether its handlers have saves, or raise errors |
| `CompiledSaveProofs` | theorems about `CompiledSave` | |
| `CompiledList` | compiled `for`, `len`, `write`, `push` and `tail` on lists with ranges | chains of nodes, ranges with their one current number, the loops a program is in; one action per turn of `_list_next`'s loop (`Turn` has its branches), numbers compared as words |
| `ListElements` | what the lists of `CompiledList` mean | the elements of a list by recursion along its nodes, compared with what a loop passed |
| `CompiledListProofs` | theorems about `CompiledList` | |

Modules compose through promises: `Exec`, `Reader` and `ListIndex` use lists as sequences, which is `ListPromise`; scopes as maps,
which is `BindExact` of `KeyTree`.  Three compositions are checked as such.  `HeapList` extends
`ListAlloc`, so each list operation calls the allocator's own actions, and in
one run the allocator keeps to `NodePool` and the operations to `ListPromise`;
that the lists keep to the allocator is proved (`ListsUseAllocator`), and that they keep to
`ListPromise` too (`OperationsStayExact`).
`Machine` runs the code `Compile` makes, and `Meaning` says what the interpreter
does with the same program.  `Reader` evaluates statements of the prompt, and
modules of a file, at the reductions that do so.  `MC...` modules hold instances and the statements of the
documentation that the code does not keep (section 5).

A comment `\* Bug:` in a module stands before an altered definition which
differs from the next one as a plausible error in the code would; each property
has one such definition that it catches.

## 3. Runs and bounds

| Run | Configuration | Shows | Bounds and why they are enough |
|---|---|---|---|
| lists | `MCHeapList.cfg` | `NoAliasing`, `Accounting`, `NoDanglingPool`, `ArraysLargeEnough`, `NodesOwned`, `OperationsExact`; implements `NodePool` | two lists, one used as a stack and one as a queue, of 5 nodes in all; pools of 2 nodes, arrays that start with 1 and grow by 1 and by doubling: three pools are opened and given back, and the array of free nodes grows past its length, while lists are being freed and copied.  Two values, which may be equal, so that deleting the first of two equal ones differs from deleting the other.  The two lists and the two values are symmetric.  All is proved for all sizes |
| trees | `MCKeyTree.cfg` | `OrderKept`, `BalanceKept`, `BindExact`, `UnbindSparesOthers`, `UnbindDataExact` | bound names only: up to 7 names in every order, which reaches all single and double rotations at the root and below; a scope of 6 names with two values each, so that a name is bound again to another value, and a value that went to another name, or was kept, is seen: `BindExact` looks at the result of every binding in every state.  Unbinding: 5 names in every order, and four trees of 12, from which deleting names in every order rotates with a non-empty inner subtree |
| control | `MCExec.cfg` | `JmpListLive`, `ScopesKept`, `NoSaveSkipped` | 4 frames, 4 scopes, 2 messages: save in a function in a save, a loop in it, a handler that fails, and scopes that were left behind.  Proved for all sizes |
| values | `MCValues.cfg` | `NothingDangles`, `OwnersCounted` | a literal, three Values that `add` makes, `false`; a function with a parameter and a keyword; a name that was set and one that was not; any 4 calls, one in the other's arguments or in the function: a name shared with an argument, set again while an argument refers to it, returned, and returned by a call in an argument.  Three made Values suffice for one in a name, one in an argument and one that is returned.  Proved for all programs |
| list_index | `MCListIndex.cfg` | `ReadsAsDocumented`, `SetExact`, `PushAndTailExact` | two programs, with a range upwards and one downwards before other elements, a list in a list and a cycle through a named key; in *every* state two statements reach, every read of a name with up to two indices and the effect of every set, push and tail are compared with their meaning |
| bool_expr | `MCBoolExpr.cfg` | `AsSpecified` | one comparison, or two joined, each negated or not, over the values a comparison can tell apart, with two calls that return different values.  `y = v` has values of all types on the left, numbers and strings on the right, some of which count the same; `Odd = {}` leaves those pairs out (section 5) |
| strings | `MCStringTable.cfg` | `Interned`, `TextsLive`, `CountsCover` | 3 Strings, 4 buffers, 3 texts, 3 references.  Proved for all sizes |
| reading | `MCReader.cfg` | `NoStatementLost`, `OrderKept`, `EvaluatedOnce`, `BlocksWhole`, `InStep` | 3 files with up to 10 items, imports within imports (twice the same), at the start, in the middle and at the end, nested blocks; 4 imports; the same texts as files and at the prompt.  Proved for all texts |
| scanner | `Scanner.cfg` | `TokensAsSpecified`, `TextsAsSpecified`, `CommasAsSpecified` | any text with brackets at most 4 deep and strings of 2 characters: a block in an argument list in a block.  Proved for all depths |
| compiled_code | `MCMachine.cfg` | `StackBalanced`, `FlagsTaken`, `ComputesSource`, `ProgramEnds` | the sets of programs in `MCMachine`: calls with arguments and keywords, given, by default and left over, one and two deep in each other's arguments; conditions of one or two comparisons in `if` with up to three blocks; loops with a condition and over lists, within each other and left empty; recursion, functions that are returned; programs that fail |
| compiled_lists | `MCCompiledList.cfg` | `RangesRewound`, `EveryElementOnce` | four programs of two lists, with a range in front and elements behind it as the grammar makes them (`fffll.y:311-315`), with default and given increments, up and down across zero; two loops, and 7 nodes, which is two or more than a program begins with.  `RangesRewound` is proved for all programs |
| compiled_save | `MCCompiledSave.cfg` | `ActiveHandled`, `FilesListed` | 4 saves, 2 messages, 2 files, one page of 12 nodes; programs whose handlers have saves in them, and programs whose handlers raise errors: a save in the handler of a save in a handler.  Proved for all sizes within one page |

`CHECK_DEADLOCK FALSE`: every one of these systems really stops, when the
program has ended or crashed, or when a bound of the model is reached.
Symmetry is used where the permuted values are only compared for equality
(handles, nodes, messages, strings, files), never with a temporal property
other than an action property.

`VIEW` leaves a variable out that no guard and no property of the states
reads: in `MCHeapList`, which of the interchangeable handles stands for which
slot; in `MCValues`, what the program itself (not a function) has returned.

**Fairness and liveness.**  `Machine` has `WF_vars(Next)`: the processor goes
on to the next instruction as long as there is one, and no two programs run.
`ProgramEnds` says that each program of the run comes to its end or to an
error; all of them would end if interpreted (`Meaning` gives a result), so what
it rules out is code that jumps back too far, a loop whose list is not advanced
and a jump out of the code.  The other specifications are safety specifications:
there, what comes next is chosen by a fffll program that need not end, and
nothing the code promises has the form "eventually".  Where the interpreter
itself does not come to an end (the end of a file within a line comment,
`lexer.c:116`) it is listed with the hazards in `PROJECT.json`.

## 4. Proofs

The first part of `HeapListProofs` proves of `ListAlloc`, for every pool size, every growth and any set of
handles (`SizesPositive`, `NullIsNoSlot`), that the allocator satisfies
`TypeCorrect`, `NeverAliases`, `NodesAccounted`, `NoPoolDangles`, `ArraysFit`,
`FrontierStaysOpen` and `ImplementsNodePool`.  None of these is inductive alone.
That `allocList` returns a node nobody holds depends on each node of the array
of free ones being there once and not held (`Accounting`), on the frontier
lying above every node in use and its pool being one that is live
(`NoDanglingPool`, `FrontierOpen`), and on both arrays having room for what is
written (`ArraysLargeEnough`).  So the invariant `IInv` joins all of them, with
`Bookkeeping`: nothing is held before the first call, and the array of free
nodes has a length that doubling makes larger.  There is a lemma for each
source of a node and each destination, and the theorems follow from `IInv`;
`ImplementsNodePool` also needs that each step is one of `NodePool` or a stutter
(`AllocIsFresh`).  `TypeCorrect` and `FrontierStaysOpen` state parts of `IInv`
that no run lists: the others hold only because of them.

The second part proves of `HeapList`, for any number of lists, any pool size and whichever
operations are used together, with or without the discipline of stacks and
queues (`PushedOrAdded`, which this part does not use): the steps of the lists are steps of the allocator (`ListsUseAllocator`,
so that every theorem above holds of `HeapSpec`; `ListsNeverAlias` is one of them),
and `NodesStayOwned`.  `NodesOwned` says of whole chains what is kept by steps
that change one or two links, so the invariant `Owned` speaks of single nodes: none
is linked to the first of a list or to the same node as another (`Apart`), and
no set but that of all nodes has all first ones and is closed under the links
(`Whole`), which is that none is lost and none is in a circle.  Four lemmas
without state say that a new list, a node put behind another, and the first or a
further node taken out keep both (`NewHead`, `AddBehind`, `DropHead`, `DropNext`); every
operation is one of them, with what the allocator hands out or takes back
(`AllocStep`, `FreeStep`).  In the middle of `cloneList` and `freeList` two more facts
are needed (`Going`): the copy made last is the last of its list, and what is being freed is
in no place any more.  That `Owned` gives `NodesOwned` is `ReachApart` and `OwnedNodes`.

The third part proves of `ListContents`, for any number of lists of any length, that every
operation is that of `ListPromise` on its list's sequence (`OperationsStayExact`).  What is
read off a list is a recursive function of its nodes, and no induction over it is at hand.  So a
list is given by a witness: `Chain` says that `s` has its `k` nodes in order, `ChainReach` that
these are all that is found, `ItemsAre` that reading them gives `Found`, the data of `s`
in order.  The last is by a function written down in full, which satisfies the recursive
definition and, as the least number where two such functions differ would
have one before it (`Least`), is the only one.  `ChainInsert`, `ChainRemove`, `ChainTail` and
`ChainOfOne` say what each operation makes of a chain; `AppendIs`, `PrependIs` and `RemoveIs`
compare the result with the sequence.  The invariant `ContentsInv` adds to `HeapInv` that
every list has a chain, which is that it ends (`Chained`); that only the last node of a list
lacks data, and of a queue only the first (`Given`), since reading passes over such nodes
but `addToListEnd` fills one, which would be in the middle otherwise; and that a copy has so far what was
copied (`Copied`).  A list that is both a stack and a queue could have a first node without data
before others, which `addToListEnd` would fill: `PushedOrAdded` excludes it, as no `List*` in the
code is given to both `addToListBeginning` and `addToListEnd`; every run evaluates it.  That an operation is seen in
no other list (`OthersKept`) is `NodesOwned` again.

`StringTableProofs` proves for `OnceSpec`, for any sets of Strings, buffers and
texts, the invariant `IInv` (`StringsInductive`) and from it `StringsTyped`,
`AlwaysInterned`, `TextsStayLive` and `CountsSuffice`.  The four properties hold
each other up: a text stays the same because its buffer is not given to another
String and not freed, and it is not freed because no other String has it.
`SaveMessage` needs that `diemsg` is no String's text yet, its guard in
`OnceSpec`; where it is, `Spec` takes the step that violates `TextsKept` below.

`ExecProofs` proves for every depth of the C stack and any number of scopes,
messages and saves `ControlTyped`, `BuffersStayLive`, `ScopesStay` and
`SavesInOrder`, the three properties of the run `control`.  `IInv` has, besides
`TypeOK`, that the file is the outermost frame (`ModuleOutermost`), that the
scopes a frame found when it began are still there and grow with the stack
(`ScopesNested`), and `Buffers`.  The last is what `JmpListLive` lacks to be
inductive: a jump goes to the first buffer, so all of those behind it must belong
to frames further out, and every active save must have one; only the first may
not be filled in yet, while a save evaluates its arguments.  Then a jump ends at
the innermost save (`SavesInOrder`), and the frames it leaves are above it.

`ReaderProofs` proves for all files, all texts and every nesting of imports and
blocks `ReaderTyped`, `ListsStayInStep`, `StatementsInOrder`, `StatementsKept`,
`StatementsEvaluatedOnce` and `BlocksStayWhole`.  The assumption on texts (`TextsWellFormed`) is that
brackets match, blocks are not empty and an import is not in a block, as the
grammar has it.  `IInv` says where each statement that was read is: waiting in a
context of the parser, or in one list (`Statements`), that the list is one on
`parseTreeList`, a module's or a block's (`ListsKept`), that every statement in a
list is before the position its input has reached (`IsRead`), that an input was
opened after the one it interrupts (`InputsOpened`), and how the contexts of the
parser, the lists and the open blocks follow each other (`ListsInStep`,
`BlocksOpen`).  Without these, nothing would keep the parser from handing a
statement to a list that was evaluated already.  `BlocksStayWhole` needs two more
(`BlocksInv`): each context of the parser is that of a block begun somewhere in the
text, not closed since, and has exactly what was read at its depth, but for the
call that waits (`BlocksFilled`); and a block that was read shares its list
with none that is still filled (`BlocksDone`).  That the bracket `BlocksWhole` looks
for is the one where the context began is `BegunOnce`: two blocks are
never open at the same depth.

`ScannerProofs` proves for texts of any length and depth `TokensInStep`,
`TextsInStep` and `CommasInStep`: if `Odd` is empty, the lexer and a reader that
follows README.md agree.  `IInv` relates their states (`Places`, `Brackets`).  The
lexer has one count of parentheses for every block that is open, the reader
a stack of all brackets; that one determines the other's answer needs a lemma
about counts for each bracket that is opened or closed.

`ValuesProofs` proves, for programs of any length with calls nested in any way,
`ValuesTyped`, `CountsCover` and `NoDangling`, if `Odd` is empty.  A count is
at least the number of shares (`Covered`): spots in the names of all scopes, in
the calls under way, in the text, in the result of a body that has not returned
yet, and in what was evaluated last where no name has it; a Value that was freed
has none.  For a call under way this is not enough.  Operands of a comparison and
the names of a `for` are *not* counted: the first are live because a scope
around has them under a name and no such scope ends earlier (`Nested`), the
second because only the program's own loops have names and their elements are
literals (`Loops`).  Besides, what was evaluated last is live, and if a name gave it, some scope
has it (`Evaluated`); and a call whose argument is being evaluated still has a
name for it (`Awaited`).  The odd cases are five ways for a program to break
just these, and section 5 has a violation for each of them.

`CompiledSaveProofs` proves for compiled programs of any length, with any number
of saves and files, if all nodes fit into one page (`MaxPages = 1`), `OpenFilesListed`
for every program, and `SavesTyped` and `ActiveSavesFound` for those whose
handlers do not both have saves in them and raise errors of their own.  The words a
save leaves on the stack are never taken away by its end, so `ActiveHandled` rests on
where they are.  `IInv` has: the nodes put on `jmplist` are linked
to each other or to the first of the page (`JumpsLinked`); every frame, from the
outermost on, has words of its own on the stack, each above those before, and a
body's word is its handler's address, to which a node found from `jmplist` leads
(`FramesPlaced`); the same is so for what was around a save whose address is
still on the stack, below that address (`BranchesFounded`), since a jump there brings
those frames back.  An error raised in a handler takes the word below the handler's for its
message, and leaves it at another height than it was at; if that word is an
address, it must be the one the error jumps to.  This is `Straight`: without
saves in handlers, every height below the handler's words is that of a node, the
first of `jmplist` the highest.  The list of files needs much less (`FilesInv`):
that a node handed out held nothing.  What is found from a node on is the least
set closed under the links (`Reach` of `Chains`), so that nothing here is recursive;
the lemmas on it say how it grows and what keeps it.

`CompiledListProofs` proves, for programs with any lists and ranges, any number of
loops within each other and any pushes and tails, `ListsEnd` and, if no loop is left by
`die` within a range (`"left"` is not in `Odd`), `RangesStayRewound`.  A range is left in
three ways, and each needs more than `RangesRewound`.  At its end it is rewound.  A
range that leads away from its end stops the loop without being rewound, so nobody
must be in the middle of one (`CurrentValid`: it was found good when it was begun,
and the increment that was put in then stays, `IncrementStays`).  An error
leaves a list whose ranges are all rewound, which says something of the loop's own
place only if it stands in the list it began with (`InLists`), across
nodes that lists share after `tail`.  And `push` must fill an empty node, never one a loop stands
at in a range: that the node it looks for exists and is empty is `EndFound`, from `Ends`: each
set of nodes has one that leads out of it.  `ListsEnd` says the same of every list.
With `"left"` in `Odd` `RangesRewound` fails (section 5).

The proof of `ActiveSavesFound` found what the run had missed.  With handlers that both have saves
and raise errors, `ActiveHandled` is false, from six saves on (section 5): a
handler's address is raised as a message to where the node of another save
leads, and the save it belongs to is active again although its node is gone.
The run had four.  So `Programs` keeps these apart,
and the theorem says it.

`Odd = {}` in `ScannerProofs` and `ValuesProofs` is a restriction on the *programs* (a text with an odd
comment, a function that returns another's result), not on the code; every
element of it is in a row of section 5, with a run that violates the property,
so none of them could be left out of the assumption.  `MaxCalls`, `MaxDepth` and
the like are bounds of the runs; the theorems hold for all their values.

Only model-checked, and why:

- what recursive operators compute for all inputs, since an induction over trees,
  lists, programs or memory is out of the prover's reach: the properties of
  `KeyTree`, `ListIndex`, `BoolExpr`, `Machine` with `Compile` and `Meaning`, and
  `EveryElementOnce` of `ListElements`;
- `ProgramEnds`, a liveness property.

## 5. Divergences

What README.md, NEWS or a comment says and the code does not do, and for compiled
programs also where they do something else than when interpreted.  All of these
are outside the runs.  Each is a definition that can be put in the place of the
properties of the configuration named, with the constants given; TLC then finds
a violation within the time of the run.  Those marked P are action properties,
to be listed as PROPERTY; `SYMMETRY` has to be removed for properties of `MCExec`.

| Property | Configuration and changes | Said | Code |
|---|---|---|---|
| `OwnScope` | `MCExec.cfg` | README.md:97, each function has its own scope | `funcdef.c:117`, `exception.c:49`: errors leave scopes behind |
| `TextsKept` | `MCStringTable.cfg`, `SPECIFICATION Spec` | NEWS:15, reference counts | `builtin.c:527`: text freed with the second String |
| `StringsCanGo` | `MCStringTable.cfg` | NEWS:15 | `list.c:231`: the only String cannot be deleted |
| `NoLeaks` | `MCStringTable.cfg` | NEWS:17, no memory leaks | `exception.c:59`: `diemsg` overwritten |
| `DieStops` | `MCExec.cfg` | README.md:107, stop execution immediately | `exception.c:51`, `builtin.c:213`: `for` over a list goes on |
| `HandlerRunsOnce` | `MCExec.cfg` | README.md:109, propagated to the next save up | `builtin.c:534, 545`: buffer still first in the handler |
| `HandlerDecides` P | `MCExec.cfg` | README.md:109 | `builtin.c:535`: name looked up in whatever scope is left |
| `SaveArgumentsReported` | `MCExec.cfg` | `exception.c:22`, a message for it | `builtin.c:508`: buffer jumped to unfilled |
| `NestedEvaluated` | `MCBoolExpr.cfg`, `Exprs <- NestedExprs` | README.md:79 | `typecast.c:89`: never evaluated |
| `StringsOrdered` | `Exprs <- OrderExprs` | README.md:83 | `typecast.c:182`: structures compared |
| `ListTypesCompared` | `Exprs <- TypeExprs` | README.md:85 | `typecast.c:285`: NULL without named keys |
| `AsSpecified` | `MCBoolExpr.cfg`, `Odd = {"same count"}`; with it `Exprs <- ListExprs` | README.md:83, equality | `typecast.c:131, 184-218, 277-286`: `=` compares values of different types by what they count, a string by its length, so `(3 = "abc")` is true; two lists by their sizes |
| `CallsMadeOnce` | `Exprs <- CallExprs` | README.md:103 | `typecast.c:131`: a right operand is evaluated again |
| `OwnNamespace` | `MCReader.cfg`, `Texts <- TidyTexts`, `Installed = {}` | NEWS:9, own namespace | `fffll.y:146`: the call before goes to the import |
| `InOrder` | `Texts <- TwoCallsFirst`, `Installed = {}` | README.md:103, in order | `fffll.y:711`: modules come first |
| `EvaluatedInOrder` | `MCReader.cfg` | README.md:103, in order | `fffll.y:166`: in an import the call before another import goes to that one's list, and is evaluated before those that come before it |
| `ImportsFound` | `Texts <- ImportsFirst`, `Installed = {}` | README.md:31, relative to the importer | `lexer.c:191`: `dirname` shortens the path each time |
| `ModulesEvaluated` | `Texts <- ImportLast` | README.md:103 | `evaluate.c:14`: list without statements |
| `BlocksWait` | `MCReader.cfg`, `Texts <- BlockTyped` | README.md:107 | `fffll.y:190`: at the prompt a block is evaluated while it is read |
| `ImportGoesOn` | `Texts <- ImportTyped` | README.md:103, in the middle of the execution | `lexer.c:399`: at the prompt the end of an import is that of all input |
| `NothingDangles` | `MCValues.cfg`, `Odd = {"kept"}` | NEWS:15, reference counts | `builtin.c:569`: what a function returns is set to a name uncounted |
| `NothingDangles` | `Odd = {"passed on"}` | NEWS:15 | `funcdef.c:48`: what is returned loses a count although no name of the scope has it |
| `NothingDangles` | `Odd = {"looped"}` | NEWS:15 | `builtin.c:217`: the loop's name has an element uncounted, and the scope frees it |
| `NothingDangles` | `Odd = {"nested"}` | NEWS:15 | `builtin.c:696`: a set in an argument frees what an earlier argument refers to |
| `NothingDangles` | `Odd = {"compared"}` | NEWS:15 | `typecast.c:86`: freed, then looked at |
| `BinarySearchTree`, `SelfBalancing`, `UnbindRemoves` | `MCKeyTree.cfg` | `tree.c:1` | `tree.c:32-117`: deletion |
| `NamedKeysStay` P | `MCKeyTree.cfg` | README.md:71 | `builtin.c:633`: new root dropped |
| `DieReports` | `MCCompiledSave.cfg`, `MaxSaves = 3` | README.md:107 | `std.s:329`: no save, NULL followed |
| `HandlerOfItsBlock` P | the same | README.md:107 | `compiler.c:325`: address left behind |
| `MessagePropagated` P | the same | README.md:109 | `compiler.c:336`: wrong words pushed |
| `ActiveHandled` | `Programs <- Both`, `MaxSaves = 6`, `PageSize = 15`, `Msgs = {m1}`, `Files = {}` | README.md:107 | `compiler.c:336`: the word raised again may be a handler's address, left where the node of another save leads: the save it belongs to is active again, and its own node is gone |
| `HandlersSurviveGrowth` | `MCCompiledSave.cfg`, `MaxPages = 2`, `PageSize = 6` | README.md:107 | `list.s:70`: labels made anew |
| `EveryElementOnce` | `MCCompiledList.cfg`, `Odd = {"again"}` | README.md:65 | `list.s:149`: loops over one range share its current number |
| `RangesRewound` | `Odd = {"left"}` | README.md:65 | `list.s:152`: a loop left by `die` leaves its range in the middle |
| `EveryElementOnce` | `Programs <- Descending` or `Negative` | README.md:67 | `list.s:184, 173`: no descending to a positive end; negative numbers are ordered the other way round |
| `NumbersPushed` P | `MCCompiledList.cfg` | README.md:65 | `compiler.c:389`: the loop's variable refers to the range |
| `TailsApart` P | `MCCompiledList.cfg` | `builtin.c:717-726`, which copies | `std.s:588`: the copy goes on with the nodes of the original |
| `ComputesSource` | `MCMachine.cfg`, `Programs <- TwoParameters` or `TwoKeywords` | the interpreter, `funcdef.c:113` | `compiler.c:143`: names are restored in the order they were saved, each with the other's value |
| `ComputesSource` | `Programs <- FlagTakenEarly`, `StrayKeyword` (also `FlagsTaken`), `KeywordForParameter`, `SurplusOverKeyword` or `TooFewArguments` | `funcdef.c:54-111` | `compiler.c:80-110, 421-462`: flags and arguments that belong to another call or to no parameter |
| `ComputesSource` | `Programs <- LoopLeftEarly` (also `StackBalanced`) or `LoopNameAfter` | `builtin.c:149-256` | `compiler.c:378-417`: the next node is left in the name |
| `ComputesSource` | `Programs <- NotOfNumber` or `NegativeNumbers` | `typecast.c:69-297` | `compiler.c:610-628, 668`: one bit inverted; bits compared as integers |
| `ComputesSource` | `Programs <- FunctionAsArgument`, `LastArgumentFirst`, `SetInFunction`, `ListOfCalls` or `LastStatementWrites` | `funcdef.c`, `evaluate.c` | `compiler.c:418-562, 682-755`, `funcdef.c:113`: code bytes passed for a function, arguments evaluated last to first, names not the function's own, elements evaluated once, false as a value |
| `TokensAsSpecified` | `Scanner.cfg`, `MaxDepth = 2`, `Odd = {"empty comment"}`, `{"stars"}` or `{"adjacent"}` | README.md:29, 27, 33 | `lexer.c:110, 124, 386` |
| `TextsAsSpecified` | `Odd = {"doubled quote"}` | README.md:25 | `lexer.c:158` |
| `CommasAsSpecified` | `Odd = {"unnoticed"}` | README.md:49 | `lexer.c:177` |
| `ReadsAsDocumented` | `MCListIndex.cfg`, `Programs <- ExactRange` or `TwoRanges` | README.md:67, 75 | `evaluate.c:120, 138`: a range that ends exactly; a second range |
| `ReadsAsDocumented` | `Programs <- Empty`, `Odd = {"bare"}` | README.md:69 | `evaluate.c:87`: NULL followed |
| `SetExact` | `Programs <- Keyed`, `Odd = {"inner name"}` | README.md:71 | `builtin.c:622`, `exception.c:43`: error printed, another key set |
| `SetExact` | `Programs <- Keyed`, `Odd = {"keyless"}` | README.md:71 | `builtin.c:625`: NULL followed |
| `SetExact` | `Odd = {"range"}` or `{"range start"}` | `exception.c:44`; README.md:75 | `builtin.c:661, 671`: next element set; range replaced |

README.md:77, 89 also has chains of any length, `(c|c&c|c)`.  The grammar takes
one comparison or two (`fffll.y:439-456`), so a longer chain is a syntax error and
no expression of `BoolExpr` or `Meaning` has one, although `evaluateBoolExpr` could
reduce it; a comparison in brackets of its own (README.md:81) is a nested expression,
which is `NestedEvaluated` above.

The passing runs say exactly which cases they leave out for this: by a constant
(`Odd`, `Exprs`, `Texts`, `Uses`, `MaxPages`, `Programs`) or by a condition in the property
(`Grows` in `KeyTree`, the habits in `ListIndex`).  What is outside
of those is compared with the documentation without exception.

## 6. Not modelled, and the plan

Not modelled, and why:

- characters of numbers, regular expressions and index tokens in the lexer
  (`lexer.c:197-330`), conversions between numbers and text, bytes read and
  written: data no property tells apart, floating point and external libraries;
- the grammar's rules that only make a node;
- nine list operations nobody calls; `addToListEnd` after `addToListBeginning` on
  one list, which no caller does (`PushedOrAdded`);
- memory of values replaced by `set` with indices, and counts of Values in lists:
  a list's elements are literals in `Values`.  Counts of values of functions:
  `freeFuncVal` takes the count of a call's function down twice, to -1, and both
  tests are `< 1`;
- a `push` of what a failed call returned, in `ListIndex`: the code stores the NULL
  in a node, and whoever passes it follows it;
- errors in `Values`: an error leaves counts higher than they should be, never
  lower, and `Exec` says which scopes it leaves behind;
- compiled `open`, `read`, regular expressions and named keys; of `std.s` what is
  beyond `_add`, `_die`, `_open`, `_safe_exit`, `_len`, `_push`, `_tail` and the
  writing of lists; its heap (`std.s:53-184`);
- the Python implementation, examples and editor files.

Plan, in this order:

1. The heap of compiled programs.
2. One module for compiled loops: `CompiledList`'s ranges in `Machine`'s memory,
   and the labels of `CompiledSave` on its stack.
3. Lists made at run time in `Values`, whose elements are counted.
4. `Tok`: `tok` against a reference definition.
