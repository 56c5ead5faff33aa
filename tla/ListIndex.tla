------------------------------ MODULE ListIndex ------------------------------
(***************************************************************************)
(* Names, scopes and indexed lists: what a name with indices reads         *)
(* (evaluateValue, src/src/evaluate.c:34-164) and what `set' changes       *)
(* (setDef, src/src/builtin.c:553-702), statement by statement.            *)
(*                                                                         *)
(* A list literal is one object of the program, so names and lists refer   *)
(* to it: `heap' holds every literal under its number.  Values are         *)
(* numbers, references to lists, and strings that spell a named key.  A    *)
(* range stands for several numbers and is one node of its list.  Left     *)
(* out: elements that are names or calls, lists as the value of a          *)
(* bracketed index, the shape of the tree of named keys (KeyTree), the     *)
(* memory of what is replaced, and a push of what a failed call returned,  *)
(* which puts a node without data into the list (builtin.c:370-377).       *)
(***************************************************************************)
EXTENDS Integers, Sequences, SequencesExt, FiniteSets, TLC

CONSTANTS
    Name, Constant,   \* names; those that begin with an underscore
    Programs,         \* the literals of a program, and what its names are set to
    Path, Value,      \* the indices and the values in its statements
    MaxSets,          \* how many statements it executes
    MaxItems,         \* how many nodes a list grows to
    MaxLists,         \* how many lists there are
    Odd               \* habits of its indices for which README.md is not followed
ASSUME ConstantsAreNames == Constant \subseteq Name

Num(n) == [t |-> "n", n |-> n]
Ref(id) == [t |-> "l", id |-> id]
Str(k) == [t |-> "s", k |-> k]
Range_(start, inc, end) == [t |-> "r", start |-> start, inc |-> inc, end |-> end]

(* A literal: its values and ranges, and those with a name.                *)
List(items, keys) == [made |-> TRUE, items |-> items, keys |-> keys]

NotSet == [t |-> "unset"]
Null == [t |-> "null"]       \* the NULL of an error that was reported
Crash == [t |-> "crash"]     \* a NULL pointer was followed

At(n) == [by |-> "n", n |-> n]       \* list.3
Named(k) == [by |-> "u", k |-> k]    \* list.key
Of(x) == [by |-> "v", x |-> x]       \* list.[x]

VARIABLES
    heap,     \* heap[id]: whether a list has a List, its nodes, its named keys
    scopes,   \* varlist: the innermost scope first, the globals last
    sets,     \* statements executed
    result    \* what the last returned: a value, null (or an error jumped), crash

vars == <<heap, scopes, sets, result>>

Init ==
    /\ \E p \in Programs : heap = p.lists /\ scopes = <<p.globals>>
    /\ sets = 0
    /\ result = "value"

-----------------------------------------------------------------------------
(* Looking up.                                                             *)

ValueOf(x) ==
    LET bound == {i \in DOMAIN scopes : scopes[i][x] # NotSet}
    IN  IF bound = {} THEN NotSet
        ELSE scopes[CHOOSE i \in bound : \A j \in bound : i <= j][x]

(* What an index in brackets stands for.                                   *)
Resolved(ix) ==
    IF ix.by # "v" THEN ix
    ELSE LET v == ValueOf(ix.x)
         IN  CASE v.t = "n" -> At(v.n) [] v.t = "s" -> Named(v.k) [] OTHER -> [by |-> "none"]

Bare(l) == ~l.made       \* [] has no List at all
Keyless(l) == DOMAIN l.keys = {}

Abs(n) == IF n < 0 THEN -n ELSE n
Increment(r) == IF r.inc # 0 THEN r.inc ELSE IF r.end < r.start THEN -1 ELSE 1

(* (int)((end-start)/increment), by which a range moves the count ahead.   *)
Skip(r) ==
    LET n == r.end - r.start
        d == Increment(r)
        q == Abs(n) \div Abs(d)
    IN  IF n * d < 0 THEN -q ELSE q

(* Counting to element j: the walk stands at node p, of number i.  `range' *)
(* is the start and increment of the last range passed, ever, and `from'   *)
(* its number; `hit' is set when j was found to be in a range.             *)
Start(p, range) == [p |-> p, i |-> 0, range |-> range, from |-> 0, hit |-> FALSE]

(* A negative j counts nodes from the end.                                 *)
Entry(items, j) == IF j < 0 THEN Len(items) + j + 1 ELSE 1

\* Bug: a range counts as the one node that it is.
WalkByNodes(items, j, w) ==
    [w EXCEPT !.p = IF Len(items) < j THEN Len(items) + 1 ELSE j + 1, !.i = j]

RECURSIVE Walk(_, _, _)
Walk(items, j, w) ==
    IF w.i >= j \/ w.p > Len(items) THEN w
    ELSE LET e == items[w.p]
             ahead == [w EXCEPT !.i = @ + Skip(e), !.from = w.i,
                                !.range = <<e.start, Increment(e)>>]
         IN  IF e.t # "r" THEN Walk(items, j, [w EXCEPT !.p = @ + 1, !.i = @ + 1])
             ELSE IF ahead.i >= j THEN [ahead EXCEPT !.hit = TRUE]
             ELSE Walk(items, j, [ahead EXCEPT !.p = @ + 1, !.i = @ + 1])

(* The value at a range node: a range passed before is not forgotten.      *)
Computed(e, j, w) ==
    IF w.range = <<>> THEN Num(e.start + j * Increment(e))
    ELSE Num(w.range[1] + (j - w.from) * w.range[2])

(* One index of a name that is read.  c.at is the value reached, or the    *)
(* node, which is a value or a range.                                      *)
ReadIndex(c, ix) ==
    LET Ends(v) == [c EXCEPT !.at = v, !.val = v]
        l == heap[c.at.id]
        j == Resolved(ix).n
        w == Walk(l.items, IF j < 0 THEN 0 ELSE j, Start(Entry(l.items, j), c.range))
        e == l.items[w.p]
    IN  CASE c.at \in {Null, Crash} -> c
          [] c.at \notin {Null, Crash} /\ c.at.t # "l" -> Ends(Null)
          [] c.at.t = "l" /\ Resolved(ix).by = "none" -> Ends(Crash)
          [] c.at.t = "l" /\ Resolved(ix).by = "u" ->
               IF Bare(l) THEN Ends(Crash)
               ELSE IF Resolved(ix).k \notin DOMAIN l.keys THEN Ends(Null)
               ELSE Ends(l.keys[Resolved(ix).k])
          [] c.at.t = "l" /\ Resolved(ix).by = "n" ->
               IF j < 0 /\ Entry(l.items, j) < 1 THEN Ends(Crash)
               ELSE IF w.p > Len(l.items) THEN Ends(Null)
               ELSE [at |-> e, range |-> w.range,
                     val |-> IF e.t = "r" THEN Computed(e, IF j < 0 THEN 0 ELSE j, w) ELSE e]

(* evaluateValue of a name with indices.                                   *)
evaluateValue(x, path) ==
    LET v == ValueOf(x)
        first == [at |-> v, val |-> IF v = NotSet THEN Null ELSE v, range |-> <<>>]
    IN  FoldLeft(ReadIndex, first, path).val

-----------------------------------------------------------------------------
(* Setting.                                                                *)

(* One index of the name that is set.  c.on is the list that is indexed    *)
(* next or NotSet when c.cell, the cell reached, has to be looked into;    *)
(* c.end says why there is nothing to set.  An error jumps out of a `save' *)
(* block; in none, that a range or a key cannot be gone into is printed    *)
(* only, and the count, or the index after next in the list, goes on.      *)
CellValue(cell) ==
    IF cell.key # "" THEN heap[cell.id].keys[cell.key] ELSE heap[cell.id].items[cell.p]

SetIndex(saving, c, ix, last) ==
    LET u == IF c.cell = <<>> THEN c.on ELSE CellValue(c.cell[1])
        Ends(why) == [c EXCEPT !.end = why]
        l == heap[u.id]
        j == Resolved(ix).n
        w == Walk(l.items, IF j < 0 THEN 0 ELSE j, Start(Entry(l.items, j), <<>>))
        p == IF w.hit THEN w.p + 1 ELSE w.p
        Cell(q, k) == [on |-> u, end |-> "", cell |-> <<[id |-> u.id, p |-> q, key |-> k]>>]
    IN  IF c.end # "" THEN c
        ELSE IF u.t # "l" THEN Ends("null")
        ELSE IF Bare(l) THEN Ends("crash")
        ELSE CASE Resolved(ix).by = "none" -> Ends("null")
          [] Resolved(ix).by = "u" ->
               IF Keyless(l) THEN Ends("crash")
               ELSE IF last THEN Cell(0, Resolved(ix).k)
               ELSE IF saving THEN Ends("null")
               ELSE [c EXCEPT !.on = u, !.cell = <<>>]
          [] Resolved(ix).by = "n" ->
               IF j < 0 /\ Entry(l.items, j) < 1 THEN Ends("crash")
               ELSE IF (w.hit /\ saving) \/ p > Len(l.items) THEN Ends("null")
               ELSE Cell(p, "")

Target(x, path, saving) ==
    FoldLeftDomain(LAMBDA c, i : SetIndex(saving, c, path[i], i = Len(path)),
                   [on |-> ValueOf(x), cell |-> <<>>, end |-> ""], path)

WithCell(h, cell, v) ==
    IF cell.key = "" THEN [h EXCEPT ![cell.id].items[cell.p] = v]
    ELSE [h EXCEPT ![cell.id].keys =
            [k \in DOMAIN @ \cup {cell.key} |-> IF k = cell.key THEN v ELSE @[k]]]

\* Bug: a constant is looked for in the innermost scope only.
BoundHere(x) == x \in Constant /\ scopes[1][x] # NotSet

BoundConstant(x) == x \in Constant /\ ValueOf(x) # NotSet

Outcome(h, s, r) == [heap |-> h, scopes |-> s, result |-> r]
Unchanged(r) == Outcome(heap, scopes, r)

(* A name without indices is set in the innermost scope.                   *)
Bound(x, v) == [scopes EXCEPT ![1][x] = v]

(* What setDef leaves and returns for set(x.path v), in a save or not.     *)
SetOutcome(x, path, v, saving) ==
    LET c == Target(x, path, saving) IN
    IF v \in {Null, Crash} THEN Unchanged(IF v = Null THEN "null" ELSE "crash")
    ELSE IF BoundConstant(x) THEN Unchanged("value")
    ELSE IF path = <<>> THEN Outcome(heap, Bound(x, v), "value")
    ELSE IF c.end # "" THEN Unchanged(c.end)
    ELSE Outcome(WithCell(heap, c.cell[1], v), scopes, "value")

Leaves(o) ==
    /\ result # "crash" /\ sets < MaxSets
    /\ heap' = o.heap /\ scopes' = o.scopes /\ result' = o.result
    /\ sets' = sets + 1

setDef(x, path, v, saving) == Leaves(SetOutcome(x, path, v, saving))

-----------------------------------------------------------------------------
(* Growing and shortening.                                                 *)

(* push(x.path v) adds to the list itself.  A list whose elements are all  *)
(* gone, or that only ever had named keys, has no node to add to.  v is    *)
(* Null for a name that could not be read, and its count is written to.    *)
PushOutcome(x, path, v) ==
    LET u == evaluateValue(x, path)
        l == heap[u.id]
    IN  IF u \in {Null, Crash} THEN Unchanged("crash")
        ELSE IF u.t # "l" THEN Unchanged("null")
        ELSE IF v \in {Null, Crash} \/ (l.made /\ l.items = <<>>) THEN Unchanged("crash")
        ELSE Outcome([heap EXCEPT ![u.id].items = Append(@, v), ![u.id].made = TRUE],
                     scopes, "value")

(* head(u).                                                                *)
headDef(u) ==
    IF u \in {Null, Crash} THEN Crash
    ELSE IF u.t # "l" THEN Null
    ELSE IF heap[u.id].items = <<>> THEN Null
    ELSE Head(heap[u.id].items)

\* Bug: the copy begins one node late.
TailedLate(items) == SubSeq(items, 3, Len(items))

Tailed(items) == Tail(items)

(* set(y tail(x.path)): a new list of all nodes but the first.             *)
TailOutcome(y, x, path) ==
    LET u == evaluateValue(x, path)
        l == heap[u.id]
        new(items) == List(items, [k \in {} |-> NotSet])
        Bound_(items) ==
            Outcome(Append(heap, new(items)),
                    IF BoundConstant(y) THEN scopes ELSE Bound(y, Ref(Len(heap) + 1)), "value")
    IN  IF u \in {Null, Crash} THEN Unchanged("crash")
        ELSE IF u.t # "l" THEN Unchanged("null")
        ELSE IF Bare(l) THEN Bound_(<<>>)
        ELSE IF l.items = <<>> THEN Unchanged("crash")
        ELSE Bound_(Tailed(l.items))

pushDef(x, path, v) ==
    Leaves(PushOutcome(x, path, v)) /\ \A id \in DOMAIN heap' : Len(heap'[id].items) <= MaxItems

tailDef(y, x, path) == Len(heap) < MaxLists /\ Leaves(TailOutcome(y, x, path))

-----------------------------------------------------------------------------

(* A function is called, with a scope of its own, and returns.             *)
scope ==
    /\ result # "crash" /\ Len(scopes) = 1
    /\ scopes' = <<[x \in Name |-> NotSet]>> \o scopes
    /\ UNCHANGED <<heap, sets, result>>

descope ==
    /\ result # "crash" /\ Len(scopes) > 1
    /\ scopes' = Tail(scopes)
    /\ UNCHANGED <<heap, sets, result>>

(* The values given to set: literals, what names with indices read, and    *)
(* heads.  A list that begins with a range has the range for its head,     *)
(* which is left out.                                                      *)
Read == {evaluateValue(x, path) : x \in Name, path \in Path}
Heads == {v \in {headDef(u) : u \in Read} : v.t # "r"}
Values == Value \cup Read \cup Heads

Next ==
    \/ \E x \in Name, path \in Path, v \in Values, saving \in BOOLEAN :
         setDef(x, path, v, saving)
    \/ \E x \in Name, path \in Path, v \in Value \cup Read \cup (Heads \ {Null}) :
         pushDef(x, path, v)
    \/ \E y, x \in Name, path \in Path : tailDef(y, x, path)
    \/ scope
    \/ descope

Spec == Init /\ [][Next]_vars

-----------------------------------------------------------------------------
(* What README.md says of lists (61, 65-75) and names (97, 113).           *)

(* A range is all its numbers, from the start to before the end.           *)
Numbers(r) ==
    LET d == Increment(r)
    IN  {n \in 0 .. Abs(r.end - r.start) :
           IF d > 0 THEN r.start + n * d < r.end ELSE r.start + n * d > r.end}

(* The elements of a list, and the node of each that has one to itself.    *)
Elements(l) ==
    FlattenSeq([p \in DOMAIN l.items |->
        LET e == l.items[p] IN
        IF e.t = "r"
        THEN [n \in 1 .. Cardinality(Numbers(e)) |->
                [val |-> Num(e.start + (n - 1) * Increment(e)), p |-> 0, n |-> n]]
        ELSE << [val |-> e, p |-> p, n |-> 1] >>])

Vals(l) == [i \in DOMAIN Elements(l) |-> Elements(l)[i].val]

IndexMeaning(v, ix) ==
    LET l == heap[v.id]
        i == Resolved(ix)
    IN  IF v.t # "l" THEN Null
        ELSE IF i.by = "u" THEN IF i.k \in DOMAIN l.keys THEN l.keys[i.k] ELSE Null
        ELSE IF i.n < Len(Elements(l)) THEN Elements(l)[i.n + 1].val ELSE Null

Meaning(x, path) ==
    FoldLeft(IndexMeaning, IF ValueOf(x) = NotSet THEN Null ELSE ValueOf(x), path)

(* A set changes the one element or key it names, or it fails and changes  *)
(* nothing; a range cannot be changed, a constant neither, and a name is   *)
(* set in the innermost scope.                                             *)
SetMeaning(x, path, v) ==
    LET m == Meaning(x, Front(path))
        l == heap[m.id]
        i == Resolved(Last(path))
        e == Elements(l)[i.n + 1]
    IN  IF v = Null THEN Unchanged("null")
        ELSE IF x \in Constant /\ \E n \in DOMAIN scopes : scopes[n][x] # NotSet
        THEN Unchanged("value")
        ELSE IF path = <<>> THEN Outcome(heap, [scopes EXCEPT ![1] = [@ EXCEPT ![x] = v]], "value")
        ELSE IF m.t # "l" THEN Unchanged("null")
        ELSE IF i.by = "u"
        THEN Outcome([heap EXCEPT ![m.id].keys = (i.k :> v) @@ @], scopes, "value")
        ELSE IF i.n >= Len(Elements(l)) \/ e.p = 0 THEN Unchanged("null")
        ELSE Outcome([heap EXCEPT ![m.id].items[e.p] = v], scopes, "value")

(* What indices may do that these meanings do not cover, or that the code  *)
(* is known to do otherwise.                                               *)
HabitsAt(x, path, i) ==
    LET ix == Resolved(path[i])
        v == Meaning(x, SubSeq(path, 1, i - 1))
        l == heap[v.id]
        elements == Elements(l)
        When(c, habit) == IF c THEN {habit} ELSE {}
        nth == IF ix.n < Len(elements) THEN elements[ix.n + 1] ELSE [p |-> 1]
    IN  CASE ix.by = "none" -> {"no index"}
          [] ix.by = "n" /\ ix.n < 0 -> {"negative"}
          [] OTHER ->
               When(ix.by = "u" /\ i < Len(path), "inner name")
               \cup IF v.t # "l" THEN {}
                    ELSE IF Bare(l) THEN {"bare"}
                    ELSE IF ix.by = "u" THEN When(Keyless(l), "keyless")
                    ELSE When(nth.p = 0, "range") \cup When(nth.p = 0 /\ nth.n = 1, "range start")

Habits(x, path) ==
    LET Plain(i) == LET ix == Resolved(path[i])
                    IN  ix.by = "u" \/ (ix.by = "n" /\ ix.n >= 0)
    IN  UNION {HabitsAt(x, path, i) : i \in {n \in DOMAIN path : \A m \in 1 .. n - 1 : Plain(m)}}

(* Every name with indices reads what README.md says, through ranges and   *)
(* nested and shared lists, whatever was set before (evaluate.c:34-164).   *)
ReadsAsDocumented ==
    \A x \in Name, path \in Path :
        Habits(x, path) \cap {"no index", "negative", "bare"} \subseteq Odd
            => evaluateValue(x, path) = Meaning(x, path)

(* In every state that is reached, a set has exactly the effect it should: *)
(* no other element, list or scope changes (builtin.c:565-700).            *)
SetExact ==
    \A x \in Name, path \in Path :
        LET habits == Habits(x, path) IN
        \A v \in Value \cup {Null}, saving \in BOOLEAN :
            habits \ (IF saving THEN {"range"} ELSE {}) \subseteq Odd
                => SetOutcome(x, path, v, saving) = SetMeaning(x, path, v)

(* push adds one element at the end of the list it is given, wherever that *)
(* list is known from, and no other list changes; tail makes a list of its *)
(* own that has the elements but the first (builtin.c:356-380, 704-726).   *)
(* Pushing to a list whose elements are gone crashes; a range is one node. *)
PushAndTailExact ==
    \A x \in Name, path \in Path :
        LET m == Meaning(x, path)
            l == heap[m.id]
            Others(h) == \A id \in DOMAIN heap : id # m.id => h[id] = heap[id]
        IN  Habits(x, path) \subseteq {"inner name"} /\ m.t = "l" =>
            /\ (l.items # <<>> \/ ~l.made) =>
                 LET o == PushOutcome(x, path, Num(1))
                 IN  /\ Others(o.heap) /\ o.scopes = scopes
                     /\ o.heap[m.id].keys = l.keys
                     /\ Vals(o.heap[m.id]) = Append(Vals(l), Num(1))
            /\ l.items # <<>> /\ l.items[1].t # "r" =>
                 LET o == TailOutcome(x, x, path)
                 IN  /\ Others(o.heap) /\ o.heap[m.id] = l
                     /\ Vals(Last(o.heap)) = Tail(Vals(l))
=============================================================================
