---------------------------- MODULE CompiledList ----------------------------
(***************************************************************************)
(* Lists and ranges in compiled programs: what `for', `len' and `write' go *)
(* through (_list_next of src/asm/list.s, and the code src/src/compiler.c  *)
(* emits for lists, ranges and for) while `push' and `tail' change them.   *)
(*                                                                         *)
(* A range is four words: the current number, the start, the increment and *)
(* the end.  There is one current number, wherever the range is gone       *)
(* through from.  Numbers are compared as words of 64 bits.  A list ends   *)
(* with an empty node.                                                     *)
(*                                                                         *)
(* One action is one turn of _list_next's loop, at one node: at the end of *)
(* a range it goes on to the next node.                                    *)
(***************************************************************************)
EXTENDS Integers, Sequences, SequencesExt, Chains

CONSTANTS
    Programs,    \* the lists and ranges a program starts with
    MaxLoops,    \* bound on lists gone through within each other
    MaxNodes,    \* bound on the nodes allocated
    MaxPassed,   \* bound on the elements a loop passes
    Odd          \* what is done to lists that the code is known not to bear

ASSUME OddIsKnown == Odd \subseteq {"again", "left"}

VARIABLES
    lists,   \* the first node of the list that each name refers to
    nodes,   \* the element and the next node of each, as they were allocated
    ranges,  \* the ranges, by number
    loops,   \* the loops the program is in, innermost last
    asking   \* _list_next has not answered yet

vars == <<lists, nodes, ranges, loops, asking>>

Num(n) == [t |-> "n", n |-> n]
Rng(r) == [t |-> "r", r |-> r]
NaN == <<>>        \* the current number of a range nobody is in: range_nan
Range_(start, inc, end) == [cur |-> NaN, start |-> start, inc |-> inc, end |-> end]

(* Lists hold numbers and ranges of the program.                           *)
ASSUME ProgramsWellFormed ==
    \A p \in Programs :
        /\ p.a \in Seq(ToSet(p.a)) /\ p.b \in Seq(ToSet(p.b)) /\ p.ranges \in Seq(ToSet(p.ranges))
        /\ \A e \in ToSet(p.a) \cup ToSet(p.b) :
             \/ e.t = "n" /\ e = Num(e.n) /\ e.n \in Int
             \/ \E r \in DOMAIN p.ranges : e = Rng(r)
        /\ \A r \in ToSet(p.ranges) :
             r = Range_(r.start, r.inc, r.end) /\ {r.start, r.inc, r.end} \subseteq Int

(* A literal of those elements, its nodes after the first n.               *)
Nothing == [t |-> "nothing"]
Literal(items, n) ==
    [i \in 1 .. Len(items) |-> [e |-> items[i], next |-> n + i + 1]]
        \o << [e |-> Nothing, next |-> 0] >>

Init ==
    /\ \E p \in Programs :
         /\ nodes = Literal(p.a, 0) \o Literal(p.b, Len(p.a) + 1)
         /\ lists = [a |-> 1, b |-> Len(p.a) + 2]
         /\ ranges = p.ranges
    /\ loops = <<>>
    /\ asking = FALSE

(* The nodes from p on, and where they end.                                *)
Places == 1 .. Len(nodes)
From(p) == Reach(Places, [q \in Places |-> nodes[q].next], p)
End(p) == CHOOSE q \in From(p) : nodes[q].next = 0

-----------------------------------------------------------------------------
(* _list_next.                                                             *)

(* Doubles as signed words: the more negative, the larger.                 *)
WordLess(a, b) == IF a < 0 /\ b < 0 THEN a > b ELSE a < b

SignsDiffer(a, b) == (a < 0) # (b < 0)

(* An increment that was not given is 1 towards the end.                   *)
Increment(r) ==
    CASE r.inc # 0 -> r.inc
      [] r.inc = 0 /\ SignsDiffer(r.start, r.end) -> IF r.end < 0 THEN -1 ELSE 1
      [] r.inc = 0 /\ ~SignsDiffer(r.start, r.end) -> IF WordLess(r.end, r.start) THEN -1 ELSE 1

(* A range that leads away from its end.                                   *)
Invalid(r) ==
    IF SignsDiffer(r.start, r.end)
    THEN (r.end < 0) # (Increment(r) < 0)
    ELSE IF Increment(r) < 0 THEN ~WordLess(r.end, r.start) ELSE ~WordLess(r.start, r.end)

\* Bug: the end is one of the numbers.
FurtherThroughEnd(r, n) == SignsDiffer(n, r.end) \/ ~WordLess(r.end, n)

(* There is another number before the end.                                 *)
Further(r, n) == SignsDiffer(n, r.end) \/ WordLess(n, r.end)

\* Bug: at its end a range keeps its current number.
Over(r, n) == [r EXCEPT !.cur = <<n>>]

Rewind(r, n) == [r EXCEPT !.cur = NaN]

(* The turn at node p: what _list_next answers, or that it goes on; the    *)
(* number found, the node to go on from, and the ranges.                   *)
Turn(p) ==
    LET e == nodes[p].e
        next == nodes[p].next
        To(says, n, q, new) == [says |-> says, n |-> n, at |-> q, ranges |-> new]
        AtRange ==
            LET r == [ranges[e.r] EXCEPT !.inc = Increment(ranges[e.r])]
                n == IF r.cur = NaN THEN r.start ELSE r.cur[1] + r.inc
                With(new) == [ranges EXCEPT ![e.r] = new]
            IN  IF Invalid(r) THEN To("none", 0, next, With(r))
                ELSE IF Further(r, n) THEN To("element", n, p, With([r EXCEPT !.cur = <<n>>]))
                ELSE To("onward", 0, next, With(Rewind(r, n)))
    IN  CASE e = Nothing -> To("none", 0, p, ranges)
          [] e.t = "n" -> To("element", e.n, next, ranges)
          [] e.t = "r" -> AtRange

-----------------------------------------------------------------------------
(* The program, which has what it called in front of it.                   *)

Top == loops[Len(loops)]
Runs == ~asking /\ (loops # <<>> => Top.body)

(* All ranges of the list at p are at their start.                         *)
Rewound(p) ==
    \A r \in DOMAIN ranges : ranges[r].cur # NaN =>
        \A q \in From(p) : nodes[q].e # Rng(r)

(* A list begins to be gone through.  "again": while a loop is in one of   *)
(* its ranges.                                                             *)
Begin(l, body) ==
    /\ Runs /\ Len(loops) < MaxLoops
    /\ Rewound(lists[l]) \/ "again" \in Odd
    /\ loops' = Append(loops, [first |-> lists[l], at |-> lists[l], body |-> body,
                              var |-> Nothing, passed |-> <<>>])
    /\ UNCHANGED <<lists, nodes, ranges, asking>>

(* for(x: l ...) has a body that runs for each element; len(l) and         *)
(* write(l) go through l at one go.                                        *)
For(l) == Begin(l, TRUE)
len(l) == Begin(l, FALSE)

(* The variable of for gets what _list_next found: a range itself, not a   *)
(* number.                                                                 *)
Iterate ==
    /\ loops # <<>> /\ Len(Top.passed) < MaxPassed
    /\ LET a == Turn(Top.at) IN
         /\ a.says = "element"
         /\ loops' = [loops EXCEPT ![Len(loops)] =
                        [Top EXCEPT !.at = a.at, !.passed = Append(@, a.n),
                                    !.var = IF Top.body THEN nodes[Top.at].e ELSE Nothing]]
         /\ ranges' = a.ranges
    /\ asking' = FALSE
    /\ UNCHANGED <<lists, nodes>>

GoOn ==
    /\ loops # <<>>
    /\ LET a == Turn(Top.at) IN
         /\ a.says = "onward"
         /\ loops' = [loops EXCEPT ![Len(loops)].at = a.at]
         /\ ranges' = a.ranges
    /\ asking' = TRUE
    /\ UNCHANGED <<lists, nodes>>

EndLoop ==
    /\ loops # <<>>
    /\ LET a == Turn(Top.at) IN a.says = "none" /\ ranges' = a.ranges
    /\ loops' = Front(loops)
    /\ asking' = FALSE
    /\ UNCHANGED <<lists, nodes>>

(* The body of the loop dies, in a save around the loop.  "left": when the *)
(* loop is in a range.                                                     *)
Die ==
    /\ loops # <<>> /\ Runs
    /\ "left" \in Odd \/ Rewound(Top.first)
    /\ loops' = Front(loops)
    /\ UNCHANGED <<lists, nodes, ranges, asking>>

(* push(l ...): the empty node at the end gets the value, and a new one    *)
(* comes after it.                                                         *)
list_push(l, values) ==
    /\ Runs /\ Len(nodes) < MaxNodes
    /\ LET end == End(lists[l]) IN \E e \in values :
         nodes' = [nodes EXCEPT ![end] = [e |-> e, next |-> Len(nodes) + 1]]
                    \o << [e |-> Nothing, next |-> 0] >>
    /\ UNCHANGED <<lists, ranges, loops, asking>>

(* ... a number, or the variable of the innermost loop: if the loop is in  *)
(* a range, the list gets the range.                                       *)
Variable == IF loops = <<>> THEN {} ELSE {Top.var} \ {Nothing}
push(l) == list_push(l, {Num(7)} \cup Variable)

(* set(m tail(l)): a copy of the second node, that goes on with the third  *)
(* of l.  (The copies of the rest are not linked.)  Without a second node  *)
(* tail returns NULL, which is left out.                                   *)
tail(m, l) ==
    /\ Runs /\ Len(nodes) < MaxNodes /\ nodes[lists[l]].next # 0
    /\ nodes' = Append(nodes, nodes[nodes[lists[l]].next])
    /\ lists' = [lists EXCEPT ![m] = Len(nodes) + 1]
    /\ UNCHANGED <<ranges, loops, asking>>

Next ==
    \/ \E l \in DOMAIN lists : For(l) \/ len(l) \/ push(l)
    \/ \E l, m \in DOMAIN lists : tail(m, l)
    \/ Iterate \/ GoOn \/ EndLoop \/ Die

Spec == Init /\ [][Next]_vars

-----------------------------------------------------------------------------
(* A range keeps its current number only while a loop stands at it: nobody *)
(* else begins in the middle (list.s:186-193).                             *)
RangesRewound ==
    \A r \in DOMAIN ranges : ranges[r].cur # NaN =>
        \E i \in DOMAIN loops : nodes[loops[i].at].e = Rng(r)
=============================================================================
