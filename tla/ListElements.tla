---------------------------- MODULE ListElements ----------------------------
(* What the lists of CompiledList hold, by recursion along their nodes.    *)
EXTENDS CompiledList, FiniteSets

(* The nodes from p on that have an element, in order.                     *)
RECURSIVE Nodes(_)
Nodes(p) == IF nodes[p].e = Nothing THEN <<>> ELSE <<p>> \o Nodes(nodes[p].next)

(* What a list means (README.md:61-67): each number of a range from its    *)
(* start on, up to before its end, is an element.                          *)
Toward(r) == IF r.inc # 0 THEN r.inc ELSE IF r.end < r.start THEN -1 ELSE 1

Abs(n) == IF n < 0 THEN -n ELSE n

Numbers(r) ==
    LET Before(n) == IF Toward(r) > 0 THEN n < r.end ELSE n > r.end
        steps == {k \in 0 .. Abs(r.end - r.start) : Before(r.start + k * Toward(r))}
    IN  [k \in 1 .. Cardinality(steps) |-> r.start + (k - 1) * Toward(r)]

Elements(p) ==
    FlattenSeq([i \in DOMAIN Nodes(p) |->
        LET e == nodes[Nodes(p)[i]].e
        IN  IF e.t = "n" THEN <<e.n>> ELSE Numbers(ranges[e.r])])

(* A loop passes every element of its list once, in order, those that were *)
(* added while it ran included, and len and write go through as many:      *)
(* whatever other loops did meanwhile (list.s:78-201).                     *)
EveryElementOnce == [][EndLoop => Top.passed = Elements(Top.first)]_vars
=============================================================================
