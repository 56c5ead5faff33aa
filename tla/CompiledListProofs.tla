------------------------- MODULE CompiledListProofs -------------------------
(***************************************************************************)
(* Theorems about the lists and ranges of compiled programs, for all       *)
(* programs, and any number of nodes and loops: every list ends, and a     *)
(* range is in the middle only while a loop stands at it.                  *)
(***************************************************************************)
EXTENDS CompiledList, SequenceTheorems, WellFoundedInduction, TLAPS

IsElement(e) ==
    \/ \E n \in Int : e = Num(n)
    \/ \E r \in DOMAIN ranges : e = Rng(r)

IsRange(r) ==
    /\ r = [cur |-> r.cur, start |-> r.start, inc |-> r.inc, end |-> r.end]
    /\ r.cur = NaN \/ \E n \in Int : r.cur = <<n>>
    /\ r.start \in Int /\ r.inc \in Int /\ r.end \in Int

(* The empty node is the last of its list, and no other is.                *)
IsNode(n) ==
    /\ n = [e |-> n.e, next |-> n.next]
    /\ \/ n.e = Nothing /\ n.next = 0
       \/ IsElement(n.e) /\ n.next \in Places

IsLoop(i) ==
    /\ i = [first |-> i.first, at |-> i.at, body |-> i.body, var |-> i.var,
            passed |-> i.passed]
    /\ i.first \in Places /\ i.at \in Places
    /\ i.var = Nothing \/ IsElement(i.var)
    /\ i.passed \in Seq(Int)
    /\ i.body \in BOOLEAN

IsSeq(s) == s = [i \in 1 .. Len(s) |-> s[i]] /\ Len(s) \in Nat

NodesTyped == IsSeq(nodes) /\ \A p \in Places : IsNode(nodes[p])

ListsTyped ==
    lists = [a |-> lists.a, b |-> lists.b] /\ lists.a \in Places /\ lists.b \in Places

RangesTyped ==
    ranges = [r \in DOMAIN ranges |-> ranges[r]] /\ \A r \in DOMAIN ranges : IsRange(ranges[r])

LoopsTyped == IsSeq(loops) /\ \A i \in 1 .. Len(loops) : IsLoop(loops[i])

TypeOK == NodesTyped /\ ListsTyped /\ RangesTyped /\ LoopsTyped /\ asking \in BOOLEAN

(* No links go round: some node of any set of them leads out of the set.   *)
Ends == \A S \in SUBSET Places : S # {} => \E q \in S : nodes[q].next \notin S

(* A loop stands at a node of its list.                                    *)
InLists == \A i \in 1 .. Len(loops) : loops[i].at \in From(loops[i].first)

(* Nobody is in a range that leads away from its end.                      *)
CurrentValid == \A r \in DOMAIN ranges : ranges[r].cur # NaN => ~Invalid(ranges[r])

(* What is to be shown of ranges, of programs that leave no loop in one by *)
(* an error.                                                               *)
RewoundUnlessLeft == "left" \notin Odd => RangesRewound

(* The inductive invariant.                                                *)
IInv == TypeOK /\ Ends /\ InLists /\ CurrentValid /\ RewoundUnlessLeft

-----------------------------------------------------------------------------
(* What is found from a node on (Chains).                                  *)

LEMMA ReachSelf == ASSUME NEW L, NEW lnk, NEW n \in L PROVE n \in Reach(L, lnk, n)
<1> QED  BY DEF Reach

LEMMA ReachNext ==
    ASSUME NEW L, NEW lnk, NEW n \in L, NEW k \in Reach(L, lnk, n), lnk[k] \in L
    PROVE  lnk[k] \in Reach(L, lnk, n)
<1> QED  BY DEF Reach, Closed

LEMMA ReachIn == ASSUME NEW L, NEW lnk, NEW n PROVE Reach(L, lnk, n) \subseteq L
<1> QED  BY DEF Reach

(* More nodes, and links that lead where they did, lead as far.            *)
LEMMA ReachGrows ==
    ASSUME NEW L, NEW lnk, NEW L2, NEW lnk2, L \subseteq L2,
           \A k \in L : lnk[k] \in L => lnk2[k] = lnk[k],
           NEW n \in L
    PROVE  Reach(L, lnk, n) \subseteq Reach(L2, lnk2, n)
<1> SUFFICES ASSUME NEW k \in Reach(L, lnk, n),
                    NEW S \in SUBSET L2, n \in S, Closed(L2, lnk2, S)
             PROVE  k \in S
  BY DEF Reach
<1>1. S \cap L \in SUBSET L /\ n \in S \cap L /\ Closed(L, lnk, S \cap L)
  BY DEF Closed
<1> QED  BY <1>1 DEF Reach

(* Every set of numbers has a least one.                                   *)
LEMMA Least ==
    ASSUME NEW T \in SUBSET Nat, T # {}
    PROVE  \E x \in T : \A y \in T : x <= y
<1> DEFINE R == {ss \in Nat \X Nat : ss[1] < ss[2]}
<1>1. IsWellFoundedOn(R, Nat)
  BY NatLessThanWellFounded DEF OpToRel
<1>2. PICK x \in T : \A y \in T : ~(<<y, x>> \in R)
  <2> HIDE DEF R
  <2> QED  BY <1>1, WFMin
<1>3. \A y \in T : ~(y < x)
  BY <1>2
<1> QED  BY <1>3

-----------------------------------------------------------------------------
(* Every list ends: from each node on there is an empty one.               *)
LEMMA EndFound ==
    ASSUME TypeOK, Ends, NEW p \in Places
    PROVE  /\ End(p) \in From(p) /\ End(p) \in Places
           /\ nodes[End(p)].e = Nothing /\ nodes[End(p)].next = 0
<1> DEFINE link == [q \in Places |-> nodes[q].next]
<1>1. p \in From(p) /\ From(p) \subseteq Places
  BY ReachSelf, ReachIn DEF From
<1>2. PICK q \in From(p) : nodes[q].next \notin From(p)
  BY <1>1 DEF Ends
<1>3. nodes[q].next \notin Places
  <2>1. link[q] \in Places => link[q] \in From(p)
    BY ReachNext DEF From
  <2> QED  BY <1>1, <1>2, <2>1
<1>4. nodes[q].next = 0
  BY <1>1, <1>3 DEF TypeOK, NodesTyped, IsNode
<1>5. End(p) \in From(p) /\ nodes[End(p)].next = 0
  BY <1>4 DEF End
<1>6. 0 \notin Places
  BY DEF Places, TypeOK, NodesTyped, IsSeq
<1> QED  BY <1>1, <1>5, <1>6 DEF TypeOK, NodesTyped, IsNode

-----------------------------------------------------------------------------
(* The elements of lists are of three kinds.                               *)
LEMMA Kinds ==
    /\ \A n \in Int : Num(n).t = "n" /\ Num(n).n = n /\ Num(n) # Nothing
    /\ \A r : Rng(r).t = "r" /\ Rng(r).r = r /\ Rng(r) # Nothing
    /\ Nothing.t = "nothing"
    /\ \A n, r : Num(n) # Rng(r)
    /\ \A r, s : Rng(r) = Rng(s) => r = s
<1>1. /\ \A n : Num(n).t = "n" /\ Num(n).n = n
      /\ \A r : Rng(r).t = "r" /\ Rng(r).r = r
      /\ Nothing.t = "nothing"
  BY DEF Num, Rng, Nothing
<1>2. "n" # "r" /\ "n" # "nothing" /\ "r" # "nothing"
  OBVIOUS
<1>3. ASSUME NEW r, NEW s, Rng(r) = Rng(s) PROVE r = s
  <2>1. Rng(r).r = r /\ Rng(s).r = s
    BY <1>1
  <2> QED  BY <1>3, <2>1
<1> QED  BY <1>1, <1>2, <1>3, Zenon

LEMMA ElementIs == \A e : IsElement(e) => e # Nothing
<1> QED  BY Kinds DEF IsElement

(* An increment that is written down is the same increment.                *)
LEMMA IncrementStays ==
    ASSUME NEW r, IsRange(r)
    PROVE  LET new == [r EXCEPT !.inc = Increment(r)]
           IN  /\ IsRange(new)
               /\ new.cur = r.cur /\ new.start = r.start
               /\ Increment(r) \in Int /\ Increment(r) # 0
               /\ Invalid(new) <=> Invalid(r)
<1> DEFINE new == [r EXCEPT !.inc = Increment(r)]
<1>1. Increment(r) \in Int /\ Increment(r) # 0
  BY DEF Increment, IsRange
<1>2. /\ new = [cur |-> r.cur, start |-> r.start, inc |-> Increment(r), end |-> r.end]
      /\ new.cur = r.cur /\ new.start = r.start /\ new.inc = Increment(r) /\ new.end = r.end
  BY DEF IsRange
<1>3. IsRange(new)
  BY <1>1, <1>2 DEF IsRange
<1>4. Increment(new) = Increment(r)
  BY <1>1, <1>2 DEF Increment
<1>5. Invalid(new) <=> Invalid(r)
  BY <1>2, <1>4 DEF Invalid
<1> QED  BY <1>1, <1>2, <1>3, <1>5, Zenon

(* Whether a range leads away from its end is not changed by its current   *)
(* number.                                                                 *)
LEMMA CurrentSet ==
    ASSUME NEW r, IsRange(r), NEW c, c = NaN \/ \E n \in Int : c = <<n>>
    PROVE  LET new == [r EXCEPT !.cur = c]
           IN  IsRange(new) /\ new.cur = c /\ (Invalid(new) <=> Invalid(r))
<1> DEFINE new == [r EXCEPT !.cur = c]
<1>1. /\ new = [cur |-> c, start |-> r.start, inc |-> r.inc, end |-> r.end]
      /\ new.cur = c /\ new.start = r.start /\ new.inc = r.inc /\ new.end = r.end
  BY DEF IsRange
<1>2. IsRange(new)
  BY <1>1 DEF IsRange
<1>3. Increment(new) = Increment(r)
  BY <1>1 DEF Increment
<1>4. Invalid(new) <=> Invalid(r)
  BY <1>1, <1>3 DEF Invalid
<1> QED  BY <1>1, <1>2, <1>4, Zenon

(* The turn at a range r: it ends the loop at once when it leads away from *)
(* its end, stays for a number, or goes on, rewound.                       *)
LEMMA TurnAtRange ==
    ASSUME TypeOK, NEW p \in Places, NEW r \in DOMAIN ranges, nodes[p].e = Rng(r)
    PROVE  /\ \E new :
                /\ Turn(p).ranges = [ranges EXCEPT ![r] = new]
                /\ IsRange(new) /\ (Invalid(new) <=> Invalid(ranges[r]))
                /\ \/ /\ Turn(p).says = "none" /\ Invalid(ranges[r])
                      /\ new.cur = ranges[r].cur
                   \/ /\ Turn(p).says = "element" /\ ~Invalid(ranges[r])
                      /\ Turn(p).at = p /\ Turn(p).n \in Int
                   \/ /\ Turn(p).says = "onward" /\ ~Invalid(ranges[r])
                      /\ Turn(p).at = nodes[p].next /\ new.cur = NaN
<1> DEFINE R == [ranges[r] EXCEPT !.inc = Increment(ranges[r])]
           n == IF R.cur = NaN THEN R.start ELSE R.cur[1] + R.inc
           next == nodes[p].next
           With(new) == [ranges EXCEPT ![r] = new]
           To(says, m, q, new) == [says |-> says, n |-> m, at |-> q, ranges |-> new]
<1>1. IsRange(ranges[r])
  BY DEF TypeOK, RangesTyped
<1>2. /\ IsRange(R) /\ R.cur = ranges[r].cur /\ R.start = ranges[r].start
      /\ (Invalid(R) <=> Invalid(ranges[r]))
  BY <1>1, IncrementStays
<1>3. Turn(p) = IF Invalid(R) THEN To("none", 0, next, With(R))
                ELSE IF Further(R, n) THEN To("element", n, p, With([R EXCEPT !.cur = <<n>>]))
                ELSE To("onward", 0, next, With(Rewind(R, n)))
  <2>1. nodes[p].e # Nothing /\ nodes[p].e.t = "r" /\ nodes[p].e.r = r
    BY Kinds
  <2> QED  BY <2>1 DEF Turn
<1>4. n \in Int
  BY <1>2 DEF IsRange
<1> HIDE DEF R, n
<1>5. CASE Invalid(R)
  <2>1. Turn(p) = To("none", 0, next, With(R))
    BY <1>3, <1>5
  <2>2. Turn(p).says = "none" /\ Turn(p).ranges = [ranges EXCEPT ![r] = R]
    BY <2>1
  <2> QED  BY <1>2, <1>5, <2>2
<1>6. CASE ~Invalid(R) /\ Further(R, n)
  <2> DEFINE new == [R EXCEPT !.cur = <<n>>]
  <2>1. Turn(p) = To("element", n, p, With(new))
    BY <1>3, <1>6
  <2>2. IsRange(new) /\ (Invalid(new) <=> Invalid(R))
    BY <1>2, <1>4, CurrentSet
  <2>3. /\ Turn(p).says = "element" /\ Turn(p).at = p /\ Turn(p).n = n
        /\ Turn(p).ranges = [ranges EXCEPT ![r] = new]
    BY <2>1
  <2> HIDE DEF new
  <2> QED  BY <1>2, <1>4, <1>6, <2>2, <2>3
<1>7. CASE ~Invalid(R) /\ ~Further(R, n)
  <2> DEFINE new == Rewind(R, n)
  <2>1. Turn(p) = To("onward", 0, next, With(new))
    BY <1>3, <1>7
  <2>2. IsRange(new) /\ new.cur = NaN /\ (Invalid(new) <=> Invalid(R))
    BY <1>2, CurrentSet DEF Rewind
  <2>3. /\ Turn(p).says = "onward" /\ Turn(p).at = next
        /\ Turn(p).ranges = [ranges EXCEPT ![r] = new]
    BY <2>1
  <2> HIDE DEF new
  <2> QED  BY <1>2, <1>7, <2>2, <2>3
<1> QED  BY <1>5, <1>6, <1>7

(* The turn at the end of a list, and at a number.                         *)
LEMMA TurnAtEnd ==
    ASSUME NEW p, nodes[p].e = Nothing
    PROVE  Turn(p).says = "none" /\ Turn(p).ranges = ranges
<1>1. nodes[p].e.t # "n" /\ nodes[p].e.t # "r"
  BY Kinds
<1> QED  BY <1>1 DEF Turn

LEMMA TurnAtNumber ==
    ASSUME NEW p, NEW n \in Int, nodes[p].e = Num(n)
    PROVE  /\ Turn(p).says = "element" /\ Turn(p).ranges = ranges
           /\ Turn(p).n = n /\ Turn(p).at = nodes[p].next
<1>1. nodes[p].e # Nothing /\ nodes[p].e.t = "n" /\ nodes[p].e.n = n /\ "n" # "r"
  BY Kinds
<1> QED  BY <1>1 DEF Turn

(* A turn keeps ranges what they are.  Only the one it finds an element of *)
(* comes to be in the middle; one it leaves, or leads away from its end,   *)
(* is at its start.                                                        *)
LEMMA TurnKeepsRanges ==
    ASSUME TypeOK, CurrentValid, NEW p \in Places, ranges' = Turn(p).ranges
    PROVE  /\ DOMAIN ranges' = DOMAIN ranges
           /\ ranges' = [r \in DOMAIN ranges' |-> ranges'[r]]
           /\ \A r \in DOMAIN ranges' : IsRange(ranges'[r])
           /\ CurrentValid'
           /\ \A r \in DOMAIN ranges : nodes[p].e # Rng(r) => ranges'[r] = ranges[r]
           /\ \A r \in DOMAIN ranges :
                nodes[p].e = Rng(r) /\ Turn(p).says # "element" => ranges'[r].cur = NaN
<1>1. CASE ranges' = ranges /\ \A r \in DOMAIN ranges : nodes[p].e # Rng(r)
  BY <1>1 DEF TypeOK, RangesTyped, CurrentValid
<1>2. CASE \E r \in DOMAIN ranges : nodes[p].e = Rng(r)
  <2>1. PICK r \in DOMAIN ranges : nodes[p].e = Rng(r)
    BY <1>2
  <2>2. PICK new :
          /\ ranges' = [ranges EXCEPT ![r] = new]
          /\ IsRange(new) /\ (Invalid(new) <=> Invalid(ranges[r]))
          /\ \/ /\ Turn(p).says = "none" /\ Invalid(ranges[r])
                /\ new.cur = ranges[r].cur
             \/ /\ Turn(p).says = "element" /\ ~Invalid(ranges[r])
                /\ Turn(p).at = p /\ Turn(p).n \in Int
             \/ /\ Turn(p).says = "onward" /\ ~Invalid(ranges[r])
                /\ Turn(p).at = nodes[p].next /\ new.cur = NaN
    BY <2>1, TurnAtRange
  <2>3. /\ DOMAIN ranges' = DOMAIN ranges
        /\ ranges' = [s \in DOMAIN ranges' |-> ranges'[s]]
        /\ ranges'[r] = new
        /\ \A s \in DOMAIN ranges : s # r => ranges'[s] = ranges[s]
    BY <2>2 DEF TypeOK, RangesTyped
  <2>4. ASSUME NEW s, nodes[p].e = Rng(s) PROVE s = r
    <3>1. Rng(s) = Rng(r)
      BY <2>1, <2>4
    <3> QED  BY <3>1, Kinds
  <2>5. \A s \in DOMAIN ranges' : IsRange(ranges'[s])
    BY <2>2, <2>3 DEF TypeOK, RangesTyped
  <2>6. CurrentValid'
    <3> SUFFICES ASSUME NEW s \in DOMAIN ranges', ranges'[s].cur # NaN
                 PROVE  ~Invalid(ranges'[s])
      BY DEF CurrentValid
    <3>1. CASE s # r
      BY <2>3, <3>1 DEF CurrentValid
    <3>2. CASE s = r
      BY <2>2, <2>3, <3>2 DEF CurrentValid
    <3> QED  BY <3>1, <3>2
  <2>7. \A s \in DOMAIN ranges :
          nodes[p].e = Rng(s) /\ Turn(p).says # "element" => ranges'[s].cur = NaN
    BY <2>2, <2>3, <2>4 DEF CurrentValid
  <2> QED  BY <2>1, <2>3, <2>5, <2>6, <2>7
<1>3. nodes[p].e = Nothing \/ (\E n \in Int : nodes[p].e = Num(n))
        \/ (\E r \in DOMAIN ranges : nodes[p].e = Rng(r))
  BY DEF TypeOK, NodesTyped, IsNode, IsElement
<1>4. nodes[p].e = Nothing \/ (\E n \in Int : nodes[p].e = Num(n)) =>
        ranges' = ranges /\ \A r \in DOMAIN ranges : nodes[p].e # Rng(r)
  BY TurnAtEnd, TurnAtNumber, Kinds
<1> QED  BY <1>1, <1>2, <1>3, <1>4

(* Where a loop stands after the turn: at the range it found an element    *)
(* of, or at the next node.                                                *)
LEMMA TurnStands ==
    ASSUME TypeOK, NEW p \in Places
    PROVE  /\ Turn(p).says = "element" =>
                /\ Turn(p).n \in Int /\ IsElement(nodes[p].e)
                /\ \/ Turn(p).at = p
                   \/ /\ Turn(p).at = nodes[p].next /\ nodes[p].next \in Places
                      /\ \A r : nodes[p].e # Rng(r)
           /\ Turn(p).says = "onward" =>
                Turn(p).at = nodes[p].next /\ nodes[p].next \in Places
<1>1. CASE nodes[p].e = Nothing
  BY <1>1, TurnAtEnd
<1>2. CASE \E n \in Int : nodes[p].e = Num(n)
  <2>1. PICK n \in Int : nodes[p].e = Num(n)
    BY <1>2
  <2>2. nodes[p].next \in Places /\ IsElement(nodes[p].e)
    BY <2>1, Kinds DEF TypeOK, NodesTyped, IsNode, IsElement
  <2>3. Turn(p).says = "element" /\ Turn(p).n = n /\ Turn(p).at = nodes[p].next
    BY <2>1, TurnAtNumber
  <2> QED  BY <2>1, <2>2, <2>3, Kinds
<1>3. CASE \E r \in DOMAIN ranges : nodes[p].e = Rng(r)
  <2>1. PICK r \in DOMAIN ranges : nodes[p].e = Rng(r)
    BY <1>3
  <2>2. nodes[p].next \in Places /\ IsElement(nodes[p].e)
    BY <2>1, Kinds DEF TypeOK, NodesTyped, IsNode, IsElement
  <2>3. \/ Turn(p).says = "none"
        \/ Turn(p).says = "element" /\ Turn(p).at = p /\ Turn(p).n \in Int
        \/ Turn(p).says = "onward" /\ Turn(p).at = nodes[p].next
    BY <2>1, TurnAtRange
  <2> QED  BY <2>2, <2>3
<1> QED  BY <1>1, <1>2, <1>3 DEF TypeOK, NodesTyped, IsNode, IsElement

-----------------------------------------------------------------------------
(* Sequences that get longer, shorter, or another entry.                   *)

LEMMA SeqIs == ASSUME NEW S, NEW s \in Seq(S) PROVE IsSeq(s)
<1> QED  BY DEF IsSeq

LEMMA SeqAppend ==
    ASSUME NEW s, IsSeq(s), NEW x
    PROVE  /\ IsSeq(Append(s, x)) /\ Len(Append(s, x)) = Len(s) + 1
           /\ \A i \in 1 .. Len(s) : Append(s, x)[i] = s[i]
           /\ Append(s, x)[Len(s) + 1] = x
           /\ s \o <<x>> = Append(s, x)
<1> DEFINE S == {s[i] : i \in 1 .. Len(s)} \cup {x}
<1>1. s \in Seq(S)
  <2>1. s \in [1 .. Len(s) -> S] /\ Len(s) \in Nat
    BY DEF IsSeq
  <2> QED  BY <2>1
<1>2. Append(s, x) \in Seq(S) /\ Len(Append(s, x)) = Len(s) + 1
  BY <1>1
<1> HIDE DEF S
<1>3. /\ \A i \in 1 .. Len(s) : Append(s, x)[i] = s[i]
      /\ Append(s, x)[Len(s) + 1] = x
  BY <1>1
<1>4. s \o <<x>> = Append(s, x)
  BY <1>1, AppendIsConcat
<1> QED  BY <1>2, <1>3, <1>4, SeqIs

LEMMA SeqFront ==
    ASSUME NEW s, IsSeq(s), s # <<>>
    PROVE  /\ IsSeq(Front(s)) /\ Len(Front(s)) = Len(s) - 1 /\ Len(s) > 0
           /\ \A i \in 1 .. Len(s) - 1 : Front(s)[i] = s[i]
<1> DEFINE S == {s[i] : i \in 1 .. Len(s)}
<1>1. s \in Seq(S)
  <2>1. s \in [1 .. Len(s) -> S] /\ Len(s) \in Nat
    BY DEF IsSeq
  <2> QED  BY <2>1
<1> HIDE DEF S
<1>2. Len(s) > 0 /\ Len(s) \in Nat
  BY <1>1, EmptySeq
<1>3. Front(s) = SubSeq(s, 1, Len(s) - 1)
  BY DEF Front
<1>4. /\ Front(s) \in Seq(S) /\ Len(Front(s)) = Len(s) - 1
      /\ \A i \in 1 .. Len(s) - 1 : Front(s)[i] = s[i]
  <2> DEFINE n == Len(s) - 1
  <2>1. n \in Nat /\ n <= Len(s)
    BY <1>2
  <2> HIDE DEF n
  <2>2. /\ SubSeq(s, 1, n) \in Seq(S) /\ Len(SubSeq(s, 1, n)) = n
        /\ \A i \in 1 .. n : SubSeq(s, 1, n)[i] = s[i]
    BY <1>1, <2>1
  <2> QED  BY <1>3, <2>2 DEF n
<1> QED  BY <1>2, <1>4, SeqIs

LEMMA SeqExcept ==
    ASSUME NEW s, IsSeq(s), NEW k \in 1 .. Len(s), NEW x,
           NEW new, new = [s EXCEPT ![k] = x]
    PROVE  /\ IsSeq(new) /\ Len(new) = Len(s) /\ new[k] = x
           /\ \A i \in 1 .. Len(s) : i # k => new[i] = s[i]
<1> DEFINE S == {s[i] : i \in 1 .. Len(s)} \cup {x}
<1>1. s \in Seq(S)
  <2>1. s \in [1 .. Len(s) -> S] /\ Len(s) \in Nat
    BY DEF IsSeq
  <2> QED  BY <2>1
<1>2. /\ new \in Seq(S) /\ Len(new) = Len(s) /\ new[k] = x
      /\ \A i \in 1 .. Len(s) : i # k => new[i] = s[i]
  BY <1>1
<1> HIDE DEF S
<1> QED  BY <1>2, SeqIs

-----------------------------------------------------------------------------
(* What a step that leaves the nodes alone does not disturb.               *)
LEMMA NodesStay ==
    ASSUME TypeOK, Ends, UNCHANGED nodes, DOMAIN ranges' = DOMAIN ranges
    PROVE  /\ NodesTyped'
           /\ Places' = Places /\ Ends'
           /\ \A p : From(p)' = From(p)
           /\ \A e : IsElement(e)' <=> IsElement(e)
<1>1. Places' = Places /\ IsSeq(nodes)'
  BY DEF Places, TypeOK, NodesTyped, IsSeq
<1>2. \A p : From(p)' = From(p)
  BY <1>1 DEF From
<1>3. \A e : IsElement(e)' <=> IsElement(e)
  BY DEF IsElement
<1>4. NodesTyped'
  BY <1>1, <1>3 DEF TypeOK, NodesTyped, IsNode
<1>5. Ends'
  BY <1>1 DEF Ends
<1> QED  BY <1>1, <1>2, <1>3, <1>4, <1>5

(* A loop that begins stands at the first node (Begin).                    *)
LEMMA BeginInv ==
    ASSUME IInv, NEW l \in DOMAIN lists, NEW body \in BOOLEAN, Begin(l, body)
    PROVE  IInv'
<1> DEFINE new == [first |-> lists[l], at |-> lists[l], body |-> body, var |-> Nothing,
                   passed |-> <<>>]
<1>1. /\ loops' = Append(loops, new)
      /\ UNCHANGED <<lists, nodes, ranges, asking>>
  BY DEF Begin
<1>2. /\ NodesTyped'
      /\ Places' = Places /\ Ends'
      /\ \A p : From(p)' = From(p)
      /\ \A e : IsElement(e)' <=> IsElement(e)
  BY <1>1, NodesStay DEF IInv
<1>3. lists[l] \in Places
  BY DEF IInv, TypeOK, ListsTyped
<1>4. /\ IsSeq(loops') /\ Len(loops') = Len(loops) + 1 /\ Len(loops) \in Nat
      /\ \A i \in 1 .. Len(loops) : loops'[i] = loops[i]
      /\ loops'[Len(loops) + 1] = new
  BY <1>1, SeqAppend DEF IInv, TypeOK, LoopsTyped, IsSeq
<1>5. TypeOK'
  <2>1. \A i \in 1 .. Len(loops) : IsLoop(loops'[i])
    BY <1>4 DEF IInv, TypeOK, LoopsTyped
  <2>2. IsLoop(new)
    BY <1>3 DEF IsLoop
  <2>3. \A i \in 1 .. Len(loops') : IsLoop(loops'[i])
    BY <1>4, <2>1, <2>2
  <2>4. LoopsTyped'
    BY <1>2, <1>4, <2>3 DEF LoopsTyped, IsLoop
  <2>5. ListsTyped' /\ RangesTyped' /\ asking' \in BOOLEAN
    BY <1>1, <1>2 DEF IInv, TypeOK, ListsTyped, RangesTyped, IsRange
  <2> QED  BY <1>2, <2>4, <2>5 DEF TypeOK
<1>6. InLists'
  <2>1. lists[l] \in From(lists[l])
    BY <1>3, ReachSelf DEF From
  <2> QED  BY <1>2, <1>4, <2>1 DEF IInv, InLists
<1>7. CurrentValid'
  BY <1>1 DEF IInv, CurrentValid
<1>8. RewoundUnlessLeft'
  <2>1. DOMAIN loops = 1 .. Len(loops) /\ DOMAIN loops' = 1 .. Len(loops')
    BY <1>4 DEF IInv, TypeOK, LoopsTyped, IsSeq
  <2> QED  BY <1>1, <1>4, <2>1 DEF IInv, RewoundUnlessLeft, RangesRewound
<1> QED  BY <1>2, <1>5, <1>6, <1>7, <1>8 DEF IInv

(* The innermost loop.                                                     *)
LEMMA TopIs ==
    ASSUME TypeOK, loops # <<>>
    PROVE  /\ Len(loops) \in Nat /\ Len(loops) \in 1 .. Len(loops)
           /\ IsLoop(Top) /\ Top.at \in Places /\ Top.first \in Places
           /\ DOMAIN loops = 1 .. Len(loops)
<1>1. Len(loops) \in Nat /\ Len(loops) > 0
  BY SeqFront DEF TypeOK, LoopsTyped, IsSeq
<1> QED  BY <1>1 DEF Top, TypeOK, LoopsTyped, IsLoop, IsSeq

(* The next node of one of a list is in the list.                          *)
LEMMA NextInList ==
    ASSUME NEW p \in Places, NEW q \in From(p), nodes[q].next \in Places
    PROVE  nodes[q].next \in From(p)
<1> DEFINE link == [k \in Places |-> nodes[k].next]
<1>1. q \in Places
  BY ReachIn DEF From
<1>2. link[q] \in Places => link[q] \in From(p)
  BY ReachNext DEF From
<1> QED  BY <1>1, <1>2

(* Loops at other nodes than the innermost keep their ranges: while one of *)
(* them is in the middle another loop than the innermost stands at it, or  *)
(* the turn found an element of it.                                        *)
LEMMA OthersStand ==
    ASSUME IInv, "left" \notin Odd, loops # <<>>, ranges' = Turn(Top.at).ranges,
           NEW r \in DOMAIN ranges, ranges'[r].cur # NaN
    PROVE  \/ nodes[Top.at].e = Rng(r) /\ Turn(Top.at).says = "element"
           \/ \E i \in 1 .. Len(loops) - 1 : nodes[loops[i].at].e = Rng(r)
<1>1. /\ \A s \in DOMAIN ranges : nodes[Top.at].e # Rng(s) => ranges'[s] = ranges[s]
      /\ \A s \in DOMAIN ranges :
           nodes[Top.at].e = Rng(s) /\ Turn(Top.at).says # "element" => ranges'[s].cur = NaN
  BY TopIs, TurnKeepsRanges DEF IInv
<1>2. CASE nodes[Top.at].e # Rng(r)
  <2>1. PICK i \in DOMAIN loops : nodes[loops[i].at].e = Rng(r)
    BY <1>1, <1>2 DEF IInv, RewoundUnlessLeft, RangesRewound
  <2>2. i # Len(loops)
    BY <1>2, <2>1 DEF Top
  <2>3. i \in 1 .. Len(loops) - 1
    BY <2>1, <2>2, TopIs DEF IInv
  <2> QED  BY <2>1, <2>3
<1> QED  BY <1>1, <1>2

(* The loop gets an element (Iterate).                                     *)
LEMMA IterateInv == ASSUME IInv, Iterate PROVE IInv'
<1> DEFINE p == Top.at
           a == Turn(p)
           k == Len(loops)
           v == IF Top.body THEN nodes[p].e ELSE Nothing
           new == [Top EXCEPT !.at = a.at, !.passed = Append(@, a.n), !.var = v]
<1>1. /\ loops # <<>> /\ a.says = "element"
      /\ loops' = [loops EXCEPT ![k] = new]
      /\ ranges' = a.ranges /\ asking' = FALSE
      /\ UNCHANGED <<lists, nodes>>
  BY DEF Iterate
<1>2. /\ k \in Nat /\ k \in 1 .. k /\ DOMAIN loops = 1 .. k
      /\ IsLoop(Top) /\ p \in Places /\ Top.first \in Places
  BY <1>1, TopIs DEF IInv
<1>3. /\ DOMAIN ranges' = DOMAIN ranges /\ RangesTyped' /\ CurrentValid'
  BY <1>1, <1>2, TurnKeepsRanges DEF IInv, RangesTyped, IsRange
<1>4. /\ NodesTyped' /\ Places' = Places /\ Ends'
      /\ \A q : From(q)' = From(q)
      /\ \A e : IsElement(e)' <=> IsElement(e)
  BY <1>1, <1>3, NodesStay DEF IInv
<1>5. /\ a.n \in Int /\ IsElement(nodes[p].e)
      /\ \/ a.at = p
         \/ /\ a.at = nodes[p].next /\ nodes[p].next \in Places
            /\ \A r : nodes[p].e # Rng(r)
  BY <1>1, <1>2, TurnStands DEF IInv
<1> HIDE DEF a, v, p
<1>6. new = [first |-> Top.first, at |-> a.at, body |-> Top.body, var |-> v,
             passed |-> Append(Top.passed, a.n)]
  <2> DEFINE ps == Append(Top.passed, a.n)
             t1 == [Top EXCEPT !.at = a.at]
             t2 == [t1 EXCEPT !.passed = ps]
  <2>1. Top = [first |-> Top.first, at |-> Top.at, body |-> Top.body, var |-> Top.var,
               passed |-> Top.passed]
    BY <1>2 DEF IsLoop
  <2>2. new = [t2 EXCEPT !.var = v]
    BY <2>1
  <2>3. t1 = [first |-> Top.first, at |-> a.at, body |-> Top.body, var |-> Top.var,
              passed |-> Top.passed]
    BY <2>1
  <2> HIDE DEF t1, new, ps
  <2>4. t2 = [first |-> Top.first, at |-> a.at, body |-> Top.body, var |-> Top.var,
              passed |-> ps]
    BY <2>3
  <2> HIDE DEF t2
  <2>5. new = [first |-> Top.first, at |-> a.at, body |-> Top.body, var |-> v, passed |-> ps]
    BY <2>2, <2>4
  <2> QED  BY <2>5 DEF ps
<1> HIDE DEF new
<1>7. /\ IsSeq(loops') /\ Len(loops') = k /\ loops'[k] = new
      /\ \A i \in 1 .. k : i # k => loops'[i] = loops[i]
  <2>1. IsSeq(loops) /\ k \in 1 .. k /\ loops' = [loops EXCEPT ![k] = new]
    BY <1>1, <1>2 DEF IInv, TypeOK, LoopsTyped
  <2>2. IsSeq(loops')
    BY <2>1, SeqExcept
  <2>3. Len(loops') = k
    BY <2>1, SeqExcept
  <2>4. loops'[k] = new
    BY <2>1, SeqExcept
  <2>5. \A i \in 1 .. k : i # k => loops'[i] = loops[i]
    BY <2>1, SeqExcept
  <2> QED  BY <2>2, <2>3, <2>4, <2>5
<1>8. TypeOK'
  <2>1. \A i \in 1 .. k : i # k => IsLoop(loops'[i])
    BY <1>7 DEF IInv, TypeOK, LoopsTyped
  <2>2. IsLoop(new)
    BY <1>2, <1>5, <1>6 DEF IsLoop, v
  <2>3. \A i \in 1 .. Len(loops') : IsLoop(loops'[i])
    BY <1>7, <2>1, <2>2
  <2>4. LoopsTyped'
    BY <1>4, <1>7, <2>3 DEF LoopsTyped, IsLoop
  <2>5. ListsTyped' /\ asking' \in BOOLEAN
    BY <1>1, <1>4 DEF IInv, TypeOK, ListsTyped
  <2> QED  BY <1>3, <1>4, <2>4, <2>5 DEF TypeOK
<1>9. InLists'
  <2>1. p \in From(Top.first)
    BY <1>2 DEF IInv, InLists, Top, p
  <2>2. a.at \in From(Top.first)
    BY <1>2, <1>5, <2>1, NextInList
  <2>3. loops'[k].at \in From(loops'[k].first)
    BY <1>7, <1>6, <2>2
  <2> QED  BY <1>4, <1>7, <2>3 DEF IInv, InLists
<1>10. RewoundUnlessLeft'
  <2> SUFFICES ASSUME "left" \notin Odd, NEW r \in DOMAIN ranges, ranges'[r].cur # NaN
               PROVE  \E i \in 1 .. k : nodes[loops'[i].at].e = Rng(r)
    BY <1>1, <1>3, <1>7 DEF RewoundUnlessLeft, RangesRewound, IsSeq
  <2>1. CASE nodes[p].e = Rng(r)
    <3>1. loops'[k].at = p
      BY <1>5, <1>6, <1>7, <2>1
    <3> QED  BY <1>2, <2>1, <3>1
  <2>2. CASE \E i \in 1 .. k - 1 : nodes[loops[i].at].e = Rng(r)
    <3>1. PICK i \in 1 .. k - 1 : nodes[loops[i].at].e = Rng(r)
      BY <2>2
    <3>2. k \in Nat
      BY <1>2
    <3>3. i \in 1 .. k /\ i # k
      BY <3>2
    <3> QED  BY <1>7, <3>1, <3>3
  <2> QED  BY <1>1, <2>1, <2>2, OthersStand DEF a, p
<1> QED  BY <1>3, <1>4, <1>8, <1>9, <1>10 DEF IInv

(* The loop goes on to the next node (GoOn).                               *)
LEMMA GoOnInv == ASSUME IInv, GoOn PROVE IInv'
<1> DEFINE p == Top.at
           a == Turn(p)
           k == Len(loops)
           new == [Top EXCEPT !.at = a.at]
<1>1. /\ loops # <<>> /\ a.says = "onward"
      /\ loops' = [loops EXCEPT ![k] = new]
      /\ ranges' = a.ranges /\ asking' = TRUE
      /\ UNCHANGED <<lists, nodes>>
  BY TopIs DEF GoOn, Top, IInv, TypeOK, LoopsTyped, IsSeq
<1>2. /\ k \in Nat /\ k \in 1 .. k /\ DOMAIN loops = 1 .. k
      /\ IsLoop(Top) /\ p \in Places /\ Top.first \in Places
  BY <1>1, TopIs DEF IInv
<1>3. /\ DOMAIN ranges' = DOMAIN ranges /\ RangesTyped' /\ CurrentValid'
  BY <1>1, <1>2, TurnKeepsRanges DEF IInv, RangesTyped, IsRange
<1>4. /\ NodesTyped' /\ Places' = Places /\ Ends'
      /\ \A q : From(q)' = From(q)
      /\ \A e : IsElement(e)' <=> IsElement(e)
  BY <1>1, <1>3, NodesStay DEF IInv
<1>5. a.at = nodes[p].next /\ nodes[p].next \in Places
  BY <1>1, <1>2, TurnStands DEF IInv
<1> HIDE DEF a, p
<1>6. new = [first |-> Top.first, at |-> a.at, body |-> Top.body, var |-> Top.var,
             passed |-> Top.passed]
  BY <1>2 DEF IsLoop
<1> HIDE DEF new
<1>7. /\ IsSeq(loops') /\ Len(loops') = k /\ loops'[k] = new
      /\ \A i \in 1 .. k : i # k => loops'[i] = loops[i]
  <2>1. IsSeq(loops) /\ k \in 1 .. k /\ loops' = [loops EXCEPT ![k] = new]
    BY <1>1, <1>2 DEF IInv, TypeOK, LoopsTyped
  <2>2. IsSeq(loops')
    BY <2>1, SeqExcept
  <2>3. Len(loops') = k
    BY <2>1, SeqExcept
  <2>4. loops'[k] = new
    BY <2>1, SeqExcept
  <2>5. \A i \in 1 .. k : i # k => loops'[i] = loops[i]
    BY <2>1, SeqExcept
  <2> QED  BY <2>2, <2>3, <2>4, <2>5
<1>8. TypeOK'
  <2>1. \A i \in 1 .. k : i # k => IsLoop(loops'[i])
    BY <1>7 DEF IInv, TypeOK, LoopsTyped
  <2>2. IsLoop(new)
    BY <1>2, <1>5, <1>6 DEF IsLoop
  <2>3. \A i \in 1 .. Len(loops') : IsLoop(loops'[i])
    BY <1>7, <2>1, <2>2
  <2>4. LoopsTyped'
    BY <1>4, <1>7, <2>3 DEF LoopsTyped, IsLoop
  <2>5. ListsTyped' /\ asking' \in BOOLEAN
    BY <1>1, <1>4 DEF IInv, TypeOK, ListsTyped
  <2> QED  BY <1>3, <1>4, <2>4, <2>5 DEF TypeOK
<1>9. InLists'
  <2>1. p \in From(Top.first)
    BY <1>2 DEF IInv, InLists, Top, p
  <2>2. a.at \in From(Top.first)
    BY <1>2, <1>5, <2>1, NextInList
  <2>3. loops'[k].at \in From(loops'[k].first)
    BY <1>6, <1>7, <2>2
  <2> QED  BY <1>4, <1>7, <2>3 DEF IInv, InLists
<1>10. RewoundUnlessLeft'
  <2> SUFFICES ASSUME "left" \notin Odd, NEW r \in DOMAIN ranges, ranges'[r].cur # NaN
               PROVE  \E i \in 1 .. k : nodes[loops'[i].at].e = Rng(r)
    BY <1>1, <1>3, <1>7 DEF RewoundUnlessLeft, RangesRewound, IsSeq
  <2>1. PICK i \in 1 .. k - 1 : nodes[loops[i].at].e = Rng(r)
    BY <1>1, OthersStand DEF a, p
  <2>2. k \in Nat
    BY <1>2
  <2>3. i \in 1 .. k /\ i # k
    BY <2>2
  <2> QED  BY <1>7, <2>1, <2>3
<1> QED  BY <1>3, <1>4, <1>8, <1>9, <1>10 DEF IInv

(* A loop is over: what it left, if a range, is at its start (EndLoop), or *)
(* it was in none (Die).  Without the innermost loop all is as before.     *)
LEMMA LeaveInv ==
    ASSUME IInv, loops # <<>>, loops' = Front(loops), UNCHANGED <<lists, nodes>>,
           DOMAIN ranges' = DOMAIN ranges, RangesTyped', CurrentValid', asking' \in BOOLEAN,
           "left" \notin Odd =>
             \A r \in DOMAIN ranges : ranges'[r].cur # NaN =>
                \E i \in 1 .. Len(loops) - 1 : nodes[loops[i].at].e = Rng(r)
    PROVE  IInv'
<1>1. /\ NodesTyped' /\ Places' = Places /\ Ends'
      /\ \A q : From(q)' = From(q)
      /\ \A e : IsElement(e)' <=> IsElement(e)
  BY NodesStay DEF IInv
<1>2. /\ IsSeq(loops') /\ Len(loops') = Len(loops) - 1 /\ Len(loops) \in Nat
      /\ \A i \in 1 .. Len(loops) - 1 : loops'[i] = loops[i]
      /\ 1 .. Len(loops) - 1 \subseteq 1 .. Len(loops)
  <2>1. IsSeq(loops) /\ Len(loops) \in Nat
    BY DEF IInv, TypeOK, LoopsTyped, IsSeq
  <2> QED  BY <2>1, SeqFront
<1>3. TypeOK'
  <2>1. \A i \in 1 .. Len(loops') : IsLoop(loops'[i])
    BY <1>2 DEF IInv, TypeOK, LoopsTyped
  <2>2. LoopsTyped'
    BY <1>1, <1>2, <2>1 DEF LoopsTyped, IsLoop
  <2>3. ListsTyped'
    BY <1>1 DEF IInv, TypeOK, ListsTyped
  <2> QED  BY <1>1, <2>2, <2>3 DEF TypeOK
<1>4. InLists'
  BY <1>1, <1>2 DEF IInv, InLists
<1>5. RewoundUnlessLeft'
  <2>1. DOMAIN loops' = 1 .. Len(loops')
    BY <1>2 DEF IsSeq
  <2> QED  BY <1>2, <2>1 DEF RewoundUnlessLeft, RangesRewound
<1> QED  BY <1>1, <1>3, <1>4, <1>5 DEF IInv

LEMMA EndLoopInv == ASSUME IInv, EndLoop PROVE IInv'
<1>1. /\ loops # <<>> /\ Turn(Top.at).says = "none" /\ ranges' = Turn(Top.at).ranges
      /\ loops' = Front(loops) /\ asking' = FALSE /\ UNCHANGED <<lists, nodes>>
  BY DEF EndLoop
<1>2. DOMAIN ranges' = DOMAIN ranges /\ RangesTyped' /\ CurrentValid'
  BY <1>1, TopIs, TurnKeepsRanges DEF IInv, RangesTyped, IsRange
<1>3. "left" \notin Odd =>
        \A r \in DOMAIN ranges : ranges'[r].cur # NaN =>
          \E i \in 1 .. Len(loops) - 1 : nodes[loops[i].at].e = Rng(r)
  BY <1>1, OthersStand
<1> QED  BY <1>1, <1>2, <1>3, LeaveInv

(* When no loop is left in a range, the list of the innermost is rewound,  *)
(* and it stands in its list.                                              *)
LEMMA DieInv == ASSUME IInv, Die PROVE IInv'
<1>1. /\ loops # <<>> /\ ("left" \notin Odd => Rewound(Top.first))
      /\ loops' = Front(loops) /\ UNCHANGED <<lists, nodes, ranges, asking>>
  BY DEF Die
<1>2. RangesTyped' /\ CurrentValid' /\ asking' \in BOOLEAN
  BY <1>1 DEF IInv, TypeOK, RangesTyped, IsRange, CurrentValid
<1>3. ASSUME "left" \notin Odd, NEW r \in DOMAIN ranges, ranges'[r].cur # NaN
      PROVE  \E i \in 1 .. Len(loops) - 1 : nodes[loops[i].at].e = Rng(r)
  <2>1. PICK i \in DOMAIN loops : nodes[loops[i].at].e = Rng(r)
    BY <1>1, <1>3 DEF IInv, RewoundUnlessLeft, RangesRewound
  <2>2. Top.at \in From(Top.first) /\ DOMAIN loops = 1 .. Len(loops) /\ Len(loops) \in Nat
    BY <1>1, TopIs DEF IInv, InLists, Top
  <2>3. nodes[Top.at].e # Rng(r)
    BY <1>1, <1>3, <2>2 DEF Rewound
  <2>4. i # Len(loops)
    BY <2>1, <2>3 DEF Top
  <2> QED  BY <2>1, <2>2, <2>4
<1> QED  BY <1>1, <1>2, <1>3, LeaveInv

(* A node is added: the empty one at the end of a list is linked to it,    *)
(* and it is empty, or none is, and it goes on at an older one.            *)
LEMMA GrowInv ==
    ASSUME IInv, UNCHANGED <<ranges, loops, asking>>, ListsTyped',
           NEW n, n = Len(nodes), IsSeq(nodes'), Len(nodes') = n + 1,
           \A q \in Places :
             \/ nodes'[q] = nodes[q]
             \/ /\ nodes[q].e = Nothing /\ IsNode(nodes[q])'
                /\ nodes'[q].next = n + 1 /\ nodes'[n + 1].next = 0,
           IsNode(nodes[n + 1])', nodes'[n + 1].next \in Places \cup {0}
    PROVE  IInv'
<1>1. /\ n \in Nat /\ Places = 1 .. n /\ Places' = 1 .. (n + 1)
      /\ Places' = Places \cup {n + 1} /\ n + 1 \notin Places /\ 0 \notin Places'
  BY DEF IInv, TypeOK, NodesTyped, IsSeq, Places
<1>2. \A q \in Places :
        nodes[q].next \in Places \cup {0} /\ (nodes[q].e = Nothing <=> nodes[q].next = 0)
  BY ElementIs DEF IInv, TypeOK, NodesTyped, IsNode, Places, IsSeq
<1>3. NodesTyped'
  <2>1. \A e : IsElement(e) => IsElement(e)'
    BY DEF IsElement
  <2>2. \A q \in Places : IsNode(nodes[q])'
    BY <1>1, <2>1 DEF IInv, TypeOK, NodesTyped, IsNode
  <2> QED  BY <1>1, <2>2 DEF NodesTyped
<1>4. TypeOK'
  <2>1. \A i \in 1 .. Len(loops) : IsLoop(loops[i])'
    BY <1>1 DEF IInv, TypeOK, LoopsTyped, IsLoop, IsElement
  <2>2. LoopsTyped'
    BY <2>1 DEF IInv, TypeOK, LoopsTyped, IsSeq
  <2>3. RangesTyped' /\ asking' \in BOOLEAN
    BY DEF IInv, TypeOK, RangesTyped, IsRange
  <2> QED  BY <1>3, <2>2, <2>3 DEF TypeOK
<1>5. Ends'
  <2> SUFFICES ASSUME NEW S \in SUBSET Places', S # {}
               PROVE  \E q \in S : nodes'[q].next \notin S
    BY DEF Ends
  <2>1. CASE n + 1 \in S /\ nodes'[n + 1].next \notin S
    BY <2>1
  <2>2. CASE n + 1 \notin S \/ nodes'[n + 1].next \in S
    <3> DEFINE T == S \cap Places
    <3>1. T # {} /\ T \in SUBSET Places
      <4>1. S \subseteq Places \cup {n + 1} /\ 0 \notin S
        BY <1>1
      <4>2. CASE n + 1 \notin S
        BY <4>1, <4>2
      <4>3. CASE nodes'[n + 1].next \in S
        BY <4>1, <4>3
      <4> QED  BY <2>2, <4>2, <4>3
    <3>2. PICK q \in T : nodes[q].next \notin T
      BY <3>1 DEF IInv, Ends
    <3>3. nodes[q].next \notin S
      BY <1>1, <1>2, <3>2
    <3>4. CASE nodes'[q] = nodes[q]
      BY <3>2, <3>3, <3>4
    <3>5. CASE nodes'[q].next = n + 1 /\ nodes'[n + 1].next = 0
      <4>1. CASE nodes'[q].next \notin S
        BY <3>2, <4>1
      <4>2. CASE n + 1 \notin S
        BY <3>2, <3>5, <4>2
      <4> QED  BY <1>1, <2>2, <3>5, <4>1, <4>2
    <3> QED  BY <3>2, <3>4, <3>5
  <2> QED  BY <2>1, <2>2
<1>6. InLists'
  <2> SUFFICES ASSUME NEW i \in 1 .. Len(loops)
               PROVE  loops[i].at \in From(loops[i].first)'
    BY DEF InLists
  <2> DEFINE link == [q \in Places |-> nodes[q].next]
             first == loops[i].first
  <2>1. loops[i].at \in From(first) /\ first \in Places
    BY DEF IInv, InLists, TypeOK, LoopsTyped, IsLoop
  <2>2. \A q \in Places : link[q] \in Places => link'[q] = link[q]
    BY <1>1, <1>2
  <2>3. From(first) = Reach(Places, link, first) /\ From(first)' = Reach(Places', link', first)
    BY DEF From
  <2> HIDE DEF link, first
  <2>4. Reach(Places, link, first) \subseteq Reach(Places', link', first)
    BY <1>1, <2>1, <2>2, ReachGrows
  <2> QED  BY <2>1, <2>3, <2>4 DEF first
<1>7. CurrentValid'
  BY DEF IInv, CurrentValid
<1>8. RewoundUnlessLeft'
  <2>1. \A i \in DOMAIN loops : loops[i].at \in Places
    BY DEF IInv, TypeOK, LoopsTyped, IsLoop, IsSeq
  <2> QED  BY <2>1, Kinds DEF IInv, RewoundUnlessLeft, RangesRewound
<1> QED  BY <1>4, <1>5, <1>6, <1>7, <1>8 DEF IInv

(* push, to the end of a list: End finds the empty node (list_push).       *)
LEMMA ListPushInv ==
    ASSUME IInv, NEW l \in DOMAIN lists, NEW values, \A e \in values : IsElement(e),
           list_push(l, values)
    PROVE  IInv'
<1> PICK n : n = Len(nodes)
  OBVIOUS
<1> DEFINE end == End(lists[l])
           last == [e |-> Nothing, next |-> 0]
<1>1. PICK e \in values :
        nodes' = [nodes EXCEPT ![end] = [e |-> e, next |-> n + 1]] \o <<last>>
  BY DEF list_push
<1>2. UNCHANGED <<lists, ranges, loops, asking>>
  BY DEF list_push
<1>3. lists[l] \in Places
  BY DEF IInv, TypeOK, ListsTyped
<1>4. /\ end \in Places /\ nodes[end].e = Nothing
      /\ n \in Nat /\ Places = 1 .. n /\ IsSeq(nodes)
  BY <1>3, EndFound DEF IInv, TypeOK, NodesTyped, IsSeq, Places
<1> DEFINE new == [e |-> e, next |-> n + 1]
<1> HIDE DEF end, last, new
<1> PICK with : with = [nodes EXCEPT ![end] = new]
  OBVIOUS
<1>5. /\ IsSeq(with) /\ Len(with) = n /\ with[end] = new
      /\ \A q \in 1 .. n : q # end => with[q] = nodes[q]
  <2>1. end \in 1 .. Len(nodes) /\ IsSeq(nodes)
    BY <1>4
  <2>2. IsSeq(with)
    BY <2>1, SeqExcept
  <2>3. with[end] = new
    BY <2>1, SeqExcept
  <2>4. Len(with) = n
    BY <2>1, SeqExcept
  <2>5. \A q \in 1 .. n : q # end => with[q] = nodes[q]
    BY <2>1, SeqExcept
  <2> QED  BY <2>2, <2>3, <2>4, <2>5
<1>6. nodes' = with \o <<last>>
  BY <1>1 DEF new
<1>7. /\ IsSeq(nodes') /\ Len(nodes') = n + 1
      /\ \A q \in 1 .. n : nodes'[q] = with[q]
      /\ nodes'[n + 1] = last
  <2>1. nodes' = Append(with, last)
    BY <1>5, <1>6, SeqAppend
  <2> QED  BY <1>5, <2>1, SeqAppend
<1>8. Places' = 1 .. (n + 1)
  BY <1>7 DEF Places
<1>9. IsNode(nodes[n + 1])'
  BY <1>7 DEF IsNode, last
<1>10. ASSUME NEW q \in Places, nodes'[q] # nodes[q]
       PROVE  /\ nodes[q].e = Nothing /\ IsNode(nodes[q])'
              /\ nodes'[q].next = n + 1 /\ nodes'[n + 1].next = 0
  <2>1. q = end /\ nodes'[q] = new
    BY <1>4, <1>5, <1>7, <1>10
  <2>2. IsElement(e)'
    BY <1>2 DEF IsElement
  <2>3. IsNode(nodes[q])'
    BY <1>4, <1>8, <2>1, <2>2 DEF IsNode, new
  <2> QED  BY <1>4, <1>7, <2>1, <2>3 DEF new, last
<1>11. ListsTyped'
  BY <1>2, <1>4, <1>8 DEF IInv, TypeOK, ListsTyped
<1>12. nodes'[n + 1].next \in Places \cup {0}
  BY <1>7 DEF last
<1> QED  BY <1>2, <1>7, <1>9, <1>10, <1>11, <1>12, GrowInv

(* tail: a copy of the second node of a list, which goes on where that     *)
(* does.                                                                   *)
LEMMA TailInv ==
    ASSUME IInv, NEW l \in DOMAIN lists, NEW m \in DOMAIN lists, tail(m, l)
    PROVE  IInv'
<1> PICK n : n = Len(nodes)
  OBVIOUS
<1> DEFINE second == nodes[lists[l]].next
<1>1. /\ second # 0
      /\ nodes' = Append(nodes, nodes[second])
      /\ lists' = [lists EXCEPT ![m] = n + 1]
      /\ UNCHANGED <<ranges, loops, asking>>
  BY DEF tail
<1>2. lists[l] \in Places /\ (m = "a" \/ m = "b") /\ ListsTyped
  BY DEF IInv, TypeOK, ListsTyped
<1>3. n \in Nat /\ Places = 1 .. n /\ IsSeq(nodes) /\ 0 \notin Places
  BY DEF IInv, TypeOK, NodesTyped, IsSeq, Places
<1>4. second \in Places /\ IsNode(nodes[second])
  BY <1>1, <1>2 DEF IInv, TypeOK, NodesTyped, IsNode
<1> HIDE DEF second
<1>5. /\ IsSeq(nodes') /\ Len(nodes') = n + 1
      /\ \A q \in 1 .. n : nodes'[q] = nodes[q]
      /\ nodes'[n + 1] = nodes[second]
  BY <1>1, <1>3, SeqAppend
<1>6. Places' = 1 .. (n + 1)
  BY <1>5 DEF Places
<1>7. IsNode(nodes[n + 1])' /\ nodes'[n + 1].next \in Places \cup {0}
  BY <1>1, <1>3, <1>4, <1>5, <1>6 DEF IsNode, IsElement
<1>8. ListsTyped'
  <2>1. lists.a \in Places' /\ lists.b \in Places' /\ n + 1 \in Places'
    BY <1>2, <1>3, <1>6 DEF ListsTyped
  <2>2. CASE m = "a"
    <3>1. lists' = [a |-> n + 1, b |-> lists.b]
      BY <1>1, <1>2, <2>2 DEF ListsTyped
    <3> QED  BY <2>1, <3>1 DEF ListsTyped
  <2>3. CASE m = "b"
    <3>1. lists' = [a |-> lists.a, b |-> n + 1]
      BY <1>1, <1>2, <2>3 DEF ListsTyped
    <3> QED  BY <2>1, <3>1 DEF ListsTyped
  <2> QED  BY <1>2, <2>2, <2>3
<1> QED  BY <1>1, <1>3, <1>5, <1>7, <1>8, GrowInv

-----------------------------------------------------------------------------
(* Initially.                                                              *)

(* A literal: each node goes on at the one after it, the last is empty.    *)
LEMMA LiteralIs ==
    ASSUME NEW items, IsSeq(items), NEW n \in Nat
    PROVE  /\ IsSeq(Literal(items, n)) /\ Len(Literal(items, n)) = Len(items) + 1
           /\ \A i \in 1 .. Len(items) :
                Literal(items, n)[i] = [e |-> items[i], next |-> n + i + 1]
           /\ Literal(items, n)[Len(items) + 1] = [e |-> Nothing, next |-> 0]
<1> DEFINE last == [e |-> Nothing, next |-> 0]
<1> PICK s : s = [i \in 1 .. Len(items) |-> [e |-> items[i], next |-> n + i + 1]]
  OBVIOUS
<1>1. Len(items) \in Nat
  BY DEF IsSeq
<1>2. IsSeq(s) /\ Len(s) = Len(items)
  <2> DEFINE S == {[e |-> items[i], next |-> n + i + 1] : i \in 1 .. Len(items)}
  <2>1. s \in [1 .. Len(items) -> S]
    OBVIOUS
  <2> HIDE DEF S
  <2>2. s \in Seq(S)
    BY <1>1, <2>1, SeqDef, Zenon
  <2>3. Len(s) \in Nat /\ 1 .. Len(s) = 1 .. Len(items)
    BY <2>1, <2>2
  <2>4. Len(s) = Len(items)
    BY <1>1, <2>3
  <2> QED  BY <2>2, <2>4, SeqIs
<1>3. Literal(items, n) = s \o <<last>>
  BY DEF Literal
<1> HIDE DEF last
<1>4. Literal(items, n) = Append(s, last)
  BY <1>2, <1>3, SeqAppend
<1>5. /\ IsSeq(Append(s, last)) /\ Len(Append(s, last)) = Len(items) + 1
      /\ Append(s, last)[Len(items) + 1] = last
      /\ \A i \in 1 .. Len(items) : Append(s, last)[i] = s[i]
  BY <1>2, SeqAppend
<1> QED  BY <1>4, <1>5 DEF last

(* One sequence after another.                                             *)
LEMMA SeqConcat ==
    ASSUME NEW s, IsSeq(s), NEW t, IsSeq(t)
    PROVE  /\ IsSeq(s \o t) /\ Len(s \o t) = Len(s) + Len(t)
           /\ \A i \in 1 .. Len(s) : (s \o t)[i] = s[i]
           /\ \A i \in 1 .. Len(t) : (s \o t)[Len(s) + i] = t[i]
<1> DEFINE S == {s[i] : i \in 1 .. Len(s)} \cup {t[i] : i \in 1 .. Len(t)}
<1>1. s \in Seq(S) /\ t \in Seq(S)
  <2>1. /\ s \in [1 .. Len(s) -> S] /\ Len(s) \in Nat
        /\ t \in [1 .. Len(t) -> S] /\ Len(t) \in Nat
    BY DEF IsSeq
  <2> QED  BY <2>1
<1> HIDE DEF S
<1>2. s \o t \in Seq(S) /\ Len(s \o t) = Len(s) + Len(t)
  BY <1>1
<1>3. \A i \in 1 .. Len(s) : (s \o t)[i] = s[i]
  BY <1>1
<1>4. \A i \in 1 .. Len(t) : (s \o t)[Len(s) + i] = t[i]
  BY <1>1
<1> QED  BY <1>2, <1>3, <1>4, SeqIs

(* What ProgramsWellFormed says of one program.                            *)
LEMMA ProgramIs ==
    ASSUME NEW p \in Programs, ranges = p.ranges
    PROVE  /\ IsSeq(p.a) /\ IsSeq(p.b) /\ IsSeq(ranges)
           /\ \A i \in 1 .. Len(p.a) : IsElement(p.a[i])
           /\ \A i \in 1 .. Len(p.b) : IsElement(p.b[i])
           /\ \A r \in DOMAIN ranges : IsRange(ranges[r]) /\ ranges[r].cur = NaN
<1>1. /\ p.a \in Seq(ToSet(p.a)) /\ p.b \in Seq(ToSet(p.b)) /\ ranges \in Seq(ToSet(ranges))
      /\ \A e \in ToSet(p.a) \cup ToSet(p.b) :
           \/ e.t = "n" /\ e = Num(e.n) /\ e.n \in Int
           \/ \E r \in DOMAIN ranges : e = Rng(r)
      /\ \A r \in ToSet(ranges) :
           r = Range_(r.start, r.inc, r.end) /\ {r.start, r.inc, r.end} \subseteq Int
  BY ProgramsWellFormed
<1>2. IsSeq(p.a) /\ IsSeq(p.b) /\ IsSeq(ranges)
  BY <1>1, SeqIs
<1>3. \A e \in ToSet(p.a) \cup ToSet(p.b) : IsElement(e)
  BY <1>1 DEF IsElement
<1>4. \A i \in 1 .. Len(p.a) : IsElement(p.a[i])
  BY <1>1, <1>3, ElementOfSeq
<1>5. \A i \in 1 .. Len(p.b) : IsElement(p.b[i])
  BY <1>1, <1>3, ElementOfSeq
<1>6. ASSUME NEW r \in DOMAIN ranges PROVE IsRange(ranges[r]) /\ ranges[r].cur = NaN
  <2> DEFINE R == ranges[r]
  <2>1. R \in ToSet(ranges)
    BY DEF ToSet
  <2>2. R = [cur |-> NaN, start |-> R.start, inc |-> R.inc, end |-> R.end]
    BY <1>1, <2>1 DEF Range_
  <2>3. R.start \in Int /\ R.inc \in Int /\ R.end \in Int
    BY <1>1, <2>1
  <2> HIDE DEF R
  <2>4. R.cur = NaN
    BY <2>2
  <2>5. IsRange(R)
    BY <2>2, <2>3, <2>4 DEF IsRange
  <2> QED  BY <2>4, <2>5 DEF R
<1> QED  BY <1>2, <1>4, <1>5, <1>6

(* The nodes of a program go on one after the other.                       *)
LEMMA InitStraight ==
    ASSUME Init
    PROVE  /\ IsSeq(nodes) /\ ListsTyped
           /\ \A q \in Places :
                \/ nodes[q] = [e |-> Nothing, next |-> 0]
                \/ \E e : /\ IsElement(e) /\ q + 1 \in Places
                          /\ nodes[q] = [e |-> e, next |-> q + 1]
<1>1. PICK p \in Programs :
        /\ nodes = Literal(p.a, 0) \o Literal(p.b, Len(p.a) + 1)
        /\ lists = [a |-> 1, b |-> Len(p.a) + 2]
        /\ ranges = p.ranges
  BY DEF Init
<1>2. /\ IsSeq(p.a) /\ IsSeq(p.b)
      /\ \A i \in 1 .. Len(p.a) : IsElement(p.a[i])
      /\ \A i \in 1 .. Len(p.b) : IsElement(p.b[i])
  BY <1>1, ProgramIs
<1>k. PICK k : k = Len(p.a)
  OBVIOUS
<1>m. PICK m : m = Len(p.b)
  OBVIOUS
<1>A. PICK A : A = Literal(p.a, 0)
  OBVIOUS
<1>B. PICK B : B = Literal(p.b, k + 1)
  OBVIOUS
<1>3. k \in Nat /\ m \in Nat
  BY <1>2, <1>k, <1>m DEF IsSeq
<1>4. /\ IsSeq(A) /\ Len(A) = k + 1
      /\ \A i \in 1 .. k : A[i] = [e |-> p.a[i], next |-> 0 + i + 1]
      /\ A[k + 1] = [e |-> Nothing, next |-> 0]
  BY <1>2, <1>k, <1>A, LiteralIs
<1>5. /\ IsSeq(B) /\ Len(B) = m + 1
      /\ \A i \in 1 .. m : B[i] = [e |-> p.b[i], next |-> k + 1 + i + 1]
      /\ B[m + 1] = [e |-> Nothing, next |-> 0]
  <2>1. k + 1 \in Nat
    BY <1>3
  <2> QED  BY <1>2, <1>m, <1>B, <2>1, LiteralIs
<1>6. /\ IsSeq(nodes) /\ Len(nodes) = k + m + 2
      /\ \A i \in 1 .. k + 1 : nodes[i] = A[i]
      /\ \A i \in 1 .. m + 1 : nodes[k + 1 + i] = B[i]
  <2>1. nodes = A \o B
    BY <1>1, <1>k, <1>A, <1>B
  <2>2. /\ IsSeq(A \o B) /\ Len(A \o B) = Len(A) + Len(B)
        /\ \A i \in 1 .. Len(A) : (A \o B)[i] = A[i]
        /\ \A i \in 1 .. Len(B) : (A \o B)[Len(A) + i] = B[i]
    <3>1. IsSeq(A) /\ IsSeq(B)
      BY <1>4, <1>5
    <3>2. IsSeq(A \o B) /\ Len(A \o B) = Len(A) + Len(B)
      BY <3>1, SeqConcat
    <3>3. \A i \in 1 .. Len(A) : (A \o B)[i] = A[i]
      BY <3>1, SeqConcat
    <3>4. \A i \in 1 .. Len(B) : (A \o B)[Len(A) + i] = B[i]
      BY <3>1, SeqConcat
    <3> QED  BY <3>2, <3>3, <3>4
  <2> QED  BY <1>3, <1>4, <1>5, <2>1, <2>2
<1>7. Places = 1 .. (k + m + 2)
  BY <1>6 DEF Places
<1>8. ListsTyped
  <2>1. lists = [a |-> 1, b |-> k + 2]
    BY <1>1, <1>k
  <2>2. 1 \in Places /\ k + 2 \in Places
    BY <1>3, <1>7
  <2> QED  BY <2>1, <2>2 DEF ListsTyped
<1>9. ASSUME NEW q \in Places
      PROVE  \/ nodes[q] = [e |-> Nothing, next |-> 0]
             \/ \E e : /\ IsElement(e) /\ q + 1 \in Places
                       /\ nodes[q] = [e |-> e, next |-> q + 1]
  <2>1. CASE q \in 1 .. k
    <3>1. IsElement(p.a[q])
      BY <1>2, <1>k, <2>1
    <3>2. q + 1 \in Places /\ q \in 1 .. k + 1 /\ 0 + q + 1 = q + 1
      BY <1>3, <1>7, <2>1
    <3>3. nodes[q] = A[q]
      BY <1>6, <3>2
    <3>4. A[q] = [e |-> p.a[q], next |-> q + 1]
      BY <1>4, <2>1, <3>2
    <3> QED  BY <3>1, <3>2, <3>3, <3>4
  <2>2. CASE q = k + 1
    BY <1>3, <1>4, <1>6, <2>2
  <2>3. CASE q \in k + 2 .. k + m + 1
    <3>1. q - (k + 1) \in 1 .. m
      BY <1>3, <2>3
    <3>i. PICK i \in 1 .. m : i = q - (k + 1)
      BY <3>1
    <3>2. i \in 1 .. m + 1 /\ q = k + 1 + i /\ q + 1 = k + 1 + i + 1
      BY <1>3, <1>7, <3>i
    <3>3. nodes[q] = B[i]
      BY <1>6, <3>2
    <3>4. B[i] = [e |-> p.b[i], next |-> q + 1]
      BY <1>5, <3>2
    <3>5. IsElement(p.b[i]) /\ q + 1 \in Places
      BY <1>2, <1>3, <1>7, <1>m, <2>3
    <3> QED  BY <3>3, <3>4, <3>5
  <2>4. CASE q = k + m + 2
    <3>1. m + 1 \in 1 .. m + 1 /\ q = k + 1 + (m + 1)
      BY <1>3, <2>4
    <3> QED  BY <1>5, <1>6, <3>1
  <2>5. q \in 1 .. k \/ q = k + 1 \/ q \in k + 2 .. k + m + 1 \/ q = k + m + 2
    BY <1>3, <1>7
  <2> QED  BY <2>1, <2>2, <2>3, <2>4, <2>5, Zenon
<1> QED  BY <1>6, <1>8, <1>9

LEMMA InitInv == Init => IInv
<1> SUFFICES ASSUME Init PROVE IInv
  OBVIOUS
<1>1. loops = <<>> /\ asking = FALSE /\ Len(loops) = 0
  BY DEF Init
<1>2. /\ IsSeq(nodes) /\ ListsTyped
      /\ \A q \in Places :
           \/ nodes[q] = [e |-> Nothing, next |-> 0]
           \/ \E e : /\ IsElement(e) /\ q + 1 \in Places
                     /\ nodes[q] = [e |-> e, next |-> q + 1]
  BY InitStraight
<1>3. IsSeq(ranges) /\ \A r \in DOMAIN ranges : IsRange(ranges[r]) /\ ranges[r].cur = NaN
  BY ProgramIs DEF Init
<1>4. TypeOK
  <2>1. ASSUME NEW q \in Places PROVE IsNode(nodes[q])
    <3>1. CASE nodes[q] = [e |-> Nothing, next |-> 0]
      BY <3>1 DEF IsNode
    <3>2. CASE \E e : /\ IsElement(e) /\ q + 1 \in Places
                      /\ nodes[q] = [e |-> e, next |-> q + 1]
      BY <3>2 DEF IsNode
    <3> QED  BY <1>2, <3>1, <3>2
  <2>2. RangesTyped
    BY <1>3 DEF RangesTyped, IsSeq
  <2>3. LoopsTyped
    BY <1>1 DEF LoopsTyped, IsSeq
  <2> QED  BY <1>1, <1>2, <2>1, <2>2, <2>3 DEF TypeOK, NodesTyped
<1>5. Ends
  <2> SUFFICES ASSUME NEW S \in SUBSET Places, S # {}
               PROVE  \E q \in S : nodes[q].next \notin S
    BY DEF Ends
  <2>n. PICK n : n = Len(nodes)
    OBVIOUS
  <2> DEFINE T == {n - q : q \in S}
  <2>1. n \in Nat /\ Places = 1 .. n
    BY <1>2, <2>n DEF IsSeq, Places
  <2>2. T \in SUBSET Nat /\ T # {}
    <3>1. \A s \in S : n - s \in Nat
      BY <2>1
    <3> QED  BY <3>1, Zenon
  <2>3. PICK x \in T : \A y \in T : x <= y
    BY <2>2, Least
  <2>4. PICK q \in S : x = n - q
    BY <2>3
  <2>5. ASSUME NEW s \in S PROVE s <= q
    <3>1. n - s \in T
      OBVIOUS
    <3>2. n - q <= n - s
      BY <2>3, <2>4, <3>1
    <3> QED  BY <2>1, <3>2
  <2>6. nodes[q].next = 0 \/ nodes[q].next = q + 1
    <3>1. CASE nodes[q] = [e |-> Nothing, next |-> 0]
      BY <3>1
    <3>2. CASE \E e : nodes[q] = [e |-> e, next |-> q + 1]
      BY <3>2
    <3> QED  BY <1>2, <3>1, <3>2
  <2>7. 0 \notin S /\ q + 1 \notin S
    BY <2>1, <2>5
  <2> QED  BY <2>6, <2>7
<1>6. InLists
  BY <1>1 DEF InLists
<1>7. CurrentValid /\ RewoundUnlessLeft
  BY <1>3 DEF CurrentValid, RewoundUnlessLeft, RangesRewound
<1> QED  BY <1>4, <1>5, <1>6, <1>7 DEF IInv

(* Every step keeps the invariant.                                         *)
LEMMA NextInv == IInv /\ [Next]_vars => IInv'
<1> SUFFICES ASSUME IInv, [Next]_vars PROVE IInv'
  OBVIOUS
<1>1. ASSUME NEW l \in DOMAIN lists, For(l) \/ len(l) PROVE IInv'
  BY <1>1, BeginInv DEF For, len
<1>2. ASSUME NEW l \in DOMAIN lists, push(l) PROVE IInv'
  <2>1. \A e \in {Num(7)} \cup Variable : IsElement(e)
    BY TopIs DEF Variable, IInv, IsLoop, IsElement
  <2> QED  BY <1>2, <2>1, ListPushInv DEF push
<1>3. ASSUME NEW l \in DOMAIN lists, NEW m \in DOMAIN lists, tail(m, l) PROVE IInv'
  BY <1>3, TailInv
<1>4. CASE Iterate
  BY <1>4, IterateInv
<1>5. CASE GoOn
  BY <1>5, GoOnInv
<1>6. CASE EndLoop
  BY <1>6, EndLoopInv
<1>7. CASE Die
  BY <1>7, DieInv
<1>8. CASE UNCHANGED vars
  <2>1. UNCHANGED <<lists, nodes, ranges, loops, asking>>
    BY <1>8 DEF vars
  <2>2. NodesTyped' /\ Places' = Places /\ Ends' /\ \A p : From(p)' = From(p)
    BY <2>1, NodesStay DEF IInv
  <2>3. TypeOK'
    BY <2>1, <2>2 DEF IInv, TypeOK, ListsTyped, RangesTyped, LoopsTyped, IsSeq, IsRange,
                      IsLoop, IsElement
  <2>4. InLists' /\ CurrentValid' /\ RewoundUnlessLeft'
    BY <2>1, <2>2 DEF IInv, InLists, CurrentValid, RewoundUnlessLeft, RangesRewound
  <2> QED  BY <2>2, <2>3, <2>4 DEF IInv
<1> QED  BY <1>1, <1>2, <1>3, <1>4, <1>5, <1>6, <1>7, <1>8 DEF Next

(* The end of every list, which push and the loops go to.                  *)
EveryListEnds ==
    \A l \in DOMAIN lists :
        /\ End(lists[l]) \in From(lists[l])
        /\ nodes[End(lists[l])].e = Nothing /\ nodes[End(lists[l])].next = 0

-----------------------------------------------------------------------------
(* The inductive invariant holds in every reachable state.                 *)
THEOREM Inductive == Spec => []IInv
<1> QED  BY InitInv, NextInv, PTL DEF Spec

(* A range is in the middle only while a loop stands at it, so that the    *)
(* next to go through it begins at its start (list.s:186-193), of programs *)
(* that leave no loop in a range by an error.                              *)
THEOREM RangesStayRewound == ASSUME "left" \notin Odd PROVE Spec => []RangesRewound
<1>1. IInv => RangesRewound
  BY DEF IInv, RewoundUnlessLeft
<1> QED  BY <1>1, Inductive, PTL

(* Whatever is pushed, and whatever tails are taken, no list goes round:   *)
(* each has an empty node at its end.                                      *)
THEOREM ListsEnd == Spec => []EveryListEnds
<1>1. IInv => EveryListEnds
  BY EndFound DEF IInv, TypeOK, ListsTyped, EveryListEnds
<1> QED  BY <1>1, Inductive, PTL
=============================================================================
