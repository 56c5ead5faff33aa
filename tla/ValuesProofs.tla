---------------------------- MODULE ValuesProofs ----------------------------
(***************************************************************************)
(* Theorems about Values, for programs of any length, with calls nested as *)
(* deeply as they like: if a program does none of the odd things, the      *)
(* count of a Value covers all that need it, and nothing that can still be *)
(* reached was freed.                                                      *)
(***************************************************************************)
EXTENDS Values, FunctionTheorems, SequenceTheorems, FiniteSetTheorems, TLAPS

AllNames == Names \cup LoopNames \cup ToSet(Params) \cup {Keyword}

Binding(names) == UNION {[D -> Value] : D \in SUBSET names}
Scope == Binding(AllNames)
Tree == Binding(ToSet(Params) \cup {Keyword})
Given == [v : Value, by : {"nothing", "literal", "name", "call", "alloc"}]
BodyType == [call : {"body"}, last : Given]
SetType == [call : {"set"}, name : Names]
BuiltinType == [call : {"add", "write", "compare"}, items : Seq(Value)]
ScopeType == [call : {"scope"}, tree : Tree, given : BOOLEAN, left : Seq(ToSet(Params) \cup {Keyword})]
CallType == BodyType \cup SetType \cup BuiltinType \cup ScopeType

TypeOK ==
    /\ live \subseteq Value
    /\ refcount \in [Value -> Int]
    /\ varlist \in Seq(Scope) /\ varlist # <<>>
    /\ calls \in Seq(CallType) /\ calls # <<>>
    /\ val \in Given

-----------------------------------------------------------------------------
(* What has a share in the Value v: the names of every scope, the calls    *)
(* under way, with what a body returns if a builtin made it; the text; and *)
(* what was evaluated last, if no name has it.                             *)

NamesOf(scope, v) == Where(v, scope) \ LoopNames
SharesOf(call, v) ==
    Where(v, Arguments(call))
        \cup (IF call.call = "body" /\ call.last = [v |-> v, by |-> "alloc"] THEN {"last"} ELSE {})

Spots(sets) == UNION {{<<i, x>> : x \in sets[i]} : i \in 1 .. Len(sets)}
NameSpots(scopes, v) == Spots([i \in 1 .. Len(scopes) |-> NamesOf(scopes[i], v)])
CallSpots(cs, v) == Spots([i \in 1 .. Len(cs) |-> SharesOf(cs[i], v)])
Text(v) == IF v \in Made THEN 0 ELSE 1
Pending(g, v) == IF g.v = v /\ g.by \in {"literal", "alloc"} THEN 1 ELSE 0

Shares(scopes, cs, g, v) ==
    Cardinality(NameSpots(scopes, v)) + Cardinality(CallSpots(cs, v)) + Text(v) + Pending(g, v)

Covered ==
    \A v \in Value :
        /\ IsFiniteSet(NameSpots(varlist, v)) /\ IsFiniteSet(CallSpots(calls, v))
        /\ refcount[v] >= Shares(varlist, calls, val, v)
        /\ v \notin live => Shares(varlist, calls, val, v) = 0

(* Only the program gives names to what is in a list, and all that is are  *)
(* literals.                                                               *)
Loops ==
    \A i \in 1 .. Len(varlist) : \A x \in DOMAIN varlist[i] \cap LoopNames :
        i = Len(varlist) /\ varlist[i][x] \in Literal

(* What was evaluated last is there.                                       *)
Evaluated ==
    /\ val.v \in live
    /\ val.by = "nothing" => val.v = falsevalue
    /\ val.by = "literal" => val.v \in Literal
    /\ val.by = "name" => \E i \in 1 .. Len(varlist) : val.v \in Range(varlist[i])

(* Every call belongs to one of the scopes, which base numbers from the    *)
(* outermost: a body has one of its own.  What a comparison looks at was   *)
(* found in its scope or in one around it.                                 *)
Own(call) == IF call.call = "body" THEN 1 ELSE 0
Within(scopes, w, b) ==
    \E k \in 1 .. Len(scopes) : k > Len(scopes) - b /\ w \in Range(scopes[k])
Scoped(scopes, cs, base) ==
    /\ Len(base) = Len(cs) /\ base[1] = Len(scopes)
    /\ \A i \in 1 .. Len(cs) - 1 : base[i] = base[i + 1] + Own(cs[i])
    /\ \A i, j \in 1 .. Len(cs) : i < j => base[j] <= base[i] - Own(cs[i])
    /\ \A i \in 1 .. Len(cs) : cs[i].call = "compare" =>
          \A n \in 1 .. Len(cs[i].items) :
              cs[i].items[n] \in Literal \/ Within(scopes, cs[i].items[n], base[i])
Nests(scopes, cs) ==
    /\ cs[Len(cs)].call = "body"
    /\ \A i \in 1 .. Len(cs) : cs[i].call = "set" => i < Len(cs) /\ cs[i + 1].call = "body"
    /\ \E base \in Seq(Nat \ {0}) : Scoped(scopes, cs, base)
Nested == Nests(varlist, calls)

(* A call of the function whose argument is evaluated has a name left.     *)
Awaited ==
    \A i \in 1 .. Len(calls) :
        calls[i].call = "scope" /\ (i > 1 \/ val # Nothing) => calls[i].left # <<>>

(* The inductive invariant.                                                *)
IInv == TypeOK /\ Covered /\ Loops /\ Evaluated /\ Nested /\ Awaited

-----------------------------------------------------------------------------
(* Counting spots.                                                         *)

LEMMA NoneLeft ==
    ASSUME NEW a \in Nat, NEW b \in Nat, NEW c \in Nat, a + b + c <= 0
    PROVE  a = 0 /\ b = 0 /\ c = 0
    OBVIOUS

LEMMA SameSize ==
    ASSUME NEW S, NEW T, NEW f \in [S -> T],
           \A a, b \in S : f[a] = f[b] => a = b,
           \A t \in T : \E a \in S : f[a] = t
    PROVE  /\ IsFiniteSet(S) <=> IsFiniteSet(T)
           /\ IsFiniteSet(S) => Cardinality(S) = Cardinality(T)
<1>1. f \in Injection(S, T)
    BY DEF Injection, IsInjective
<1>2. f \in Surjection(S, T)
    BY DEF Surjection
<1> QED
    BY <1>1, <1>2, FS_Injection, FS_Surjection

LEMMA LenOf ==
    ASSUME NEW n \in Nat, NEW f, DOMAIN f = 1 .. n
    PROVE  Len(f) = n
    OBVIOUS

(* A sequence of sets gets one more in front.                              *)
LEMMA SpotsMoved ==
    ASSUME NEW f, NEW g, Len(f) \in Nat, Len(g) = Len(f) + 1,
           \A i \in 1 .. Len(f) : g[i + 1] = f[i]
    PROVE  /\ IsFiniteSet(Spots(g)) <=> IsFiniteSet(Spots(f)) /\ IsFiniteSet(g[1])
           /\ IsFiniteSet(Spots(g)) =>
                Cardinality(Spots(g)) = Cardinality(Spots(f)) + Cardinality(g[1])
<1> DEFINE A == {<<1, x>> : x \in g[1]}
           B == {<<p[1] + 1, p[2]>> : p \in Spots(f)}
<1>1. \A p \in Spots(f) : p = <<p[1], p[2]>> /\ p[1] \in 1 .. Len(f) /\ p[2] \in f[p[1]]
    BY DEF Spots
<1>2. \A i \in 1 .. Len(f) : \A x \in f[i] : <<i, x>> \in Spots(f)
    BY DEF Spots
<1>3. Spots(g) = A \cup B
  <2>1. ASSUME NEW q \in Spots(g)  PROVE  q \in A \cup B
    <3>1. PICK i \in 1 .. Len(g) : \E x \in g[i] : q = <<i, x>>
      BY DEF Spots
    <3>2. PICK x \in g[i] : q = <<i, x>>
      BY <3>1
    <3>3. CASE i = 1
      BY <3>2, <3>3
    <3>4. CASE i # 1
      <4>1. i - 1 \in 1 .. Len(f) /\ (i - 1) + 1 = i
        BY <3>4
      <4>2. g[i] = f[i - 1]
        BY <4>1
      <4>3. <<i - 1, x>> \in Spots(f)
        BY <1>2, <3>2, <4>1, <4>2
      <4>4. <<i - 1, x>>[1] + 1 = i /\ <<i - 1, x>>[2] = x
        BY <4>1
      <4> QED
        BY <3>2, <4>3, <4>4
    <3> QED
      BY <3>3, <3>4
  <2>2. ASSUME NEW q \in A  PROVE  q \in Spots(g)
    <3>1. 1 \in 1 .. Len(g)
      OBVIOUS
    <3> QED
      BY <3>1 DEF Spots
  <2>3. ASSUME NEW q \in B  PROVE  q \in Spots(g)
    <3>1. PICK p \in Spots(f) : q = <<p[1] + 1, p[2]>>
      OBVIOUS
    <3>2. p[1] \in 1 .. Len(f) /\ p[2] \in f[p[1]]
      BY <1>1
    <3>3. p[1] + 1 \in 1 .. Len(g) /\ g[p[1] + 1] = f[p[1]]
      BY <3>2
    <3> QED
      BY <3>1, <3>2, <3>3 DEF Spots
  <2> QED
    BY <2>1, <2>2, <2>3
<1>4. /\ IsFiniteSet(g[1]) <=> IsFiniteSet(A)
      /\ IsFiniteSet(g[1]) => Cardinality(g[1]) = Cardinality(A)
  <2> DEFINE h == [x \in g[1] |-> <<1, x>>]
  <2>1. h \in [g[1] -> A]
    OBVIOUS
  <2>2. \A a, b \in g[1] : h[a] = h[b] => a = b
    OBVIOUS
  <2>3. \A t \in A : \E a \in g[1] : h[a] = t
    OBVIOUS
  <2> HIDE DEF h, A
  <2> QED
    BY <2>1, <2>2, <2>3, SameSize
<1>5. /\ IsFiniteSet(Spots(f)) <=> IsFiniteSet(B)
      /\ IsFiniteSet(Spots(f)) => Cardinality(Spots(f)) = Cardinality(B)
  <2> DEFINE h == [p \in Spots(f) |-> <<p[1] + 1, p[2]>>]
  <2>1. h \in [Spots(f) -> B]
    OBVIOUS
  <2>2. ASSUME NEW a \in Spots(f), NEW b \in Spots(f), h[a] = h[b]  PROVE  a = b
    <3>1. a[1] + 1 = b[1] + 1 /\ a[2] = b[2]
      BY <2>2
    <3>2. a[1] = b[1]
      BY <1>1, <3>1
    <3> QED
      BY <1>1, <3>1, <3>2
  <2>3. \A t \in B : \E a \in Spots(f) : h[a] = t
    OBVIOUS
  <2> HIDE DEF h, B
  <2> QED
    BY <2>1, <2>2, <2>3, SameSize
<1>6. A \cap B = {}
  <2>1. \A q \in A : q[1] = 1
    OBVIOUS
  <2>2. \A q \in B : q[1] # 1
    BY <1>1
  <2> QED
    BY <2>1, <2>2
<1> HIDE DEF A, B
<1>7. IsFiniteSet(A \cup B) <=> IsFiniteSet(A) /\ IsFiniteSet(B)
  <2>1. A \in SUBSET (A \cup B) /\ B \in SUBSET (A \cup B)
    OBVIOUS
  <2> QED
    BY <2>1, FS_Subset, FS_Union
<1>8. ASSUME IsFiniteSet(A), IsFiniteSet(B)
      PROVE  Cardinality(A \cup B) = Cardinality(B) + Cardinality(A)
  <2>1. Cardinality(A \cap B) = 0
    BY <1>6, FS_EmptySet
  <2>2. Cardinality(A) \in Nat /\ Cardinality(B) \in Nat
    BY <1>8, FS_CardinalityType
  <2>3. Cardinality(A \cup B) = Cardinality(A) + Cardinality(B) - Cardinality(A \cap B)
    BY <1>8, FS_Union
  <2> QED
    BY <2>1, <2>2, <2>3
<1> QED
    BY <1>3, <1>4, <1>5, <1>7, <1>8

(* What the first of a sequence of scopes, or of calls, adds.              *)
Added(whole, rest, first) ==
    /\ IsFiniteSet(whole) <=> IsFiniteSet(rest) /\ IsFiniteSet(first)
    /\ IsFiniteSet(whole) =>
          /\ Cardinality(whole) = Cardinality(rest) + Cardinality(first)
          /\ Cardinality(whole) \in Nat
          /\ Cardinality(rest) \in Nat
          /\ Cardinality(first) \in Nat

LEMMA SpotsSplit ==
    ASSUME NEW f, NEW g, Len(f) \in Nat, Len(g) = Len(f) + 1,
           \A i \in 1 .. Len(f) : g[i + 1] = f[i]
    PROVE  Added(Spots(g), Spots(f), g[1])
<1>1. /\ IsFiniteSet(Spots(g)) <=> IsFiniteSet(Spots(f)) /\ IsFiniteSet(g[1])
      /\ IsFiniteSet(Spots(g)) =>
            Cardinality(Spots(g)) = Cardinality(Spots(f)) + Cardinality(g[1])
    BY SpotsMoved
<1>2. ASSUME IsFiniteSet(Spots(g))
      PROVE  /\ Cardinality(Spots(g)) \in Nat
             /\ Cardinality(Spots(f)) \in Nat
             /\ Cardinality(g[1]) \in Nat
    BY <1>1, <1>2, FS_CardinalityType
<1> QED
    BY <1>1, <1>2 DEF Added

LEMMA NamesSplit ==
    ASSUME NEW S, NEW s \in Seq(S), s # <<>>, NEW v
    PROVE  Added(NameSpots(s, v), NameSpots(Tail(s), v), NamesOf(s[1], v))
<1> DEFINE f == [i \in 1 .. Len(Tail(s)) |-> NamesOf(Tail(s)[i], v)]
           g == [i \in 1 .. Len(s) |-> NamesOf(s[i], v)]
<1>1. Len(Tail(s)) = Len(s) - 1 /\ Len(s) \in Nat \ {0}
    OBVIOUS
<1>2. Len(f) = Len(Tail(s)) /\ Len(g) = Len(s)
    BY <1>1, LenOf
<1>3. ASSUME NEW i \in 1 .. Len(f)  PROVE  g[i + 1] = f[i]
  <2>1. i + 1 \in 1 .. Len(s) /\ Tail(s)[i] = s[i + 1]
    BY <1>1, <1>2
  <2> QED
    BY <1>2, <2>1
<1>4. g[1] = NamesOf(s[1], v)
    BY <1>1
<1>5. Spots(g) = NameSpots(s, v) /\ Spots(f) = NameSpots(Tail(s), v)
    BY DEF NameSpots
<1> HIDE DEF f, g
<1>6. Len(f) \in Nat /\ Len(g) = Len(f) + 1
    BY <1>1, <1>2
<1>7. Added(Spots(g), Spots(f), g[1])
    BY <1>3, <1>6, SpotsSplit
<1> QED
    BY <1>4, <1>5, <1>7

LEMMA CallsSplit ==
    ASSUME NEW S, NEW s \in Seq(S), s # <<>>, NEW v
    PROVE  Added(CallSpots(s, v), CallSpots(Tail(s), v), SharesOf(s[1], v))
<1> DEFINE f == [i \in 1 .. Len(Tail(s)) |-> SharesOf(Tail(s)[i], v)]
           g == [i \in 1 .. Len(s) |-> SharesOf(s[i], v)]
<1>1. Len(Tail(s)) = Len(s) - 1 /\ Len(s) \in Nat \ {0}
    OBVIOUS
<1>2. Len(f) = Len(Tail(s)) /\ Len(g) = Len(s)
    BY <1>1, LenOf
<1>3. ASSUME NEW i \in 1 .. Len(f)  PROVE  g[i + 1] = f[i]
  <2>1. i + 1 \in 1 .. Len(s) /\ Tail(s)[i] = s[i + 1]
    BY <1>1, <1>2
  <2> QED
    BY <1>2, <2>1
<1>4. g[1] = SharesOf(s[1], v)
    BY <1>1
<1>5. Spots(g) = CallSpots(s, v) /\ Spots(f) = CallSpots(Tail(s), v)
    BY DEF CallSpots
<1> HIDE DEF f, g
<1>6. Len(f) \in Nat /\ Len(g) = Len(f) + 1
    BY <1>1, <1>2
<1>7. Added(Spots(g), Spots(f), g[1])
    BY <1>3, <1>6, SpotsSplit
<1> QED
    BY <1>4, <1>5, <1>7

-----------------------------------------------------------------------------
(* The operators of the model.                                             *)

LEMMA InFront ==
    ASSUME NEW S, NEW s \in Seq(S), NEW e \in S
    PROVE  /\ <<e>> \o s \in Seq(S) /\ <<e>> \o s # <<>>
           /\ (<<e>> \o s)[1] = e
           /\ Tail(<<e>> \o s) = s
           /\ Len(<<e>> \o s) = Len(s) + 1
           /\ \A i \in 1 .. Len(s) : (<<e>> \o s)[i + 1] = s[i]
<1>1. /\ <<e>> \o s \in Seq(S)
      /\ Len(<<e>> \o s) = Len(s) + 1
      /\ (<<e>> \o s)[1] = e
      /\ \A i \in 1 .. Len(s) : (<<e>> \o s)[i + 1] = s[i]
    OBVIOUS
<1>2. Tail(<<e>> \o s) = s
    BY <1>1
<1> QED
    BY <1>1, <1>2

LEMMA FirstChanged ==
    ASSUME NEW S, NEW s \in Seq(S), s # <<>>, NEW e \in S
    PROVE  /\ [s EXCEPT ![1] = e] \in Seq(S) /\ [s EXCEPT ![1] = e] # <<>>
           /\ [s EXCEPT ![1] = e][1] = e
           /\ Tail([s EXCEPT ![1] = e]) = Tail(s)
           /\ Len([s EXCEPT ![1] = e]) = Len(s)
           /\ \A i \in 2 .. Len(s) : [s EXCEPT ![1] = e][i] = s[i]
<1> DEFINE t == [s EXCEPT ![1] = e]
<1>1. /\ t \in Seq(S)
      /\ Len(t) = Len(s) /\ Len(s) \in Nat \ {0}
      /\ t[1] = e
      /\ \A i \in 2 .. Len(s) : t[i] = s[i]
    OBVIOUS
<1>2. Tail(t) = Tail(s)
  <2>1. Tail(t) \in Seq(S) /\ Tail(s) \in Seq(S) /\ Len(Tail(t)) = Len(Tail(s))
    BY <1>1
  <2>2. ASSUME NEW i \in 1 .. Len(Tail(s))  PROVE  Tail(t)[i] = Tail(s)[i]
    <3>1. i + 1 \in 2 .. Len(s)
      BY <1>1
    <3> HIDE DEF t
    <3> QED
      BY <1>1, <3>1
  <2> HIDE DEF t
  <2> QED
    BY <2>1, <2>2, SeqEqual
<1> QED
    BY <1>1, <1>2

LEMMA RestOf ==
    ASSUME NEW S, NEW s \in Seq(S), s # <<>>
    PROVE  /\ Len(s) \in Nat \ {0}
           /\ s[1] \in S
           /\ Tail(s) \in Seq(S)
           /\ Len(Tail(s)) = Len(s) - 1
           /\ \A i \in 1 .. Len(s) - 1 : Tail(s)[i] = s[i + 1]
    OBVIOUS

LEMMA BindingIs ==
    ASSUME NEW names, NEW f
    PROVE  f \in Binding(names) <=> f \in [DOMAIN f -> Value] /\ DOMAIN f \subseteq names
    BY DEF Binding

LEMMA BoundTyped ==
    ASSUME NEW names, NEW f \in Binding(names), NEW x \in names, NEW v \in Value
    PROVE  /\ Bound(f, x, v) \in Binding(names)
           /\ DOMAIN Bound(f, x, v) = DOMAIN f \cup {x}
           /\ \A y \in DOMAIN f \cup {x} : Bound(f, x, v)[y] = IF y = x THEN v ELSE f[y]
<1>1. f \in [DOMAIN f -> Value] /\ DOMAIN f \subseteq names
    BY BindingIs
<1>2. Bound(f, x, v) \in [DOMAIN f \cup {x} -> Value] /\ DOMAIN f \cup {x} \in SUBSET names
    BY <1>1 DEF Bound
<1>3. /\ DOMAIN Bound(f, x, v) = DOMAIN f \cup {x}
      /\ \A y \in DOMAIN f \cup {x} : Bound(f, x, v)[y] = IF y = x THEN v ELSE f[y]
    BY DEF Bound
<1> QED
    BY <1>2, <1>3 DEF Binding

LEMMA WhereBound ==
    ASSUME NEW f, NEW x, NEW v, NEW w
    PROVE  Where(w, Bound(f, x, v)) = (Where(w, f) \ {x}) \cup (IF w = v THEN {x} ELSE {})
<1>1. ASSUME NEW y
      PROVE  y \in Where(w, Bound(f, x, v))
                <=> y \in (Where(w, f) \ {x}) \cup (IF w = v THEN {x} ELSE {})
  <2>1. y \in Where(w, Bound(f, x, v)) <=> y \in DOMAIN f \cup {x} /\ Bound(f, x, v)[y] = w
    BY DEF Where, Bound
  <2>2. y \in Where(w, f) <=> y \in DOMAIN f /\ f[y] = w
    BY DEF Where
  <2>3. y \in DOMAIN f \cup {x} => Bound(f, x, v)[y] = IF y = x THEN v ELSE f[y]
    BY DEF Bound
  <2> QED
    BY <2>1, <2>2, <2>3
<1> QED
    BY <1>1

LEMMA WhereAppend ==
    ASSUME NEW s \in Seq(Value), NEW v \in Value, NEW w
    PROVE  /\ Where(w, Append(s, v)) = Where(w, s) \cup (IF w = v THEN {Len(s) + 1} ELSE {})
           /\ Len(s) + 1 \notin Where(w, s)
<1>1. /\ DOMAIN s = 1 .. Len(s) /\ Len(s) \in Nat
      /\ DOMAIN Append(s, v) = 1 .. Len(s) + 1
      /\ \A i \in 1 .. Len(s) : Append(s, v)[i] = s[i]
      /\ Append(s, v)[Len(s) + 1] = v
    OBVIOUS
<1>2. 1 .. Len(s) + 1 = (1 .. Len(s)) \cup {Len(s) + 1} /\ Len(s) + 1 \notin 1 .. Len(s)
    BY <1>1
<1> QED
    BY <1>1, <1>2 DEF Where

-----------------------------------------------------------------------------
(* Types.                                                                  *)

LEMMA ConstantFacts ==
    /\ Literal \subseteq Value /\ Made \subseteq Value /\ falsevalue \in Value
    /\ Literal \cap Made = {} /\ falsevalue \notin Literal /\ falsevalue \notin Made
    /\ Names \subseteq AllNames /\ LoopNames \subseteq AllNames /\ Started \subseteq AllNames
    /\ ToSet(Params) \cup {Keyword} \subseteq AllNames
    /\ Names \cap LoopNames = {} /\ (ToSet(Params) \cup {Keyword}) \cap LoopNames = {}
    BY ValuesDiffer, NamesDiffer DEF Value, AllNames

LEMMA NothingTyped ==
    /\ Nothing \in Given /\ Nothing.v = falsevalue /\ Nothing.by = "nothing"
    /\ Body \in CallType /\ Body.call = "body"
    /\ Body.last = [v |-> falsevalue, by |-> "call"]
    BY ConstantFacts DEF Nothing, Body, CallType, BodyType, Given

(* The record of a call has the fields of its kind.                        *)
LEMMA CallKinds ==
    ASSUME NEW c \in CallType
    PROVE  /\ c.call \in {"body", "set", "add", "write", "compare", "scope"}
           /\ c.call = "body" => c \in BodyType
           /\ c.call = "set" => c \in SetType
           /\ c.call \in {"add", "write", "compare"} => c \in BuiltinType
           /\ c.call = "scope" => c \in ScopeType
    BY DEF CallType, BodyType, SetType, BuiltinType, ScopeType

LEMMA InnermostTyped ==
    ASSUME TypeOK
    PROVE  /\ Innermost \in CallType
           /\ Tail(calls) \in Seq(CallType)
           /\ \A c \in CallType :
                 /\ [calls EXCEPT ![1] = c] \in Seq(CallType)
                 /\ [calls EXCEPT ![1] = c] # <<>>
                 /\ <<c>> \o calls \in Seq(CallType)
                 /\ <<c>> \o calls # <<>>
           /\ varlist[1] \in Scope
           /\ Tail(varlist) \in Seq(Scope)
           /\ val.v \in Value /\ val.by \in {"nothing", "literal", "name", "call", "alloc"}
<1>1. /\ calls \in Seq(CallType) /\ calls # <<>>
      /\ varlist \in Seq(Scope) /\ varlist # <<>>
      /\ val \in Given
    BY DEF TypeOK
<1>2. ASSUME NEW c \in CallType
      PROVE  /\ [calls EXCEPT ![1] = c] \in Seq(CallType)
             /\ [calls EXCEPT ![1] = c] # <<>>
             /\ <<c>> \o calls \in Seq(CallType)
             /\ <<c>> \o calls # <<>>
    BY <1>1, FirstChanged, InFront
<1>3. calls[1] \in CallType /\ Tail(calls) \in Seq(CallType)
    BY <1>1, RestOf
<1>4. varlist[1] \in Scope /\ Tail(varlist) \in Seq(Scope)
    BY <1>1, RestOf
<1> QED
    BY <1>1, <1>2, <1>3, <1>4 DEF Innermost, Given

(* What an action makes of the innermost call.                             *)
LEMMA ItemHeld ==
    ASSUME TypeOK, NEW v \in Value, Innermost.call \in {"add", "write", "compare"}, Holding(v)
    PROVE  LET c == [call |-> Innermost.call, items |-> Append(Innermost.items, v)]
           IN  /\ c \in BuiltinType
               /\ Innermost.items \in Seq(Value)
               /\ calls' = [calls EXCEPT ![1] = c]
<1>1. Innermost \in BuiltinType
    BY InnermostTyped, CallKinds
<1>2. Innermost.items \in Seq(Value) /\ Innermost = [call |-> Innermost.call, items |-> Innermost.items]
    BY <1>1 DEF BuiltinType
<1>3. Append(Innermost.items, v) \in Seq(Value)
    BY <1>2
<1>4. [Innermost EXCEPT !.items = Append(@, v)]
        = [call |-> Innermost.call, items |-> Append(Innermost.items, v)]
    BY <1>1 DEF BuiltinType
<1>5. calls' = [calls EXCEPT ![1] = [Innermost EXCEPT !.items = Append(@, v)]]
    BY DEF Holding, Innermost
<1> QED
    BY <1>1, <1>2, <1>3, <1>4, <1>5 DEF BuiltinType

LEMMA ScopeChanged ==
    ASSUME NEW c \in ScopeType, NEW left, NEW tree
    PROVE  [c EXCEPT !.left = left, !.tree = tree]
             = [call |-> "scope", tree |-> tree, given |-> c.given, left |-> left]
<1>1. [c EXCEPT !.left = left] = [call |-> "scope", tree |-> c.tree, given |-> c.given, left |-> left]
    BY DEF ScopeType
<1>2. [[c EXCEPT !.left = left] EXCEPT !.tree = tree]
        = [call |-> "scope", tree |-> tree, given |-> c.given, left |-> left]
  <2>1. \A t, g : [[call |-> "scope", tree |-> t, given |-> g, left |-> left] EXCEPT !.tree = tree]
                    = [call |-> "scope", tree |-> tree, given |-> g, left |-> left]
    OBVIOUS
  <2> QED
    BY <1>1, <2>1
<1>3. [c EXCEPT !.left = left, !.tree = tree] = [[c EXCEPT !.left = left] EXCEPT !.tree = tree]
    OBVIOUS
<1> QED
    BY <1>2, <1>3

LEMMA NameLeft ==
    ASSUME TypeOK, Innermost.call = "scope", Innermost.left # <<>>
    PROVE  /\ Innermost \in ScopeType
           /\ Innermost.tree \in Tree /\ Innermost.given \in BOOLEAN
           /\ Head(Innermost.left) \in ToSet(Params) \cup {Keyword}
           /\ Tail(Innermost.left) \in Seq(ToSet(Params) \cup {Keyword})
<1>1. Innermost \in ScopeType
    BY InnermostTyped, CallKinds
<1>2. /\ Innermost.tree \in Tree /\ Innermost.given \in BOOLEAN
      /\ Innermost.left \in Seq(ToSet(Params) \cup {Keyword})
    BY <1>1 DEF ScopeType
<1> QED
    BY <1>1, <1>2

LEMMA ArgumentBound ==
    ASSUME TypeOK, Awaited, Argument
    PROVE  LET x == Head(Innermost.left)
               c == [call |-> "scope",
                     tree |-> IF x # Keyword \/ ~Innermost.given
                              THEN Bound(Innermost.tree, x, val.v) ELSE Innermost.tree,
                     given |-> Innermost.given,
                     left |-> Tail(Innermost.left)]
           IN  /\ c \in ScopeType
               /\ Innermost.tree \in Tree
               /\ x \in ToSet(Params) \cup {Keyword}
               /\ calls' = [calls EXCEPT ![1] = c]
<1> DEFINE x == Head(Innermost.left)
           bound == x # Keyword \/ ~Innermost.given
           tree == IF bound THEN Bound(Innermost.tree, x, val.v) ELSE Innermost.tree
           c == [call |-> "scope", tree |-> tree, given |-> Innermost.given,
                 left |-> Tail(Innermost.left)]
<1>1. Innermost.call = "scope" /\ val # Nothing
    BY DEF Argument
<1>2. Innermost.left # <<>>
  <2>1. 1 \in 1 .. Len(calls)
    BY RestOf DEF TypeOK
  <2> QED
    BY <1>1, <2>1 DEF Awaited, Innermost
<1>3. /\ Innermost \in ScopeType
      /\ Innermost.tree \in Tree /\ Innermost.given \in BOOLEAN
      /\ x \in ToSet(Params) \cup {Keyword}
      /\ Tail(Innermost.left) \in Seq(ToSet(Params) \cup {Keyword})
    BY <1>1, <1>2, NameLeft
<1>4. Bound(Innermost.tree, x, val.v) \in Tree
    BY <1>3, BoundTyped, InnermostTyped DEF Tree
<1>5. c \in ScopeType
    BY <1>3, <1>4 DEF ScopeType
<1>6. calls' = [calls EXCEPT ![1].left = Tail(@),
                             ![1].tree = IF bound THEN Bound(@, x, val.v) ELSE @]
    BY DEF Argument
<1>7. calls' = [calls EXCEPT ![1] = [Innermost EXCEPT !.left = Tail(@), !.tree = tree]]
    BY <1>6 DEF Innermost
<1> HIDE DEF tree
<1>8. [Innermost EXCEPT !.left = Tail(@), !.tree = tree] = c
    BY <1>3, ScopeChanged
<1> QED
    BY <1>3, <1>5, <1>7, <1>8 DEF tree

LEMMA LastKept ==
    ASSUME TypeOK, evaluateStatements
    PROVE  LET c == [call |-> "body",
                     last |-> IF val.v = falsevalue THEN Innermost.last ELSE val]
           IN  /\ c \in BodyType
               /\ Innermost.last \in Given
               /\ calls' = [calls EXCEPT ![1] = c]
<1> DEFINE last == IF val.v = falsevalue THEN Innermost.last ELSE val
<1>1. Innermost \in BodyType /\ val \in Given
    BY InnermostTyped, CallKinds DEF evaluateStatements, TypeOK
<1>2. calls' = [calls EXCEPT ![1] = [Innermost EXCEPT !.last = last]]
    BY DEF evaluateStatements, Innermost
<1>3. [Innermost EXCEPT !.last = last] = [call |-> "body", last |-> last]
    BY <1>1 DEF BodyType
<1> QED
    BY <1>1, <1>2, <1>3 DEF BodyType

(* A function has a scope of its own, in which for gave no name.           *)
LEMMA OwnScope ==
    ASSUME TypeOK, Covered, Loops, Nested, Len(calls) > 1, Innermost.call = "body"
    PROVE  /\ Len(varlist) > 1
           /\ \A v \in Value :
                 /\ NamesOf(varlist[1], v) = Where(v, varlist[1])
                 /\ IsFiniteSet(Where(v, varlist[1]))
                 /\ Cardinality(Where(v, varlist[1])) \in Nat
<1>1. Len(varlist) > 1
  <2>1. PICK base \in Seq(Nat \ {0}) : Scoped(varlist, calls, base)
    BY DEF Nested, Nests
  <2>2. Len(calls) \in Nat /\ Len(varlist) \in Nat
    BY DEF TypeOK
  <2>3. base[1] = base[2] + 1 /\ base[1] = Len(varlist)
    BY <2>1, <2>2 DEF Scoped, Own, Innermost
  <2>4. base[2] \in Nat \ {0}
    BY <2>1, <2>2 DEF Scoped
  <2> QED
    BY <2>2, <2>3, <2>4
<1>2. ASSUME NEW v \in Value
      PROVE  /\ NamesOf(varlist[1], v) = Where(v, varlist[1])
             /\ IsFiniteSet(Where(v, varlist[1]))
             /\ Cardinality(Where(v, varlist[1])) \in Nat
  <2>1. DOMAIN varlist[1] \cap LoopNames = {}
    <3>1. 1 \in 1 .. Len(varlist) /\ 1 # Len(varlist)
      <4>1. Len(varlist) \in Nat
        BY DEF TypeOK
      <4>2. \A n \in Nat : n > 1 => 1 \in 1 .. n /\ 1 # n
        OBVIOUS
      <4> QED
        BY <1>1, <4>1, <4>2
    <3> QED
      BY <3>1 DEF Loops
  <2>2. NamesOf(varlist[1], v) = Where(v, varlist[1])
    BY <2>1 DEF NamesOf, Where
  <2>3. IsFiniteSet(NamesOf(varlist[1], v))
    BY NamesSplit DEF Covered, TypeOK, Added
  <2> QED
    BY <2>2, <2>3, FS_CardinalityType
<1> QED
    BY <1>1, <1>2

LEMMA ItemsFinite ==
    ASSUME NEW s \in Seq(Value), NEW v
    PROVE  IsFiniteSet(Where(v, s)) /\ Cardinality(Where(v, s)) \in Nat
<1>1. Where(v, s) \in SUBSET (1 .. Len(s)) /\ Len(s) \in Nat
    BY DEF Where
<1>2. IsFiniteSet(1 .. Len(s))
    BY <1>1, FS_Interval
<1>3. IsFiniteSet(Where(v, s))
    BY <1>1, <1>2, FS_Subset
<1> QED
    BY <1>3, FS_CardinalityType

LEMMA FreeAfterIs ==
    ASSUME TypeOK, NEW more \in [Value -> Int], NEW lost \in [Value -> Int], FreeAfter(more, lost)
    PROVE  /\ refcount' \in [Value -> Int]
           /\ \A v \in Value : refcount'[v] = refcount[v] + more[v] - lost[v]
           /\ live' \subseteq live /\ live' \subseteq Value
           /\ \A v \in live : refcount'[v] >= 1 => v \in live'
           /\ \A v \in live : lost[v] = 0 => v \in live'
           /\ \A v \in Value : v \notin live' => v \notin live \/ refcount'[v] < 1
<1>1. refcount \in [Value -> Int] /\ live \subseteq Value
    BY DEF TypeOK
<1>2. refcount' \in [Value -> Int] /\ \A v \in Value : refcount'[v] = refcount[v] + more[v] - lost[v]
    BY <1>1 DEF FreeAfter
<1>3. live' = live \ {v \in Value : lost[v] > 0 /\ refcount'[v] < 1}
    BY DEF FreeAfter
<1> QED
    BY <1>1, <1>2, <1>3

LEMMA LostTyped ==
    /\ None \in [Value -> Int] /\ \A v \in Value : None[v] = 0
    /\ \A v \in Value, n \in Int :
          /\ Just(v, n) \in [Value -> Int]
          /\ \A w \in Value : Just(v, n)[w] = IF w = v THEN n ELSE 0
    BY DEF None, Just

(* What an action makes of counts and Values.                              *)
LEMMA CountIs ==
    ASSUME TypeOK, NEW v \in Value, NEW n \in Int, Count(v, n)
    PROVE  /\ refcount' \in [Value -> Int]
           /\ \A w \in Value : refcount'[w] = IF w = v THEN refcount[w] + n ELSE refcount[w]
    BY DEF Count, TypeOK

LEMMA GivesTyped ==
    ASSUME NEW v \in Value, NEW by \in {"nothing", "literal", "name", "call", "alloc"}, Gives(v, by)
    PROVE  val' \in Given /\ val'.v = v /\ val'.by = by
    BY DEF Gives, Given

(* The shares of a Value, and what is known of them.                       *)
LEMMA SharesParts ==
    ASSUME NEW scopes, NEW cs, NEW g, NEW v,
           IsFiniteSet(NameSpots(scopes, v)), IsFiniteSet(CallSpots(cs, v))
    PROVE  /\ Cardinality(NameSpots(scopes, v)) \in Nat
           /\ Cardinality(CallSpots(cs, v)) \in Nat
           /\ Text(v) \in {0, 1} /\ Pending(g, v) \in {0, 1}
           /\ Shares(scopes, cs, g, v)
                 = Cardinality(NameSpots(scopes, v)) + Cardinality(CallSpots(cs, v)) + Text(v) + Pending(g, v)
           /\ v \notin Made => Shares(scopes, cs, g, v) >= 1
<1>1. /\ Cardinality(NameSpots(scopes, v)) \in Nat
      /\ Cardinality(CallSpots(cs, v)) \in Nat
    BY FS_CardinalityType
<1>2. /\ Text(v) \in {0, 1} /\ Pending(g, v) \in {0, 1}
      /\ v \notin Made => Text(v) = 1
    BY DEF Text, Pending
<1> QED
    BY <1>1, <1>2 DEF Shares

LEMMA CoveredParts ==
    ASSUME TypeOK, Covered, NEW v \in Value
    PROVE  /\ Added(NameSpots(varlist, v), NameSpots(Tail(varlist), v), NamesOf(varlist[1], v))
           /\ Added(CallSpots(calls, v), CallSpots(Tail(calls), v), SharesOf(Innermost, v))
           /\ IsFiniteSet(NameSpots(varlist, v)) /\ IsFiniteSet(CallSpots(calls, v))
           /\ Cardinality(NameSpots(varlist, v)) \in Nat
           /\ Cardinality(CallSpots(calls, v)) \in Nat
           /\ Text(v) \in {0, 1} /\ Pending(val, v) \in {0, 1} /\ Pending(val', v) \in {0, 1}
           /\ Shares(varlist, calls, val, v)
                 = Cardinality(NameSpots(varlist, v)) + Cardinality(CallSpots(calls, v)) + Text(v) + Pending(val, v)
           /\ refcount[v] \in Int /\ refcount[v] >= Shares(varlist, calls, val, v)
           /\ v \notin live => Shares(varlist, calls, val, v) = 0
           /\ v \notin Made => v \in live /\ Text(v) = 1
<1>1. /\ IsFiniteSet(NameSpots(varlist, v)) /\ IsFiniteSet(CallSpots(calls, v))
      /\ refcount[v] >= Shares(varlist, calls, val, v)
      /\ v \notin live => Shares(varlist, calls, val, v) = 0
    BY DEF Covered
<1>2. /\ Added(NameSpots(varlist, v), NameSpots(Tail(varlist), v), NamesOf(varlist[1], v))
      /\ Added(CallSpots(calls, v), CallSpots(Tail(calls), v), SharesOf(Innermost, v))
    BY NamesSplit, CallsSplit DEF TypeOK, Innermost
<1>3. refcount[v] \in Int
    BY DEF TypeOK
<1>4. Pending(val', v) \in {0, 1} /\ (v \notin Made => Text(v) = 1)
    BY DEF Pending, Text
<1> QED
    BY <1>1, <1>2, <1>3, <1>4, SharesParts

(* What was evaluated last, and then nothing.                              *)
LEMMA PendingIs ==
    ASSUME NEW g, NEW v
    PROVE  /\ g.by \notin {"literal", "alloc"} => Pending(g, v) = 0
           /\ g.v # v => Pending(g, v) = 0
           /\ g.v = v /\ g.by \in {"literal", "alloc"} => Pending(g, v) = 1
           /\ Pending(Nothing, v) = 0
    BY DEF Pending, Nothing

LEMMA EvaluatedNothing ==
    ASSUME TypeOK, Covered', val' = Nothing
    PROVE  Evaluated'
<1>1. falsevalue \in Value /\ falsevalue \notin Made
    BY ConstantFacts
<1>2. /\ IsFiniteSet(NameSpots(varlist', falsevalue)) /\ IsFiniteSet(CallSpots(calls', falsevalue))
      /\ falsevalue \notin live' => Shares(varlist', calls', val', falsevalue) = 0
    BY <1>1 DEF Covered
<1>3. falsevalue \in live'
    BY <1>1, <1>2, SharesParts
<1> QED
    BY <1>3, NothingTyped DEF Evaluated

(* The shares of a call that has none, or few.                             *)
LEMMA FewShares ==
    ASSUME NEW c \in CallType, NEW v
    PROVE  /\ c.call \in {"set", "compare"} => SharesOf(c, v) = {}
           /\ c.call \in {"add", "write"} => SharesOf(c, v) = Where(v, c.items)
           /\ c.call = "scope" => SharesOf(c, v) = Where(v, c.tree)
           /\ c.call = "body" =>
                 SharesOf(c, v) = IF c.last = [v |-> v, by |-> "alloc"] THEN {"last"} ELSE {}
<1>1. Where(v, <<>>) = {}
    BY DEF Where
<1>2. CASE c.call \in {"set", "compare"}
  <2>1. Arguments(c) = <<>>
    BY <1>2 DEF Arguments
  <2> QED
    BY <1>1, <1>2, <2>1 DEF SharesOf
<1>3. CASE c.call \in {"add", "write"}
  <2>1. Arguments(c) = c.items
    BY <1>3 DEF Arguments
  <2> QED
    BY <1>3, <2>1 DEF SharesOf
<1>4. CASE c.call = "scope"
  <2>1. Arguments(c) = c.tree
    BY <1>4 DEF Arguments
  <2> QED
    BY <1>4, <2>1 DEF SharesOf
<1>5. CASE c.call = "body"
  <2>1. Arguments(c) = <<>>
    BY <1>5 DEF Arguments
  <2> QED
    BY <1>1, <1>5, <2>1 DEF SharesOf
<1> QED
    BY <1>2, <1>3, <1>4, <1>5, CallKinds

LEMMA SetSizes ==
    /\ IsFiniteSet({}) /\ Cardinality({}) = 0
    /\ \A x : IsFiniteSet({x}) /\ Cardinality({x}) = 1
    BY FS_EmptySet, FS_Singleton

-----------------------------------------------------------------------------
(* How calls and scopes stay nested.                                       *)

LEMMA NestsPush ==
    ASSUME NEW scopes \in Seq(Scope), NEW cs \in Seq(CallType), cs # <<>>, scopes # <<>>,
           Nests(scopes, cs), NEW c \in CallType, c.call # "body",
           c.call = "set" => cs[1].call = "body",
           c.call = "compare" => c.items = <<>>
    PROVE  Nests(scopes, <<c>> \o cs)
<1> DEFINE ds == <<c>> \o cs
<1>1. PICK base \in Seq(Nat \ {0}) : Scoped(scopes, cs, base)
    BY DEF Nests
<1> DEFINE up == <<Len(scopes)>> \o base
<1>2. /\ Len(scopes) \in Nat \ {0} /\ Len(cs) \in Nat \ {0}
      /\ Len(base) = Len(cs) /\ base[1] = Len(scopes)
      /\ \A i \in 1 .. Len(cs) : base[i] \in Nat \ {0}
    BY <1>1 DEF Scoped
<1>3. /\ ds \in Seq(CallType) /\ Len(ds) = Len(cs) + 1 /\ ds[1] = c
      /\ \A i \in 1 .. Len(cs) : ds[i + 1] = cs[i]
    BY InFront
<1>4. /\ up \in Seq(Nat \ {0}) /\ Len(up) = Len(cs) + 1 /\ up[1] = Len(scopes)
      /\ \A i \in 1 .. Len(cs) : up[i + 1] = base[i]
    BY <1>2, InFront
<1> HIDE DEF ds, up
<1>5. \A i \in 2 .. Len(ds) : /\ i - 1 \in 1 .. Len(cs)
                               /\ ds[i] = cs[i - 1] /\ up[i] = base[i - 1]
  <2>1. ASSUME NEW i \in 2 .. Len(ds)
        PROVE  i - 1 \in 1 .. Len(cs) /\ ds[i] = cs[i - 1] /\ up[i] = base[i - 1]
    <3>1. i - 1 \in 1 .. Len(cs) /\ (i - 1) + 1 = i
      BY <1>2, <1>3
    <3> QED
      BY <1>3, <1>4, <3>1
  <2> QED
    BY <2>1
<1>6. Own(c) = 0
    BY DEF Own
<1>7. Scoped(scopes, ds, up)
  <2>1. ASSUME NEW i \in 1 .. Len(ds) - 1  PROVE  up[i] = up[i + 1] + Own(ds[i])
    <3>1. CASE i = 1
      <4>1. up[2] = base[1]
        <5>1. 2 \in 2 .. Len(ds) /\ 2 - 1 = 1
          BY <1>2, <1>3
        <5> QED
          BY <1>5, <5>1
      <4> QED
        BY <1>2, <1>3, <1>4, <1>6, <3>1, <4>1
    <3>2. CASE i # 1
      <4>1. i \in 2 .. Len(ds) /\ i + 1 \in 2 .. Len(ds) /\ i - 1 \in 1 .. Len(cs) - 1 /\ (i + 1) - 1 = (i - 1) + 1
        BY <1>2, <1>3, <3>2
      <4>2. base[i - 1] = base[(i - 1) + 1] + Own(cs[i - 1])
        BY <1>1, <4>1 DEF Scoped
      <4>3. up[i] = base[i - 1] /\ up[i + 1] = base[(i - 1) + 1] /\ ds[i] = cs[i - 1]
        BY <1>5, <4>1
      <4> QED
        BY <4>2, <4>3
    <3> QED
      BY <3>1, <3>2
  <2>2. ASSUME NEW i \in 1 .. Len(ds), NEW j \in 1 .. Len(ds), i < j
        PROVE  up[j] <= up[i] - Own(ds[i])
    <3>1. j \in 2 .. Len(ds)
      BY <1>2, <1>3, <2>2
    <3>2. j - 1 \in 1 .. Len(cs) /\ up[j] = base[j - 1]
      BY <1>5, <3>1
    <3>3. CASE i = 1
      <4>1. base[j - 1] <= base[1]
        <5>1. CASE j - 1 = 1
          BY <5>1, <1>2
        <5>2. CASE j - 1 # 1
          <6>1. 1 \in 1 .. Len(cs) /\ 1 < j - 1
            BY <1>2, <3>2, <5>2
          <6>2. base[j - 1] <= base[1] - Own(cs[1])
            BY <1>1, <3>2, <6>1 DEF Scoped
          <6>3. Own(cs[1]) \in {0, 1} /\ base[1] \in Nat /\ base[j - 1] \in Nat
            BY <1>2, <3>2, <6>1 DEF Own
          <6> QED
            BY <6>2, <6>3
        <5> QED
          BY <5>1, <5>2
      <4>2. base[j - 1] \in Nat
        BY <1>2, <3>2
      <4> QED
        BY <1>2, <1>3, <1>4, <1>6, <3>2, <3>3, <4>1, <4>2
    <3>4. CASE i # 1
      <4>1. i \in 2 .. Len(ds)
        BY <1>2, <1>3, <3>4
      <4>2. i - 1 \in 1 .. Len(cs) /\ up[i] = base[i - 1] /\ ds[i] = cs[i - 1]
        BY <1>5, <4>1
      <4>4. i - 1 < j - 1
        BY <2>2
      <4>3. base[j - 1] <= base[i - 1] - Own(cs[i - 1])
        BY <1>1, <3>2, <4>2, <4>4 DEF Scoped
      <4> QED
        BY <3>2, <4>2, <4>3
    <3> QED
      BY <3>3, <3>4
  <2>3. ASSUME NEW i \in 1 .. Len(ds), ds[i].call = "compare", NEW n \in 1 .. Len(ds[i].items)
        PROVE  ds[i].items[n] \in Literal \/ Within(scopes, ds[i].items[n], up[i])
    <3>1. i # 1
      <4>1. ASSUME i = 1  PROVE  FALSE
        <5>1. Len(ds[i].items) = 0
          BY <1>3, <2>3, <4>1
        <5> QED
          BY <2>3, <5>1
      <4> QED
        BY <4>1
    <3>2. i \in 2 .. Len(ds)
      BY <1>2, <1>3, <3>1
    <3>3. i - 1 \in 1 .. Len(cs) /\ ds[i] = cs[i - 1] /\ up[i] = base[i - 1]
      BY <1>5, <3>2
    <3> QED
      BY <1>1, <2>3, <3>3 DEF Scoped
  <2> QED
    BY <1>3, <1>4, <1>2, <2>1, <2>2, <2>3 DEF Scoped
<1>8. ds[Len(ds)].call = "body"
  <2>1. Len(ds) \in 2 .. Len(ds) /\ Len(ds) - 1 = Len(cs)
    BY <1>2, <1>3
  <2> QED
    BY <1>5, <2>1 DEF Nests
<1>9. ASSUME NEW i \in 1 .. Len(ds), ds[i].call = "set"
      PROVE  i < Len(ds) /\ ds[i + 1].call = "body"
  <2>1. CASE i = 1
    <3>1. 2 \in 2 .. Len(ds) /\ 1 < Len(ds)
      BY <1>2, <1>3
    <3>2. ds[2] = cs[1]
      BY <1>5, <3>1
    <3> QED
      BY <1>3, <1>9, <2>1, <3>1, <3>2
  <2>2. CASE i # 1
    <3>1. i \in 2 .. Len(ds)
      BY <1>2, <1>3, <2>2
    <3>2. i - 1 \in 1 .. Len(cs) /\ ds[i] = cs[i - 1]
      BY <1>5, <3>1
    <3>3. i - 1 < Len(cs) /\ cs[(i - 1) + 1].call = "body"
      BY <1>9, <3>2 DEF Nests
    <3>4. i + 1 \in 2 .. Len(ds) /\ (i + 1) - 1 = (i - 1) + 1 /\ i < Len(ds)
      BY <1>2, <1>3, <3>1, <3>3
    <3> QED
      BY <1>5, <3>3, <3>4
  <2> QED
    BY <2>1, <2>2
<1>10. Nests(scopes, ds)
    BY <1>4, <1>7, <1>8, <1>9 DEF Nests
<1> QED
    BY <1>10 DEF ds

LEMMA NestsTop ==
    ASSUME NEW scopes \in Seq(Scope), NEW cs \in Seq(CallType), cs # <<>>,
           Nests(scopes, cs), NEW c \in CallType, c.call = cs[1].call,
           c.call = "compare" =>
              \A n \in 1 .. Len(c.items) :
                  c.items[n] \in Literal \/ Within(scopes, c.items[n], Len(scopes))
    PROVE  Nests(scopes, [cs EXCEPT ![1] = c])
<1> DEFINE ds == [cs EXCEPT ![1] = c]
<1>1. PICK base \in Seq(Nat \ {0}) : Scoped(scopes, cs, base)
    BY DEF Nests
<1>2. /\ Len(ds) = Len(cs) /\ Len(cs) \in Nat \ {0} /\ ds[1] = c
      /\ \A i \in 2 .. Len(cs) : ds[i] = cs[i]
    BY FirstChanged
<1>3. \A i \in 1 .. Len(cs) : i = 1 \/ i \in 2 .. Len(cs)
    BY <1>2
<1> HIDE DEF ds
<1>4. \A i \in 1 .. Len(cs) : ds[i].call = cs[i].call /\ Own(ds[i]) = Own(cs[i])
    BY <1>2, <1>3 DEF Own
<1>5. ASSUME NEW i \in 1 .. Len(ds), ds[i].call = "compare", NEW n \in 1 .. Len(ds[i].items)
      PROVE  ds[i].items[n] \in Literal \/ Within(scopes, ds[i].items[n], base[i])
  <2>1. CASE i = 1
    BY <1>1, <1>2, <1>5, <2>1 DEF Scoped
  <2>2. CASE i # 1
    BY <1>1, <1>2, <1>3, <1>5, <2>2 DEF Scoped
  <2> QED
    BY <2>1, <2>2
<1>6. Scoped(scopes, ds, base)
  <2>1. \A i \in 1 .. Len(ds) - 1 : base[i] = base[i + 1] + Own(ds[i])
    <3>1. \A i \in 1 .. Len(cs) - 1 : base[i] = base[i + 1] + Own(cs[i])
      BY <1>1 DEF Scoped
    <3>2. \A i \in 1 .. Len(cs) - 1 : i \in 1 .. Len(cs)
      BY <1>2
    <3> QED
      BY <1>2, <1>4, <3>1, <3>2
  <2>2. \A i, j \in 1 .. Len(ds) : i < j => base[j] <= base[i] - Own(ds[i])
    BY <1>1, <1>2, <1>4 DEF Scoped
  <2> QED
    BY <1>1, <1>2, <1>5, <2>1, <2>2 DEF Scoped
<1>7. ds[Len(ds)].call = "body"
  <2>1. Len(cs) \in 1 .. Len(cs)
    BY <1>2
  <2> QED
    BY <1>2, <1>4, <2>1 DEF Nests
<1>8. ASSUME NEW i \in 1 .. Len(ds), ds[i].call = "set"
      PROVE  i < Len(ds) /\ ds[i + 1].call = "body"
  <2>1. i < Len(cs) /\ cs[i + 1].call = "body"
    BY <1>2, <1>4, <1>8 DEF Nests
  <2>2. i + 1 \in 1 .. Len(cs)
    BY <1>2, <2>1
  <2> QED
    BY <1>2, <1>4, <2>1, <2>2
<1>9. Nests(scopes, ds)
    BY <1>6, <1>7, <1>8 DEF Nests
<1> QED
    BY <1>9 DEF ds

(* A call that returns leaves the one it was in.  A body leaves its scope. *)
LEMMA NestsPop ==
    ASSUME NEW scopes \in Seq(Scope), NEW cs \in Seq(CallType), cs # <<>>, scopes # <<>>,
           Nests(scopes, cs), cs[1].call # "body"
    PROVE  /\ Len(cs) > 1 /\ Tail(cs) # <<>>
           /\ Nests(scopes, Tail(cs))
           /\ cs[1].call = "set" => Tail(cs)[1].call = "body"
<1> DEFINE ds == Tail(cs)
<1>1. PICK base \in Seq(Nat \ {0}) : Scoped(scopes, cs, base)
    BY DEF Nests
<1>2. Len(cs) \in Nat \ {0} /\ Len(base) = Len(cs) /\ base # <<>>
    BY <1>1 DEF Scoped
<1>3. Len(cs) > 1
    BY <1>2 DEF Nests
<1> DEFINE down == Tail(base)
<1>4. /\ Len(ds) = Len(cs) - 1 /\ ds \in Seq(CallType)
      /\ \A i \in 1 .. Len(cs) - 1 : ds[i] = cs[i + 1]
    BY RestOf
<1>5. /\ Len(down) = Len(cs) - 1 /\ down \in Seq(Nat \ {0})
      /\ \A i \in 1 .. Len(cs) - 1 : down[i] = base[i + 1]
    BY <1>2, RestOf
<1> HIDE DEF ds, down
<1>6. \A i \in 1 .. Len(ds) : i + 1 \in 1 .. Len(cs) /\ ds[i] = cs[i + 1] /\ down[i] = base[i + 1]
    BY <1>2, <1>4, <1>5
<1>7. Scoped(scopes, ds, down)
  <2>1. down[1] = Len(scopes)
    <3>1. 1 \in 1 .. Len(cs) - 1 /\ 1 \in 1 .. Len(ds) /\ 1 + 1 = 2
      BY <1>2, <1>3, <1>4
    <3>2. base[1] = base[2] + Own(cs[1]) /\ base[1] = Len(scopes) /\ down[1] = base[2]
      BY <1>1, <1>6, <3>1 DEF Scoped
    <3>3. Own(cs[1]) = 0 /\ base[2] \in Nat
      BY <1>2, <1>3 DEF Own
    <3> QED
      BY <3>2, <3>3
  <2>2. ASSUME NEW i \in 1 .. Len(ds) - 1  PROVE  down[i] = down[i + 1] + Own(ds[i])
    <3>1. i \in 1 .. Len(ds) /\ i + 1 \in 1 .. Len(ds) /\ i + 1 \in 1 .. Len(cs) - 1
      BY <1>2, <1>4
    <3>2. base[i + 1] = base[(i + 1) + 1] + Own(cs[i + 1])
      BY <1>1, <3>1 DEF Scoped
    <3> QED
      BY <1>6, <3>1, <3>2
  <2>3. ASSUME NEW i \in 1 .. Len(ds), NEW j \in 1 .. Len(ds), i < j
        PROVE  down[j] <= down[i] - Own(ds[i])
    <3>1. i + 1 \in 1 .. Len(cs) /\ j + 1 \in 1 .. Len(cs) /\ i + 1 < j + 1
      BY <1>6, <2>3
    <3>2. base[j + 1] <= base[i + 1] - Own(cs[i + 1])
      BY <1>1, <3>1 DEF Scoped
    <3> QED
      BY <1>6, <3>2
  <2>4. ASSUME NEW i \in 1 .. Len(ds), ds[i].call = "compare", NEW n \in 1 .. Len(ds[i].items)
        PROVE  ds[i].items[n] \in Literal \/ Within(scopes, ds[i].items[n], down[i])
    BY <1>1, <1>6, <2>4 DEF Scoped
  <2> QED
    BY <1>4, <1>5, <2>1, <2>2, <2>3, <2>4 DEF Scoped
<1>8. ds[Len(ds)].call = "body"
  <2>1. Len(ds) \in 1 .. Len(ds) /\ Len(ds) + 1 = Len(cs)
    BY <1>2, <1>3, <1>4
  <2> QED
    BY <1>6, <2>1 DEF Nests
<1>9. ASSUME NEW i \in 1 .. Len(ds), ds[i].call = "set"
      PROVE  i < Len(ds) /\ ds[i + 1].call = "body"
  <2>1. i + 1 < Len(cs) /\ cs[(i + 1) + 1].call = "body"
    BY <1>6, <1>9 DEF Nests
  <2>2. i + 1 \in 1 .. Len(ds) /\ i < Len(ds)
    BY <1>2, <1>4, <2>1
  <2>3. ds[i + 1] = cs[(i + 1) + 1]
    BY <1>6, <2>2
  <2> QED
    BY <2>1, <2>2, <2>3
<1>10. Nests(scopes, ds)
    BY <1>5, <1>7, <1>8, <1>9 DEF Nests
<1>11. ds # <<>>
    BY <1>3, <1>2, <1>4
<1>12. cs[1].call = "set" => ds[1].call = "body"
  <2>1. 1 \in 1 .. Len(ds) /\ 1 \in 1 .. Len(cs)
    BY <1>2, <1>3, <1>4
  <2> QED
    BY <1>6, <2>1 DEF Nests
<1> QED
    BY <1>3, <1>10, <1>11, <1>12 DEF ds

(* A body's calls were begun in scopes around its own.                     *)
LEMMA Around ==
    ASSUME NEW scopes \in Seq(Scope), NEW cs \in Seq(CallType), scopes # <<>>,
           NEW base \in Seq(Nat \ {0}), Scoped(scopes, cs, base), cs[1].call = "body",
           NEW i \in 2 .. Len(cs)
    PROVE  base[i] \in Nat \ {0} /\ base[i] <= Len(scopes) - 1
<1>1. Len(cs) \in Nat /\ Len(base) = Len(cs) /\ base[1] = Len(scopes) /\ Len(scopes) \in Nat
    BY DEF Scoped
<1>2. 1 \in 1 .. Len(cs) /\ i \in 1 .. Len(cs) /\ 1 < i
    BY <1>1
<1>3. base[i] <= base[1] - Own(cs[1]) /\ Own(cs[1]) = 1
    BY <1>2 DEF Scoped, Own
<1> QED
    BY <1>1, <1>2, <1>3

LEMMA NestsBound ==
    ASSUME NEW scopes \in Seq(Scope), NEW cs \in Seq(CallType), cs # <<>>, scopes # <<>>,
           Nests(scopes, cs), cs[1].call = "body", NEW f \in Scope
    PROVE  Nests([scopes EXCEPT ![1] = f], cs)
<1> DEFINE after == [scopes EXCEPT ![1] = f]
<1>1. PICK base \in Seq(Nat \ {0}) : Scoped(scopes, cs, base)
    BY DEF Nests
<1>2. /\ Len(after) = Len(scopes) /\ Len(scopes) \in Nat \ {0} /\ Len(cs) \in Nat
      /\ \A k \in 2 .. Len(scopes) : after[k] = scopes[k]
    BY FirstChanged
<1> HIDE DEF after
<1>3. ASSUME NEW i \in 1 .. Len(cs), cs[i].call = "compare", NEW n \in 1 .. Len(cs[i].items),
             cs[i].items[n] \notin Literal
      PROVE  Within(after, cs[i].items[n], base[i])
  <2>1. i \in 2 .. Len(cs)
    BY <1>2, <1>3
  <2>2. base[i] \in Nat \ {0} /\ base[i] <= Len(scopes) - 1
    BY <1>1, <2>1, Around
  <2>3. PICK k \in 1 .. Len(scopes) : k > Len(scopes) - base[i] /\ cs[i].items[n] \in Range(scopes[k])
    BY <1>1, <1>3 DEF Scoped, Within
  <2>4. k \in 2 .. Len(scopes)
    BY <1>2, <2>2, <2>3
  <2> QED
    BY <1>2, <2>3, <2>4 DEF Within
<1>4. Scoped(after, cs, base)
  <2>1. \A i \in 1 .. Len(cs) - 1 : base[i] = base[i + 1] + Own(cs[i])
    BY <1>1 DEF Scoped
  <2>2. \A i, j \in 1 .. Len(cs) : i < j => base[j] <= base[i] - Own(cs[i])
    BY <1>1 DEF Scoped
  <2>3. Len(base) = Len(cs) /\ base[1] = Len(after)
    BY <1>1, <1>2 DEF Scoped
  <2> QED
    BY <1>3, <2>1, <2>2, <2>3 DEF Scoped
<1>5. Nests(after, cs)
    BY <1>4 DEF Nests
<1> QED
    BY <1>5 DEF after

LEMMA NestsEnter ==
    ASSUME NEW scopes \in Seq(Scope), NEW cs \in Seq(CallType), cs # <<>>, scopes # <<>>,
           Nests(scopes, cs), cs[1].call = "scope", NEW f \in Scope
    PROVE  Nests(<<f>> \o scopes, [cs EXCEPT ![1] = Body])
<1> DEFINE after == <<f>> \o scopes
           ds == [cs EXCEPT ![1] = Body]
<1>1. PICK base \in Seq(Nat \ {0}) : Scoped(scopes, cs, base)
    BY DEF Nests
<1> DEFINE in == [base EXCEPT ![1] = Len(scopes) + 1]
<1>2. /\ Len(base) = Len(cs) /\ Len(cs) \in Nat \ {0} /\ base # <<>>
      /\ base[1] = Len(scopes) /\ Len(scopes) \in Nat \ {0}
      /\ \A i \in 1 .. Len(cs) : base[i] \in Nat \ {0}
    BY <1>1 DEF Scoped
<1>3. /\ Len(ds) = Len(cs) /\ ds[1] = Body /\ Body.call = "body"
      /\ \A i \in 2 .. Len(cs) : ds[i] = cs[i]
    BY FirstChanged, NothingTyped
<1>4. /\ in \in Seq(Nat \ {0}) /\ Len(in) = Len(cs) /\ in[1] = Len(scopes) + 1
      /\ \A i \in 2 .. Len(cs) : in[i] = base[i]
    BY <1>2, FirstChanged
<1>5. /\ Len(after) = Len(scopes) + 1
      /\ \A k \in 1 .. Len(scopes) : after[k + 1] = scopes[k]
    BY InFront
<1> HIDE DEF after, ds, in
<1>6. Own(cs[1]) = 0 /\ Own(ds[1]) = 1 /\ \A i \in 2 .. Len(cs) : Own(ds[i]) = Own(cs[i])
    BY <1>3 DEF Own
<1>7. \A i \in 1 .. Len(cs) : i # 1 => i \in 2 .. Len(cs)
    BY <1>2
<1>8. Scoped(after, ds, in)
  <2>1. ASSUME NEW i \in 1 .. Len(ds) - 1  PROVE  in[i] = in[i + 1] + Own(ds[i])
    <3>1. i \in 1 .. Len(cs) - 1 /\ i \in 1 .. Len(cs) /\ i + 1 \in 2 .. Len(cs) /\ i + 1 \in 1 .. Len(cs)
      BY <1>2, <1>3
    <3>2. base[i] = base[i + 1] + Own(cs[i]) /\ in[i + 1] = base[i + 1]
      BY <1>1, <1>4, <3>1 DEF Scoped
    <3>3. base[i] \in Nat /\ base[i + 1] \in Nat
      BY <1>2, <3>1
    <3>4. CASE i = 1
      <4>1. in[i] = base[i] + 1 /\ Own(cs[i]) = 0 /\ Own(ds[i]) = 1
        BY <1>2, <1>4, <1>6, <3>4
      <4> QED
        BY <3>2, <3>3, <4>1
    <3>5. CASE i # 1
      <4>1. i \in 2 .. Len(cs)
        BY <1>7, <3>1, <3>5
      <4> QED
        BY <1>4, <1>6, <3>2, <4>1
    <3> QED
      BY <3>4, <3>5
  <2>2. ASSUME NEW i \in 1 .. Len(ds), NEW j \in 1 .. Len(ds), i < j
        PROVE  in[j] <= in[i] - Own(ds[i])
    <3>1. i \in 1 .. Len(cs) /\ j \in 1 .. Len(cs) /\ j \in 2 .. Len(cs)
      BY <1>2, <1>3, <2>2
    <3>2. base[j] <= base[i] - Own(cs[i]) /\ in[j] = base[j]
      BY <1>1, <1>4, <2>2, <3>1 DEF Scoped
    <3>3. base[i] \in Nat /\ base[j] \in Nat
      BY <1>2, <3>1
    <3>4. CASE i = 1
      <4>1. in[i] = base[i] + 1 /\ Own(cs[i]) = 0 /\ Own(ds[i]) = 1
        BY <1>2, <1>4, <1>6, <3>4
      <4> QED
        BY <3>2, <3>3, <4>1
    <3>5. CASE i # 1
      <4>1. i \in 2 .. Len(cs)
        BY <1>7, <3>1, <3>5
      <4> QED
        BY <1>4, <1>6, <3>2, <4>1
    <3> QED
      BY <3>4, <3>5
  <2>3. ASSUME NEW i \in 1 .. Len(ds), ds[i].call = "compare", NEW n \in 1 .. Len(ds[i].items),
               ds[i].items[n] \notin Literal
        PROVE  Within(after, ds[i].items[n], in[i])
    <3>1. i \in 2 .. Len(cs) /\ i \in 1 .. Len(cs)
      BY <1>2, <1>3, <1>7, <2>3
    <3>2. ds[i] = cs[i] /\ in[i] = base[i]
      BY <1>3, <1>4, <3>1
    <3>3. PICK k \in 1 .. Len(scopes) : k > Len(scopes) - base[i] /\ ds[i].items[n] \in Range(scopes[k])
      BY <1>1, <2>3, <3>1, <3>2 DEF Scoped, Within
    <3>4. /\ k + 1 \in 1 .. Len(after) /\ k + 1 > Len(after) - in[i]
      <4>1. /\ Len(after) = Len(scopes) + 1 /\ in[i] = base[i]
            /\ base[i] \in Nat /\ Len(scopes) \in Nat
        BY <1>2, <1>5, <3>1, <3>2
      <4>2. k \in 1 .. Len(scopes) /\ k > Len(scopes) - base[i]
        BY <3>3
      <4> QED
        BY <4>1, <4>2
    <3>5. after[k + 1] = scopes[k]
      BY <1>5
    <3> QED
      BY <3>3, <3>4, <3>5 DEF Within
  <2> QED
    BY <1>3, <1>4, <1>5, <2>1, <2>2, <2>3 DEF Scoped
<1>9. ds[Len(ds)].call = "body"
  <2>1. Len(cs) \in 1 .. Len(cs)
    BY <1>2
  <2>2. CASE Len(cs) = 1
    BY <1>3, <2>2
  <2>3. CASE Len(cs) # 1
    BY <1>3, <1>7, <2>1, <2>3 DEF Nests
  <2> QED
    BY <2>2, <2>3
<1>10. ASSUME NEW i \in 1 .. Len(ds), ds[i].call = "set"
       PROVE  i < Len(ds) /\ ds[i + 1].call = "body"
  <2>1. i \in 1 .. Len(cs) /\ i \in 2 .. Len(cs)
    BY <1>3, <1>7, <1>10
  <2>2. ds[i] = cs[i]
    BY <1>3, <2>1
  <2>3. i < Len(cs) /\ cs[i + 1].call = "body"
    BY <1>10, <2>1, <2>2 DEF Nests
  <2>4. i + 1 \in 2 .. Len(cs)
    BY <1>2, <2>1, <2>3
  <2> QED
    BY <1>3, <2>3, <2>4
<1>11. Nests(after, ds)
    BY <1>4, <1>8, <1>9, <1>10 DEF Nests
<1> QED
    BY <1>11 DEF after, ds

LEMMA NestsLeave ==
    ASSUME NEW scopes \in Seq(Scope), NEW cs \in Seq(CallType), cs # <<>>, scopes # <<>>,
           Nests(scopes, cs), cs[1].call = "body", Len(cs) > 1
    PROVE  Nests(Tail(scopes), Tail(cs))
<1> DEFINE after == Tail(scopes)
           ds == Tail(cs)
<1>1. PICK base \in Seq(Nat \ {0}) : Scoped(scopes, cs, base)
    BY DEF Nests
<1> DEFINE down == Tail(base)
<1>2. /\ Len(base) = Len(cs) /\ Len(cs) \in Nat \ {0} /\ base # <<>>
      /\ base[1] = Len(scopes) /\ Len(scopes) \in Nat \ {0}
    BY <1>1 DEF Scoped
<1>3. /\ Len(ds) = Len(cs) - 1
      /\ \A i \in 1 .. Len(cs) - 1 : ds[i] = cs[i + 1]
    BY RestOf
<1>4. /\ down \in Seq(Nat \ {0}) /\ Len(down) = Len(cs) - 1
      /\ \A i \in 1 .. Len(cs) - 1 : down[i] = base[i + 1]
    BY <1>2, RestOf
<1>5. /\ Len(after) = Len(scopes) - 1
      /\ \A k \in 1 .. Len(scopes) - 1 : after[k] = scopes[k + 1]
    BY RestOf
<1> HIDE DEF after, ds, down
<1>6. \A i \in 1 .. Len(ds) : i + 1 \in 1 .. Len(cs) /\ i + 1 \in 2 .. Len(cs)
                                /\ ds[i] = cs[i + 1] /\ down[i] = base[i + 1]
  <2>1. ASSUME NEW i \in 1 .. Len(ds)
        PROVE  i \in 1 .. Len(cs) - 1 /\ i + 1 \in 1 .. Len(cs) /\ i + 1 \in 2 .. Len(cs)
    BY <1>2, <1>3
  <2> QED
    BY <1>3, <1>4, <2>1
<1>7. Scoped(after, ds, down)
  <2>1. down[1] = Len(after)
    <3>1. 1 \in 1 .. Len(cs) - 1 /\ 1 \in 1 .. Len(ds) /\ 1 + 1 = 2 /\ 2 \in 1 .. Len(cs)
      BY <1>2, <1>3
    <3>2. base[1] = base[2] + Own(cs[1]) /\ down[1] = base[2]
      BY <1>1, <1>6, <3>1 DEF Scoped
    <3>3. Own(cs[1]) = 1 /\ base[2] \in Nat
      BY <1>2, <3>1 DEF Own
    <3> QED
      BY <1>2, <1>5, <3>2, <3>3
  <2>2. ASSUME NEW i \in 1 .. Len(ds) - 1  PROVE  down[i] = down[i + 1] + Own(ds[i])
    <3>1. i \in 1 .. Len(ds) /\ i + 1 \in 1 .. Len(ds) /\ i + 1 \in 1 .. Len(cs) - 1
      BY <1>2, <1>3
    <3>2. base[i + 1] = base[(i + 1) + 1] + Own(cs[i + 1])
      BY <1>1, <3>1 DEF Scoped
    <3> QED
      BY <1>6, <3>1, <3>2
  <2>3. ASSUME NEW i \in 1 .. Len(ds), NEW j \in 1 .. Len(ds), i < j
        PROVE  down[j] <= down[i] - Own(ds[i])
    <3>1. i + 1 \in 1 .. Len(cs) /\ j + 1 \in 1 .. Len(cs) /\ i + 1 < j + 1
      BY <1>6, <2>3
    <3>2. base[j + 1] <= base[i + 1] - Own(cs[i + 1])
      BY <1>1, <3>1 DEF Scoped
    <3> QED
      BY <1>6, <3>2
  <2>4. ASSUME NEW i \in 1 .. Len(ds), ds[i].call = "compare", NEW n \in 1 .. Len(ds[i].items),
               ds[i].items[n] \notin Literal
        PROVE  Within(after, ds[i].items[n], down[i])
    <3>1. /\ i + 1 \in 1 .. Len(cs) /\ i + 1 \in 2 .. Len(cs)
          /\ ds[i] = cs[i + 1] /\ down[i] = base[i + 1]
      BY <1>6
    <3>2. PICK k \in 1 .. Len(scopes) :
              k > Len(scopes) - base[i + 1] /\ ds[i].items[n] \in Range(scopes[k])
      BY <1>1, <2>4, <3>1 DEF Scoped, Within
    <3>3. base[i + 1] \in Nat \ {0} /\ base[i + 1] <= Len(scopes) - 1
      BY <1>1, <3>1, Around
    <3>4. k - 1 \in 1 .. Len(scopes) - 1 /\ (k - 1) + 1 = k /\ k - 1 > Len(after) - down[i]
      <4>1. Len(after) = Len(scopes) - 1 /\ Len(scopes) \in Nat /\ down[i] = base[i + 1]
        BY <1>2, <1>5, <3>1
      <4>2. k \in Nat /\ k <= Len(scopes) /\ k > Len(scopes) - base[i + 1]
        BY <3>2, <4>1
      <4>3. Len(scopes) - base[i + 1] >= 1 /\ base[i + 1] \in Nat
        BY <3>3, <4>1
      <4>4. k >= 2
        BY <4>1, <4>2, <4>3
      <4>5. k - 1 > (Len(scopes) - 1) - base[i + 1]
        BY <4>1, <4>2, <4>3
      <4> QED
        BY <4>1, <4>2, <4>4, <4>5
    <3>5. after[k - 1] = scopes[k]
      BY <1>5, <3>4
    <3> QED
      BY <1>5, <3>2, <3>4, <3>5 DEF Within
  <2> QED
    BY <1>3, <1>4, <2>1, <2>2, <2>3, <2>4 DEF Scoped
<1>8. ds[Len(ds)].call = "body"
  <2>1. Len(ds) \in 1 .. Len(ds) /\ Len(ds) + 1 = Len(cs)
    BY <1>2, <1>3
  <2> QED
    BY <1>6, <2>1 DEF Nests
<1>9. ASSUME NEW i \in 1 .. Len(ds), ds[i].call = "set"
      PROVE  i < Len(ds) /\ ds[i + 1].call = "body"
  <2>1. i + 1 < Len(cs) /\ cs[(i + 1) + 1].call = "body"
    BY <1>6, <1>9 DEF Nests
  <2>2. i + 1 \in 1 .. Len(ds) /\ i < Len(ds)
    BY <1>2, <1>3, <2>1
  <2>3. ds[i + 1] = cs[(i + 1) + 1]
    BY <1>6, <2>2
  <2> QED
    BY <2>1, <2>2, <2>3
<1>10. Nests(after, ds)
    BY <1>4, <1>7, <1>8, <1>9 DEF Nests
<1> QED
    BY <1>10 DEF after, ds

-----------------------------------------------------------------------------
(* How the calls of the function go on with the names that are left.       *)

LEMMA AwaitedPush ==
    ASSUME TypeOK, Awaited, NEW c \in CallType, calls' = <<c>> \o calls,
           AtStatement \/ AtArgument, val' = val
    PROVE  Awaited'
<1>1. /\ Len(calls) \in Nat \ {0} /\ Len(calls') = Len(calls) + 1
      /\ \A i \in 1 .. Len(calls) : calls'[i + 1] = calls[i]
    BY InFront, RestOf DEF TypeOK
<1>2. val' = Nothing
    BY DEF AtStatement, AtArgument
<1>3. ASSUME NEW i \in 1 .. Len(calls'), calls'[i].call = "scope", i > 1
      PROVE  calls'[i].left # <<>>
  <2>1. i - 1 \in 1 .. Len(calls) /\ (i - 1) + 1 = i
    BY <1>1, <1>3
  <2>2. calls'[i] = calls[i - 1]
    BY <1>1, <2>1
  <2>3. CASE i - 1 = 1
    <3>1. Innermost.call = "scope"
      BY <1>3, <2>2, <2>3 DEF Innermost
    <3>2. Innermost.left # <<>>
      BY <3>1 DEF AtStatement, AtArgument
    <3> QED
      BY <2>2, <2>3, <3>2 DEF Innermost
  <2>4. CASE i - 1 # 1
    <3>1. i - 1 > 1
      BY <2>1, <2>4
    <3> QED
      BY <1>3, <2>1, <2>2, <3>1 DEF Awaited
  <2> QED
    BY <2>3, <2>4
<1> QED
    BY <1>2, <1>3 DEF Awaited, Nothing

LEMMA AwaitedTop ==
    ASSUME TypeOK, Awaited, NEW c \in CallType, calls' = [calls EXCEPT ![1] = c], val' = Nothing
    PROVE  Awaited'
<1>1. /\ Len(calls) \in Nat \ {0} /\ Len(calls') = Len(calls)
      /\ \A i \in 2 .. Len(calls) : calls'[i] = calls[i]
    BY FirstChanged, RestOf DEF TypeOK
<1>2. ASSUME NEW i \in 1 .. Len(calls'), calls'[i].call = "scope", i > 1
      PROVE  calls'[i].left # <<>>
  <2>1. i \in 2 .. Len(calls) /\ i \in 1 .. Len(calls)
    BY <1>1, <1>2
  <2> QED
    BY <1>1, <1>2, <2>1 DEF Awaited
<1> QED
    BY <1>2 DEF Awaited, Nothing

LEMMA AwaitedPop ==
    ASSUME TypeOK, Awaited, calls' = Tail(calls)
    PROVE  Awaited'
<1>1. /\ Len(calls) \in Nat \ {0} /\ Len(calls') = Len(calls) - 1
      /\ \A i \in 1 .. Len(calls) - 1 : calls'[i] = calls[i + 1]
    BY RestOf DEF TypeOK
<1>2. ASSUME NEW i \in 1 .. Len(calls'), calls'[i].call = "scope"
      PROVE  calls'[i].left # <<>>
  <2>1. i \in 1 .. Len(calls) - 1 /\ i + 1 \in 1 .. Len(calls) /\ i + 1 > 1
    BY <1>1
  <2>2. calls'[i] = calls[i + 1]
    BY <1>1, <2>1
  <2> QED
    BY <1>2, <2>1, <2>2 DEF Awaited
<1> QED
    BY <1>2 DEF Awaited

LEMMA AwaitedSame ==
    ASSUME TypeOK, Awaited, calls' = calls, AtArgument
    PROVE  Awaited'
<1>1. ASSUME NEW i \in 1 .. Len(calls'), calls'[i].call = "scope"
      PROVE  calls'[i].left # <<>>
  <2>1. CASE i = 1
    BY <1>1, <2>1 DEF AtArgument, Innermost
  <2>2. CASE i # 1
    <3>1. i > 1
      BY <2>2
    <3> QED
      BY <1>1, <3>1 DEF Awaited
  <2> QED
    BY <2>1, <2>2
<1> QED
    BY <1>1 DEF Awaited

-----------------------------------------------------------------------------
(* evaluateValue.                                                          *)

LEMMA LiterallyInv ==
    ASSUME IInv, NEW v \in Literal, Literally(v)
    PROVE  IInv'
<1> USE DEF IInv
<1>1. /\ val = Nothing /\ v \in Value /\ v \notin Made
      /\ UNCHANGED <<live, varlist, calls>>
      /\ Gives(v, "literal") /\ Count(v, 1)
    BY ConstantFacts DEF Literally, AtArgument
<1>2. /\ val' \in Given /\ val'.v = v /\ val'.by = "literal"
    BY <1>1, GivesTyped
<1>3. /\ refcount' \in [Value -> Int]
      /\ \A w \in Value : refcount'[w] = IF w = v THEN refcount[w] + 1 ELSE refcount[w]
    BY <1>1, CountIs
<1>4. TypeOK'
    BY <1>1, <1>2, <1>3 DEF TypeOK
<1>5. Covered'
  <2>1. ASSUME NEW w \in Value
        PROVE  /\ refcount'[w] >= Shares(varlist, calls, val', w)
               /\ w \notin live => Shares(varlist, calls, val', w) = 0
    <3>1. /\ IsFiniteSet(NameSpots(varlist, w)) /\ IsFiniteSet(CallSpots(calls, w))
          /\ Text(w) \in {0, 1}
          /\ refcount[w] \in Int /\ refcount[w] >= Shares(varlist, calls, val, w)
          /\ w \notin live => Shares(varlist, calls, val, w) = 0
          /\ w \notin Made => w \in live
      BY CoveredParts
    <3>2. /\ Cardinality(NameSpots(varlist, w)) \in Nat /\ Cardinality(CallSpots(calls, w)) \in Nat
          /\ Shares(varlist, calls, val, w)
                = Cardinality(NameSpots(varlist, w)) + Cardinality(CallSpots(calls, w)) + Text(w) + Pending(val, w)
          /\ Shares(varlist, calls, val', w)
                = Cardinality(NameSpots(varlist, w)) + Cardinality(CallSpots(calls, w)) + Text(w) + Pending(val', w)
      BY <3>1, SharesParts
    <3>3. Pending(val, w) = 0 /\ Pending(val', w) = IF w = v THEN 1 ELSE 0
      BY <1>1, <1>2, PendingIs
    <3> QED
      BY <1>1, <1>3, <3>1, <3>2, <3>3
  <2> QED
    BY <1>1, <2>1 DEF Covered
<1>6. Loops'
    BY <1>1 DEF Loops
<1>7. Evaluated'
  <2>1. v \in live
    BY <1>1, CoveredParts
  <2> QED
    BY <1>1, <1>2, <2>1 DEF Evaluated
<1>8. Nested'
    BY <1>1 DEF Nested
<1>9. Awaited'
    BY <1>1, AwaitedSame DEF Literally
<1> QED
    BY <1>4, <1>5, <1>6, <1>7, <1>8, <1>9

(* What a name has is there: a share, or a literal in the list of a for.   *)
LEMMA NamesLive ==
    ASSUME IInv, NEW i \in 1 .. Len(varlist)
    PROVE  Range(varlist[i]) \subseteq live
<1>1. ASSUME NEW x \in DOMAIN varlist[i]  PROVE  varlist[i][x] \in live
  <2> DEFINE v == varlist[i][x]
  <2>1. varlist[i] \in Scope
    BY DEF IInv, TypeOK
  <2>2. v \in Value
    BY <1>1, <2>1, BindingIs DEF Scope
  <2>3. CASE x \in LoopNames
    BY <2>3, CoveredParts, ConstantFacts DEF Loops, IInv
  <2>4. CASE x \notin LoopNames
    <3>1. <<i, x>> \in NameSpots(varlist, v)
      BY <2>4 DEF NameSpots, Spots, NamesOf, Where
    <3> HIDE DEF v
    <3>2. Cardinality(NameSpots(varlist, v)) # 0
      BY <2>2, <3>1, CoveredParts, FS_EmptySet DEF IInv
    <3>3. v \in live
      BY <2>2, <3>2, CoveredParts DEF IInv
    <3> QED
      BY <3>3 DEF v
  <2> QED
    BY <2>3, <2>4
<1> QED
    BY <1>1 DEF Range

LEMMA valueFromNameInv ==
    ASSUME IInv, NEW x, valueFromName(x)
    PROVE  IInv'
<1> USE DEF IInv
<1>1. PICK i \in DOMAIN varlist : x \in DOMAIN varlist[i] /\ Gives(varlist[i][x], "name")
    BY DEF valueFromName
<1>2. /\ val = Nothing
      /\ UNCHANGED <<live, refcount, varlist, calls>>
    BY DEF valueFromName, AtArgument
<1> DEFINE v == varlist[i][x]
<1>3. i \in 1 .. Len(varlist) /\ varlist[i] \in Scope
    BY DEF TypeOK
<1>4. v \in Value
    BY <1>1, <1>3, BindingIs DEF Scope
<1> HIDE DEF v
<1>5. val' \in Given /\ val'.v = v /\ val'.by = "name"
    BY <1>1, <1>4, GivesTyped DEF v
<1>6. v \in live
    BY <1>1, <1>3, NamesLive DEF Range, v
<1>7. TypeOK'
    BY <1>2, <1>5 DEF TypeOK
<1>8. Covered'
  <2>1. ASSUME NEW w \in Value
        PROVE  Shares(varlist, calls, val', w) = Shares(varlist, calls, val, w)
    <3>1. Pending(val, w) = 0 /\ Pending(val', w) = 0
      BY <1>2, <1>5, PendingIs
    <3> QED
      BY <3>1 DEF Shares
  <2> QED
    BY <1>2, <2>1 DEF Covered
<1>9. Loops'
    BY <1>2 DEF Loops
<1>10. Evaluated'
  <2>1. v \in Range(varlist[i])
    BY <1>1 DEF Range, v
  <2> QED
    BY <1>2, <1>3, <1>5, <1>6, <2>1 DEF Evaluated
<1>11. Nested'
    BY <1>2 DEF Nested
<1>12. Awaited'
    BY <1>2, AwaitedSame DEF valueFromName
<1> QED
    BY <1>7, <1>8, <1>9, <1>10, <1>11, <1>12

(* A call begins: its shares are counted.                                  *)
LEMMA BeginInv ==
    ASSUME IInv, NEW c \in CallType, c.call # "body", Begin(c),
           c.call = "set" => Innermost.call = "body",
           c.call = "compare" => c.items = <<>>,
           refcount' \in [Value -> Int],
           \A w \in Value :
              /\ IsFiniteSet(SharesOf(c, w))
              /\ refcount'[w] = refcount[w] + Cardinality(SharesOf(c, w))
              /\ w \notin live => SharesOf(c, w) = {}
    PROVE  IInv'
<1> USE DEF IInv
<1>1. /\ AtStatement \/ AtArgument
      /\ val = Nothing
      /\ calls' = <<c>> \o calls
      /\ UNCHANGED <<live, varlist, val>>
    BY DEF Begin, AtStatement, AtArgument
<1>2. /\ calls' \in Seq(CallType) /\ calls' # <<>>
      /\ calls'[1] = c /\ Tail(calls') = calls
    BY <1>1, InFront DEF TypeOK
<1>3. TypeOK'
    BY <1>1, <1>2 DEF TypeOK
<1>4. Covered'
  <2>1. ASSUME NEW w \in Value
        PROVE  /\ IsFiniteSet(CallSpots(calls', w))
               /\ refcount'[w] >= Shares(varlist, calls', val, w)
               /\ w \notin live => Shares(varlist, calls', val, w) = 0
    <3>1. /\ IsFiniteSet(NameSpots(varlist, w)) /\ IsFiniteSet(CallSpots(calls, w))
          /\ Text(w) \in {0, 1} /\ Pending(val, w) \in {0, 1}
          /\ refcount[w] \in Int /\ refcount[w] >= Shares(varlist, calls, val, w)
          /\ w \notin live => Shares(varlist, calls, val, w) = 0
          /\ Cardinality(NameSpots(varlist, w)) \in Nat /\ Cardinality(CallSpots(calls, w)) \in Nat
          /\ Shares(varlist, calls, val, w)
                = Cardinality(NameSpots(varlist, w)) + Cardinality(CallSpots(calls, w)) + Text(w) + Pending(val, w)
      BY CoveredParts
    <3>2. Added(CallSpots(calls', w), CallSpots(calls, w), SharesOf(c, w))
      BY <1>2, CallsSplit
    <3>3. /\ IsFiniteSet(CallSpots(calls', w))
          /\ Cardinality(CallSpots(calls', w)) = Cardinality(CallSpots(calls, w)) + Cardinality(SharesOf(c, w))
          /\ Cardinality(SharesOf(c, w)) \in Nat
      BY <3>1, <3>2 DEF Added
    <3>4. Shares(varlist, calls', val, w)
            = Cardinality(NameSpots(varlist, w)) + Cardinality(CallSpots(calls', w)) + Text(w) + Pending(val, w)
      BY <3>1, <3>3, SharesParts
    <3>5. Shares(varlist, calls', val, w) = Shares(varlist, calls, val, w) + Cardinality(SharesOf(c, w))
      BY <3>1, <3>3, <3>4
    <3>6. refcount'[w] >= Shares(varlist, calls', val, w)
      <4>1. Shares(varlist, calls, val, w) \in Int
        BY <3>1
      <4> QED
        BY <3>1, <3>3, <3>5, <4>1
    <3>7. ASSUME w \notin live  PROVE  Shares(varlist, calls', val, w) = 0
      <4>1. SharesOf(c, w) = {}
        BY <3>7
      <4>2. Cardinality(SharesOf(c, w)) = 0
        BY <4>1, SetSizes
      <4> QED
        BY <3>1, <3>5, <3>7, <4>2
    <3> QED
      BY <3>3, <3>6, <3>7
  <2> QED
    BY <1>1, <2>1 DEF Covered
<1>5. Loops' /\ Evaluated'
    BY <1>1 DEF Loops, Evaluated
<1>6. Nested'
    BY <1>1, NestsPush DEF Nested, TypeOK, Innermost
<1>7. Awaited'
    BY <1>1, AwaitedPush
<1> QED
    BY <1>3, <1>4, <1>5, <1>6, <1>7

LEMMA BeginSetInv ==
    ASSUME IInv, Odd = {}, NEW x \in Names, BeginSet(x)
    PROVE  IInv'
<1> DEFINE c == SetOf(x)
<1>1. c \in CallType /\ c.call = "set"
    BY DEF SetOf, CallType, SetType
<1>2. Begin(c) /\ refcount' = refcount
    BY DEF BeginSet
<1> HIDE DEF c
<1>3. Innermost.call = "body"
    BY <1>1, <1>2 DEF Begin, AtStatement
<1>4. \A w \in Value : SharesOf(c, w) = {}
    BY <1>1, FewShares
<1>5. refcount \in [Value -> Int]
    BY DEF IInv, TypeOK
<1>6. ASSUME NEW w \in Value  PROVE  refcount'[w] = refcount[w] + Cardinality(SharesOf(c, w))
  <2>1. Cardinality(SharesOf(c, w)) = 0 /\ refcount[w] \in Int
    BY <1>4, <1>5, SetSizes
  <2> QED
    BY <1>2, <2>1
<1> QED
    BY <1>1, <1>2, <1>3, <1>4, <1>5, <1>6, SetSizes, BeginInv

LEMMA BeginBuiltinInv ==
    ASSUME IInv, NEW name \in {"add", "write", "compare"}, BeginBuiltin(name)
    PROVE  IInv'
<1> DEFINE c == Builtin(name)
<1>1. c \in CallType /\ c.call = name /\ c.items = <<>>
    BY DEF Builtin, CallType, BuiltinType
<1>2. Begin(c) /\ refcount' = refcount
    BY DEF BeginBuiltin
<1> HIDE DEF c
<1>3. \A w \in Value : SharesOf(c, w) = {}
  <2>1. \A w : Where(w, <<>>) = {}
    BY DEF Where
  <2> QED
    BY <1>1, <2>1, FewShares
<1>4. refcount \in [Value -> Int]
    BY DEF IInv, TypeOK
<1>5. ASSUME NEW w \in Value  PROVE  refcount'[w] = refcount[w] + Cardinality(SharesOf(c, w))
  <2>1. Cardinality(SharesOf(c, w)) = 0 /\ refcount[w] \in Int
    BY <1>3, <1>4, SetSizes
  <2> QED
    BY <1>2, <2>1
<1> QED
    BY <1>1, <1>2, <1>3, <1>4, <1>5, SetSizes, BeginInv

LEMMA BeginCallInv ==
    ASSUME IInv, NEW v \in Literal, NEW given \in BOOLEAN, BeginCall(v, given)
    PROVE  IInv'
<1> DEFINE tree == [x \in {Keyword} |-> v]
           c == ScopeOf(tree, given)
<1>1. v \in Value /\ v \notin Made
    BY ConstantFacts
<1>2. tree \in Tree
  <2>1. tree \in [{Keyword} -> Value] /\ {Keyword} \in SUBSET (ToSet(Params) \cup {Keyword})
    BY <1>1
  <2> HIDE DEF tree
  <2> QED
    BY <2>1 DEF Tree, Binding
<1>3. Append(Params, Keyword) \in Seq(ToSet(Params) \cup {Keyword})
  <2>1. Params \in Seq(ToSet(Params) \cup {Keyword})
    BY NamesDiffer
  <2> QED
    BY <2>1
<1>4. /\ c \in CallType /\ c.call = "scope" /\ c.tree = tree
    BY <1>2, <1>3 DEF ScopeOf, CallType, ScopeType
<1>5. Begin(c) /\ Count(v, 1)
    BY DEF BeginCall
<1>6. \A w \in Value : SharesOf(c, w) = IF w = v THEN {Keyword} ELSE {}
  <2>1. \A w : Where(w, tree) = IF w = v THEN {Keyword} ELSE {}
    BY DEF Where
  <2> HIDE DEF c, tree
  <2> QED
    BY <1>4, <2>1, FewShares
<1> HIDE DEF c, tree
<1>7. /\ refcount \in [Value -> Int] /\ refcount' \in [Value -> Int]
      /\ \A w \in Value : refcount'[w] = IF w = v THEN refcount[w] + 1 ELSE refcount[w]
    BY <1>1, <1>5, CountIs DEF IInv, TypeOK
<1>8. ASSUME NEW w \in Value
      PROVE  /\ IsFiniteSet(SharesOf(c, w))
             /\ refcount'[w] = refcount[w] + Cardinality(SharesOf(c, w))
  <2>1. refcount[w] \in Int
    BY <1>7
  <2>2. IsFiniteSet(SharesOf(c, w)) /\ Cardinality(SharesOf(c, w)) = IF w = v THEN 1 ELSE 0
    BY <1>6, SetSizes
  <2> QED
    BY <1>7, <2>1, <2>2
<1>9. v \in live
    BY <1>1, CoveredParts DEF IInv
<1> QED
    BY <1>4, <1>5, <1>6, <1>7, <1>8, <1>9, BeginInv

-----------------------------------------------------------------------------
(* How the shares change when the innermost call or scope does.            *)

LEMMA CallsChanged ==
    ASSUME TypeOK, Covered, NEW c \in CallType, calls' = [calls EXCEPT ![1] = c],
           NEW w \in Value, IsFiniteSet(SharesOf(c, w))
    PROVE  /\ IsFiniteSet(CallSpots(calls', w))
           /\ Cardinality(CallSpots(calls', w)) + Cardinality(SharesOf(Innermost, w))
                = Cardinality(CallSpots(calls, w)) + Cardinality(SharesOf(c, w))
           /\ Cardinality(CallSpots(calls', w)) \in Nat
           /\ Cardinality(SharesOf(Innermost, w)) \in Nat /\ Cardinality(SharesOf(c, w)) \in Nat
<1>1. /\ calls' \in Seq(CallType) /\ calls' # <<>> /\ calls'[1] = c /\ Tail(calls') = Tail(calls)
    BY FirstChanged DEF TypeOK
<1>2. Added(CallSpots(calls', w), CallSpots(Tail(calls), w), SharesOf(c, w))
    BY <1>1, CallsSplit
<1>3. /\ Added(CallSpots(calls, w), CallSpots(Tail(calls), w), SharesOf(Innermost, w))
      /\ IsFiniteSet(CallSpots(calls, w))
    BY CoveredParts
<1> QED
    BY <1>2, <1>3 DEF Added

LEMMA CallsPopped ==
    ASSUME TypeOK, Covered, calls' = Tail(calls), NEW w \in Value
    PROVE  /\ IsFiniteSet(CallSpots(calls', w))
           /\ IsFiniteSet(SharesOf(Innermost, w))
           /\ Cardinality(CallSpots(calls', w)) + Cardinality(SharesOf(Innermost, w))
                = Cardinality(CallSpots(calls, w))
           /\ Cardinality(CallSpots(calls', w)) \in Nat
           /\ Cardinality(SharesOf(Innermost, w)) \in Nat
<1>1. /\ Added(CallSpots(calls, w), CallSpots(Tail(calls), w), SharesOf(Innermost, w))
      /\ IsFiniteSet(CallSpots(calls, w))
    BY CoveredParts
<1> QED
    BY <1>1 DEF Added

LEMMA NamesChanged ==
    ASSUME TypeOK, Covered, NEW f \in Scope, varlist' = [varlist EXCEPT ![1] = f],
           NEW w \in Value, IsFiniteSet(NamesOf(f, w))
    PROVE  /\ IsFiniteSet(NameSpots(varlist', w))
           /\ IsFiniteSet(NamesOf(varlist[1], w))
           /\ Cardinality(NameSpots(varlist', w)) + Cardinality(NamesOf(varlist[1], w))
                = Cardinality(NameSpots(varlist, w)) + Cardinality(NamesOf(f, w))
           /\ Cardinality(NameSpots(varlist', w)) \in Nat
           /\ Cardinality(NamesOf(varlist[1], w)) \in Nat /\ Cardinality(NamesOf(f, w)) \in Nat
<1>1. /\ varlist' \in Seq(Scope) /\ varlist' # <<>> /\ varlist'[1] = f /\ Tail(varlist') = Tail(varlist)
    BY FirstChanged DEF TypeOK
<1>2. Added(NameSpots(varlist', w), NameSpots(Tail(varlist), w), NamesOf(f, w))
    BY <1>1, NamesSplit
<1>3. /\ Added(NameSpots(varlist, w), NameSpots(Tail(varlist), w), NamesOf(varlist[1], w))
      /\ IsFiniteSet(NameSpots(varlist, w))
    BY CoveredParts
<1> QED
    BY <1>2, <1>3 DEF Added

LEMMA CoveredAfter ==
    ASSUME refcount' \in [Value -> Int],
           ASSUME NEW w \in Value
           PROVE  /\ IsFiniteSet(NameSpots(varlist', w)) /\ IsFiniteSet(CallSpots(calls', w))
                  /\ refcount'[w] >= Cardinality(NameSpots(varlist', w)) + Cardinality(CallSpots(calls', w))
                                       + Text(w) + Pending(val', w)
                  /\ w \notin live' => Cardinality(NameSpots(varlist', w)) + Cardinality(CallSpots(calls', w))
                                         + Text(w) + Pending(val', w) = 0
    PROVE  Covered'
    BY DEF Covered, Shares

-----------------------------------------------------------------------------
(* Builtins.                                                               *)

LEMMA evaluateListInv ==
    ASSUME IInv, evaluateList
    PROVE  IInv'
<1> USE DEF IInv
<1> DEFINE v == val.v
           c == [call |-> Innermost.call, items |-> Append(Innermost.items, v)]
<1>1. /\ Innermost.call \in {"add", "write"} /\ val # Nothing
      /\ Count(v, IF val.by \in {"name", "call"} THEN 1 ELSE 0)
      /\ Holding(v) /\ val' = Nothing
      /\ UNCHANGED <<live, varlist>>
    BY DEF evaluateList
<1>2. v \in Value /\ v \in live
    BY InnermostTyped DEF Evaluated
<1>3. /\ c \in CallType /\ c.call = Innermost.call /\ c.items = Append(Innermost.items, v)
      /\ Innermost.items \in Seq(Value) /\ Innermost \in CallType
      /\ calls' = [calls EXCEPT ![1] = c]
    BY <1>1, <1>2, ItemHeld, InnermostTyped DEF CallType
<1> HIDE DEF v, c
<1>4. val.by \in {"literal", "name", "call", "alloc"}
  <2>1. val \in Given /\ (val.by = "nothing" => val.v = falsevalue)
    BY DEF TypeOK, Evaluated
  <2>2. val.by = "nothing" => val = Nothing
    BY <2>1 DEF Given, Nothing
  <2> QED
    BY <1>1, <2>1, <2>2 DEF Given
<1>5. /\ refcount' \in [Value -> Int]
      /\ \A w \in Value : refcount'[w] =
            IF w = v /\ val.by \in {"name", "call"} THEN refcount[w] + 1 ELSE refcount[w]
  <2>1. /\ refcount' \in [Value -> Int] /\ refcount \in [Value -> Int]
        /\ \A w \in Value : refcount'[w] =
              IF w = v THEN refcount[w] + (IF val.by \in {"name", "call"} THEN 1 ELSE 0) ELSE refcount[w]
    BY <1>1, <1>2, CountIs DEF TypeOK
  <2> QED
    BY <2>1
<1>6. TypeOK'
    BY <1>1, <1>3, <1>5, FirstChanged, NothingTyped DEF TypeOK
<1>7. Covered'
  <2>1. ASSUME NEW w \in Value
        PROVE  /\ IsFiniteSet(NameSpots(varlist', w)) /\ IsFiniteSet(CallSpots(calls', w))
               /\ refcount'[w] >= Cardinality(NameSpots(varlist', w)) + Cardinality(CallSpots(calls', w))
                                       + Text(w) + Pending(val', w)
               /\ w \notin live' => Cardinality(NameSpots(varlist', w)) + Cardinality(CallSpots(calls', w))
                                         + Text(w) + Pending(val', w) = 0
    <3>1. /\ IsFiniteSet(NameSpots(varlist, w))
          /\ Text(w) \in {0, 1} /\ Pending(val, w) \in {0, 1}
          /\ refcount[w] \in Int /\ refcount[w] >= Shares(varlist, calls, val, w)
          /\ w \notin live => Shares(varlist, calls, val, w) = 0
          /\ Cardinality(NameSpots(varlist, w)) \in Nat /\ Cardinality(CallSpots(calls, w)) \in Nat
          /\ Shares(varlist, calls, val, w)
                = Cardinality(NameSpots(varlist, w)) + Cardinality(CallSpots(calls, w)) + Text(w) + Pending(val, w)
      BY CoveredParts
    <3>2. /\ SharesOf(c, w) = SharesOf(Innermost, w) \cup (IF w = v THEN {Len(Innermost.items) + 1} ELSE {})
          /\ Len(Innermost.items) + 1 \notin SharesOf(Innermost, w)
          /\ IsFiniteSet(SharesOf(Innermost, w))
      <4>1. SharesOf(c, w) = Where(w, c.items) /\ SharesOf(Innermost, w) = Where(w, Innermost.items)
        BY <1>1, <1>3, FewShares
      <4>2. /\ Where(w, Append(Innermost.items, v))
                 = Where(w, Innermost.items) \cup (IF w = v THEN {Len(Innermost.items) + 1} ELSE {})
            /\ Len(Innermost.items) + 1 \notin Where(w, Innermost.items)
            /\ IsFiniteSet(Where(w, Innermost.items))
        BY <1>2, <1>3, WhereAppend, ItemsFinite
      <4> QED
        BY <1>3, <4>1, <4>2
    <3>3. /\ IsFiniteSet(SharesOf(c, w))
          /\ Cardinality(SharesOf(c, w)) = Cardinality(SharesOf(Innermost, w)) + (IF w = v THEN 1 ELSE 0)
          /\ Cardinality(SharesOf(Innermost, w)) \in Nat
      <4>1. Cardinality(SharesOf(Innermost, w)) \in Nat
        BY <3>2, FS_CardinalityType
      <4>2. CASE w = v
        <5>1. SharesOf(c, w) = SharesOf(Innermost, w) \cup {Len(Innermost.items) + 1}
          BY <3>2, <4>2
        <5>2. /\ IsFiniteSet(SharesOf(Innermost, w) \cup {Len(Innermost.items) + 1})
              /\ Cardinality(SharesOf(Innermost, w) \cup {Len(Innermost.items) + 1})
                   = Cardinality(SharesOf(Innermost, w)) + 1
          BY <3>2, FS_AddElement
        <5> QED
          BY <4>1, <4>2, <5>1, <5>2
      <4>3. CASE w # v
        BY <3>2, <4>1, <4>3
      <4> QED
        BY <4>1, <4>2, <4>3
    <3>4. /\ IsFiniteSet(CallSpots(calls', w))
          /\ Cardinality(CallSpots(calls', w)) = Cardinality(CallSpots(calls, w)) + (IF w = v THEN 1 ELSE 0)
      <4>1. /\ IsFiniteSet(CallSpots(calls', w))
            /\ Cardinality(CallSpots(calls', w)) + Cardinality(SharesOf(Innermost, w))
                 = Cardinality(CallSpots(calls, w)) + Cardinality(SharesOf(c, w))
            /\ Cardinality(CallSpots(calls', w)) \in Nat
        BY <1>3, <3>3, CallsChanged
      <4> QED
        BY <3>1, <3>3, <4>1
    <3>5. Pending(val', w) = 0 /\ (w # v => Pending(val, w) = 0)
          /\ (w = v => Pending(val, w) = IF val.by \in {"literal", "alloc"} THEN 1 ELSE 0)
      BY <1>1, PendingIs DEF v
    <3>6. refcount'[w] = IF w = v /\ val.by \in {"name", "call"} THEN refcount[w] + 1 ELSE refcount[w]
      BY <1>5
    <3>7. CASE w = v
      BY <1>1, <1>2, <1>4, <3>1, <3>4, <3>5, <3>6, <3>7
    <3>8. CASE w # v
      BY <1>1, <3>1, <3>4, <3>5, <3>6, <3>8
    <3> QED
      BY <3>7, <3>8
  <2> QED
    BY <1>5, <2>1, CoveredAfter
<1>8. Loops'
    BY <1>1 DEF Loops
<1>9. Evaluated'
    BY <1>1, <1>7, EvaluatedNothing
<1>10. Nested'
  <2>1. c.call = calls[1].call /\ c.call # "compare"
    BY <1>1, <1>3 DEF Innermost
  <2> QED
    BY <1>1, <1>3, <2>1, NestsTop DEF Nested, TypeOK
<1>11. Awaited'
    BY <1>1, <1>3, AwaitedTop
<1> QED
    BY <1>6, <1>7, <1>8, <1>9, <1>10, <1>11

(* The counts of add's and write's arguments.                              *)
LEMMA ItemsCounted ==
    ASSUME TypeOK, Innermost.call \in {"add", "write"}, NEW w \in Value
    PROVE  /\ Times(Innermost.items)[w] = Cardinality(SharesOf(Innermost, w))
           /\ Times(Innermost.items)[w] \in Nat
           /\ Times(Innermost.items) \in [Value -> Int]
<1>1. Innermost \in CallType /\ Innermost \in BuiltinType
    BY InnermostTyped, CallKinds
<1>2. Innermost.items \in Seq(Value)
    BY <1>1 DEF BuiltinType
<1>3. SharesOf(Innermost, w) = Where(w, Innermost.items)
    BY <1>1, FewShares
<1>4. \A v \in Value : Cardinality(Where(v, Innermost.items)) \in Nat
    BY <1>2, ItemsFinite
<1> QED
    BY <1>3, <1>4 DEF Times

LEMMA addDefInv ==
    ASSUME IInv, addDef
    PROVE  IInv'
<1> USE DEF IInv
<1> DEFINE T(w) == Times(Innermost.items)[w]
           left == [w \in Value |-> refcount[w] - Times(Innermost.items)[w]]
           freed == {w \in Value : Times(Innermost.items)[w] > 0 /\ left[w] < 1}
<1>1. /\ Innermost.call = "add" /\ val = Nothing
      /\ calls' = Tail(calls) /\ varlist' = varlist
    BY DEF addDef
<1>2. PICK new \in Made \ (live \ freed) :
          /\ live' = (live \ freed) \cup {new}
          /\ refcount' = [left EXCEPT ![new] = 1]
          /\ Gives(new, "alloc")
    BY DEF addDef
<1>3. \A w \in Value : T(w) = Cardinality(SharesOf(Innermost, w)) /\ T(w) \in Nat
    BY <1>1, ItemsCounted
<1>4. refcount \in [Value -> Int] /\ live \subseteq Value
    BY DEF TypeOK
<1>5. \A w \in Value : left[w] = refcount[w] - T(w) /\ left[w] \in Int
    BY <1>3, <1>4
<1>6. left \in [Value -> Int]
    BY <1>5
<1>7. \A w \in freed : w \in Value /\ left[w] < 1
    OBVIOUS
<1>8. freed \subseteq Value
    OBVIOUS
<1> HIDE DEF T, left, freed
<1>9. new \in Value /\ new \in Made
    BY ConstantFacts
<1>10. /\ refcount' \in [Value -> Int]
       /\ \A w \in Value : refcount'[w] = IF w = new THEN 1 ELSE left[w]
    BY <1>2, <1>6, <1>9
<1>11. val' \in Given /\ val'.v = new /\ val'.by = "alloc"
    BY <1>2, <1>9, GivesTyped
<1>12. /\ calls # <<>> /\ calls[1].call # "body"
       /\ calls \in Seq(CallType) /\ varlist \in Seq(Scope) /\ varlist # <<>>
    BY <1>1 DEF TypeOK, Innermost
<1>13. calls' \in Seq(CallType) /\ calls' # <<>> /\ Nests(varlist, calls')
    BY <1>1, <1>12, NestsPop, RestOf DEF Nested
<1>14. TypeOK'
    BY <1>1, <1>2, <1>4, <1>9, <1>10, <1>11, <1>13 DEF TypeOK
<1>15. Covered'
  <2>1. ASSUME NEW w \in Value
        PROVE  /\ IsFiniteSet(NameSpots(varlist', w)) /\ IsFiniteSet(CallSpots(calls', w))
               /\ refcount'[w] >= Cardinality(NameSpots(varlist', w)) + Cardinality(CallSpots(calls', w))
                                       + Text(w) + Pending(val', w)
               /\ w \notin live' => Cardinality(NameSpots(varlist', w)) + Cardinality(CallSpots(calls', w))
                                         + Text(w) + Pending(val', w) = 0
    <3> DEFINE others == Cardinality(NameSpots(varlist, w)) + Cardinality(CallSpots(calls', w)) + Text(w)
    <3>1. /\ IsFiniteSet(NameSpots(varlist, w))
          /\ Text(w) \in {0, 1} /\ Pending(val, w) = 0
          /\ refcount[w] \in Int /\ refcount[w] >= Shares(varlist, calls, val, w)
          /\ w \notin live => Shares(varlist, calls, val, w) = 0
          /\ Cardinality(NameSpots(varlist, w)) \in Nat /\ Cardinality(CallSpots(calls, w)) \in Nat
          /\ Shares(varlist, calls, val, w)
                = Cardinality(NameSpots(varlist, w)) + Cardinality(CallSpots(calls, w)) + Text(w) + Pending(val, w)
      BY <1>1, CoveredParts, PendingIs
    <3>2. /\ IsFiniteSet(CallSpots(calls', w))
          /\ Cardinality(CallSpots(calls', w)) + T(w) = Cardinality(CallSpots(calls, w))
          /\ Cardinality(CallSpots(calls', w)) \in Nat
      BY <1>1, <1>3, CallsPopped
    <3>3. T(w) \in Nat /\ left[w] = refcount[w] - T(w)
      BY <1>3, <1>5
    <3>4. others \in Nat /\ left[w] >= others
      BY <3>1, <3>2, <3>3
    <3>5. w \notin live \ freed => others = 0
      <4>1. ASSUME w \notin live  PROVE  others = 0
        <5>1. Cardinality(NameSpots(varlist, w)) + Cardinality(CallSpots(calls, w)) + Text(w) = 0
          BY <3>1, <4>1
        <5>2. /\ Cardinality(NameSpots(varlist, w)) = 0 /\ Cardinality(CallSpots(calls, w)) = 0
              /\ Text(w) = 0
          BY <3>1, <5>1
        <5>3. Cardinality(CallSpots(calls', w)) = 0
          BY <3>2, <3>3, <5>2
        <5> QED
          BY <5>2, <5>3
      <4>2. w \in freed => left[w] < 1
        BY <1>7
      <4>3. left[w] \in Int
        BY <1>5
      <4> QED
        BY <3>4, <4>1, <4>2, <4>3
    <3> HIDE DEF others
    <3>6. Pending(val', w) = IF w = new THEN 1 ELSE 0
      BY <1>11, PendingIs
    <3>7. /\ refcount'[w] >= others + Pending(val', w)
          /\ w \notin live' => others + Pending(val', w) = 0
      <4>1. CASE w = new
        <5>1. others = 0 /\ w \in live' /\ refcount'[w] = 1
          BY <1>2, <1>10, <3>5, <4>1
        <5> QED
          BY <3>6, <4>1, <5>1
      <4>2. CASE w # new
        <5>1. refcount'[w] = left[w] /\ (w \notin live' => w \notin live \ freed)
          BY <1>2, <1>10, <4>2
        <5> QED
          BY <3>4, <3>5, <3>6, <4>2, <5>1
      <4> QED
        BY <4>1, <4>2
    <3> QED
      BY <1>1, <3>1, <3>2, <3>7 DEF others
  <2> QED
    BY <1>10, <2>1, CoveredAfter
<1>16. Loops'
    BY <1>1 DEF Loops
<1>17. Evaluated'
    BY <1>2, <1>11 DEF Evaluated
<1>18. Nested'
    BY <1>1, <1>13 DEF Nested
<1>19. Awaited'
    BY <1>1, AwaitedPop
<1> QED
    BY <1>14, <1>15, <1>16, <1>17, <1>18, <1>19

LEMMA writeDefInv ==
    ASSUME IInv, writeDef
    PROVE  IInv'
<1> USE DEF IInv
<1> DEFINE lost == Times(Innermost.items)
<1>1. /\ Innermost.call = "write" /\ val = Nothing
      /\ FreeAfter(None, lost) /\ Gives(falsevalue, "call")
      /\ calls' = Tail(calls) /\ varlist' = varlist
    BY DEF writeDef
<1>2. \A w \in Value : lost[w] = Cardinality(SharesOf(Innermost, w)) /\ lost[w] \in Nat
    BY <1>1, ItemsCounted
<1>3. falsevalue \in Value /\ falsevalue \notin Made
    BY ConstantFacts
<1>4. lost \in [Value -> Int]
    BY <1>1, <1>3, ItemsCounted
<1> HIDE DEF lost
<1>5. /\ refcount' \in [Value -> Int]
      /\ \A w \in Value : refcount'[w] = refcount[w] + None[w] - lost[w]
      /\ live' \subseteq Value
      /\ \A w \in Value : w \notin live' => w \notin live \/ refcount'[w] < 1
    BY <1>1, <1>4, LostTyped, FreeAfterIs
<1>6. val' \in Given /\ val'.v = falsevalue /\ val'.by = "call"
    BY <1>1, <1>3, GivesTyped
<1>7. /\ calls # <<>> /\ calls[1].call # "body"
      /\ calls \in Seq(CallType) /\ varlist \in Seq(Scope) /\ varlist # <<>>
    BY <1>1 DEF TypeOK, Innermost
<1>8. calls' \in Seq(CallType) /\ calls' # <<>> /\ Nests(varlist, calls')
    BY <1>1, <1>7, NestsPop, RestOf DEF Nested
<1>9. TypeOK'
    BY <1>1, <1>5, <1>6, <1>8 DEF TypeOK
<1>10. Covered'
  <2>1. ASSUME NEW w \in Value
        PROVE  /\ IsFiniteSet(NameSpots(varlist', w)) /\ IsFiniteSet(CallSpots(calls', w))
               /\ refcount'[w] >= Cardinality(NameSpots(varlist', w)) + Cardinality(CallSpots(calls', w))
                                       + Text(w) + Pending(val', w)
               /\ w \notin live' => Cardinality(NameSpots(varlist', w)) + Cardinality(CallSpots(calls', w))
                                         + Text(w) + Pending(val', w) = 0
    <3>1. /\ IsFiniteSet(NameSpots(varlist, w))
          /\ Text(w) \in {0, 1} /\ Pending(val, w) = 0
          /\ refcount[w] \in Int /\ refcount[w] >= Shares(varlist, calls, val, w)
          /\ w \notin live => Shares(varlist, calls, val, w) = 0
          /\ Cardinality(NameSpots(varlist, w)) \in Nat /\ Cardinality(CallSpots(calls, w)) \in Nat
          /\ Shares(varlist, calls, val, w)
                = Cardinality(NameSpots(varlist, w)) + Cardinality(CallSpots(calls, w)) + Text(w) + Pending(val, w)
      BY <1>1, CoveredParts, PendingIs
    <3>2. /\ IsFiniteSet(CallSpots(calls', w))
          /\ Cardinality(CallSpots(calls', w)) + lost[w] = Cardinality(CallSpots(calls, w))
          /\ Cardinality(CallSpots(calls', w)) \in Nat
      BY <1>1, <1>2, CallsPopped
    <3>3. Pending(val', w) = 0
      BY <1>6, PendingIs
    <3>4. refcount'[w] = refcount[w] - lost[w] /\ lost[w] \in Nat
      <4>1. refcount'[w] = refcount[w] + None[w] - lost[w] /\ None[w] = 0 /\ lost[w] \in Nat
        BY <1>2, <1>5, LostTyped
      <4> QED
        BY <3>1, <4>1
    <3>5. w \notin live' => w \notin live \/ refcount'[w] < 1
      BY <1>5
    <3>6. varlist' = varlist
      BY <1>1
    <3>7. refcount'[w] >= Cardinality(NameSpots(varlist, w)) + Cardinality(CallSpots(calls', w))
                              + Text(w) + Pending(val', w)
      BY <3>1, <3>2, <3>3, <3>4
    <3>8. ASSUME w \notin live'
          PROVE  Cardinality(NameSpots(varlist, w)) + Cardinality(CallSpots(calls', w))
                     + Text(w) + Pending(val', w) = 0
      <4> DEFINE n == Cardinality(NameSpots(varlist, w))
                 m == Cardinality(CallSpots(calls, w))
                 k == Cardinality(CallSpots(calls', w))
      <4>1. n \in Nat /\ m \in Nat /\ k \in Nat /\ k <= m /\ Text(w) \in Nat
        BY <3>1, <3>2, <3>4
      <4>2. CASE w \notin live
        <5>1. n + m + Text(w) <= 0
          BY <3>1, <4>2
        <5> HIDE DEF n, m, k
        <5>2. n = 0 /\ m = 0 /\ Text(w) = 0
          BY <4>1, <5>1, NoneLeft
        <5>3. k = 0
          BY <4>1, <5>2
        <5> QED
          BY <3>3, <5>2, <5>3 DEF n, k
      <4>3. CASE refcount'[w] < 1
        <5>1. refcount'[w] >= n + k + Text(w) + 0 /\ refcount'[w] \in Int
          BY <3>1, <3>3, <3>4, <3>7
        <5> HIDE DEF n, m, k
        <5>2. n = 0 /\ k = 0 /\ Text(w) = 0
          BY <4>1, <4>3, <5>1
        <5> QED
          BY <3>3, <5>2 DEF n, k
      <4> QED
        BY <3>5, <3>8, <4>2, <4>3
    <3> QED
      BY <3>1, <3>2, <3>6, <3>7, <3>8
  <2> QED
    BY <1>5, <2>1, CoveredAfter
<1>11. Loops'
    BY <1>1 DEF Loops
<1>12. Evaluated'
  <2>1. /\ IsFiniteSet(NameSpots(varlist', falsevalue)) /\ IsFiniteSet(CallSpots(calls', falsevalue))
        /\ falsevalue \notin live' => Shares(varlist', calls', val', falsevalue) = 0
    BY <1>3, <1>10 DEF Covered
  <2>2. falsevalue \in live'
    BY <1>3, <2>1, SharesParts
  <2> QED
    BY <1>6, <2>2 DEF Evaluated
<1>13. Nested'
    BY <1>1, <1>8 DEF Nested
<1>14. Awaited'
    BY <1>1, AwaitedPop
<1> QED
    BY <1>9, <1>10, <1>11, <1>12, <1>13, <1>14

(* A comparison looks at what is in scope, or in the program's text.       *)
LEMMA evaluateBoolExprInv ==
    ASSUME IInv, Odd = {}, evaluateBoolExpr
    PROVE  IInv'
<1> USE DEF IInv
<1> DEFINE v == val.v
           lost == IF val.by = "name" THEN None ELSE Just(val.v, 1)
           c == [call |-> Innermost.call, items |-> Append(Innermost.items, v)]
<1>1. /\ Innermost.call = "compare" /\ val.by \in {"name", "literal"}
      /\ FreeAfter(None, lost) /\ Holding(v)
      /\ val' = Nothing /\ varlist' = varlist
    BY DEF evaluateBoolExpr
<1>2. v \in Value /\ v \in live
    BY InnermostTyped DEF Evaluated
<1>3. /\ c \in CallType /\ c.call = "compare" /\ c.items = Append(Innermost.items, v)
      /\ Innermost.items \in Seq(Value) /\ Innermost \in CallType
      /\ calls' = [calls EXCEPT ![1] = c]
    BY <1>1, <1>2, ItemHeld, InnermostTyped DEF CallType
<1>4. /\ lost \in [Value -> Int]
      /\ \A w \in Value : lost[w] = IF val.by = "literal" /\ w = v THEN 1 ELSE 0
  <2>1. CASE val.by = "name"
    BY <2>1, LostTyped
  <2>2. CASE val.by = "literal"
    BY <1>2, <2>2, LostTyped
  <2> QED
    BY <1>1, <2>1, <2>2
<1>5. val.by = "literal" => v \in Literal
    BY DEF Evaluated
<1>6. v = val.v
    OBVIOUS
<1> HIDE DEF v, lost, c
<1>7. /\ refcount' \in [Value -> Int]
      /\ \A w \in Value : refcount'[w] = refcount[w] + None[w] - lost[w]
      /\ live' \subseteq Value
      /\ \A w \in Value : w \notin live' => w \notin live \/ refcount'[w] < 1
    BY <1>1, <1>4, LostTyped, FreeAfterIs
<1>8. TypeOK'
    BY <1>1, <1>3, <1>7, FirstChanged, NothingTyped DEF TypeOK
<1>9. Covered'
  <2>1. ASSUME NEW w \in Value
        PROVE  /\ IsFiniteSet(NameSpots(varlist', w)) /\ IsFiniteSet(CallSpots(calls', w))
               /\ refcount'[w] >= Cardinality(NameSpots(varlist', w)) + Cardinality(CallSpots(calls', w))
                                       + Text(w) + Pending(val', w)
               /\ w \notin live' => Cardinality(NameSpots(varlist', w)) + Cardinality(CallSpots(calls', w))
                                         + Text(w) + Pending(val', w) = 0
    <3>1. /\ IsFiniteSet(NameSpots(varlist, w))
          /\ Text(w) \in {0, 1} /\ Pending(val, w) \in {0, 1}
          /\ refcount[w] \in Int /\ refcount[w] >= Shares(varlist, calls, val, w)
          /\ w \notin live => Shares(varlist, calls, val, w) = 0
          /\ Cardinality(NameSpots(varlist, w)) \in Nat /\ Cardinality(CallSpots(calls, w)) \in Nat
          /\ Shares(varlist, calls, val, w)
                = Cardinality(NameSpots(varlist, w)) + Cardinality(CallSpots(calls, w)) + Text(w) + Pending(val, w)
      BY CoveredParts
    <3>2. /\ IsFiniteSet(CallSpots(calls', w))
          /\ Cardinality(CallSpots(calls', w)) = Cardinality(CallSpots(calls, w))
      <4>1. SharesOf(c, w) = {} /\ SharesOf(Innermost, w) = {}
        BY <1>1, <1>3, FewShares
      <4>2. /\ IsFiniteSet(SharesOf(c, w))
            /\ Cardinality(SharesOf(c, w)) = 0 /\ Cardinality(SharesOf(Innermost, w)) = 0
        BY <4>1, SetSizes
      <4>3. /\ IsFiniteSet(CallSpots(calls', w))
            /\ Cardinality(CallSpots(calls', w)) + Cardinality(SharesOf(Innermost, w))
                 = Cardinality(CallSpots(calls, w)) + Cardinality(SharesOf(c, w))
            /\ Cardinality(CallSpots(calls', w)) \in Nat
        BY <1>3, <4>2, CallsChanged
      <4> QED
        BY <3>1, <4>2, <4>3
    <3>3. /\ Pending(val', w) = 0
          /\ Pending(val, w) = IF val.by = "literal" /\ w = v THEN 1 ELSE 0
      BY <1>1, <1>6, PendingIs
    <3>4. refcount'[w] = refcount[w] - Pending(val, w)
      <4>1. refcount'[w] = refcount[w] + None[w] - lost[w] /\ None[w] = 0 /\ lost[w] = Pending(val, w)
        BY <1>4, <1>7, <3>3, LostTyped
      <4> QED
        BY <3>1, <4>1
    <3>5. w \notin live' => w \notin live \/ refcount'[w] < 1
      BY <1>7
    <3> QED
      BY <1>1, <3>1, <3>2, <3>3, <3>4, <3>5
  <2> QED
    BY <1>7, <2>1, CoveredAfter
<1>10. Loops'
    BY <1>1 DEF Loops
<1>11. Evaluated'
    BY <1>1, <1>9, EvaluatedNothing
<1>12. Nested'
  <2>1. v \in Literal \/ Within(varlist, v, Len(varlist))
    <3>1. val.by = "name" => \E i \in 1 .. Len(varlist) : v \in Range(varlist[i])
      BY <1>6 DEF Evaluated
    <3>2. \A i \in 1 .. Len(varlist) : i > Len(varlist) - Len(varlist)
      OBVIOUS
    <3> QED
      BY <1>1, <1>5, <3>1, <3>2 DEF Within
  <2>2. PICK base \in Seq(Nat \ {0}) : Scoped(varlist, calls, base)
    BY DEF Nested, Nests
  <2>3. Len(calls) \in Nat \ {0} /\ base[1] = Len(varlist)
    BY <2>2 DEF Scoped, TypeOK
  <2>4. ASSUME NEW n \in 1 .. Len(c.items)
        PROVE  c.items[n] \in Literal \/ Within(varlist, c.items[n], Len(varlist))
    <3>1. /\ Len(Append(Innermost.items, v)) = Len(Innermost.items) + 1
          /\ Len(Innermost.items) \in Nat
          /\ Append(Innermost.items, v)[Len(Innermost.items) + 1] = v
          /\ \A k \in 1 .. Len(Innermost.items) : Append(Innermost.items, v)[k] = Innermost.items[k]
      BY <1>2, <1>3
    <3>2. CASE n = Len(Innermost.items) + 1
      BY <1>3, <2>1, <3>1, <3>2
    <3>3. CASE n # Len(Innermost.items) + 1
      <4>1. n \in 1 .. Len(Innermost.items) /\ 1 \in 1 .. Len(calls)
        BY <1>3, <2>3, <3>1, <3>3
      <4>2. Innermost.items[n] \in Literal \/ Within(varlist, Innermost.items[n], Len(varlist))
        BY <1>1, <2>2, <2>3, <4>1 DEF Scoped, Innermost
      <4> QED
        BY <1>3, <3>1, <4>1, <4>2
    <3> QED
      BY <3>2, <3>3
  <2>5. c.call = calls[1].call
    BY <1>1, <1>3 DEF Innermost
  <2> QED
    BY <1>1, <1>3, <2>4, <2>5, NestsTop DEF Nested, TypeOK
<1>13. Awaited'
    BY <1>1, <1>3, AwaitedTop
<1> QED
    BY <1>8, <1>9, <1>10, <1>11, <1>12, <1>13

LEMMA ComparedInv ==
    ASSUME IInv, Compared
    PROVE  IInv'
<1> USE DEF IInv
<1>1. /\ Innermost.call = "compare" /\ calls' = Tail(calls)
      /\ UNCHANGED <<live, refcount, varlist, val>>
    BY DEF Compared
<1>2. /\ calls # <<>> /\ calls[1].call # "body"
      /\ calls \in Seq(CallType) /\ varlist \in Seq(Scope) /\ varlist # <<>>
    BY <1>1 DEF TypeOK, Innermost
<1>3. calls' \in Seq(CallType) /\ calls' # <<>> /\ Nests(varlist, calls')
    BY <1>1, <1>2, NestsPop, RestOf DEF Nested
<1>4. TypeOK'
    BY <1>1, <1>3 DEF TypeOK
<1>5. Covered'
  <2>1. ASSUME NEW w \in Value
        PROVE  /\ IsFiniteSet(CallSpots(calls', w))
               /\ Cardinality(CallSpots(calls', w)) = Cardinality(CallSpots(calls, w))
    <3>1. Cardinality(SharesOf(Innermost, w)) = 0
      <4>1. SharesOf(Innermost, w) = {}
        BY <1>1, FewShares, InnermostTyped
      <4> QED
        BY <4>1, SetSizes
    <3>2. /\ IsFiniteSet(CallSpots(calls', w))
          /\ Cardinality(CallSpots(calls', w)) + Cardinality(SharesOf(Innermost, w))
                = Cardinality(CallSpots(calls, w))
          /\ Cardinality(CallSpots(calls', w)) \in Nat
      BY <1>1, CallsPopped
    <3> QED
      BY <3>1, <3>2
  <2>2. \A w \in Value : Shares(varlist, calls', val, w) = Shares(varlist, calls, val, w)
    BY <2>1 DEF Shares
  <2> QED
    BY <1>1, <2>1, <2>2 DEF Covered
<1>6. Loops' /\ Evaluated'
    BY <1>1 DEF Loops, Evaluated
<1>7. Nested'
    BY <1>1, <1>3 DEF Nested
<1>8. Awaited'
    BY <1>1, AwaitedPop
<1> QED
    BY <1>4, <1>5, <1>6, <1>7, <1>8

(* A name that set makes has a share, and the one it had is gone.          *)
LEMMA NamesBound ==
    ASSUME NEW f \in Scope, NEW x \in AllNames \ LoopNames, NEW v \in Value, NEW w \in Value,
           IsFiniteSet(NamesOf(f, w))
    PROVE  /\ IsFiniteSet(NamesOf(Bound(f, x, v), w))
           /\ Cardinality(NamesOf(Bound(f, x, v), w))
                = Cardinality(NamesOf(f, w))
                    - (IF x \in DOMAIN f /\ f[x] = w THEN 1 ELSE 0) + (IF w = v THEN 1 ELSE 0)
           /\ Cardinality(NamesOf(f, w)) \in Nat
<1> DEFINE S == NamesOf(f, w)
<1>1. NamesOf(Bound(f, x, v), w) = (S \ {x}) \cup (IF w = v THEN {x} ELSE {})
  <2>1. Where(w, Bound(f, x, v)) = (Where(w, f) \ {x}) \cup (IF w = v THEN {x} ELSE {})
    BY WhereBound
  <2> QED
    BY <2>1 DEF NamesOf
<1>2. x \in S <=> x \in DOMAIN f /\ f[x] = w
    BY DEF NamesOf, Where
<1>3. IsFiniteSet(S) /\ Cardinality(S) \in Nat
    BY FS_CardinalityType
<1> HIDE DEF S
<1>4. /\ IsFiniteSet(S \ {x})
      /\ Cardinality(S \ {x}) = IF x \in S THEN Cardinality(S) - 1 ELSE Cardinality(S)
    BY <1>3, FS_RemoveElement
<1>5. Cardinality(S \ {x}) \in Nat
    BY <1>4, FS_CardinalityType
<1>6. CASE w = v
  <2>1. /\ IsFiniteSet((S \ {x}) \cup {x})
        /\ Cardinality((S \ {x}) \cup {x}) = Cardinality(S \ {x}) + 1
    BY <1>4, FS_AddElement
  <2>2. NamesOf(Bound(f, x, v), w) = (S \ {x}) \cup {x}
    BY <1>1, <1>6
  <2> QED
    BY <1>2, <1>3, <1>4, <1>6, <2>1, <2>2 DEF S
<1>7. CASE w # v
  <2>1. NamesOf(Bound(f, x, v), w) = S \ {x}
    BY <1>1, <1>7
  <2> QED
    BY <1>2, <1>3, <1>4, <1>7, <2>1 DEF S
<1> QED
    BY <1>6, <1>7

LEMMA setDefInv ==
    ASSUME IInv, Odd = {}, setDef
    PROVE  IInv'
<1> USE DEF IInv
<1> DEFINE v == val.v
           x == Innermost.name
           s == varlist[1]
           had == IF x \in DOMAIN varlist[1] THEN Just(varlist[1][x], 1) ELSE None
           more == IF val.by = "name" THEN Just(val.v, 1) ELSE None
           f == Bound(s, x, v)
<1>1. /\ Innermost.call = "set" /\ val # Nothing /\ val.by # "call"
      /\ FreeAfter(more, had)
      /\ varlist' = [varlist EXCEPT ![1] = f]
      /\ Gives(v, "call")
      /\ calls' = Tail(calls)
    BY DEF setDef
<1>2. v \in Value /\ v \in live /\ s \in Scope /\ v = val.v /\ s = varlist[1]
    BY InnermostTyped DEF Evaluated
<1>3. x \in AllNames \ LoopNames
  <2>1. Innermost \in SetType
    BY <1>1, InnermostTyped, CallKinds
  <2> QED
    BY <2>1, ConstantFacts DEF SetType
<1>4. val.by \in {"literal", "name", "alloc"}
  <2>1. val \in Given /\ (val.by = "nothing" => val.v = falsevalue)
    BY DEF TypeOK, Evaluated
  <2>2. val.by = "nothing" => val = Nothing
    BY <2>1 DEF Given, Nothing
  <2> QED
    BY <1>1, <2>1, <2>2 DEF Given
<1>5. /\ had \in [Value -> Int]
      /\ \A w \in Value : had[w] = IF x \in DOMAIN s /\ s[x] = w THEN 1 ELSE 0
  <2>1. CASE x \in DOMAIN s
    <3>1. s[x] \in Value
      BY <1>2, <2>1, BindingIs DEF Scope
    <3> QED
      BY <2>1, <3>1, LostTyped
  <2>2. CASE x \notin DOMAIN s
    BY <2>2, LostTyped
  <2> QED
    BY <2>1, <2>2
<1>6. /\ more \in [Value -> Int]
      /\ \A w \in Value : more[w] = IF val.by = "name" /\ w = v THEN 1 ELSE 0
  <2>1. CASE val.by = "name"
    BY <1>2, <2>1, LostTyped
  <2>2. CASE val.by # "name"
    BY <2>2, LostTyped
  <2> QED
    BY <2>1, <2>2
<1>7. /\ f \in Scope /\ DOMAIN f = DOMAIN s \cup {x}
      /\ \A y \in DOMAIN f : f[y] = IF y = x THEN v ELSE s[y]
  <2>1. s \in Binding(AllNames) /\ x \in AllNames
    BY <1>2, <1>3 DEF Scope
  <2> HIDE DEF s, x, v
  <2>2. Bound(s, x, v) \in Binding(AllNames)
    BY <1>2, <2>1, BoundTyped
  <2>3. DOMAIN Bound(s, x, v) = DOMAIN s \cup {x}
    BY DEF Bound
  <2>4. \A y \in DOMAIN s \cup {x} : Bound(s, x, v)[y] = IF y = x THEN v ELSE s[y]
    BY DEF Bound
  <2> QED
    BY <2>2, <2>3, <2>4 DEF Scope
<1>8. \A w \in Value : IsFiniteSet(NamesOf(s, w)) =>
          /\ IsFiniteSet(NamesOf(f, w))
          /\ Cardinality(NamesOf(f, w))
               = Cardinality(NamesOf(s, w)) - had[w] + (IF w = v THEN 1 ELSE 0)
    BY <1>2, <1>3, <1>5, NamesBound
<1> HIDE DEF v, x, s, had, more, f
<1>9. /\ refcount' \in [Value -> Int]
      /\ \A w \in Value : refcount'[w] = refcount[w] + more[w] - had[w]
      /\ live' \subseteq Value
      /\ \A w \in Value : w \notin live' => w \notin live \/ refcount'[w] < 1
    BY <1>1, <1>5, <1>6, FreeAfterIs
<1>10. val' \in Given /\ val'.v = v /\ val'.by = "call"
    BY <1>1, <1>2, GivesTyped
<1>11. /\ calls # <<>> /\ calls[1].call # "body"
       /\ calls \in Seq(CallType) /\ varlist \in Seq(Scope) /\ varlist # <<>>
    BY <1>1 DEF TypeOK, Innermost
<1>12. /\ calls' \in Seq(CallType) /\ calls' # <<>>
       /\ Nests(varlist, calls') /\ calls'[1].call = "body"
    BY <1>1, <1>11, NestsPop, RestOf DEF Nested, Innermost
<1>13. /\ varlist' \in Seq(Scope) /\ varlist' # <<>> /\ varlist'[1] = f
       /\ Len(varlist') = Len(varlist)
       /\ \A i \in 2 .. Len(varlist) : varlist'[i] = varlist[i]
       /\ Len(varlist) \in Nat \ {0}
    BY <1>1, <1>7, <1>11, FirstChanged, RestOf
<1>14. TypeOK'
    BY <1>9, <1>10, <1>12, <1>13 DEF TypeOK
<1>15. Covered'
  <2>1. ASSUME NEW w \in Value
        PROVE  /\ IsFiniteSet(NameSpots(varlist', w)) /\ IsFiniteSet(CallSpots(calls', w))
               /\ refcount'[w] >= Cardinality(NameSpots(varlist', w)) + Cardinality(CallSpots(calls', w))
                                       + Text(w) + Pending(val', w)
               /\ w \notin live' => Cardinality(NameSpots(varlist', w)) + Cardinality(CallSpots(calls', w))
                                         + Text(w) + Pending(val', w) = 0
    <3>1. /\ Text(w) \in {0, 1} /\ Pending(val, w) \in {0, 1}
          /\ refcount[w] \in Int /\ refcount[w] >= Shares(varlist, calls, val, w)
          /\ w \notin live => Shares(varlist, calls, val, w) = 0
          /\ Cardinality(NameSpots(varlist, w)) \in Nat /\ Cardinality(CallSpots(calls, w)) \in Nat
          /\ Shares(varlist, calls, val, w)
                = Cardinality(NameSpots(varlist, w)) + Cardinality(CallSpots(calls, w)) + Text(w) + Pending(val, w)
      BY CoveredParts
    <3>2. /\ IsFiniteSet(CallSpots(calls', w))
          /\ Cardinality(CallSpots(calls', w)) = Cardinality(CallSpots(calls, w))
      <4>1. Cardinality(SharesOf(Innermost, w)) = 0
        <5>1. SharesOf(Innermost, w) = {}
          BY <1>1, FewShares, InnermostTyped
        <5> QED
          BY <5>1, SetSizes
      <4>2. /\ IsFiniteSet(CallSpots(calls', w))
            /\ Cardinality(CallSpots(calls', w)) + Cardinality(SharesOf(Innermost, w))
                  = Cardinality(CallSpots(calls, w))
            /\ Cardinality(CallSpots(calls', w)) \in Nat
        BY <1>1, CallsPopped
      <4> QED
        BY <4>1, <4>2
    <3>3. /\ IsFiniteSet(NameSpots(varlist', w))
          /\ Cardinality(NameSpots(varlist', w))
               = Cardinality(NameSpots(varlist, w)) - had[w] + (IF w = v THEN 1 ELSE 0)
          /\ Cardinality(NameSpots(varlist', w)) \in Nat /\ had[w] \in {0, 1}
      <4>1. IsFiniteSet(NamesOf(s, w))
        BY <1>2, CoveredParts DEF Added
      <4>2. /\ IsFiniteSet(NamesOf(f, w))
            /\ Cardinality(NamesOf(f, w))
                 = Cardinality(NamesOf(s, w)) - had[w] + (IF w = v THEN 1 ELSE 0)
        BY <1>8, <4>1
      <4>3. /\ IsFiniteSet(NameSpots(varlist', w))
            /\ Cardinality(NameSpots(varlist', w)) + Cardinality(NamesOf(s, w))
                 = Cardinality(NameSpots(varlist, w)) + Cardinality(NamesOf(f, w))
            /\ Cardinality(NameSpots(varlist', w)) \in Nat
            /\ Cardinality(NamesOf(s, w)) \in Nat /\ Cardinality(NamesOf(f, w)) \in Nat
        BY <1>1, <1>2, <1>7, <4>2, NamesChanged
      <4>4. had[w] \in {0, 1}
        BY <1>5
      <4> QED
        BY <3>1, <4>2, <4>3, <4>4
    <3>4. /\ Pending(val', w) = 0
          /\ Pending(val, w) = IF val.by \in {"literal", "alloc"} /\ w = v THEN 1 ELSE 0
      BY <1>2, <1>4, <1>10, PendingIs
    <3>5. refcount'[w] = refcount[w] - had[w] + (IF val.by = "name" /\ w = v THEN 1 ELSE 0)
      <4>1. refcount'[w] = refcount[w] + more[w] - had[w]
        BY <1>9
      <4>2. more[w] = IF val.by = "name" /\ w = v THEN 1 ELSE 0
        BY <1>6
      <4> QED
        BY <3>1, <3>3, <4>1, <4>2
    <3>6. w \notin live' => w \notin live \/ refcount'[w] < 1
      BY <1>9
    <3>7. refcount'[w] >= Cardinality(NameSpots(varlist', w)) + Cardinality(CallSpots(calls', w)) + Text(w)
      <4>1. CASE w = v
        BY <1>4, <3>1, <3>2, <3>3, <3>4, <3>5, <4>1
      <4>2. CASE w # v
        BY <3>1, <3>2, <3>3, <3>4, <3>5, <4>2
      <4> QED
        BY <4>1, <4>2
    <3>8. w \notin live => Cardinality(NameSpots(varlist', w)) + Cardinality(CallSpots(calls', w)) + Text(w) = 0
      BY <1>2, <3>1, <3>2, <3>3
    <3>9. /\ Cardinality(NameSpots(varlist', w)) + Cardinality(CallSpots(calls', w)) + Text(w) \in Nat
          /\ refcount'[w] \in Int
      BY <1>9, <3>1, <3>2, <3>3
    <3> QED
      BY <3>2, <3>3, <3>4, <3>6, <3>7, <3>8, <3>9
  <2> QED
    BY <1>9, <2>1, CoveredAfter
<1>16. Loops'
  <2>1. ASSUME NEW i \in 1 .. Len(varlist'), NEW y \in DOMAIN varlist'[i] \cap LoopNames
        PROVE  i = Len(varlist') /\ varlist'[i][y] \in Literal
    <3>1. CASE i = 1
      <4>1. y # x /\ y \in DOMAIN s /\ f[y] = s[y]
        BY <1>3, <1>7, <1>13, <2>1, <3>1
      <4>2. i = Len(varlist) /\ s[y] \in Literal
        BY <1>2, <1>13, <2>1, <3>1, <4>1 DEF Loops
      <4> QED
        BY <1>13, <3>1, <4>1, <4>2
    <3>2. CASE i # 1
      <4>1. i \in 2 .. Len(varlist) /\ i \in 1 .. Len(varlist)
        BY <1>13, <3>2
      <4>2. varlist'[i] = varlist[i]
        BY <1>13, <4>1
      <4> QED
        BY <1>13, <2>1, <4>1, <4>2 DEF Loops
    <3> QED
      BY <3>1, <3>2
  <2> QED
    BY <2>1 DEF Loops
<1>17. Evaluated'
  <2>1. v \in live'
    <3>1. /\ IsFiniteSet(NameSpots(varlist', v)) /\ IsFiniteSet(CallSpots(calls', v))
          /\ v \notin live' => Shares(varlist', calls', val', v) = 0
      BY <1>2, <1>15 DEF Covered
    <3>2. <<1, x>> \in NameSpots(varlist', v)
      <4>1. x \in NamesOf(f, v)
        BY <1>3, <1>7 DEF NamesOf, Where
      <4>2. 1 \in 1 .. Len(varlist')
        BY <1>13
      <4> QED
        BY <1>13, <4>1, <4>2 DEF NameSpots, Spots
    <3>3. Cardinality(NameSpots(varlist', v)) # 0
      BY <3>1, <3>2, FS_EmptySet
    <3> QED
      BY <3>1, <3>3, SharesParts
  <2> QED
    BY <1>10, <2>1 DEF Evaluated
<1>18. Nested'
    BY <1>1, <1>7, <1>11, <1>12, NestsBound DEF Nested
<1>19. Awaited'
    BY <1>1, AwaitedPop
<1> QED
    BY <1>14, <1>15, <1>16, <1>17, <1>18, <1>19

LEMMA forDefInv ==
    ASSUME IInv, Odd = {}, NEW i \in LoopNames, NEW v \in Literal, forDef(i, v)
    PROVE  IInv'
<1> USE DEF IInv
<1> DEFINE s == varlist[1]
           f == Bound(s, i, v)
<1>1. /\ val = Nothing /\ Innermost.call = "body"
      /\ varlist' = [varlist EXCEPT ![1] = f]
      /\ UNCHANGED <<live, refcount, calls, val>>
    BY DEF forDef, AtStatement
<1>2. v \in Value /\ i \in AllNames /\ s \in Scope /\ s = varlist[1]
    BY ConstantFacts, InnermostTyped
<1>3. Len(varlist) = 1
  <2>1. Len(varlist) \in Nat \ {0} /\ ~(Len(varlist) > 1)
    BY RestOf DEF forDef, TypeOK
  <2>2. \A n \in Nat \ {0} : ~(n > 1) => n = 1
    OBVIOUS
  <2> QED
    BY <2>1, <2>2
<1> HIDE DEF s
<1>4. f \in Scope
    BY <1>2, BoundTyped DEF Scope
<1>5. DOMAIN f = DOMAIN s \cup {i} /\ \A y \in DOMAIN f : f[y] = IF y = i THEN v ELSE s[y]
    BY DEF Bound
<1>6. ASSUME NEW w \in Value  PROVE  NamesOf(f, w) = NamesOf(s, w)
  <2>1. Where(w, f) = (Where(w, s) \ {i}) \cup (IF w = v THEN {i} ELSE {})
    BY WhereBound
  <2> HIDE DEF f
  <2>2. CASE w = v
    BY <2>1, <2>2 DEF NamesOf
  <2>3. CASE w # v
    BY <2>1, <2>3 DEF NamesOf
  <2> QED
    BY <2>2, <2>3
<1> HIDE DEF f
<1>7. /\ varlist' \in Seq(Scope) /\ varlist' # <<>> /\ varlist'[1] = f
      /\ Len(varlist') = Len(varlist)
    BY <1>1, <1>4, FirstChanged DEF TypeOK
<1>8. TypeOK'
    BY <1>1, <1>7 DEF TypeOK
<1>9. Covered'
  <2>1. ASSUME NEW w \in Value
        PROVE  /\ IsFiniteSet(NameSpots(varlist', w))
               /\ Cardinality(NameSpots(varlist', w)) = Cardinality(NameSpots(varlist, w))
    <3>1. IsFiniteSet(NamesOf(f, w)) /\ NamesOf(f, w) = NamesOf(s, w)
      BY <1>2, <1>6, CoveredParts DEF Added
    <3>2. /\ IsFiniteSet(NameSpots(varlist', w))
          /\ Cardinality(NameSpots(varlist', w)) + Cardinality(NamesOf(s, w))
               = Cardinality(NameSpots(varlist, w)) + Cardinality(NamesOf(f, w))
          /\ Cardinality(NameSpots(varlist', w)) \in Nat /\ Cardinality(NamesOf(s, w)) \in Nat
      BY <1>1, <1>2, <1>4, <3>1, NamesChanged
    <3>3. Cardinality(NameSpots(varlist, w)) \in Nat
      BY CoveredParts
    <3> QED
      BY <3>1, <3>2, <3>3
  <2>2. \A w \in Value : Shares(varlist', calls, val, w) = Shares(varlist, calls, val, w)
    BY <2>1 DEF Shares
  <2> QED
    BY <1>1, <2>1, <2>2 DEF Covered
<1>10. Loops'
  <2>1. ASSUME NEW k \in 1 .. Len(varlist'), NEW y \in DOMAIN varlist'[k] \cap LoopNames
        PROVE  k = Len(varlist') /\ varlist'[k][y] \in Literal
    <3>1. k = 1 /\ k = Len(varlist') /\ k \in 1 .. Len(varlist)
      BY <1>3, <1>7
    <3>2. y \in DOMAIN f /\ varlist'[k][y] = f[y]
      BY <1>7, <2>1, <3>1
    <3>3. CASE y = i
      BY <1>5, <3>1, <3>2, <3>3
    <3>4. CASE y # i
      <4>1. y \in DOMAIN s /\ f[y] = s[y]
        BY <1>5, <3>2, <3>4
      <4>2. s[y] \in Literal
        BY <1>2, <2>1, <3>1, <4>1 DEF Loops
      <4> QED
        BY <3>1, <3>2, <4>1, <4>2
    <3> QED
      BY <3>3, <3>4
  <2> QED
    BY <2>1 DEF Loops
<1>11. Evaluated'
    BY <1>1, NothingTyped DEF Evaluated
<1>12. Nested'
    BY <1>1, <1>4, NestsBound DEF Nested, Innermost, TypeOK
<1>13. Awaited'
    BY <1>1 DEF Awaited
<1> QED
    BY <1>8, <1>9, <1>10, <1>11, <1>12, <1>13

-----------------------------------------------------------------------------
(* The function.                                                           *)

(* An argument adds one share of its Value at most.                        *)
LEMMA TreeBound ==
    ASSUME NEW f, NEW x, NEW v, NEW w, IsFiniteSet(Where(w, f))
    PROVE  /\ IsFiniteSet(Where(w, Bound(f, x, v)))
           /\ Cardinality(Where(w, Bound(f, x, v)))
                <= Cardinality(Where(w, f)) + (IF w = v THEN 1 ELSE 0)
           /\ Cardinality(Where(w, f)) \in Nat /\ Cardinality(Where(w, Bound(f, x, v))) \in Nat
<1> DEFINE S == Where(w, f)
           T == Where(w, Bound(f, x, v))
<1>1. T = (S \ {x}) \cup (IF w = v THEN {x} ELSE {})
    BY WhereBound
<1>2. IsFiniteSet(S) /\ Cardinality(S) \in Nat
    BY FS_CardinalityType
<1> HIDE DEF S, T
<1>3. /\ IsFiniteSet(S \ {x})
      /\ Cardinality(S \ {x}) = IF x \in S THEN Cardinality(S) - 1 ELSE Cardinality(S)
    BY <1>2, FS_RemoveElement
<1>4. CASE w = v
  <2>1. /\ IsFiniteSet((S \ {x}) \cup {x})
        /\ Cardinality((S \ {x}) \cup {x}) = Cardinality(S \ {x}) + 1
    BY <1>3, FS_AddElement
  <2>2. T = (S \ {x}) \cup {x}
    BY <1>1, <1>4
  <2>3. IsFiniteSet(T) /\ Cardinality(T) <= Cardinality(S) + 1
    BY <1>2, <1>3, <2>1, <2>2
  <2>4. Cardinality(T) \in Nat
    BY <2>3, FS_CardinalityType
  <2> QED
    BY <1>2, <1>4, <2>3, <2>4 DEF S, T
<1>5. CASE w # v
  <2>1. T = S \ {x}
    BY <1>1, <1>5
  <2>2. IsFiniteSet(T) /\ Cardinality(T) <= Cardinality(S)
    BY <1>2, <1>3, <2>1
  <2>3. Cardinality(T) \in Nat
    BY <2>2, FS_CardinalityType
  <2> QED
    BY <1>2, <1>5, <2>2, <2>3 DEF S, T
<1> QED
    BY <1>4, <1>5

LEMMA ArgumentInv ==
    ASSUME IInv, Argument
    PROVE  IInv'
<1> USE DEF IInv
<1> DEFINE v == val.v
           x == Head(Innermost.left)
           bound == x # Keyword \/ ~Innermost.given
           c == [call |-> "scope",
                 tree |-> IF bound THEN Bound(Innermost.tree, x, v) ELSE Innermost.tree,
                 given |-> Innermost.given,
                 left |-> Tail(Innermost.left)]
<1>1. /\ Innermost.call = "scope" /\ val # Nothing
      /\ Count(v, IF bound /\ val.by = "alloc" THEN 0 ELSE 1)
      /\ val' = Nothing
      /\ UNCHANGED <<live, varlist>>
    BY DEF Argument
<1>2. v \in Value /\ v \in live /\ Innermost \in CallType
    BY InnermostTyped DEF Evaluated
<1>3. c \in ScopeType /\ calls' = [calls EXCEPT ![1] = c]
    BY ArgumentBound
<1>4. /\ c \in CallType /\ c.call = "scope"
      /\ c.tree = IF bound THEN Bound(Innermost.tree, x, v) ELSE Innermost.tree
    BY <1>3 DEF CallType
<1>5. bound \in BOOLEAN /\ v = val.v
    OBVIOUS
<1> HIDE DEF v, x, bound, c
<1>6. /\ refcount' \in [Value -> Int]
      /\ \A w \in Value : refcount'[w] =
            IF w = v /\ ~(bound /\ val.by = "alloc") THEN refcount[w] + 1 ELSE refcount[w]
  <2>1. /\ refcount' \in [Value -> Int] /\ refcount \in [Value -> Int]
        /\ \A w \in Value : refcount'[w] =
              IF w = v THEN refcount[w] + (IF bound /\ val.by = "alloc" THEN 0 ELSE 1) ELSE refcount[w]
    BY <1>1, <1>2, CountIs DEF TypeOK
  <2> QED
    BY <2>1
<1>7. TypeOK'
    BY <1>1, <1>3, <1>4, <1>6, FirstChanged, NothingTyped DEF TypeOK
<1>8. Covered'
  <2>1. ASSUME NEW w \in Value
        PROVE  /\ IsFiniteSet(NameSpots(varlist', w)) /\ IsFiniteSet(CallSpots(calls', w))
               /\ refcount'[w] >= Cardinality(NameSpots(varlist', w)) + Cardinality(CallSpots(calls', w))
                                       + Text(w) + Pending(val', w)
               /\ w \notin live' => Cardinality(NameSpots(varlist', w)) + Cardinality(CallSpots(calls', w))
                                         + Text(w) + Pending(val', w) = 0
    <3>1. /\ IsFiniteSet(NameSpots(varlist, w)) /\ IsFiniteSet(CallSpots(calls, w))
          /\ Text(w) \in {0, 1} /\ Pending(val, w) \in {0, 1}
          /\ refcount[w] \in Int /\ refcount[w] >= Shares(varlist, calls, val, w)
          /\ w \notin live => Shares(varlist, calls, val, w) = 0
          /\ Cardinality(NameSpots(varlist, w)) \in Nat /\ Cardinality(CallSpots(calls, w)) \in Nat
          /\ Shares(varlist, calls, val, w)
                = Cardinality(NameSpots(varlist, w)) + Cardinality(CallSpots(calls, w)) + Text(w) + Pending(val, w)
      BY CoveredParts
    <3>2. /\ IsFiniteSet(SharesOf(c, w))
          /\ Cardinality(SharesOf(c, w))
               <= Cardinality(SharesOf(Innermost, w)) + (IF w = v /\ bound THEN 1 ELSE 0)
          /\ Cardinality(SharesOf(c, w)) \in Nat /\ Cardinality(SharesOf(Innermost, w)) \in Nat
      <4>1. SharesOf(Innermost, w) = Where(w, Innermost.tree) /\ SharesOf(c, w) = Where(w, c.tree)
        BY <1>1, <1>2, <1>4, FewShares
      <4>2. IsFiniteSet(SharesOf(Innermost, w)) /\ Cardinality(SharesOf(Innermost, w)) \in Nat
        BY <3>1, CoveredParts, FS_CardinalityType DEF Added
      <4>3. CASE bound
        <5>1. SharesOf(c, w) = Where(w, Bound(Innermost.tree, x, v))
          BY <1>4, <4>1, <4>3
        <5> QED
          BY <4>1, <4>2, <4>3, <5>1, TreeBound
      <4>4. CASE ~bound
        <5>1. SharesOf(c, w) = SharesOf(Innermost, w)
          BY <1>4, <4>1, <4>4
        <5> QED
          BY <4>2, <4>4, <5>1
      <4> QED
        BY <4>3, <4>4
    <3>3. /\ IsFiniteSet(CallSpots(calls', w))
          /\ Cardinality(CallSpots(calls', w))
               <= Cardinality(CallSpots(calls, w)) + (IF w = v /\ bound THEN 1 ELSE 0)
          /\ Cardinality(CallSpots(calls', w)) \in Nat
      <4>1. /\ IsFiniteSet(CallSpots(calls', w))
            /\ Cardinality(CallSpots(calls', w)) + Cardinality(SharesOf(Innermost, w))
                 = Cardinality(CallSpots(calls, w)) + Cardinality(SharesOf(c, w))
            /\ Cardinality(CallSpots(calls', w)) \in Nat
        BY <1>3, <1>4, <3>2, CallsChanged
      <4> QED
        BY <3>1, <3>2, <4>1
    <3>4. /\ Pending(val', w) = 0
          /\ w = v /\ val.by = "alloc" => Pending(val, w) = 1
      BY <1>1, <1>5, PendingIs
    <3>5. refcount'[w] = IF w = v /\ ~(bound /\ val.by = "alloc") THEN refcount[w] + 1 ELSE refcount[w]
      BY <1>6
    <3>6. CASE w = v /\ bound /\ val.by = "alloc"
      BY <1>1, <1>2, <3>1, <3>3, <3>4, <3>5, <3>6
    <3>7. CASE w = v /\ ~(bound /\ val.by = "alloc")
      BY <1>1, <1>2, <3>1, <3>3, <3>4, <3>5, <3>7
    <3>8. CASE w # v
      <4>1. /\ Cardinality(CallSpots(calls', w)) <= Cardinality(CallSpots(calls, w))
            /\ refcount'[w] = refcount[w]
        BY <3>1, <3>3, <3>5, <3>8
      <4>2. w \notin live =>
                /\ Cardinality(NameSpots(varlist, w)) = 0 /\ Cardinality(CallSpots(calls, w)) = 0
                /\ Text(w) = 0
        BY <3>1
      <4> QED
        BY <1>1, <3>1, <3>3, <3>4, <4>1, <4>2
    <3> QED
      BY <3>6, <3>7, <3>8
  <2> QED
    BY <1>6, <2>1, CoveredAfter
<1>9. Loops'
    BY <1>1 DEF Loops
<1>10. Evaluated'
    BY <1>1, <1>8, EvaluatedNothing
<1>11. Nested'
  <2>1. c.call = calls[1].call /\ c.call # "compare"
    BY <1>1, <1>4 DEF Innermost
  <2> QED
    BY <1>1, <1>3, <1>4, <2>1, NestsTop DEF Nested, TypeOK
<1>12. Awaited'
    BY <1>1, <1>3, <1>4, AwaitedTop
<1> QED
    BY <1>7, <1>8, <1>9, <1>10, <1>11, <1>12

LEMMA EnterFunctionInv ==
    ASSUME IInv, EnterFunction
    PROVE  IInv'
<1> USE DEF IInv
<1> DEFINE f == Innermost.tree
<1>1. /\ Innermost.call = "scope" /\ val = Nothing
      /\ varlist' = <<f>> \o varlist
      /\ calls' = <<Body>> \o Tail(calls)
      /\ UNCHANGED <<live, refcount, val>>
    BY DEF EnterFunction
<1>2. /\ calls \in Seq(CallType) /\ calls # <<>> /\ varlist \in Seq(Scope) /\ varlist # <<>>
      /\ Body \in CallType /\ Body.call = "body"
    BY NothingTyped DEF TypeOK
<1>3. calls' = [calls EXCEPT ![1] = Body]
  <2> DEFINE t == [calls EXCEPT ![1] = Body]
  <2>1. /\ t \in Seq(CallType) /\ t # <<>> /\ t[1] = Body /\ Tail(t) = Tail(calls)
    BY <1>2, FirstChanged
  <2> HIDE DEF t
  <2>2. t = <<t[1]>> \o Tail(t)
    BY <2>1
  <2> QED
    BY <1>1, <2>1, <2>2 DEF t
<1>4. f \in Scope /\ DOMAIN f \cap LoopNames = {}
  <2>1. Innermost \in ScopeType
    BY <1>1, InnermostTyped, CallKinds
  <2>2. f \in [DOMAIN f -> Value] /\ DOMAIN f \subseteq ToSet(Params) \cup {Keyword}
    BY <2>1, BindingIs DEF ScopeType, Tree
  <2>3. f \in [DOMAIN f -> Value] /\ DOMAIN f \subseteq AllNames
    BY <2>2, ConstantFacts
  <2> HIDE DEF f
  <2> QED
    BY <2>2, <2>3, ConstantFacts, BindingIs DEF Scope
<1>5. \A w \in Value : SharesOf(Innermost, w) = NamesOf(f, w)
  <2>1. \A w \in Value : SharesOf(Innermost, w) = Where(w, f)
    BY <1>1, InnermostTyped, FewShares
  <2> HIDE DEF f
  <2> QED
    BY <1>4, <2>1 DEF NamesOf, Where
<1> HIDE DEF f
<1>6. /\ varlist' \in Seq(Scope) /\ varlist' # <<>> /\ varlist'[1] = f /\ Tail(varlist') = varlist
      /\ Len(varlist') = Len(varlist) + 1 /\ Len(varlist) \in Nat \ {0}
      /\ \A i \in 1 .. Len(varlist) : varlist'[i + 1] = varlist[i]
    BY <1>1, <1>2, <1>4, InFront, RestOf
<1>7. TypeOK'
    BY <1>1, <1>2, <1>3, <1>6, FirstChanged DEF TypeOK
<1>8. Covered'
  <2>1. ASSUME NEW w \in Value
        PROVE  /\ IsFiniteSet(NameSpots(varlist', w)) /\ IsFiniteSet(CallSpots(calls', w))
               /\ refcount'[w] >= Cardinality(NameSpots(varlist', w)) + Cardinality(CallSpots(calls', w))
                                       + Text(w) + Pending(val', w)
               /\ w \notin live' => Cardinality(NameSpots(varlist', w)) + Cardinality(CallSpots(calls', w))
                                         + Text(w) + Pending(val', w) = 0
    <3>1. /\ IsFiniteSet(NameSpots(varlist, w)) /\ IsFiniteSet(CallSpots(calls, w))
          /\ Text(w) \in {0, 1} /\ Pending(val, w) \in {0, 1}
          /\ refcount[w] \in Int /\ refcount[w] >= Shares(varlist, calls, val, w)
          /\ w \notin live => Shares(varlist, calls, val, w) = 0
          /\ Cardinality(NameSpots(varlist, w)) \in Nat /\ Cardinality(CallSpots(calls, w)) \in Nat
          /\ Shares(varlist, calls, val, w)
                = Cardinality(NameSpots(varlist, w)) + Cardinality(CallSpots(calls, w)) + Text(w) + Pending(val, w)
      BY CoveredParts
    <3>2. /\ SharesOf(Body, w) = {}
          /\ IsFiniteSet(SharesOf(Body, w)) /\ Cardinality(SharesOf(Body, w)) = 0
      <4>1. SharesOf(Body, w) = {}
        <5>1. SharesOf(Body, w) = IF Body.last = [v |-> w, by |-> "alloc"] THEN {"last"} ELSE {}
          BY <1>2, FewShares
        <5>2. Body.last.by = "call" /\ "call" # "alloc"
          BY NothingTyped
        <5>3. Body.last # [v |-> w, by |-> "alloc"]
          BY <5>2
        <5> QED
          BY <5>1, <5>3
      <4> QED
        BY <4>1, SetSizes
    <3>3. /\ IsFiniteSet(CallSpots(calls', w))
          /\ Cardinality(CallSpots(calls', w)) + Cardinality(SharesOf(Innermost, w))
               = Cardinality(CallSpots(calls, w)) + Cardinality(SharesOf(Body, w))
          /\ Cardinality(CallSpots(calls', w)) \in Nat
          /\ Cardinality(SharesOf(Innermost, w)) \in Nat
      BY <1>2, <1>3, <3>2, CallsChanged
    <3>4. IsFiniteSet(NamesOf(f, w))
      BY <1>5, <3>1, CoveredParts DEF Added
    <3>5. /\ IsFiniteSet(NameSpots(varlist', w))
          /\ Cardinality(NameSpots(varlist', w)) = Cardinality(NameSpots(varlist, w)) + Cardinality(NamesOf(f, w))
      <4>1. Added(NameSpots(varlist', w), NameSpots(varlist, w), NamesOf(f, w))
        BY <1>6, NamesSplit
      <4> QED
        BY <3>1, <3>4, <4>1 DEF Added
    <3>6. Cardinality(NameSpots(varlist', w)) + Cardinality(CallSpots(calls', w))
            = Cardinality(NameSpots(varlist, w)) + Cardinality(CallSpots(calls, w))
      BY <1>5, <3>1, <3>2, <3>3, <3>5
    <3>7. Shares(varlist, calls, val, w)
            = Cardinality(NameSpots(varlist', w)) + Cardinality(CallSpots(calls', w)) + Text(w) + Pending(val', w)
      BY <1>1, <3>1, <3>6
    <3> QED
      BY <1>1, <3>1, <3>3, <3>5, <3>7
  <2>2. refcount' \in [Value -> Int]
    BY <1>7 DEF TypeOK
  <2> QED
    BY <2>1, <2>2, CoveredAfter
<1>9. Loops'
  <2>1. ASSUME NEW k \in 1 .. Len(varlist'), NEW y \in DOMAIN varlist'[k] \cap LoopNames
        PROVE  k = Len(varlist') /\ varlist'[k][y] \in Literal
    <3>1. k # 1
      BY <1>4, <1>6, <2>1
    <3>2. k - 1 \in 1 .. Len(varlist) /\ (k - 1) + 1 = k
      BY <1>6, <3>1
    <3>3. varlist'[k] = varlist[k - 1]
      BY <1>6, <3>2
    <3>4. k - 1 = Len(varlist) /\ varlist[k - 1][y] \in Literal
      BY <2>1, <3>2, <3>3 DEF Loops
    <3> QED
      BY <1>6, <3>3, <3>4
  <2> QED
    BY <2>1 DEF Loops
<1>10. Evaluated'
    BY <1>1, NothingTyped DEF Evaluated
<1>11. Nested'
  <2>1. Nests(<<f>> \o varlist, [calls EXCEPT ![1] = Body])
    BY <1>1, <1>2, <1>4, NestsEnter DEF Nested, Innermost
  <2> QED
    BY <1>1, <1>3, <2>1 DEF Nested
<1>12. Awaited'
    BY <1>1, <1>2, <1>3, AwaitedTop
<1> QED
    BY <1>7, <1>8, <1>9, <1>10, <1>11, <1>12

LEMMA evaluateStatementsInv ==
    ASSUME IInv, evaluateStatements
    PROVE  IInv'
<1> USE DEF IInv
<1> DEFINE last == IF val.v = falsevalue THEN Innermost.last ELSE val
           c == [call |-> "body", last |-> last]
<1>1. /\ Innermost.call = "body" /\ val # Nothing /\ val' = Nothing
      /\ UNCHANGED <<live, refcount, varlist>>
    BY DEF evaluateStatements
<1>2. c \in BodyType /\ calls' = [calls EXCEPT ![1] = c] /\ Innermost \in CallType
    BY LastKept, InnermostTyped
<1>3. c \in CallType /\ c.call = "body" /\ c.last = last
    BY <1>2 DEF CallType
<1> HIDE DEF c
<1>4. TypeOK'
    BY <1>1, <1>2, <1>3, FirstChanged, NothingTyped DEF TypeOK
<1>5. Covered'
  <2>1. ASSUME NEW w \in Value
        PROVE  /\ IsFiniteSet(NameSpots(varlist', w)) /\ IsFiniteSet(CallSpots(calls', w))
               /\ refcount'[w] >= Cardinality(NameSpots(varlist', w)) + Cardinality(CallSpots(calls', w))
                                       + Text(w) + Pending(val', w)
               /\ w \notin live' => Cardinality(NameSpots(varlist', w)) + Cardinality(CallSpots(calls', w))
                                         + Text(w) + Pending(val', w) = 0
    <3>1. /\ IsFiniteSet(NameSpots(varlist, w)) /\ IsFiniteSet(CallSpots(calls, w))
          /\ Text(w) \in {0, 1} /\ Pending(val, w) \in {0, 1}
          /\ refcount[w] \in Int /\ refcount[w] >= Shares(varlist, calls, val, w)
          /\ w \notin live => Shares(varlist, calls, val, w) = 0
          /\ Cardinality(NameSpots(varlist, w)) \in Nat /\ Cardinality(CallSpots(calls, w)) \in Nat
          /\ Shares(varlist, calls, val, w)
                = Cardinality(NameSpots(varlist, w)) + Cardinality(CallSpots(calls, w)) + Text(w) + Pending(val, w)
      BY CoveredParts
    <3> DEFINE old == Innermost.last = [v |-> w, by |-> "alloc"]
               new == last = [v |-> w, by |-> "alloc"]
    <3>2. /\ SharesOf(Innermost, w) = IF old THEN {"last"} ELSE {}
          /\ SharesOf(c, w) = IF new THEN {"last"} ELSE {}
      BY <1>1, <1>2, <1>3, FewShares
    <3>3. new => old \/ Pending(val, w) = 1
      <4>1. ASSUME last = val, new  PROVE  Pending(val, w) = 1
        <5>1. val.v = w /\ val.by = "alloc"
          BY <4>1
        <5> QED
          BY <5>1, PendingIs
      <4>2. last = val \/ last = Innermost.last
        OBVIOUS
      <4> QED
        BY <4>1, <4>2
    <3>4. Pending(val', w) = 0
      BY <1>1, PendingIs
    <3> HIDE DEF old, new
    <3>5. /\ IsFiniteSet(SharesOf(c, w))
          /\ Cardinality(SharesOf(c, w)) <= Cardinality(SharesOf(Innermost, w)) + Pending(val, w)
      <4>1. CASE new
        <5>1. SharesOf(c, w) = {"last"} /\ Cardinality({"last"}) = 1 /\ IsFiniteSet({"last"})
          BY <3>2, <4>1, SetSizes
        <5>2. CASE old
          BY <3>1, <3>2, <5>1, <5>2
        <5>3. CASE ~old
          <6>1. SharesOf(Innermost, w) = {} /\ Cardinality({}) = 0
            BY <3>2, <5>3, SetSizes
          <6>2. Pending(val, w) = 1
            BY <3>3, <4>1, <5>3
          <6> QED
            BY <5>1, <6>1, <6>2
        <5> QED
          BY <5>2, <5>3
      <4>2. CASE ~new
        <5>1. SharesOf(c, w) = {} /\ Cardinality({}) = 0 /\ IsFiniteSet({})
          BY <3>2, <4>2, SetSizes
        <5>2. Cardinality(SharesOf(Innermost, w)) \in Nat
          BY <3>1, CoveredParts, FS_CardinalityType DEF Added
        <5> QED
          BY <3>1, <5>1, <5>2
      <4> QED
        BY <4>1, <4>2
    <3>6. /\ IsFiniteSet(CallSpots(calls', w))
          /\ Cardinality(CallSpots(calls', w)) + Cardinality(SharesOf(Innermost, w))
               = Cardinality(CallSpots(calls, w)) + Cardinality(SharesOf(c, w))
          /\ Cardinality(CallSpots(calls', w)) \in Nat
          /\ Cardinality(SharesOf(Innermost, w)) \in Nat /\ Cardinality(SharesOf(c, w)) \in Nat
      BY <1>2, <1>3, <3>5, CallsChanged
    <3>7. Cardinality(CallSpots(calls', w)) <= Cardinality(CallSpots(calls, w)) + Pending(val, w)
      BY <3>1, <3>5, <3>6
    <3>8. w \notin live =>
              /\ Cardinality(NameSpots(varlist, w)) = 0 /\ Cardinality(CallSpots(calls, w)) = 0
              /\ Text(w) = 0 /\ Pending(val, w) = 0
      BY <3>1
    <3> QED
      BY <1>1, <3>1, <3>4, <3>6, <3>7, <3>8
  <2>2. refcount' \in [Value -> Int]
    BY <1>4 DEF TypeOK
  <2> QED
    BY <2>1, <2>2, CoveredAfter
<1>6. Loops'
    BY <1>1 DEF Loops
<1>7. Evaluated'
    BY <1>1, <1>5, EvaluatedNothing
<1>8. Nested'
  <2>1. c.call = calls[1].call /\ c.call # "compare"
    BY <1>1, <1>3 DEF Innermost
  <2> QED
    BY <1>1, <1>2, <1>3, <2>1, NestsTop DEF Nested, TypeOK
<1>9. Awaited'
    BY <1>1, <1>2, <1>3, AwaitedTop
<1> QED
    BY <1>4, <1>5, <1>6, <1>7, <1>8, <1>9

(* descope keeps what is returned, and no other of the scope's Values.     *)
LEMMA descopeInv ==
    ASSUME IInv, Odd = {}, descope
    PROVE  IInv'
<1> USE DEF IInv
<1> DEFINE v == Innermost.last.v
           s == varlist[1]
           lost == [Times(s) EXCEPT ![v] = 0]
           K(w) == Cardinality(NamesOf(s, w))
           L(w) == Cardinality(SharesOf(Innermost, w))
<1>1. /\ val = Nothing /\ Innermost.call = "body" /\ Len(calls) > 1
      /\ v \in Range(s) \/ Innermost.last.by = "alloc"
      /\ FreeAfter(Just(v, -1), lost)
      /\ Gives(v, "call")
      /\ varlist' = Tail(varlist)
      /\ calls' = Tail(calls)
    BY DEF descope, AtStatement
<1>2. /\ calls \in Seq(CallType) /\ calls # <<>> /\ calls[1].call = "body"
      /\ varlist \in Seq(Scope) /\ varlist # <<>>
      /\ s \in Scope
    BY <1>1, InnermostTyped DEF TypeOK, Innermost
<1>3. Innermost \in BodyType /\ Innermost \in CallType /\ v \in Value /\ Innermost.last \in Given
    BY <1>1, InnermostTyped, CallKinds DEF BodyType, Given
<1>4. /\ Len(varlist) > 1
      /\ \A w \in Value :
            /\ NamesOf(s, w) = Where(w, s)
            /\ IsFiniteSet(Where(w, s))
            /\ Cardinality(Where(w, s)) \in Nat
    BY <1>1, OwnScope
<1>5. /\ lost \in [Value -> Int]
      /\ \A w \in Value : lost[w] = IF w = v THEN 0 ELSE K(w)
  <2>1. Times(s) \in [Value -> Int] /\ \A w \in Value : Times(s)[w] = K(w)
    BY <1>4 DEF Times
  <2> QED
    BY <1>3, <2>1
<1>6. \A w \in Value : K(w) \in Nat /\ IsFiniteSet(NamesOf(s, w))
    BY <1>4
<1>7. K(v) + L(v) >= 1 /\ L(v) \in Nat
  <2>1. SharesOf(Innermost, v) = IF Innermost.last = [v |-> v, by |-> "alloc"] THEN {"last"} ELSE {}
    BY <1>1, <1>3, FewShares
  <2>2. L(v) = IF Innermost.last = [v |-> v, by |-> "alloc"] THEN 1 ELSE 0
    BY <2>1, SetSizes
  <2>3. CASE Innermost.last.by = "alloc"
    <3>1. Innermost.last = [v |-> v, by |-> "alloc"]
      BY <1>3, <2>3 DEF Given
    <3> QED
      BY <1>3, <1>6, <2>2, <3>1
  <2>4. CASE v \in Range(s)
    <3>1. NamesOf(s, v) # {}
      <4>1. PICK y \in DOMAIN s : s[y] = v
        BY <2>4 DEF Range
      <4>2. y \in Where(v, s)
        BY <4>1 DEF Where
      <4> QED
        BY <1>3, <1>4, <4>2
    <3>2. K(v) # 0
      BY <1>3, <1>6, <3>1, FS_EmptySet
    <3> HIDE DEF K, L
    <3> QED
      BY <1>3, <1>6, <2>2, <3>2
  <2> QED
    BY <1>1, <2>3, <2>4
<1>8. v = Innermost.last.v /\ s = varlist[1]
    OBVIOUS
<1> HIDE DEF v, s, lost
<1>9. Just(v, -1) \in [Value -> Int] /\ \A w \in Value : Just(v, -1)[w] = IF w = v THEN -1 ELSE 0
    BY <1>3, LostTyped
<1>10. /\ refcount' \in [Value -> Int]
       /\ \A w \in Value : refcount'[w] = refcount[w] + Just(v, -1)[w] - lost[w]
       /\ live' \subseteq Value
       /\ \A w \in live : lost[w] = 0 => w \in live'
       /\ \A w \in Value : w \notin live' => w \notin live \/ refcount'[w] < 1
    BY <1>1, <1>5, <1>9, FreeAfterIs
<1>11. val' \in Given /\ val'.v = v /\ val'.by = "call"
    BY <1>1, <1>3, GivesTyped
<1>12. /\ varlist' \in Seq(Scope) /\ Len(varlist') = Len(varlist) - 1 /\ Len(varlist) \in Nat
       /\ \A k \in 1 .. Len(varlist) - 1 : varlist'[k] = varlist[k + 1]
       /\ varlist' # <<>>
  <2>1. /\ varlist' \in Seq(Scope) /\ Len(varlist') = Len(varlist) - 1 /\ Len(varlist) \in Nat
        /\ \A k \in 1 .. Len(varlist) - 1 : varlist'[k] = varlist[k + 1]
    BY <1>1, <1>2, RestOf
  <2>2. \A n \in Nat : n > 1 => n - 1 # 0
    OBVIOUS
  <2>3. Len(varlist') # 0
    BY <1>4, <2>1, <2>2
  <2> QED
    BY <2>1, <2>3
<1>13. calls' \in Seq(CallType) /\ calls' # <<>>
  <2>1. calls' \in Seq(CallType) /\ Len(calls') = Len(calls) - 1 /\ Len(calls) \in Nat
    BY <1>1, <1>2, RestOf
  <2>2. \A n \in Nat : n > 1 => n - 1 # 0
    OBVIOUS
  <2>3. Len(calls') # 0
    BY <1>1, <2>1, <2>2
  <2> QED
    BY <2>1, <2>3
<1>14. TypeOK'
    BY <1>10, <1>11, <1>12, <1>13 DEF TypeOK
<1>15. Covered'
  <2>1. ASSUME NEW w \in Value
        PROVE  /\ IsFiniteSet(NameSpots(varlist', w)) /\ IsFiniteSet(CallSpots(calls', w))
               /\ refcount'[w] >= Cardinality(NameSpots(varlist', w)) + Cardinality(CallSpots(calls', w))
                                       + Text(w) + Pending(val', w)
               /\ w \notin live' => Cardinality(NameSpots(varlist', w)) + Cardinality(CallSpots(calls', w))
                                         + Text(w) + Pending(val', w) = 0
    <3>1. /\ IsFiniteSet(NameSpots(varlist, w)) /\ IsFiniteSet(CallSpots(calls, w))
          /\ Text(w) \in {0, 1} /\ Pending(val, w) \in {0, 1}
          /\ refcount[w] \in Int /\ refcount[w] >= Shares(varlist, calls, val, w)
          /\ w \notin live => Shares(varlist, calls, val, w) = 0
          /\ Cardinality(NameSpots(varlist, w)) \in Nat /\ Cardinality(CallSpots(calls, w)) \in Nat
          /\ Shares(varlist, calls, val, w)
                = Cardinality(NameSpots(varlist, w)) + Cardinality(CallSpots(calls, w)) + Text(w) + Pending(val, w)
      BY CoveredParts
    <3>2. /\ IsFiniteSet(CallSpots(calls', w))
          /\ Cardinality(CallSpots(calls', w)) + L(w) = Cardinality(CallSpots(calls, w))
          /\ Cardinality(CallSpots(calls', w)) \in Nat /\ L(w) \in Nat
      BY <1>1, CallsPopped
    <3>3. /\ IsFiniteSet(NameSpots(varlist', w))
          /\ Cardinality(NameSpots(varlist', w)) + K(w) = Cardinality(NameSpots(varlist, w))
          /\ Cardinality(NameSpots(varlist', w)) \in Nat /\ K(w) \in Nat
      <4>1. Added(NameSpots(varlist, w), NameSpots(varlist', w), NamesOf(s, w))
        BY <1>1, <1>8, CoveredParts
      <4> QED
        BY <3>1, <4>1 DEF Added
    <3>4. Pending(val', w) = 0
      BY <1>11, PendingIs
    <3>5. refcount'[w] = refcount[w] - (IF w = v THEN 1 ELSE K(w))
      <4>1. refcount'[w] = refcount[w] + Just(v, -1)[w] - lost[w]
        BY <1>10
      <4>2. Just(v, -1)[w] = (IF w = v THEN -1 ELSE 0) /\ lost[w] = IF w = v THEN 0 ELSE K(w)
        BY <1>5, <1>9
      <4> QED
        BY <3>1, <3>3, <4>1, <4>2
    <3>6. w \notin live' => w \notin live \/ refcount'[w] < 1
      BY <1>10
    <3>7. w = v => K(w) + L(w) >= 1
      BY <1>7
    <3> HIDE DEF K, L
    <3>8. refcount'[w] >= Cardinality(NameSpots(varlist', w)) + Cardinality(CallSpots(calls', w)) + Text(w)
      <4>1. CASE w = v
        BY <3>1, <3>2, <3>3, <3>5, <3>7, <4>1
      <4>2. CASE w # v
        BY <3>1, <3>2, <3>3, <3>5, <4>2
      <4> QED
        BY <4>1, <4>2
    <3>9. w \notin live => Cardinality(NameSpots(varlist', w)) + Cardinality(CallSpots(calls', w)) + Text(w) = 0
      <4>1. w \notin live =>
                /\ Cardinality(NameSpots(varlist, w)) = 0 /\ Cardinality(CallSpots(calls, w)) = 0
                /\ Text(w) = 0
        BY <3>1
      <4> QED
        BY <3>2, <3>3, <4>1
    <3>10. /\ Cardinality(NameSpots(varlist', w)) + Cardinality(CallSpots(calls', w)) + Text(w) \in Nat
           /\ refcount'[w] \in Int
      BY <1>10, <3>1, <3>2, <3>3
    <3> QED
      BY <3>2, <3>3, <3>4, <3>6, <3>8, <3>9, <3>10
  <2> QED
    BY <1>10, <2>1, CoveredAfter
<1>16. Loops'
  <2>1. ASSUME NEW k \in 1 .. Len(varlist'), NEW y \in DOMAIN varlist'[k] \cap LoopNames
        PROVE  k = Len(varlist') /\ varlist'[k][y] \in Literal
    <3>1. k \in 1 .. Len(varlist) - 1 /\ k + 1 \in 1 .. Len(varlist)
      BY <1>12
    <3>2. varlist'[k] = varlist[k + 1]
      BY <1>12, <3>1
    <3>3. k + 1 = Len(varlist) /\ varlist[k + 1][y] \in Literal
      BY <2>1, <3>1, <3>2 DEF Loops
    <3> QED
      BY <1>12, <3>1, <3>2, <3>3
  <2> QED
    BY <2>1 DEF Loops
<1>17. Evaluated'
  <2>1. v \in live
    <3>1. /\ Cardinality(NameSpots(varlist, v)) \in Nat /\ Cardinality(CallSpots(calls, v)) \in Nat
          /\ Text(v) \in {0, 1} /\ Pending(val, v) \in {0, 1}
          /\ v \notin live => Shares(varlist, calls, val, v) = 0
          /\ Shares(varlist, calls, val, v)
                = Cardinality(NameSpots(varlist, v)) + Cardinality(CallSpots(calls, v)) + Text(v) + Pending(val, v)
      BY <1>3, CoveredParts
    <3>2. Cardinality(CallSpots(calls, v)) >= L(v) /\ Cardinality(NameSpots(varlist, v)) >= K(v)
      <4>1. /\ Added(CallSpots(calls, v), CallSpots(Tail(calls), v), SharesOf(Innermost, v))
            /\ Added(NameSpots(varlist, v), NameSpots(Tail(varlist), v), NamesOf(s, v))
            /\ IsFiniteSet(NameSpots(varlist, v)) /\ IsFiniteSet(CallSpots(calls, v))
        BY <1>3, <1>8, CoveredParts
      <4> QED
        BY <4>1 DEF Added
    <3>3. K(v) \in Nat /\ L(v) \in Nat /\ K(v) + L(v) >= 1
      BY <1>3, <1>6, <1>7
    <3> HIDE DEF K, L
    <3> QED
      BY <3>1, <3>2, <3>3
  <2>2. v \in live'
    BY <1>3, <1>5, <1>10, <2>1
  <2> QED
    BY <1>11, <2>2 DEF Evaluated
<1>18. Nested'
  <2>1. Nests(Tail(varlist), Tail(calls))
    BY <1>1, <1>2, NestsLeave DEF Nested
  <2> QED
    BY <1>1, <2>1 DEF Nested
<1>19. Awaited'
    BY <1>1, AwaitedPop
<1> QED
    BY <1>14, <1>15, <1>16, <1>17, <1>18, <1>19

-----------------------------------------------------------------------------
(* The invariant.                                                          *)

LEMMA InitInv == Init => IInv
<1> SUFFICES ASSUME Init  PROVE  IInv
    OBVIOUS
<1>1. PICK scope \in [Started -> Made] :
          /\ IsInjective(scope)
          /\ varlist = <<scope>>
          /\ live = Literal \cup {falsevalue} \cup Range(scope)
    BY DEF Init
<1>2. /\ refcount = [v \in Value |-> IF v \in live THEN 1 ELSE 0]
      /\ calls = <<Body>> /\ val = Nothing
    BY DEF Init
<1>3. scope \in Scope /\ DOMAIN scope = Started /\ Range(scope) \subseteq Made
  <2>1. Started \in SUBSET AllNames /\ scope \in [Started -> Value]
    BY ConstantFacts
  <2>2. Range(scope) \subseteq Made
    BY DEF Range
  <2> QED
    BY <2>1, <2>2 DEF Scope, Binding
<1>4. varlist \in Seq(Scope) /\ varlist # <<>> /\ Len(varlist) = 1 /\ varlist[1] = scope /\ Tail(varlist) = <<>>
    BY <1>1, <1>3
<1>5. /\ calls \in Seq(CallType) /\ calls # <<>> /\ Len(calls) = 1 /\ calls[1] = Body /\ Tail(calls) = <<>>
      /\ Body.call = "body"
    BY <1>2, NothingTyped
<1>6. TypeOK
  <2>1. live \subseteq Value /\ refcount \in [Value -> Int]
    BY <1>1, <1>2, <1>3, ConstantFacts
  <2> QED
    BY <1>2, <1>4, <1>5, <2>1, NothingTyped DEF TypeOK
<1>7. Covered
  <2>1. ASSUME NEW v \in Value
        PROVE  /\ IsFiniteSet(NameSpots(varlist, v)) /\ IsFiniteSet(CallSpots(calls, v))
               /\ refcount[v] >= Shares(varlist, calls, val, v)
               /\ v \notin live => Shares(varlist, calls, val, v) = 0
    <3>1. NameSpots(<<>>, v) = {} /\ CallSpots(<<>>, v) = {}
      BY DEF NameSpots, CallSpots, Spots
    <3>2. SharesOf(Body, v) = {}
      <4>1. SharesOf(Body, v) = IF Body.last = [v |-> v, by |-> "alloc"] THEN {"last"} ELSE {}
        BY <1>5, NothingTyped, FewShares
      <4>2. Body.last.by = "call" /\ "call" # "alloc"
        BY NothingTyped
      <4>3. Body.last # [v |-> v, by |-> "alloc"]
        BY <4>2
      <4> QED
        BY <4>1, <4>3
    <3>3. IsFiniteSet(CallSpots(calls, v)) /\ Cardinality(CallSpots(calls, v)) = 0
      <4>1. Added(CallSpots(calls, v), {}, {})
        BY <1>5, <3>1, <3>2, CallsSplit
      <4> QED
        BY <4>1, SetSizes DEF Added
    <3>4. /\ IsFiniteSet(NamesOf(scope, v))
          /\ v \in Range(scope) => Cardinality(NamesOf(scope, v)) = 1
          /\ v \notin Range(scope) => Cardinality(NamesOf(scope, v)) = 0
      <4>1. CASE v \in Range(scope)
        <5>1. PICK x \in Started : scope[x] = v
          BY <1>3, <4>1 DEF Range
        <5>2. \A y \in Started : scope[y] = v => y = x
          BY <1>1, <1>3, <5>1 DEF IsInjective
        <5>3. x \notin LoopNames
          BY NamesDiffer, ConstantFacts
        <5>4. NamesOf(scope, v) = {x}
          BY <1>3, <5>1, <5>2, <5>3 DEF NamesOf, Where
        <5> QED
          BY <4>1, <5>4, SetSizes
      <4>2. CASE v \notin Range(scope)
        <5>1. NamesOf(scope, v) = {}
          BY <4>2 DEF NamesOf, Where, Range
        <5> QED
          BY <4>2, <5>1, SetSizes
      <4> QED
        BY <4>1, <4>2
    <3>5. /\ IsFiniteSet(NameSpots(varlist, v))
          /\ Cardinality(NameSpots(varlist, v)) = Cardinality(NamesOf(scope, v))
      <4>1. Added(NameSpots(varlist, v), {}, NamesOf(scope, v))
        BY <1>4, <3>1, NamesSplit
      <4> QED
        BY <3>4, <4>1, SetSizes DEF Added
    <3>6. Pending(val, v) = 0
      BY <1>2, PendingIs
    <3>7. Text(v) = IF v \in Made THEN 0 ELSE 1
      BY DEF Text
    <3>8. Shares(varlist, calls, val, v) = IF v \in live THEN 1 ELSE 0
      <4>1. CASE v \in Range(scope)
        <5>1. v \in Made /\ v \in live
          BY <1>1, <1>3, <4>1
        <5> QED
          BY <3>3, <3>4, <3>5, <3>6, <3>7, <4>1, <5>1 DEF Shares
      <4>2. CASE v \notin Range(scope)
        <5>1. v \in live <=> v \notin Made
          BY <1>1, <4>2, ConstantFacts DEF Value
        <5> QED
          BY <3>3, <3>4, <3>5, <3>6, <3>7, <4>2, <5>1 DEF Shares
      <4> QED
        BY <4>1, <4>2
    <3>9. refcount[v] = IF v \in live THEN 1 ELSE 0
      BY <1>2
    <3> QED
      BY <3>3, <3>4, <3>5, <3>8, <3>9
  <2> QED
    BY <2>1 DEF Covered
<1>8. Loops
  <2>1. Started \cap LoopNames = {}
    BY NamesDiffer, ConstantFacts
  <2>2. \A i \in 1 .. Len(varlist) : varlist[i] = scope
    BY <1>4
  <2> QED
    BY <1>3, <2>1, <2>2 DEF Loops
<1>9. Evaluated
    BY <1>1, <1>2, NothingTyped DEF Evaluated
<1>10. Nested
  <2>1. \A i \in 1 .. Len(calls) : i = 1 /\ calls[i].call = "body"
    BY <1>5
  <2>2. Scoped(varlist, calls, <<1>>)
    BY <1>4, <1>5, <2>1 DEF Scoped
  <2>3. <<1>> \in Seq(Nat \ {0})
    OBVIOUS
  <2> QED
    BY <1>5, <2>1, <2>2, <2>3 DEF Nested, Nests
<1>11. Awaited
    BY <1>5 DEF Awaited
<1> QED
    BY <1>6, <1>7, <1>8, <1>9, <1>10, <1>11 DEF IInv

LEMMA Inductive ==
    ASSUME Odd = {}
    PROVE  IInv /\ [Next]_vars => IInv'
<1> SUFFICES ASSUME IInv, [Next]_vars  PROVE  IInv'
    OBVIOUS
<1>1. CASE \E v \in Literal : Literally(v)
    BY <1>1, LiterallyInv
<1>2. CASE \E x \in Names \cup LoopNames : valueFromName(x)
    BY <1>2, valueFromNameInv
<1>3. CASE \E x \in Names : BeginSet(x)
    BY <1>3, BeginSetInv
<1>4. CASE \E name \in {"add", "write", "compare"} : BeginBuiltin(name)
    BY <1>4, BeginBuiltinInv
<1>5. CASE \E v \in Literal, given \in BOOLEAN : BeginCall(v, given)
    BY <1>5, BeginCallInv
<1>6. CASE evaluateList
    BY <1>6, evaluateListInv
<1>7. CASE addDef
    BY <1>7, addDefInv
<1>8. CASE writeDef
    BY <1>8, writeDefInv
<1>9. CASE evaluateBoolExpr
    BY <1>9, evaluateBoolExprInv
<1>10. CASE Compared
    BY <1>10, ComparedInv
<1>11. CASE setDef
    BY <1>11, setDefInv
<1>12. CASE \E i \in LoopNames, v \in Literal : forDef(i, v)
    BY <1>12, forDefInv
<1>13. CASE Argument
    BY <1>13, ArgumentInv
<1>14. CASE EnterFunction
    BY <1>14, EnterFunctionInv
<1>15. CASE evaluateStatements
    BY <1>15, evaluateStatementsInv
<1>16. CASE descope
    BY <1>16, descopeInv
<1>17. CASE UNCHANGED vars
  <2>1. UNCHANGED <<live, refcount, varlist, calls, val>>
    BY <1>17 DEF vars
  <2>2. TypeOK' /\ Covered' /\ Loops'
    BY <2>1 DEF IInv, TypeOK, Covered, Loops
  <2>3. Evaluated' /\ Nested' /\ Awaited'
    BY <2>1 DEF IInv, Evaluated, Nested, Awaited
  <2> QED
    BY <2>2, <2>3 DEF IInv
<1> QED
    BY <1>1, <1>2, <1>3, <1>4, <1>5, <1>6, <1>7, <1>8, <1>9, <1>10, <1>11, <1>12, <1>13, <1>14,
       <1>15, <1>16, <1>17 DEF Next

-----------------------------------------------------------------------------
(* What the invariant says of names, calls and counts.                     *)

LEMMA ArgumentsTyped ==
    ASSUME NEW c \in CallType
    PROVE  \A j \in DOMAIN Arguments(c) : Arguments(c)[j] \in Value
<1>1. CASE c.call \in {"add", "write"}
  <2>1. c \in BuiltinType /\ Arguments(c) = c.items
    BY <1>1, CallKinds DEF Arguments
  <2>2. c.items \in Seq(Value)
    BY <2>1 DEF BuiltinType
  <2> QED
    BY <2>1, <2>2
<1>2. CASE c.call = "scope"
  <2>1. c \in ScopeType /\ Arguments(c) = c.tree
    BY <1>2, CallKinds DEF Arguments
  <2>2. c.tree \in [DOMAIN c.tree -> Value]
    BY <2>1, BindingIs DEF ScopeType, Tree
  <2> QED
    BY <2>1, <2>2
<1>3. CASE c.call \in {"body", "set", "compare"}
  <2>1. Arguments(c) = <<>>
    BY <1>3 DEF Arguments
  <2> QED
    BY <2>1
<1> QED
    BY <1>1, <1>2, <1>3, CallKinds

LEMMA ArgumentsLive ==
    ASSUME IInv, NEW i \in 1 .. Len(calls)
    PROVE  Range(Arguments(calls[i])) \subseteq live
<1> DEFINE f == Arguments(calls[i])
<1>1. ASSUME NEW j \in DOMAIN f  PROVE  f[j] \in live
  <2>1. calls[i] \in CallType
    BY DEF IInv, TypeOK
  <2>2. f[j] \in Value
    BY <1>1, <2>1, ArgumentsTyped
  <2>3. j \in SharesOf(calls[i], f[j])
    BY <1>1 DEF SharesOf, Where
  <2>4. <<i, j>> \in CallSpots(calls, f[j])
    BY <2>3 DEF CallSpots, Spots
  <2> HIDE DEF f
  <2>5. Cardinality(CallSpots(calls, f[j])) # 0
    BY <2>2, <2>4, CoveredParts, FS_EmptySet DEF IInv
  <2> QED
    BY <2>2, <2>5, CoveredParts DEF IInv
<1> QED
    BY <1>1 DEF Range

LEMMA ComparedLive ==
    ASSUME IInv, NEW i \in 1 .. Len(calls), calls[i].call = "compare"
    PROVE  Range(calls[i].items) \subseteq live
<1>1. PICK base \in Seq(Nat \ {0}) : Scoped(varlist, calls, base)
    BY DEF IInv, Nested, Nests
<1>2. calls[i].items \in Seq(Value)
  <2>1. calls[i] \in CallType
    BY DEF IInv, TypeOK
  <2> QED
    BY <2>1, CallKinds DEF BuiltinType
<1>3. ASSUME NEW n \in DOMAIN calls[i].items  PROVE  calls[i].items[n] \in live
  <2>1. n \in 1 .. Len(calls[i].items)
    BY <1>2
  <2>2. calls[i].items[n] \in Literal \/ Within(varlist, calls[i].items[n], base[i])
    BY <1>1, <2>1 DEF Scoped
  <2>3. CASE calls[i].items[n] \in Literal
    BY <2>3, ConstantFacts, CoveredParts DEF IInv
  <2>4. CASE Within(varlist, calls[i].items[n], base[i])
    BY <2>4, NamesLive DEF Within
  <2> QED
    BY <2>2, <2>3, <2>4
<1> QED
    BY <1>3 DEF Range

LEMMA InvNothingDangles == IInv => NothingDangles
<1> SUFFICES ASSUME IInv  PROVE  NothingDangles
    OBVIOUS
<1>1. Literal \cup {falsevalue} \subseteq live
    BY ConstantFacts, CoveredParts DEF IInv
<1>2. DOMAIN varlist = 1 .. Len(varlist) /\ DOMAIN calls = 1 .. Len(calls)
    BY DEF IInv, TypeOK
<1>3. \A i \in DOMAIN varlist : Range(varlist[i]) \subseteq live
    BY <1>2, NamesLive
<1>4. \A i \in DOMAIN calls :
          /\ Range(Arguments(calls[i])) \subseteq live
          /\ calls[i].call = "compare" => Range(calls[i].items) \subseteq live
    BY <1>2, ArgumentsLive, ComparedLive
<1>5. val.v \in live
    BY DEF IInv, Evaluated
<1> QED
    BY <1>1, <1>3, <1>4, <1>5 DEF NothingDangles

LEMMA UnionSize ==
    ASSUME NEW S, NEW T, IsFiniteSet(S), IsFiniteSet(T)
    PROVE  /\ IsFiniteSet(S \cup T)
           /\ Cardinality(S \cup T) <= Cardinality(S) + Cardinality(T)
           /\ Cardinality(S) \in Nat /\ Cardinality(T) \in Nat /\ Cardinality(S \cup T) \in Nat
<1>1. /\ IsFiniteSet(S \cup T)
      /\ Cardinality(S \cup T) = Cardinality(S) + Cardinality(T) - Cardinality(S \cap T)
    BY FS_Union
<1>2. S \cap T \in SUBSET S
    OBVIOUS
<1>3. IsFiniteSet(S \cap T)
    BY <1>2, FS_Subset
<1>4. /\ Cardinality(S) \in Nat /\ Cardinality(T) \in Nat
      /\ Cardinality(S \cup T) \in Nat /\ Cardinality(S \cap T) \in Nat
    BY <1>1, <1>3, FS_CardinalityType
<1> QED
    BY <1>1, <1>4

(* Tagged, spots are as many.                                              *)
Tagged(tag, D, S) == UNION {{<<tag, i, x>> : x \in S[i]} : i \in D}

LEMMA TaggedSize ==
    ASSUME NEW D, NEW S, NEW spots, NEW tag, IsFiniteSet(spots),
           \A i \in D : \A x \in S[i] : <<i, x>> \in spots
    PROVE  IsFiniteSet(Tagged(tag, D, S)) /\ Cardinality(Tagged(tag, D, S)) <= Cardinality(spots)
<1> DEFINE T == Tagged(tag, D, S)
           h == [t \in T |-> <<t[2], t[3]>>]
<1>1. \A t \in T : \E i \in D : \E x \in S[i] : t = <<tag, i, x>>
    BY DEF Tagged
<1>2. \A t \in T : t = <<tag, t[2], t[3]>> /\ <<t[2], t[3]>> \in spots
    BY <1>1
<1> HIDE DEF T
<1>3. h \in [T -> spots]
    BY <1>2
<1>4. \A a, b \in T : h[a] = h[b] => a = b
  <2>1. ASSUME NEW a \in T, NEW b \in T, h[a] = h[b]  PROVE  a = b
    <3>1. a[2] = b[2] /\ a[3] = b[3]
      BY <2>1
    <3> QED
      BY <1>2, <3>1
  <2> QED
    BY <2>1
<1>5. h \in Injection(T, spots)
    BY <1>3, <1>4 DEF Injection, IsInjective
<1>6. IsFiniteSet(T) /\ Cardinality(T) <= Cardinality(spots)
    BY <1>5, FS_Injection
<1> QED
    BY <1>6 DEF T

LEMMA InvOwnersCounted == IInv => OwnersCounted
<1> SUFFICES ASSUME IInv, NEW v \in live  PROVE  refcount[v] >= Cardinality(Owners(v))
    BY DEF OwnersCounted
<1> DEFINE A == IF v \in Made THEN {} ELSE {<<"text", 0, 0>>}
           B == UNION {{<<"name", i, x>> : x \in Where(v, varlist[i]) \ LoopNames} : i \in DOMAIN varlist}
           C == UNION {{<<"argument", i, j>> : j \in Where(v, Arguments(calls[i]))} : i \in DOMAIN calls}
<1>1. v \in Value
    BY DEF IInv, TypeOK
<1>2. DOMAIN varlist = 1 .. Len(varlist) /\ DOMAIN calls = 1 .. Len(calls)
    BY DEF IInv, TypeOK
<1>3. Owners(v) = A \cup B \cup C
    BY DEF Owners
<1>4. IsFiniteSet(A) /\ Cardinality(A) = Text(v)
    BY SetSizes DEF Text
<1>5. /\ IsFiniteSet(NameSpots(varlist, v)) /\ IsFiniteSet(CallSpots(calls, v))
      /\ Cardinality(NameSpots(varlist, v)) \in Nat /\ Cardinality(CallSpots(calls, v)) \in Nat
      /\ Text(v) \in {0, 1} /\ Pending(val, v) \in {0, 1}
      /\ refcount[v] \in Int
      /\ refcount[v] >= Cardinality(NameSpots(varlist, v)) + Cardinality(CallSpots(calls, v)) + Text(v) + Pending(val, v)
    BY <1>1, CoveredParts DEF IInv
<1>6. IsFiniteSet(B) /\ Cardinality(B) <= Cardinality(NameSpots(varlist, v))
  <2> DEFINE S == [i \in DOMAIN varlist |-> Where(v, varlist[i]) \ LoopNames]
             T == Tagged("name", DOMAIN varlist, S)
  <2>1. \A i \in DOMAIN varlist : \A x \in S[i] : <<i, x>> \in NameSpots(varlist, v)
    BY <1>2 DEF NameSpots, Spots, NamesOf
  <2>2. B = T
    BY DEF Tagged
  <2> HIDE DEF S, B
  <2>3. IsFiniteSet(T) /\ Cardinality(T) <= Cardinality(NameSpots(varlist, v))
    BY <1>5, <2>1, TaggedSize
  <2> QED
    BY <2>2, <2>3
<1>7. IsFiniteSet(C) /\ Cardinality(C) <= Cardinality(CallSpots(calls, v))
  <2> DEFINE S == [i \in DOMAIN calls |-> Where(v, Arguments(calls[i]))]
             T == Tagged("argument", DOMAIN calls, S)
  <2>1. \A i \in DOMAIN calls : \A x \in S[i] : <<i, x>> \in CallSpots(calls, v)
    <3>1. \A i \in DOMAIN calls : \A x \in S[i] : x \in SharesOf(calls[i], v)
      BY DEF SharesOf
    <3> HIDE DEF S
    <3> QED
      BY <1>2, <3>1 DEF CallSpots, Spots
  <2>2. C = T
    BY DEF Tagged
  <2> HIDE DEF S, C
  <2>3. IsFiniteSet(T) /\ Cardinality(T) <= Cardinality(CallSpots(calls, v))
    BY <1>5, <2>1, TaggedSize
  <2> QED
    BY <2>2, <2>3
<1> HIDE DEF A, B, C
<1>8. /\ IsFiniteSet(A \cup B) /\ Cardinality(A \cup B) <= Cardinality(A) + Cardinality(B)
      /\ Cardinality(A) \in Nat /\ Cardinality(B) \in Nat /\ Cardinality(A \cup B) \in Nat
    BY <1>4, <1>6, UnionSize
<1>9. /\ Cardinality((A \cup B) \cup C) <= Cardinality(A \cup B) + Cardinality(C)
      /\ Cardinality(C) \in Nat /\ Cardinality((A \cup B) \cup C) \in Nat
    BY <1>7, <1>8, UnionSize
<1>10. Cardinality(Owners(v)) = Cardinality((A \cup B) \cup C)
    BY <1>3
<1> QED
    BY <1>4, <1>5, <1>6, <1>7, <1>8, <1>9, <1>10

-----------------------------------------------------------------------------
(* Theorems.                                                               *)

LEMMA Invariance ==
    ASSUME Odd = {}
    PROVE  Spec => []IInv
<1>1. Init => IInv
    BY InitInv
<1>2. IInv /\ [Next]_vars => IInv'
    BY Inductive
<1> QED
    BY <1>1, <1>2, PTL DEF Spec

(* Counts are numbers, scopes give names Values, and every call under way  *)
(* has the fields of its kind; a set is a statement, and every function    *)
(* that was entered has a scope (evaluate.c:9-171, funcdef.c:22-127).      *)
THEOREM ValuesTyped ==
    ASSUME Odd = {}
    PROVE  Spec => [](TypeOK /\ Nested)
<1>1. IInv => TypeOK /\ Nested
    BY DEF IInv
<1> QED
    BY <1>1, Invariance, PTL

(* The count of a Value covers its owners in every program that does none  *)
(* of the odd things, however long it is and however deeply calls nest     *)
(* (value.c:176-236, funcdef.c:44-52, 83, builtin.c:37-62, 569-570).       *)
THEOREM CountsCover ==
    ASSUME Odd = {}
    PROVE  Spec => []OwnersCounted
<1> QED
    BY Invariance, InvOwnersCounted, PTL

(* In such a program no name, no part of the program's text and no call    *)
(* under way has a Value that was freed, and neither has what was          *)
(* evaluated last (value.c:176-236, funcdef.c:44-52, 83,                   *)
(* builtin.c:37-62, 569-570).                                              *)
THEOREM NoDangling ==
    ASSUME Odd = {}
    PROVE  Spec => []NothingDangles
<1> QED
    BY Invariance, InvNothingDangles, PTL

=============================================================================
