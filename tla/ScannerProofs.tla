---------------------------- MODULE ScannerProofs ----------------------------
(***************************************************************************)
(* Theorems about Scanner, for texts of any length and depth: on all but   *)
(* the odd texts the lexer is in step with README.md.                      *)
(***************************************************************************)
EXTENDS Scanner, SequenceTheorems, FiniteSetTheorems, TLAPS

LexAt == {"code", "gap", "listgap", "token", "name", "dash", "dashes", "line", "block", "star",
          "stardash", "string", "quote", "bytes"}
DocAt == {"code", "name", "dash", "dashes", "line", "block", "string", "quote", "bytes"}
LastToken == {"none", "string", "value", "list"}
Text == Seq(Char \cup {"byte"})

LexType == [at : LexAt, parencount : Seq(Nat), text : Text]
DocType == [at : DocAt, open : Seq(Opening), text : Text, seen : Seq({"*", "-"}), last : LastToken]

(* The blocks begun inside the ith open bracket, and the calls' brackets   *)
(* that b blocks are begun inside of.                                      *)
Braces(open, i) == Cardinality({j \in 1 .. i - 1 : open[j] = "{"})
Parens(open, b) == Cardinality({i \in 1 .. Len(open) : open[i] = "(" /\ Braces(open, i) = b})

(* The lexer counts the calls' brackets of every block that is open.       *)
Brackets(counts, open) ==
    /\ Len(counts) = Braces(open, Len(open) + 1) + 1
    /\ \A b \in 1 .. Len(counts) : counts[b] = Parens(open, b - 1)

(* No look-ahead is due: the last value is not an argument, or it is       *)
(* followed by a comment.                                                  *)
Settled(l, d) == d.last \in {"value", "list"} => l.parencount[1] = 0

(* Where the lexer is, and where README.md says that it should be.         *)
Places(l, d) ==
    \/ l.at = "code" /\ d.at = "code" /\ Settled(l, d)
    \/ l.at = "token" /\ d.at = "code" /\ Settled(l, d)
    \/ l.at = "gap" /\ d.at = "code" /\ d.last = "value" /\ l.parencount[1] # 0
    \/ l.at = "listgap" /\ d.at = "code" /\ d.last = "list" /\ l.parencount[1] # 0
    \/ l.at = "name" /\ d.at = "name" /\ Settled(l, d)
    \/ l.at \in {"dash", "dashes", "line"} /\ d.at = l.at /\ Settled(l, d)
    \/ l.at = "block" /\ d.at = "block" /\ d.seen = <<>> /\ Settled(l, d)
    \/ l.at = "star" /\ d.at = "block" /\ d.seen = <<"*">> /\ Settled(l, d)
    \/ l.at = "stardash" /\ d.at = "block" /\ d.seen = <<"*", "-">> /\ Settled(l, d)
    \/ l.at \in {"string", "quote", "bytes"} /\ d.at = l.at

Strings == {"string", "quote", "bytes"}

InStep(l, d) ==
    /\ l \in LexType /\ d \in DocType
    /\ Brackets(l.parencount, d.open)
    /\ l.text = d.text
    /\ l.at \notin Strings => l.text = <<>>
    /\ d.at # "block" => d.seen = <<>>
    /\ Places(l, d)

IInv == InStep(lex, doc) /\ comma = due

-----------------------------------------------------------------------------
(* Counting the brackets that are open.                                    *)

Later(S) == {j + 1 : j \in S}

(* Positions moved by one are as many.                                     *)
LEMMA LaterCounted ==
    ASSUME NEW S \in SUBSET Nat, IsFiniteSet(S)
    PROVE  IsFiniteSet(Later(S)) /\ Cardinality(Later(S)) = Cardinality(S)
<1> DEFINE f == [j \in S |-> j + 1]
<1>1. f \in [S -> Later(S)]
    BY DEF Later
<1>2. \A t \in Later(S) : \E j \in S : f[j] = t
    BY DEF Later
<1>3. \A j, k \in S : f[j] = f[k] => j = k
    OBVIOUS
<1>4. f \in Surjection(S, Later(S))
    BY <1>1, <1>2 DEF Surjection
<1>5. f \in Injection(S, Later(S))
    BY <1>1, <1>3 DEF Injection, IsInjective
<1> QED
    BY <1>4, <1>5, FS_Surjection

(* The sets that Braces and Parens count.                                  *)
BraceSet(open, i) == {j \in 1 .. i - 1 : open[j] = "{"}
ParenSet(open, b) == {i \in 1 .. Len(open) : open[i] = "(" /\ Braces(open, i) = b}

LEMMA BracesFacts ==
    ASSUME NEW o \in Seq(Opening), NEW i \in Int
    PROVE  /\ IsFiniteSet(BraceSet(o, i)) /\ BraceSet(o, i) \subseteq Nat
           /\ Braces(o, i) = Cardinality(BraceSet(o, i)) /\ Braces(o, i) \in Nat
<1>1. IsFiniteSet(1 .. i - 1)
    BY FS_Interval
<1>2. BraceSet(o, i) \subseteq 1 .. i - 1
    BY DEF BraceSet
<1>3. Braces(o, i) = Cardinality(BraceSet(o, i))
    BY DEF Braces, BraceSet
<1>4. IsFiniteSet(BraceSet(o, i))
    BY <1>1, <1>2, FS_Subset
<1> QED
    BY <1>2, <1>3, <1>4, FS_CardinalityType

LEMMA ParensFacts ==
    ASSUME NEW o \in Seq(Opening), NEW b \in Int
    PROVE  /\ IsFiniteSet(ParenSet(o, b)) /\ ParenSet(o, b) \subseteq Nat
           /\ Parens(o, b) = Cardinality(ParenSet(o, b)) /\ Parens(o, b) \in Nat
<1>1. IsFiniteSet(1 .. Len(o))
    BY FS_Interval
<1>2. ParenSet(o, b) \subseteq 1 .. Len(o)
    BY DEF ParenSet
<1>3. Parens(o, b) = Cardinality(ParenSet(o, b))
    BY DEF Parens, ParenSet
<1>4. IsFiniteSet(ParenSet(o, b))
    BY <1>1, <1>2, FS_Subset
<1> QED
    BY <1>2, <1>3, <1>4, FS_CardinalityType

(* One more bracket is open.                                               *)
Opened(c, o) == <<c>> \o o

LEMMA OpenedFacts ==
    ASSUME NEW o \in Seq(Opening), NEW c \in Opening
    PROVE  /\ Opened(c, o) \in Seq(Opening) /\ Len(Opened(c, o)) = Len(o) + 1
           /\ Opened(c, o)[1] = c /\ \A j \in 1 .. Len(o) : Opened(c, o)[j + 1] = o[j]
           /\ \A j \in 2 .. Len(o) + 1 : Opened(c, o)[j] = o[j - 1]
           /\ Tail(Opened(c, o)) = o
<1>1. <<c>> \in Seq(Opening) /\ Len(<<c>>) = 1
    OBVIOUS
<1>2. /\ Opened(c, o) \in Seq(Opening) /\ Len(Opened(c, o)) = 1 + Len(o)
      /\ \A i \in 1 .. 1 + Len(o) : Opened(c, o)[i] = IF i <= 1 THEN <<c>>[i] ELSE o[i - 1]
    BY <1>1, ConcatProperties DEF Opened
<1> QED
    BY <1>1, <1>2 DEF Opened

(* T has what S has one later, and perhaps the first position.             *)
LEMMA CountedOnce ==
    ASSUME NEW S \in SUBSET (Nat \ {0}), IsFiniteSet(S), NEW T \in SUBSET (Nat \ {0}),
           \A j \in Nat \ {0} : j + 1 \in T <=> j \in S
    PROVE  Cardinality(T) = Cardinality(S) + (IF 1 \in T THEN 1 ELSE 0)
<1>1. IsFiniteSet(Later(S)) /\ Cardinality(Later(S)) = Cardinality(S)
    BY LaterCounted
<1>2. 1 \notin Later(S) /\ \A j \in Nat \ {0} : j + 1 \in Later(S) <=> j \in S
    BY DEF Later
<1>3. Later(S) \subseteq Nat \ {0}
    BY DEF Later
<1>4. \A k \in Nat \ {0, 1} : k \in T <=> k \in Later(S)
  <2>1. ASSUME NEW k \in Nat \ {0, 1}  PROVE  k \in T <=> k \in Later(S)
    <3>1. k - 1 \in Nat \ {0} /\ k = (k - 1) + 1
      OBVIOUS
    <3>2. (k - 1) + 1 \in T <=> (k - 1) + 1 \in Later(S)
      BY <1>2, <3>1
    <3> QED
      BY <3>1, <3>2
  <2> QED
    BY <2>1
<1>5. Cardinality(S) \in Nat
    BY FS_CardinalityType
<1>6. CASE 1 \in T
  <2>1. T = Later(S) \cup {1}
    BY <1>3, <1>4, <1>6
  <2>2. Cardinality(Later(S) \cup {1}) = Cardinality(Later(S)) + 1
    BY <1>1, <1>2, FS_AddElement
  <2> QED
    BY <1>1, <1>6, <2>1, <2>2
<1>7. CASE 1 \notin T
  <2>1. \A k \in Nat \ {0} : k \in T <=> k \in Later(S)
    BY <1>2, <1>4, <1>7
  <2>2. T = Later(S)
    BY <1>3, <2>1
  <2> QED
    BY <1>1, <1>5, <1>7, <2>2
<1> QED
    BY <1>6, <1>7

LEMMA BracesOpened ==
    ASSUME NEW o \in Seq(Opening), NEW c \in Opening, NEW i \in 1 .. Len(o) + 1
    PROVE  Braces(Opened(c, o), i + 1) = Braces(o, i) + (IF c = "{" THEN 1 ELSE 0)
<1> DEFINE p == Opened(c, o)
           S == BraceSet(o, i)
           T == BraceSet(p, i + 1)
<1>1. Len(o) \in Nat /\ i \in Nat \ {0}
    OBVIOUS
<1>2. p \in Seq(Opening) /\ p[1] = c /\ \A j \in 1 .. Len(o) : p[j + 1] = o[j]
    BY OpenedFacts
<1> HIDE DEF p
<1>3. IsFiniteSet(S) /\ Braces(o, i) = Cardinality(S) /\ Braces(p, i + 1) = Cardinality(T)
    BY <1>1, <1>2, BracesFacts
<1>4. S \in SUBSET (Nat \ {0}) /\ T \in SUBSET (Nat \ {0})
  <2>1. i - 1 \in Nat /\ (i + 1) - 1 \in Nat
    BY <1>1
  <2>2. \A n \in Nat : 1 .. n \subseteq Nat \ {0}
    OBVIOUS
  <2>3. S \subseteq 1 .. i - 1 /\ T \subseteq 1 .. (i + 1) - 1
    BY DEF BraceSet
  <2> QED
    BY <2>1, <2>2, <2>3
<1>5. ASSUME NEW j \in Nat \ {0}  PROVE  j + 1 \in T <=> j \in S
  <2>1. j + 1 \in 1 .. (i + 1) - 1 <=> j \in 1 .. i - 1
    BY <1>1
  <2>2. j \in 1 .. i - 1 => p[j + 1] = o[j]
    BY <1>1, <1>2
  <2> QED
    BY <2>1, <2>2 DEF BraceSet
<1>6. 1 \in T <=> c = "{"
  <2>1. 1 \in 1 .. (i + 1) - 1
    BY <1>1
  <2> QED
    BY <1>2, <2>1 DEF BraceSet
<1> HIDE DEF S, T
<1>7. Cardinality(T) = Cardinality(S) + (IF 1 \in T THEN 1 ELSE 0)
    BY <1>3, <1>4, <1>5, CountedOnce
<1> QED
    BY <1>3, <1>6, <1>7 DEF p

LEMMA ParensOpened ==
    ASSUME NEW o \in Seq(Opening), NEW c \in Opening, NEW b \in Int
    PROVE  Parens(Opened(c, o), b) = Parens(o, IF c = "{" THEN b - 1 ELSE b)
                                     + (IF c = "(" /\ b = 0 THEN 1 ELSE 0)
<1> DEFINE p == Opened(c, o)
           a == IF c = "{" THEN b - 1 ELSE b
           S == ParenSet(o, a)
           T == ParenSet(p, b)
<1>1. a \in Int /\ Len(o) \in Nat
    OBVIOUS
<1>2. /\ p \in Seq(Opening) /\ Len(p) = Len(o) + 1 /\ p[1] = c
      /\ \A j \in 1 .. Len(o) : p[j + 1] = o[j]
    BY OpenedFacts
<1>3. ASSUME NEW i \in 1 .. Len(o)  PROVE  Braces(p, i + 1) = b <=> Braces(o, i) = a
  <2>1. i \in 1 .. Len(o) + 1
    BY <1>1
  <2>2. Braces(p, i + 1) = Braces(o, i) + (IF c = "{" THEN 1 ELSE 0)
    BY <2>1, BracesOpened
  <2>3. Braces(o, i) \in Nat
    BY BracesFacts
  <2> DEFINE after == Braces(p, i + 1)
             before == Braces(o, i)
  <2> HIDE DEF after, before, a
  <2>4. CASE c = "{"
    <3>1. after = before + 1 /\ before \in Nat
      BY <2>2, <2>3, <2>4 DEF after, before
    <3>2. a = b - 1
      BY <2>4 DEF a
    <3>3. after = b <=> before = a
      BY <3>1, <3>2
    <3> QED
      BY <3>3 DEF after, before
  <2>5. CASE c # "{"
    <3>1. after = before + 0 /\ before \in Nat
      BY <2>2, <2>3, <2>5 DEF after, before
    <3>2. a = b
      BY <2>5 DEF a
    <3>3. after = b <=> before = a
      BY <3>1, <3>2
    <3> QED
      BY <3>3 DEF after, before
  <2> QED
    BY <2>4, <2>5
<1> HIDE DEF p, a
<1>4. Braces(p, 1) = 0
  <2>1. BraceSet(p, 1) = {}
    BY DEF BraceSet
  <2>2. Braces(p, 1) = Cardinality(BraceSet(p, 1))
    BY <1>2, BracesFacts
  <2> QED
    BY <2>1, <2>2, FS_EmptySet
<1>5. IsFiniteSet(S) /\ Parens(o, a) = Cardinality(S) /\ Parens(p, b) = Cardinality(T)
    BY <1>1, <1>2, ParensFacts
<1>6. S \in SUBSET (Nat \ {0}) /\ T \in SUBSET (Nat \ {0})
    BY <1>1, <1>2 DEF ParenSet
<1>7. ASSUME NEW j \in Nat \ {0}  PROVE  j + 1 \in T <=> j \in S
  <2>1. j + 1 \in 1 .. Len(p) <=> j \in 1 .. Len(o)
    BY <1>1, <1>2
  <2>2. j \in 1 .. Len(o) => p[j + 1] = o[j] /\ (Braces(p, j + 1) = b <=> Braces(o, j) = a)
    BY <1>2, <1>3
  <2> QED
    BY <2>1, <2>2 DEF ParenSet
<1>8. 1 \in T <=> c = "(" /\ b = 0
    BY <1>1, <1>2, <1>4 DEF ParenSet
<1> HIDE DEF S, T
<1>9. Cardinality(T) = Cardinality(S) + (IF 1 \in T THEN 1 ELSE 0)
    BY <1>5, <1>6, <1>7, CountedOnce
<1>10. Parens(p, b) = Parens(o, a) + (IF c = "(" /\ b = 0 THEN 1 ELSE 0)
    BY <1>5, <1>8, <1>9
<1> QED
    BY <1>10 DEF p, a

(* The call's bracket that README.md looks for is one that the lexer has   *)
(* counted for the innermost block.                                        *)
LEMMA InArgumentsCounted ==
    ASSUME NEW o \in Seq(Opening)
    PROVE  InArguments(o) <=> Parens(o, 0) # 0
<1>1. ASSUME NEW i \in 1 .. Len(o)
      PROVE  Braces(o, i) = 0 <=> \A j \in 1 .. i - 1 : o[j] # "{"
  <2>1. IsFiniteSet(BraceSet(o, i)) /\ Braces(o, i) = Cardinality(BraceSet(o, i))
    BY BracesFacts
  <2>2. Braces(o, i) = 0 <=> BraceSet(o, i) = {}
    BY <2>1, FS_EmptySet
  <2> QED
    BY <2>2 DEF BraceSet
<1>2. IsFiniteSet(ParenSet(o, 0)) /\ Parens(o, 0) = Cardinality(ParenSet(o, 0))
    BY ParensFacts
<1>3. Parens(o, 0) # 0 <=> ParenSet(o, 0) # {}
    BY <1>2, FS_EmptySet
<1>4. DOMAIN o = 1 .. Len(o)
    OBVIOUS
<1> QED
    BY <1>1, <1>3, <1>4 DEF InArguments, ParenSet

-----------------------------------------------------------------------------
(* The counts of the lexer, bracket by bracket.                            *)

LEMMA BracketsSome ==
    ASSUME NEW n, NEW o \in Seq(Opening), Brackets(n, o)
    PROVE  Len(n) \in Nat \ {0} /\ n[1] = Parens(o, 0) /\ n[1] \in Nat
<1>1. Braces(o, Len(o) + 1) \in Nat
    BY BracesFacts
<1>2. Len(n) \in Nat \ {0}
    BY <1>1 DEF Brackets
<1>3. n[1] = Parens(o, 1 - 1)
    BY <1>2 DEF Brackets
<1> QED
    BY <1>2, <1>3, ParensFacts

(* An opening bracket keeps the counts right.                              *)
LEMMA BracketsOpened ==
    ASSUME NEW n \in Seq(Nat), NEW o \in Seq(Opening), Brackets(n, o), NEW c \in Opening
    PROVE  Counted(n, c) \in Seq(Nat) /\ Brackets(Counted(n, c), Opened(c, o))
<1> DEFINE m == Counted(n, c)
           p == Opened(c, o)
<1>1. p \in Seq(Opening) /\ Len(p) = Len(o) + 1 /\ Len(o) \in Nat
    BY OpenedFacts
<1>2. Braces(p, (Len(o) + 1) + 1) = Braces(o, Len(o) + 1) + (IF c = "{" THEN 1 ELSE 0)
  <2>1. Len(o) + 1 \in 1 .. Len(o) + 1
    BY <1>1
  <2> QED
    BY <2>1, BracesOpened
<1>3. \A b \in Int : Parens(p, b) = Parens(o, IF c = "{" THEN b - 1 ELSE b)
                                    + (IF c = "(" /\ b = 0 THEN 1 ELSE 0)
    BY ParensOpened
<1>4. \A b \in Int : Parens(o, b) \in Nat
    BY ParensFacts
<1>5. Len(n) \in Nat \ {0} /\ n[1] \in Nat /\ Braces(o, Len(o) + 1) \in Nat
  <2>1. Len(n) \in Nat \ {0} /\ n[1] \in Nat
    BY BracketsSome
  <2>2. Len(o) + 1 \in Int
    BY <1>1
  <2>3. Braces(o, Len(o) + 1) \in Nat
    BY <2>2, BracesFacts
  <2> QED
    BY <2>1, <2>3
<1>6. Len(n) = Braces(o, Len(o) + 1) + 1 /\ \A b \in 1 .. Len(n) : n[b] = Parens(o, b - 1)
    BY DEF Brackets
<1>7. CASE c = "["
  <2>1. m = n
    BY <1>7 DEF Counted
  <2>2. \A b \in 1 .. Len(n) : Parens(p, b - 1) = Parens(o, b - 1)
    BY <1>3, <1>4, <1>5, <1>7
  <2>3. Braces(p, Len(p) + 1) = Braces(o, Len(o) + 1)
    BY <1>1, <1>2, <1>5, <1>7
  <2> QED
    BY <1>6, <2>1, <2>2, <2>3 DEF Brackets
<1>8. CASE c = "("
  <2>1. m = [n EXCEPT ![1] = @ + 1]
    BY <1>8 DEF Counted
  <2>2. m \in Seq(Nat) /\ Len(m) = Len(n) /\ m[1] = n[1] + 1
        /\ \A b \in 2 .. Len(n) : m[b] = n[b]
    BY <1>5, <2>1
  <2>3. Parens(p, 0) = Parens(o, 0) + 1
    BY <1>3, <1>8
  <2>4. \A b \in 2 .. Len(n) : Parens(p, b - 1) = Parens(o, b - 1)
    BY <1>3, <1>4, <1>5, <1>8
  <2>5. Braces(p, Len(p) + 1) = Braces(o, Len(o) + 1)
    BY <1>1, <1>2, <1>5, <1>8
  <2>6. m[1] = Parens(p, 1 - 1)
    BY <2>2, <2>3, BracketsSome
  <2>7. \A b \in 1 .. Len(m) : b = 1 \/ b \in 2 .. Len(n)
    BY <1>5, <2>2
  <2> QED
    BY <1>6, <2>2, <2>4, <2>5, <2>6, <2>7 DEF Brackets
<1>9. CASE c = "{"
  <2>0. \A b \in Int : Parens(p, b) = Parens(o, b - 1)
    <3>1. ASSUME NEW b \in Int  PROVE  Parens(p, b) = Parens(o, b - 1)
      <4>1. Parens(p, b) = Parens(o, b - 1) + 0
        BY <1>9, ParensOpened
      <4> QED
        BY <1>4, <4>1
    <3> QED
      BY <3>1
  <2>1. m = <<0>> \o n
    BY <1>9 DEF Counted
  <2>2. m \in Seq(Nat) /\ Len(m) = 1 + Len(n)
        /\ \A b \in 1 .. 1 + Len(n) : m[b] = IF b <= 1 THEN <<0>>[b] ELSE n[b - 1]
    <3>1. <<0>> \in Seq(Nat) /\ Len(<<0>>) = 1
      OBVIOUS
    <3> QED
      BY <2>1, <3>1, ConcatProperties
  <2>3. m[1] = 0
    BY <1>5, <2>2
  <2>4. Parens(p, 1 - 1) = 0
    <3>1. ParenSet(o, -1) = {}
      BY <1>1, BracesFacts DEF ParenSet
    <3>2. Parens(o, -1) = 0
      BY <3>1, ParensFacts, FS_EmptySet
    <3>3. Parens(p, 0) = Parens(o, -1)
      BY <2>0, 0 - 1 = -1
    <3> QED
      BY <3>2, <3>3
  <2>5. \A b \in 2 .. Len(m) : m[b] = Parens(p, b - 1)
    <3>1. ASSUME NEW b \in 2 .. Len(m)  PROVE  m[b] = Parens(p, b - 1)
      <4>1. b - 1 \in 1 .. Len(n) /\ b - 1 # 0 /\ b \in 1 .. 1 + Len(n) /\ ~(b <= 1)
        BY <1>5, <2>2
      <4>2. m[b] = Parens(o, (b - 1) - 1)
        BY <1>6, <2>2, <4>1
      <4>3. Parens(p, b - 1) = Parens(o, (b - 1) - 1)
        BY <2>0, <4>1
      <4> QED
        BY <1>4, <4>1, <4>2, <4>3
    <3> QED
      BY <3>1
  <2>6. Braces(p, Len(p) + 1) = Braces(o, Len(o) + 1) + 1
    BY <1>1, <1>2, <1>5, <1>9
  <2>7. Len(m) = Braces(p, Len(p) + 1) + 1
    BY <1>5, <1>6, <2>2, <2>6
  <2>8. \A b \in 1 .. Len(m) : b = 1 \/ b \in 2 .. Len(m)
    BY <1>5, <2>2
  <2> QED
    BY <2>2, <2>3, <2>4, <2>5, <2>7, <2>8 DEF Brackets
<1> QED
    BY <1>7, <1>8, <1>9 DEF Opening

(* So does a closing bracket that matches.                                 *)
LEMMA BracketsClosed ==
    ASSUME NEW n \in Seq(Nat), NEW o \in Seq(Opening), Brackets(n, o), o # <<>>,
           NEW c, <<o[1], c>> \in Pair
    PROVE  Counted(n, c) \in Seq(Nat) /\ Brackets(Counted(n, c), Tail(o))
<1> DEFINE m == Counted(n, c)
           t == Tail(o)
           k == o[1]
<1>1. t \in Seq(Opening) /\ Len(o) = Len(t) + 1 /\ Len(t) \in Nat /\ o = Opened(k, t) /\ k \in Opening
  <2>1. t \in Seq(Opening) /\ Len(o) = Len(t) + 1 /\ Len(t) \in Nat /\ k \in Opening
    OBVIOUS
  <2>2. Opened(k, t) \in Seq(Opening) /\ Len(Opened(k, t)) = Len(o)
        /\ Opened(k, t)[1] = o[1] /\ \A j \in 2 .. Len(o) : Opened(k, t)[j] = o[j]
    <3>1. /\ Opened(k, t) \in Seq(Opening) /\ Len(Opened(k, t)) = Len(t) + 1
          /\ Opened(k, t)[1] = k /\ \A j \in 2 .. Len(t) + 1 : Opened(k, t)[j] = t[j - 1]
      BY <2>1, OpenedFacts
    <3>2. \A j \in 2 .. Len(o) : t[j - 1] = o[j]
      BY <2>1, HeadTailProperties
    <3> QED
      BY <2>1, <3>1, <3>2
  <2>3. \A j \in 1 .. Len(o) : Opened(k, t)[j] = o[j]
    BY <2>1, <2>2
  <2> QED
    BY <2>1, <2>2, <2>3
<1> HIDE DEF t, k
<1>2. Braces(o, Len(o) + 1) = Braces(t, Len(t) + 1) + (IF k = "{" THEN 1 ELSE 0)
  <2>1. Len(t) + 1 \in 1 .. Len(t) + 1
    BY <1>1
  <2>2. Braces(Opened(k, t), (Len(t) + 1) + 1) = Braces(t, Len(t) + 1) + (IF k = "{" THEN 1 ELSE 0)
    BY <1>1, <2>1, BracesOpened
  <2> QED
    BY <1>1, <2>2
<1>3. \A b \in Int : Parens(t, b) \in Nat
    BY <1>1, ParensFacts
<1>4. \A b \in Int : Parens(o, b) = Parens(t, IF k = "{" THEN b - 1 ELSE b)
                                    + (IF k = "(" /\ b = 0 THEN 1 ELSE 0)
    BY <1>1, ParensOpened
<1>5. Len(n) \in Nat \ {0} /\ n[1] \in Nat /\ n[1] = Parens(o, 0)
    BY BracketsSome
<1>6. Braces(t, Len(t) + 1) \in Nat
  <2>1. Len(t) + 1 \in Int
    BY <1>1
  <2> QED
    BY <1>1, <2>1, BracesFacts
<1>7. Len(n) = Braces(o, Len(o) + 1) + 1 /\ \A b \in 1 .. Len(n) : n[b] = Parens(o, b - 1)
    BY DEF Brackets
<1>8. CASE k = "[" /\ c = "]"
  <2>1. m = n
    BY <1>8 DEF Counted
  <2>2. \A b \in 1 .. Len(n) : Parens(t, b - 1) = Parens(o, b - 1)
    BY <1>3, <1>4, <1>5, <1>8
  <2>3. Braces(t, Len(t) + 1) = Braces(o, Len(o) + 1)
    BY <1>2, <1>6, <1>8
  <2> QED
    BY <1>7, <2>1, <2>2, <2>3 DEF Brackets, t
<1>9. CASE k = "(" /\ c = ")"
  <2>1. Parens(o, 0) = Parens(t, 0) + 1
    BY <1>4, <1>9
  <2>2. Parens(t, 0) \in Nat
    BY <1>3
  <2>3. m = [n EXCEPT ![1] = @ - 1]
    BY <1>9 DEF Counted
  <2>4. n[1] - 1 \in Nat /\ n[1] - 1 = Parens(t, 0)
    <3>1. n[1] = Parens(t, 0) + 1
      BY <1>5, <2>1
    <3> QED
      BY <2>2, <3>1
  <2>5. m \in Seq(Nat) /\ Len(m) = Len(n) /\ m[1] = Parens(t, 0)
        /\ \A b \in 2 .. Len(n) : m[b] = n[b]
    BY <1>5, <2>3, <2>4
  <2>6. \A b \in 2 .. Len(n) : Parens(t, b - 1) = Parens(o, b - 1)
    BY <1>3, <1>4, <1>5, <1>9
  <2>7. Braces(t, Len(t) + 1) = Braces(o, Len(o) + 1)
    BY <1>2, <1>6, <1>9
  <2>8. \A b \in 1 .. Len(m) : b = 1 \/ b \in 2 .. Len(n)
    BY <1>5, <2>5
  <2>9. m[1] = Parens(t, 1 - 1)
    BY <2>5
  <2> QED
    BY <1>7, <2>5, <2>6, <2>7, <2>8, <2>9 DEF Brackets, t
<1>10. CASE k = "{" /\ c = "}"
  <2>1. Braces(o, Len(o) + 1) = Braces(t, Len(t) + 1) + 1
    BY <1>2, <1>10
  <2>2. Len(n) = (Braces(t, Len(t) + 1) + 1) + 1
    BY <1>7, <2>1
  <2>3. m = Tail(n)
    BY <1>10 DEF Counted
  <2>4. n # <<>>
    BY <1>5
  <2>5. m \in Seq(Nat) /\ Len(m) = Len(n) - 1 /\ \A b \in 1 .. Len(m) : m[b] = n[b + 1]
    BY <2>3, <2>4, HeadTailProperties
  <2>6. \A b \in Int : Parens(o, b) = Parens(t, b - 1)
    <3>1. ASSUME NEW b \in Int  PROVE  Parens(o, b) = Parens(t, b - 1)
      <4>1. Parens(o, b) = Parens(t, b - 1) + 0
        BY <1>1, <1>10, ParensOpened
      <4> QED
        BY <1>3, <4>1
    <3> QED
      BY <3>1
  <2>7. \A b \in 1 .. Len(m) : m[b] = Parens(t, b - 1)
    <3>1. ASSUME NEW b \in 1 .. Len(m)  PROVE  m[b] = Parens(t, b - 1)
      <4>1. b + 1 \in 1 .. Len(n) /\ (b + 1) - 1 = b /\ b \in Int
        BY <1>5, <2>5
      <4>2. m[b] = Parens(o, b)
        BY <1>7, <2>5, <4>1
      <4> QED
        BY <2>6, <4>1, <4>2
    <3> QED
      BY <3>1
  <2>8. Len(m) = Braces(t, Len(t) + 1) + 1
    BY <1>6, <2>2, <2>5
  <2> QED
    BY <2>5, <2>7, <2>8 DEF Brackets, t
<1> QED
    BY <1>8, <1>9, <1>10 DEF Pair, k

-----------------------------------------------------------------------------
(* Outside comments and strings.                                           *)

(* Between two tokens, or at the end of one, before the character c.       *)
Between(l, d, c) ==
    /\ l \in LexType /\ d \in DocType
    /\ Brackets(l.parencount, d.open)
    /\ l.text = <<>> /\ d.text = <<>> /\ d.seen = <<>>
    /\ c \in Char \ {"*", "@"}
    /\ c \in Closing => d.open # <<>> /\ <<d.open[1], c>> \in Pair

(* A token begins: after white space a look-ahead must not be due.         *)
LEMMA TokenStep ==
    ASSUME NEW l, NEW d, NEW c, Between(l, d, c), c # "-", c \in White => Settled(l, d)
    PROVE  InStep(Token(l, c), Plain(d, c))
<1> DEFINE n == Counted(l.parencount, c)
           k == Token(l, c)
           e == Plain(d, c)
<1>1. /\ l.parencount \in Seq(Nat) /\ d.open \in Seq(Opening)
      /\ l \in LexType /\ d \in DocType
      /\ Brackets(l.parencount, d.open) /\ l.text = <<>> /\ d.text = <<>> /\ d.seen = <<>>
    BY DEF Between, LexType, DocType
<1>2. c \in White \cup Opening \cup Closing \cup Word \cup {"\"", ","}
    BY DEF Between, Char
<1>3. CASE c \in Closing
  <2>1. n \in Seq(Nat) /\ Brackets(n, Tail(d.open)) /\ Tail(d.open) \in Seq(Opening)
    BY <1>1, <1>3, BracketsClosed DEF Between
  <2> HIDE DEF n
  <2>2. k = [l EXCEPT !.parencount = n, !.at = LookAhead(n, c)]
    BY <1>3 DEF Token, n, White, Opening, Closing
  <2>3. e = [d EXCEPT !.at = "code", !.open = Tail(d.open),
                      !.last = IF c = "]" THEN "list" ELSE "value"]
    BY <1>3 DEF Plain, Closing, Opening, White
  <2>4. LookAhead(n, c) \in {"code", "gap", "listgap"}
    BY DEF LookAhead
  <2>5. k \in LexType /\ k.at = LookAhead(n, c) /\ k.parencount = n /\ k.text = <<>>
    BY <1>1, <2>1, <2>2, <2>4 DEF LexType, LexAt
  <2>6. e \in DocType /\ e.at = "code" /\ e.open = Tail(d.open) /\ e.text = <<>> /\ e.seen = <<>>
        /\ e.last = IF c = "]" THEN "list" ELSE "value"
    BY <1>1, <2>1, <2>3 DEF DocType, DocAt, LastToken
  <2> HIDE DEF k, e
  <2>7. Places(k, e)
    <3>1. CASE n[1] = 0
      BY <2>5, <2>6, <3>1 DEF Places, Settled, LookAhead
    <3>2. CASE n[1] # 0 /\ c = "]"
      <4>1. k.at = "listgap" /\ e.last = "list"
        BY <2>5, <2>6, <3>2 DEF LookAhead
      <4> QED
        BY <2>5, <2>6, <3>2, <4>1 DEF Places
    <3>3. CASE n[1] # 0 /\ c # "]"
      <4>1. k.at = "gap" /\ e.last = "value"
        BY <2>5, <2>6, <3>3 DEF LookAhead
      <4> QED
        BY <2>5, <2>6, <3>3, <4>1 DEF Places
    <3> QED
      BY <3>1, <3>2, <3>3
  <2> QED
    BY <2>1, <2>4, <2>5, <2>6, <2>7 DEF InStep, Strings, k, e
<1>4. CASE c \in Opening
  <2>1. n \in Seq(Nat) /\ Brackets(n, Opened(c, d.open)) /\ Opened(c, d.open) \in Seq(Opening)
    BY <1>1, <1>4, BracketsOpened, OpenedFacts
  <2> HIDE DEF n
  <2>2. k = [l EXCEPT !.parencount = n, !.at = "code"]
    BY <1>4 DEF Token, n, Opening, Closing
  <2>3. e = [d EXCEPT !.at = "code", !.open = Opened(c, d.open), !.last = "none"]
    BY <1>4 DEF Plain, Opened, White, Opening, Closing
  <2>4. k \in LexType /\ k.at = "code" /\ k.parencount = n /\ k.text = <<>>
    BY <1>1, <2>1, <2>2 DEF LexType, LexAt
  <2>5. e \in DocType /\ e.at = "code" /\ e.open = Opened(c, d.open) /\ e.text = <<>>
        /\ e.seen = <<>> /\ e.last = "none"
    BY <1>1, <2>1, <2>3 DEF DocType, DocAt, LastToken
  <2> HIDE DEF k, e
  <2> QED
    BY <2>1, <2>4, <2>5 DEF InStep, Strings, Places, Settled, k, e
<1>5. CASE c \in White \cup Word \cup {"\"", ","}
  <2>1. n = l.parencount
    BY <1>5 DEF Counted, White, Word
  <2> HIDE DEF n
  <2>2. CASE c \in White
    <3>1. k = [l EXCEPT !.parencount = n, !.at = "code"]
      BY <2>2 DEF Token, n, White, Closing
    <3>2. e = [d EXCEPT !.at = "code"]
      BY <2>2 DEF Plain, White, Opening, Closing
    <3>3. k \in LexType /\ k.at = "code" /\ k.parencount = l.parencount /\ k.text = <<>>
      BY <1>1, <2>1, <3>1 DEF LexType, LexAt
    <3>4. e \in DocType /\ e.at = "code" /\ e.open = d.open /\ e.text = <<>>
          /\ e.seen = <<>> /\ e.last = d.last
      BY <1>1, <3>2 DEF DocType, DocAt
    <3> HIDE DEF k, e
    <3>5. Settled(k, e)
      BY <2>2, <3>3, <3>4 DEF Settled
    <3> QED
      BY <1>1, <3>3, <3>4, <3>5 DEF InStep, Strings, Places, k, e
  <2>3. CASE c = "\""
    <3>1. k = [l EXCEPT !.parencount = n, !.at = "string"]
      BY <2>3 DEF Token, n, White, Opening, Closing
    <3>2. e = [d EXCEPT !.at = "string", !.text = <<>>]
      BY <2>3 DEF Plain, White, Opening, Closing
    <3>3. k \in LexType /\ k.at = "string" /\ k.parencount = l.parencount /\ k.text = <<>>
      BY <1>1, <2>1, <3>1 DEF LexType, LexAt
    <3>4. e \in DocType /\ e.at = "string" /\ e.open = d.open /\ e.text = <<>> /\ e.seen = <<>>
      BY <1>1, <3>2 DEF DocType, DocAt, Text
    <3> HIDE DEF k, e
    <3> QED
      BY <1>1, <3>3, <3>4 DEF InStep, Strings, Places, k, e
  <2>4. CASE c \in Word \cup {","}
    <3> DEFINE a == IF c = "x" THEN "name" ELSE "code"
    <3>1. k = [l EXCEPT !.parencount = n, !.at = a]
      BY <2>4 DEF Token, n, Closing, White, Opening, Word
    <3>2. e = [d EXCEPT !.at = a, !.last = "none"]
      BY <2>4 DEF Plain, White, Opening, Closing, Word
    <3>3. a \in {"name", "code"}
      OBVIOUS
    <3> HIDE DEF a
    <3>4. k \in LexType /\ k.at = a /\ k.parencount = l.parencount /\ k.text = <<>>
      BY <1>1, <2>1, <3>1, <3>3 DEF LexType, LexAt
    <3>5. e \in DocType /\ e.at = a /\ e.open = d.open /\ e.text = <<>> /\ e.seen = <<>>
          /\ e.last = "none"
      BY <1>1, <3>2, <3>3 DEF DocType, DocAt, LastToken
    <3> HIDE DEF k, e
    <3> QED
      BY <1>1, <3>3, <3>4, <3>5 DEF InStep, Strings, Places, Settled, k, e
  <2> QED
    BY <1>5, <2>2, <2>3, <2>4
<1> QED
    BY <1>2, <1>3, <1>4, <1>5

(* A comment may begin, too, if no look-ahead is due.                      *)
LEMMA SkipStep ==
    ASSUME NEW l, NEW d, NEW c, Between(l, d, c), c \in White \cup {"-"} => Settled(l, d)
    PROVE  InStep(Skip(l, c), Plain(d, c))
<1>1. CASE c # "-"
    BY <1>1, TokenStep DEF Skip
<1>2. CASE c = "-"
  <2> DEFINE k == [l EXCEPT !.at = "dash"]
             e == [d EXCEPT !.at = "dash"]
  <2>1. Skip(l, c) = k /\ Plain(d, c) = e
    BY <1>2 DEF Skip, Plain, White, Opening, Closing
  <2>2. k \in LexType /\ k.at = "dash" /\ k.parencount = l.parencount /\ k.text = <<>>
    BY DEF Between, LexType, LexAt
  <2>3. e \in DocType /\ e.at = "dash" /\ e.open = d.open /\ e.text = <<>> /\ e.seen = <<>>
        /\ e.last = d.last
    BY DEF Between, DocType, DocAt
  <2> HIDE DEF k, e
  <2>4. Settled(k, e)
    BY <1>2, <2>2, <2>3 DEF Settled
  <2> QED
    BY <2>1, <2>2, <2>3, <2>4 DEF Between, InStep, Strings, Places
<1> QED
    BY <1>1, <1>2

-----------------------------------------------------------------------------
(* One character, place by place.                                          *)

(* What is known when a character is read.                                 *)
Reading(c) == InStep(lex, doc) /\ c \in Char /\ Legal(c) /\ Usual(c) /\ Odd = {}

(* Where a character goes.                                                 *)
Follows(c) == InStep(Lex(lex, c), Specified(doc, c)) /\ (Inserts(lex, c) <=> Due(doc, c))

LEMMA ReadingBetween ==
    ASSUME NEW c, Reading(c), doc.at \in {"code", "name"}, lex.at \notin Strings
    PROVE  Between(lex, doc, c)
BY DEF Reading, InStep, Between, Legal, Outside

(* Nothing is due at a place where no look-ahead ended and no string did.  *)
LEMMA NothingDue ==
    ASSUME NEW c, Reading(c), doc.at = "code" => Settled(lex, doc)
    PROVE  ~Due(doc, c)
<1>1. doc \in DocType /\ lex.parencount[1] = Parens(doc.open, 0)
    BY BracketsSome DEF Reading, InStep, DocType
<1>2. InArguments(doc.open) <=> lex.parencount[1] # 0
    BY <1>1, InArgumentsCounted DEF DocType
<1>3. CASE doc.at \in {"quote", "bytes"}
    BY <1>3 DEF Reading, Usual
<1>4. CASE doc.at = "code" /\ doc.last = "string"
    BY <1>4 DEF Reading, Usual
<1>5. CASE doc.at = "code" /\ doc.last # "string"
    BY <1>2, <1>5 DEF Due, Settled
<1>6. CASE doc.at \notin {"code", "quote", "bytes"}
    BY <1>6 DEF Due
<1> QED
    BY <1>3, <1>4, <1>5, <1>6

(* Before a token: the loop that skips comments, or what follows *--.      *)
LEMMA CodeStep ==
    ASSUME NEW c, Reading(c), lex.at \in {"code", "token"}
    PROVE  Follows(c)
<1>1. doc.at = "code" /\ Settled(lex, doc)
    BY DEF Reading, InStep, Places
<1>2. Between(lex, doc, c)
    BY <1>1, ReadingBetween DEF Strings
<1>3. Specified(doc, c) = Plain(doc, c)
    BY <1>1 DEF Specified
<1>4. ~Due(doc, c) /\ ~Inserts(lex, c)
    BY <1>1, NothingDue DEF Inserts
<1>5. CASE lex.at = "code"
  <2>1. Lex(lex, c) = Skip(lex, c)
    BY <1>5 DEF Lex
  <2> QED
    BY <1>1, <1>2, <1>3, <1>4, <2>1, SkipStep DEF Follows
<1>6. CASE lex.at = "token"
  <2>1. Lex(lex, c) = Token(lex, c)
    BY <1>6 DEF Lex
  <2>2. c # "-"
    BY <1>6 DEF Reading, Usual
  <2> QED
    BY <1>1, <1>2, <1>3, <1>4, <2>1, <2>2, TokenStep DEF Follows
<1> QED
    BY <1>5, <1>6

(* In a look-ahead: the only place where a comma is inserted.              *)
LEMMA GapStep ==
    ASSUME NEW c, Reading(c), lex.at \in {"gap", "listgap"}
    PROVE  Follows(c)
<1>1. /\ doc.at = "code" /\ doc.last = IF lex.at = "gap" THEN "value" ELSE "list"
      /\ lex.parencount[1] # 0
    BY DEF Reading, InStep, Places
<1>2. Between(lex, doc, c)
    BY <1>1, ReadingBetween DEF Strings
<1>3. Specified(doc, c) = Plain(doc, c)
    BY <1>1 DEF Specified
<1>4. Inserts(lex, c) <=> Due(doc, c)
  <2>1. doc \in DocType /\ lex.parencount[1] = Parens(doc.open, 0)
    BY BracketsSome DEF Reading, InStep, DocType
  <2>2. InArguments(doc.open)
    BY <1>1, <2>1, InArgumentsCounted DEF DocType
  <2>3. Due(doc, c) <=> \/ c \in {"[", "\""}
                        \/ doc.last = "value" /\ c = "{"
    BY <1>1, <2>2 DEF Due
  <2>4. Inserts(lex, c) <=> \/ c \in {"[", "\""}
                            \/ doc.last = "value" /\ c = "{"
    BY <1>1 DEF Inserts
  <2> QED
    BY <2>3, <2>4
<1>5. c # "-"
    BY DEF Reading, Usual
<1>6. CASE c \in White
  <2>1. Lex(lex, c) = lex
    BY <1>6 DEF Lex
  <2>2. Plain(doc, c) = [doc EXCEPT !.at = "code"]
    BY <1>6 DEF Plain, White, Opening, Closing
  <2>3. Plain(doc, c) = doc
    BY <1>1, <2>2 DEF Reading, InStep, DocType
  <2> QED
    BY <1>3, <1>4, <2>1, <2>3 DEF Follows, Reading
<1>7. CASE c \notin White
  <2>1. Lex(lex, c) = Skip(lex, c)
    BY <1>7 DEF Lex
  <2> QED
    BY <1>2, <1>3, <1>4, <1>5, <1>7, <2>1, SkipStep DEF Follows
<1> QED
    BY <1>6, <1>7

(* In a name.                                                              *)
LEMMA NameStep ==
    ASSUME NEW c, Reading(c), lex.at = "name"
    PROVE  Follows(c)
<1>1. doc.at = "name" /\ Settled(lex, doc)
    BY DEF Reading, InStep, Places
<1>2. ~Due(doc, c) /\ ~Inserts(lex, c)
    BY <1>1, NothingDue DEF Inserts
<1>3. CASE c \in EndsName
  <2>1. Lex(lex, c) = Skip(lex, c)
    BY <1>3 DEF Lex
  <2>2. Specified(doc, c) = Plain(doc, c)
    BY <1>1, <1>3 DEF Specified, EndsName, White, Word
  <2>3. Between(lex, doc, c)
    BY <1>1, ReadingBetween DEF Strings
  <2> QED
    BY <1>1, <1>2, <2>1, <2>2, <2>3, SkipStep DEF Follows
<1>4. CASE c \notin EndsName
  <2>1. c \in Word
    BY <1>4 DEF Reading, Usual
  <2>2. Lex(lex, c) = lex /\ Specified(doc, c) = doc
    BY <1>1, <1>4, <2>1 DEF Lex, Specified
  <2> QED
    BY <1>2, <2>2 DEF Follows, Reading
<1> QED
    BY <1>3, <1>4

(* The last characters of a comment.                                       *)
LEMMA SeenFacts ==
    /\ <<>> \in Seq({"*", "-"}) /\ <<"*">> \in Seq({"*", "-"}) /\ <<"*", "-">> \in Seq({"*", "-"})
    /\ <<"*">> # <<>> /\ <<"*", "-">> # <<>> /\ <<"*", "-">> # <<"*">>
    /\ \A c : <<>> \o <<c>> # <<"*", "-", "-">>
    /\ \A c : <<"*">> \o <<c>> # <<"*", "-", "-">>
    /\ \A c : <<"*", "-">> \o <<c>> = <<"*", "-", "-">> <=> c = "-"
<1>1. <<>> \in Seq({"*", "-"}) /\ <<"*">> \in Seq({"*", "-"}) /\ <<"*", "-">> \in Seq({"*", "-"})
    OBVIOUS
<1>2. <<"*">> # <<>> /\ <<"*", "-">> # <<>> /\ <<"*", "-">> # <<"*">>
  <2>1. Len(<<>>) = 0 /\ Len(<<"*">>) = 1 /\ Len(<<"*", "-">>) = 2
    OBVIOUS
  <2> QED
    BY <2>1
<1>3. ASSUME NEW c  PROVE  <<>> \o <<c>> # <<"*", "-", "-">>
  <2>1. Len(<<>> \o <<c>>) = 1 /\ Len(<<"*", "-", "-">>) = 3
    OBVIOUS
  <2> QED
    BY <2>1
<1>4. ASSUME NEW c  PROVE  <<"*">> \o <<c>> # <<"*", "-", "-">>
  <2>1. Len(<<"*">> \o <<c>>) = 2 /\ Len(<<"*", "-", "-">>) = 3
    OBVIOUS
  <2> QED
    BY <2>1
<1>5. ASSUME NEW c  PROVE  <<"*", "-">> \o <<c>> = <<"*", "-", "-">> <=> c = "-"
  <2> DEFINE S == {"*", "-", c}
             s == <<"*", "-">> \o <<c>>
             t == <<"*", "-", "-">>
  <2>1. <<"*", "-">> \in Seq(S) /\ <<c>> \in Seq(S) /\ Len(<<"*", "-">>) = 2 /\ Len(<<c>>) = 1
    OBVIOUS
  <2>2. s \in Seq(S) /\ Len(s) = 2 + 1
        /\ \A i \in 1 .. 2 + 1 : s[i] = IF i <= 2 THEN <<"*", "-">>[i] ELSE <<c>>[i - 2]
    BY <2>1, ConcatProperties
  <2>3. Len(s) = 3 /\ s[1] = "*" /\ s[2] = "-" /\ s[3] = c
    BY <2>2
  <2>4. t \in Seq(S) /\ Len(t) = 3 /\ t[1] = "*" /\ t[2] = "-" /\ t[3] = "-"
    OBVIOUS
  <2> HIDE DEF s, t
  <2>5. c = "-" => s = t
    <3>1. ASSUME c = "-"  PROVE  \A i \in 1 .. 3 : s[i] = t[i]
      BY <2>3, <2>4, <3>1
    <3> QED
      BY <2>2, <2>3, <2>4, <3>1
  <2>6. s = t => c = "-"
    BY <2>3, <2>4
  <2> QED
    BY <2>5, <2>6 DEF s, t
<1> QED
    BY <1>1, <1>2, <1>3, <1>4, <1>5

(* In a comment: after one dash, in a line and in a block.                 *)
LEMMA CommentStep ==
    ASSUME NEW c, Reading(c), lex.at \in {"dash", "dashes", "line", "block", "star", "stardash"}
    PROVE  Follows(c)
<1>1. /\ lex \in LexType /\ doc \in DocType /\ Brackets(lex.parencount, doc.open)
      /\ lex.text = <<>> /\ doc.text = <<>> /\ Settled(lex, doc)
      /\ doc.at # "block" => doc.seen = <<>>
    BY DEF Reading, InStep, Places, Strings
<1>2. doc.at \in {"dash", "dashes", "line", "block"}
    BY DEF Reading, InStep, Places
<1>3. ~Due(doc, c) /\ ~Inserts(lex, c)
    BY <1>2, NothingDue DEF Inserts
<1>4. ASSUME NEW a, NEW b, NEW seen,
             Lex(lex, c) = [lex EXCEPT !.at = a],
             Specified(doc, c) = [doc EXCEPT !.at = b, !.seen = seen],
             \/ a = b /\ a \in {"dashes", "line", "code"} /\ seen = <<>>
             \/ a = "token" /\ b = "code" /\ seen = <<>>
             \/ a = "block" /\ b = "block" /\ seen = <<>>
             \/ a = "star" /\ b = "block" /\ seen = <<"*">>
             \/ a = "stardash" /\ b = "block" /\ seen = <<"*", "-">>
      PROVE  Follows(c)
  <2> DEFINE k == [lex EXCEPT !.at = a]
             e == [doc EXCEPT !.at = b, !.seen = seen]
  <2>0. a \in LexAt \ Strings /\ b \in DocAt \ Strings /\ seen \in Seq({"*", "-"})
    BY <1>4, SeenFacts DEF LexAt, DocAt, Strings
  <2>1. k \in LexType /\ k.at = a /\ k.parencount = lex.parencount /\ k.text = <<>>
    BY <1>1, <2>0 DEF LexType
  <2>2. e \in DocType /\ e.at = b /\ e.open = doc.open /\ e.text = <<>> /\ e.seen = seen
        /\ e.last = doc.last
    BY <1>1, <2>0 DEF DocType
  <2>3. Lex(lex, c) = k /\ Specified(doc, c) = e
    BY <1>4
  <2> HIDE DEF k, e
  <2>4. Settled(k, e)
    BY <1>1, <2>1, <2>2 DEF Settled
  <2>5. Places(k, e) /\ (b # "block" => seen = <<>>)
    BY <1>4, <2>1, <2>2, <2>4 DEF Places
  <2>6. InStep(k, e)
    BY <1>1, <2>0, <2>1, <2>2, <2>5 DEF InStep, Strings
  <2> QED
    BY <1>3, <2>3, <2>6 DEF Follows
<1>5. doc = [doc EXCEPT !.at = doc.at, !.seen = doc.seen]
    BY <1>1 DEF DocType
<1>6. CASE lex.at = "dash"
  <2>1. doc.at = "dash"
    BY <1>6 DEF Reading, InStep, Places
  <2>2. c \in {"-", "0"}
    BY <2>1 DEF Reading, Legal
  <2>3. CASE c = "-"
    <3>1. Lex(lex, c) = [lex EXCEPT !.at = "dashes"]
      BY <1>6, <2>3 DEF Lex
    <3>2. Specified(doc, c) = [doc EXCEPT !.at = "dashes"]
      BY <2>1, <2>3 DEF Specified
    <3>3. Specified(doc, c) = [doc EXCEPT !.at = "dashes", !.seen = <<>>]
      BY <1>1, <2>1, <3>2 DEF DocType
    <3> QED
      BY <1>4, <3>1, <3>3
  <2>4. CASE c = "0"
    <3> DEFINE k == [lex EXCEPT !.at = "code"]
               e == [doc EXCEPT !.last = "none"]
    <3>1. Lex(lex, c) = Skip(k, c)
      BY <1>6, <2>4 DEF Lex
    <3>2. Specified(doc, c) = Plain(e, c)
      BY <2>1, <2>4 DEF Specified
    <3>3. k \in LexType /\ k.parencount = lex.parencount /\ k.text = <<>>
      BY <1>1 DEF LexType, LexAt
    <3>4. e \in DocType /\ e.open = doc.open /\ e.text = <<>> /\ e.seen = <<>> /\ e.last = "none"
      BY <1>1, <2>1 DEF DocType, LastToken
    <3> HIDE DEF k, e
    <3>5. Between(k, e, c)
      BY <1>1, <2>4, <3>3, <3>4 DEF Between, Char, Word, Closing
    <3>6. Settled(k, e)
      BY <3>4 DEF Settled
    <3> QED
      BY <1>3, <3>1, <3>2, <3>5, <3>6, SkipStep DEF Follows
  <2> QED
    BY <2>2, <2>3, <2>4
<1>7. CASE lex.at \in {"dashes", "line"}
  <2>1. doc.at = lex.at /\ doc.seen = <<>>
    BY <1>7 DEF Reading, InStep, Places
  <2>2. ~(lex.at = "dashes" /\ c = "nl")
    BY <2>1 DEF Reading, Usual
  <2> DEFINE a == IF lex.at = "dashes" /\ c = "*" THEN "block" ELSE IF c = "nl" THEN "code" ELSE "line"
  <2>3. Lex(lex, c) = [lex EXCEPT !.at = a]
    BY <1>7, <2>2 DEF Lex, LineComment
  <2>4. Specified(doc, c) = [doc EXCEPT !.at = a]
    BY <1>7, <2>1, <2>2 DEF Specified
  <2>5. Specified(doc, c) = [doc EXCEPT !.at = a, !.seen = <<>>]
    BY <1>1, <2>1, <2>4 DEF DocType
  <2>6. a \in {"block", "code", "line"}
    OBVIOUS
  <2> HIDE DEF a
  <2> QED
    BY <1>4, <2>3, <2>5, <2>6
<1>8. CASE lex.at \in {"block", "star", "stardash"}
  <2>1. doc.at = "block" /\ Lex(lex, c) = BlockComment(lex, c)
    BY <1>8 DEF Reading, InStep, Places, Lex
  <2>2. Specified(doc, c) =
           IF doc.seen \o <<c>> = <<"*", "-", "-">> THEN [doc EXCEPT !.at = "code", !.seen = <<>>]
           ELSE [doc EXCEPT !.seen = CASE c = "*" -> <<"*">>
                                       [] c = "-" /\ doc.seen = <<"*">> -> <<"*", "-">>
                                       [] OTHER -> <<>>]
    BY <2>1 DEF Specified
  <2>3. ASSUME NEW seen, Specified(doc, c) = [doc EXCEPT !.seen = seen]
        PROVE  Specified(doc, c) = [doc EXCEPT !.at = "block", !.seen = seen]
    BY <1>1, <2>1, <2>3 DEF DocType
  <2>4. doc.seen # <<>> => c # "*"
    BY <2>1 DEF Reading, Usual
  <2>5. CASE lex.at = "block"
    <3>1. doc.seen = <<>>
      BY <2>5 DEF Reading, InStep, Places
    <3>2. doc.seen \o <<c>> # <<"*", "-", "-">>
      BY <3>1, SeenFacts
    <3>3. CASE c = "*"
      <4>1. Lex(lex, c) = [lex EXCEPT !.at = "star"]
        BY <2>1, <2>5, <3>3 DEF BlockComment
      <4>2. Specified(doc, c) = [doc EXCEPT !.at = "block", !.seen = <<"*">>]
        BY <2>2, <2>3, <3>2, <3>3
      <4> QED
        BY <1>4, <4>1, <4>2
    <3>4. CASE c # "*"
      <4>1. Lex(lex, c) = [lex EXCEPT !.at = "block"]
        BY <2>1, <2>5, <3>4 DEF BlockComment
      <4>2. Specified(doc, c) = [doc EXCEPT !.at = "block", !.seen = <<>>]
        BY <2>2, <2>3, <3>1, <3>2, <3>4, SeenFacts
      <4> QED
        BY <1>4, <4>1, <4>2
    <3> QED
      BY <3>3, <3>4
  <2>6. CASE lex.at = "star"
    <3>1. doc.seen = <<"*">> /\ c # "*"
      <4>1. doc.seen = <<"*">>
        BY <2>6 DEF Reading, InStep, Places
      <4> QED
        BY <2>4, <4>1, SeenFacts
    <3>2. doc.seen \o <<c>> # <<"*", "-", "-">>
      BY <3>1, SeenFacts
    <3>3. CASE c = "-"
      <4>1. Lex(lex, c) = [lex EXCEPT !.at = "stardash"]
        BY <2>1, <2>6, <3>3 DEF BlockComment
      <4>2. Specified(doc, c) = [doc EXCEPT !.at = "block", !.seen = <<"*", "-">>]
        BY <2>2, <2>3, <3>1, <3>2, <3>3
      <4> QED
        BY <1>4, <4>1, <4>2
    <3>4. CASE c # "-"
      <4>1. Lex(lex, c) = [lex EXCEPT !.at = "block"]
        BY <2>1, <2>6, <3>4 DEF BlockComment
      <4>2. Specified(doc, c) = [doc EXCEPT !.at = "block", !.seen = <<>>]
        BY <2>2, <2>3, <3>1, <3>2, <3>4
      <4> QED
        BY <1>4, <4>1, <4>2
    <3> QED
      BY <3>3, <3>4
  <2>7. CASE lex.at = "stardash"
    <3>1. doc.seen = <<"*", "-">> /\ c # "*"
      <4>1. doc.seen = <<"*", "-">>
        BY <2>7 DEF Reading, InStep, Places
      <4> QED
        BY <2>4, <4>1, SeenFacts
    <3>2. CASE c = "-"
      <4>1. Lex(lex, c) = [lex EXCEPT !.at = "token"]
        BY <2>1, <2>7, <3>2 DEF BlockComment
      <4>2. doc.seen \o <<c>> = <<"*", "-", "-">>
        BY <3>1, <3>2, SeenFacts
      <4>3. Specified(doc, c) = [doc EXCEPT !.at = "code", !.seen = <<>>]
        BY <2>2, <4>2
      <4> QED
        BY <1>4, <4>1, <4>3
    <3>3. CASE c # "-"
      <4>1. Lex(lex, c) = [lex EXCEPT !.at = "block"]
        BY <2>1, <2>7, <3>3 DEF BlockComment
      <4>2. doc.seen \o <<c>> # <<"*", "-", "-">>
        BY <3>1, <3>3, SeenFacts
      <4>3. Specified(doc, c) = [doc EXCEPT !.at = "block", !.seen = <<>>]
        BY <2>2, <2>3, <3>1, <3>3, <4>2, SeenFacts
      <4> QED
        BY <1>4, <4>1, <4>3
    <3> QED
      BY <3>2, <3>3
  <2> QED
    BY <1>8, <2>5, <2>6, <2>7
<1> QED
    BY <1>6, <1>7, <1>8

(* In a string, and after a quote that may have ended it.                  *)
LEMMA StringStep ==
    ASSUME NEW c, Reading(c), lex.at \in Strings
    PROVE  Follows(c)
<1>1. /\ lex \in LexType /\ doc \in DocType /\ Brackets(lex.parencount, doc.open)
      /\ lex.text = doc.text /\ doc.at = lex.at /\ doc.seen = <<>> /\ doc.at # "code"
      /\ doc.text \in Text /\ c \in Char
    BY DEF Reading, InStep, Places, Strings, DocType
<1>2. ~Due(doc, c) /\ ~Inserts(lex, c)
    BY <1>1, NothingDue DEF Inserts, Strings
<1>3. Lex(lex, c) = String(lex, c) /\ Specified(doc, c) = Quoted(doc, c)
    BY <1>1 DEF Lex, Specified, Strings
<1>4. ASSUME NEW a \in Strings, NEW text \in Text,
             Lex(lex, c) = [lex EXCEPT !.at = a, !.text = text],
             Specified(doc, c) = [doc EXCEPT !.at = a, !.text = text]
      PROVE  Follows(c)
  <2> DEFINE k == [lex EXCEPT !.at = a, !.text = text]
             e == [doc EXCEPT !.at = a, !.text = text]
  <2>1. k \in LexType /\ k.at = a /\ k.parencount = lex.parencount /\ k.text = text
    BY <1>1 DEF LexType, LexAt, Strings
  <2>2. e \in DocType /\ e.at = a /\ e.open = doc.open /\ e.text = text /\ e.seen = <<>>
    BY <1>1 DEF DocType, DocAt, Strings
  <2>3. Lex(lex, c) = k /\ Specified(doc, c) = e
    BY <1>4
  <2> HIDE DEF k, e
  <2> QED
    BY <1>1, <1>2, <2>1, <2>2, <2>3 DEF Follows, InStep, Places, Strings
<1>5. ASSUME NEW x \in Char \cup {"byte"}  PROVE  Append(doc.text, x) \in Text
    BY <1>1 DEF Text
<1>6. CASE lex.at = "string" /\ c # "\""
  <2>1. Lex(lex, c) = [lex EXCEPT !.text = Append(@, c)]
    BY <1>3, <1>6 DEF String
  <2>2. Specified(doc, c) = [doc EXCEPT !.text = Append(@, c)]
    BY <1>1, <1>3, <1>6 DEF Quoted
  <2>3. Lex(lex, c) = [lex EXCEPT !.at = "string", !.text = Append(doc.text, c)]
    BY <1>1, <1>6, <2>1 DEF LexType
  <2>4. Specified(doc, c) = [doc EXCEPT !.at = "string", !.text = Append(doc.text, c)]
    BY <1>1, <1>6, <2>2 DEF DocType
  <2>5. Append(doc.text, c) \in Text /\ "string" \in Strings
    BY <1>1, <1>5 DEF Strings
  <2> QED
    BY <1>4, <2>3, <2>4, <2>5
<1>7. CASE lex.at = "string" /\ c = "\""
  <2>1. Lex(lex, c) = [lex EXCEPT !.at = "quote"]
    BY <1>3, <1>7 DEF String
  <2>2. Specified(doc, c) = [doc EXCEPT !.at = "quote"]
    BY <1>1, <1>3, <1>7 DEF Quoted
  <2>3. Lex(lex, c) = [lex EXCEPT !.at = "quote", !.text = doc.text]
    BY <1>1, <2>1 DEF LexType
  <2>4. Specified(doc, c) = [doc EXCEPT !.at = "quote", !.text = doc.text]
    BY <1>1, <2>2 DEF DocType
  <2>5. "quote" \in Strings
    BY DEF Strings
  <2> QED
    BY <1>1, <1>4, <2>3, <2>4, <2>5
<1>8. CASE lex.at \in {"quote", "bytes"} /\ c = "@"
  <2>1. Lex(lex, c) = [lex EXCEPT !.at = "bytes", !.text = Append(@, "byte")]
    BY <1>3, <1>8 DEF String
  <2>2. Specified(doc, c) = [doc EXCEPT !.at = "bytes", !.text = Append(@, "byte")]
    BY <1>1, <1>3, <1>8 DEF Quoted
  <2>3. Lex(lex, c) = [lex EXCEPT !.at = "bytes", !.text = Append(doc.text, "byte")]
    BY <1>1, <2>1 DEF LexType
  <2>4. Specified(doc, c) = [doc EXCEPT !.at = "bytes", !.text = Append(doc.text, "byte")]
    BY <1>1, <2>2 DEF DocType
  <2>5. Append(doc.text, "byte") \in Text /\ "bytes" \in Strings
    BY <1>5 DEF Strings
  <2> QED
    BY <1>4, <2>3, <2>4, <2>5
<1>9. CASE lex.at \in {"quote", "bytes"} /\ c = "\""
  <2>1. doc.at = "bytes"
    BY <1>1, <1>9 DEF Reading, Usual
  <2>2. Lex(lex, c) = [lex EXCEPT !.at = "string"]
    BY <1>3, <1>9 DEF String
  <2>3. Specified(doc, c) = [doc EXCEPT !.at = "string"]
    BY <1>3, <1>9, <2>1 DEF Quoted
  <2>4. Lex(lex, c) = [lex EXCEPT !.at = "string", !.text = doc.text]
    BY <1>1, <2>2 DEF LexType
  <2>5. Specified(doc, c) = [doc EXCEPT !.at = "string", !.text = doc.text]
    BY <1>1, <2>3 DEF DocType
  <2>6. "string" \in Strings
    BY DEF Strings
  <2> QED
    BY <1>1, <1>4, <2>4, <2>5, <2>6
<1>10. CASE lex.at \in {"quote", "bytes"} /\ c \notin {"@", "\""}
  <2> DEFINE k == [lex EXCEPT !.text = <<>>]
             e == [doc EXCEPT !.text = <<>>, !.last = "string"]
  <2>1. Lex(lex, c) = Skip(k, c)
    BY <1>3, <1>10 DEF String
  <2>2. Specified(doc, c) = Plain(e, c)
    BY <1>1, <1>3, <1>10 DEF Quoted
  <2>0. <<>> \in Text
    BY DEF Text
  <2>3. k \in LexType /\ k.parencount = lex.parencount /\ k.text = <<>>
    BY <1>1, <2>0 DEF LexType
  <2>4. e \in DocType /\ e.open = doc.open /\ e.text = <<>> /\ e.seen = <<>> /\ e.last = "string"
    BY <1>1, <2>0 DEF DocType, LastToken
  <2>5. c # "*" /\ (c \in Closing => doc.open # <<>> /\ <<doc.open[1], c>> \in Pair)
    BY <1>1, <1>10 DEF Reading, Legal, Outside
  <2> HIDE DEF k, e
  <2>6. Between(k, e, c)
    BY <1>1, <1>10, <2>3, <2>4, <2>5 DEF Between
  <2>7. Settled(k, e)
    BY <2>4 DEF Settled
  <2> QED
    BY <1>2, <2>1, <2>2, <2>6, <2>7, SkipStep DEF Follows
<1> QED
    BY <1>6, <1>7, <1>8, <1>9, <1>10 DEF Strings

-----------------------------------------------------------------------------
(* The theorems are about the usual texts: on each of the odd ones         *)
(* README.md and the lexer do disagree.                                    *)

LEMMA StartsInStep == Init => IInv
<1> SUFFICES ASSUME Init  PROVE  IInv
    OBVIOUS
<1>1. lex.at = "code" /\ lex.parencount = <<0>> /\ lex.text = <<>>
    BY DEF Init
<1>2. doc.at = "code" /\ doc.open = <<>> /\ doc.text = <<>> /\ doc.seen = <<>> /\ doc.last = "none"
    BY DEF Init
<1>3. lex \in LexType /\ doc \in DocType
    BY DEF Init, LexType, DocType, LexAt, DocAt, Text, LastToken
<1>4. Brackets(<<0>>, <<>>)
  <2>1. <<>> \in Seq(Opening) /\ Len(<<>>) = 0 /\ Len(<<0>>) = 1 /\ <<0>>[1] = 0
    OBVIOUS
  <2>2. BraceSet(<<>>, 1) = {} /\ ParenSet(<<>>, 0) = {}
    BY <2>1 DEF BraceSet, ParenSet
  <2>3. Braces(<<>>, 1) = 0 /\ Parens(<<>>, 0) = 0
    <3>1. Braces(<<>>, 1) = Cardinality(BraceSet(<<>>, 1))
      BY DEF Braces, BraceSet
    <3>2. Parens(<<>>, 0) = Cardinality(ParenSet(<<>>, 0))
      BY DEF Parens, ParenSet
    <3> QED
      BY <2>2, <3>1, <3>2, FS_EmptySet
  <2> QED
    BY <2>1, <2>3 DEF Brackets
<1> QED
    BY <1>1, <1>2, <1>3, <1>4 DEF Init, IInv, InStep, Places, Settled, Strings

LEMMA StaysInStep ==
    ASSUME Odd = {}
    PROVE  IInv /\ [Next]_vars => IInv'
<1> SUFFICES ASSUME IInv, [Next]_vars  PROVE  IInv'
    OBVIOUS
<1>1. CASE Next
  <2>1. PICK c \in Char : Read(c)
    BY <1>1 DEF Next
  <2>2. Reading(c)
    BY <2>1 DEF Reading, IInv, Read
  <2>3. lex.at \in LexAt
    BY DEF IInv, InStep, LexType
  <2>4. Follows(c)
    BY <2>2, <2>3, CodeStep, GapStep, NameStep, CommentStep, StringStep DEF LexAt, Strings
  <2>5. lex' = Lex(lex, c) /\ doc' = Specified(doc, c)
        /\ comma' = Inserts(lex, c) /\ due' = Due(doc, c)
    BY <2>1 DEF Read
  <2>6. comma' = due'
    <3>1. Inserts(lex, c) \in BOOLEAN /\ Due(doc, c) \in BOOLEAN
      BY DEF Inserts, Due
    <3> QED
      BY <2>4, <2>5, <3>1 DEF Follows
  <2>7. InStep(lex', doc')
    BY <2>4, <2>5 DEF Follows
  <2> QED
    BY <2>6, <2>7 DEF IInv
<1>2. CASE UNCHANGED vars
    BY <1>2 DEF IInv, vars
<1> QED
    BY <1>1, <1>2

LEMMA AlwaysInStep ==
    ASSUME Odd = {}
    PROVE  Spec => []IInv
<1>1. IInv /\ [Next]_vars => IInv'
    BY StaysInStep
<1> QED
    BY <1>1, StartsInStep, PTL DEF Spec

(* Comments, strings and names begin and end where README.md:25-33 says,   *)
(* whatever is in them and however deep they are nested.                   *)
THEOREM TokensInStep ==
    ASSUME Odd = {}
    PROVE  Spec => []TokensAsSpecified
<1>1. IInv => TokensAsSpecified
    BY DEF IInv, InStep, Places, TokensAsSpecified, Kind
<1> QED
    BY <1>1, AlwaysInStep, PTL

(* A string has the characters and the bytes of README.md:25.              *)
THEOREM TextsInStep ==
    ASSUME Odd = {}
    PROVE  Spec => []TextsAsSpecified
<1>1. IInv => TextsAsSpecified
    BY DEF IInv, InStep, TextsAsSpecified
<1> QED
    BY <1>1, AlwaysInStep, PTL

(* Commas are inserted where README.md:49 wants them, and nowhere else:    *)
(* one count for every block that is open is enough for the lexer.         *)
THEOREM CommasInStep ==
    ASSUME Odd = {}
    PROVE  Spec => []CommasAsSpecified
<1>1. IInv => CommasAsSpecified
    BY DEF IInv, CommasAsSpecified
<1> QED
    BY <1>1, AlwaysInStep, PTL

=============================================================================
