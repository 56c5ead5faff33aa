---------------------------- MODULE ReaderProofs ----------------------------
(***************************************************************************)
(* Theorems about Reader, for all files, texts and depths of imports: the  *)
(* lexer's and the parser's lists stay in step, no statement is lost,      *)
(* listed twice, put before an earlier one or evaluated twice, and a block *)
(* has the statements inside it.                                           *)
(***************************************************************************)
EXTENDS Reader, SequenceTheorems, FiniteSetTheorems, TLAPS

File == DOMAIN Texts
StatementType == [nth : Nat \ {0}, pos : Nat \ {0}]
InputType == [file : File, nth : Nat \ {0}, pos : Nat \ {0}]
ContextType == [list : Nat, funcall : Seq(StatementType)]

TypeOK ==
    /\ repl \in BOOLEAN
    /\ \A f \in File : disk[f] \in Texts[f]
    /\ yyin \in Seq(InputType) /\ yyin # <<>>
    /\ buffernames \in Seq(File)
    /\ opened \in Seq(File)
    /\ lists \in Seq(Seq(StatementType))
    /\ parseTreeList \in Seq(1 .. Len(lists))
    /\ parser \in Seq(ContextType) /\ parser # <<>>
    /\ modules \in Seq([prefix : File, data : 1 .. Len(lists)])
    /\ blocks \subseteq [of : StatementType, list : 1 .. Len(lists)]
    /\ evaluated \in Seq(StatementType)

(* Where reading is: an input was opened after the one it interrupts, and  *)
(* is that of the import named beside it.                                  *)
InputsOpened ==
    /\ \A i \in 1 .. Len(yyin) :
         /\ yyin[i].nth <= Len(opened) /\ opened[yyin[i].nth] = yyin[i].file
         /\ yyin[i].pos <= Len(disk[yyin[i].file]) + 1
    /\ \A i, j \in 1 .. Len(yyin) : i < j => yyin[i].nth > yyin[j].nth
    /\ Len(buffernames) = Len(yyin) - 1
    /\ \A i \in 1 .. Len(buffernames) : yyin[i].file = buffernames[i]

(* The parser has a context for every block that is open where the         *)
(* innermost input is read; the others were left outside of blocks.        *)
BlocksOpen ==
    /\ Len(parser) - 1 = Depth(disk[Here.file], Here.pos - 1)
    /\ \A i \in 2 .. Len(yyin) : Depth(disk[yyin[i].file], yyin[i].pos - 1) = 0

(* A call waits in the innermost context only, which has a list or a call  *)
(* unless its block was just opened.                                       *)
Waiting ==
    /\ \A i \in 2 .. Len(parser) : parser[i].funcall = Nothing
    /\ Pending => Len(parser[1].funcall) = 1
    /\ Len(parser) > 1 /\ ~Pending /\ parser[1].list = None =>
         Here.pos > 1 /\ disk[Here.file][Here.pos - 1] = Open

(* The first n contexts that have a list.                                  *)
Listing(p, n) == {i \in 1 .. n : p[i].list # None}

(* The lists in front are those of the blocks that are open; there is one  *)
(* for each other context that has one, and for each import.               *)
ListsInStep ==
    /\ Len(parseTreeList) = Len(yyin) - 1 + Cardinality(Listing(parser, Len(parser)))
    /\ \A i \in 1 .. Len(parser) - 1 : parser[i].list # None =>
         parser[i].list = parseTreeList[Cardinality(Listing(parser, i))]

(* A list is being built, or was kept for a module or a block.             *)
ListsKept ==
    /\ \A i, j \in 1 .. Len(parseTreeList) : i < j => parseTreeList[i] > parseTreeList[j]
    /\ ~repl => 1 .. Len(lists) \subseteq InUse

(* Statement s was read.                                                   *)
IsRead(s) ==
    /\ s \in StatementType /\ s.nth <= Len(opened)
    /\ s.pos <= Len(disk[opened[s.nth]]) /\ disk[opened[s.nth]][s.pos] \in {Call, Close}
    /\ \A i \in 1 .. Len(yyin) : yyin[i].nth = s.nth => s.pos < yyin[i].pos

Awaited(s) == parser[1].funcall = <<s>>
InList(l, s) == \E i \in 1 .. Len(lists[l]) : lists[l][i] = s

ListedRead ==
    /\ \A l \in 1 .. Len(lists) : \A i \in 1 .. Len(lists[l]) : IsRead(lists[l][i])
    /\ \A s \in StatementType : Awaited(s) => IsRead(s)
ReadListed ==
    ~repl => \A s : IsRead(s) => Awaited(s) \/ \E l \in 1 .. Len(lists) : InList(l, s)
ListsApart ==
    \A l, k \in 1 .. Len(lists) : l # k => \A s : ~(InList(l, s) /\ InList(k, s))
AwaitedLast ==
    \A s \in StatementType : Awaited(s) =>
        \A l \in 1 .. Len(lists) : \A i \in 1 .. Len(lists[l]) :
            lists[l][i].nth = s.nth => lists[l][i].pos < s.pos

Statements == ListedRead /\ ReadListed /\ ListsApart /\ AwaitedLast /\ OrderKept

EvaluatedRead ==
    /\ \A i \in 1 .. Len(evaluated) : IsRead(evaluated[i])
    /\ ~repl => \A i \in 1 .. Len(evaluated) :
         \E l \in 1 .. Len(lists) : InList(l, evaluated[i]) /\ \A j \in 1 .. Len(parseTreeList) : parseTreeList[j] # l
    /\ \A i, j \in 1 .. Len(evaluated) : evaluated[i] = evaluated[j] => i = j
    /\ repl =>
         /\ \A s : IsRead(s) => \E i \in 1 .. Len(evaluated) : evaluated[i] = s
         /\ \A i, j \in 1 .. Len(evaluated) :
              i < j /\ evaluated[i].nth = evaluated[j].nth => evaluated[i].pos < evaluated[j].pos

IInv ==
    /\ TypeOK
    /\ InputsOpened /\ BlocksOpen /\ Waiting
    /\ ListsInStep /\ ListsKept
    /\ Statements /\ EvaluatedRead

-----------------------------------------------------------------------------
(* Counting.                                                               *)

Count(text, x, k) == Cardinality({j \in 1 .. k : text[j] = x})

LEMMA CountNext ==
  ASSUME NEW text, NEW x, NEW i \in Nat \ {0}
  PROVE  /\ Count(text, x, i) = Count(text, x, i - 1) + IF text[i] = x THEN 1 ELSE 0
         /\ Count(text, x, i) \in Nat /\ Count(text, x, i - 1) \in Nat
<1> DEFINE S(k) == {j \in 1 .. k : text[j] = x}
<1>1. \A k \in Nat : IsFiniteSet(S(k)) /\ Cardinality(S(k)) \in Nat
  <2> SUFFICES ASSUME NEW k \in Nat PROVE IsFiniteSet(S(k)) /\ Cardinality(S(k)) \in Nat
    OBVIOUS
  <2>1. IsFiniteSet(1 .. k)
    BY FS_Interval
  <2>2. IsFiniteSet(S(k))
    BY <2>1, FS_Subset
  <2> QED  BY <2>2, FS_CardinalityType
<1>2. i - 1 \in Nat /\ i \notin S(i - 1)
  OBVIOUS
<1>3. S(i) = IF text[i] = x THEN S(i - 1) \cup {i} ELSE S(i - 1)
  OBVIOUS
<1>4. Cardinality(S(i - 1) \cup {i}) = Cardinality(S(i - 1)) + 1
  BY <1>1, <1>2, FS_AddElement
<1>5. \A k : Count(text, x, k) = Cardinality(S(k))
  BY DEF Count
<1>6. i \in Nat /\ i - 1 \in Nat
  OBVIOUS
<1> HIDE DEF S
<1>7. /\ Cardinality(S(i)) \in Nat /\ Cardinality(S(i - 1)) \in Nat
      /\ Count(text, x, i) = Cardinality(S(i)) /\ Count(text, x, i - 1) = Cardinality(S(i - 1))
  BY <1>1, <1>5, <1>6
<1>8. CASE text[i] = x
  BY <1>3, <1>4, <1>7, <1>8
<1>9. CASE text[i] # x
  BY <1>3, <1>7, <1>9
<1> QED  BY <1>8, <1>9

LEMMA ItemKinds ==
  /\ Open # Close /\ Call # Open /\ Call # Close
  /\ \A x \in Item :
       /\ x.item \in {"call", "open", "close", "import"}
       /\ x.item = "call" <=> x = Call
       /\ x.item = "open" <=> x = Open
       /\ x.item = "close" <=> x = Close
       /\ x.item = "import" => x.file \in DOMAIN Texts
<1>1. Open # Close /\ Call # Open /\ Call # Close
  <2>1. Open.item # Close.item /\ Call.item # Open.item /\ Call.item # Close.item
    BY DEF Open, Close, Call
  <2> QED  BY <2>1
<1>2. Call.item = "call" /\ Open.item = "open" /\ Close.item = "close"
  BY DEF Call, Open, Close
<1>3. \A f : Percent(f).item = "import" /\ Percent(f).file = f
  BY DEF Percent
<1> QED  BY <1>1, <1>2, <1>3 DEF Item

LEMMA DepthNext ==
  ASSUME NEW text \in Seq(Item), NEW i \in Nat \ {0}
  PROVE  /\ Depth(text, i - 1) \in Int /\ Depth(text, i) \in Int
         /\ text[i] = Open => Depth(text, i) = Depth(text, i - 1) + 1
         /\ text[i] = Close => Depth(text, i) = Depth(text, i - 1) - 1
         /\ text[i] # Open /\ text[i] # Close => Depth(text, i) = Depth(text, i - 1)
<1>1. \A k : Depth(text, k) = Count(text, Open, k) - Count(text, Close, k)
  BY DEF Depth, Count
<1>2. /\ Count(text, Open, i) = Count(text, Open, i - 1) + IF text[i] = Open THEN 1 ELSE 0
      /\ Count(text, Open, i) \in Nat /\ Count(text, Open, i - 1) \in Nat
  BY CountNext
<1>3. /\ Count(text, Close, i) = Count(text, Close, i - 1) + IF text[i] = Close THEN 1 ELSE 0
      /\ Count(text, Close, i) \in Nat /\ Count(text, Close, i - 1) \in Nat
  BY CountNext
<1>4. Open # Close
  BY ItemKinds
<1> QED  BY <1>1, <1>2, <1>3, <1>4

LEMMA DepthZero ==
  ASSUME NEW text PROVE Depth(text, 0) = 0
<1>1. {j \in 1 .. 0 : text[j] = Open} = {} /\ {j \in 1 .. 0 : text[j] = Close} = {}
  OBVIOUS
<1> QED  BY <1>1, FS_EmptySet DEF Depth

(* What TextsWellFormed says of the text of a file on disk.                *)
LEMMA DiskFacts ==
  ASSUME TypeOK, NEW f \in File
  PROVE  /\ disk[f] \in Seq(Item) /\ Len(disk[f]) \in Nat
         /\ \A i \in 1 .. Len(disk[f]) : disk[f][i] \in Item
         /\ Depth(disk[f], Len(disk[f])) = 0
         /\ \A i \in 1 .. Len(disk[f]) :
              /\ Depth(disk[f], i) >= 0
              /\ disk[f][i].item = "import" => Depth(disk[f], i) = 0
              /\ disk[f][i] = Open => i < Len(disk[f]) /\ disk[f][i + 1] # Close
<1>1. disk[f] \in Seq(Item)
  BY TextsWellFormed DEF TypeOK, File
<1>2. Len(disk[f]) \in Nat /\ \A i \in 1 .. Len(disk[f]) : disk[f][i] \in Item
  BY <1>1, LenProperties, ElementOfSeq
<1> QED  BY <1>1, <1>2, TextsWellFormed DEF TypeOK, File

(* The contexts that have a list, as the parser's stack grows and shrinks. *)
LEMMA ListingFinite ==
  ASSUME NEW p, NEW n \in Nat
  PROVE  IsFiniteSet(Listing(p, n)) /\ Cardinality(Listing(p, n)) \in Nat
<1>1. IsFiniteSet(1 .. n)
  BY FS_Interval
<1>2. IsFiniteSet(Listing(p, n))
  BY <1>1, FS_Subset DEF Listing
<1> QED  BY <1>2, FS_CardinalityType

LEMMA ListingCons ==
  ASSUME NEW p, NEW q, NEW n \in Nat, \A i \in 1 .. n : q[i + 1].list = p[i].list
  PROVE  Cardinality(Listing(q, n + 1)) =
           Cardinality(Listing(p, n)) + IF q[1].list = None THEN 0 ELSE 1
<1> DEFINE S == Listing(p, n)
           T == {i \in 2 .. n + 1 : q[i].list # None}
           f == [i \in S |-> i + 1]
<1>1. IsFiniteSet(S) /\ Cardinality(S) \in Nat
  BY ListingFinite
<1>2. f \in Bijection(S, T)
  <2>1. f \in [S -> T]
    BY DEF Listing
  <2>2. IsInjective(f)
    BY DEF IsInjective, Listing
  <2>3. ASSUME NEW t \in T PROVE \E s \in S : f[s] = t
    <3>1. t - 1 \in 1 .. n /\ (t - 1) + 1 = t
      OBVIOUS
    <3>2. t - 1 \in S
      BY <3>1 DEF Listing
    <3> QED  BY <3>1, <3>2
  <2> QED  BY <2>1, <2>2, <2>3 DEF Bijection, Injection, Surjection
<1>3. IsFiniteSet(T) /\ Cardinality(T) = Cardinality(S)
  BY <1>1, <1>2, FS_Bijection DEF ExistsBijection
<1>4. Listing(q, n + 1) = IF q[1].list = None THEN T ELSE T \cup {1}
  BY DEF Listing
<1>5. Cardinality(T \cup {1}) = Cardinality(T) + 1
  BY <1>3, FS_AddElement
<1> HIDE DEF S, T
<1> QED  BY <1>1, <1>3, <1>4, <1>5 DEF S

LEMMA ListingSame ==
  ASSUME NEW p, NEW q, NEW n \in Nat, \A i \in 1 .. n : q[i].list # None <=> p[i].list # None
  PROVE  Listing(q, n) = Listing(p, n)
BY DEF Listing

(* Consing and taking the first off, for any sequence.                     *)
LEMMA ConsFacts ==
  ASSUME NEW S, NEW s \in Seq(S), NEW x \in S
  PROVE  /\ <<x>> \o s \in Seq(S) /\ <<x>> \o s # <<>>
         /\ Len(s) \in Nat /\ Len(<<x>> \o s) = Len(s) + 1
         /\ (<<x>> \o s)[1] = x
         /\ \A i \in 1 .. Len(s) : (<<x>> \o s)[i + 1] = s[i]
<1>1. <<x>> \in Seq(S) /\ Len(<<x>>) = 1 /\ <<x>>[1] = x /\ Len(s) \in Nat
  BY LenProperties
<1>2. /\ <<x>> \o s \in Seq(S) /\ Len(<<x>> \o s) = 1 + Len(s)
      /\ \A i \in 1 .. 1 + Len(s) : (<<x>> \o s)[i] = IF i <= 1 THEN <<x>>[i] ELSE s[i - 1]
  BY <1>1, ConcatProperties
<1>3. \A i \in 1 .. Len(s) : (<<x>> \o s)[i + 1] = s[i]
  BY <1>1, <1>2
<1> QED  BY <1>1, <1>2, <1>3

LEMMA TailFacts ==
  ASSUME NEW S, NEW s \in Seq(S), s # <<>>
  PROVE  /\ Tail(s) \in Seq(S) /\ Len(Tail(s)) = Len(s) - 1
         /\ Len(s) \in Nat /\ Len(s) >= 1 /\ s[1] \in S
         /\ \A i \in 1 .. Len(s) - 1 : Tail(s)[i] = s[i + 1]
BY HeadTailProperties, LenProperties, EmptySeq

LEMMA SeqSubset ==
  ASSUME NEW S, NEW T, S \subseteq T, NEW s \in Seq(S)
  PROVE  s \in Seq(T)
<1>1. Len(s) \in Nat /\ \A i \in 1 .. Len(s) : s[i] \in T
  BY LenProperties, ElementOfSeq
<1>2. s = [i \in 1 .. Len(s) |-> s[i]]
  OBVIOUS
<1> QED  BY <1>1, <1>2, IsASeq

LEMMA ToSetIs ==
  ASSUME NEW S, NEW s \in Seq(S)
  PROVE  \A x : x \in ToSet(s) <=> \E i \in 1 .. Len(s) : s[i] = x
<1>1. DOMAIN s = 1 .. Len(s)
  BY LenProperties
<1> QED  BY <1>1 DEF ToSet

LEMMA ConsRange ==
  ASSUME NEW S, NEW s \in Seq(S), NEW x \in S
  PROVE  ToSet(<<x>> \o s) = ToSet(s) \cup {x}
<1> DEFINE t == <<x>> \o s
<1>1. /\ t \in Seq(S) /\ Len(s) \in Nat /\ Len(t) = Len(s) + 1 /\ t[1] = x
      /\ \A i \in 1 .. Len(s) : t[i + 1] = s[i]
  BY ConsFacts
<1> HIDE DEF t
<1>2. ASSUME NEW y, y \in ToSet(t) PROVE y \in ToSet(s) \cup {x}
  <2>1. PICK i \in 1 .. Len(t) : t[i] = y
    BY <1>1, <1>2, ToSetIs
  <2>2. CASE i = 1
    BY <1>1, <2>1, <2>2
  <2>3. CASE i # 1
    <3>1. i - 1 \in 1 .. Len(s) /\ (i - 1) + 1 = i
      BY <1>1, <2>3
    <3>2. s[i - 1] = y
      BY <1>1, <2>1, <3>1
    <3> QED  BY <3>1, <3>2, ToSetIs
  <2> QED  BY <2>2, <2>3
<1>3. ASSUME NEW y \in ToSet(s) \cup {x} PROVE y \in ToSet(t)
  <2>1. CASE y = x
    <3>1. 1 \in 1 .. Len(t) /\ t[1] = y
      BY <1>1, <2>1
    <3> QED  BY <1>1, <3>1, ToSetIs
  <2>2. CASE y \in ToSet(s)
    <3>1. PICK i \in 1 .. Len(s) : s[i] = y
      BY <2>2, ToSetIs
    <3>2. i + 1 \in 1 .. Len(t) /\ t[i + 1] = y
      BY <1>1, <3>1
    <3> QED  BY <1>1, <3>2, ToSetIs
  <2> QED  BY <1>3, <2>1, <2>2
<1>4. ToSet(t) = ToSet(s) \cup {x}
  BY <1>2, <1>3
<1> QED  BY <1>4 DEF t

LEMMA TailRange ==
  ASSUME NEW S, NEW s \in Seq(S), s # <<>>
  PROVE  /\ ToSet(s) \subseteq ToSet(Tail(s)) \cup {s[1]}
         /\ \A j \in 1 .. Len(Tail(s)) : \E i \in 1 .. Len(s) : Tail(s)[j] = s[i]
<1> DEFINE t == Tail(s)
<1>1. /\ t \in Seq(S) /\ Len(t) = Len(s) - 1 /\ Len(s) \in Nat /\ Len(s) >= 1
      /\ \A i \in 1 .. Len(s) - 1 : t[i] = s[i + 1]
  BY TailFacts
<1> HIDE DEF t
<1>2. ASSUME NEW x \in ToSet(s), x # s[1] PROVE x \in ToSet(t)
  <2>1. PICK i \in 1 .. Len(s) : s[i] = x
    BY ToSetIs
  <2>2. i - 1 \in 1 .. Len(t) /\ (i - 1) + 1 = i
    BY <1>1, <1>2, <2>1
  <2>3. t[i - 1] = x
    BY <1>1, <2>1, <2>2
  <2> QED  BY <1>1, <2>2, <2>3, ToSetIs
<1>3. ASSUME NEW j \in 1 .. Len(t) PROVE \E i \in 1 .. Len(s) : t[j] = s[i]
  <2>1. j + 1 \in 1 .. Len(s) /\ t[j] = s[j + 1]
    BY <1>1
  <2> QED  BY <2>1
<1>4. ToSet(s) \subseteq ToSet(t) \cup {s[1]}
  BY <1>2
<1> QED  BY <1>3, <1>4 DEF t

LEMMA AppendRange ==
  ASSUME NEW S, NEW s \in Seq(S), NEW x
  PROVE  ToSet(Append(s, x)) = ToSet(s) \cup {x}
<1>1. DOMAIN Append(s, x) = 1 .. Len(s) + 1 /\ DOMAIN s = 1 .. Len(s) /\ Len(s) \in Nat
  OBVIOUS
<1>2. \A i \in 1 .. Len(s) + 1 : Append(s, x)[i] = IF i = Len(s) + 1 THEN x ELSE s[i]
  OBVIOUS
<1>3. \A i \in 1 .. Len(s) : i \in 1 .. Len(s) + 1 /\ Append(s, x)[i] = s[i]
  BY <1>1, <1>2
<1>4. Len(s) + 1 \in 1 .. Len(s) + 1 /\ Append(s, x)[Len(s) + 1] = x
  BY <1>1, <1>2
<1>5. \A i \in 1 .. Len(s) + 1 : i \in 1 .. Len(s) \/ i = Len(s) + 1
  BY <1>1
<1> QED  BY <1>1, <1>3, <1>4, <1>5 DEF ToSet

LEMMA RemoveFirstIsTail ==
  ASSUME NEW S, NEW s \in Seq(S), s # <<>>
  PROVE  RemoveFirst(s, s[1]) = Tail(s)
<1>1. Len(s) \in Nat /\ Len(s) >= 1
  BY TailFacts
<1> DEFINE I == {i \in 1 .. Len(s) : s[i] = s[1]}
<1>2. 1 \in I /\ \A i \in I : 1 <= i
  BY <1>1
<1>3. I # {} /\ Min(I) = 1
  BY <1>2 DEF Min
<1>4. \E i \in 1 .. Len(s) : s[i] = s[1]
  BY <1>1
<1>5. RemoveFirst(s, s[1]) = SubSeq(s, 1, 1 - 1) \o SubSeq(s, 1 + 1, Len(s))
  BY <1>3, <1>4 DEF RemoveFirst, RemoveAt, SelectInSeq
<1>6. SubSeq(s, 1, 0) = <<>> /\ SubSeq(s, 2, Len(s)) = Tail(s)
  BY <1>1, SubSeqEmpty, TailIsSubSeq
<1> QED  BY <1>5, <1>6, TailFacts, ConcatEmptySeq

-----------------------------------------------------------------------------
(* Reading.                                                                *)

LEMMA HereFacts ==
  ASSUME TypeOK, InputsOpened
  PROVE  /\ Len(yyin) \in Nat /\ Len(yyin) >= 1 /\ Here \in InputType
         /\ \A i \in 1 .. Len(yyin) : yyin[i] \in InputType
         /\ Len(opened) \in Nat
         /\ disk[Here.file] \in Seq(Item) /\ Len(disk[Here.file]) \in Nat
         /\ opened[Here.nth] = Here.file /\ Here.nth <= Len(opened)
         /\ Here.pos <= Len(disk[Here.file]) + 1
         /\ Statement \in StatementType /\ Statement.nth = Here.nth /\ Statement.pos = Here.pos
         /\ ~Ended => Here.pos \in 1 .. Len(disk[Here.file]) /\ disk[Here.file][Here.pos] \in Item
         /\ Ended => Here.pos = Len(disk[Here.file]) + 1
<1>1. /\ Len(yyin) \in Nat /\ Len(yyin) >= 1 /\ Here \in InputType
      /\ \A i \in 1 .. Len(yyin) : yyin[i] \in InputType
  BY TailFacts, ElementOfSeq DEF TypeOK, Here
<1>2. Len(opened) \in Nat
  BY LenProperties DEF TypeOK
<1>3. Here.file \in File /\ Here.nth \in Nat \ {0} /\ Here.pos \in Nat \ {0}
  BY <1>1 DEF InputType
<1>4. /\ disk[Here.file] \in Seq(Item) /\ Len(disk[Here.file]) \in Nat
      /\ \A i \in 1 .. Len(disk[Here.file]) : disk[Here.file][i] \in Item
  BY <1>3, DiskFacts
<1>5. opened[Here.nth] = Here.file /\ Here.nth <= Len(opened) /\ Here.pos <= Len(disk[Here.file]) + 1
  BY <1>1 DEF InputsOpened, Here
<1>6. Statement \in StatementType /\ Statement.nth = Here.nth /\ Statement.pos = Here.pos
  BY <1>3 DEF Statement, StatementType
<1>7. ~Ended => Here.pos \in 1 .. Len(disk[Here.file])
  BY <1>3, <1>4 DEF Ended
<1>8. Ended => Here.pos = Len(disk[Here.file]) + 1
  BY <1>3, <1>4, <1>5 DEF Ended
<1> QED  BY <1>1, <1>2, <1>4, <1>5, <1>6, <1>7, <1>8

(* The lexer is one item further.                                          *)
LEMMA AdvanceFacts ==
  ASSUME TypeOK, InputsOpened, Advance
  PROVE  /\ yyin' \in Seq(InputType) /\ yyin' # <<>> /\ Len(yyin') = Len(yyin)
         /\ Here'.file = Here.file /\ Here'.nth = Here.nth /\ Here'.pos = Here.pos + 1
         /\ \A i \in 2 .. Len(yyin) : yyin'[i] = yyin[i]
<1> DEFINE e == [Here EXCEPT !.pos = @ + 1]
<1>1. /\ Len(yyin) \in Nat /\ Len(yyin) >= 1 /\ Here \in InputType /\ yyin \in Seq(InputType)
  BY HereFacts DEF TypeOK
<1>2. e \in InputType /\ e.file = Here.file /\ e.nth = Here.nth /\ e.pos = Here.pos + 1
  <2>1. Here.pos \in Nat \ {0} /\ Here.pos + 1 \in Nat \ {0}
    BY <1>1 DEF InputType
  <2> QED  BY <1>1, <2>1 DEF InputType
<1>3. yyin' = [yyin EXCEPT ![1] = e]
  BY DEF Advance, Here
<1> HIDE DEF e
<1>4. /\ yyin' \in Seq(InputType) /\ Len(yyin') = Len(yyin)
      /\ \A j \in 1 .. Len(yyin) : yyin'[j] = IF j = 1 THEN e ELSE yyin[j]
  BY <1>1, <1>2, <1>3, ExceptSeq
<1>5. yyin'[1] = e /\ yyin' # <<>> /\ \A i \in 2 .. Len(yyin) : yyin'[i] = yyin[i]
  BY <1>1, <1>4
<1> QED  BY <1>2, <1>4, <1>5 DEF Here

LEMMA AdvanceInputs ==
  ASSUME TypeOK, InputsOpened, Advance, ~Ended, UNCHANGED <<disk, opened, buffernames>>
  PROVE  InputsOpened'
<1>1. /\ Len(yyin') = Len(yyin) /\ Len(yyin) \in Nat /\ Len(yyin) >= 1
      /\ yyin'[1].file = yyin[1].file /\ yyin'[1].nth = yyin[1].nth
      /\ yyin'[1].pos = yyin[1].pos + 1
      /\ \A i \in 2 .. Len(yyin) : yyin'[i] = yyin[i]
  BY AdvanceFacts, HereFacts DEF Here
<1>2. \A i \in 1 .. Len(yyin) : yyin'[i].file = yyin[i].file /\ yyin'[i].nth = yyin[i].nth
  BY <1>1
<1>3. yyin[1].pos + 1 <= Len(disk[yyin[1].file]) + 1
  BY HereFacts DEF Here
<1>4. \A i \in 1 .. Len(yyin) : yyin'[i].pos <= Len(disk[yyin[i].file]) + 1
  BY <1>1, <1>3 DEF InputsOpened
<1>5. \A i \in 1 .. Len(yyin') :
        /\ yyin'[i].nth <= Len(opened) /\ opened[yyin'[i].nth] = yyin'[i].file
        /\ yyin'[i].pos <= Len(disk[yyin'[i].file]) + 1
  BY <1>1, <1>2, <1>4 DEF InputsOpened
<1>6. \A i, j \in 1 .. Len(yyin') : i < j => yyin'[i].nth > yyin'[j].nth
  BY <1>1, <1>2 DEF InputsOpened
<1>7. Len(buffernames) = Len(yyin) - 1 /\ \A i \in 1 .. Len(buffernames) : yyin[i].file = buffernames[i]
  BY DEF InputsOpened
<1>8. Len(buffernames) = Len(yyin') - 1 /\ \A i \in 1 .. Len(buffernames) : yyin'[i].file = buffernames[i]
  BY <1>1, <1>2, <1>7
<1> QED  BY <1>5, <1>6, <1>8 DEF InputsOpened

(* What is read then is the item passed over, if it is one of a statement. *)
LEMMA AdvanceReads ==
  ASSUME TypeOK, InputsOpened, Advance, ~Ended, UNCHANGED <<disk, opened>>
  PROVE  /\ \A s : IsRead(s)' <=>
              \/ IsRead(s)
              \/ s = Statement /\ disk[Here.file][Here.pos] \in {Call, Close}
         /\ ~IsRead(Statement)
<1>1. /\ Len(yyin') = Len(yyin) /\ Len(yyin) \in Nat /\ 1 \in 1 .. Len(yyin)
      /\ yyin'[1].nth = yyin[1].nth /\ yyin'[1].pos = yyin[1].pos + 1
      /\ \A i \in 2 .. Len(yyin) : yyin'[i] = yyin[i]
  BY AdvanceFacts, HereFacts DEF Here
<1>2. /\ yyin[1].nth \in Nat /\ yyin[1].pos \in Nat
      /\ Statement \in StatementType /\ Statement.nth = yyin[1].nth /\ Statement.pos = yyin[1].pos
      /\ opened[yyin[1].nth] = yyin[1].file /\ yyin[1].nth <= Len(opened)
      /\ yyin[1].pos <= Len(disk[yyin[1].file])
  BY HereFacts DEF Here, InputType
<1>3. ~IsRead(Statement)
  BY <1>1, <1>2 DEF IsRead
<1>4. \A i \in 2 .. Len(yyin) : yyin[i].nth # yyin[1].nth
  <2> SUFFICES ASSUME NEW i \in 2 .. Len(yyin) PROVE yyin[i].nth # yyin[1].nth
    OBVIOUS
  <2>1. yyin[i].nth \in Nat /\ i \in 1 .. Len(yyin)
    BY <1>1, HereFacts DEF InputType
  <2> QED  BY <1>1, <1>2, <2>1 DEF InputsOpened
<1>5. ASSUME NEW s, IsRead(s) PROVE IsRead(s)'
  <2>1. s.pos \in Nat
    BY <1>5 DEF IsRead, StatementType
  <2>2. \A i \in 1 .. Len(yyin) : yyin'[i].nth = s.nth => s.pos < yyin'[i].pos
    <3> SUFFICES ASSUME NEW i \in 1 .. Len(yyin), yyin'[i].nth = s.nth PROVE s.pos < yyin'[i].pos
      OBVIOUS
    <3>1. CASE i = 1
      <4>1. s.pos < yyin[1].pos
        BY <1>1, <1>5, <3>1 DEF IsRead
      <4> QED  BY <1>1, <1>2, <2>1, <3>1, <4>1
    <3>2. CASE i # 1
      BY <1>1, <1>5, <3>2 DEF IsRead
    <3> QED  BY <3>1, <3>2
  <2> QED  BY <1>1, <1>5, <2>2 DEF IsRead
<1>6. ASSUME disk[Here.file][Here.pos] \in {Call, Close}, NEW s, s = Statement
      PROVE  IsRead(s)'
  <2>1. /\ s \in StatementType /\ s.nth <= Len(opened)
        /\ s.pos <= Len(disk[opened[s.nth]]) /\ disk[opened[s.nth]][s.pos] \in {Call, Close}
    BY <1>2, <1>6 DEF Here
  <2>2. \A i \in 1 .. Len(yyin) : yyin'[i].nth = s.nth => s.pos < yyin'[i].pos
    BY <1>1, <1>2, <1>4, <1>6
  <2> QED  BY <1>1, <2>1, <2>2 DEF IsRead
<1>7. ASSUME NEW s, IsRead(s)', ~IsRead(s)
      PROVE  s = Statement /\ disk[Here.file][Here.pos] \in {Call, Close}
  <2>1. /\ s \in StatementType /\ s.nth <= Len(opened)
        /\ s.pos <= Len(disk[opened[s.nth]]) /\ disk[opened[s.nth]][s.pos] \in {Call, Close}
        /\ \A i \in 1 .. Len(yyin) : yyin'[i].nth = s.nth => s.pos < yyin'[i].pos
    BY <1>1, <1>7 DEF IsRead
  <2>2. PICK i \in 1 .. Len(yyin) : yyin[i].nth = s.nth /\ ~(s.pos < yyin[i].pos)
    BY <1>7, <2>1 DEF IsRead
  <2>3. i = 1
    BY <1>1, <2>1, <2>2
  <2>4. s.nth = yyin[1].nth /\ s.pos = yyin[1].pos
    BY <1>1, <1>2, <2>1, <2>2, <2>3 DEF StatementType
  <2>5. s = Statement
    BY <1>2, <2>1, <2>4 DEF StatementType
  <2>6. disk[yyin[1].file][yyin[1].pos] \in {Call, Close}
    BY <1>2, <2>1, <2>4
  <2> QED  BY <2>5, <2>6 DEF Here
<1> QED  BY <1>3, <1>5, <1>6, <1>7

LEMMA SameReads ==
  ASSUME UNCHANGED <<disk, opened, yyin>>
  PROVE  \A s : IsRead(s)' <=> IsRead(s)
BY DEF IsRead

-----------------------------------------------------------------------------
(* Statements and lists: what steps of the same shape keep.                *)

(* The statements in lists.                                                *)
LEMMA ListsTyped ==
  ASSUME TypeOK
  PROVE  /\ Len(lists) \in Nat
         /\ \A l \in 1 .. Len(lists) :
              /\ lists[l] \in Seq(StatementType) /\ Len(lists[l]) \in Nat
              /\ \A i \in 1 .. Len(lists[l]) : lists[l][i] \in StatementType
<1>1. Len(lists) \in Nat /\ \A l \in 1 .. Len(lists) : lists[l] \in Seq(StatementType)
  BY LenProperties, ElementOfSeq DEF TypeOK
<1> QED  BY <1>1, LenProperties, ElementOfSeq

(* No statement is read, none gets into a list or out of one.              *)
LEMMA StatementsStay ==
  ASSUME TypeOK, Statements, \A s : IsRead(s)' <=> IsRead(s), repl' = repl,
         Len(lists') \in Nat, Len(lists) <= Len(lists'),
         \A l \in 1 .. Len(lists) : lists'[l] = lists[l],
         \A l \in 1 .. Len(lists') : l > Len(lists) => Len(lists'[l]) = 0,
         parser'[1].funcall = parser[1].funcall
  PROVE  Statements'
<1>1. Len(lists) \in Nat /\ \A l \in 1 .. Len(lists) : l \in 1 .. Len(lists')
  BY ListsTyped
<1>2. \A l \in 1 .. Len(lists') : l \in 1 .. Len(lists) \/ Len(lists'[l]) = 0
  BY <1>1
<1>3. \A s : Awaited(s)' <=> Awaited(s)
  BY DEF Awaited
<1>4. \A l \in 1 .. Len(lists') : \A s : InList(l, s)' <=> l \in 1 .. Len(lists) /\ InList(l, s)
  BY <1>1, <1>2 DEF InList
<1>5. ListedRead'
  BY <1>1, <1>2, <1>3 DEF Statements, ListedRead
<1>6. ReadListed'
  <2> SUFFICES ASSUME ~repl, NEW s, IsRead(s), ~Awaited(s)
               PROVE  \E l \in 1 .. Len(lists') : InList(l, s)'
    BY <1>3 DEF ReadListed
  <2>1. PICK l \in 1 .. Len(lists) : InList(l, s)
    BY DEF Statements, ReadListed
  <2> QED  BY <1>1, <1>4, <2>1
<1>7. ListsApart'
  BY <1>4 DEF Statements, ListsApart
<1>8. AwaitedLast'
  BY <1>1, <1>2, <1>3 DEF Statements, AwaitedLast
<1>9. OrderKept'
  <2> SUFFICES ASSUME NEW l \in 1 .. Len(lists'), NEW i \in 1 .. Len(lists'[l]), NEW j \in 1 .. Len(lists'[l]),
                      i < j, lists'[l][i].nth = lists'[l][j].nth
               PROVE  lists'[l][i].pos < lists'[l][j].pos
    BY DEF OrderKept
  <2>1. l \in 1 .. Len(lists) /\ lists'[l] = lists[l]
    BY <1>1, <1>2
  <2> QED  BY <2>1 DEF Statements, OrderKept
<1> QED  BY <1>5, <1>6, <1>7, <1>8, <1>9 DEF Statements

(* The statement that waits is put into list l, of which `kept' stays.     *)
LEMMA StatementListed ==
  ASSUME TypeOK, Statements, \A s : IsRead(s)' <=> IsRead(s), repl' = repl,
         NEW t \in StatementType, Awaited(t),
         NEW l, NEW kept \in Seq(StatementType),
         Len(lists') \in Nat, l \in 1 .. Len(lists'), Len(lists) <= Len(lists'),
         \A k \in 1 .. Len(lists') : k = l \/ (k \in 1 .. Len(lists) /\ lists'[k] = lists[k]),
         lists'[l] = kept \o <<t>>,
         kept = <<>> \/ (l \in 1 .. Len(lists) /\ kept = lists[l]),
         ~repl /\ l \in 1 .. Len(lists) => kept = lists[l],
         parser'[1].funcall = Nothing
  PROVE  Statements'
<1> DEFINE m == Len(kept)
<1>1. /\ m \in Nat /\ Len(lists'[l]) = m + 1 /\ lists'[l][m + 1] = t
      /\ \A i \in 1 .. m : lists'[l][i] = kept[i]
  <2>1. <<t>> \in Seq(StatementType) /\ Len(<<t>>) = 1 /\ <<t>>[1] = t /\ m \in Nat
    BY LenProperties
  <2>2. /\ Len(kept \o <<t>>) = m + 1
        /\ \A i \in 1 .. m + 1 : (kept \o <<t>>)[i] = IF i <= m THEN kept[i] ELSE <<t>>[i - m]
    BY <2>1, ConcatProperties
  <2> QED  BY <2>1, <2>2
<1>2. \A i \in 1 .. m : l \in 1 .. Len(lists) /\ i \in 1 .. Len(lists[l]) /\ kept[i] = lists[l][i]
  <2>1. kept = <<>> => m = 0
    OBVIOUS
  <2> QED  BY <1>1, <2>1
<1>3. \A i \in 1 .. m + 1 : i \in 1 .. m \/ i = m + 1
  BY <1>1
<1>4. \A k \in 1 .. Len(lists') : k = l \/ (k \in 1 .. Len(lists) /\ lists'[k] = lists[k])
  OBVIOUS
<1>5. \A s : ~Awaited(s)'
  <2>1. \A s : Nothing # <<s>>
    BY DEF Nothing
  <2> QED  BY <2>1 DEF Awaited
<1>6. IsRead(t) /\ \A k \in 1 .. Len(lists) : \A i \in 1 .. Len(lists[k]) :
        IsRead(lists[k][i]) /\ (lists[k][i].nth = t.nth => lists[k][i].pos < t.pos)
  BY DEF Statements, ListedRead, AwaitedLast
<1>7. ASSUME NEW k \in 1 .. Len(lists) PROVE ~InList(k, t)
  <2>1. t.pos \in Nat
    BY DEF StatementType
  <2>2. ASSUME NEW i \in 1 .. Len(lists[k]), lists[k][i] = t PROVE FALSE
    <3>1. t.pos < t.pos
      BY <1>6, <2>2
    <3> QED  BY <2>1, <3>1
  <2> QED  BY <2>2 DEF InList
<1>8. \A k \in 1 .. Len(lists') : \A s : InList(k, s)' =>
        (k = l /\ s = t) \/ (k \in 1 .. Len(lists) /\ InList(k, s))
  BY <1>1, <1>2, <1>3, <1>4 DEF InList
<1>9. InList(l, t)'
  <2>1. m + 1 \in 1 .. Len(lists'[l])
    BY <1>1
  <2> QED  BY <1>1, <2>1 DEF InList
<1>10. ListedRead'
  <2>1. ASSUME NEW k \in 1 .. Len(lists'), NEW i \in 1 .. Len(lists'[k]) PROVE IsRead(lists'[k][i])
    <3>1. CASE k = l
      BY <1>1, <1>2, <1>3, <1>6, <2>1, <3>1
    <3>2. CASE k # l
      BY <1>4, <1>6, <2>1, <3>2
    <3> QED  BY <3>1, <3>2
  <2>2. ASSUME NEW k \in 1 .. Len(lists'), NEW i \in 1 .. Len(lists'[k]), NEW s, s = lists'[k][i]
        PROVE  IsRead(s)'
    BY <2>1, <2>2
  <2> QED  BY <1>5, <2>2 DEF ListedRead
<1>11. ReadListed'
  <2> SUFFICES ASSUME ~repl, NEW s, IsRead(s) PROVE \E k \in 1 .. Len(lists') : InList(k, s)'
    BY DEF ReadListed
  <2>1. CASE s = t
    BY <1>9, <2>1
  <2>2. CASE s # t
    <3>1. ~Awaited(s)
      BY <2>2 DEF Awaited
    <3>2. PICK k \in 1 .. Len(lists) : InList(k, s)
      BY <3>1 DEF Statements, ReadListed
    <3>3. CASE k # l
      <4>1. k \in 1 .. Len(lists') /\ lists'[k] = lists[k]
        BY <3>2, <3>3
      <4> QED  BY <3>2, <4>1 DEF InList
    <3>4. CASE k = l
      <4>1. PICK i \in 1 .. Len(lists[l]) : lists[l][i] = s
        BY <3>2, <3>4 DEF InList
      <4>2. i \in 1 .. m /\ lists'[l][i] = s
        BY <1>1, <3>4, <4>1
      <4>3. i \in 1 .. Len(lists'[l])
        BY <1>1, <4>2
      <4> QED  BY <4>2, <4>3 DEF InList
    <3> QED  BY <3>3, <3>4
  <2> QED  BY <2>1, <2>2
<1>12. ListsApart'
  BY <1>7, <1>8 DEF Statements, ListsApart
<1>13. AwaitedLast'
  BY <1>5 DEF AwaitedLast
<1>14. OrderKept'
  <2> SUFFICES ASSUME NEW k \in 1 .. Len(lists'), NEW i \in 1 .. Len(lists'[k]), NEW j \in 1 .. Len(lists'[k]),
                      i < j, lists'[k][i].nth = lists'[k][j].nth
               PROVE  lists'[k][i].pos < lists'[k][j].pos
    BY DEF OrderKept
  <2>1. CASE k # l
    BY <1>4, <2>1 DEF Statements, OrderKept
  <2>2. CASE k = l /\ j = m + 1
    <3>1. i \in 1 .. m
      BY <1>1, <2>2
    <3> QED  BY <1>1, <1>2, <1>6, <2>2, <3>1
  <2>3. CASE k = l /\ j # m + 1
    <3>1. i \in 1 .. m /\ j \in 1 .. m
      BY <1>1, <2>3
    <3>2. lists'[k][i] = lists[l][i] /\ lists'[k][j] = lists[l][j]
          /\ l \in 1 .. Len(lists) /\ i \in 1 .. Len(lists[l]) /\ j \in 1 .. Len(lists[l])
      BY <1>1, <1>2, <2>3, <3>1
    <3> QED  BY <3>2 DEF Statements, OrderKept
  <2> QED  BY <2>1, <2>2, <2>3
<1> QED  BY <1>10, <1>11, <1>12, <1>13, <1>14 DEF Statements

(* A statement is read, and waits.                                         *)
LEMMA StatementRead ==
  ASSUME TypeOK, InputsOpened, Statements, ~Pending, Advance, ~Ended,
         disk[Here.file][Here.pos] \in {Call, Close},
         UNCHANGED <<repl, disk, opened, lists>>, parser'[1].funcall = <<Statement>>
  PROVE  Statements'
<1>1. \A s : IsRead(s)' <=> IsRead(s) \/ s = Statement
  BY AdvanceReads
<1>2. \A s : Awaited(s)' <=> s = Statement
  BY DEF Awaited
<1>3. \A s : ~Awaited(s)
  <2>1. \A s : Nothing # <<s>>
    BY DEF Nothing
  <2> QED  BY <2>1 DEF Awaited, Pending
<1>4. \A l, s : InList(l, s)' <=> InList(l, s)
  BY DEF InList
<1>5. ListedRead'
  <2>1. ASSUME NEW l \in 1 .. Len(lists), NEW i \in 1 .. Len(lists[l]), NEW s, s = lists[l][i]
        PROVE  IsRead(s)'
    BY <1>1, <2>1 DEF Statements, ListedRead
  <2>2. ASSUME NEW s, Awaited(s)' PROVE IsRead(s)'
    BY <1>1, <1>2, <2>2
  <2> QED  BY <2>1, <2>2 DEF ListedRead
<1>6. ReadListed'
  BY <1>1, <1>2, <1>3, <1>4 DEF Statements, ReadListed
<1>7. ListsApart'
  BY <1>4 DEF Statements, ListsApart
<1>8. AwaitedLast'
  <2> SUFFICES ASSUME NEW l \in 1 .. Len(lists), NEW i \in 1 .. Len(lists[l]),
                      lists[l][i].nth = Statement.nth
               PROVE  lists[l][i].pos < Statement.pos
    BY <1>2 DEF AwaitedLast
  <2>1. IsRead(lists[l][i])
    BY DEF Statements, ListedRead
  <2>2. 1 \in 1 .. Len(yyin) /\ Statement.nth = yyin[1].nth /\ Statement.pos = yyin[1].pos
    BY HereFacts DEF Here
  <2> QED  BY <2>1, <2>2 DEF IsRead
<1>9. OrderKept'
  BY DEF Statements, OrderKept
<1> QED  BY <1>5, <1>6, <1>7, <1>8, <1>9 DEF Statements

LEMMA EvaluatedTyped ==
  ASSUME TypeOK
  PROVE  Len(evaluated) \in Nat /\ \A i \in 1 .. Len(evaluated) : evaluated[i] \in StatementType
BY LenProperties, ElementOfSeq DEF TypeOK

(* Nothing is evaluated; lists keep what they have, and those that are not *)
(* being built any more are not again.                                     *)
LEMMA EvaluatedStays ==
  ASSUME TypeOK, EvaluatedRead, \A s : IsRead(s)' <=> IsRead(s), UNCHANGED <<repl, evaluated>>,
         ~repl => \A l \in 1 .. Len(lists) : l \in 1 .. Len(lists') /\ \A s : InList(l, s) => InList(l, s)',
         \A j \in 1 .. Len(parseTreeList') :
           \/ parseTreeList'[j] \notin 1 .. Len(lists)
           \/ \E i \in 1 .. Len(parseTreeList) : parseTreeList'[j] = parseTreeList[i]
  PROVE  EvaluatedRead'
<1>1. ASSUME NEW i \in 1 .. Len(evaluated) PROVE IsRead(evaluated[i])'
  BY <1>1 DEF EvaluatedRead
<1>2. ASSUME ~repl, NEW i \in 1 .. Len(evaluated)
      PROVE  (\E l \in 1 .. Len(lists) : InList(l, evaluated[i])
                 /\ \A j \in 1 .. Len(parseTreeList) : parseTreeList[j] # l)'
  <2>1. PICK l \in 1 .. Len(lists) : InList(l, evaluated[i])
               /\ \A j \in 1 .. Len(parseTreeList) : parseTreeList[j] # l
    BY <1>2 DEF EvaluatedRead
  <2>2. l \in 1 .. Len(lists') /\ InList(l, evaluated[i])'
    BY <1>2, <2>1
  <2> QED  BY <2>1, <2>2
<1> QED  BY <1>1, <1>2 DEF EvaluatedRead

(* A statement is read, and evaluated at the prompt.                       *)
LEMMA EvaluatedNow ==
  ASSUME TypeOK, InputsOpened, EvaluatedRead, Advance, ~Ended,
         disk[Here.file][Here.pos] \in {Call, Close}, Evaluated,
         UNCHANGED <<repl, disk, opened, lists>>,
         \A j \in 1 .. Len(parseTreeList') :
           \E i \in 1 .. Len(parseTreeList) : parseTreeList'[j] = parseTreeList[i]
  PROVE  EvaluatedRead'
<1> DEFINE n == Len(evaluated)
<1>1. (\A s : IsRead(s)' <=> IsRead(s) \/ s = Statement) /\ ~IsRead(Statement)
  BY AdvanceReads
<1>2. n \in Nat /\ Statement \in StatementType /\ \A i \in 1 .. n : evaluated[i] \in StatementType
  BY EvaluatedTyped, HereFacts
<1>3. CASE repl
  <2>1. /\ Len(evaluated') = n + 1 /\ evaluated'[n + 1] = Statement
        /\ \A i \in 1 .. n : evaluated'[i] = evaluated[i]
    BY <1>2, <1>3, AppendProperties DEF Evaluated, TypeOK
  <2>2. \A i \in 1 .. n + 1 : i \in 1 .. n \/ i = n + 1
    BY <1>2
  <2>3. \A i \in 1 .. n : IsRead(evaluated[i]) /\ evaluated[i] # Statement
    BY <1>1 DEF EvaluatedRead
  <2>4. \A i \in 1 .. n : evaluated[i].nth = Statement.nth => evaluated[i].pos < Statement.pos
    <3>1. 1 \in 1 .. Len(yyin) /\ Statement.nth = yyin[1].nth /\ Statement.pos = yyin[1].pos
      BY HereFacts DEF Here
    <3> QED  BY <2>3, <3>1 DEF IsRead
  <2>5. ASSUME NEW i \in 1 .. n + 1, NEW s, s = evaluated'[i] PROVE IsRead(s)'
    BY <1>1, <2>1, <2>2, <2>3, <2>5
  <2>6. \A i, j \in 1 .. n + 1 : evaluated'[i] = evaluated'[j] => i = j
    <3>1. \A i, j \in 1 .. n : evaluated[i] = evaluated[j] => i = j
      BY DEF EvaluatedRead
    <3>2. \A i \in 1 .. n : evaluated'[i] # evaluated'[n + 1]
      BY <2>1, <2>3
    <3> QED  BY <2>1, <2>2, <3>1, <3>2
  <2>7. ASSUME NEW s, IsRead(s)' PROVE \E i \in 1 .. n + 1 : evaluated'[i] = s
    <3>1. CASE s = Statement
      <4>1. n + 1 \in 1 .. n + 1
        BY <1>2
      <4> QED  BY <2>1, <3>1, <4>1
    <3>2. CASE IsRead(s)
      <4>1. PICK i \in 1 .. n : evaluated[i] = s
        BY <1>3, <3>2 DEF EvaluatedRead
      <4>2. i \in 1 .. n + 1
        BY <1>2
      <4> QED  BY <2>1, <4>1, <4>2
    <3> QED  BY <1>1, <2>7, <3>1, <3>2
  <2>8. ASSUME NEW i \in 1 .. n + 1, NEW j \in 1 .. n + 1, i < j, evaluated'[i].nth = evaluated'[j].nth
        PROVE  evaluated'[i].pos < evaluated'[j].pos
    <3>1. i \in 1 .. n
      BY <1>2, <2>8
    <3>2. CASE j = n + 1
      BY <2>1, <2>4, <2>8, <3>1, <3>2
    <3>3. CASE j \in 1 .. n
      BY <1>3, <2>1, <2>8, <3>1, <3>3 DEF EvaluatedRead
    <3> QED  BY <2>2, <3>2, <3>3
  <2> QED  BY <1>3, <2>1, <2>5, <2>6, <2>7, <2>8 DEF EvaluatedRead
<1>4. CASE ~repl
  <2>1. evaluated' = evaluated
    BY <1>4 DEF Evaluated
  <2>2. ASSUME NEW i \in 1 .. n PROVE IsRead(evaluated[i])'
    BY <1>1, <2>1, <2>2 DEF EvaluatedRead
  <2>3. ASSUME NEW i \in 1 .. n
        PROVE  (\E l \in 1 .. Len(lists) : InList(l, evaluated[i])
                   /\ \A j \in 1 .. Len(parseTreeList) : parseTreeList[j] # l)'
    <3>1. PICK l \in 1 .. Len(lists) : InList(l, evaluated[i])
                 /\ \A j \in 1 .. Len(parseTreeList) : parseTreeList[j] # l
      BY <1>4, <2>3 DEF EvaluatedRead
    <3>2. InList(l, evaluated[i])'
      BY <2>1, <3>1 DEF InList
    <3> QED  BY <3>1, <3>2
  <2> QED  BY <1>4, <2>1, <2>2, <2>3 DEF EvaluatedRead
<1> QED  BY <1>3, <1>4
-----------------------------------------------------------------------------
(* The parser's stack and the lists being built.                           *)

LEMMA ParserFacts ==
  ASSUME TypeOK
  PROVE  /\ Len(parser) \in Nat /\ Len(parser) >= 1
         /\ \A i \in 1 .. Len(parser) :
              /\ parser[i] \in ContextType /\ parser[i].list \in Nat
              /\ parser[i].funcall \in Seq(StatementType)
         /\ Len(parseTreeList) \in Nat /\ Len(lists) \in Nat
         /\ \A i \in 1 .. Len(parseTreeList) : parseTreeList[i] \in 1 .. Len(lists)
<1>1. /\ Len(parser) \in Nat /\ Len(parser) >= 1
      /\ \A i \in 1 .. Len(parser) : parser[i] \in ContextType
  BY TailFacts, ElementOfSeq DEF TypeOK
<1>2. /\ Len(parseTreeList) \in Nat /\ Len(lists) \in Nat
      /\ \A i \in 1 .. Len(parseTreeList) : parseTreeList[i] \in 1 .. Len(lists)
  BY LenProperties, ElementOfSeq DEF TypeOK
<1> QED  BY <1>1, <1>2 DEF ContextType

LEMMA MoreLists ==
  ASSUME TypeOK, NEW m \in Nat, Len(lists) <= m
  PROVE  /\ parseTreeList \in Seq(1 .. m)
         /\ modules \in Seq([prefix : File, data : 1 .. m])
         /\ blocks \subseteq [of : StatementType, list : 1 .. m]
<1>1. 1 .. Len(lists) \subseteq 1 .. m
  BY ListsTyped
<1> DEFINE D == 1 .. m
<1>2. 1 .. Len(lists) \subseteq D
  BY <1>1
<1> HIDE DEF D
<1>3. [prefix : File, data : 1 .. Len(lists)] \subseteq [prefix : File, data : D]
  BY <1>2
<1>4. [of : StatementType, list : 1 .. Len(lists)] \subseteq [of : StatementType, list : D]
  BY <1>2
<1>5. parseTreeList \in Seq(D)
  BY <1>2, SeqSubset DEF TypeOK
<1>6. modules \in Seq([prefix : File, data : D])
  <2> DEFINE A == [prefix : File, data : 1 .. Len(lists)]
             B == [prefix : File, data : D]
  <2>1. modules \in Seq(A) /\ A \subseteq B
    BY <1>3 DEF TypeOK
  <2> HIDE DEF A, B
  <2>2. modules \in Seq(B)
    BY <2>1, SeqSubset
  <2> QED  BY <2>2 DEF B
<1>7. blocks \subseteq [of : StatementType, list : D]
  BY <1>4 DEF TypeOK
<1> QED  BY <1>5, <1>6, <1>7 DEF D

LEMMA ListingBounds ==
  ASSUME NEW p, NEW n \in Nat, NEW i \in 1 .. n
  PROVE  /\ Cardinality(Listing(p, i)) \in Nat /\ Cardinality(Listing(p, n)) \in Nat
         /\ Cardinality(Listing(p, i)) <= Cardinality(Listing(p, n))
         /\ p[i].list # None => Cardinality(Listing(p, i)) >= 1
<1>1. /\ IsFiniteSet(Listing(p, n)) /\ Cardinality(Listing(p, n)) \in Nat
      /\ IsFiniteSet(Listing(p, i)) /\ Cardinality(Listing(p, i)) \in Nat
  BY ListingFinite
<1>2. Listing(p, i) \subseteq Listing(p, n)
  BY DEF Listing
<1>3. Cardinality(Listing(p, i)) <= Cardinality(Listing(p, n))
  BY <1>1, <1>2, FS_Subset
<1>4. ASSUME p[i].list # None PROVE Cardinality(Listing(p, i)) >= 1
  <2>1. i \in Listing(p, i)
    BY <1>4 DEF Listing
  <2>2. Cardinality(Listing(p, i)) # 0
    BY <1>1, <2>1, FS_EmptySet
  <2> QED  BY <1>1, <2>2
<1> QED  BY <1>1, <1>3, <1>4

LEMMA ListingOne ==
  ASSUME NEW p
  PROVE  /\ p[1].list # None => Listing(p, 1) = {1} /\ Cardinality(Listing(p, 1)) = 1
         /\ p[1].list = None => Listing(p, 1) = {} /\ Cardinality(Listing(p, 1)) = 0
<1>1. p[1].list # None => Listing(p, 1) = {1}
  BY DEF Listing
<1>2. p[1].list = None => Listing(p, 1) = {}
  BY DEF Listing
<1>3. Cardinality({1}) = 1
  BY FS_Singleton
<1> QED  BY <1>1, <1>2, <1>3, FS_EmptySet

(* A list is in front for a context that has one.                          *)
LEMMA ListInFront ==
  ASSUME TypeOK, InputsOpened, ListsInStep, parser[1].list # None
  PROVE  /\ parseTreeList # <<>> /\ Len(parseTreeList) >= 1
         /\ parseTreeList[1] \in 1 .. Len(lists)
         /\ Len(parser) > 1 => parser[1].list = parseTreeList[1]
<1>1. Len(parser) \in Nat /\ 1 \in 1 .. Len(parser) /\ Len(parseTreeList) \in Nat
  BY ParserFacts
<1>2. Cardinality(Listing(parser, 1)) = 1
  BY ListingOne
<1>3. Cardinality(Listing(parser, Len(parser))) \in Nat /\ Cardinality(Listing(parser, Len(parser))) >= 1
  BY <1>1, <1>2, ListingBounds
<1>4. Len(yyin) \in Nat /\ Len(yyin) >= 1
  BY HereFacts
<1>5. Len(parseTreeList) >= 1
  BY <1>1, <1>3, <1>4 DEF ListsInStep
<1>6. parseTreeList[1] \in 1 .. Len(lists)
  BY <1>1, <1>5, ParserFacts
<1>7. Len(parser) > 1 => parser[1].list = parseTreeList[1]
  BY <1>1, <1>2 DEF ListsInStep
<1>8. parseTreeList # <<>>
  BY <1>5
<1> QED  BY <1>5, <1>6, <1>7, <1>8

(* The statement that waits.                                               *)
LEMMA PendingOne ==
  ASSUME TypeOK, Waiting, Pending
  PROVE  \E t \in StatementType : parser[1].funcall = <<t>>
<1>1. parser[1].funcall \in Seq(StatementType) /\ Len(parser[1].funcall) = 1
  BY ParserFacts DEF Waiting
<1>2. parser[1].funcall[1] \in StatementType
  BY <1>1, ElementOfSeq
<1>3. parser[1].funcall = <<parser[1].funcall[1]>>
  BY <1>1
<1> QED  BY <1>2, <1>3

(* A call is put into the innermost context of a stack.                    *)
Put(p, t) == [p EXCEPT ![1].funcall = <<t>>]

LEMMA FuncallPut ==
  ASSUME NEW p \in Seq(ContextType), p # <<>>, NEW t \in StatementType
  PROVE  /\ Put(p, t) \in Seq(ContextType) /\ Len(Put(p, t)) = Len(p) /\ Len(p) \in Nat /\ Len(p) >= 1
         /\ Put(p, t)[1].funcall = <<t>>
         /\ \A i \in 1 .. Len(p) : Put(p, t)[i].list = p[i].list
         /\ \A i \in 2 .. Len(p) : Put(p, t)[i].funcall = p[i].funcall
<1> DEFINE c == [p[1] EXCEPT !.funcall = <<t>>]
           q == Put(p, t)
<1>1. Len(p) \in Nat /\ Len(p) >= 1 /\ p[1] \in ContextType
  BY TailFacts
<1>2. c \in ContextType /\ c.funcall = <<t>> /\ c.list = p[1].list
  <2>1. <<t>> \in Seq(StatementType)
    OBVIOUS
  <2> QED  BY <1>1, <2>1 DEF ContextType
<1>3. q = [p EXCEPT ![1] = c]
  BY DEF Put
<1> HIDE DEF c, q
<1>4. /\ q \in Seq(ContextType) /\ Len(q) = Len(p)
      /\ \A i \in 1 .. Len(p) : q[i] = IF i = 1 THEN c ELSE p[i]
  BY <1>1, <1>2, <1>3, ExceptSeq
<1>5. /\ q \in Seq(ContextType) /\ Len(q) = Len(p) /\ q[1].funcall = <<t>>
      /\ \A i \in 1 .. Len(p) : q[i].list = p[i].list
      /\ \A i \in 2 .. Len(p) : q[i].funcall = p[i].funcall
  BY <1>1, <1>2, <1>4
<1> QED  BY <1>1, <1>5 DEF q

LEMMA EvaluatedSeq ==
  ASSUME TypeOK, Evaluated, Statement \in StatementType
  PROVE  evaluated' \in Seq(StatementType)
<1>1. evaluated \in Seq(StatementType)
  BY DEF TypeOK
<1>2. Append(evaluated, Statement) \in Seq(StatementType)
  BY <1>1, AppendProperties
<1> QED  BY <1>1, <1>2 DEF Evaluated

(* Reading goes on after an item that neither opens nor closes a block, in *)
(* as many contexts as before.                                             *)
LEMMA BlocksAdvance ==
  ASSUME TypeOK, InputsOpened, BlocksOpen, Advance, ~Ended, disk' = disk,
         disk[Here.file][Here.pos] # Open, disk[Here.file][Here.pos] # Close,
         Len(parser') = Len(parser)
  PROVE  BlocksOpen'
<1>1. /\ Len(yyin') = Len(yyin) /\ Len(yyin) \in Nat
      /\ Here'.file = Here.file /\ Here'.pos = Here.pos + 1
      /\ \A i \in 2 .. Len(yyin) : yyin'[i] = yyin[i]
  BY AdvanceFacts, HereFacts
<1>2. Here.pos \in Nat \ {0} /\ disk[Here.file] \in Seq(Item)
  BY HereFacts DEF InputType
<1>3. Depth(disk[Here.file], Here.pos) = Depth(disk[Here.file], Here.pos - 1)
  BY <1>2, DepthNext
<1>4. (Here.pos + 1) - 1 = Here.pos
  BY <1>2
<1>5. Len(parser') - 1 = Depth(disk'[Here'.file], Here'.pos - 1)
  BY <1>1, <1>3, <1>4 DEF BlocksOpen
<1>6. \A i \in 2 .. Len(yyin') : Depth(disk'[yyin'[i].file], yyin'[i].pos - 1) = 0
  BY <1>1 DEF BlocksOpen
<1> QED  BY <1>5, <1>6 DEF BlocksOpen

(* The item being read, and its depth.                                     *)
LEMMA ItemRead ==
  ASSUME TypeOK, InputsOpened, BlocksOpen, ~Ended
  PROVE  /\ Here.file \in File /\ Here.nth \in Nat \ {0} /\ Here.pos \in Nat \ {0}
         /\ Here.pos \in 1 .. Len(disk[Here.file]) /\ disk[Here.file][Here.pos] \in Item
         /\ disk[Here.file][Here.pos].item = "call" => disk[Here.file][Here.pos] = Call
         /\ disk[Here.file][Here.pos].item = "open" => disk[Here.file][Here.pos] = Open
         /\ disk[Here.file][Here.pos].item = "close" =>
              /\ disk[Here.file][Here.pos] = Close /\ Len(parser) > 1
              /\ ~(Here.pos > 1 /\ disk[Here.file][Here.pos - 1] = Open)
         /\ disk[Here.file][Here.pos].item = "import" =>
              /\ disk[Here.file][Here.pos].file \in File
              /\ disk[Here.file][Here.pos] \notin {Call, Open, Close}
              /\ Depth(disk[Here.file], Here.pos) = 0 /\ Len(parser) = 1
<1> DEFINE text == disk[Here.file]
           n == Here.pos
<1>1. Here.file \in File /\ Here.nth \in Nat \ {0} /\ n \in Nat \ {0}
  BY HereFacts DEF InputType
<1>2. /\ n \in 1 .. Len(text) /\ text[n] \in Item
      /\ text \in Seq(Item) /\ Len(text) \in Nat /\ Len(parser) \in Nat
  BY HereFacts, ParserFacts
<1>3. /\ Depth(text, n) >= 0
      /\ text[n].item = "import" => Depth(text, n) = 0
      /\ n - 1 \in 1 .. Len(text) /\ text[n - 1] = Open => text[(n - 1) + 1] # Close
  BY <1>1, <1>2, DiskFacts
<1>4. Len(parser) - 1 = Depth(text, n - 1)
  BY DEF BlocksOpen
<1>5. /\ Depth(text, n - 1) \in Int /\ Depth(text, n) \in Int
      /\ text[n] = Close => Depth(text, n) = Depth(text, n - 1) - 1
      /\ text[n] # Open /\ text[n] # Close => Depth(text, n) = Depth(text, n - 1)
  BY <1>1, <1>2, DepthNext
<1>6. /\ text[n].item = "call" <=> text[n] = Call
      /\ text[n].item = "open" <=> text[n] = Open
      /\ text[n].item = "close" <=> text[n] = Close
      /\ text[n].item = "import" => text[n].file \in File
  BY <1>2, ItemKinds DEF File
<1>7. text[n].item = "import" => text[n] \notin {Call, Open, Close}
  BY <1>6
<1>8. text[n] = Close => Len(parser) > 1
  BY <1>2, <1>3, <1>4, <1>5
<1>9. ASSUME text[n].item = "import" PROVE Len(parser) = 1
  <2>1. Depth(text, n) = 0 /\ Depth(text, n) = Depth(text, n - 1)
    BY <1>3, <1>5, <1>7, <1>9
  <2>2. Len(parser) - 1 = 0
    BY <1>4, <2>1, Zenon
  <2> QED  BY <1>2, <2>2
<1>10. text[n] = Close => ~(n > 1 /\ text[n - 1] = Open)
  BY <1>1, <1>2, <1>3
<1> QED  BY <1>1, <1>2, <1>3, <1>6, <1>7, <1>8, <1>9, <1>10
-----------------------------------------------------------------------------
(* The invariant, action by action.                                        *)

LEMMA InitInv == Init => IInv
<1> SUFFICES ASSUME Init PROVE IInv
  OBVIOUS
<1>1. Main \in File /\ disk \in [File -> UNION {Texts[f] : f \in File}] /\ \A f \in File : disk[f] \in Texts[f]
  BY MainHasText DEF Init, File
<1>2. /\ yyin = <<[file |-> Main, nth |-> 1, pos |-> 1]>> /\ parser = <<[list |-> 0, funcall |-> <<>>]>>
      /\ opened = <<Main>> /\ parseTreeList = <<>> /\ lists = <<>> /\ buffernames = <<>>
      /\ modules = <<>> /\ blocks = {} /\ evaluated = <<>> /\ repl \in BOOLEAN
  BY DEF Init, Input, Context, None, Nothing
<1>3. /\ Len(yyin) = 1 /\ Len(parser) = 1 /\ Len(opened) = 1 /\ Len(parseTreeList) = 0 /\ Len(lists) = 0
      /\ Len(buffernames) = 0 /\ Len(evaluated) = 0 /\ opened[1] = Main
      /\ yyin[1].file = Main /\ yyin[1].nth = 1 /\ yyin[1].pos = 1
      /\ parser[1].list = 0 /\ parser[1].funcall = <<>>
  BY <1>2
<1>4. TypeOK
  <2>1. /\ [file |-> Main, nth |-> 1, pos |-> 1] \in InputType
        /\ [list |-> 0, funcall |-> <<>>] \in ContextType
    BY <1>1 DEF InputType, ContextType
  <2>2. /\ yyin \in Seq(InputType) /\ yyin # <<>>
        /\ parser \in Seq(ContextType) /\ parser # <<>>
        /\ opened \in Seq(File)
    BY <1>1, <1>2, <2>1
  <2>3. /\ parseTreeList \in Seq(1 .. Len(lists)) /\ lists \in Seq(Seq(StatementType))
        /\ buffernames \in Seq(File) /\ modules \in Seq([prefix : File, data : 1 .. Len(lists)])
        /\ evaluated \in Seq(StatementType)
        /\ blocks \subseteq [of : StatementType, list : 1 .. Len(lists)]
    BY <1>2
  <2> QED  BY <1>1, <1>2, <2>2, <2>3 DEF TypeOK
<1>5. Len(disk[Main]) \in Nat
  BY <1>1, <1>4, DiskFacts
<1>6. InputsOpened
  BY <1>3, <1>5 DEF InputsOpened
<1>7. BlocksOpen
  <2>1. Depth(disk[Main], 0) = 0
    BY DepthZero
  <2> QED  BY <1>3, <2>1 DEF BlocksOpen, Here
<1>8. Waiting
  BY <1>3 DEF Waiting, Pending, Nothing
<1>9. ListsInStep
  <2>1. Cardinality(Listing(parser, 1)) = 0
    BY <1>3, ListingOne DEF None
  <2> QED  BY <1>3, <2>1 DEF ListsInStep
<1>10. ListsKept
  BY <1>3 DEF ListsKept
<1>11. \A s : ~IsRead(s)
  <2> SUFFICES ASSUME NEW s, IsRead(s) PROVE FALSE
    OBVIOUS
  <2>1. s.nth = 1 /\ s.pos \in Nat \ {0}
    BY <1>3 DEF IsRead, StatementType
  <2>2. s.pos < yyin[1].pos
    BY <1>3, <2>1 DEF IsRead
  <2> QED  BY <1>3, <2>1, <2>2
<1>12. \A s : ~Awaited(s)
  <2>1. \A s : <<>> # <<s>>
    OBVIOUS
  <2> QED  BY <1>3, <2>1 DEF Awaited
<1>13. Statements
  BY <1>3, <1>11, <1>12 DEF Statements, ListedRead, ReadListed, ListsApart, AwaitedLast, OrderKept
<1>14. EvaluatedRead
  BY <1>3, <1>11 DEF EvaluatedRead
<1> QED  BY <1>4, <1>6, <1>7, <1>8, <1>9, <1>10, <1>13, <1>14 DEF IInv

(* Steps that only end the reading.                                        *)
LEMMA ReadingEnds ==
  ASSUME IInv, UNCHANGED <<yyin, files, parseTreeList, lists, parser, output>>
  PROVE  IInv'
<1>1. UNCHANGED <<repl, disk, buffernames, opened, yyin, parseTreeList, lists, parser, modules, blocks, evaluated>>
  BY DEF files, input, output
<1>2. TypeOK'
  BY <1>1 DEF IInv, TypeOK
<1>3. InputsOpened' /\ BlocksOpen' /\ Waiting'
  BY <1>1 DEF IInv, InputsOpened, BlocksOpen, Waiting, Here, Pending
<1>4. ListsInStep'
  BY <1>1 DEF IInv, ListsInStep, Listing
<1>5. ListsKept'
  BY <1>1 DEF IInv, ListsKept, InUse
<1>6. \A s : IsRead(s)' <=> IsRead(s)
  BY <1>1, SameReads
<1>7. Statements'
  <2>1. Len(lists) \in Nat /\ \A l \in 1 .. Len(lists') : ~(l > Len(lists))
    BY <1>1, ListsTyped DEF IInv
  <2> QED  BY <1>1, <1>6, <2>1, StatementsStay DEF IInv
<1>8. EvaluatedRead'
  <2>1. \A l, s : InList(l, s)' <=> InList(l, s)
    BY <1>1 DEF InList
  <2> QED  BY <1>1, <1>6, <2>1, EvaluatedStays DEF IInv
<1> QED  BY <1>2, <1>3, <1>4, <1>5, <1>7, <1>8 DEF IInv

LEMMA ImportNotFoundInv ==
  ASSUME IInv, ImportNotFound
  PROVE  IInv'
<1>1. UNCHANGED <<repl, disk, buffernames, opened, parseTreeList, lists, parser, modules, blocks, evaluated>>
  BY DEF ImportNotFound, input, output
<1>2. TypeOK /\ InputsOpened /\ BlocksOpen /\ Advance /\ ~Ended
  BY DEF IInv, ImportNotFound, At
<1>3. disk[Here.file][Here.pos] \notin {Call, Open, Close} /\ Len(parser) = 1
  BY <1>2, ItemRead DEF ImportNotFound, At
<1>4. TypeOK'
  <2>1. yyin' \in Seq(InputType) /\ yyin' # <<>>
    BY <1>2, AdvanceFacts
  <2> QED  BY <1>1, <1>2, <2>1 DEF TypeOK
<1>5. InputsOpened'
  BY <1>1, <1>2, AdvanceInputs
<1>6. BlocksOpen'
  BY <1>1, <1>2, <1>3, BlocksAdvance
<1>7. Waiting'
  BY <1>1, <1>3 DEF IInv, Waiting, Pending
<1>8. ListsInStep'
  <2>1. Len(yyin') = Len(yyin)
    BY <1>2, AdvanceFacts
  <2> QED  BY <1>1, <2>1 DEF IInv, ListsInStep, Listing
<1>9. ListsKept'
  BY <1>1 DEF IInv, ListsKept, InUse
<1>10. \A s : IsRead(s)' <=> IsRead(s)
  BY <1>1, <1>2, <1>3, AdvanceReads
<1>11. Statements'
  <2>1. Len(lists) \in Nat /\ \A l \in 1 .. Len(lists') : ~(l > Len(lists))
    BY <1>1, ListsTyped DEF IInv
  <2> QED  BY <1>1, <1>10, <2>1, StatementsStay DEF IInv
<1>12. EvaluatedRead'
  <2>1. \A l, s : InList(l, s)' <=> InList(l, s)
    BY <1>1 DEF InList
  <2> QED  BY <1>1, <1>10, <2>1, EvaluatedStays DEF IInv
<1> QED  BY <1>4, <1>5, <1>6, <1>7, <1>8, <1>9, <1>11, <1>12 DEF IInv
(* The inputs of an import: the file opened and, an item further, the one  *)
(* that is interrupted.                                                    *)
LEMMA ImportInputs ==
  ASSUME IInv, Import
  PROVE  LET f == disk[Here.file][Here.pos].file
         IN  /\ f \in File
             /\ yyin' \in Seq(InputType) /\ yyin' # <<>> /\ Len(yyin') = Len(yyin) + 1
             /\ yyin'[1] = Input(f, Len(opened) + 1)
             /\ yyin'[2].file = Here.file /\ yyin'[2].nth = Here.nth /\ yyin'[2].pos = Here.pos + 1
             /\ \A i \in 2 .. Len(yyin) : yyin'[i + 1] = yyin[i]
             /\ \A i \in 1 .. Len(yyin) : yyin'[i + 1].file = yyin[i].file /\ yyin'[i + 1].nth = yyin[i].nth
             /\ Len(opened') = Len(opened) + 1 /\ opened' \in Seq(File) /\ opened'[Len(opened) + 1] = f
             /\ \A i \in 1 .. Len(opened) : opened'[i] = opened[i]
<1> DEFINE f == disk[Here.file][Here.pos].file
           e == [Here EXCEPT !.pos = @ + 1]
           n == Input(f, Len(opened) + 1)
<1>1. /\ f \in File /\ Here.pos \in Nat \ {0} /\ Len(opened) \in Nat
      /\ Len(yyin) \in Nat /\ Len(yyin) >= 1 /\ Here \in InputType
  BY ItemRead, HereFacts DEF IInv, Import, At
<1>2. n \in InputType /\ e \in InputType /\ e.file = Here.file /\ e.nth = Here.nth /\ e.pos = Here.pos + 1
  BY <1>1 DEF InputType, Input
<1>3. yyin \in Seq(InputType) /\ yyin # <<>> /\ opened \in Seq(File)
  BY DEF IInv, TypeOK
<1>4. yyin' = <<n, e>> \o Tail(yyin) /\ opened' = Append(opened, f)
  BY DEF Import
<1> HIDE DEF e, n
<1>5. Tail(yyin) \in Seq(InputType) /\ Len(Tail(yyin)) = Len(yyin) - 1
      /\ \A i \in 1 .. Len(yyin) - 1 : Tail(yyin)[i] = yyin[i + 1]
  BY <1>3, TailFacts
<1>6. <<n, e>> \in Seq(InputType) /\ Len(<<n, e>>) = 2 /\ <<n, e>>[1] = n /\ <<n, e>>[2] = e
  BY <1>2
<1>7. /\ yyin' \in Seq(InputType) /\ Len(yyin') = 2 + (Len(yyin) - 1)
      /\ \A i \in 1 .. 2 + (Len(yyin) - 1) :
           yyin'[i] = IF i <= 2 THEN <<n, e>>[i] ELSE Tail(yyin)[i - 2]
  BY <1>4, <1>5, <1>6, ConcatProperties
<1>8. yyin'[1] = n /\ yyin'[2] = e
  BY <1>1, <1>6, <1>7
<1>9. \A i \in 2 .. Len(yyin) : yyin'[i + 1] = yyin[i]
  <2> SUFFICES ASSUME NEW i \in 2 .. Len(yyin) PROVE yyin'[i + 1] = yyin[i]
    OBVIOUS
  <2>1. i + 1 \in 1 .. 2 + (Len(yyin) - 1) /\ ~(i + 1 <= 2) /\ (i + 1) - 2 \in 1 .. Len(yyin) - 1
        /\ ((i + 1) - 2) + 1 = i
    BY <1>1
  <2> QED  BY <1>5, <1>7, <2>1
<1>10. \A i \in 1 .. Len(yyin) : yyin'[i + 1].file = yyin[i].file /\ yyin'[i + 1].nth = yyin[i].nth
  <2>1. \A i \in 1 .. Len(yyin) : i = 1 \/ i \in 2 .. Len(yyin)
    BY <1>1
  <2>2. yyin'[1 + 1].file = yyin[1].file /\ yyin'[1 + 1].nth = yyin[1].nth
    BY <1>2, <1>8 DEF Here
  <2> QED  BY <1>9, <2>1, <2>2
<1>11. /\ Len(opened') = Len(opened) + 1 /\ opened' \in Seq(File) /\ opened'[Len(opened) + 1] = f
       /\ \A i \in 1 .. Len(opened) : opened'[i] = opened[i]
  BY <1>1, <1>3, <1>4, AppendProperties
<1> QED  BY <1>1, <1>2, <1>7, <1>8, <1>9, <1>10, <1>11 DEF n

LEMMA ImportReads ==
  ASSUME IInv, Import
  PROVE  \A s : IsRead(s)' <=> IsRead(s)
<1> DEFINE f == disk[Here.file][Here.pos].file
<1>1. /\ f \in File /\ Len(yyin') = Len(yyin) + 1 /\ yyin'[1] = Input(f, Len(opened) + 1)
      /\ yyin'[2].nth = yyin[1].nth /\ yyin'[2].pos = yyin[1].pos + 1
      /\ \A i \in 2 .. Len(yyin) : yyin'[i + 1] = yyin[i]
      /\ Len(opened') = Len(opened) + 1
      /\ \A i \in 1 .. Len(opened) : opened'[i] = opened[i]
  BY ImportInputs DEF Here
<1>2. yyin'[1].nth = Len(opened) + 1 /\ yyin'[1].pos = 1
  BY <1>1 DEF Input
<1>3. /\ Len(yyin) \in Nat /\ Len(yyin) >= 1 /\ Len(opened) \in Nat /\ disk' = disk
      /\ yyin[1].nth \in Nat /\ yyin[1].pos \in Nat /\ yyin[1].nth <= Len(opened)
      /\ opened[yyin[1].nth] = yyin[1].file
  BY HereFacts DEF IInv, Import, input, Here, InputType
<1>4. disk[yyin[1].file][yyin[1].pos] \notin {Call, Close}
  BY ItemRead DEF IInv, Import, At, Here
<1>5. ASSUME NEW s, s \in StatementType, s.nth <= Len(opened),
             s.pos <= Len(disk[opened[s.nth]]) /\ disk[opened[s.nth]][s.pos] \in {Call, Close}
      PROVE  IsRead(s)' <=> IsRead(s)
  <2>1. s.nth \in 1 .. Len(opened) /\ s.pos \in Nat
    BY <1>3, <1>5 DEF StatementType
  <2>2. ~(s.nth = yyin[1].nth /\ s.pos = yyin[1].pos)
    BY <1>3, <1>4, <1>5
  <2>3. IsRead(s)' <=> \A i \in 1 .. Len(yyin') : yyin'[i].nth = s.nth => s.pos < yyin'[i].pos
    <3>1. opened'[s.nth] = opened[s.nth] /\ s.nth <= Len(opened')
      BY <1>1, <1>3, <1>5, <2>1
    <3> QED  BY <1>3, <1>5, <3>1 DEF IsRead
  <2>4. IsRead(s) <=> \A i \in 1 .. Len(yyin) : yyin[i].nth = s.nth => s.pos < yyin[i].pos
    BY <1>5 DEF IsRead
  <2>5. ASSUME IsRead(s) PROVE IsRead(s)'
    <3> SUFFICES ASSUME NEW i \in 1 .. Len(yyin'), yyin'[i].nth = s.nth PROVE s.pos < yyin'[i].pos
      BY <2>3
    <3>1. i # 1
      BY <1>2, <1>3, <2>1
    <3>2. CASE i = 2
      <4>1. s.pos < yyin[1].pos
        BY <1>1, <1>3, <2>4, <2>5, <3>2
      <4> QED  BY <1>1, <1>3, <2>1, <3>2, <4>1
    <3>3. CASE i > 2
      <4>0. i \in Nat /\ i <= Len(yyin) + 1 /\ Len(yyin) \in Nat
        BY <1>1, <1>3
      <4>1. i - 1 \in 2 .. Len(yyin) /\ i - 1 \in 1 .. Len(yyin) /\ (i - 1) + 1 = i
        BY <3>3, <4>0
      <4>2. yyin'[i] = yyin[i - 1]
        BY <1>1, <4>1
      <4> QED  BY <2>4, <2>5, <4>1, <4>2
    <3> QED  BY <1>3, <3>1, <3>2, <3>3
  <2>6. ASSUME IsRead(s)' PROVE IsRead(s)
    <3> SUFFICES ASSUME NEW i \in 1 .. Len(yyin), yyin[i].nth = s.nth PROVE s.pos < yyin[i].pos
      BY <2>4
    <3>1. i + 1 \in 1 .. Len(yyin')
      BY <1>1, <1>3
    <3>2. CASE i = 1
      <4>1. s.pos < yyin'[2].pos
        BY <1>1, <2>3, <2>6, <3>1, <3>2
      <4> QED  BY <1>1, <1>3, <2>1, <2>2, <3>2, <4>1
    <3>3. CASE i # 1
      <4>1. yyin'[i + 1] = yyin[i]
        BY <1>1, <1>3, <3>3
      <4> QED  BY <2>3, <2>6, <3>1, <4>1
    <3> QED  BY <3>2, <3>3
  <2> QED  BY <2>5, <2>6
<1>6. ASSUME NEW s, IsRead(s)' PROVE IsRead(s)
  <2>1. s \in StatementType /\ s.nth <= Len(opened) + 1
    BY <1>1, <1>6 DEF IsRead
  <2>2. s.nth \in Nat \ {0} /\ s.pos \in Nat \ {0}
    BY <2>1 DEF StatementType
  <2>3. s.nth # Len(opened) + 1
    <3>1. 1 \in 1 .. Len(yyin') /\ (yyin'[1].nth = s.nth => s.pos < yyin'[1].pos)
      BY <1>1, <1>3, <1>6 DEF IsRead
    <3> QED  BY <1>2, <2>2, <3>1
  <2>4. s.nth <= Len(opened) /\ opened'[s.nth] = opened[s.nth]
    <3>1. s.nth \in 1 .. Len(opened)
      BY <1>3, <2>1, <2>2, <2>3
    <3> QED  BY <1>1, <1>3, <3>1
  <2>5. s.pos <= Len(disk[opened[s.nth]]) /\ disk[opened[s.nth]][s.pos] \in {Call, Close}
    BY <1>3, <1>6, <2>4 DEF IsRead
  <2> QED  BY <1>5, <1>6, <2>1, <2>4, <2>5
<1>7. ASSUME NEW s, IsRead(s) PROVE IsRead(s)'
  BY <1>5, <1>7 DEF IsRead
<1> QED  BY <1>6, <1>7

LEMMA ImportInv ==
  ASSUME IInv, Import
  PROVE  IInv'
<1> DEFINE f == disk[Here.file][Here.pos].file
           n == Len(lists)
<1>1. /\ UNCHANGED <<repl, disk, parser, modules, blocks, evaluated>>
      /\ buffernames' = <<f>> \o buffernames /\ parseTreeList' = <<n + 1>> \o parseTreeList
      /\ lists' = Append(lists, <<>>)
  BY DEF Import, input, output
<1>2. TypeOK /\ InputsOpened /\ BlocksOpen /\ ~Ended
  BY DEF IInv, Import, At
<1>3. /\ f \in File /\ yyin' \in Seq(InputType) /\ yyin' # <<>> /\ Len(yyin') = Len(yyin) + 1
      /\ yyin'[1] = Input(f, Len(opened) + 1)
      /\ yyin'[2].file = Here.file /\ yyin'[2].nth = Here.nth /\ yyin'[2].pos = Here.pos + 1
      /\ \A i \in 2 .. Len(yyin) : yyin'[i + 1] = yyin[i]
      /\ \A i \in 1 .. Len(yyin) : yyin'[i + 1].file = yyin[i].file /\ yyin'[i + 1].nth = yyin[i].nth
      /\ Len(opened') = Len(opened) + 1 /\ opened' \in Seq(File) /\ opened'[Len(opened) + 1] = f
      /\ \A i \in 1 .. Len(opened) : opened'[i] = opened[i]
  BY ImportInputs
<1>4. yyin'[1].file = f /\ yyin'[1].nth = Len(opened) + 1 /\ yyin'[1].pos = 1
  BY <1>3 DEF Input
<1>5. /\ Len(yyin) \in Nat /\ Len(yyin) >= 1 /\ Len(opened) \in Nat /\ Len(disk[f]) \in Nat
      /\ \A i \in 1 .. Len(yyin) : yyin[i] \in InputType
      /\ Here.pos \in Nat /\ Here.pos <= Len(disk[Here.file])
  <2>1. Here.pos \in Nat /\ Here.pos <= Len(disk[Here.file])
    <3>1. Here.pos \in 1 .. Len(disk[Here.file]) /\ Len(disk[Here.file]) \in Nat
      BY <1>2, HereFacts
    <3> QED  BY <3>1
  <2>2. Len(disk[f]) \in Nat
    BY <1>2, <1>3, DiskFacts
  <2> QED  BY <1>2, <2>1, <2>2, HereFacts
<1>6. n \in Nat /\ lists \in Seq(Seq(StatementType)) /\ <<>> \in Seq(StatementType) /\ Len(parseTreeList) \in Nat
  BY <1>2, ParserFacts DEF TypeOK
<1>7. /\ lists' \in Seq(Seq(StatementType)) /\ Len(lists') = n + 1 /\ lists'[n + 1] = <<>>
      /\ \A l \in 1 .. n : lists'[l] = lists[l]
  BY <1>1, <1>6, AppendProperties
<1>8. /\ parseTreeList \in Seq(Nat)
      /\ parseTreeList' \in Seq(1 .. n + 1) /\ Len(parseTreeList') = Len(parseTreeList) + 1
      /\ parseTreeList'[1] = n + 1
      /\ \A i \in 1 .. Len(parseTreeList) : parseTreeList'[i + 1] = parseTreeList[i]
  <2>1. parseTreeList \in Seq(1 .. n + 1)
    <3>1. n + 1 \in Nat /\ Len(lists) <= n + 1
      BY <1>6
    <3> QED  BY <1>2, <3>1, MoreLists
  <2>2. parseTreeList \in Seq(Nat)
    BY <1>6, <2>1
  <2> QED  BY <1>1, <1>6, <2>1, <2>2, ConsFacts
<1>9. /\ buffernames' \in Seq(File) /\ Len(buffernames') = Len(buffernames) + 1 /\ buffernames'[1] = f
      /\ Len(buffernames) \in Nat
      /\ \A i \in 1 .. Len(buffernames) : buffernames'[i + 1] = buffernames[i]
  <2>1. buffernames \in Seq(File) /\ f \in File /\ buffernames' = <<f>> \o buffernames
    BY <1>1, <1>2, <1>3 DEF TypeOK
  <2> HIDE DEF f
  <2> QED  BY <2>1, ConsFacts
<1>10. TypeOK'
  <2>1. /\ modules' \in Seq([prefix : File, data : 1 .. n + 1])
        /\ blocks' \subseteq [of : StatementType, list : 1 .. n + 1]
    <3>1. n + 1 \in Nat /\ Len(lists) <= n + 1
      BY <1>6
    <3> QED  BY <1>1, <1>2, <3>1, MoreLists
  <2> QED  BY <1>1, <1>2, <1>3, <1>7, <1>8, <1>9, <2>1 DEF TypeOK
<1>11. InputsOpened'
  <2>1. ASSUME NEW i \in 1 .. Len(yyin')
        PROVE  /\ yyin'[i].nth <= Len(opened') /\ opened'[yyin'[i].nth] = yyin'[i].file
               /\ yyin'[i].pos <= Len(disk[yyin'[i].file]) + 1
    <3>1. CASE i = 1
      BY <1>3, <1>4, <1>5, <3>1
    <3>2. CASE i # 1
      <4>1. i - 1 \in 1 .. Len(yyin) /\ (i - 1) + 1 = i
        BY <1>3, <1>5, <2>1, <3>2
      <4>2. /\ yyin[i - 1].nth <= Len(opened) /\ opened[yyin[i - 1].nth] = yyin[i - 1].file
            /\ yyin[i - 1].pos <= Len(disk[yyin[i - 1].file]) + 1
            /\ yyin[i - 1].nth \in Nat \ {0}
        BY <1>2, <1>5, <4>1 DEF InputsOpened, InputType
      <4>3. yyin'[i].file = yyin[i - 1].file /\ yyin'[i].nth = yyin[i - 1].nth
        BY <1>3, <4>1
      <4>4. opened'[yyin[i - 1].nth] = opened[yyin[i - 1].nth]
        <5>1. yyin[i - 1].nth \in 1 .. Len(opened)
          BY <1>5, <4>2
        <5> QED  BY <1>3, <5>1
      <4>5. yyin'[i].pos <= Len(disk[yyin'[i].file]) + 1
        <5>1. CASE i = 2
          BY <1>3, <1>5, <5>1
        <5>2. CASE i # 2
          <6>0. i - 1 # 1 /\ i - 1 \in 2 .. Len(yyin)
            BY <4>1, <5>2
          <6>1. i - 1 \in 2 .. Len(yyin) /\ yyin'[i] = yyin[i - 1]
            BY <1>3, <4>1, <6>0
          <6> QED  BY <4>2, <6>1
        <5> QED  BY <5>1, <5>2
      <4> QED  BY <1>3, <1>5, <4>2, <4>3, <4>4, <4>5
    <3> QED  BY <3>1, <3>2
  <2>2. ASSUME NEW i \in 1 .. Len(yyin'), NEW j \in 1 .. Len(yyin'), i < j
        PROVE  yyin'[i].nth > yyin'[j].nth
    <3>1. j - 1 \in 1 .. Len(yyin) /\ (j - 1) + 1 = j
      BY <1>3, <1>5, <2>2
    <3>2. yyin'[j].nth = yyin[j - 1].nth /\ yyin[j - 1].nth \in Nat /\ yyin[j - 1].nth <= Len(opened)
      BY <1>2, <1>3, <1>5, <3>1 DEF InputsOpened, InputType
    <3>3. CASE i = 1
      BY <1>4, <1>5, <3>2, <3>3
    <3>4. CASE i # 1
      <4>1. i - 1 \in 1 .. Len(yyin) /\ (i - 1) + 1 = i /\ i - 1 < j - 1
        BY <1>3, <1>5, <2>2, <3>4
      <4>2. yyin[i - 1].nth > yyin[j - 1].nth
        BY <1>2, <3>1, <4>1 DEF InputsOpened
      <4>3. yyin'[i].nth = yyin[i - 1].nth
        BY <1>3, <4>1
      <4> QED  BY <3>2, <4>2, <4>3
    <3> QED  BY <3>3, <3>4
  <2>3. Len(buffernames) = Len(yyin) - 1 /\ \A i \in 1 .. Len(buffernames) : yyin[i].file = buffernames[i]
    BY <1>2 DEF InputsOpened
  <2>4. ASSUME NEW i \in 1 .. Len(buffernames') PROVE yyin'[i].file = buffernames'[i]
    <3>1. CASE i = 1
      BY <1>4, <1>9, <3>1
    <3>2. CASE i # 1
      <4>1. i - 1 \in 1 .. Len(buffernames) /\ (i - 1) + 1 = i
        BY <1>9, <2>4, <3>2
      <4>2. i - 1 \in 1 .. Len(yyin)
        BY <1>5, <2>3, <4>1
      <4>3. yyin'[(i - 1) + 1].file = yyin[i - 1].file /\ buffernames'[(i - 1) + 1] = buffernames[i - 1]
        BY <1>3, <1>9, <4>1, <4>2
      <4> QED  BY <2>3, <4>1, <4>3
    <3> QED  BY <3>1, <3>2
  <2>5. Len(buffernames') = Len(yyin') - 1
    BY <1>3, <1>5, <1>9, <2>3
  <2> QED  BY <1>1, <2>1, <2>2, <2>4, <2>5 DEF InputsOpened
<1>12. /\ Len(parser) = 1 /\ Depth(disk[Here.file], Here.pos) = 0
       /\ disk[Here.file][Here.pos] \notin {Call, Open, Close}
  BY <1>2, ItemRead DEF Import, At
<1>13. BlocksOpen'
  <2>1. Depth(disk[f], 0) = 0
    BY DepthZero
  <2>2. Len(parser') - 1 = Depth(disk'[Here'.file], Here'.pos - 1)
    <3>1. disk' = disk /\ Here'.file = f /\ Here'.pos - 1 = 0
      BY <1>1, <1>4 DEF Here
    <3>2. Len(parser') - 1 = 0
      BY <1>1, <1>12
    <3> HIDE DEF f
    <3> QED  BY <2>1, <3>1, <3>2
  <2>3. ASSUME NEW i \in 2 .. Len(yyin') PROVE Depth(disk[yyin'[i].file], yyin'[i].pos - 1) = 0
    <3>1. CASE i = 2
      <4>1. (Here.pos + 1) - 1 = Here.pos
        BY <1>5
      <4> QED  BY <1>3, <1>12, <3>1, <4>1
    <3>2. CASE i # 2
      <4>1. i - 1 \in 2 .. Len(yyin) /\ (i - 1) + 1 = i
        BY <1>3, <1>5, <2>3, <3>2
      <4>2. yyin'[i] = yyin[i - 1]
        BY <1>3, <4>1
      <4> QED  BY <1>2, <4>1, <4>2 DEF BlocksOpen
    <3> QED  BY <3>1, <3>2
  <2> QED  BY <1>1, <2>2, <2>3 DEF BlocksOpen
<1>14. Waiting'
  BY <1>1, <1>12 DEF IInv, Waiting, Pending
<1>15. ListsInStep'
  <2>1. Cardinality(Listing(parser, 1)) \in Nat
    BY ListingFinite
  <2>2. Len(parseTreeList) = Len(yyin) - 1 + Cardinality(Listing(parser, 1))
    BY <1>12 DEF IInv, ListsInStep
  <2>3. Len(parseTreeList') = Len(yyin') - 1 + Cardinality(Listing(parser, 1))
    <3> DEFINE c == Cardinality(Listing(parser, 1))
    <3>1. /\ c \in Nat /\ Len(yyin) \in Nat /\ Len(yyin') = Len(yyin) + 1
          /\ Len(parseTreeList) = Len(yyin) - 1 + c /\ Len(parseTreeList') = Len(parseTreeList) + 1
      BY <1>3, <1>5, <1>8, <2>1, <2>2
    <3> HIDE DEF c
    <3> QED  BY <3>1 DEF c
  <2>4. Listing(parser, 1)' = Listing(parser, 1)
    BY <1>1 DEF Listing
  <2>5. Len(parser') = 1
    BY <1>1, <1>12
  <2>6. 1 .. Len(parser') - 1 = {}
    BY <2>5
  <2>7. Listing(parser', Len(parser')) = Listing(parser, 1)
    BY <1>1, <1>12
  <2> QED  BY <2>3, <2>6, <2>7 DEF ListsInStep
<1>16. ListsKept'
  <2>1. ASSUME NEW i \in 1 .. Len(parseTreeList'), NEW j \in 1 .. Len(parseTreeList'), i < j
        PROVE  parseTreeList'[i] > parseTreeList'[j]
    <3>1. j - 1 \in 1 .. Len(parseTreeList) /\ (j - 1) + 1 = j
      BY <1>6, <1>8, <2>1
    <3>2. parseTreeList'[j] = parseTreeList[j - 1] /\ parseTreeList[j - 1] \in 1 .. n
      BY <1>2, <1>8, <3>1, ParserFacts
    <3>3. CASE i = 1
      BY <1>6, <1>8, <3>2, <3>3
    <3>4. CASE i # 1
      <4>1. i - 1 \in 1 .. Len(parseTreeList) /\ (i - 1) + 1 = i /\ i - 1 < j - 1
        BY <1>6, <1>8, <2>1, <3>4
      <4>2. parseTreeList'[i] = parseTreeList[i - 1]
        BY <1>8, <4>1
      <4> QED  BY <3>1, <3>2, <4>1, <4>2 DEF IInv, ListsKept
    <3> QED  BY <3>3, <3>4
  <2>2. InUse' = InUse \cup {n + 1}
    <3>1. ToSet(parseTreeList') = ToSet(parseTreeList) \cup {n + 1}
      BY <1>1, <1>6, <1>8, ConsRange
    <3> QED  BY <1>1, <3>1 DEF InUse
  <2>3. \A l \in 1 .. n + 1 : l \in 1 .. n \/ l = n + 1
    BY <1>6
  <2> QED  BY <1>1, <1>7, <2>1, <2>2, <2>3 DEF IInv, ListsKept
<1>17. \A s : IsRead(s)' <=> IsRead(s)
  BY ImportReads
<1>18. \A l \in 1 .. n + 1 : l > n => Len(lists'[l]) = 0
  BY <1>6, <1>7
<1>19. Statements'
  BY <1>1, <1>6, <1>7, <1>17, <1>18, StatementsStay DEF IInv
<1>20. EvaluatedRead'
  <2>1. ASSUME NEW l \in 1 .. n
        PROVE  l \in 1 .. Len(lists') /\ \A s : InList(l, s) => InList(l, s)'
    <3>1. l \in 1 .. Len(lists') /\ lists'[l] = lists[l]
      BY <1>6, <1>7
    <3> QED  BY <3>1 DEF InList
  <2>2. ASSUME NEW j \in 1 .. Len(parseTreeList')
        PROVE  \/ parseTreeList'[j] \notin 1 .. n
               \/ \E i \in 1 .. Len(parseTreeList) : parseTreeList'[j] = parseTreeList[i]
    <3>1. CASE j = 1
      BY <1>6, <1>8, <3>1
    <3>2. CASE j # 1
      <4>1. j - 1 \in 1 .. Len(parseTreeList) /\ (j - 1) + 1 = j
        BY <1>6, <1>8, <2>2, <3>2
      <4> QED  BY <1>8, <4>1
    <3> QED  BY <3>1, <3>2
  <2> QED  BY <1>1, <1>17, <2>1, <2>2, EvaluatedStays DEF IInv
<1> QED  BY <1>10, <1>11, <1>13, <1>14, <1>15, <1>16, <1>19, <1>20 DEF IInv
(* A list is begun with the statement that waits, and put in front.        *)
LEMMA FirstStatementInv ==
  ASSUME IInv, FirstStatement
  PROVE  IInv'
<1> DEFINE n == Len(lists)
           m == Len(parser)
<1>1. /\ UNCHANGED <<repl, disk, yyin, buffernames, opened, modules, blocks, evaluated>>
      /\ lists' = Append(lists, parser[1].funcall) /\ parseTreeList' = <<n + 1>> \o parseTreeList
      /\ parser' = [parser EXCEPT ![1] = [list |-> n + 1, funcall |-> <<>>]]
      /\ parser[1].list = 0
  BY DEF FirstStatement, StatementInto, Context, Nothing, None, files, input, output
<1>2. TypeOK /\ InputsOpened /\ Waiting /\ ListsInStep /\ Pending
  BY DEF IInv, FirstStatement
<1>3. PICK t \in StatementType : parser[1].funcall = <<t>>
  BY <1>2, PendingOne
<1>4. /\ n \in Nat /\ lists \in Seq(Seq(StatementType)) /\ <<t>> \in Seq(StatementType)
      /\ Len(parseTreeList) \in Nat /\ m \in Nat /\ m >= 1 /\ parser \in Seq(ContextType)
  BY <1>2, ParserFacts DEF TypeOK
<1>5. /\ lists' \in Seq(Seq(StatementType)) /\ Len(lists') = n + 1 /\ lists'[n + 1] = <<t>>
      /\ \A l \in 1 .. n : lists'[l] = lists[l]
  BY <1>1, <1>3, <1>4, AppendProperties
<1>6. n + 1 \in Nat /\ n <= n + 1
  BY <1>4
<1>7. /\ parseTreeList' \in Seq(1 .. n + 1) /\ Len(parseTreeList') = Len(parseTreeList) + 1
      /\ parseTreeList'[1] = n + 1
      /\ \A i \in 1 .. Len(parseTreeList) : parseTreeList'[i + 1] = parseTreeList[i]
  <2>1. parseTreeList \in Seq(1 .. n + 1)
    BY <1>2, <1>6, MoreLists
  <2> QED  BY <1>1, <1>4, <2>1, ConsFacts
<1>8. /\ parser' \in Seq(ContextType) /\ Len(parser') = m
      /\ parser'[1].list = n + 1 /\ parser'[1].funcall = <<>>
      /\ \A i \in 2 .. m : parser'[i] = parser[i]
  <2> DEFINE c == [list |-> n + 1, funcall |-> <<>>]
  <2>1. c \in ContextType
    BY <1>4 DEF ContextType
  <2>2. c.list = n + 1 /\ c.funcall = <<>>
    OBVIOUS
  <2> HIDE DEF c
  <2>3. /\ [parser EXCEPT ![1] = c] \in Seq(ContextType) /\ Len([parser EXCEPT ![1] = c]) = m
        /\ \A i \in 1 .. m : [parser EXCEPT ![1] = c][i] = IF i = 1 THEN c ELSE parser[i]
    BY <1>4, <2>1, ExceptSeq
  <2>4. parser' = [parser EXCEPT ![1] = c]
    BY <1>1 DEF c
  <2> QED  BY <1>4, <2>2, <2>3, <2>4
<1>9. TypeOK'
  <2>1. /\ modules' \in Seq([prefix : File, data : 1 .. n + 1])
        /\ blocks' \subseteq [of : StatementType, list : 1 .. n + 1]
    BY <1>1, <1>2, <1>6, MoreLists
  <2>2. parser' # <<>>
    BY <1>4, <1>8
  <2> QED  BY <1>1, <1>2, <1>5, <1>7, <1>8, <2>1, <2>2 DEF TypeOK
<1>10. InputsOpened' /\ BlocksOpen'
  BY <1>1, <1>8 DEF IInv, InputsOpened, BlocksOpen, Here
<1>11. Waiting'
  <2>1. \A i \in 2 .. Len(parser') : parser'[i].funcall = Nothing
    BY <1>2, <1>8 DEF Waiting
  <2>2. ~Pending'
    BY <1>8 DEF Pending, Nothing
  <2>3. parser'[1].list # None
    BY <1>4, <1>8 DEF None
  <2> QED  BY <2>1, <2>2, <2>3 DEF Waiting
<1>12. ASSUME NEW i \in 1 .. m
       PROVE  /\ Cardinality(Listing(parser, i)) \in Nat
              /\ Cardinality(Listing(parser', i)) = Cardinality(Listing(parser, i)) + 1
  <2>1. IsFiniteSet(Listing(parser, i)) /\ Cardinality(Listing(parser, i)) \in Nat
    BY ListingFinite
  <2>2. 1 \notin Listing(parser, i)
    BY <1>1 DEF Listing, None
  <2>3. ASSUME NEW j \in 1 .. i, j # 1 PROVE j \in Listing(parser', i) <=> j \in Listing(parser, i)
    <3>1. parser'[j] = parser[j]
      BY <1>4, <1>8, <2>3
    <3> QED  BY <3>1 DEF Listing
  <2>4. 1 \in Listing(parser', i)
    BY <1>4, <1>8 DEF Listing, None
  <2>5. Listing(parser', i) \subseteq 1 .. i /\ Listing(parser, i) \subseteq 1 .. i
    BY DEF Listing
  <2>6. Listing(parser', i) = Listing(parser, i) \cup {1}
    BY <2>3, <2>4, <2>5
  <2> QED  BY <2>1, <2>2, <2>6, FS_AddElement
<1>13. ListsInStep'
  <2>1. m \in 1 .. m
    BY <1>4
  <2>2. Len(parseTreeList) = Len(yyin) - 1 + Cardinality(Listing(parser, m))
    BY <1>2 DEF ListsInStep
  <2>3. Len(parseTreeList') = Len(yyin') - 1 + Cardinality(Listing(parser', Len(parser')))
    <3>1. Len(yyin) \in Nat /\ yyin' = yyin
      BY <1>1, <1>2, HereFacts
    <3>2. /\ Cardinality(Listing(parser, m)) \in Nat
          /\ Cardinality(Listing(parser', m)) = Cardinality(Listing(parser, m)) + 1
      BY <1>12, <2>1
    <3> HIDE DEF m
    <3> QED  BY <1>4, <1>7, <1>8, <2>2, <3>1, <3>2
  <2>4. ASSUME NEW i \in 1 .. Len(parser') - 1, parser'[i].list # None
        PROVE  parser'[i].list = parseTreeList'[Cardinality(Listing(parser', i))]
    <3>1. i \in 1 .. m /\ i \in 1 .. m - 1
      BY <1>4, <1>8
    <3>2. CASE i = 1
      <4>1. Cardinality(Listing(parser', 1)) = 1
        BY <2>4, <3>2, ListingOne
      <4> QED  BY <1>7, <1>8, <3>2, <4>1
    <3>3. CASE i # 1
      <4>1. parser'[i] = parser[i]
        BY <1>4, <1>8, <3>1, <3>3
      <4>2. parser[i].list = parseTreeList[Cardinality(Listing(parser, i))]
        BY <1>2, <2>4, <3>1, <4>1 DEF ListsInStep
      <4>3. Cardinality(Listing(parser, i)) \in 1 .. Len(parseTreeList)
        <5>1. /\ Cardinality(Listing(parser, i)) \in Nat /\ Cardinality(Listing(parser, i)) >= 1
              /\ Cardinality(Listing(parser, m)) \in Nat
              /\ Cardinality(Listing(parser, i)) <= Cardinality(Listing(parser, m))
          BY <1>4, <2>4, <3>1, <4>1, ListingBounds
        <5>2. Len(yyin) \in Nat /\ Len(yyin) >= 1
          BY <1>2, HereFacts
        <5> QED  BY <1>4, <2>2, <5>1, <5>2
      <4>4. parseTreeList'[Cardinality(Listing(parser, i)) + 1] = parseTreeList[Cardinality(Listing(parser, i))]
        BY <1>7, <4>3
      <4>5. Cardinality(Listing(parser', i)) = Cardinality(Listing(parser, i)) + 1
        BY <1>12, <3>1
      <4> QED  BY <4>1, <4>2, <4>4, <4>5
    <3> QED  BY <3>2, <3>3
  <2> QED  BY <2>3, <2>4 DEF ListsInStep
<1>14. ListsKept'
  <2>1. ASSUME NEW i \in 1 .. Len(parseTreeList'), NEW j \in 1 .. Len(parseTreeList'), i < j
        PROVE  parseTreeList'[i] > parseTreeList'[j]
    <3>1. j - 1 \in 1 .. Len(parseTreeList) /\ (j - 1) + 1 = j
      BY <1>4, <1>7, <2>1
    <3>2. parseTreeList'[j] = parseTreeList[j - 1] /\ parseTreeList[j - 1] \in 1 .. n
      BY <1>2, <1>7, <3>1, ParserFacts
    <3>3. CASE i = 1
      BY <1>4, <1>7, <3>2, <3>3
    <3>4. CASE i # 1
      <4>1. i - 1 \in 1 .. Len(parseTreeList) /\ (i - 1) + 1 = i /\ i - 1 < j - 1
        BY <1>4, <1>7, <2>1, <3>4
      <4>2. parseTreeList'[i] = parseTreeList[i - 1]
        BY <1>7, <4>1
      <4> QED  BY <3>1, <3>2, <4>1, <4>2 DEF IInv, ListsKept
    <3> QED  BY <3>3, <3>4
  <2>2. InUse' = InUse \cup {n + 1}
    <3>1. parseTreeList \in Seq(1 .. n + 1) /\ n + 1 \in 1 .. n + 1
      <4>1. parseTreeList \in Seq(1 .. n + 1)
        BY <1>2, <1>6, MoreLists
      <4> QED  BY <1>4, <4>1
    <3>2. ToSet(parseTreeList') = ToSet(parseTreeList) \cup {n + 1}
      BY <1>1, <3>1, ConsRange
    <3> QED  BY <1>1, <3>2 DEF InUse
  <2>3. \A l \in 1 .. n + 1 : l \in 1 .. n \/ l = n + 1
    BY <1>4
  <2> QED  BY <1>1, <1>5, <2>1, <2>2, <2>3 DEF IInv, ListsKept
<1>15. \A s : IsRead(s)' <=> IsRead(s)
  BY <1>1, SameReads
<1>16. Statements'
  <2>1. <<>> \in Seq(StatementType) /\ <<>> \o <<t>> = <<t>>
    OBVIOUS
  <2>2. /\ n + 1 \in 1 .. Len(lists') /\ Len(lists') \in Nat /\ Len(lists) <= Len(lists')
        /\ ~(n + 1 \in 1 .. n)
        /\ \A k \in 1 .. Len(lists') : k = n + 1 \/ (k \in 1 .. Len(lists) /\ lists'[k] = lists[k])
    <3>1. /\ n + 1 \in 1 .. Len(lists') /\ Len(lists') \in Nat /\ n <= Len(lists') /\ ~(n + 1 \in 1 .. n)
          /\ \A k \in 1 .. Len(lists') : k = n + 1 \/ k \in 1 .. n
      BY <1>4, <1>5
    <3> QED  BY <1>5, <3>1
  <2>3. Awaited(t)
    BY <1>3 DEF Awaited
  <2>4. parser'[1].funcall = Nothing
    BY <1>8 DEF Nothing
  <2>5. TypeOK /\ Statements /\ repl' = repl /\ lists'[n + 1] = <<>> \o <<t>>
    BY <1>1, <1>5, <2>1 DEF IInv
  <2> QED  BY <1>15, <2>1, <2>2, <2>3, <2>4, <2>5, StatementListed
<1>17. EvaluatedRead'
  <2>1. ASSUME NEW l \in 1 .. n
        PROVE  l \in 1 .. Len(lists') /\ \A s : InList(l, s) => InList(l, s)'
    <3>1. l \in 1 .. Len(lists') /\ lists'[l] = lists[l]
      BY <1>4, <1>5
    <3> QED  BY <3>1 DEF InList
  <2>2. ASSUME NEW j \in 1 .. Len(parseTreeList')
        PROVE  \/ parseTreeList'[j] \notin 1 .. n
               \/ \E i \in 1 .. Len(parseTreeList) : parseTreeList'[j] = parseTreeList[i]
    <3>1. CASE j = 1
      BY <1>4, <1>7, <3>1
    <3>2. CASE j # 1
      <4>1. j - 1 \in 1 .. Len(parseTreeList) /\ (j - 1) + 1 = j
        BY <1>4, <1>7, <2>2, <3>2
      <4> QED  BY <1>7, <4>1
    <3> QED  BY <3>1, <3>2
  <2> QED  BY <1>1, <1>15, <2>1, <2>2, EvaluatedStays DEF IInv
<1> QED  BY <1>9, <1>10, <1>11, <1>13, <1>14, <1>16, <1>17 DEF IInv

(* The statement that waits goes into the list in front, in which only it  *)
(* is left at the prompt.                                                  *)
LEMMA FurtherStatementInv ==
  ASSUME IInv, FurtherStatement
  PROVE  IInv'
<1> DEFINE l == parseTreeList[1]
           kept == IF repl THEN <<>> ELSE lists[l]
           m == Len(parser)
<1>1. /\ UNCHANGED <<repl, disk, yyin, buffernames, opened, parseTreeList, modules, blocks, evaluated>>
      /\ lists' = [lists EXCEPT ![l] = kept \o parser[1].funcall]
      /\ parser' = [parser EXCEPT ![1] = [list |-> l, funcall |-> <<>>]]
      /\ parser[1].list # None
  BY DEF FurtherStatement, StatementInto, Context, Nothing, files, input, output
<1>2. TypeOK /\ InputsOpened /\ Waiting /\ ListsInStep /\ Pending
  BY DEF IInv, FurtherStatement
<1>3. PICK t \in StatementType : parser[1].funcall = <<t>>
  BY <1>2, PendingOne
<1>4. l \in 1 .. Len(lists) /\ Len(lists) \in Nat /\ Len(parseTreeList) >= 1
  BY <1>1, <1>2, ListInFront, ListsTyped
<1>5. kept \in Seq(StatementType) /\ kept \o <<t>> \in Seq(StatementType)
  <2>1. lists[l] \in Seq(StatementType)
    BY <1>2, <1>4, ListsTyped
  <2>2. kept \in Seq(StatementType) /\ <<t>> \in Seq(StatementType)
    BY <2>1
  <2> QED  BY <2>2, ConcatProperties
<1>6. /\ lists' \in Seq(Seq(StatementType)) /\ Len(lists') = Len(lists)
      /\ lists'[l] = kept \o <<t>> /\ \A k \in 1 .. Len(lists) : k # l => lists'[k] = lists[k]
  <2> DEFINE e == kept \o <<t>>
  <2>1. lists' = [lists EXCEPT ![l] = e] /\ lists \in Seq(Seq(StatementType)) /\ e \in Seq(StatementType)
    BY <1>1, <1>2, <1>3, <1>5 DEF TypeOK
  <2> HIDE DEF e
  <2>2. /\ lists' \in Seq(Seq(StatementType)) /\ Len(lists') = Len(lists)
        /\ \A k \in 1 .. Len(lists) : lists'[k] = IF k = l THEN e ELSE lists[k]
    BY <1>4, <2>1, ExceptSeq
  <2> QED  BY <1>4, <2>2 DEF e
<1>7. /\ parser' \in Seq(ContextType) /\ Len(parser') = m /\ m \in Nat /\ m >= 1
      /\ parser'[1].list = l /\ parser'[1].funcall = <<>>
      /\ \A i \in 2 .. m : parser'[i] = parser[i]
  <2> DEFINE c == [list |-> l, funcall |-> <<>>]
  <2>1. c \in ContextType /\ parser \in Seq(ContextType) /\ m \in Nat /\ m >= 1
    <3>1. l \in Nat /\ <<>> \in Seq(StatementType)
      BY <1>4
    <3>2. c \in ContextType
      BY <3>1 DEF ContextType
    <3> QED  BY <1>2, <3>2, ParserFacts DEF TypeOK
  <2>2. c.list = l /\ c.funcall = <<>>
    OBVIOUS
  <2> HIDE DEF c, l
  <2>3. /\ [parser EXCEPT ![1] = c] \in Seq(ContextType) /\ Len([parser EXCEPT ![1] = c]) = m
        /\ \A i \in 1 .. m : [parser EXCEPT ![1] = c][i] = IF i = 1 THEN c ELSE parser[i]
    BY <2>1, ExceptSeq
  <2>4. parser' = [parser EXCEPT ![1] = c]
    BY <1>1 DEF c
  <2> QED  BY <2>1, <2>2, <2>3, <2>4
<1>8. TypeOK'
  <2>1. parser' # <<>>
    BY <1>7
  <2> QED  BY <1>1, <1>2, <1>6, <1>7, <2>1 DEF TypeOK
<1>9. InputsOpened' /\ BlocksOpen'
  BY <1>1, <1>7 DEF IInv, InputsOpened, BlocksOpen, Here
<1>10. parser'[1].list # None
  BY <1>4, <1>7 DEF None
<1>11. Waiting'
  <2>1. \A i \in 2 .. Len(parser') : parser'[i].funcall = Nothing
    BY <1>2, <1>7 DEF Waiting
  <2>2. ~Pending'
    BY <1>7 DEF Pending, Nothing
  <2> QED  BY <1>10, <2>1, <2>2 DEF Waiting
<1>12. \A i \in 1 .. m : parser'[i].list # None <=> parser[i].list # None
  <2>1. \A i \in 1 .. m : i = 1 \/ i \in 2 .. m
    BY <1>7
  <2> QED  BY <1>1, <1>7, <1>10, <2>1
<1>13. ASSUME NEW i \in 1 .. m PROVE Listing(parser', i) = Listing(parser, i)
  <2>1. \A j \in 1 .. i : j \in 1 .. m
    BY <1>7
  <2>2. \A j \in 1 .. i : parser'[j].list # None <=> parser[j].list # None
    BY <1>12, <2>1
  <2> QED  BY <2>2, ListingSame
<1>14. ListsInStep'
  <2>1. m \in 1 .. m
    BY <1>7
  <2>2. Len(parseTreeList') = Len(yyin') - 1 + Cardinality(Listing(parser', Len(parser')))
    BY <1>1, <1>2, <1>7, <1>13, <2>1 DEF ListsInStep
  <2>3. ASSUME NEW i \in 1 .. Len(parser') - 1, parser'[i].list # None
        PROVE  parser'[i].list = parseTreeList'[Cardinality(Listing(parser', i))]
    <3>1. i \in 1 .. m /\ i \in 1 .. m - 1
      BY <1>7
    <3>2. CASE i = 1
      <4>1. Cardinality(Listing(parser', 1)) = 1
        BY <1>10, ListingOne
      <4> QED  BY <1>1, <1>7, <3>2, <4>1
    <3>3. CASE i # 1
      <4>1. parser'[i] = parser[i]
        BY <1>7, <3>1, <3>3
      <4> QED  BY <1>1, <1>2, <1>13, <2>3, <3>1, <4>1 DEF ListsInStep
    <3> QED  BY <3>2, <3>3
  <2> QED  BY <2>2, <2>3 DEF ListsInStep
<1>15. ListsKept'
  BY <1>1, <1>6 DEF IInv, ListsKept, InUse
<1>16. \A s : IsRead(s)' <=> IsRead(s)
  BY <1>1, SameReads
<1>17. Statements'
  <2>1. /\ Len(lists') \in Nat /\ l \in 1 .. Len(lists') /\ Len(lists) <= Len(lists')
        /\ \A k \in 1 .. Len(lists') : k = l \/ (k \in 1 .. Len(lists) /\ lists'[k] = lists[k])
    BY <1>4, <1>6
  <2>2. Awaited(t)
    BY <1>3 DEF Awaited
  <2>3. parser'[1].funcall = Nothing
    BY <1>7 DEF Nothing
  <2>4. TypeOK /\ Statements /\ repl' = repl
    BY <1>1 DEF IInv
  <2>5. kept = <<>> \/ (l \in 1 .. Len(lists) /\ kept = lists[l])
    BY <1>4
  <2>6. ~repl /\ l \in 1 .. Len(lists) => kept = lists[l]
    OBVIOUS
  <2> HIDE DEF kept, l
  <2> QED  BY <1>5, <1>6, <1>16, <2>1, <2>2, <2>3, <2>4, <2>5, <2>6, StatementListed
<1>18. EvaluatedRead'
  <2>1. ASSUME ~repl, NEW k \in 1 .. Len(lists)
        PROVE  k \in 1 .. Len(lists') /\ \A s : InList(k, s) => InList(k, s)'
    <3>1. CASE k = l
      <4>1. Len(lists[l]) \in Nat /\ lists[l] \in Seq(StatementType) /\ <<t>> \in Seq(StatementType) /\ Len(<<t>>) = 1
        BY <1>2, <1>4, ListsTyped
      <4>2. /\ Len(lists'[l]) = Len(lists[l]) + 1
            /\ \A i \in 1 .. Len(lists[l]) + 1 :
                 lists'[l][i] = IF i <= Len(lists[l]) THEN lists[l][i] ELSE <<t>>[i - Len(lists[l])]
        BY <1>6, <2>1, <4>1, ConcatProperties
      <4>3. \A i \in 1 .. Len(lists[l]) : i \in 1 .. Len(lists'[l]) /\ lists'[l][i] = lists[l][i]
        BY <4>1, <4>2
      <4> QED  BY <1>6, <3>1, <4>3 DEF InList
    <3>2. CASE k # l
      <4>1. lists'[k] = lists[k]
        BY <1>6, <3>2
      <4> QED  BY <1>6, <4>1 DEF InList
    <3> QED  BY <3>1, <3>2
  <2> QED  BY <1>1, <1>16, <2>1, EvaluatedStays DEF IInv
<1> QED  BY <1>8, <1>9, <1>11, <1>14, <1>15, <1>17, <1>18 DEF IInv
LEMMA ReadCallInv ==
  ASSUME IInv, ReadCall
  PROVE  IInv'
<1> DEFINE m == Len(parser)
<1>1. /\ UNCHANGED <<disk, repl, buffernames, opened, parseTreeList, lists, modules, blocks>>
      /\ parser' = [parser EXCEPT ![1].funcall = <<Statement>>]
      /\ Evaluated /\ Advance /\ ~Ended /\ ~Pending
  BY DEF ReadCall, At, FuncallRead, files, input
<1>2. TypeOK /\ InputsOpened /\ BlocksOpen /\ Waiting /\ ListsInStep /\ Statements /\ EvaluatedRead
  BY DEF IInv
<1>3. disk[Here.file][Here.pos] = Call /\ Statement \in StatementType
  BY <1>1, <1>2, ItemRead, HereFacts DEF ReadCall, At
<1>4. /\ parser' \in Seq(ContextType) /\ Len(parser') = m /\ m \in Nat /\ m >= 1
      /\ parser'[1].funcall = <<Statement>>
      /\ \A i \in 1 .. m : parser'[i].list = parser[i].list
      /\ \A i \in 2 .. m : parser'[i].funcall = parser[i].funcall
  <2>1. parser \in Seq(ContextType) /\ parser # <<>>
    BY <1>2 DEF TypeOK
  <2>2. parser' = Put(parser, Statement) /\ Statement \in StatementType
    BY <1>1, <1>3 DEF Put
  <2> QED  BY <2>1, <2>2, FuncallPut
<1>5. TypeOK'
  <2>1. yyin' \in Seq(InputType) /\ yyin' # <<>>
    BY <1>1, <1>2, AdvanceFacts
  <2>2. evaluated' \in Seq(StatementType)
    BY <1>1, <1>2, <1>3, EvaluatedSeq
  <2>3. parser' # <<>>
    BY <1>4
  <2> QED  BY <1>1, <1>2, <1>4, <2>1, <2>2, <2>3 DEF TypeOK
<1>6. InputsOpened'
  BY <1>1, <1>2, AdvanceInputs
<1>7. BlocksOpen'
  <2>1. disk[Here.file][Here.pos] # Open /\ disk[Here.file][Here.pos] # Close
    BY <1>3, ItemKinds
  <2> QED  BY <1>1, <1>2, <1>4, <2>1, BlocksAdvance
<1>8. Waiting'
  <2>1. \A i \in 2 .. Len(parser') : parser'[i].funcall = Nothing
    BY <1>2, <1>4 DEF Waiting
  <2>2. Pending' /\ Len(parser'[1].funcall) = 1
    BY <1>4 DEF Pending, Nothing
  <2> QED  BY <2>1, <2>2 DEF Waiting
<1>9. ListsInStep'
  <2>1. ASSUME NEW i \in 1 .. m PROVE Listing(parser', i) = Listing(parser, i)
    <3>1. \A j \in 1 .. i : j \in 1 .. m
      BY <1>4
    <3>2. \A j \in 1 .. i : parser'[j].list # None <=> parser[j].list # None
      BY <1>4, <3>1
    <3> QED  BY <3>2, ListingSame
  <2>2. Len(yyin') = Len(yyin) /\ m \in 1 .. m /\ \A i \in 1 .. m - 1 : i \in 1 .. m
    BY <1>1, <1>2, <1>4, AdvanceFacts
  <2>3. Len(parseTreeList') = Len(yyin') - 1 + Cardinality(Listing(parser', Len(parser')))
    BY <1>1, <1>2, <1>4, <2>1, <2>2 DEF ListsInStep
  <2>4. \A i \in 1 .. Len(parser') - 1 : parser'[i].list # None =>
          parser'[i].list = parseTreeList'[Cardinality(Listing(parser', i))]
    BY <1>1, <1>2, <1>4, <2>1, <2>2 DEF ListsInStep
  <2> QED  BY <2>3, <2>4 DEF ListsInStep
<1>10. ListsKept'
  BY <1>1 DEF IInv, ListsKept, InUse
<1>11. Statements'
  BY <1>1, <1>2, <1>3, <1>4, StatementRead
<1>12. EvaluatedRead'
  BY <1>1, <1>2, <1>3, EvaluatedNow
<1> QED  BY <1>5, <1>6, <1>7, <1>8, <1>9, <1>10, <1>11, <1>12 DEF IInv

LEMMA OpenBlockInv ==
  ASSUME IInv, OpenBlock
  PROVE  IInv'
<1> DEFINE m == Len(parser)
           text == disk[Here.file]
<1>1. /\ UNCHANGED <<disk, repl, buffernames, opened, parseTreeList, lists, modules, blocks, evaluated>>
      /\ parser' = <<[list |-> 0, funcall |-> <<>>]>> \o parser
      /\ Advance /\ ~Ended /\ ~Pending
  BY DEF OpenBlock, At, Context, None, Nothing, files, input, output
<1>2. TypeOK /\ InputsOpened /\ BlocksOpen /\ Waiting /\ ListsInStep /\ Statements /\ EvaluatedRead
  BY DEF IInv
<1>3. /\ text[Here.pos] = Open /\ Here.pos \in Nat \ {0} /\ text \in Seq(Item)
      /\ text[Here.pos] \notin {Call, Close}
  BY <1>1, <1>2, ItemRead, HereFacts, ItemKinds DEF OpenBlock, At
<1>4. /\ parser' \in Seq(ContextType) /\ parser' # <<>> /\ Len(parser') = m + 1 /\ m \in Nat /\ m >= 1
      /\ parser'[1].funcall = <<>> /\ parser'[1].list = 0
      /\ \A i \in 1 .. m : parser'[i + 1] = parser[i]
  <2> DEFINE c == [list |-> 0, funcall |-> <<>>]
  <2>1. c \in ContextType /\ c.list = 0 /\ c.funcall = <<>>
    BY DEF ContextType
  <2>2. parser \in Seq(ContextType) /\ m \in Nat /\ m >= 1 /\ parser' = <<c>> \o parser
    BY <1>1, <1>2, ParserFacts DEF TypeOK
  <2> HIDE DEF c
  <2> QED  BY <2>1, <2>2, ConsFacts
<1>5. /\ yyin' \in Seq(InputType) /\ yyin' # <<>> /\ Len(yyin') = Len(yyin)
      /\ Here'.file = Here.file /\ Here'.pos = Here.pos + 1
      /\ \A i \in 2 .. Len(yyin) : yyin'[i] = yyin[i]
  BY <1>1, <1>2, AdvanceFacts
<1>6. TypeOK'
  BY <1>1, <1>2, <1>4, <1>5 DEF TypeOK
<1>7. InputsOpened'
  BY <1>1, <1>2, AdvanceInputs
<1>8. BlocksOpen'
  <2>1. Depth(text, Here.pos) = Depth(text, Here.pos - 1) + 1 /\ Depth(text, Here.pos - 1) \in Int
    BY <1>3, DepthNext
  <2>2. (Here.pos + 1) - 1 = Here.pos
    BY <1>3
  <2>3. m - 1 = Depth(text, Here.pos - 1)
    BY <1>2 DEF BlocksOpen
  <2>4. (m + 1) - 1 = Depth(text, Here.pos)
    BY <1>4, <2>1, <2>3
  <2>5. Len(parser') - 1 = Depth(disk'[Here'.file], Here'.pos - 1)
    BY <1>1, <1>4, <1>5, <2>2, <2>4
  <2>6. \A i \in 2 .. Len(yyin') : Depth(disk'[yyin'[i].file], yyin'[i].pos - 1) = 0
    BY <1>1, <1>2, <1>5 DEF BlocksOpen
  <2> QED  BY <2>5, <2>6 DEF BlocksOpen
<1>9. Waiting'
  <2>1. ASSUME NEW i \in 2 .. Len(parser') PROVE parser'[i].funcall = Nothing
    <3>1. i - 1 \in 1 .. m /\ (i - 1) + 1 = i
      BY <1>4
    <3>2. parser'[i] = parser[i - 1]
      BY <1>4, <3>1
    <3>3. i - 1 = 1 \/ i - 1 \in 2 .. m
      BY <1>4, <3>1
    <3> QED  BY <1>1, <1>2, <3>2, <3>3 DEF Waiting, Pending
  <2>2. ~Pending'
    BY <1>4 DEF Pending, Nothing
  <2>3. Here'.pos > 1 /\ disk'[Here'.file][Here'.pos - 1] = Open
    <3>1. Here.pos + 1 > 1 /\ (Here.pos + 1) - 1 = Here.pos
      BY <1>3
    <3> QED  BY <1>1, <1>3, <1>5, <3>1
  <2> QED  BY <2>1, <2>2, <2>3 DEF Waiting
<1>10. ASSUME NEW i \in 1 .. m PROVE Cardinality(Listing(parser', i + 1)) = Cardinality(Listing(parser, i))
  <2>1. \A j \in 1 .. i : parser'[j + 1].list = parser[j].list
    BY <1>4
  <2>2. parser'[1].list = None
    BY <1>4 DEF None
  <2>3. Cardinality(Listing(parser, i)) \in Nat /\ i \in Nat
    BY ListingFinite
  <2>4. Cardinality(Listing(parser', i + 1))
          = Cardinality(Listing(parser, i)) + (IF parser'[1].list = None THEN 0 ELSE 1)
    BY <2>1, <2>3, ListingCons
  <2> QED  BY <2>2, <2>3, <2>4
<1>11. ListsInStep'
  <2>1. Len(parseTreeList') = Len(yyin') - 1 + Cardinality(Listing(parser', Len(parser')))
    <3>1. m \in 1 .. m
      BY <1>4
    <3>2. Cardinality(Listing(parser', m + 1)) = Cardinality(Listing(parser, m))
      BY <1>10, <3>1
    <3>3. Len(parseTreeList) = Len(yyin) - 1 + Cardinality(Listing(parser, m))
      BY <1>2 DEF ListsInStep
    <3> QED  BY <1>1, <1>4, <1>5, <3>2, <3>3
  <2>2. ASSUME NEW i \in 1 .. Len(parser') - 1, parser'[i].list # None
        PROVE  parser'[i].list = parseTreeList'[Cardinality(Listing(parser', i))]
    <3>1. i # 1
      BY <1>4, <2>2 DEF None
    <3>2. i - 1 \in 1 .. m - 1 /\ i - 1 \in 1 .. m /\ (i - 1) + 1 = i
      BY <1>4, <3>1
    <3>3. parser'[i] = parser[i - 1]
      BY <1>4, <3>2
    <3>4. parser[i - 1].list = parseTreeList[Cardinality(Listing(parser, i - 1))]
      BY <1>2, <2>2, <3>2, <3>3 DEF ListsInStep
    <3>5. Cardinality(Listing(parser', (i - 1) + 1)) = Cardinality(Listing(parser, i - 1))
      BY <1>10, <3>2
    <3> QED  BY <1>1, <3>2, <3>3, <3>4, <3>5
  <2> QED  BY <2>1, <2>2 DEF ListsInStep
<1>12. ListsKept'
  BY <1>1 DEF IInv, ListsKept, InUse
<1>13. \A s : IsRead(s)' <=> IsRead(s)
  BY <1>1, <1>2, <1>3, AdvanceReads
<1>14. Statements'
  <2>1. parser'[1].funcall = parser[1].funcall
    BY <1>1, <1>4 DEF Pending, Nothing
  <2>2. Len(lists) \in Nat /\ \A l \in 1 .. Len(lists') : ~(l > Len(lists))
    BY <1>1, <1>2, ListsTyped
  <2> QED  BY <1>1, <1>2, <1>13, <2>1, <2>2, StatementsStay
<1>15. EvaluatedRead'
  <2>1. \A l, s : InList(l, s)' <=> InList(l, s)
    BY <1>1 DEF InList
  <2> QED  BY <1>1, <1>2, <1>13, <2>1, EvaluatedStays
<1> QED  BY <1>6, <1>7, <1>8, <1>9, <1>11, <1>12, <1>14, <1>15 DEF IInv
(* The block's list is the one in front, and is taken off.                 *)
LEMMA CloseBlockInv ==
  ASSUME IInv, CloseBlock
  PROVE  IInv'
<1> DEFINE m == Len(parser)
           text == disk[Here.file]
           block == [of |-> Statement, list |-> parser[1].list]
<1>1. /\ UNCHANGED <<disk, repl, buffernames, opened, lists, modules>>
      /\ parseTreeList' = RemoveFirst(parseTreeList, parser[1].list)
      /\ blocks' = blocks \cup {block}
      /\ parser' = [Tail(parser) EXCEPT ![1].funcall = <<Statement>>]
      /\ Evaluated /\ Advance /\ ~Ended /\ ~Pending
  BY DEF CloseBlock, At, files, input
<1>2. TypeOK /\ InputsOpened /\ BlocksOpen /\ Waiting /\ ListsInStep /\ Statements /\ EvaluatedRead
  BY DEF IInv
<1>3. /\ text[Here.pos] = Close /\ m > 1 /\ ~(Here.pos > 1 /\ text[Here.pos - 1] = Open)
      /\ Here.pos \in Nat \ {0} /\ text \in Seq(Item) /\ Statement \in StatementType
  BY <1>1, <1>2, ItemRead, HereFacts DEF CloseBlock, At
<1>4. parser[1].list # None
  BY <1>1, <1>2, <1>3 DEF Waiting
<1>5. /\ parseTreeList # <<>> /\ parseTreeList[1] \in 1 .. Len(lists)
      /\ parser[1].list = parseTreeList[1]
  BY <1>2, <1>3, <1>4, ListInFront
<1>6. parseTreeList' = Tail(parseTreeList)
  BY <1>1, <1>2, <1>5, RemoveFirstIsTail DEF TypeOK
<1>7. /\ parseTreeList' \in Seq(1 .. Len(lists)) /\ Len(parseTreeList') = Len(parseTreeList) - 1
      /\ Len(parseTreeList) \in Nat
      /\ \A i \in 1 .. Len(parseTreeList) - 1 : parseTreeList'[i] = parseTreeList[i + 1]
  BY <1>2, <1>5, <1>6, TailFacts DEF TypeOK
<1>8. /\ parser' \in Seq(ContextType) /\ Len(parser') = m - 1 /\ m \in Nat /\ parser' # <<>>
      /\ parser'[1].funcall = <<Statement>>
      /\ \A i \in 1 .. m - 1 : parser'[i].list = parser[i + 1].list
      /\ \A i \in 2 .. m - 1 : parser'[i].funcall = parser[i + 1].funcall
  <2>1. parser \in Seq(ContextType) /\ parser # <<>> /\ m \in Nat
    BY <1>2, ParserFacts DEF TypeOK
  <2>2. /\ Tail(parser) \in Seq(ContextType) /\ Len(Tail(parser)) = m - 1
        /\ \A i \in 1 .. m - 1 : Tail(parser)[i] = parser[i + 1]
    BY <2>1, TailFacts
  <2> DEFINE t == Tail(parser)
  <2>3. t \in Seq(ContextType) /\ Len(t) = m - 1 /\ m - 1 # 0 /\ parser' = Put(t, Statement)
    BY <1>1, <1>3, <2>1, <2>2 DEF Put
  <2> HIDE DEF t
  <2>7. t # <<>>
    BY <2>3
  <2>8. /\ parser' \in Seq(ContextType) /\ Len(parser') = Len(t)
        /\ parser'[1].funcall = <<Statement>>
        /\ \A i \in 1 .. Len(t) : parser'[i].list = t[i].list
        /\ \A i \in 2 .. Len(t) : parser'[i].funcall = t[i].funcall
    BY <1>3, <2>3, <2>7, FuncallPut
  <2>4. /\ parser' \in Seq(ContextType) /\ Len(parser') = Len(Tail(parser))
        /\ parser'[1].funcall = <<Statement>>
        /\ \A i \in 1 .. Len(Tail(parser)) : parser'[i].list = Tail(parser)[i].list
        /\ \A i \in 2 .. Len(Tail(parser)) : parser'[i].funcall = Tail(parser)[i].funcall
    BY <2>8 DEF t
  <2>5. \A i \in 2 .. m - 1 : i \in 1 .. m - 1
    BY <2>1
  <2>6. parser' # <<>>
    BY <1>3, <2>1, <2>2, <2>4
  <2> QED  BY <2>1, <2>2, <2>4, <2>5, <2>6
<1>9. /\ yyin' \in Seq(InputType) /\ yyin' # <<>> /\ Len(yyin') = Len(yyin) /\ Len(yyin) \in Nat
      /\ Here'.file = Here.file /\ Here'.pos = Here.pos + 1
      /\ \A i \in 2 .. Len(yyin) : yyin'[i] = yyin[i]
  BY <1>1, <1>2, AdvanceFacts, HereFacts
<1>10. TypeOK'
  <2>1. evaluated' \in Seq(StatementType)
    BY <1>1, <1>2, <1>3, EvaluatedSeq
  <2>2. block \in [of : StatementType, list : 1 .. Len(lists)]
    BY <1>3, <1>5
  <2>3. blocks' \subseteq [of : StatementType, list : 1 .. Len(lists)]
    BY <1>1, <1>2, <2>2 DEF TypeOK
  <2> QED  BY <1>1, <1>2, <1>7, <1>8, <1>9, <2>1, <2>3 DEF TypeOK
<1>11. InputsOpened'
  BY <1>1, <1>2, AdvanceInputs
<1>12. BlocksOpen'
  <2>1. Depth(text, Here.pos) = Depth(text, Here.pos - 1) - 1 /\ Depth(text, Here.pos - 1) \in Int
    BY <1>3, DepthNext
  <2>2. (Here.pos + 1) - 1 = Here.pos
    BY <1>3
  <2>3. m - 1 = Depth(text, Here.pos - 1)
    BY <1>2 DEF BlocksOpen
  <2>4. (m - 1) - 1 = Depth(text, Here.pos)
    BY <2>1, <2>3
  <2>5. Len(parser') - 1 = Depth(disk'[Here'.file], Here'.pos - 1)
    BY <1>1, <1>8, <1>9, <2>2, <2>4
  <2>6. \A i \in 2 .. Len(yyin') : Depth(disk'[yyin'[i].file], yyin'[i].pos - 1) = 0
    BY <1>1, <1>2, <1>9 DEF BlocksOpen
  <2> QED  BY <2>5, <2>6 DEF BlocksOpen
<1>13. Waiting'
  <2>1. ASSUME NEW i \in 2 .. Len(parser') PROVE parser'[i].funcall = Nothing
    <3>1. i \in 2 .. m - 1 /\ i + 1 \in 2 .. m
      BY <1>8
    <3> QED  BY <1>2, <1>8, <3>1 DEF Waiting
  <2>2. Pending' /\ Len(parser'[1].funcall) = 1
    BY <1>8 DEF Pending, Nothing
  <2> QED  BY <2>1, <2>2 DEF Waiting
<1>14. ASSUME NEW i \in 1 .. m - 1
       PROVE  /\ Cardinality(Listing(parser', i)) \in Nat
              /\ Cardinality(Listing(parser, i + 1)) = Cardinality(Listing(parser', i)) + 1
  <2>1. i \in Nat /\ \A j \in 1 .. i : parser[j + 1].list = parser'[j].list
    BY <1>8
  <2>2. Cardinality(Listing(parser', i)) \in Nat
    BY <2>1, ListingFinite
  <2>3. Cardinality(Listing(parser, i + 1))
          = Cardinality(Listing(parser', i)) + (IF parser[1].list = None THEN 0 ELSE 1)
    BY <2>1, ListingCons
  <2> QED  BY <1>4, <2>2, <2>3
<1>15. ListsInStep'
  <2>1. m - 1 \in 1 .. m - 1 /\ (m - 1) + 1 = m
    BY <1>3, <1>8
  <2>2. Len(parseTreeList) = Len(yyin) - 1 + Cardinality(Listing(parser, m))
    BY <1>2 DEF ListsInStep
  <2>3. /\ Cardinality(Listing(parser', m - 1)) \in Nat
        /\ Cardinality(Listing(parser, m)) = Cardinality(Listing(parser', m - 1)) + 1
    BY <1>14, <2>1
  <2>4. Len(parseTreeList') = Len(yyin') - 1 + Cardinality(Listing(parser', Len(parser')))
    <3> HIDE DEF m
    <3> QED  BY <1>7, <1>8, <1>9, <2>2, <2>3
  <2>5. ASSUME NEW i \in 1 .. Len(parser') - 1, parser'[i].list # None
        PROVE  parser'[i].list = parseTreeList'[Cardinality(Listing(parser', i))]
    <3> DEFINE c == Cardinality(Listing(parser', i))
    <3>1. i \in 1 .. m - 1 /\ i + 1 \in 1 .. m - 1 /\ i \in 1 .. Len(parser') /\ Len(parser') \in Nat
      BY <1>8
    <3>2. parser'[i].list = parser[i + 1].list
      BY <1>8, <3>1
    <3>3. parser[i + 1].list = parseTreeList[Cardinality(Listing(parser, i + 1))]
      BY <1>2, <2>5, <3>1, <3>2 DEF ListsInStep
    <3>4. Cardinality(Listing(parser, i + 1)) = c + 1
      BY <1>14, <3>1
    <3>5. /\ c \in Nat /\ c >= 1 /\ Cardinality(Listing(parser', Len(parser'))) \in Nat
          /\ c <= Cardinality(Listing(parser', Len(parser')))
      BY <2>5, <3>1, ListingBounds
    <3>6. Len(yyin') >= 1
      BY <1>2, <1>9, HereFacts
    <3> HIDE DEF c
    <3>7. c \in 1 .. Len(parseTreeList) - 1
      BY <1>7, <1>9, <2>4, <3>5, <3>6
    <3>8. parseTreeList'[c] = parseTreeList[c + 1]
      BY <1>7, <3>7
    <3> QED  BY <3>2, <3>3, <3>4, <3>8 DEF c
  <2> QED  BY <2>4, <2>5 DEF ListsInStep
<1>16. ListsKept'
  <2>1. ASSUME NEW i \in 1 .. Len(parseTreeList'), NEW j \in 1 .. Len(parseTreeList'), i < j
        PROVE  parseTreeList'[i] > parseTreeList'[j]
    <3>1. /\ i + 1 \in 1 .. Len(parseTreeList) /\ j + 1 \in 1 .. Len(parseTreeList) /\ i + 1 < j + 1
          /\ parseTreeList'[i] = parseTreeList[i + 1] /\ parseTreeList'[j] = parseTreeList[j + 1]
      <4>1. /\ Len(parseTreeList) \in Nat
            /\ i \in 1 .. Len(parseTreeList) - 1 /\ j \in 1 .. Len(parseTreeList) - 1
        BY <1>7
      <4> QED  BY <1>7, <2>1, <4>1
    <3> QED  BY <3>1 DEF IInv, ListsKept
  <2>2. ToSet(parseTreeList) \subseteq ToSet(parseTreeList') \cup {parseTreeList[1]}
    BY <1>2, <1>5, <1>6, TailRange DEF TypeOK
  <2>3. block \in blocks' /\ block.list = parseTreeList[1] /\ blocks \subseteq blocks'
    BY <1>1, <1>5
  <2>4. InUse \subseteq InUse'
    BY <1>1, <2>2, <2>3 DEF InUse
  <2> QED  BY <1>1, <2>1, <2>4 DEF IInv, ListsKept
<1>17. Statements'
  BY <1>1, <1>2, <1>3, <1>8, StatementRead
<1>18. EvaluatedRead'
  <2>1. \A j \in 1 .. Len(parseTreeList') :
          \E i \in 1 .. Len(parseTreeList) : parseTreeList'[j] = parseTreeList[i]
    BY <1>2, <1>5, <1>6, TailRange DEF TypeOK
  <2> QED  BY <1>1, <1>2, <1>3, <2>1, EvaluatedNow
<1> QED  BY <1>10, <1>11, <1>12, <1>13, <1>15, <1>16, <1>17, <1>18 DEF IInv

(* The statements of an import are evaluated, and its list is taken off.   *)
LEMMA EndOfImportInv ==
  ASSUME IInv, EndOfImport
  PROVE  IInv'
<1> DEFINE l == parseTreeList[1]
           n == Len(evaluated)
<1>1. /\ UNCHANGED <<disk, repl, opened, lists, parser, blocks>>
      /\ modules' = IF repl THEN modules ELSE Append(modules, [prefix |-> buffernames[1], data |-> l])
      /\ evaluated' = IF repl THEN evaluated ELSE evaluated \o lists[l]
      /\ parseTreeList' = Tail(parseTreeList)
      /\ yyin' = Tail(yyin)
      /\ buffernames' = Tail(buffernames)
      /\ parser[1].list # None /\ ~Pending /\ Ended /\ Len(yyin) > 1
  BY HereFacts DEF EndOfImport, ImportEnds, AtEnd, input, IInv
<1>2. TypeOK /\ InputsOpened /\ BlocksOpen /\ Waiting /\ ListsInStep /\ ListsKept /\ Statements /\ EvaluatedRead
  BY DEF IInv
<1>3. parseTreeList # <<>> /\ l \in 1 .. Len(lists) /\ Len(lists) \in Nat
  BY <1>1, <1>2, ListInFront, ListsTyped
<1>4. /\ parseTreeList' \in Seq(1 .. Len(lists)) /\ Len(parseTreeList') = Len(parseTreeList) - 1
      /\ Len(parseTreeList) \in Nat /\ Len(parseTreeList) >= 1
      /\ \A i \in 1 .. Len(parseTreeList) - 1 : parseTreeList'[i] = parseTreeList[i + 1]
  BY <1>1, <1>2, <1>3, TailFacts DEF TypeOK
<1>5. /\ yyin' \in Seq(InputType) /\ Len(yyin') = Len(yyin) - 1
      /\ Len(yyin) \in Nat
      /\ \A i \in 1 .. Len(yyin) - 1 : yyin'[i] = yyin[i + 1]
  <2>1. yyin \in Seq(InputType) /\ yyin # <<>>
    BY <1>2 DEF TypeOK
  <2> QED  BY <1>1, <2>1, TailFacts
<1>6. yyin' # <<>>
  BY <1>1, <1>5
<1>7. Len(buffernames) = Len(yyin) - 1 /\ buffernames \in Seq(File) /\ buffernames # <<>>
  <2>1. Len(buffernames) = Len(yyin) - 1 /\ buffernames \in Seq(File)
    BY <1>2 DEF InputsOpened, TypeOK
  <2>2. Len(buffernames) # 0
    BY <1>1, <1>5, <2>1
  <2> QED  BY <2>1, <2>2
<1>8. /\ buffernames' \in Seq(File) /\ Len(buffernames') = Len(buffernames) - 1 /\ buffernames[1] \in File
      /\ \A i \in 1 .. Len(buffernames) - 1 : buffernames'[i] = buffernames[i + 1]
  BY <1>1, <1>7, TailFacts
<1>9. lists[l] \in Seq(StatementType) /\ Len(lists[l]) \in Nat /\ n \in Nat /\ evaluated \in Seq(StatementType)
  BY <1>2, <1>3, ListsTyped, EvaluatedTyped DEF TypeOK
<1>10. TypeOK'
  <2>1. modules' \in Seq([prefix : File, data : 1 .. Len(lists)])
    <3> DEFINE D == [prefix : File, data : 1 .. Len(lists)]
               x == [prefix |-> buffernames[1], data |-> l]
    <3>1. modules \in Seq(D) /\ x \in D
      BY <1>2, <1>3, <1>8 DEF TypeOK
    <3>2. modules' = modules \/ modules' = Append(modules, x)
      BY <1>1
    <3> HIDE DEF D, x
    <3>3. modules' \in Seq(D)
      BY <3>1, <3>2, AppendProperties
    <3> QED  BY <3>3 DEF D
  <2>2. evaluated' \in Seq(StatementType)
    <3>1. evaluated' = evaluated \/ evaluated' = evaluated \o lists[l]
      BY <1>1
    <3> QED  BY <1>9, <3>1, ConcatProperties
  <2> QED  BY <1>1, <1>2, <1>4, <1>5, <1>6, <1>8, <2>1, <2>2 DEF TypeOK
<1>11. InputsOpened'
  <2>1. ASSUME NEW i \in 1 .. Len(yyin') PROVE i + 1 \in 1 .. Len(yyin) /\ yyin'[i] = yyin[i + 1]
    BY <1>5
  <2>2. \A i \in 1 .. Len(yyin') :
          /\ yyin'[i].nth <= Len(opened') /\ opened'[yyin'[i].nth] = yyin'[i].file
          /\ yyin'[i].pos <= Len(disk'[yyin'[i].file]) + 1
    BY <1>1, <1>2, <2>1 DEF InputsOpened
  <2>3. ASSUME NEW i \in 1 .. Len(yyin'), NEW j \in 1 .. Len(yyin'), i < j
        PROVE  yyin'[i].nth > yyin'[j].nth
    <3>1. i + 1 < j + 1
      BY <1>5, <2>3
    <3> QED  BY <1>2, <2>1, <3>1 DEF InputsOpened
  <2>4. Len(buffernames') = Len(yyin') - 1
    BY <1>5, <1>7, <1>8
  <2>5. ASSUME NEW i \in 1 .. Len(buffernames') PROVE yyin'[i].file = buffernames'[i]
    <3>1. i \in 1 .. Len(yyin') /\ i + 1 \in 1 .. Len(buffernames) /\ i \in 1 .. Len(buffernames) - 1
      BY <1>5, <1>7, <1>8, <2>4
    <3> QED  BY <1>2, <1>8, <2>1, <3>1 DEF InputsOpened
  <2> QED  BY <2>2, <2>3, <2>4, <2>5 DEF InputsOpened
<1>12. Len(parser) = 1
  <2>1. Here.pos = Len(disk[Here.file]) + 1 /\ Len(disk[Here.file]) \in Nat /\ Here.file \in File
    BY <1>1, <1>2, HereFacts DEF InputType
  <2>2. Here.pos - 1 = Len(disk[Here.file])
    BY <2>1
  <2>3. Depth(disk[Here.file], Here.pos - 1) = 0
    BY <1>2, <2>1, <2>2, DiskFacts
  <2>4. Len(parser) - 1 = 0
    BY <1>2, <2>3 DEF BlocksOpen
  <2>5. Len(parser) \in Nat
    BY <1>2, ParserFacts
  <2> QED  BY <2>4, <2>5
<1>13. BlocksOpen'
  <2>1. yyin'[1] = yyin[2] /\ 2 \in 2 .. Len(yyin)
    BY <1>1, <1>5
  <2>2. Len(parser') - 1 = Depth(disk'[Here'.file], Here'.pos - 1)
    BY <1>1, <1>2, <1>12, <2>1 DEF BlocksOpen, Here
  <2>3. ASSUME NEW i \in 2 .. Len(yyin') PROVE Depth(disk[yyin'[i].file], yyin'[i].pos - 1) = 0
    <3>1. i + 1 \in 2 .. Len(yyin) /\ yyin'[i] = yyin[i + 1]
      BY <1>5
    <3> QED  BY <1>2, <3>1 DEF BlocksOpen
  <2> QED  BY <1>1, <2>2, <2>3 DEF BlocksOpen
<1>14. Waiting'
  BY <1>1, <1>12 DEF IInv, Waiting, Pending
<1>15. ListsInStep'
  <2>1. Cardinality(Listing(parser, 1)) \in Nat
    BY ListingFinite
  <2>2. Len(parseTreeList) = Len(yyin) - 1 + Cardinality(Listing(parser, 1))
    BY <1>2, <1>12 DEF ListsInStep
  <2>3. Len(parseTreeList') = Len(yyin') - 1 + Cardinality(Listing(parser, 1))
    BY <1>4, <1>5, <2>1, <2>2
  <2>4. 1 .. Len(parser') - 1 = {} /\ Listing(parser', Len(parser')) = Listing(parser, 1)
    BY <1>1, <1>12
  <2> QED  BY <2>3, <2>4 DEF ListsInStep
<1>16. ListsKept'
  <2>1. ASSUME NEW i \in 1 .. Len(parseTreeList'), NEW j \in 1 .. Len(parseTreeList'), i < j
        PROVE  parseTreeList'[i] > parseTreeList'[j]
    <3>1. /\ i + 1 \in 1 .. Len(parseTreeList) /\ j + 1 \in 1 .. Len(parseTreeList) /\ i + 1 < j + 1
          /\ parseTreeList'[i] = parseTreeList[i + 1] /\ parseTreeList'[j] = parseTreeList[j + 1]
      BY <1>4, <2>1
    <3> QED  BY <1>2, <3>1 DEF ListsKept
  <2>2. ASSUME ~repl PROVE 1 .. Len(lists) \subseteq InUse'
    <3> DEFINE x == [prefix |-> buffernames[1], data |-> l]
    <3>1. ToSet(parseTreeList) \subseteq ToSet(parseTreeList') \cup {l}
      BY <1>1, <1>2, <1>3, TailRange DEF TypeOK
    <3>2. ToSet(modules') = ToSet(modules) \cup {x}
      BY <1>1, <1>2, <2>2, AppendRange DEF TypeOK
    <3>3. x.data = l
      OBVIOUS
    <3> HIDE DEF x, l
    <3>4. InUse \subseteq InUse'
      BY <1>1, <3>1, <3>2, <3>3 DEF InUse
    <3> QED  BY <1>2, <2>2, <3>4 DEF ListsKept
  <2> QED  BY <1>1, <2>1, <2>2 DEF ListsKept
<1>17. ASSUME NEW s PROVE IsRead(s)' <=> IsRead(s)
  <2>1. ASSUME IsRead(s) PROVE IsRead(s)'
    <3>1. \A i \in 1 .. Len(yyin') : yyin'[i].nth = s.nth => s.pos < yyin'[i].pos
      <4>1. \A i \in 1 .. Len(yyin') : i + 1 \in 1 .. Len(yyin) /\ yyin'[i] = yyin[i + 1]
        BY <1>5
      <4> QED  BY <2>1, <4>1 DEF IsRead
    <3> QED  BY <1>1, <2>1, <3>1 DEF IsRead
  <2>2. ASSUME IsRead(s)' PROVE IsRead(s)
    <3>1. /\ s \in StatementType /\ s.nth <= Len(opened)
          /\ s.pos <= Len(disk[opened[s.nth]]) /\ disk[opened[s.nth]][s.pos] \in {Call, Close}
          /\ \A i \in 1 .. Len(yyin') : yyin'[i].nth = s.nth => s.pos < yyin'[i].pos
      BY <1>1, <2>2 DEF IsRead
    <3>2. ASSUME NEW i \in 1 .. Len(yyin), yyin[i].nth = s.nth PROVE s.pos < yyin[i].pos
      <4>1. CASE i = 1
        <5>1. Here.nth = s.nth
          BY <3>2, <4>1 DEF Here
        <5>2. /\ Here.pos = Len(disk[Here.file]) + 1 /\ Len(disk[Here.file]) \in Nat
              /\ opened[Here.nth] = Here.file
          BY <1>1, <1>2, HereFacts
        <5>3. s.pos \in Nat /\ s.pos <= Len(disk[Here.file])
          BY <3>1, <5>1, <5>2 DEF StatementType
        <5>4. s.pos < Here.pos
          BY <5>2, <5>3
        <5> QED  BY <4>1, <5>4 DEF Here
      <4>2. CASE i # 1
        <5>1. i - 1 \in 1 .. Len(yyin') /\ (i - 1) + 1 = i /\ i - 1 \in 1 .. Len(yyin) - 1
          BY <1>5, <4>2
        <5>2. yyin'[i - 1] = yyin[i]
          BY <1>5, <5>1
        <5> QED  BY <3>1, <3>2, <5>1, <5>2
      <4> QED  BY <4>1, <4>2
    <3> QED  BY <3>1, <3>2 DEF IsRead
  <2> QED  BY <2>1, <2>2
<1>18. Statements'
  <2>1. /\ Len(lists') \in Nat /\ Len(lists) <= Len(lists')
        /\ \A k \in 1 .. Len(lists') : ~(k > Len(lists))
    BY <1>1, <1>3
  <2> QED  BY <1>1, <1>2, <1>17, <2>1, StatementsStay
<1>19. EvaluatedRead'
  <2>1. \A k, s : InList(k, s)' <=> InList(k, s)
    BY <1>1 DEF InList
  <2>2. CASE repl
    <3>1. \A j \in 1 .. Len(parseTreeList') :
            \E i \in 1 .. Len(parseTreeList) : parseTreeList'[j] = parseTreeList[i]
      BY <1>1, <1>2, <1>3, TailRange DEF TypeOK
    <3> QED  BY <1>1, <1>2, <1>17, <2>1, <2>2, <3>1, EvaluatedStays
  <2>3. CASE ~repl
    <3> DEFINE k == Len(lists[l])
    <3>1. /\ Len(evaluated') = n + k
          /\ \A i \in 1 .. n + k : evaluated'[i] = IF i <= n THEN evaluated[i] ELSE lists[l][i - n]
      BY <1>1, <1>9, <2>3, ConcatProperties
    <3>2. ASSUME NEW i \in 1 .. n + k
          PROVE  \/ i \in 1 .. n /\ evaluated'[i] = evaluated[i]
                 \/ i \notin 1 .. n /\ i - n \in 1 .. k /\ evaluated'[i] = lists[l][i - n]
      BY <1>9, <3>1
    <3>3. ASSUME NEW i \in 1 .. n + k, NEW s, s = evaluated'[i] PROVE IsRead(s)'
      <4>1. \A j \in 1 .. n : IsRead(evaluated[j])
        BY <1>2 DEF EvaluatedRead
      <4>2. \A j \in 1 .. k : IsRead(lists[l][j])
        BY <1>2, <1>3 DEF Statements, ListedRead
      <4>3. IsRead(s)
        BY <3>2, <3>3, <4>1, <4>2
      <4> QED  BY <1>17, <4>3
    <3>4. ASSUME NEW i \in 1 .. n PROVE ~InList(l, evaluated[i])
      <4>1. PICK h \in 1 .. Len(lists) : /\ InList(h, evaluated[i])
                                        /\ \A j \in 1 .. Len(parseTreeList) : parseTreeList[j] # h
        BY <1>2, <2>3 DEF EvaluatedRead
      <4>2. 1 \in 1 .. Len(parseTreeList)
        BY <1>4
      <4>3. h # l
        BY <4>1, <4>2
      <4> QED  BY <1>2, <1>3, <4>1, <4>3 DEF Statements, ListsApart
    <3>5. ASSUME NEW j \in 1 .. Len(parseTreeList') PROVE parseTreeList'[j] # l
      <4>1. /\ j + 1 \in 1 .. Len(parseTreeList) /\ parseTreeList'[j] = parseTreeList[j + 1]
            /\ 1 \in 1 .. Len(parseTreeList) /\ 1 < j + 1
        BY <1>4
      <4>2. l > parseTreeList[j + 1]
        BY <1>2, <4>1 DEF ListsKept
      <4>3. parseTreeList[j + 1] \in Nat
        BY <1>2, <1>3, <4>1, ParserFacts
      <4> QED  BY <1>3, <4>1, <4>2, <4>3
    <3>6. ASSUME NEW i \in 1 .. n + k
          PROVE  (\E h \in 1 .. Len(lists) : InList(h, evaluated[i])
                     /\ \A j \in 1 .. Len(parseTreeList) : parseTreeList[j] # h)'
      <4>1. CASE i \in 1 .. n
        <5>1. PICK h \in 1 .. Len(lists) : /\ InList(h, evaluated[i])
                                          /\ \A j \in 1 .. Len(parseTreeList) : parseTreeList[j] # h
          BY <1>2, <2>3, <4>1 DEF EvaluatedRead
        <5>2. \A j \in 1 .. Len(parseTreeList') : parseTreeList'[j] # h
          BY <1>4, <5>1
        <5>3. InList(h, evaluated[i])'
          BY <1>1, <3>2, <4>1, <5>1 DEF InList
        <5> QED  BY <1>1, <5>1, <5>2, <5>3
      <4>2. CASE i \notin 1 .. n
        <5>1. i - n \in 1 .. k /\ evaluated'[i] = lists[l][i - n]
          BY <3>2, <4>2
        <5>2. \E j \in 1 .. Len(lists'[l]) : lists'[l][j] = evaluated'[i]
          BY <1>1, <5>1
        <5>3. \A h : h = l => InList(h, evaluated[i])'
          BY <5>2 DEF InList
        <5>4. \E h \in 1 .. Len(lists') : h = l
          BY <1>1, <1>3
        <5> QED  BY <3>5, <5>3, <5>4
      <4> QED  BY <4>1, <4>2
    <3>7. ASSUME NEW i \in 1 .. k, NEW j \in 1 .. k, lists[l][i] = lists[l][j] PROVE i = j
      <4>1. lists[l][i] \in StatementType
        BY <1>2, <1>3, ListsTyped
      <4>2. lists[l][i].pos \in Nat /\ lists[l][j].pos = lists[l][i].pos
        BY <3>7, <4>1 DEF StatementType
      <4>3. ~(i < j) /\ ~(j < i)
        BY <1>2, <1>3, <3>7, <4>2 DEF Statements, OrderKept
      <4> QED  BY <1>9, <4>3
    <3>8. \A i \in 1 .. n : \A j \in 1 .. k : evaluated[i] # lists[l][j]
      BY <3>4 DEF InList
    <3>9. \A i, j \in 1 .. n : evaluated[i] = evaluated[j] => i = j
      BY <1>2 DEF EvaluatedRead
    <3>10. ASSUME NEW i \in 1 .. n + k, NEW j \in 1 .. n + k, evaluated'[i] = evaluated'[j] PROVE i = j
      <4>1. CASE i \in 1 .. n /\ j \in 1 .. n
        BY <3>2, <3>9, <3>10, <4>1
      <4>2. CASE i \notin 1 .. n /\ j \notin 1 .. n
        <5>1. i - n = j - n
          <6>1. /\ i - n \in 1 .. k /\ evaluated'[i] = lists[l][i - n]
                /\ j - n \in 1 .. k /\ evaluated'[j] = lists[l][j - n]
            BY <3>2, <4>2
          <6> QED  BY <3>7, <3>10, <6>1
        <5>2. n \in Int /\ k \in Int /\ i \in Int /\ j \in Int
          BY <1>9
        <5> HIDE DEF n, k
        <5> QED  BY <5>1, <5>2
      <4>3. CASE i \in 1 .. n /\ j \notin 1 .. n
        BY <3>2, <3>8, <3>10, <4>3
      <4>4. CASE i \notin 1 .. n /\ j \in 1 .. n
        BY <3>2, <3>8, <3>10, <4>4
      <4> QED  BY <4>1, <4>2, <4>3, <4>4
    <3> HIDE DEF k, n
    <3> QED  BY <1>1, <2>3, <3>1, <3>3, <3>6, <3>10 DEF EvaluatedRead
  <2> QED  BY <2>2, <2>3
<1> QED  BY <1>10, <1>11, <1>13, <1>14, <1>15, <1>16, <1>18, <1>19 DEF IInv
LEMMA Inductive == IInv /\ [Next]_vars => IInv'
<1> SUFFICES ASSUME IInv, [Next]_vars PROVE IInv'
  OBVIOUS
<1>1. CASE Import
  BY <1>1, ImportInv
<1>2. CASE ImportNotFound
  BY <1>2, ImportNotFoundInv
<1>3. CASE FirstStatement
  BY <1>3, FirstStatementInv
<1>4. CASE FurtherStatement
  BY <1>4, FurtherStatementInv
<1>5. CASE ReadCall
  BY <1>5, ReadCallInv
<1>6. CASE OpenBlock
  BY <1>6, OpenBlockInv
<1>7. CASE CloseBlock
  BY <1>7, CloseBlockInv
<1>8. CASE EndOfImport
  BY <1>8, EndOfImportInv
<1>9. CASE CallFails \/ EndOfEmptyImport \/ EndOfMain \/ NoStatement
  BY <1>9, ReadingEnds DEF CallFails, EndOfEmptyImport, EndOfMain, NoStatement
<1>10. CASE UNCHANGED vars
  BY <1>10, ReadingEnds DEF vars, files, input, output
<1> QED  BY <1>1, <1>2, <1>3, <1>4, <1>5, <1>6, <1>7, <1>8, <1>9, <1>10 DEF Next

-----------------------------------------------------------------------------
(* What the invariant says of the properties.                              *)

LEMMA ReadSet ==
  ASSUME TypeOK, InputsOpened
  PROVE  \A s : s \in AllRead <=> IsRead(s)
<1>1. /\ Len(opened) \in Nat /\ Len(yyin) \in Nat
      /\ \A i \in 1 .. Len(yyin) : yyin[i] \in InputType
      /\ \A i \in 1 .. Len(opened) : opened[i] \in File
  BY HereFacts, ElementOfSeq DEF TypeOK
<1>2. \A i \in 1 .. Len(yyin) : yyin[i].nth \in Nat /\ yyin[i].pos \in Nat \ {0}
  BY <1>1 DEF InputType
<1>3. ASSUME NEW nth \in 1 .. Len(opened), NEW p \in Nat \ {0}, NEW s, s = [nth |-> nth, pos |-> p]
      PROVE  s \in StatementsRead(nth) <=> IsRead(s)
  <2> DEFINE text == disk[opened[nth]]
             read == {i \in 1 .. Len(yyin) : yyin[i].nth = nth}
             upTo == IF read = {} THEN Len(text) ELSE yyin[CHOOSE i \in read : TRUE].pos - 1
  <2>1. Len(text) \in Nat
    BY <1>1, DiskFacts
  <2>2. s \in StatementType /\ s.nth = nth /\ s.pos = p
    BY <1>1, <1>3 DEF StatementType
  <2>3. s \in StatementsRead(nth) <=> p \in 1 .. upTo /\ text[p] \in {Call, Close}
    <3> DEFINE Q == {q \in 1 .. upTo : text[q] \in {Call, Close}}
    <3>1. StatementsRead(nth) = {[nth |-> nth, pos |-> q] : q \in Q}
      BY DEF StatementsRead
    <3>2. \A q : s = [nth |-> nth, pos |-> q] <=> q = p
      BY <1>3
    <3>3. p \in Q <=> p \in 1 .. upTo /\ text[p] \in {Call, Close}
      OBVIOUS
    <3> HIDE DEF Q, upTo, text
    <3>4. s \in StatementsRead(nth) <=> \E q \in Q : s = [nth |-> nth, pos |-> q]
      BY <3>1
    <3>5. s \in StatementsRead(nth) <=> p \in Q
      BY <3>2, <3>4
    <3> QED  BY <3>3, <3>5
  <2>4. CASE read = {}
    <3>1. upTo = Len(text)
      BY <2>4
    <3>2. \A i \in 1 .. Len(yyin) : yyin[i].nth # nth
      BY <2>4
    <3>3. p \in 1 .. upTo <=> p <= Len(text)
      BY <2>1, <3>1
    <3> QED  BY <1>1, <2>2, <2>3, <3>2, <3>3 DEF IsRead
  <2>5. CASE read # {}
    <3> DEFINE j == CHOOSE i \in read : TRUE
    <3>1. j \in 1 .. Len(yyin) /\ yyin[j].nth = nth
      BY <2>5
    <3>2. upTo = yyin[j].pos - 1
      BY <2>5
    <3> HIDE DEF j, upTo, read
    <3>3. ASSUME NEW i \in 1 .. Len(yyin), yyin[i].nth = nth PROVE i = j
      <4>1. ~(i < j) /\ ~(j < i)
        BY <1>1, <1>2, <3>1, <3>3 DEF InputsOpened
      <4> QED  BY <1>1, <3>1, <4>1
    <3>4. yyin[j].pos <= Len(text) + 1 /\ yyin[j].pos \in Nat \ {0}
      BY <1>2, <3>1 DEF InputsOpened
    <3>5. p \in 1 .. upTo <=> p <= Len(text) /\ p < yyin[j].pos
      BY <2>1, <3>2, <3>4
    <3>6. (\A i \in 1 .. Len(yyin) : yyin[i].nth = nth => p < yyin[i].pos) <=> p < yyin[j].pos
      BY <3>1, <3>3
    <3> QED  BY <1>1, <2>2, <2>3, <3>5, <3>6 DEF IsRead
  <2> QED  BY <2>4, <2>5
<1>4. ASSUME NEW s, s \in AllRead PROVE IsRead(s)
  <2>1. PICK nth \in 1 .. Len(opened) : s \in StatementsRead(nth)
    BY <1>4 DEF AllRead
  <2>2. PICK p : p >= 1 /\ p \in Nat /\ s = [nth |-> nth, pos |-> p]
    <3> DEFINE upTo == IF {i \in 1 .. Len(yyin) : yyin[i].nth = nth} = {} THEN Len(disk[opened[nth]])
                       ELSE yyin[CHOOSE i \in {i \in 1 .. Len(yyin) : yyin[i].nth = nth} : TRUE].pos - 1
    <3>1. StatementsRead(nth) =
            {[nth |-> nth, pos |-> q] : q \in {q \in 1 .. upTo : disk[opened[nth]][q] \in {Call, Close}}}
      BY DEF StatementsRead
    <3>2. \A q \in 1 .. upTo : q >= 1 /\ q \in Nat
      OBVIOUS
    <3> HIDE DEF upTo
    <3> QED  BY <2>1, <3>1, <3>2
  <2> QED  BY <1>3, <2>1, <2>2
<1>5. ASSUME NEW s, IsRead(s) PROVE s \in AllRead
  <2>1. s \in StatementType /\ s.nth \in 1 .. Len(opened) /\ s.pos \in Nat \ {0}
    BY <1>1, <1>5 DEF IsRead, StatementType
  <2>2. s = [nth |-> s.nth, pos |-> s.pos]
    BY <2>1 DEF StatementType
  <2>3. s \in StatementsRead(s.nth)
    BY <1>3, <1>5, <2>1, <2>2
  <2> QED  BY <2>1, <2>3 DEF AllRead
<1> QED  BY <1>4, <1>5

LEMMA InjectiveLists ==
  ASSUME TypeOK, OrderKept, NEW l \in 1 .. Len(lists)
  PROVE  IsInjective(lists[l])
<1>1. /\ lists[l] \in Seq(StatementType) /\ Len(lists[l]) \in Nat /\ DOMAIN lists[l] = 1 .. Len(lists[l])
      /\ \A i \in 1 .. Len(lists[l]) : lists[l][i] \in StatementType
  BY ListsTyped, LenProperties
<1>2. ASSUME NEW i \in 1 .. Len(lists[l]), NEW j \in 1 .. Len(lists[l]), lists[l][i] = lists[l][j]
      PROVE  i = j
  <2>1. lists[l][i].pos \in Nat /\ lists[l][j].pos = lists[l][i].pos
    BY <1>1, <1>2 DEF StatementType
  <2>2. ~(i < j) /\ ~(j < i)
    BY <1>2, <2>1 DEF OrderKept
  <2> QED  BY <1>1, <2>2
<1> QED  BY <1>1, <1>2 DEF IsInjective

LEMMA ListsInUse ==
  ASSUME TypeOK, ListsKept, ~repl
  PROVE  InUse = 1 .. Len(lists)
<1>1. \A l \in ToSet(parseTreeList) : l \in 1 .. Len(lists)
  <2>1. parseTreeList \in Seq(1 .. Len(lists))
    BY DEF TypeOK
  <2>2. \A l : l \in ToSet(parseTreeList) <=> \E i \in 1 .. Len(parseTreeList) : parseTreeList[i] = l
    BY <2>1, ToSetIs
  <2> QED  BY <2>2, ParserFacts
<1>2. \A x \in ToSet(modules) : x.data \in 1 .. Len(lists)
  <2> DEFINE D == [prefix : File, data : 1 .. Len(lists)]
  <2>1. modules \in Seq(D) /\ \A x \in D : x.data \in 1 .. Len(lists)
    BY DEF TypeOK
  <2> HIDE DEF D
  <2>2. \A i \in 1 .. Len(modules) : modules[i] \in D
    BY <2>1, ElementOfSeq
  <2>3. \A x \in ToSet(modules) : x \in D
    BY <2>1, <2>2, ToSetIs
  <2> QED  BY <2>1, <2>3
<1>3. \A b \in blocks : b.list \in 1 .. Len(lists)
  BY DEF TypeOK
<1>4. InUse \subseteq 1 .. Len(lists)
  BY <1>1, <1>2, <1>3 DEF InUse
<1> QED  BY <1>4 DEF ListsKept

LEMMA InvNoStatementLost == IInv => NoStatementLost
<1> SUFFICES ASSUME IInv, ~repl
             PROVE  LET waiting == UNION {ToSet(parser[i].funcall) : i \in 1 .. Len(parser)}
                        held == [l \in InUse |-> lists[l]]
                    IN  /\ Listed(held) \cup waiting = AllRead
                        /\ Listed(held) \cap waiting = {}
                        /\ \A l, k \in InUse : l # k => ToSet(lists[l]) \cap ToSet(lists[k]) = {}
                        /\ \A l \in InUse : IsInjective(lists[l])
  BY DEF NoStatementLost
<1> DEFINE waiting == UNION {ToSet(parser[i].funcall) : i \in 1 .. Len(parser)}
           held == [l \in InUse |-> lists[l]]
<1>1. TypeOK /\ InputsOpened /\ Waiting /\ ListsKept /\ Statements
  BY DEF IInv
<1>2. InUse = 1 .. Len(lists) /\ Len(lists) \in Nat
  BY <1>1, ListsInUse, ListsTyped
<1>3. \A l \in 1 .. Len(lists) : \A s : s \in ToSet(lists[l]) <=> InList(l, s)
  <2> SUFFICES ASSUME NEW l \in 1 .. Len(lists) PROVE \A s : s \in ToSet(lists[l]) <=> InList(l, s)
    OBVIOUS
  <2>1. lists[l] \in Seq(StatementType)
    BY <1>1, ListsTyped
  <2> QED  BY <2>1, ToSetIs DEF InList
<1>4. \A s : s \in Listed(held) <=> \E l \in 1 .. Len(lists) : InList(l, s)
  <2>1. Listed(held) = UNION {ToSet(lists[l]) : l \in 1 .. Len(lists)}
    BY <1>2 DEF Listed
  <2> QED  BY <1>3, <2>1
<1>5. \A s : s \in waiting <=> s \in StatementType /\ Awaited(s)
  <2>1. Len(parser) \in Nat /\ 1 \in 1 .. Len(parser)
    BY <1>1, ParserFacts
  <2>2. ASSUME NEW s, s \in waiting PROVE s \in StatementType /\ Awaited(s)
    <3>1. PICK i \in 1 .. Len(parser) : s \in ToSet(parser[i].funcall)
      BY <2>2
    <3>2. parser[i].funcall \in Seq(StatementType)
      BY <1>1, ParserFacts
    <3>3. PICK j \in 1 .. Len(parser[i].funcall) : parser[i].funcall[j] = s
      BY <3>1, <3>2, ToSetIs
    <3>4. Len(parser[i].funcall) \in Nat /\ parser[i].funcall # <<>>
      BY <3>2, <3>3
    <3>5. i = 1
      BY <1>1, <2>1, <3>4 DEF Waiting, Nothing
    <3>6. PICK t \in StatementType : parser[1].funcall = <<t>>
      BY <1>1, <3>4, <3>5, PendingOne DEF Pending, Nothing
    <3>7. s = t
      BY <3>3, <3>5, <3>6
    <3> QED  BY <3>6, <3>7 DEF Awaited
  <2>3. ASSUME NEW s, s \in StatementType, Awaited(s) PROVE s \in waiting
    <3>1. parser[1].funcall \in Seq(StatementType) /\ parser[1].funcall = <<s>>
      BY <2>1, <2>3, <1>1, ParserFacts DEF Awaited
    <3>2. 1 \in 1 .. Len(parser[1].funcall) /\ parser[1].funcall[1] = s
      BY <3>1
    <3>3. s \in ToSet(parser[1].funcall)
      BY <3>1, <3>2, ToSetIs
    <3> QED  BY <2>1, <3>3
  <2> QED  BY <2>2, <2>3
<1> HIDE DEF waiting, held
<1>6. \A s : s \in AllRead <=> IsRead(s)
  BY <1>1, ReadSet
<1>7. ASSUME NEW s PROVE s \in Listed(held) \cup waiting <=> s \in AllRead
  <2>1. ASSUME NEW l \in 1 .. Len(lists), InList(l, s) PROVE IsRead(s)
    BY <1>1, <2>1 DEF Statements, ListedRead, InList
  <2>2. s \in StatementType /\ Awaited(s) => IsRead(s)
    BY <1>1 DEF Statements, ListedRead
  <2>3. IsRead(s) => Awaited(s) \/ \E l \in 1 .. Len(lists) : InList(l, s)
    BY <1>1 DEF Statements, ReadListed
  <2>4. IsRead(s) => s \in StatementType
    BY DEF IsRead
  <2> QED  BY <1>4, <1>5, <1>6, <2>1, <2>2, <2>3, <2>4
<1>8. ASSUME NEW s, s \in Listed(held), s \in waiting PROVE FALSE
  <2>1. PICK l \in 1 .. Len(lists) : InList(l, s)
    BY <1>4, <1>8
  <2>2. PICK i \in 1 .. Len(lists[l]) : lists[l][i] = s
    BY <2>1 DEF InList
  <2>3. s \in StatementType /\ s.pos < s.pos
    BY <1>1, <1>5, <1>8, <2>2 DEF Statements, AwaitedLast
  <2> QED  BY <2>3 DEF StatementType
<1>9. ASSUME NEW l \in InUse, NEW k \in InUse, l # k, NEW s, s \in ToSet(lists[l]), s \in ToSet(lists[k])
      PROVE  FALSE
  <2>1. InList(l, s) /\ InList(k, s)
    BY <1>2, <1>3, <1>9
  <2> QED  BY <1>1, <1>2, <1>9, <2>1 DEF Statements, ListsApart
<1>10. \A l \in InUse : IsInjective(lists[l])
  BY <1>1, <1>2, InjectiveLists DEF Statements
<1>11. Listed(held) \cup waiting = AllRead
  BY <1>7
<1>12. Listed(held) \cap waiting = {}
  BY <1>8
<1>13. \A l, k \in InUse : l # k => ToSet(lists[l]) \cap ToSet(lists[k]) = {}
  BY <1>9
<1> QED  BY <1>10, <1>11, <1>12, <1>13 DEF waiting, held

LEMMA InvEvaluatedOnce == IInv => EvaluatedOnce
<1> SUFFICES ASSUME IInv PROVE EvaluatedOnce
  OBVIOUS
<1>1. TypeOK /\ InputsOpened /\ EvaluatedRead
  BY DEF IInv
<1>2. evaluated \in Seq(StatementType) /\ DOMAIN evaluated = 1 .. Len(evaluated) /\ Len(evaluated) \in Nat
  BY <1>1, LenProperties DEF TypeOK
<1>3. IsInjective(evaluated)
  BY <1>1, <1>2 DEF EvaluatedRead, IsInjective
<1>4. ASSUME repl PROVE ToSet(evaluated) = AllRead
  <2>1. \A s : s \in AllRead <=> IsRead(s)
    BY <1>1, ReadSet
  <2>2. \A s : s \in ToSet(evaluated) <=> \E i \in 1 .. Len(evaluated) : evaluated[i] = s
    BY <1>2, ToSetIs
  <2>3. \A s : IsRead(s) <=> \E i \in 1 .. Len(evaluated) : evaluated[i] = s
    BY <1>1, <1>4 DEF EvaluatedRead
  <2>4. \A s : s \in ToSet(evaluated) <=> s \in AllRead
    BY <2>1, <2>2, <2>3
  <2> QED  BY <2>4
<1>5. ASSUME repl
      PROVE  \A i, j \in DOMAIN evaluated :
               i < j /\ evaluated[i].nth = evaluated[j].nth => evaluated[i].pos < evaluated[j].pos
  BY <1>1, <1>2, <1>5 DEF EvaluatedRead
<1> QED  BY <1>3, <1>4, <1>5 DEF EvaluatedOnce

LEMMA InvInStep == IInv => InStep
BY DEF IInv, InStep, InputsOpened, ListsInStep, Listing

LEMMA Invariance == Spec => []IInv
<1>1. Init => IInv
  BY InitInv
<1>2. IInv /\ [Next]_vars => IInv'
  BY Inductive
<1> QED  BY <1>1, <1>2, PTL DEF Spec

-----------------------------------------------------------------------------
(* The theorems.                                                           *)

(* The lexer's and the parser's lists have the types their uses take for   *)
(* granted: a list that is put into, evaluated or taken off exists.        *)
THEOREM ReaderTyped == Spec => [](TypeOK /\ Waiting)
<1>1. IInv => TypeOK /\ Waiting
  BY DEF IInv
<1> QED  BY <1>1, Invariance, PTL

(* What the lexer pushes is what the grammar pops: the names, the inputs   *)
(* and the lists stay in step, through any nesting of imports and blocks.  *)
THEOREM ListsStayInStep == Spec => []InStep
BY InvInStep, Invariance, PTL

(* A list never has a later statement of a file before an earlier one.     *)
THEOREM StatementsInOrder == Spec => []OrderKept
<1>1. IInv => OrderKept
  BY DEF IInv, Statements
<1> QED  BY <1>1, Invariance, PTL

(* Every statement read from files is waiting in the parser or in one list *)
(* that is in use, once.                                                   *)
THEOREM StatementsKept == Spec => []NoStatementLost
BY InvNoStatementLost, Invariance, PTL

(* No statement is evaluated again at the end of an import; at the prompt  *)
(* all are evaluated, in the order of their file.                          *)
THEOREM StatementsEvaluatedOnce == Spec => []EvaluatedOnce
BY InvEvaluatedOnce, Invariance, PTL

-----------------------------------------------------------------------------
(* Blocks.  One was opened at o and not closed before e, at depth d, ...   *)
Begun(text, o, e, d) ==
    /\ o \in 1 .. e /\ text[o] = Open /\ Depth(text, o) = d
    /\ \A j \in o .. e : Depth(text, j) >= d

(* ... and these are the statements that were read in it.                  *)
Inside(text, o, e, d) ==
    {p \in o + 1 .. e : text[p] \in {Call, Close} /\ Depth(text, p) = d}

(* Of these a list keeps all, or the last one.                             *)
StatementAt(p) == [nth |-> Here.nth, pos |-> p]
KeptOf(S) == IF repl THEN {p \in S : \A q \in S : q <= p} ELSE S
Filled(list, S) ==
    IF list = None THEN S = {} ELSE ToSet(lists[list]) = {StatementAt(p) : p \in KeptOf(S)}

(* The ith context is that of the block opened at o, and has what was read *)
(* in it but for the call that waits.                                      *)
ReadIn(o, d) == Inside(disk[Here.file], o, Here.pos - 1, d)
InBlock(i, o) ==
    LET S == ReadIn(o, Len(parser) - i)
    IN  /\ Begun(disk[Here.file], o, Here.pos - 1, Len(parser) - i)
        /\ i = 1 /\ Pending =>
             \E p \in S : /\ parser[1].funcall = <<StatementAt(p)>>
                          /\ \A q \in S : q <= p
                          /\ Filled(parser[1].list, S \ {p})
        /\ ~(i = 1 /\ Pending) => Filled(parser[i].list, S)
BlocksFilled == \A i \in 1 .. Len(parser) - 1 : \E o \in Nat : InBlock(i, o)

(* A block that was read has its list for itself, with what was read in it.*)
BlockWhole(b) ==
    LET text == disk[opened[b.of.nth]]
        d == Depth(text, b.of.pos) + 1
    IN  /\ text[b.of.pos] = Close
        /\ \E o \in Nat :
             /\ Begun(text, o, b.of.pos - 1, d)
             /\ ToSet(lists[b.list]) =
                  {[nth |-> b.of.nth, pos |-> p] : p \in KeptOf(Inside(text, o, b.of.pos - 1, d))}
BlocksDone ==
    \A b \in blocks :
        b.of.nth <= Len(opened) /\ b.list \notin ToSet(parseTreeList) /\ BlockWhole(b)

BlocksInv == BlocksFilled /\ BlocksDone

(* One more item is read in an open block.                                 *)
LEMMA InsideNext ==
  ASSUME NEW text \in Seq(Item), NEW n \in Nat \ {0}, NEW o \in Nat, NEW d,
         Begun(text, o, n - 1, d), Depth(text, n) >= d
  PROVE  /\ Begun(text, o, n, d)
         /\ Inside(text, o, n, d) =
              Inside(text, o, n - 1, d)
                \cup (IF text[n] \in {Call, Close} /\ Depth(text, n) = d THEN {n} ELSE {})
         /\ \A p \in Inside(text, o, n - 1, d) : p < n /\ p \in Nat
<1>1. o \in 1 .. n - 1 /\ o .. n = (o .. n - 1) \cup {n} /\ o + 1 .. n = (o + 1 .. n - 1) \cup {n}
  BY DEF Begun
<1>2. Begun(text, o, n, d)
  BY <1>1 DEF Begun
<1>3. Inside(text, o, n, d) =
        Inside(text, o, n - 1, d)
          \cup (IF text[n] \in {Call, Close} /\ Depth(text, n) = d THEN {n} ELSE {})
  BY <1>1 DEF Inside
<1>4. \A p \in Inside(text, o, n - 1, d) : p < n /\ p \in Nat
  BY DEF Inside
<1> QED  BY <1>2, <1>3, <1>4

(* No two blocks are open at the same depth.                               *)
LEMMA BegunOnce ==
  ASSUME NEW text \in Seq(Item), NEW e \in Nat, NEW d, NEW o, NEW k,
         Begun(text, o, e, d), Begun(text, k, e, d)
  PROVE  o = k
<1>1. ASSUME NEW a, NEW b, Begun(text, a, e, d), Begun(text, b, e, d), a < b
      PROVE  FALSE
  <2>1. b \in Nat \ {0} /\ a \in Nat \ {0} /\ b - 1 \in a .. e
    BY <1>1 DEF Begun
  <2>2. Depth(text, b) = Depth(text, b - 1) + 1 /\ Depth(text, b - 1) \in Int
    BY <1>1, <2>1, DepthNext DEF Begun
  <2>3. Depth(text, b - 1) >= d /\ Depth(text, b) = d
    BY <1>1, <2>1 DEF Begun
  <2> QED  BY <2>2, <2>3
<1>2. o \in Int /\ k \in Int
  BY DEF Begun
<1>3. ~(o < k) /\ ~(k < o)
  BY <1>1
<1> QED  BY <1>2, <1>3

(* The last of the elements of a set and of one that is behind them.       *)
LEMMA KeptLast ==
  ASSUME NEW S, NEW p, p \in Nat, \A q \in S : q < p /\ q \in Nat
  PROVE  KeptOf(S \cup {p}) = IF repl THEN {p} ELSE S \cup {p}
BY DEF KeptOf

(* What the lists have, in the terms of InList.                            *)
LEMMA ListsSet ==
  ASSUME TypeOK, NEW l \in 1 .. Len(lists)
  PROVE  \A s : s \in ToSet(lists[l]) <=> InList(l, s)
<1>1. lists[l] \in Seq(StatementType)
  BY ListsTyped
<1> QED  BY <1>1, ToSetIs DEF InList

(* A block that was read keeps its list as long as the list is as it is.   *)
LEMMA BlockStays ==
  ASSUME TypeOK, BlocksDone, NEW b \in blocks,
         repl' = repl, disk' = disk, Len(opened') \in Nat, Len(opened) <= Len(opened'),
         \A n \in 1 .. Len(opened) : opened'[n] = opened[n],
         lists'[b.list] = lists[b.list]
  PROVE  b.of.nth <= Len(opened') /\ BlockWhole(b)'
<1>1. b.of.nth \in 1 .. Len(opened) /\ BlockWhole(b) /\ Len(opened) \in Nat
  BY LenProperties DEF TypeOK, BlocksDone, StatementType
<1>2. opened'[b.of.nth] = opened[b.of.nth] /\ b.of.nth <= Len(opened')
  BY <1>1
<1>3. BlockWhole(b)'
  BY <1>1, <1>2 DEF BlockWhole, KeptOf
<1> QED  BY <1>2, <1>3

(* The blocks that were read stay as they are.                             *)
LEMMA BlocksStay ==
  ASSUME TypeOK, BlocksDone, blocks' = blocks,
         repl' = repl, disk' = disk, Len(opened') \in Nat, Len(opened) <= Len(opened'),
         \A n \in 1 .. Len(opened) : opened'[n] = opened[n],
         \A l \in 1 .. Len(lists) : l \notin ToSet(parseTreeList) =>
            lists'[l] = lists[l] /\ l \notin ToSet(parseTreeList')
  PROVE  BlocksDone'
<1> SUFFICES ASSUME NEW b \in blocks
             PROVE  b.of.nth <= Len(opened') /\ b.list \notin ToSet(parseTreeList') /\ BlockWhole(b)'
  BY DEF BlocksDone
<1>1. b.list \in 1 .. Len(lists) /\ b.list \notin ToSet(parseTreeList)
  BY DEF TypeOK, BlocksDone
<1>2. lists'[b.list] = lists[b.list] /\ b.list \notin ToSet(parseTreeList')
  BY <1>1
<1> QED  BY <1>2, BlockStays

(* A list that is new is in front.                                         *)
LEMMA NewInFront ==
  ASSUME TypeOK, NEW x, lists' = Append(lists, x), parseTreeList' = <<Len(lists) + 1>> \o parseTreeList
  PROVE  \A l \in 1 .. Len(lists) : l \notin ToSet(parseTreeList) =>
            lists'[l] = lists[l] /\ l \notin ToSet(parseTreeList')
<1>1. Len(lists) \in Nat /\ lists \in Seq(Seq(StatementType)) /\ parseTreeList \in Seq(Nat)
  <2>1. Len(lists) \in Nat /\ 1 .. Len(lists) \subseteq Nat
    BY ListsTyped
  <2> QED  BY <2>1, SeqSubset DEF TypeOK
<1>2. ToSet(parseTreeList') = ToSet(parseTreeList) \cup {Len(lists) + 1}
  BY <1>1, ConsRange
<1>3. \A l \in 1 .. Len(lists) : lists'[l] = lists[l] /\ l # Len(lists) + 1
  BY <1>1
<1> QED  BY <1>2, <1>3

-----------------------------------------------------------------------------
(* A call is read in the innermost of the blocks that are left, k of them  *)
(* being closed by it.                                                     *)
LEMMA StatementInBlock ==
  ASSUME TypeOK, InputsOpened, BlocksOpen, Waiting, BlocksFilled, Advance, ~Ended, ~Pending,
         UNCHANGED <<repl, disk, lists>>, NEW k \in {0, 1},
         disk[Here.file][Here.pos] = (IF k = 0 THEN Call ELSE Close),
         Len(parser') = Len(parser) - k, parser'[1].funcall = <<Statement>>,
         \A i \in 1 .. Len(parser') : parser'[i].list = parser[i + k].list
  PROVE  BlocksFilled'
<1> DEFINE m == Len(parser)
           text == disk[Here.file]
           n == Here.pos
<1>1. /\ text \in Seq(Item) /\ n \in Nat \ {0} /\ m \in Nat /\ Len(parser') \in Nat /\ m >= 1
      /\ Statement = StatementAt(n)
  BY HereFacts, ParserFacts DEF InputType, Statement, StatementAt
<1>2. Here'.file = Here.file /\ Here'.nth = Here.nth /\ Here'.pos = n + 1
  BY AdvanceFacts
<1>3. Depth(text, n) = m - 1 - k
  <2>1. m - 1 = Depth(text, n - 1) /\ Depth(text, n - 1) \in Int
    BY <1>1, DepthNext DEF BlocksOpen
  <2>2. /\ text[n] = Close => Depth(text, n) = Depth(text, n - 1) - 1
        /\ text[n] # Open /\ text[n] # Close => Depth(text, n) = Depth(text, n - 1)
    BY <1>1, DepthNext
  <2> QED  BY <1>1, <2>1, <2>2, ItemKinds
<1> SUFFICES ASSUME NEW i \in 1 .. Len(parser') - 1 PROVE \E o \in Nat : InBlock(i, o)'
  BY DEF BlocksFilled
<1>4. PICK o \in Nat : InBlock(i + k, o)
  <2>1. i + k \in 1 .. m - 1
    BY <1>1
  <2> QED  BY <2>1 DEF BlocksFilled
<1> DEFINE d == m - (i + k)
           S == Inside(text, o, n - 1, d)
           T == Inside(text, o, n, d)
<1>5. d = Len(parser') - i /\ d \in Int /\ (n + 1) - 1 = n /\ i \in 1 .. Len(parser')
  BY <1>1
<1>6. Begun(text, o, n - 1, d) /\ Filled(parser[i + k].list, S)
  <2>1. /\ Begun(text, o, n - 1, d)
        /\ ~(i + k = 1 /\ Pending) => Filled(parser[i + k].list, S)
    BY <1>4 DEF InBlock, ReadIn
  <2> QED  BY <2>1
<1>7. Depth(text, n) >= d /\ (Depth(text, n) = d <=> i = 1)
  BY <1>1, <1>3
<1>8. text[n] \in {Call, Close}
  OBVIOUS
<1>9. /\ Begun(text, o, n, d)
      /\ T = S \cup (IF i = 1 THEN {n} ELSE {})
      /\ \A p \in S : p < n /\ p \in Nat
  <2> HIDE DEF d, n, text
  <2>1. /\ Begun(text, o, n, d)
        /\ T = S \cup (IF text[n] \in {Call, Close} /\ Depth(text, n) = d THEN {n} ELSE {})
        /\ \A p \in S : p < n /\ p \in Nat
    BY ONLY <1>1, <1>6, <1>7, InsideNext
  <2> QED  BY <1>7, <1>8, <2>1
<1>10. PICK e, Q, P : e = n /\ Q = T /\ P = S
  OBVIOUS
<1>11. \A l, R : Filled(l, R)' <=> Filled(l, R)
  BY <1>2 DEF Filled, KeptOf, StatementAt
<1>12. Begun(disk'[Here'.file], o, Here'.pos - 1, Len(parser') - i) /\ ReadIn(o, Len(parser) - i)' = Q
  BY <1>2, <1>5, <1>9, <1>10 DEF ReadIn
<1>13. CASE i = 1
  <2>1. parser'[1].funcall = <<StatementAt(e)>> /\ \A p : StatementAt(p)' = StatementAt(p)
    BY <1>1, <1>2, <1>10 DEF StatementAt
  <2>2. e \in Q /\ (\A q \in Q : q <= e) /\ Q \ {e} = P
    <3> HIDE DEF n, S, T
    <3>1. n \in Nat
      BY <1>1
    <3>2. T = S \cup {n}
      BY <1>9, <1>13
    <3> QED  BY <1>9, <1>10, <3>1, <3>2
  <2>3. Filled(parser'[1].list, P)
    BY <1>5, <1>6, <1>10, <1>13
  <2>4. Pending'
    BY <2>1 DEF Pending, Nothing
  <2>5. (\E p \in Q : /\ parser[1].funcall = <<StatementAt(p)>> /\ \A q \in Q : q <= p
                      /\ Filled(parser[1].list, Q \ {p}))'
    BY <1>11, <2>1, <2>2, <2>3
  <2> QED  BY <1>12, <1>13, <2>4, <2>5 DEF InBlock
<1>14. CASE i # 1
  <2>1. Q = P
    BY <1>9, <1>10, <1>14
  <2>3. Filled(parser'[i].list, P)
    BY <1>5, <1>6, <1>10
  <2> QED  BY <1>11, <1>12, <1>14, <2>1, <2>3 DEF InBlock
<1> QED  BY <1>13, <1>14

(* A block is opened, in which nothing was read yet.                       *)
LEMMA OpenInBlock ==
  ASSUME TypeOK, InputsOpened, BlocksOpen, BlocksFilled, Advance, ~Ended, ~Pending,
         UNCHANGED <<repl, disk, lists>>, disk[Here.file][Here.pos] = Open,
         Len(parser') = Len(parser) + 1, parser'[1].list = None, parser'[1].funcall = Nothing,
         \A i \in 1 .. Len(parser) : parser'[i + 1] = parser[i]
  PROVE  BlocksFilled'
<1> DEFINE m == Len(parser)
           text == disk[Here.file]
           n == Here.pos
<1>1. /\ text \in Seq(Item) /\ n \in Nat \ {0} /\ m \in Nat /\ m >= 1 /\ (n + 1) - 1 = n
  BY HereFacts, ParserFacts DEF InputType
<1>2. Here'.file = Here.file /\ Here'.nth = Here.nth /\ Here'.pos = n + 1
  BY AdvanceFacts
<1>3. Depth(text, n) = m
  <2>1. m - 1 = Depth(text, n - 1) /\ Depth(text, n - 1) \in Int
    BY <1>1, DepthNext DEF BlocksOpen
  <2>2. text[n] = Open => Depth(text, n) = Depth(text, n - 1) + 1
    BY <1>1, DepthNext
  <2> QED  BY <1>1, <2>1, <2>2
<1>4. text[n] \notin {Call, Close} /\ ~Pending'
  BY ItemKinds DEF Pending
<1>5. \A l, R : Filled(l, R)' <=> Filled(l, R)
  BY <1>2 DEF Filled, KeptOf, StatementAt
<1>6. ASSUME NEW i \in 1 .. m, NEW o \in Nat, NEW Q, Q = Inside(text, o, n, m + 1 - i),
             Begun(text, o, n, m + 1 - i), Filled(parser'[i].list, Q)
      PROVE  InBlock(i, o)'
  <2>1. /\ Begun(disk'[Here'.file], o, Here'.pos - 1, Len(parser') - i)
        /\ ReadIn(o, Len(parser) - i)' = Q
    BY <1>1, <1>2, <1>6 DEF ReadIn
  <2> QED  BY <1>4, <1>5, <1>6, <2>1 DEF InBlock
<1> SUFFICES ASSUME NEW i \in 1 .. m PROVE \E o \in Nat : InBlock(i, o)'
  BY <1>1 DEF BlocksFilled
<1>7. CASE i = 1
  <2>1. Begun(text, n, n, m)
    BY <1>1, <1>3 DEF Begun
  <2>2. Inside(text, n, n, m) = {}
    BY <1>1 DEF Inside
  <2>3. Filled(parser'[1].list, {})
    BY DEF Filled
  <2>4. m + 1 - i = m /\ n \in Nat
    BY <1>1, <1>7
  <2> QED  BY <1>6, <1>7, <2>1, <2>2, <2>3, <2>4
<1>8. CASE i # 1
  <2> DEFINE j == i - 1
             d == m - j
  <2>1. j \in 1 .. m - 1 /\ j \in 1 .. m /\ j + 1 = i /\ d = m + 1 - i
    BY <1>1, <1>8
  <2>2. PICK o \in Nat : InBlock(j, o)
    BY <2>1 DEF BlocksFilled
  <2>3. Begun(text, o, n - 1, d) /\ Filled(parser[j].list, Inside(text, o, n - 1, d))
    BY <2>2 DEF InBlock, ReadIn
  <2>4. Depth(text, n) >= d
    BY <1>1, <1>3, <2>1
  <2>5. Begun(text, o, n, d) /\ Inside(text, o, n, d) = Inside(text, o, n - 1, d)
    <3> HIDE DEF d, n, text
    <3>1. /\ Begun(text, o, n, d)
          /\ Inside(text, o, n, d) =
               Inside(text, o, n - 1, d)
                 \cup (IF text[n] \in {Call, Close} /\ Depth(text, n) = d THEN {n} ELSE {})
      BY ONLY <1>1, <2>3, <2>4, InsideNext
    <3> QED  BY <1>4, <3>1
  <2>6. parser'[i] = parser[j]
    BY <2>1
  <2> QED  BY <1>6, <2>1, <2>3, <2>5, <2>6
<1> QED  BY <1>7, <1>8

(* The call that waits is put into the list of its block.                  *)
LEMMA ListedInBlock ==
  ASSUME TypeOK, InputsOpened, BlocksFilled, Pending, UNCHANGED <<repl, disk, yyin>>,
         NEW l \in Nat \ {0}, NEW t, parser[1].funcall = <<t>>,
         Len(parser') = Len(parser), parser'[1].list = l, parser'[1].funcall = Nothing,
         \A i \in 2 .. Len(parser) : parser'[i] = parser[i],
         ToSet(lists'[l]) = (IF repl \/ parser[1].list = None THEN {t} ELSE ToSet(lists[l]) \cup {t}),
         Len(parser) > 1 /\ parser[1].list # None => parser[1].list = l,
         \A i \in 2 .. Len(parser) - 1 : parser[i].list # None =>
            lists'[parser[i].list] = lists[parser[i].list]
  PROVE  BlocksFilled'
<1> DEFINE m == Len(parser)
<1>1. m \in Nat /\ m >= 1 /\ Here' = Here /\ ~Pending' /\ l # None
  BY ParserFacts DEF Here, Pending, None
<1> SUFFICES ASSUME NEW i \in 1 .. m - 1 PROVE \E o \in Nat : InBlock(i, o)'
  BY <1>1 DEF BlocksFilled
<1>2. PICK o \in Nat : InBlock(i, o)
  BY DEF BlocksFilled
<1>3. PICK S : S = ReadIn(o, m - i)
  OBVIOUS
<1>4. /\ Begun(disk'[Here'.file], o, Here'.pos - 1, Len(parser') - i)
      /\ ReadIn(o, Len(parser) - i)' = S
  BY <1>1, <1>2, <1>3 DEF InBlock, ReadIn
<1>5. \A p : StatementAt(p)' = StatementAt(p)
  BY <1>1 DEF StatementAt
<1>6. CASE i = 1
  <2>1. PICK p \in S : /\ parser[1].funcall = <<StatementAt(p)>>
                       /\ \A q \in S : q <= p
                       /\ Filled(parser[1].list, S \ {p})
    BY <1>2, <1>3, <1>6 DEF InBlock
  <2>2. t = StatementAt(p)
    BY <2>1
  <2>3. S \subseteq Nat /\ p \in Nat
    BY <1>3 DEF ReadIn, Inside, Begun
  <2>4. KeptOf(S) = IF repl THEN {p} ELSE S
    <3>1. \A q \in S : q <= p /\ q \in Nat
      BY <2>1, <2>3
    <3>2. ASSUME NEW r \in S, p <= r PROVE r = p
      BY <2>3, <3>1, <3>2
    <3>3. {r \in S : \A q \in S : q <= r} = {p}
      BY <3>1, <3>2
    <3> QED  BY <3>3 DEF KeptOf
  <2>5. ToSet(lists'[l]) = {StatementAt(q) : q \in KeptOf(S)}
    <3>1. CASE parser[1].list = None
      <4>1. S = {p}
        BY <2>1, <3>1 DEF Filled
      <4> QED  BY <2>2, <2>4, <3>1, <4>1
    <3>2. CASE parser[1].list # None /\ repl
      BY <2>2, <2>4, <3>2
    <3>3. CASE parser[1].list # None /\ ~repl
      <4>1. parser[1].list = l
        BY <1>1, <1>6, <3>3
      <4>2. ToSet(lists[l]) = {StatementAt(q) : q \in S \ {p}}
        BY <2>1, <3>3, <4>1 DEF Filled, KeptOf
      <4> QED  BY <2>2, <2>4, <3>3, <4>2
    <3> QED  BY <3>1, <3>2, <3>3
  <2>6. Filled(parser[1].list, S)'
    BY <1>1, <2>5 DEF Filled, KeptOf, StatementAt
  <2> QED  BY <1>1, <1>4, <1>6, <2>6 DEF InBlock
<1>7. CASE i # 1
  <2>1. i \in 2 .. m - 1 /\ i \in 2 .. m /\ parser'[i] = parser[i]
    BY <1>1, <1>7
  <2>2. Filled(parser[i].list, S)
    BY <1>2, <1>3, <1>7 DEF InBlock
  <2>3. parser[i].list # None => lists'[parser[i].list] = lists[parser[i].list]
    BY <2>1
  <2>4. Filled(parser[i].list, S)'
    BY <1>5, <2>1, <2>2, <2>3 DEF Filled, KeptOf
  <2> QED  BY <1>4, <1>7, <2>4 DEF InBlock
<1> QED  BY <1>6, <1>7

(* The lists of the outer blocks are behind that of the innermost.         *)
LEMMA OuterLists ==
  ASSUME TypeOK, InputsOpened, ListsInStep, ListsKept,
         NEW i \in 2 .. Len(parser) - 1, parser[i].list # None
  PROVE  /\ parser[i].list \in 1 .. Len(lists)
         /\ parser[1].list # None => parser[i].list # parseTreeList[1]
<1> DEFINE m == Len(parser)
           c == Cardinality(Listing(parser, i))
<1>1. /\ m \in Nat /\ i \in 1 .. m /\ i \in 1 .. m - 1 /\ Len(parseTreeList) \in Nat
      /\ Len(yyin) \in Nat /\ Len(yyin) >= 1
  BY ParserFacts, HereFacts
<1>2. /\ c \in Nat /\ c >= 1 /\ c <= Cardinality(Listing(parser, m))
      /\ Cardinality(Listing(parser, m)) \in Nat
  BY <1>1, ListingBounds
<1>3. c \in 1 .. Len(parseTreeList) /\ parser[i].list = parseTreeList[c]
  <2>1. Len(parseTreeList) = Len(yyin) - 1 + Cardinality(Listing(parser, m))
    BY DEF ListsInStep
  <2>2. parser[i].list = parseTreeList[c]
    BY <1>1 DEF ListsInStep
  <2> HIDE DEF c, m
  <2> QED  BY <1>1, <1>2, <2>1, <2>2
<1>4. ASSUME parser[1].list # None PROVE parser[i].list # parseTreeList[1]
  <2>1. {1, i} \subseteq Listing(parser, i) /\ IsFiniteSet(Listing(parser, i))
    BY <1>1, <1>4, ListingFinite DEF Listing
  <2>2. Cardinality({1, i}) = 2
    <3>1. IsFiniteSet({1}) /\ Cardinality({1}) = 1
      BY FS_Singleton
    <3>2. i \notin {1} /\ {1, i} = {1} \cup {i}
      OBVIOUS
    <3>3. Cardinality({1} \cup {i}) = 1 + 1
      BY <3>1, <3>2, FS_AddElement
    <3>4. Cardinality({1, i}) = 1 + 1
      BY <3>2, <3>3, Zenon
    <3> QED  BY <3>4
  <2>3. c >= 2
    BY <1>2, <2>1, <2>2, FS_Subset
  <2>4. 1 \in 1 .. Len(parseTreeList) /\ 1 < c
    BY <1>1, <1>2, <1>3, <2>3
  <2>5. parseTreeList[1] > parseTreeList[c]
    BY <1>3, <2>4 DEF ListsKept
  <2>6. parseTreeList[1] \in Nat
    BY <2>4, ParserFacts
  <2> QED  BY <1>3, <2>5, <2>6
<1> QED  BY <1>3, <1>4, ParserFacts

LEMMA FirstStatementBlocks ==
  ASSUME IInv, BlocksInv, FirstStatement
  PROVE  BlocksInv'
<1> DEFINE l == Len(lists) + 1
           m == Len(parser)
<1>1. /\ UNCHANGED <<repl, disk, yyin, opened, blocks>> /\ Pending /\ parser[1].list = None
      /\ lists' = Append(lists, parser[1].funcall) /\ parseTreeList' = <<l>> \o parseTreeList
      /\ parser' = [parser EXCEPT ![1] = Context(l, Nothing)]
  BY DEF FirstStatement, StatementInto, files, input, output
<1>2. TypeOK /\ InputsOpened /\ Waiting /\ ListsInStep /\ ListsKept
  BY DEF IInv
<1>3. PICK t \in StatementType : parser[1].funcall = <<t>>
  BY <1>1, <1>2, PendingOne
<1>4. /\ Len(lists) \in Nat /\ lists \in Seq(Seq(StatementType)) /\ m \in Nat /\ m >= 1
      /\ DOMAIN parser = 1 .. m /\ Len(opened) \in Nat
  BY <1>2, ParserFacts, LenProperties DEF TypeOK
<1>5. BlocksDone'
  <2>1. \A k \in 1 .. Len(lists) : k \notin ToSet(parseTreeList) =>
          lists'[k] = lists[k] /\ k \notin ToSet(parseTreeList')
    BY <1>1, <1>2, NewInFront
  <2>2. Len(opened') \in Nat /\ Len(opened) <= Len(opened') /\ opened' = opened
    BY <1>1, <1>4
  <2> HIDE DEF l, m
  <2> QED  BY <1>1, <1>2, <2>1, <2>2, BlocksStay DEF BlocksInv
<1>6. /\ Len(parser') = m /\ parser'[1].list = l /\ parser'[1].funcall = Nothing
      /\ \A i \in 2 .. m : parser'[i] = parser[i]
  BY <1>1, <1>4 DEF Context
<1>7. lists'[l] = <<t>> /\ \A k \in 1 .. Len(lists) : lists'[k] = lists[k]
  BY <1>1, <1>3, <1>4
<1>8. ToSet(lists'[l]) = {t}
  <2>1. <<>> \in Seq({t}) /\ <<t>> = Append(<<>>, t) /\ ToSet(<<>>) = {}
    BY DEF ToSet
  <2>2. \A s \in Seq({t}) : ToSet(Append(s, t)) = ToSet(s) \cup {t}
    BY AppendRange
  <2>3. ToSet(Append(<<>>, t)) = ToSet(<<>>) \cup {t}
    BY <2>1, <2>2, Zenon
  <2> QED  BY <1>7, <2>1, <2>3
<1>9. \A i \in 2 .. m - 1 : parser[i].list # None => lists'[parser[i].list] = lists[parser[i].list]
  BY <1>2, <1>7, OuterLists
<1>10. l \in Nat \ {0} /\ BlocksFilled
  BY <1>4 DEF BlocksInv
<1>11. BlocksFilled'
  <2> HIDE DEF l
  <2> QED  BY <1>1, <1>2, <1>3, <1>6, <1>8, <1>9, <1>10, ListedInBlock
<1> QED  BY <1>5, <1>11 DEF BlocksInv

LEMMA FurtherStatementBlocks ==
  ASSUME IInv, BlocksInv, FurtherStatement
  PROVE  BlocksInv'
<1> DEFINE l == parseTreeList[1]
           m == Len(parser)
           kept == IF repl THEN <<>> ELSE lists[l]
<1>1. /\ UNCHANGED <<repl, disk, yyin, opened, blocks, parseTreeList>>
      /\ Pending /\ parser[1].list # None
      /\ lists' = [lists EXCEPT ![l] = kept \o parser[1].funcall]
      /\ parser' = [parser EXCEPT ![1] = Context(l, Nothing)]
  BY DEF FurtherStatement, StatementInto, files, input, output
<1>2. TypeOK /\ InputsOpened /\ Waiting /\ ListsInStep /\ ListsKept
  BY DEF IInv
<1>3. PICK t \in StatementType : parser[1].funcall = <<t>>
  BY <1>1, <1>2, PendingOne
<1>4. /\ Len(lists) \in Nat /\ DOMAIN lists = 1 .. Len(lists) /\ m \in Nat /\ m >= 1
      /\ DOMAIN parser = 1 .. m /\ Len(opened) \in Nat
  BY <1>2, ParserFacts, LenProperties DEF TypeOK
<1>5. /\ l \in 1 .. Len(lists) /\ 1 \in 1 .. Len(parseTreeList) /\ (m > 1 => parser[1].list = l)
      /\ parseTreeList \in Seq(1 .. Len(lists))
  BY <1>1, <1>2, ListInFront, ParserFacts DEF TypeOK
<1>6. /\ lists'[l] = kept \o <<t>> /\ \A k \in 1 .. Len(lists) : k # l => lists'[k] = lists[k]
  BY <1>1, <1>3, <1>4, <1>5
<1>7. BlocksDone'
  <2>1. l \in ToSet(parseTreeList)
    BY <1>5, ToSetIs
  <2>2. \A k \in 1 .. Len(lists) : k \notin ToSet(parseTreeList) =>
          lists'[k] = lists[k] /\ k \notin ToSet(parseTreeList')
    BY <1>1, <1>6, <2>1
  <2>3. Len(opened') \in Nat /\ Len(opened) <= Len(opened') /\ opened' = opened
    BY <1>1, <1>4
  <2> HIDE DEF l, m, kept
  <2> QED  BY <1>1, <1>2, <2>2, <2>3, BlocksStay DEF BlocksInv
<1>8. /\ Len(parser') = m /\ parser'[1].list = l /\ parser'[1].funcall = Nothing
      /\ \A i \in 2 .. m : parser'[i] = parser[i]
  BY <1>1, <1>4 DEF Context
<1>9. ToSet(lists'[l]) = IF repl THEN {t} ELSE ToSet(lists[l]) \cup {t}
  <2>1. lists[l] \in Seq(StatementType)
    BY <1>2, <1>5, ListsTyped
  <2>2. kept \in Seq(StatementType) /\ kept \o <<t>> = Append(kept, t)
    BY <2>1
  <2>3. ToSet(lists'[l]) = ToSet(kept) \cup {t}
    BY <1>6, <2>2, AppendRange
  <2>4. ToSet(<<>>) = {}
    BY DEF ToSet
  <2> QED  BY <2>3, <2>4
<1>10. \A i \in 2 .. m - 1 : parser[i].list # None => lists'[parser[i].list] = lists[parser[i].list]
  BY <1>1, <1>2, <1>6, OuterLists
<1>11. l \in Nat \ {0} /\ BlocksFilled
  BY <1>4, <1>5 DEF BlocksInv
<1>12. BlocksFilled'
  <2> HIDE DEF l, kept
  <2> QED  BY <1>1, <1>2, <1>3, <1>5, <1>8, <1>9, <1>10, <1>11, ListedInBlock
<1> QED  BY <1>7, <1>12 DEF BlocksInv

LEMMA ReadCallBlocks ==
  ASSUME IInv, BlocksInv, ReadCall
  PROVE  BlocksInv'
<1>1. /\ UNCHANGED <<repl, disk, opened, parseTreeList, lists, blocks>>
      /\ parser' = Put(parser, Statement) /\ Advance /\ ~Ended /\ ~Pending
  BY DEF ReadCall, At, FuncallRead, Put, files, input
<1>2. TypeOK /\ InputsOpened /\ BlocksOpen /\ Waiting
  BY DEF IInv
<1>3. disk[Here.file][Here.pos] = Call /\ Statement \in StatementType
  BY <1>1, <1>2, ItemRead, HereFacts DEF ReadCall, At
<1>4. parser \in Seq(ContextType) /\ parser # <<>>
  BY <1>2 DEF TypeOK
<1>5. /\ Len(parser') = Len(parser) /\ parser'[1].funcall = <<Statement>>
      /\ \A i \in 1 .. Len(parser) : parser'[i].list = parser[i].list
      /\ Len(parser) \in Nat /\ Len(opened) \in Nat
  BY <1>1, <1>2, <1>3, <1>4, FuncallPut, HereFacts
<1>6. /\ Len(parser') = Len(parser) - 0
      /\ \A i \in 1 .. Len(parser') : parser'[i].list = parser[i + 0].list
  BY <1>5
<1>7. BlocksFilled'
  BY <1>1, <1>2, <1>3, <1>5, <1>6, StatementInBlock DEF BlocksInv
<1>8. BlocksDone'
  BY <1>1, <1>2, <1>5, BlocksStay DEF BlocksInv
<1> QED  BY <1>7, <1>8 DEF BlocksInv

LEMMA OpenBlockBlocks ==
  ASSUME IInv, BlocksInv, OpenBlock
  PROVE  BlocksInv'
<1> DEFINE c == Context(None, Nothing)
<1>1. /\ UNCHANGED <<repl, disk, opened, parseTreeList, lists, blocks>>
      /\ parser' = <<c>> \o parser /\ Advance /\ ~Ended /\ ~Pending
  BY DEF OpenBlock, At, files, input, output
<1>2. TypeOK /\ InputsOpened /\ BlocksOpen
  BY DEF IInv
<1>3. disk[Here.file][Here.pos] = Open
  BY <1>1, <1>2, ItemRead DEF OpenBlock, At
<1>4. c \in ContextType /\ c.list = None /\ c.funcall = Nothing
  BY DEF Context, ContextType, None, Nothing
<1>5. /\ Len(parser') = Len(parser) + 1 /\ parser'[1].list = None /\ parser'[1].funcall = Nothing
      /\ \A i \in 1 .. Len(parser) : parser'[i + 1] = parser[i]
  <2> HIDE DEF c
  <2>1. parser \in Seq(ContextType)
    BY <1>2 DEF TypeOK
  <2> QED  BY <1>1, <1>4, <2>1, ConsFacts
<1>6. BlocksFilled'
  BY <1>1, <1>2, <1>3, <1>5, OpenInBlock DEF BlocksInv
<1>7. Len(opened) \in Nat
  BY <1>2, HereFacts
<1>8. BlocksDone'
  BY <1>1, <1>2, <1>7, BlocksStay DEF BlocksInv
<1> QED  BY <1>6, <1>8 DEF BlocksInv

(* Outside of blocks nothing is said of the contexts.                      *)
LEMMA OutsideBlocks ==
  ASSUME Len(parser') = 1
  PROVE  BlocksFilled'
BY DEF BlocksFilled

LEMMA ImportNotFoundBlocks ==
  ASSUME IInv, BlocksInv, ImportNotFound
  PROVE  BlocksInv'
<1>1. /\ UNCHANGED <<repl, disk, opened, parseTreeList, lists, blocks, parser>> /\ ~Ended
  BY DEF ImportNotFound, At, input, output
<1>2. TypeOK /\ InputsOpened /\ BlocksOpen
  BY DEF IInv
<1>3. Len(parser) = 1 /\ Len(opened) \in Nat
  BY <1>1, <1>2, ItemRead, HereFacts DEF ImportNotFound, At
<1>4. BlocksDone'
  BY <1>1, <1>2, <1>3, BlocksStay DEF BlocksInv
<1> QED  BY <1>1, <1>3, <1>4, OutsideBlocks DEF BlocksInv

LEMMA ImportBlocks ==
  ASSUME IInv, BlocksInv, Import
  PROVE  BlocksInv'
<1> DEFINE f == disk[Here.file][Here.pos].file
<1>1. /\ UNCHANGED <<repl, disk, blocks, parser>> /\ ~Ended
      /\ opened' = Append(opened, f) /\ lists' = Append(lists, <<>>)
      /\ parseTreeList' = <<Len(lists) + 1>> \o parseTreeList
  BY DEF Import, At, input, output
<1>2. TypeOK /\ InputsOpened /\ BlocksOpen
  BY DEF IInv
<1>3. Len(parser) = 1 /\ opened \in Seq(File) /\ Len(opened) \in Nat
  BY <1>1, <1>2, ItemRead, HereFacts DEF Import, At, TypeOK
<1>4. /\ Len(opened') \in Nat /\ Len(opened) <= Len(opened')
      /\ \A n \in 1 .. Len(opened) : opened'[n] = opened[n]
  <2> HIDE DEF f
  <2> QED  BY <1>1, <1>3
<1>5. \A l \in 1 .. Len(lists) : l \notin ToSet(parseTreeList) =>
         lists'[l] = lists[l] /\ l \notin ToSet(parseTreeList')
  BY <1>1, <1>2, NewInFront
<1>6. BlocksDone'
  BY <1>1, <1>2, <1>4, <1>5, BlocksStay DEF BlocksInv
<1> QED  BY <1>1, <1>3, <1>6, OutsideBlocks DEF BlocksInv

LEMMA EndOfImportBlocks ==
  ASSUME IInv, BlocksInv, EndOfImport
  PROVE  BlocksInv'
<1>1. /\ UNCHANGED <<repl, disk, opened, lists, blocks, parser>> /\ Ended
      /\ parseTreeList' = Tail(parseTreeList) /\ parser[1].list # None
  BY DEF EndOfImport, ImportEnds, AtEnd, input
<1>2. TypeOK /\ InputsOpened /\ BlocksOpen /\ ListsInStep
  BY DEF IInv
<1>3. Len(parser) = 1 /\ Len(opened) \in Nat
  <2>1. Here.file \in File /\ Here.pos = Len(disk[Here.file]) + 1 /\ Len(disk[Here.file]) \in Nat
    BY <1>1, <1>2, HereFacts DEF InputType
  <2>2. Depth(disk[Here.file], Len(disk[Here.file])) = 0
    BY <1>2, <2>1, DiskFacts
  <2>3. Len(parser) - 1 = Depth(disk[Here.file], Here.pos - 1) /\ Here.pos - 1 = Len(disk[Here.file])
    BY <1>2, <2>1 DEF BlocksOpen
  <2>4. Len(parser) - 1 = 0
    BY <2>2, <2>3
  <2> QED  BY <1>2, <2>4, HereFacts, ParserFacts
<1>4. parseTreeList # <<>> /\ parseTreeList \in Seq(1 .. Len(lists))
  BY <1>1, <1>2, ListInFront DEF TypeOK
<1>5. ASSUME NEW l, l \in ToSet(parseTreeList') PROVE l \in ToSet(parseTreeList)
  <2>1. parseTreeList' \in Seq(1 .. Len(lists))
    BY <1>1, <1>4, TailFacts
  <2>2. PICK j \in 1 .. Len(parseTreeList') : parseTreeList'[j] = l
    BY <1>5, <2>1, ToSetIs
  <2>3. \E i \in 1 .. Len(parseTreeList) : parseTreeList[i] = l
    BY <1>1, <1>4, <2>2, TailRange
  <2> QED  BY <1>4, <2>3, ToSetIs
<1>6. BlocksDone'
  BY <1>1, <1>2, <1>3, <1>5, BlocksStay DEF BlocksInv
<1> QED  BY <1>1, <1>3, <1>6, OutsideBlocks DEF BlocksInv

LEMMA ReadingEndsBlocks ==
  ASSUME BlocksInv, UNCHANGED <<yyin, files, parseTreeList, lists, parser, output>>
  PROVE  BlocksInv'
<1>1. UNCHANGED <<repl, disk, opened, yyin, parseTreeList, lists, parser, blocks>>
  BY DEF files, input, output
<1>2. Here' = Here /\ (Pending' <=> Pending)
  BY <1>1 DEF Here, Pending
<1>3. \A l, R : Filled(l, R)' <=> Filled(l, R)
  BY <1>1, <1>2 DEF Filled, KeptOf, StatementAt
<1>4. ASSUME NEW i, NEW o PROVE InBlock(i, o)' <=> InBlock(i, o)
  <2>1. PICK S : S = ReadIn(o, Len(parser) - i)
    OBVIOUS
  <2>2. ReadIn(o, Len(parser) - i)' = S
    BY <1>1, <1>2, <2>1 DEF ReadIn
  <2>3. \A p : StatementAt(p)' = StatementAt(p)
    BY <1>2 DEF StatementAt
  <2> QED  BY <1>1, <1>2, <1>3, <2>1, <2>2, <2>3 DEF InBlock
<1>5. BlocksFilled'
  BY <1>1, <1>4 DEF BlocksInv, BlocksFilled
<1>6. BlocksDone'
  BY <1>1 DEF BlocksInv, BlocksDone, BlockWhole, KeptOf
<1> QED  BY <1>5, <1>6 DEF BlocksInv

LEMMA CloseBlockBlocks ==
  ASSUME IInv, BlocksInv, CloseBlock
  PROVE  BlocksInv'
<1> DEFINE m == Len(parser)
           text == disk[Here.file]
           n == Here.pos
           l == parseTreeList[1]
           block == [of |-> Statement, list |-> parser[1].list]
<1>1. /\ UNCHANGED <<repl, disk, opened, lists>>
      /\ parseTreeList' = RemoveFirst(parseTreeList, parser[1].list)
      /\ blocks' = blocks \cup {block}
      /\ parser' = [Tail(parser) EXCEPT ![1].funcall = <<Statement>>]
      /\ Advance /\ ~Ended /\ ~Pending
  BY DEF CloseBlock, At, files, input
<1>2. TypeOK /\ InputsOpened /\ BlocksOpen /\ Waiting /\ ListsInStep /\ ListsKept
  BY DEF IInv
<1>3. /\ text[n] = Close /\ m > 1 /\ ~(n > 1 /\ text[n - 1] = Open)
      /\ n \in Nat \ {0} /\ text \in Seq(Item) /\ m \in Nat
      /\ Statement \in StatementType /\ Statement.nth = Here.nth /\ Statement.pos = n
      /\ Here.nth <= Len(opened) /\ Len(opened) \in Nat /\ opened[Here.nth] = Here.file
  BY <1>1, <1>2, ItemRead, HereFacts, ParserFacts DEF CloseBlock, At
<1>4. parser[1].list # None
  BY <1>1, <1>2, <1>3 DEF Waiting
<1>5. /\ parseTreeList # <<>> /\ l \in 1 .. Len(lists) /\ parser[1].list = l
      /\ parseTreeList \in Seq(1 .. Len(lists)) /\ Len(parseTreeList) \in Nat
  BY <1>2, <1>3, <1>4, ListInFront, ParserFacts DEF TypeOK
<1>6. parseTreeList' = Tail(parseTreeList)
  BY <1>1, <1>5, RemoveFirstIsTail
<1>7. /\ parseTreeList' \in Seq(1 .. Len(lists)) /\ Len(parseTreeList') = Len(parseTreeList) - 1
      /\ \A i \in 1 .. Len(parseTreeList) - 1 : parseTreeList'[i] = parseTreeList[i + 1]
  BY <1>5, <1>6, TailFacts
<1>8. l \notin ToSet(parseTreeList')
  <2> SUFFICES ASSUME NEW j \in 1 .. Len(parseTreeList') PROVE parseTreeList'[j] # l
    BY <1>7, ToSetIs
  <2>1. /\ j \in 1 .. Len(parseTreeList) - 1 /\ j + 1 \in 1 .. Len(parseTreeList)
        /\ 1 \in 1 .. Len(parseTreeList) /\ 1 < j + 1
    BY <1>5, <1>7
  <2>2. parseTreeList[1] > parseTreeList[j + 1] /\ parseTreeList[j + 1] \in Nat
    BY <1>2, <2>1, ParserFacts DEF ListsKept
  <2> QED  BY <1>5, <1>7, <2>1, <2>2
<1>9. ASSUME NEW k, k \in ToSet(parseTreeList') PROVE k \in ToSet(parseTreeList)
  <2>1. PICK j \in 1 .. Len(parseTreeList') : parseTreeList'[j] = k
    BY <1>7, <1>9, ToSetIs
  <2>2. \E i \in 1 .. Len(parseTreeList) : parseTreeList[i] = k
    BY <1>5, <1>6, <2>1, TailRange
  <2> QED  BY <1>5, <2>2, ToSetIs
<1>10. PICK o \in Nat : InBlock(1, o)
  BY <1>3 DEF BlocksInv, BlocksFilled
<1>11. /\ Begun(text, o, n - 1, m - 1)
       /\ ToSet(lists[l]) = {StatementAt(p) : p \in KeptOf(Inside(text, o, n - 1, m - 1))}
  BY <1>1, <1>4, <1>5, <1>10 DEF InBlock, ReadIn, Filled
<1>12. Depth(text, n) + 1 = m - 1
  <2>1. m - 1 = Depth(text, n - 1) /\ Depth(text, n - 1) \in Int /\ Depth(text, n) = Depth(text, n - 1) - 1
    BY <1>2, <1>3, DepthNext DEF BlocksOpen
  <2> HIDE DEF m
  <2> QED  BY <1>3, <2>1
<1>13. BlockWhole(block)
  <2>1. block.of = Statement /\ block.list = l /\ disk[opened[block.of.nth]] = text
    BY <1>3, <1>5
  <2>2. block.of.nth = Here.nth /\ block.of.pos = n
    BY <1>3
  <2> HIDE DEF block, text, n, m
  <2>3. ToSet(lists[block.list]) =
          {[nth |-> block.of.nth, pos |-> p] : p \in KeptOf(Inside(text, o, n - 1, m - 1))}
    BY <1>11, <2>1, <2>2 DEF StatementAt
  <2>4. Begun(text, o, n - 1, Depth(text, n) + 1)
    BY <1>11, <1>12
  <2> QED  BY <1>3, <1>12, <2>1, <2>2, <2>3, <2>4 DEF BlockWhole
<1>14. BlocksDone'
  <2> SUFFICES ASSUME NEW b \in blocks'
               PROVE  b.of.nth <= Len(opened') /\ b.list \notin ToSet(parseTreeList') /\ BlockWhole(b)'
    BY DEF BlocksDone
  <2>1. CASE b = block
    <3>1. b.of.nth <= Len(opened') /\ b.list \notin ToSet(parseTreeList')
      BY <1>1, <1>3, <1>5, <1>8, <2>1
    <3>2. BlockWhole(b)
      BY <1>13, <2>1
    <3>3. BlockWhole(b)'
      BY <1>1, <3>2 DEF BlockWhole, KeptOf
    <3> QED  BY <3>1, <3>3
  <2>2. CASE b \in blocks
    <3>1. b.list \notin ToSet(parseTreeList')
      BY <1>9, <2>2 DEF BlocksInv, BlocksDone
    <3>2. Len(opened') \in Nat /\ Len(opened) <= Len(opened')
      BY <1>1, <1>3
    <3>3. b.of.nth <= Len(opened') /\ BlockWhole(b)'
      BY <1>1, <1>2, <2>2, <3>2, BlockStays DEF BlocksInv
    <3> QED  BY <3>1, <3>3
  <2> QED  BY <1>1, <2>1, <2>2
<1>15. /\ Len(parser') = m - 1 /\ parser'[1].funcall = <<Statement>>
       /\ \A i \in 1 .. m - 1 : parser'[i].list = parser[i + 1].list
  <2>1. parser \in Seq(ContextType) /\ parser # <<>>
    BY <1>2 DEF TypeOK
  <2>2. PICK t : t = Tail(parser)
    OBVIOUS
  <2>3. t \in Seq(ContextType) /\ Len(t) = m - 1 /\ \A i \in 1 .. m - 1 : t[i] = parser[i + 1]
    BY <2>1, <2>2, TailFacts
  <2>4. parser' = Put(t, Statement)
    BY <1>1, <2>2 DEF Put
  <2>5. t # <<>>
    BY <1>3, <2>3
  <2>6. /\ Len(parser') = Len(t) /\ parser'[1].funcall = <<Statement>>
        /\ \A i \in 1 .. Len(t) : parser'[i].list = t[i].list
    BY <1>3, <2>3, <2>4, <2>5, FuncallPut
  <2> QED  BY <2>3, <2>6
<1>16. BlocksFilled'
  <2>1. BlocksFilled /\ Len(parser') = Len(parser) - 1
        /\ \A i \in 1 .. Len(parser') : parser'[i].list = parser[i + 1].list
    BY <1>15 DEF BlocksInv
  <2> QED  BY <1>1, <1>2, <1>3, <1>15, <2>1, StatementInBlock
<1> QED  BY <1>14, <1>16 DEF BlocksInv

LEMMA BlocksInductive ==
  ASSUME IInv, BlocksInv, [Next]_vars
  PROVE  BlocksInv'
<1>1. CASE CallFails \/ EndOfEmptyImport \/ EndOfMain \/ NoStatement
  BY <1>1, ReadingEndsBlocks DEF CallFails, EndOfEmptyImport, EndOfMain, NoStatement
<1>2. CASE UNCHANGED vars
  BY <1>2, ReadingEndsBlocks DEF vars, files, input, output
<1> QED  BY <1>1, <1>2, ImportBlocks, ImportNotFoundBlocks, FirstStatementBlocks,
             FurtherStatementBlocks, ReadCallBlocks, OpenBlockBlocks, CloseBlockBlocks,
             EndOfImportBlocks DEF Next

LEMMA InitBlocks == Init => BlocksInv
<1> SUFFICES ASSUME Init PROVE BlocksInv
  OBVIOUS
<1>1. blocks = {} /\ Len(parser) = 1
  BY DEF Init
<1> QED  BY <1>1 DEF BlocksInv, BlocksFilled, BlocksDone

(* The block that BlocksWhole looks for is the one begun.                  *)
LEMMA InvBlocksWhole == TypeOK /\ BlocksDone => BlocksWhole
<1> SUFFICES ASSUME TypeOK, BlocksDone, NEW b \in blocks
             PROVE  LET text == disk[opened[b.of.nth]]
                        depth == Depth(text, b.of.pos) + 1
                        begin == CHOOSE i \in 1 .. b.of.pos :
                                    /\ text[i] = Open /\ Depth(text, i) = depth
                                    /\ \A j \in i .. b.of.pos - 1 : Depth(text, j) >= depth
                        inside == {p \in begin + 1 .. b.of.pos - 1 :
                                     text[p] \in {Call, Close} /\ Depth(text, p) = depth}
                        kept == IF repl THEN {p \in inside : \A q \in inside : q <= p} ELSE inside
                    IN  ToSet(lists[b.list]) = {[nth |-> b.of.nth, pos |-> p] : p \in kept}
  BY DEF BlocksWhole
<1> DEFINE text == disk[opened[b.of.nth]]
           e == b.of.pos
           d == Depth(text, e) + 1
           Begins(i) == /\ text[i] = Open /\ Depth(text, i) = d
                        /\ \A j \in i .. e - 1 : Depth(text, j) >= d
           begin == CHOOSE i \in 1 .. e : Begins(i)
<1>1. e \in Nat \ {0} /\ text \in Seq(Item) /\ b.of.nth \in 1 .. Len(opened)
  <2>1. b.of \in StatementType /\ b.of.nth <= Len(opened) /\ opened \in Seq(File)
    BY DEF TypeOK, BlocksDone
  <2>2. e \in Nat \ {0} /\ b.of.nth \in 1 .. Len(opened)
    BY <2>1 DEF StatementType
  <2>3. opened[b.of.nth] \in File
    BY <2>1, <2>2, ElementOfSeq
  <2> QED  BY <2>2, <2>3, DiskFacts
<1>2. text[e] = Close /\ BlockWhole(b)
  BY DEF BlocksDone, BlockWhole
<1>3. PICK o \in Nat :
        /\ Begun(text, o, e - 1, d)
        /\ ToSet(lists[b.list]) =
             {[nth |-> b.of.nth, pos |-> p] : p \in KeptOf(Inside(text, o, e - 1, d))}
  BY <1>2 DEF BlockWhole
<1>4. \A i \in 1 .. e : Begins(i) <=> Begun(text, i, e - 1, d)
  <2> SUFFICES ASSUME NEW i \in 1 .. e PROVE Begins(i) <=> Begun(text, i, e - 1, d)
    OBVIOUS
  <2>1. Open # Close
    BY ItemKinds
  <2>2. text[i] = Open => i \in 1 .. e - 1
    BY <1>1, <1>2, <2>1
  <2> HIDE DEF text, e, d
  <2> QED  BY <2>2 DEF Begun
<1>5. o \in 1 .. e /\ Begins(o)
  <2>1. o \in 1 .. e
    BY <1>1, <1>3 DEF Begun
  <2> QED  BY <1>3, <1>4, <2>1
<1>6. begin \in 1 .. e /\ Begins(begin)
  <2> HIDE DEF Begins, e
  <2> QED  BY <1>5
<1>7. begin = o
  <2>1. Begun(text, begin, e - 1, d) /\ e - 1 \in Nat
    <3> HIDE DEF begin, text, e, d, Begins
    <3> QED  BY <1>1, <1>4, <1>6
  <2> HIDE DEF begin, text, e, d, Begins
  <2> QED  BY ONLY <1>1, <1>3, <2>1, BegunOnce
<1>8. KeptOf(Inside(text, begin, e - 1, d)) =
        LET inside == {p \in begin + 1 .. e - 1 : text[p] \in {Call, Close} /\ Depth(text, p) = d}
        IN  IF repl THEN {p \in inside : \A q \in inside : q <= p} ELSE inside
  BY DEF KeptOf, Inside
<1>9. ToSet(lists[b.list]) =
        {[nth |-> b.of.nth, pos |-> p] : p \in KeptOf(Inside(text, begin, e - 1, d))}
  <2> HIDE DEF begin
  <2> QED  BY <1>3, <1>7
<1> QED  BY <1>8, <1>9

(* A block that was read has a list of its own, with the statements inside *)
(* it, no more and no less; at the prompt with the last one's value.       *)
THEOREM BlocksStayWhole == Spec => []BlocksWhole
<1>1. Init => IInv /\ BlocksInv
  BY InitInv, InitBlocks
<1>2. (IInv /\ BlocksInv) /\ [Next]_vars => (IInv /\ BlocksInv)'
  BY Inductive, BlocksInductive
<1>3. IInv /\ BlocksInv => BlocksWhole
  BY InvBlocksWhole DEF IInv, BlocksInv
<1> QED  BY <1>1, <1>2, <1>3, PTL DEF Spec
=============================================================================
