------------------------- MODULE CompiledSaveProofs -------------------------
(***************************************************************************)
(* Theorems about CompiledSave, for pages of any size and any number of    *)
(* saves, messages and files, in programs whose nodes fit into one page:   *)
(* no open file is lost, and if the handlers do not both have saves and    *)
(* raise errors, an active save is found by the errors raised in it.       *)
(***************************************************************************)
EXTENDS CompiledSave, SequenceTheorems, TLAPS

Word ==
    [word : {"branch"}, id : Nat] \cup [word : {"message"}, m : Msgs]
        \cup {OldValue, NewValue}
Frame == [kind : {"body"}, id : Nat] \cup [kind : {"handler"}, id : Nat, name : Word]
Datum == Node \cup {Zero, <<"frame">>, <<"value">>} \cup {<<"file", f>> : f \in Files}

TypeOK ==
    /\ stack \in Seq(Word)
    /\ frames \in Seq(Frame) /\ outside \in Seq(Seq(Frame))
    /\ listmanager \in Node /\ jmplist \in Node /\ closelist \in Node
    /\ data \in [Node -> Datum]
    /\ next \in [Node -> Node \cup {Zero} \cup Nat]
    /\ opened \subseteq Files
    /\ handlers \in Programs

(* A node that was not handed out holds nothing.                           *)
Allocated ==
    /\ listmanager[1] = 1 /\ listmanager[2] \in 2 .. PageSize - 1
    /\ \A n \in Node : data[n] # Zero => n[2] \in 2 .. listmanager[2] - 1

(* The nodes J were put on jmplist: each has a second one, which holds the *)
(* height of the stack, and is linked to another of J or to the first node *)
(* of the page.                                                            *)
Bottom == <<1, 0>>
Height(n) == next[data[n]]
Jumps(J) ==
    /\ J \subseteq Listed
    /\ jmplist \in J \cup {Bottom}
    /\ \A n \in J :
         /\ data[n] \in Node /\ data[data[n]] = <<"frame">>
         /\ Height(n) \in Nat \ {0}
         /\ next[n] \in J \cup {Bottom}
JumpsLinked == \E J \in SUBSET Node : Jumps(J)

(* The frames fs have words of their own below the kth of the stack st: a  *)
(* body its handler's address, to which one of the heights hs leads, and a *)
(* handler two words.                                                      *)
Heights == {Height(n) : n \in Chain(jmplist)}
Wide(f) == IF f.kind = "handler" THEN 1 ELSE 0
Laid(st, hs, fs, pos, k) ==
    /\ Len(pos) = Len(fs)
    /\ \A i \in 1 .. Len(fs) : pos[i] + Wide(fs[i]) < k
    /\ \A i \in 1 .. Len(fs) : fs[i].kind = "body" => st[pos[i]] = Branch(fs[i].id) /\ pos[i] \in hs
    /\ \A i, j \in 1 .. Len(fs) : i < j => pos[i] + Wide(fs[i]) < pos[j]
Placed(st, hs, fs, k) == \E pos \in Seq(Nat \ {0}) : Laid(st, hs, fs, pos, k)

(* What is active has its words, and so has what was around a save whose   *)
(* address is still there, below that address.                             *)
Founded(st, hs, out, w, k) ==
    w.word = "branch" => w.id \in 1 .. Len(out) /\ Placed(st, hs, out[w.id], k)
FramesPlaced == Placed(stack, Heights, frames, Len(stack) + 1)
BranchesFounded ==
    \A q \in 1 .. Len(stack) : Founded(stack, Heights, outside, stack[q], q)

(* Without saves in handlers every word below those of the handler was put *)
(* there by a save that is on jmplist, the first the highest.              *)
Base == IF In("handler") THEN Len(stack) - 2 ELSE Len(stack)
Bodies(fs) == \A i \in 1 .. Len(fs) : fs[i].kind = "body"
Straight ==
    /\ 1 .. Base \subseteq Heights
    /\ \A h \in Heights : h <= Base
    /\ \A n \in Chain(jmplist) : next[n] \in Chain(jmplist) => Height(next[n]) < Height(n)
    /\ \A i \in 1 .. Len(frames) - 1 : frames[i].kind = "body"
    /\ \A id \in 1 .. Len(outside) : Bodies(outside[id])

(* The inductive invariant.                                                *)
IInv ==
    /\ TypeOK /\ Allocated /\ JumpsLinked
    /\ FramesPlaced /\ BranchesFounded
    /\ "save" \notin handlers => Straight

(* What the list of files needs: no more than that the nodes are handed    *)
(* out one after another.                                                  *)
HeapTyped ==
    /\ listmanager \in Node /\ closelist \in Node
    /\ DOMAIN data = Node /\ DOMAIN next = Node
FilesInv == HeapTyped /\ Allocated /\ FilesListed

-----------------------------------------------------------------------------
(* What is found from n on among the nodes L, linked by link.              *)

LEMMA ChainIs == \A n : Chain(n) = Reach(Listed, next, n)
    BY DEF Chain

LEMMA ChainIsAfter == \A n : Chain(n)' = Reach(Listed', next', n)
    BY DEF Chain

LEMMA ReachFirst ==
    ASSUME NEW L, NEW link, NEW n
    PROVE  /\ Reach(L, link, n) \subseteq L
           /\ n \in L => n \in Reach(L, link, n)
           /\ n \notin L => Reach(L, link, n) = {}
    BY DEF Reach

LEMMA ReachClosed ==
    ASSUME NEW L, NEW link, NEW n
    PROVE  Closed(L, link, Reach(L, link, n))
    BY DEF Reach, Closed

LEMMA ReachLeast ==
    ASSUME NEW L, NEW link, NEW n, NEW S \in SUBSET L, n \in L => n \in S, Closed(L, link, S)
    PROVE  Reach(L, link, n) \subseteq S
    BY DEF Reach

(* With more nodes, but the same links, at least as much is found.         *)
LEMMA ReachGrows ==
    ASSUME NEW L, NEW link, NEW M, NEW after, L \subseteq M, \A k \in L : after[k] = link[k], NEW n
    PROVE  Reach(L, link, n) \subseteq Reach(M, after, n)
<1> SUFFICES ASSUME NEW k \in Reach(L, link, n), NEW S \in SUBSET M, n \in S, Closed(M, after, S)
             PROVE  k \in S
    BY DEF Reach
<1>1. S \cap L \in SUBSET L /\ n \in L /\ n \in S \cap L
    BY DEF Reach
<1>2. Closed(L, link, S \cap L)
    BY DEF Closed
<1> QED
    BY <1>1, <1>2 DEF Reach

(* As much, if none of them is linked to a node that is new.               *)
LEMMA ReachKept ==
    ASSUME NEW L, NEW link, NEW M, NEW after, L \subseteq M, \A k \in L : after[k] = link[k],
           NEW n, n \in M => n \in L,
           \A k \in Reach(L, link, n) : link[k] \in M => link[k] \in L
    PROVE  Reach(M, after, n) = Reach(L, link, n)
<1>1. Closed(M, after, Reach(L, link, n))
  <2>1. Closed(L, link, Reach(L, link, n)) /\ Reach(L, link, n) \subseteq L
    BY ReachClosed, ReachFirst
  <2> QED
    BY <2>1 DEF Closed
<1>2. Reach(L, link, n) \in SUBSET M /\ (n \in M => n \in Reach(L, link, n))
    BY ReachFirst
<1>3. Reach(M, after, n) \subseteq Reach(L, link, n)
    BY <1>1, <1>2, ReachLeast
<1>4. Reach(L, link, n) \subseteq Reach(M, after, n)
    BY ReachGrows
<1> QED
    BY <1>3, <1>4

(* From a node on there are that node and what is found from the next on.  *)
LEMMA ReachNext ==
    ASSUME NEW L, NEW link, NEW a \in L
    PROVE  Reach(L, link, a) = {a} \cup Reach(L, link, link[a])
<1> DEFINE S == {a} \cup Reach(L, link, link[a])
<1>1. S \in SUBSET L /\ a \in S
    BY ReachFirst
<1>2. Closed(L, link, S)
  <2>1. Closed(L, link, Reach(L, link, link[a]))
    BY ReachClosed
  <2>2. link[a] \in L => link[a] \in S
    BY ReachFirst
  <2> QED
    BY <2>1, <2>2 DEF Closed
<1>3. Reach(L, link, a) \subseteq S
    BY <1>1, <1>2, ReachLeast
<1>4. Reach(L, link, link[a]) \subseteq Reach(L, link, a)
  <2>1. Closed(L, link, Reach(L, link, a)) /\ Reach(L, link, a) \in SUBSET L /\ a \in Reach(L, link, a)
    BY ReachClosed, ReachFirst
  <2>2. link[a] \in L => link[a] \in Reach(L, link, a)
    BY <2>1 DEF Closed
  <2> QED
    BY <2>1, <2>2, ReachLeast
<1> QED
    BY <1>1, <1>3, <1>4, ReachFirst

-----------------------------------------------------------------------------
(* Nodes, and what they hold.                                              *)

LEMMA NodeIs ==
    ASSUME MaxPages = 1
    PROVE  /\ \A n \in Node : n[1] = 1 /\ n[2] \in 0 .. PageSize - 1 /\ n = <<1, n[2]>>
           /\ \A i \in 0 .. PageSize - 1 : <<1, i>> \in Node /\ <<1, i>>[1] = 1 /\ <<1, i>>[2] = i
           /\ Bottom \in Node /\ Bottom[2] = 0
    BY PagesHoldLists DEF Node, Bottom

LEMMA HeldApart ==
    /\ \A n \in Node : n \notin {Zero, <<"frame">>, <<"value">>}
    /\ \A f : <<"file", f>> \notin {Zero, <<"frame">>, <<"value">>}
    /\ Zero # <<"frame">> /\ Zero # <<"value">> /\ <<"frame">> # <<"value">>
<1>1. \A n \in Node : Len(n) = 2
    BY DEF Node
<1>2. Len(Zero) = 0 /\ Len(<<"frame">>) = 1 /\ Len(<<"value">>) = 1 /\ \A f : Len(<<"file", f>>) = 2
    BY DEF Zero
<1>3. <<"frame">> # <<"value">>
  <2>1. <<"frame">>[1] = "frame" /\ <<"value">>[1] = "value"
    OBVIOUS
  <2> QED
    BY <2>1
<1> QED
    BY <1>1, <1>2, <1>3

LabelType(J) == [manager : Node, jmp : J, close : Node, node : Node \cup {Zero}]

(* Within a page the node handed out is the one at listmanager.            *)
LEMMA AllocIs ==
    ASSUME MaxPages = 1, NEW J, NEW h \in LabelType(J), InMemory(AllocList(h))
    PROVE  /\ h.manager[2] < PageSize - 1
           /\ AllocList(h) = [h EXCEPT !.manager = <<1, h.manager[2] + 1>>, !.node = h.manager]
           /\ AllocList(h) \in LabelType(J)
<1>1. h.manager \in Node
    BY DEF LabelType
<1>2. h.manager[1] = 1 /\ h.manager[2] \in 0 .. PageSize - 1 /\ h.manager = <<1, h.manager[2]>>
    BY <1>1, NodeIs
<1>3. h.manager[2] < PageSize - 1
  <2> SUFFICES ASSUME ~(h.manager[2] < PageSize - 1)  PROVE FALSE
    OBVIOUS
  <2>1. AllocList(h).node = <<2, 1>>
    BY <1>2 DEF AllocList
  <2>2. <<2, 1>> \in Node /\ <<2, 1>>[1] = 2
    BY <2>1 DEF InMemory
  <2> QED
    BY <2>2, NodeIs
<1>4. AllocList(h) = [h EXCEPT !.manager = <<1, h.manager[2] + 1>>, !.node = h.manager]
    BY <1>2, <1>3 DEF AllocList
<1>5. <<1, h.manager[2] + 1>> \in Node
  <2>1. h.manager[2] + 1 \in 0 .. PageSize - 1
    BY <1>2, <1>3, PagesHoldLists
  <2> QED
    BY <2>1, NodeIs
<1> QED
    BY <1>1, <1>3, <1>4, <1>5 DEF LabelType

LEMMA TypesOfHeap == TypeOK => HeapTyped
    BY DEF TypeOK, HeapTyped

LEMMA LabelsTyped ==
    ASSUME HeapTyped
    PROVE  Labels \in LabelType({jmplist})
    BY DEF HeapTyped, Labels, LabelType

(* The node that is handed out first, and the next.                        *)
LEMMA OneNode ==
    ASSUME MaxPages = 1, HeapTyped, Allocated, InMemory(AllocList(Labels))
    PROVE  /\ AllocList(Labels) \in LabelType({jmplist})
           /\ AllocList(Labels).node = listmanager /\ data[listmanager] = Zero
           /\ AllocList(Labels).manager = <<1, listmanager[2] + 1>>
           /\ AllocList(Labels).jmp = jmplist /\ AllocList(Labels).close = closelist
           /\ AllocList(Labels).manager[1] = 1
           /\ AllocList(Labels).manager[2] = listmanager[2] + 1
           /\ listmanager[2] + 1 \in 2 .. PageSize - 1
<1>1. /\ Labels \in LabelType({jmplist})
      /\ Labels.manager = listmanager /\ Labels.jmp = jmplist /\ Labels.close = closelist
    BY LabelsTyped DEF Labels
<1>2. /\ listmanager[2] < PageSize - 1
      /\ AllocList(Labels) = [Labels EXCEPT !.manager = <<1, listmanager[2] + 1>>, !.node = listmanager]
      /\ AllocList(Labels) \in LabelType({jmplist})
    BY <1>1, AllocIs
<1>3. /\ AllocList(Labels).node = listmanager
      /\ AllocList(Labels).manager = <<1, listmanager[2] + 1>>
      /\ AllocList(Labels).jmp = jmplist /\ AllocList(Labels).close = closelist
    BY <1>1, <1>2 DEF LabelType
<1>4. listmanager[2] \in 2 .. PageSize - 1 /\ listmanager \in Node
    BY DEF Allocated, HeapTyped
<1>5. data[listmanager] = Zero
    BY <1>4 DEF Allocated
<1>6. listmanager[2] + 1 \in 2 .. PageSize - 1
    BY <1>2, <1>4, PagesHoldLists
<1> QED
    BY <1>2, <1>3, <1>5, <1>6

-----------------------------------------------------------------------------
(* A step writes nodes that held nothing, and leaves the others alone.     *)

LEMMA ListedJumps ==
    ASSUME NEW J, Jumps(J), TypeOK
    PROVE  /\ J \subseteq Listed /\ J \subseteq Node
           /\ \A n \in J : data[n] \in Node /\ data[data[n]] = <<"frame">> /\ Height(n) \in Nat \ {0}
           /\ \A n \in J : next[n] \in J \cup {Bottom}
    BY DEF Jumps, Listed

LEMMA BottomUnlisted ==
    ASSUME MaxPages = 1, Allocated
    PROVE  Bottom \in Node /\ data[Bottom] = Zero /\ Bottom \notin Listed
<1>1. Bottom \in Node /\ Bottom[2] = 0
    BY NodeIs
<1>2. data[Bottom] = Zero
    BY <1>1 DEF Allocated
<1> QED
    BY <1>1, <1>2 DEF Listed

(* Only nodes of saves are found from the first of jmplist on.             *)
LEMMA ChainOfJumps ==
    ASSUME MaxPages = 1, TypeOK, Allocated, NEW J, Jumps(J), NEW a \in J \cup {Bottom}
    PROVE  Chain(a) \subseteq J /\ (a \in J => a \in Chain(a))
<1>1. Bottom \notin Listed
    BY BottomUnlisted
<1>2. J \in SUBSET Listed /\ \A n \in J : next[n] \in J \cup {Bottom}
    BY ListedJumps
<1>3. Closed(Listed, next, J)
    BY <1>1, <1>2 DEF Closed
<1>4. Reach(Listed, next, a) \subseteq J
    BY <1>1, <1>2, <1>3, ReachLeast
<1>5. a \in J => a \in Reach(Listed, next, a)
    BY <1>2, ReachFirst
<1> QED
    BY <1>4, <1>5, ChainIs

LEMMA NodesWritten ==
    ASSUME MaxPages = 1, TypeOK, Allocated, NEW J, Jumps(J), NEW F \in SUBSET Node,
           \A n \in F : data[n] = Zero /\ n[2] >= 2,
           \A n \in Node \ F : data'[n] = data[n] /\ next'[n] = next[n]
    PROVE  /\ Listed \subseteq Listed'
           /\ \A n \in Listed : n \in Node \ F /\ data'[n] = data[n] /\ next'[n] = next[n]
           /\ \A n : Reach(Listed, next, n) \subseteq Reach(Listed', next', n)
           /\ \A n \in J : data'[n] = data[n] /\ data'[data[n]] = <<"frame">>
                           /\ next'[n] = next[n] /\ next'[data[n]] = next[data[n]]
           /\ \A a \in J \cup {Bottom} : Reach(Listed', next', a) = Chain(a)
           /\ Bottom \notin Listed'
<1>1. \A n \in Listed : n \in Node \ F
    BY DEF Listed
<1>2. Listed \subseteq Listed'
    BY <1>1 DEF Listed
<1>3. \A n : Reach(Listed, next, n) \subseteq Reach(Listed', next', n)
    BY <1>1, <1>2, ReachGrows
<1>4. ASSUME NEW n \in J
      PROVE  /\ data'[n] = data[n] /\ next'[n] = next[n]
             /\ data'[data[n]] = <<"frame">> /\ next'[data[n]] = next[data[n]]
  <2>1. n \in Listed /\ data[n] \in Node /\ data[data[n]] = <<"frame">>
    BY ListedJumps
  <2>2. data[n] \notin F
    BY <2>1, HeldApart
  <2> QED
    BY <1>1, <2>1, <2>2
<1>5. Bottom \notin Listed'
  <2>1. Bottom \in Node /\ data[Bottom] = Zero /\ Bottom[2] = 0
    BY BottomUnlisted, NodeIs
  <2>2. Bottom \notin F
    BY <2>1
  <2> QED
    BY <2>1, <2>2 DEF Listed
<1>6. ASSUME NEW a \in J \cup {Bottom}  PROVE  Reach(Listed', next', a) = Chain(a)
  <2>1. Reach(Listed, next, a) \subseteq J
    BY ChainOfJumps, ChainIs
  <2>2. J \subseteq Listed /\ \A n \in J : next[n] \in J \cup {Bottom}
    BY ListedJumps
  <2>3. \A k \in Reach(Listed, next, a) : next[k] \in Listed' => next[k] \in Listed
    BY <1>5, <2>1, <2>2
  <2>4. a \in Listed' => a \in Listed
    BY <1>5, <2>2
  <2>5. Reach(Listed', next', a) = Reach(Listed, next, a)
    BY <1>1, <1>2, <2>3, <2>4, ReachKept
  <2> QED
    BY <2>5, ChainIs
<1> QED
    BY <1>1, <1>2, <1>3, <1>4, <1>5, <1>6

-----------------------------------------------------------------------------
(* Frames and their words.                                                 *)

LEMMA FrameKinds ==
    /\ \A f \in Frame : f.kind \in {"body", "handler"} /\ f.id \in Nat /\ Wide(f) \in {0, 1}
    /\ \A i \in Nat : Body(i) \in Frame /\ Body(i).kind = "body" /\ Body(i).id = i /\ Wide(Body(i)) = 0
    /\ \A i \in Nat, w \in Word : Handler(i, w) \in Frame /\ Handler(i, w).kind = "handler"
                                  /\ Wide(Handler(i, w)) = 1
    BY DEF Frame, Wide, Body, Handler

LEMMA WordKinds ==
    /\ \A w \in Word : w.word = "branch" => w = Branch(w.id) /\ w.id \in Nat
    /\ \A i \in Nat : Branch(i) \in Word /\ Branch(i).word = "branch" /\ Branch(i).id = i
    /\ \A m \in Msgs : Message(m) \in Word /\ Message(m).word = "message"
    /\ OldValue \in Word /\ OldValue.word = "old value"
    /\ NewValue \in Word /\ NewValue.word = "new value"
<1>1. OldValue.word = "old value" /\ NewValue.word = "new value"
    BY DEF OldValue, NewValue
<1>2. ASSUME NEW w \in Word, w.word = "branch"  PROVE  w = Branch(w.id) /\ w.id \in Nat
  <2>1. w # OldValue /\ w # NewValue
    BY <1>1, <1>2
  <2>2. ~\E m \in Msgs : w = [word |-> "message", m |-> m]
    BY <1>2
  <2>3. w \in [word : {"branch"}, id : Nat]
    BY <2>1, <1>2 DEF Word
  <2> QED
    BY <2>3 DEF Branch
<1>3. \A i \in Nat : Branch(i) \in Word /\ Branch(i).word = "branch" /\ Branch(i).id = i
    BY DEF Word, Branch
<1>4. \A m \in Msgs : Message(m) \in Word /\ Message(m).word = "message"
    BY DEF Word, Message
<1>5. OldValue \in Word /\ NewValue \in Word
    BY DEF Word
<1> QED
    BY <1>1, <1>2, <1>3, <1>4, <1>5

(* What is above the frames may change, and heights may be added.          *)
LEMMA PlacedMoved ==
    ASSUME NEW st, NEW after, NEW hs, NEW more, NEW fs \in Seq(Frame), NEW k \in Nat, NEW m \in Nat, k <= m,
           Placed(st, hs, fs, k),
           \A q \in Nat \ {0} : q < k => after[q] = st[q],
           \A h \in hs : h < k => h \in more
    PROVE  Placed(after, more, fs, m)
<1>1. PICK pos \in Seq(Nat \ {0}) : Laid(st, hs, fs, pos, k)
    BY DEF Placed
<1>2. ASSUME NEW i \in 1 .. Len(fs)
      PROVE  pos[i] \in Nat \ {0} /\ pos[i] < k /\ pos[i] + Wide(fs[i]) < m
  <2>1. pos[i] \in Nat \ {0} /\ pos[i] + Wide(fs[i]) < k
    BY <1>1 DEF Laid
  <2>2. Wide(fs[i]) \in {0, 1}
    BY FrameKinds
  <2> QED
    BY <2>1, <2>2
<1>3. Laid(after, more, fs, pos, m)
    BY <1>1, <1>2 DEF Laid
<1> QED
    BY <1>3 DEF Placed

(* A frame more.                                                           *)
LEMMA PlacedMore ==
    ASSUME NEW st, NEW hs, NEW fs \in Seq(Frame), NEW k \in Nat \ {0}, Placed(st, hs, fs, k),
           NEW f \in Frame, f.kind = "body" => st[k] = Branch(f.id) /\ k \in hs
    PROVE  Placed(st, hs, Append(fs, f), k + 1 + Wide(f))
<1>1. PICK pos \in Seq(Nat \ {0}) : Laid(st, hs, fs, pos, k)
    BY DEF Placed
<1> DEFINE gs == Append(fs, f)
           more == Append(pos, k)
<1>2. /\ more \in Seq(Nat \ {0}) /\ Len(more) = Len(fs) + 1 /\ more[Len(fs) + 1] = k
      /\ \A i \in 1 .. Len(fs) : more[i] = pos[i]
    BY <1>1 DEF Laid
<1>3. /\ Len(gs) = Len(fs) + 1 /\ gs[Len(fs) + 1] = f /\ \A i \in 1 .. Len(fs) : gs[i] = fs[i]
      /\ Len(fs) \in Nat
    OBVIOUS
<1> HIDE DEF gs, more
<1>4. \A i \in 1 .. Len(gs) : i \in 1 .. Len(fs) \/ i = Len(fs) + 1
    BY <1>3
<1>5. Wide(f) \in {0, 1}
    BY FrameKinds
<1>6. ASSUME NEW i \in 1 .. Len(fs)
      PROVE  /\ pos[i] \in Nat \ {0} /\ Wide(fs[i]) \in {0, 1}
             /\ pos[i] + Wide(fs[i]) < k /\ pos[i] + Wide(fs[i]) < k + 1 + Wide(f)
  <2>1. pos[i] \in Nat \ {0} /\ pos[i] + Wide(fs[i]) < k /\ Wide(fs[i]) \in {0, 1}
    BY <1>1, FrameKinds DEF Laid
  <2> QED
    BY <1>5, <2>1
<1>7. ASSUME NEW i \in 1 .. Len(gs)  PROVE  more[i] + Wide(gs[i]) < k + 1 + Wide(f)
  <2>1. CASE i \in 1 .. Len(fs)
    BY <1>2, <1>3, <1>6, <2>1
  <2>2. CASE i = Len(fs) + 1
    BY <1>2, <1>3, <1>5, <2>2
  <2> QED
    BY <1>4, <2>1, <2>2
<1>8. \A i \in 1 .. Len(gs) : gs[i].kind = "body" => st[more[i]] = Branch(gs[i].id) /\ more[i] \in hs
    BY <1>1, <1>2, <1>3, <1>4 DEF Laid
<1>9. ASSUME NEW i \in 1 .. Len(gs), NEW j \in 1 .. Len(gs), i < j
      PROVE  more[i] + Wide(gs[i]) < more[j]
  <2>1. i \in 1 .. Len(fs)
    BY <1>3, <1>9
  <2>2. CASE j \in 1 .. Len(fs)
    BY <1>1, <1>2, <1>3, <1>9, <2>1, <2>2 DEF Laid
  <2>3. CASE j = Len(fs) + 1
    BY <1>2, <1>3, <1>6, <2>1, <2>3
  <2> QED
    BY <1>4, <2>2, <2>3
<1>10. Laid(st, hs, gs, more, k + 1 + Wide(f))
    BY <1>2, <1>3, <1>7, <1>8, <1>9 DEF Laid
<1> QED
    BY <1>2, <1>10 DEF Placed, gs

(* The last frame less: what is below it is left.                          *)
LEMMA PlacedFewer ==
    ASSUME NEW st, NEW hs, NEW fs \in Seq(Frame), fs # <<>>, NEW k \in Nat, Placed(st, hs, fs, k)
    PROVE  /\ Front(fs) \in Seq(Frame) /\ Len(Front(fs)) = Len(fs) - 1
           /\ \A i \in 1 .. Len(fs) - 1 : Front(fs)[i] = fs[i]
           /\ Last(fs) = fs[Len(fs)] /\ Last(fs) \in Frame
           /\ \E p \in Nat \ {0} : p + Wide(Last(fs)) < k /\ Placed(st, hs, Front(fs), p)
<1>1. PICK pos \in Seq(Nat \ {0}) : Laid(st, hs, fs, pos, k)
    BY DEF Placed
<1> DEFINE n == Len(fs)
           gs == Front(fs)
           less == SubSeq(pos, 1, Len(fs) - 1)
<1>2. n \in Nat \ {0} /\ n \in 1 .. n /\ Len(pos) = n
    BY <1>1 DEF Laid
<1>3. /\ gs \in Seq(Frame) /\ Len(gs) = n - 1 /\ \A i \in 1 .. n - 1 : gs[i] = fs[i]
    BY <1>2 DEF Front
<1>4. /\ less \in Seq(Nat \ {0}) /\ Len(less) = n - 1 /\ \A i \in 1 .. n - 1 : less[i] = pos[i]
    BY <1>2
<1>5. Last(fs) = fs[n] /\ Last(fs) \in Frame
    BY <1>2 DEF Last
<1> HIDE DEF gs, less
<1>6. pos[n] \in Nat \ {0} /\ pos[n] + Wide(Last(fs)) < k
    BY <1>1, <1>2, <1>5 DEF Laid
<1>7. \A i \in 1 .. n - 1 : i \in 1 .. n /\ i < n
    BY <1>2
<1>8. Laid(st, hs, gs, less, pos[n])
    BY <1>1, <1>2, <1>3, <1>4, <1>7 DEF Laid
<1>9. Placed(st, hs, gs, pos[n])
    BY <1>4, <1>8 DEF Placed
<1> QED
    BY <1>3, <1>5, <1>6, <1>9 DEF gs

-----------------------------------------------------------------------------
(* The start, and the steps.                                               *)

LEMMA InitInv ==
    ASSUME MaxPages = 1, Init
    PROVE  IInv
<1>1. /\ stack = <<>> /\ frames = <<>> /\ outside = <<>> /\ opened = {} /\ handlers \in Programs
      /\ jmplist = Bottom /\ closelist = <<1, 1>> /\ listmanager = <<1, 2>>
      /\ data = [n \in Node |-> Zero] /\ next = [n \in Node |-> Zero]
    BY DEF Init, Bottom
<1>2. /\ Bottom \in Node /\ <<1, 1>> \in Node /\ <<1, 2>> \in Node
      /\ <<1, 2>>[1] = 1 /\ <<1, 2>>[2] = 2 /\ 2 \in 2 .. PageSize - 1
    BY PagesHoldLists, NodeIs
<1>3. TypeOK
  <2>1. data \in [Node -> Datum] /\ next \in [Node -> Node \cup {Zero} \cup Nat]
    BY <1>1 DEF Datum
  <2> QED
    BY <1>1, <1>2, <2>1 DEF TypeOK
<1>4. Allocated
    BY <1>1, <1>2 DEF Allocated
<1>5. Listed = {}
    BY <1>1 DEF Listed
<1>6. JumpsLinked
  <2>1. Jumps({})
    BY <1>1 DEF Jumps
  <2> QED
    BY <2>1 DEF JumpsLinked
<1>7. Chain(jmplist) = {} /\ Heights = {}
    BY <1>5, ReachFirst DEF Chain, Heights
<1>8. FramesPlaced
  <2>1. <<>> \in Seq(Nat \ {0}) /\ Len(<<>>) = 0
    OBVIOUS
  <2>2. Laid(stack, Heights, frames, <<>>, Len(stack) + 1)
    BY <1>1, <2>1 DEF Laid
  <2> QED
    BY <2>1, <2>2 DEF FramesPlaced, Placed
<1>9. BranchesFounded
    BY <1>1 DEF BranchesFounded
<1>10. Straight
  <2>1. Base = 0
    BY <1>1 DEF Base, In
  <2> QED
    BY <1>1, <1>7, <2>1 DEF Straight
<1> QED
    BY <1>3, <1>4, <1>6, <1>8, <1>9, <1>10 DEF IInv

(* Frames and the stack stay placed if the heights do.                     *)
LEMMA HeapAside ==
    ASSUME IInv, UNCHANGED <<stack, frames, outside, handlers>>, Heights' = Heights,
           Chain(jmplist)' = Chain(jmplist),
           \A n \in Chain(jmplist) : next'[n] = next[n],
           \A n \in Chain(jmplist) : Height(n)' = Height(n)
    PROVE  FramesPlaced' /\ BranchesFounded' /\ ("save" \notin handlers' => Straight')
<1>1. FramesPlaced'
    BY DEF IInv, FramesPlaced
<1>2. BranchesFounded'
    BY DEF IInv, BranchesFounded
<1>3. ASSUME "save" \notin handlers'  PROVE Straight'
  <2>1. Straight /\ Base' = Base
    BY <1>3 DEF IInv, Base, In
  <2>2. \A n \in Chain(jmplist) : next'[data'[n]] = next[data[n]]
    BY DEF Height
  <2>3. ASSUME NEW n \in Chain(jmplist), next[n] \in Chain(jmplist)
        PROVE  next'[data'[next'[n]]] < next'[data'[n]]
    <3>1. next[data[next[n]]] < next[data[n]]
      BY <2>1, <2>3 DEF Straight, Height
    <3>2. next'[n] = next[n] /\ next'[data'[next[n]]] = next[data[next[n]]]
      BY <2>2, <2>3
    <3> QED
      BY <2>2, <3>1, <3>2
  <2>4. \A n \in Chain(jmplist)' : next'[n] \in Chain(jmplist)' => next'[data'[next'[n]]] < next'[data'[n]]
    BY <2>3
  <2> QED
    BY <2>1, <2>4 DEF Straight, Height
<1> QED
    BY <1>1, <1>2, <1>3

(* A node written for another list.                                        *)
LEMMA OtherWritten ==
    ASSUME MaxPages = 1, IInv, UNCHANGED <<stack, frames, outside, jmplist, handlers>>,
           data[listmanager] = Zero,
           \A n \in Node \ {listmanager} : data'[n] = data[n] /\ next'[n] = next[n]
    PROVE  /\ JumpsLinked' /\ FramesPlaced' /\ BranchesFounded' /\ ("save" \notin handlers' => Straight')
<1>1. TypeOK /\ Allocated
    BY DEF IInv
<1>2. PICK J \in SUBSET Node : Jumps(J)
    BY DEF IInv, JumpsLinked
<1>3. {listmanager} \in SUBSET Node /\ \A n \in {listmanager} : data[n] = Zero /\ n[2] >= 2
    BY <1>1 DEF TypeOK, Allocated
<1>4. /\ Listed \subseteq Listed'
      /\ \A n \in Listed : data'[n] = data[n] /\ next'[n] = next[n]
      /\ \A n : Reach(Listed, next, n) \subseteq Reach(Listed', next', n)
      /\ \A n \in J : data'[n] = data[n] /\ data'[data[n]] = <<"frame">>
                      /\ next'[n] = next[n] /\ next'[data[n]] = next[data[n]]
      /\ \A a \in J \cup {Bottom} : Reach(Listed', next', a) = Chain(a)
    BY <1>1, <1>2, <1>3, NodesWritten
<1>5. jmplist \in J \cup {Bottom}
    BY <1>2 DEF Jumps
<1>6. Chain(jmplist)' = Chain(jmplist) /\ Chain(jmplist) \subseteq J
  <2>1. Reach(Listed', next', jmplist) = Chain(jmplist)
    BY <1>4, <1>5
  <2> QED
    BY <1>1, <1>2, <1>5, <2>1, ChainOfJumps DEF Chain
<1>7. \A n \in J : Height(n)' = Height(n)
    BY <1>4 DEF Height
<1>8. Heights' = Heights
    BY <1>6, <1>7 DEF Heights
<1>9. JumpsLinked'
  <2>1. Jumps(J)'
    BY <1>2, <1>4, <1>5, <1>7 DEF Jumps
  <2> QED
    BY <2>1 DEF JumpsLinked
<1> QED
    BY <1>4, <1>6, <1>7, <1>8, <1>9, HeapAside

LEMMA MakeListInv ==
    ASSUME MaxPages = 1, IInv, MakeList
    PROVE  IInv'
<1> DEFINE h == AllocList(Labels)
<1>1. TypeOK /\ Allocated
    BY DEF IInv
<1>2. /\ listmanager' = h.manager /\ jmplist' = h.jmp /\ closelist' = h.close
      /\ data' = [data EXCEPT ![h.node] = <<"value">>] /\ InMemory(h)
      /\ UNCHANGED <<stack, frames, outside, next, opened, handlers>>
    BY DEF MakeList
<1>3. /\ h.node = listmanager /\ data[listmanager] = Zero /\ h.jmp = jmplist /\ h.close = closelist
      /\ h.manager \in Node /\ h.manager[1] = 1 /\ h.manager[2] = listmanager[2] + 1
      /\ listmanager[2] + 1 \in 2 .. PageSize - 1
    BY <1>1, <1>2, OneNode, TypesOfHeap DEF LabelType
<1>4. listmanager \in Node /\ listmanager[2] \in 2 .. PageSize - 1 /\ data \in [Node -> Datum]
    BY <1>1 DEF TypeOK, Allocated
<1> HIDE DEF h
<1>5. data' = [data EXCEPT ![listmanager] = <<"value">>] /\ <<"value">> \in Datum
    BY <1>2, <1>3 DEF Datum
<1>6. TypeOK'
    BY <1>1, <1>2, <1>3, <1>5 DEF TypeOK
<1>7. Allocated'
  <2>1. ASSUME NEW n \in Node, data'[n] # Zero  PROVE n[2] \in 2 .. (listmanager[2] + 1) - 1
    <3>1. n = listmanager \/ data[n] # Zero
      BY <1>4, <1>5, <2>1
    <3> QED
      BY <1>1, <1>4, <2>1, <3>1 DEF Allocated
  <2> QED
    BY <1>2, <1>3, <2>1 DEF Allocated
<1>8. \A n \in Node \ {listmanager} : data'[n] = data[n] /\ next'[n] = next[n]
    BY <1>2, <1>4, <1>5
<1>9. /\ JumpsLinked' /\ FramesPlaced' /\ BranchesFounded' /\ ("save" \notin handlers' => Straight')
    BY <1>2, <1>3, <1>8, OtherWritten
<1> QED
    BY <1>6, <1>7, <1>9 DEF IInv

LEMMA OpenInv ==
    ASSUME MaxPages = 1, IInv, NEW f \in Files, Open(f)
    PROVE  IInv'
<1> DEFINE h == AllocList(Labels)
<1>1. TypeOK /\ Allocated
    BY DEF IInv
<1>2. /\ listmanager' = h.manager /\ jmplist' = h.jmp /\ closelist' = h.node
      /\ data' = [data EXCEPT ![h.node] = <<"file", f>>] /\ InMemory(h)
      /\ next' = [next EXCEPT ![h.node] = h.close] /\ opened' = opened \cup {f}
      /\ UNCHANGED <<stack, frames, outside, handlers>>
    BY DEF Open
<1>3. /\ h.node = listmanager /\ data[listmanager] = Zero /\ h.jmp = jmplist /\ h.close = closelist
      /\ h.manager \in Node /\ h.manager[1] = 1 /\ h.manager[2] = listmanager[2] + 1
      /\ listmanager[2] + 1 \in 2 .. PageSize - 1
    BY <1>1, <1>2, OneNode, TypesOfHeap DEF LabelType
<1>4. /\ listmanager \in Node /\ listmanager[2] \in 2 .. PageSize - 1 /\ data \in [Node -> Datum]
      /\ next \in [Node -> Node \cup {Zero} \cup Nat] /\ closelist \in Node
    BY <1>1 DEF TypeOK, Allocated
<1> HIDE DEF h
<1>5. /\ data' = [data EXCEPT ![listmanager] = <<"file", f>>] /\ <<"file", f>> \in Datum
      /\ next' = [next EXCEPT ![listmanager] = closelist]
    BY <1>2, <1>3 DEF Datum
<1>6. TypeOK'
    BY <1>1, <1>2, <1>3, <1>4, <1>5 DEF TypeOK
<1>7. Allocated'
  <2>1. ASSUME NEW n \in Node, data'[n] # Zero  PROVE n[2] \in 2 .. (listmanager[2] + 1) - 1
    <3>1. n = listmanager \/ data[n] # Zero
      BY <1>4, <1>5, <2>1
    <3> QED
      BY <1>1, <1>4, <2>1, <3>1 DEF Allocated
  <2> QED
    BY <1>2, <1>3, <2>1 DEF Allocated
<1>8. \A n \in Node \ {listmanager} : data'[n] = data[n] /\ next'[n] = next[n]
    BY <1>4, <1>5
<1>9. /\ JumpsLinked' /\ FramesPlaced' /\ BranchesFounded' /\ ("save" \notin handlers' => Straight')
    BY <1>2, <1>3, <1>8, OtherWritten
<1> QED
    BY <1>6, <1>7, <1>9 DEF IInv

LEMMA TwoNodes ==
    ASSUME MaxPages = 1, HeapTyped, Allocated, NEW first, NEW second,
           first = AllocList(Labels), second = AllocList([first EXCEPT !.jmp = first.node]),
           InMemory(first), InMemory(second)
    PROVE  LET b == <<1, listmanager[2] + 1>> IN
           /\ first.node = listmanager /\ first.jmp = jmplist /\ data[listmanager] = Zero
           /\ second.node = b /\ b \in Node /\ b # listmanager /\ data[b] = Zero /\ b[2] = listmanager[2] + 1
           /\ second.manager \in Node /\ second.manager[1] = 1
           /\ second.manager[2] = listmanager[2] + 2 /\ listmanager[2] + 2 \in 2 .. PageSize - 1
           /\ second.jmp = listmanager /\ second.close = closelist
<1> DEFINE b == <<1, listmanager[2] + 1>>
           h == [first EXCEPT !.jmp = first.node]
<1>1. /\ first \in LabelType({jmplist}) /\ first.node = listmanager /\ data[listmanager] = Zero
      /\ first.manager = b /\ first.jmp = jmplist /\ first.close = closelist
      /\ listmanager[2] + 1 \in 2 .. PageSize - 1
    BY OneNode
<1>2. listmanager \in Node /\ listmanager[2] \in 2 .. PageSize - 1
    BY DEF HeapTyped, Allocated
<1>3. /\ b \in Node /\ b[2] = listmanager[2] + 1 /\ b # listmanager
  <2>1. b \in Node /\ b[2] = listmanager[2] + 1
    BY <1>1, <1>2, NodeIs
  <2> QED
    BY <1>2, <2>1
<1>4. data[b] = Zero
    BY <1>2, <1>3 DEF Allocated
<1>5. /\ h \in LabelType(Node) /\ h.manager = b /\ h.jmp = listmanager /\ h.close = closelist
    BY <1>1, <1>2 DEF LabelType
<1>6. /\ b[2] < PageSize - 1 /\ second \in LabelType(Node)
      /\ second = [h EXCEPT !.manager = <<1, b[2] + 1>>, !.node = b]
    BY <1>5, AllocIs
<1>7. /\ second.node = b /\ second.manager = <<1, b[2] + 1>>
      /\ second.jmp = listmanager /\ second.close = closelist
    BY <1>5, <1>6 DEF LabelType
<1>8. listmanager[2] + 2 \in 2 .. PageSize - 1 /\ second.manager = <<1, listmanager[2] + 2>>
  <2>1. b[2] + 1 = listmanager[2] + 2 /\ listmanager[2] \in Nat
    BY <1>2, <1>3
  <2>2. listmanager[2] + 2 <= PageSize - 1 /\ listmanager[2] + 2 >= 2
    BY <1>2, <1>3, <1>6, PagesHoldLists
  <2> QED
    BY <1>7, <2>1, <2>2, PagesHoldLists
<1>9. second.manager \in Node /\ second.manager[1] = 1 /\ second.manager[2] = listmanager[2] + 2
    BY <1>8, PagesHoldLists, NodeIs
<1> QED
    BY <1>1, <1>3, <1>4, <1>7, <1>8, <1>9

LEMMA SaveInv ==
    ASSUME MaxPages = 1, IInv, Save
    PROVE  IInv'
<1> DEFINE first == AllocList(Labels)
           second == AllocList([first EXCEPT !.jmp = first.node])
           a == listmanager
           b == <<1, listmanager[2] + 1>>
           id == Len(outside) + 1
           top == Len(stack) + 1
<1>1. TypeOK /\ Allocated
    BY DEF IInv
<1>2. /\ InMemory(first) /\ InMemory(second) /\ (Handling => "save" \in handlers)
      /\ listmanager' = second.manager /\ jmplist' = second.jmp /\ closelist' = second.close
      /\ data' = [data EXCEPT ![first.node] = second.node, ![second.node] = <<"frame">>]
      /\ next' = [next EXCEPT ![first.node] = first.jmp, ![second.node] = top]
      /\ stack' = Append(stack, Branch(id))
      /\ outside' = Append(outside, frames)
      /\ frames' = Append(frames, Body(id))
      /\ UNCHANGED <<opened, handlers>>
    BY DEF Save
<1>3. /\ first.node = a /\ first.jmp = jmplist /\ data[a] = Zero
      /\ second.node = b /\ b \in Node /\ b # a /\ data[b] = Zero /\ b[2] = a[2] + 1
      /\ second.manager \in Node /\ second.manager[1] = 1
      /\ second.manager[2] = a[2] + 2 /\ a[2] + 2 \in 2 .. PageSize - 1
      /\ second.jmp = a /\ second.close = closelist
    BY <1>1, <1>2, TwoNodes, TypesOfHeap
<1> HIDE DEF first, second
<1>4. /\ a \in Node /\ a[2] \in 2 .. PageSize - 1 /\ data \in [Node -> Datum]
      /\ next \in [Node -> Node \cup {Zero} \cup Nat] /\ jmplist \in Node
      /\ stack \in Seq(Word) /\ frames \in Seq(Frame) /\ outside \in Seq(Seq(Frame))
    BY <1>1 DEF TypeOK, Allocated
<1>5. top \in Nat \ {0} /\ id \in Nat \ {0}
    BY <1>4
<1>6. /\ data' = [data EXCEPT ![a] = b, ![b] = <<"frame">>]
      /\ next' = [next EXCEPT ![a] = jmplist, ![b] = top]
      /\ jmplist' = a /\ closelist' = closelist
    BY <1>2, <1>3
<1>7. /\ data'[a] = b /\ data'[b] = <<"frame">> /\ next'[a] = jmplist /\ next'[b] = top
      /\ \A n \in Node \ {a, b} : data'[n] = data[n] /\ next'[n] = next[n]
    BY <1>3, <1>4, <1>6
<1>8. TypeOK'
  <2>1. data' \in [Node -> Datum]
    BY <1>3, <1>4, <1>6 DEF Datum
  <2>2. next' \in [Node -> Node \cup {Zero} \cup Nat]
    BY <1>3, <1>4, <1>5, <1>6
  <2>3. Branch(id) \in Word /\ Body(id) \in Frame
    BY <1>5, WordKinds, FrameKinds
  <2>4. stack' \in Seq(Word) /\ frames' \in Seq(Frame) /\ outside' \in Seq(Seq(Frame))
    BY <1>2, <1>4, <2>3
  <2> QED
    BY <1>1, <1>2, <1>3, <1>4, <1>6, <2>1, <2>2, <2>4 DEF TypeOK
<1>9. Allocated'
  <2>1. ASSUME NEW n \in Node, data'[n] # Zero  PROVE n[2] \in 2 .. (a[2] + 2) - 1
    <3>1. n = a \/ n = b \/ data[n] # Zero
      BY <1>7, <2>1
    <3> QED
      BY <1>1, <1>3, <1>4, <2>1, <3>1 DEF Allocated
  <2> QED
    BY <1>2, <1>3, <2>1 DEF Allocated
<1>10. PICK J \in SUBSET Node : Jumps(J)
    BY DEF IInv, JumpsLinked
<1>11. /\ Listed \subseteq Listed'
       /\ \A n \in Listed : data'[n] = data[n] /\ next'[n] = next[n]
       /\ \A n : Reach(Listed, next, n) \subseteq Reach(Listed', next', n)
       /\ \A n \in J : data'[n] = data[n] /\ data'[data[n]] = <<"frame">>
                       /\ next'[n] = next[n] /\ next'[data[n]] = next[data[n]]
       /\ \A n \in J \cup {Bottom} : Reach(Listed', next', n) = Chain(n)
  <2>1. {a, b} \in SUBSET Node /\ \A n \in {a, b} : data[n] = Zero /\ n[2] >= 2
    BY <1>3, <1>4
  <2> HIDE DEF a, b
  <2> QED
    BY <1>1, <1>7, <1>10, <2>1, NodesWritten
<1>12. /\ J \subseteq Listed /\ jmplist \in J \cup {Bottom} /\ Bottom \in Node /\ Bottom[2] = 0
       /\ \A n \in J : data[n] \in Node /\ Height(n) \in Nat \ {0} /\ next[n] \in J \cup {Bottom}
    BY <1>1, <1>10, NodeIs DEF Jumps
<1>13. a \notin J /\ a # Bottom /\ a \in Listed' /\ data'[a] \in Node
  <2>1. a \notin Listed /\ a # Bottom
    BY <1>3, <1>4, <1>12 DEF Listed
  <2>2. a \in Listed'
    BY <1>3, <1>4, <1>7, HeldApart DEF Listed
  <2> QED
    BY <1>3, <1>7, <1>12, <2>1, <2>2
<1>14. \A n \in J : next'[data'[n]] = next[data[n]]
    BY <1>11
<1>15. next'[data'[a]] = top
    BY <1>7
<1> HIDE DEF a, b, id, top
<1>16. JumpsLinked'
  <2>1. J \cup {a} \subseteq Listed'
    BY <1>11, <1>12, <1>13
  <2>2. ASSUME NEW n \in J \cup {a}
        PROVE  /\ data'[n] \in Node /\ data'[data'[n]] = <<"frame">>
               /\ next'[data'[n]] \in Nat \ {0} /\ next'[n] \in (J \cup {a}) \cup {Bottom}
    <3>1. CASE n = a
      BY <1>3, <1>5, <1>7, <1>12, <3>1
    <3>2. CASE n \in J
      BY <1>11, <1>12, <3>2 DEF Height
    <3> QED
      BY <3>1, <3>2
  <2>3. PICK K \in SUBSET Node : K = J \cup {a}
    BY <1>4, <1>10
  <2>4. Jumps(K)'
    BY <1>6, <2>1, <2>2, <2>3 DEF Jumps, Height
  <2> QED
    BY <2>3, <2>4 DEF JumpsLinked
<1>17. Chain(jmplist)' = {a} \cup Chain(jmplist) /\ Chain(jmplist) \subseteq J
  <2>1. Reach(Listed', next', a) = {a} \cup Reach(Listed', next', next'[a])
    BY <1>13, ReachNext
  <2>2. Reach(Listed', next', jmplist) = Chain(jmplist)
    BY <1>11, <1>12
  <2>3. Chain(jmplist)' = Reach(Listed', next', jmplist')
    BY DEF Chain
  <2>4. Chain(jmplist) \subseteq J
    BY <1>1, <1>10, <1>12, ChainOfJumps
  <2> QED
    BY <1>6, <1>7, <2>1, <2>2, <2>3, <2>4
<1>18. Heights' = Heights \cup {top}
  <2>1. Heights' = {next'[data'[n]] : n \in {a} \cup Chain(jmplist)}
    BY <1>17 DEF Heights, Height
  <2>2. Heights = {next[data[n]] : n \in Chain(jmplist)}
    BY DEF Heights, Height
  <2> QED
    BY <1>14, <1>15, <1>17, <2>1, <2>2
<1>19. /\ Len(stack') = Len(stack) + 1 /\ stack'[Len(stack) + 1] = Branch(id) /\ Len(stack) \in Nat
       /\ \A q \in 1 .. Len(stack) : stack'[q] = stack[q]
    BY <1>2, <1>4
<1>20. Placed(stack', Heights', frames, top)
  <2>1. Placed(stack, Heights, frames, top)
    BY DEF IInv, FramesPlaced, top
  <2>2. \A q \in Nat \ {0} : q < top => stack'[q] = stack[q]
    BY <1>19 DEF top
  <2>3. top \in Nat /\ top <= top /\ \A h \in Heights : h < top => h \in Heights'
    BY <1>5, <1>18
  <2>4. frames \in Seq(Frame)
    BY <1>4
  <2> QED
    BY <2>1, <2>2, <2>3, <2>4, PlacedMoved
<1>21. FramesPlaced'
  <2>1. /\ Body(id) \in Frame /\ Wide(Body(id)) = 0 /\ Body(id).id = id
        /\ stack'[top] = Branch(id) /\ top \in Heights'
    BY <1>5, <1>18, <1>19, FrameKinds DEF top
  <2>2. Placed(stack', Heights', Append(frames, Body(id)), top + 1 + Wide(Body(id)))
    BY <1>4, <1>5, <1>20, <2>1, PlacedMore
  <2>3. Placed(stack', Heights', frames', top + 1 + 0)
    BY <1>2, <2>1, <2>2 DEF id
  <2>4. top + 1 + 0 = Len(stack') + 1
    BY <1>19 DEF top
  <2> QED
    BY <2>3, <2>4 DEF FramesPlaced
<1>22. /\ Len(outside') = id /\ outside'[id] = frames /\ Len(outside) \in Nat
       /\ \A i \in 1 .. Len(outside) : outside'[i] = outside[i]
    BY <1>2, <1>4 DEF id
<1>23. BranchesFounded'
  <2>1. ASSUME NEW q \in 1 .. Len(stack'), stack'[q].word = "branch"
        PROVE  stack'[q].id \in 1 .. Len(outside') /\ Placed(stack', Heights', outside'[stack'[q].id], q)
    <3>1. CASE q \in 1 .. Len(stack)
      <4>1. /\ stack'[q] = stack[q] /\ stack[q].id \in 1 .. Len(outside)
            /\ Placed(stack, Heights, outside[stack[q].id], q)
        BY <1>19, <2>1, <3>1 DEF IInv, BranchesFounded, Founded
      <4>2. outside[stack[q].id] \in Seq(Frame) /\ q \in Nat
        BY <1>4, <3>1, <4>1
      <4>3. \A p \in Nat \ {0} : p < q => stack'[p] = stack[p]
        BY <1>19, <3>1
      <4>4. Placed(stack', Heights', outside[stack[q].id], q)
        BY <1>18, <4>1, <4>2, <4>3, PlacedMoved
      <4> QED
        BY <1>22, <4>1, <4>4 DEF id
    <3>2. CASE q = Len(stack) + 1
      <4>1. stack'[q].id = id
        BY <1>5, <1>19, <3>2, WordKinds
      <4> QED
        BY <1>5, <1>20, <1>22, <3>2, <4>1 DEF top
    <3> QED
      BY <1>19, <3>1, <3>2
  <2> QED
    BY <2>1 DEF BranchesFounded, Founded
<1>24. ASSUME "save" \notin handlers'  PROVE Straight'
  <2>1. Straight /\ ~Handling
    BY <1>2, <1>24 DEF IInv
  <2>2. \A i \in 1 .. Len(frames) : frames[i].kind = "body"
    BY <1>4, <2>1, FrameKinds DEF Handling
  <2>3. Base = Len(stack)
    <3>1. frames # <<>> => Len(frames) \in 1 .. Len(frames)
      BY <1>4
    <3> QED
      BY <2>2, <3>1 DEF Base, In, Last
  <2>4. /\ Len(frames') = Len(frames) + 1 /\ frames'[Len(frames) + 1] = Body(id) /\ Len(frames) \in Nat
        /\ \A i \in 1 .. Len(frames) : frames'[i] = frames[i]
    BY <1>2, <1>4 DEF id
  <2>5. Body(id).kind = "body"
    BY <1>5, FrameKinds
  <2>6. Base' = top
    BY <1>19, <2>4, <2>5 DEF Base, In, Last, top
  <2>7. 1 .. Base' \subseteq Heights' /\ \A h \in Heights' : h <= Base'
    <3>1. \A h \in Heights : h \in Nat
      BY <1>12, <1>17 DEF Heights
    <3>2. top = Len(stack) + 1
      BY DEF top
    <3> QED
      BY <1>18, <1>19, <2>1, <2>3, <2>6, <3>1, <3>2 DEF Straight
  <2>8. ASSUME NEW n \in Chain(jmplist)', next'[n] \in Chain(jmplist)'
        PROVE  next'[data'[next'[n]]] < next'[data'[n]]
    <3>1. CASE n = a
      <4>1. next'[n] = jmplist /\ jmplist \in Chain(jmplist)
        BY <1>7, <1>12, <1>13, <1>17, <2>8, <3>1
      <4>2. next[data[jmplist]] \in Heights /\ next[data[jmplist]] \in Nat
        BY <1>12, <1>17, <4>1 DEF Heights, Height
      <4>3. next[data[jmplist]] <= Len(stack)
        BY <2>1, <2>3, <4>2 DEF Straight
      <4>4. next'[data'[jmplist]] = next[data[jmplist]]
        BY <1>14, <1>17, <4>1
      <4> QED
        BY <1>15, <1>19, <3>1, <4>1, <4>2, <4>3, <4>4 DEF top
    <3>2. CASE n \in Chain(jmplist)
      <4>1. next'[n] = next[n] /\ next[n] \in J \cup {Bottom}
        BY <1>11, <1>12, <1>17, <3>2
      <4>2. next[n] \in Chain(jmplist)
        BY <1>13, <1>17, <2>8, <4>1
      <4>3. next[data[next[n]]] < next[data[n]]
        BY <2>1, <3>2, <4>2 DEF Straight, Height
      <4> QED
        BY <1>14, <1>17, <3>2, <4>1, <4>2, <4>3
    <3> QED
      BY <1>17, <2>8, <3>1, <3>2
  <2>9. \A i \in 1 .. Len(frames') - 1 : frames'[i].kind = "body"
    BY <2>2, <2>4
  <2>10. \A i \in 1 .. Len(outside') : Bodies(outside'[i])
    BY <1>22, <2>1, <2>2 DEF Straight, Bodies, id
  <2> QED
    BY <2>7, <2>8, <2>9, <2>10 DEF Straight, Height
<1> QED
    BY <1>8, <1>9, <1>16, <1>21, <1>23, <1>24 DEF IInv

(* Nothing is written, and jmplist stays.                                  *)
LEMMA HeapUnchanged ==
    ASSUME IInv, UNCHANGED <<heap, opened>>
    PROVE  /\ Allocated' /\ JumpsLinked'
           /\ Chain(jmplist)' = Chain(jmplist) /\ Heights' = Heights
           /\ \A n : Height(n)' = Height(n)
<1>1. /\ listmanager' = listmanager /\ jmplist' = jmplist /\ closelist' = closelist
      /\ data' = data /\ next' = next /\ opened' = opened
    BY DEF heap
<1>2. Listed' = Listed
    BY <1>1 DEF Listed
<1>3. Chain(jmplist)' = Chain(jmplist) /\ Chain(closelist)' = Chain(closelist)
    BY <1>1, <1>2 DEF Chain
<1>4. \A n : Height(n)' = Height(n)
    BY <1>1 DEF Height
<1>5. Heights' = Heights
    BY <1>3, <1>4 DEF Heights
<1>6. Allocated'
    BY <1>1 DEF IInv, Allocated
<1>7. JumpsLinked'
  <2>1. PICK J \in SUBSET Node : Jumps(J)
    BY DEF IInv, JumpsLinked
  <2>2. Jumps(J)'
    BY <1>1, <1>2, <2>1 DEF Jumps, Height
  <2> QED
    BY <2>2 DEF JumpsLinked
<1> QED
    BY <1>3, <1>4, <1>5, <1>6, <1>7

(* Without a handler the base is the top of the stack.                     *)
LEMMA BaseOfBodies ==
    ASSUME TypeOK, Bodies(frames)
    PROVE  Base = Len(stack)
<1>1. frames # <<>> => Len(frames) \in 1 .. Len(frames)
    BY DEF TypeOK
<1> QED
    BY <1>1 DEF Base, In, Last, Bodies

LEMMA SaveEndsInv ==
    ASSUME MaxPages = 1, IInv, SaveEnds
    PROVE  IInv'
<1>1. TypeOK
    BY DEF IInv
<1>2. /\ frames' = Front(frames) /\ frames # <<>> /\ Last(frames).kind = "body"
      /\ UNCHANGED <<stack, outside, heap, opened, handlers>>
    BY DEF SaveEnds, In
<1>3. /\ Allocated' /\ JumpsLinked'
      /\ Chain(jmplist)' = Chain(jmplist) /\ Heights' = Heights
      /\ \A n : Height(n)' = Height(n)
    BY <1>2, HeapUnchanged
<1>4. /\ frames \in Seq(Frame) /\ stack \in Seq(Word) /\ Len(stack) + 1 \in Nat
    BY <1>1 DEF TypeOK
<1>5. /\ Front(frames) \in Seq(Frame) /\ Len(Front(frames)) = Len(frames) - 1
      /\ \A i \in 1 .. Len(frames) - 1 : Front(frames)[i] = frames[i]
      /\ Last(frames) = frames[Len(frames)] /\ Last(frames) \in Frame
      /\ \E p \in Nat \ {0} : p + Wide(Last(frames)) < Len(stack) + 1
                              /\ Placed(stack, Heights, Front(frames), p)
    BY <1>2, <1>4, PlacedFewer DEF IInv, FramesPlaced
<1>6. TypeOK'
    BY <1>1, <1>2, <1>5 DEF TypeOK, heap
<1>7. FramesPlaced'
  <2>1. PICK p \in Nat \ {0} : /\ p + Wide(Last(frames)) < Len(stack) + 1
                               /\ Placed(stack, Heights, Front(frames), p)
    BY <1>5
  <2>2. p \in Nat /\ p <= Len(stack) + 1
    <3>1. Wide(Last(frames)) \in {0, 1} /\ Len(stack) + 1 \in Nat
      BY <1>4, <1>5, FrameKinds
    <3> QED
      BY <2>1, <3>1
  <2>3. Placed(stack, Heights, Front(frames), Len(stack) + 1)
    BY <1>4, <1>5, <2>1, <2>2, PlacedMoved
  <2> QED
    BY <1>2, <1>3, <2>3 DEF FramesPlaced
<1>8. BranchesFounded'
    BY <1>2, <1>3 DEF IInv, BranchesFounded
<1>9. ASSUME "save" \notin handlers'  PROVE Straight'
  <2>1. Straight
    BY <1>2, <1>9 DEF IInv
  <2>2. Len(frames) \in Nat \ {0}
    BY <1>2, <1>4
  <2>3. Bodies(frames) /\ Bodies(frames')
    BY <1>2, <1>5, <2>1, <2>2 DEF Straight, Bodies
  <2>4. Base = Len(stack)
    BY <1>1, <2>3, BaseOfBodies
  <2>5. Base' = Len(stack)
    <3>1. (TypeOK /\ Bodies(frames) => Base = Len(stack))'
      BY BaseOfBodies, PTL
    <3> QED
      BY <1>2, <1>6, <2>3, <3>1
  <2>6. \A n \in Chain(jmplist)' :
            next'[n] \in Chain(jmplist)' => next'[data'[next'[n]]] < next'[data'[n]]
    <3>1. \A n \in Chain(jmplist) : next[n] \in Chain(jmplist) => next[data[next[n]]] < next[data[n]]
      BY <2>1 DEF Straight, Height
    <3>2. data' = data /\ next' = next
      BY <1>2 DEF heap
    <3> QED
      BY <1>3, <3>1, <3>2
  <2>7. \A i \in 1 .. Len(frames') - 1 : frames'[i].kind = "body"
    BY <1>2, <1>5, <2>2, <2>3 DEF Bodies
  <2> QED
    BY <1>2, <1>3, <2>1, <2>4, <2>5, <2>6, <2>7 DEF Straight, Height
<1> QED
    BY <1>3, <1>6, <1>7, <1>8, <1>9 DEF IInv

(* Neither the stack nor the heap changes.                                 *)
LEMMA NothingMoved ==
    ASSUME IInv, UNCHANGED <<stack, frames, outside, heap, opened, handlers>>
    PROVE  IInv'
<1>1. UNCHANGED <<heap, opened>>
    OBVIOUS
<1>2. /\ Allocated' /\ JumpsLinked'
      /\ Chain(jmplist)' = Chain(jmplist) /\ Heights' = Heights
      /\ \A n : Height(n)' = Height(n)
    BY <1>1, HeapUnchanged
<1>3. TypeOK'
    BY DEF IInv, TypeOK, heap
<1>4. next' = next
    BY DEF heap
<1> QED
    BY <1>2, <1>3, <1>4, HeapAside DEF IInv

(* Two elements more at the end of a sequence.                             *)
LEMMA TwoMore ==
    ASSUME NEW S, NEW s \in Seq(S), NEW a \in S, NEW b \in S
    PROVE  /\ s \o <<a, b>> \in Seq(S) /\ Len(s \o <<a, b>>) = Len(s) + 2
           /\ \A q \in 1 .. Len(s) : (s \o <<a, b>>)[q] = s[q]
           /\ (s \o <<a, b>>)[Len(s) + 1] = a /\ (s \o <<a, b>>)[Len(s) + 2] = b
<1>1. <<a, b>> \in Seq(S) /\ Len(<<a, b>>) = 2 /\ <<a, b>>[1] = a /\ <<a, b>>[2] = b
    OBVIOUS
<1> QED
    BY <1>1

(* An error takes the first node off jmplist, the words from its height on *)
(* off the stack, and goes to what was around the save.  A message that is *)
(* a handler's address must be founded as those that stay are.             *)
LEMMA RaiseInv ==
    ASSUME MaxPages = 1, IInv, NEW word \in Word, NEW sp \in Nat, sp <= Len(stack), Raise(word, sp),
           UNCHANGED <<outside, listmanager, closelist, data, next, opened, handlers>>,
           data[jmplist] # Zero /\ rsp <= sp => Founded(stack, Heights, outside, word, rsp)
    PROVE  IInv'
<1>1. TypeOK /\ Allocated
    BY DEF IInv
<1>2. CASE UNCHANGED <<stack, frames, jmplist>>
    BY <1>2, NothingMoved DEF heap
<1>3. CASE ~UNCHANGED <<stack, frames, jmplist>>
  <2> DEFINE id == stack[rsp].id
             m == next[jmplist]
  <2>1. /\ data[jmplist] # Zero /\ ~(rsp > sp) /\ stack[rsp].word = "branch"
        /\ jmplist' = m
        /\ stack' = SubSeq(stack, 1, rsp - 1) \o <<OldValue, word>>
        /\ frames' = Append(outside[id], Handler(id, word))
    BY <1>3 DEF Raise
  <2>2. PICK J \in SUBSET Node : Jumps(J)
    BY DEF IInv, JumpsLinked
  <2>3. Bottom \notin Listed /\ data[Bottom] = Zero
    BY <1>1, BottomUnlisted
  <2>4. /\ J \subseteq Listed /\ jmplist \in J /\ jmplist \in Listed
        /\ \A n \in J : data[n] \in Node /\ Height(n) \in Nat \ {0} /\ next[n] \in J \cup {Bottom}
    BY <2>1, <2>2, <2>3 DEF Jumps
  <2>5. rsp = Height(jmplist) /\ rsp \in Nat \ {0} /\ rsp <= Len(stack) /\ rsp \in 1 .. Len(stack) /\ rsp <= sp
    <3>1. rsp = Height(jmplist) /\ rsp \in Nat \ {0}
      BY <2>4 DEF rsp, Height
    <3>2. stack \in Seq(Word) /\ Len(stack) \in Nat
      BY <1>1 DEF TypeOK
    <3> QED
      BY <2>1, <3>1, <3>2
  <2>6. /\ stack \in Seq(Word) /\ outside \in Seq(Seq(Frame)) /\ Len(stack) \in Nat
        /\ data' = data /\ next' = next /\ outside' = outside
    BY <1>1 DEF TypeOK
  <2>7. id \in 1 .. Len(outside) /\ Placed(stack, Heights, outside[id], rsp)
    BY <2>1, <2>5 DEF IInv, BranchesFounded, Founded
  <2>8. outside[id] \in Seq(Frame) /\ id \in Nat
    BY <2>6, <2>7
  <2>9. Founded(stack, Heights, outside, word, rsp)
    BY <2>1, <2>5
  <2> HIDE DEF id, m
  <2>10. Listed' = Listed
    BY <2>6 DEF Listed
  <2>11. Chain(jmplist)' = Chain(m) /\ Chain(jmplist) = {jmplist} \cup Chain(m) /\ Chain(m) \subseteq J
    <3>1. Reach(Listed, next, jmplist) = {jmplist} \cup Reach(Listed, next, m)
      BY <2>4, ReachNext DEF m
    <3>2. Chain(jmplist)' = Chain(m)
      BY <2>1, <2>6, <2>10 DEF Chain
    <3>3. m \in J \cup {Bottom}
      BY <2>4 DEF m
    <3>4. Chain(m) \subseteq J
      BY <1>1, <2>2, <3>3, ChainOfJumps
    <3> QED
      BY <3>1, <3>2, <3>4, ChainIs
  <2>12. \A n : Height(n)' = Height(n)
    BY <2>6 DEF Height
  <2>13. Heights' = {Height(n) : n \in Chain(m)} /\ Heights = Heights' \cup {rsp}
    <3>1. Heights' = {Height(n) : n \in Chain(m)}
      BY <2>11, <2>12 DEF Heights
    <3> QED
      BY <2>5, <2>11, <3>1 DEF Heights
  <2>14. /\ stack' \in Seq(Word) /\ Len(stack') = rsp + 1
         /\ \A q \in 1 .. rsp - 1 : stack'[q] = stack[q]
         /\ stack'[rsp] = OldValue /\ stack'[rsp + 1] = word
    <3> DEFINE low == SubSeq(stack, 1, rsp - 1)
    <3>1. low \in Seq(Word) /\ Len(low) = rsp - 1 /\ \A q \in 1 .. rsp - 1 : low[q] = stack[q]
      BY <2>5, <2>6
    <3>2. OldValue \in Word
      BY WordKinds
    <3>3. stack' = low \o <<OldValue, word>>
      BY <2>1
    <3> HIDE DEF low
    <3>4. /\ stack' \in Seq(Word) /\ Len(stack') = Len(low) + 2
          /\ \A q \in 1 .. Len(low) : stack'[q] = low[q]
          /\ stack'[Len(low) + 1] = OldValue /\ stack'[Len(low) + 2] = word
      BY <3>1, <3>2, <3>3, TwoMore
    <3> QED
      BY <2>5, <3>1, <3>4
  <2>15. TypeOK'
    <3>1. frames' \in Seq(Frame)
      BY <2>1, <2>8, FrameKinds DEF id
    <3>2. jmplist' \in Node
      BY <2>1, <2>2, <2>3, <2>4, NodeIs DEF m
    <3> QED
      BY <1>1, <2>14, <3>1, <3>2 DEF TypeOK
  <2>16. Allocated'
    BY <1>1 DEF Allocated
  <2>17. JumpsLinked'
    <3>1. Jumps(J)'
      BY <2>1, <2>2, <2>4, <2>6, <2>10 DEF Jumps, Height, m
    <3> QED
      BY <3>1 DEF JumpsLinked
  <2>18. ASSUME NEW fs \in Seq(Frame), NEW k \in Nat, NEW n \in Nat, k <= rsp, k <= n, Placed(stack, Heights, fs, k)
         PROVE  Placed(stack', Heights', fs, n)
    <3>1. \A q \in Nat \ {0} : q < k => stack'[q] = stack[q]
      BY <2>5, <2>14, <2>18
    <3>2. \A h \in Heights : h < k => h \in Heights'
      BY <2>5, <2>13, <2>18
    <3> QED
      BY <2>18, <3>1, <3>2, PlacedMoved
  <2>19. FramesPlaced'
    <3>1. Placed(stack', Heights', outside[id], rsp)
      BY <2>5, <2>7, <2>8, <2>18
    <3>2. Handler(id, word) \in Frame /\ Handler(id, word).kind = "handler" /\ Wide(Handler(id, word)) = 1
      BY <2>8, FrameKinds
    <3>3. Placed(stack', Heights', Append(outside[id], Handler(id, word)), rsp + 1 + Wide(Handler(id, word)))
      BY <2>5, <2>8, <3>1, <3>2, PlacedMore
    <3>4. rsp + 1 + Wide(Handler(id, word)) = Len(stack') + 1
      BY <2>5, <2>14, <3>2
    <3> QED
      BY <2>1, <3>3, <3>4 DEF FramesPlaced, id
  <2>20. BranchesFounded'
    <3>1. ASSUME NEW q \in 1 .. Len(stack'), stack'[q].word = "branch"
          PROVE  /\ stack'[q].id \in 1 .. Len(outside)
                 /\ Placed(stack', Heights', outside[stack'[q].id], q)
      <4>1. CASE q \in 1 .. rsp - 1
        <5>1. /\ stack'[q] = stack[q] /\ stack[q].id \in 1 .. Len(outside)
              /\ Placed(stack, Heights, outside[stack[q].id], q)
          BY <2>5, <2>14, <3>1, <4>1 DEF IInv, BranchesFounded, Founded
        <5>2. outside[stack[q].id] \in Seq(Frame) /\ q \in Nat /\ q <= rsp
          BY <2>5, <2>6, <4>1, <5>1
        <5> QED
          BY <2>18, <5>1, <5>2
      <4>2. CASE q = rsp
        BY <2>14, <3>1, <4>2, WordKinds
      <4>3. CASE q = rsp + 1
        <5>1. word.id \in 1 .. Len(outside) /\ Placed(stack, Heights, outside[word.id], rsp)
          BY <2>9, <2>14, <3>1, <4>3 DEF Founded
        <5>2. outside[word.id] \in Seq(Frame)
          BY <2>6, <5>1
        <5> QED
          BY <2>5, <2>14, <2>18, <4>3, <5>1, <5>2
      <4> QED
        BY <2>5, <2>14, <4>1, <4>2, <4>3
    <3> QED
      BY <2>6, <3>1 DEF BranchesFounded, Founded
  <2>21. ASSUME "save" \notin handlers'  PROVE Straight'
    <3>1. Straight
      BY <2>21 DEF IInv
    <3>2. /\ Len(frames') = Len(outside[id]) + 1 /\ frames'[Len(outside[id]) + 1] = Handler(id, word)
          /\ \A i \in 1 .. Len(outside[id]) : frames'[i] = outside[id][i]
          /\ frames' # <<>> /\ Len(outside[id]) \in Nat
      <4>1. PICK fs \in Seq(Frame) : fs = outside[id]
        BY <2>8
      <4>2. PICK f : f = Handler(id, word)
        OBVIOUS
      <4>3. frames' = Append(fs, f)
        BY <2>1, <4>1, <4>2 DEF id
      <4>4. /\ Len(Append(fs, f)) = Len(fs) + 1 /\ Append(fs, f)[Len(fs) + 1] = f /\ Len(fs) \in Nat
            /\ \A i \in 1 .. Len(fs) : Append(fs, f)[i] = fs[i]
        OBVIOUS
      <4>5. Append(fs, f) # <<>>
        BY <4>4
      <4> QED
        BY <4>1, <4>2, <4>3, <4>4, <4>5
    <3>3. Base' = rsp - 1
      <4>1. Last(frames').kind = "handler"
        BY <2>8, <3>2, FrameKinds DEF Last
      <4> QED
        BY <2>5, <2>14, <3>2, <4>1 DEF Base, In
    <3>4. \A n \in Chain(m) : Height(n) \in Nat \ {0}
      BY <2>4, <2>11
    <3>5. ASSUME NEW n \in Chain(m)  PROVE Height(n) < rsp
      <4> DEFINE S == {k \in Chain(m) : Height(k) < rsp}
      <4>1. Closed(Listed, next, Chain(m)) /\ Chain(m) \subseteq Listed
        BY ChainIs, ReachClosed, ReachFirst
      <4>2. \A k \in Chain(m) : next[k] \in Chain(m) => Height(next[k]) < Height(k)
        BY <2>11, <3>1 DEF Straight
      <4>3. Closed(Listed, next, S)
        <5>1. ASSUME NEW k \in S, next[k] \in Listed  PROVE next[k] \in S
          <6>1. next[k] \in Chain(m) /\ Height(next[k]) < Height(k) /\ Height(k) < rsp
            BY <4>1, <4>2, <5>1 DEF Closed
          <6>2. Height(next[k]) \in Nat /\ Height(k) \in Nat
            BY <3>4, <5>1, <6>1
          <6> QED
            BY <2>5, <6>1, <6>2
        <5> QED
          BY <5>1 DEF Closed
      <4>4. m \in Listed => m \in S
        <5>1. m \in Listed => m \in Chain(m)
          BY ChainIs, ReachFirst
        <5>2. m \in Chain(m) => Height(m) < Height(jmplist)
          BY <2>11, <3>1 DEF Straight, m
        <5> QED
          BY <2>5, <5>1, <5>2
      <4>5. S \in SUBSET Listed
        BY <4>1
      <4>6. Reach(Listed, next, m) \subseteq S
        BY <4>3, <4>4, <4>5, ReachLeast
      <4> QED
        BY <4>6, ChainIs
    <3>6. 1 .. Base' \subseteq Heights'
      <4>1. rsp \in Heights /\ rsp <= Base
        BY <2>13, <3>1 DEF Straight
      <4>2. Base \in Int
        BY <2>6 DEF Base
      <4>3. ASSUME NEW q \in 1 .. rsp - 1  PROVE q \in Heights'
        <5>1. q \in 1 .. Base /\ q # rsp
          BY <2>5, <4>1, <4>2
        <5> QED
          BY <2>13, <3>1, <5>1 DEF Straight
      <4> QED
        BY <3>3, <4>3
    <3>7. \A h \in Heights' : h <= Base'
      <4>1. ASSUME NEW n \in Chain(m)  PROVE Height(n) <= rsp - 1
        BY <2>5, <3>4, <3>5
      <4> QED
        BY <2>13, <3>3, <4>1
    <3>8. \A n \in Chain(jmplist)' :
              next'[n] \in Chain(jmplist)' => next'[data'[next'[n]]] < next'[data'[n]]
      <4>1. \A n \in Chain(jmplist) : next[n] \in Chain(jmplist) => next[data[next[n]]] < next[data[n]]
        BY <3>1 DEF Straight, Height
      <4> QED
        BY <2>6, <2>11, <4>1
    <3>9. \A i \in 1 .. Len(frames') - 1 : frames'[i].kind = "body"
      <4>1. \A i \in 1 .. Len(outside[id]) : outside[id][i].kind = "body"
        BY <2>7, <3>1 DEF Straight, Bodies
      <4> QED
        BY <3>2, <4>1
    <3> QED
      BY <2>6, <3>1, <3>6, <3>7, <3>8, <3>9 DEF Straight, Height
  <2> QED
    BY <2>15, <2>16, <2>17, <2>19, <2>20, <2>21 DEF IInv
<1> QED
    BY <1>2, <1>3

LEMMA DieInv ==
    ASSUME MaxPages = 1, IInv, NEW m \in Msgs, Die(m)
    PROVE  IInv'
<1>1. Len(stack) \in Nat
    BY DEF IInv, TypeOK
<1>2. Message(m) \in Word /\ Message(m).word = "message"
    BY WordKinds
<1>3. Founded(stack, Heights, outside, Message(m), rsp)
    BY <1>2 DEF Founded
<1>4. /\ Raise(Message(m), Len(stack))
      /\ UNCHANGED <<outside, listmanager, closelist, data, next, opened, handlers>>
    BY DEF Die
<1> QED
    BY <1>1, <1>2, <1>3, <1>4, RaiseInv

(* Another value for the name: the frames keep their words.                *)
LEMMA SetNameInv ==
    ASSUME MaxPages = 1, IInv, SetName
    PROVE  IInv'
<1> DEFINE n == Len(frames)
<1>1. TypeOK
    BY DEF IInv
<1>2. /\ frames' = [frames EXCEPT ![n].name = NewValue]
      /\ frames # <<>> /\ Last(frames).kind = "handler"
      /\ UNCHANGED <<stack, outside, heap, opened, handlers>>
    BY DEF SetName, In
<1>3. /\ Allocated' /\ JumpsLinked'
      /\ Chain(jmplist)' = Chain(jmplist) /\ Heights' = Heights
      /\ \A k \in Chain(jmplist) : next'[k] = next[k] /\ Height(k)' = Height(k)
    BY <1>2, HeapUnchanged DEF heap
<1>4. /\ frames \in Seq(Frame) /\ n \in Nat \ {0} /\ n \in 1 .. n /\ Last(frames) = frames[n]
      /\ frames[n] \in Frame
    BY <1>1, <1>2 DEF TypeOK, Last
<1> DEFINE f == [frames[n] EXCEPT !.name = NewValue]
<1>5. f \in Frame /\ f.kind = "handler"
  <2>1. frames[n] \in [kind : {"handler"}, id : Nat, name : Word]
    BY <1>2, <1>4 DEF Frame
  <2>2. NewValue \in Word
    BY WordKinds
  <2> QED
    BY <2>1, <2>2 DEF Frame
<1>6. frames' = [frames EXCEPT ![n] = f]
    BY <1>2
<1> HIDE DEF f
<1>7. /\ frames' \in Seq(Frame) /\ Len(frames') = n /\ frames'[n] = f
      /\ \A i \in 1 .. n : i # n => frames'[i] = frames[i]
    BY <1>4, <1>5, <1>6
<1>8. \A i \in 1 .. n : frames'[i].kind = frames[i].kind
                        /\ (frames[i].kind = "body" => frames'[i] = frames[i])
    BY <1>2, <1>4, <1>5, <1>7
<1>9. TypeOK'
    BY <1>1, <1>2, <1>7 DEF TypeOK, heap
<1>10. FramesPlaced'
  <2>1. PICK pos \in Seq(Nat \ {0}) : Laid(stack, Heights, frames, pos, Len(stack) + 1)
    BY DEF IInv, FramesPlaced, Placed
  <2>2. \A i \in 1 .. n : Wide(frames'[i]) = Wide(frames[i])
    BY <1>8 DEF Wide
  <2>3. Laid(stack, Heights, frames', pos, Len(stack) + 1)
    BY <1>7, <1>8, <2>1, <2>2 DEF Laid
  <2> QED
    BY <1>2, <1>3, <2>1, <2>3 DEF FramesPlaced, Placed
<1>11. BranchesFounded'
    BY <1>2, <1>3 DEF IInv, BranchesFounded
<1>12. ASSUME "save" \notin handlers'  PROVE Straight'
  <2>1. Straight
    BY <1>2, <1>12 DEF IInv
  <2>2. Base' = Base
    <3>1. frames' # <<>> /\ Last(frames').kind = "handler"
      BY <1>4, <1>5, <1>7 DEF Last
    <3> QED
      BY <1>2, <3>1 DEF Base, In
  <2>3. \A i \in 1 .. Len(frames') - 1 : frames'[i].kind = "body"
    BY <1>4, <1>7, <1>8, <2>1 DEF Straight
  <2>4. \A k \in Chain(jmplist)' :
            next'[k] \in Chain(jmplist)' => next'[data'[next'[k]]] < next'[data'[k]]
    <3>1. \A k \in Chain(jmplist) : next[k] \in Chain(jmplist) => next[data[next[k]]] < next[data[k]]
      BY <2>1 DEF Straight, Height
    <3>2. data' = data /\ next' = next
      BY <1>2 DEF heap
    <3> QED
      BY <1>3, <3>1, <3>2
  <2> QED
    BY <1>2, <1>3, <2>1, <2>2, <2>3, <2>4 DEF Straight, Height
<1> QED
    BY <1>3, <1>9, <1>10, <1>11, <1>12 DEF IInv

(* The end of a handler: its frame is the last, and the two words on top   *)
(* are its own.                                                            *)
LEMMA HandlerWords ==
    ASSUME IInv, In("handler")
    PROVE  /\ Len(stack) \in Nat /\ Len(stack) >= 2 /\ Base = Len(stack) - 2
           /\ Below \in Seq(Word) /\ Len(Below) = Len(stack) - 2
           /\ \A q \in 1 .. Len(stack) - 2 : Below[q] = stack[q]
           /\ Front(frames) \in Seq(Frame) /\ Len(Front(frames)) = Len(frames) - 1
           /\ \A i \in 1 .. Len(frames) - 1 : Front(frames)[i] = frames[i]
           /\ Placed(stack, Heights, Front(frames), Len(stack) - 1)
<1>1. frames \in Seq(Frame) /\ stack \in Seq(Word) /\ Len(stack) \in Nat /\ Len(stack) + 1 \in Nat
    BY DEF IInv, TypeOK
<1>2. frames # <<>> /\ Last(frames).kind = "handler" /\ Wide(Last(frames)) = 1
    BY DEF In, Wide
<1>3. /\ Front(frames) \in Seq(Frame) /\ Len(Front(frames)) = Len(frames) - 1
      /\ \A i \in 1 .. Len(frames) - 1 : Front(frames)[i] = frames[i]
      /\ \E p \in Nat \ {0} : p + Wide(Last(frames)) < Len(stack) + 1
                              /\ Placed(stack, Heights, Front(frames), p)
    BY <1>1, <1>2, PlacedFewer DEF IInv, FramesPlaced
<1>4. PICK p \in Nat \ {0} : p + 1 < Len(stack) + 1 /\ Placed(stack, Heights, Front(frames), p)
    BY <1>2, <1>3
<1>5. Len(stack) >= 2 /\ p <= Len(stack) - 1 /\ Len(stack) - 1 \in Nat
    BY <1>1, <1>4
<1>6. Placed(stack, Heights, Front(frames), Len(stack) - 1)
    BY <1>3, <1>4, <1>5, PlacedMoved
<1>7. /\ Below \in Seq(Word) /\ Len(Below) = Len(stack) - 2
      /\ \A q \in 1 .. Len(stack) - 2 : Below[q] = stack[q]
  <2> DEFINE k == Len(stack) - 2
  <2>1. k \in Nat /\ k <= Len(stack)
    BY <1>1, <1>5
  <2> HIDE DEF k
  <2>2. /\ SubSeq(stack, 1, k) \in Seq(Word) /\ Len(SubSeq(stack, 1, k)) = k
        /\ \A q \in 1 .. k : SubSeq(stack, 1, k)[q] = stack[q]
    BY <1>1, <2>1
  <2> QED
    BY <2>2 DEF Below, k
<1>8. Base = Len(stack) - 2
    BY DEF Base
<1> QED
    BY <1>1, <1>3, <1>5, <1>6, <1>7, <1>8

LEMMA HandlerSavesInv ==
    ASSUME MaxPages = 1, IInv, HandlerSaves
    PROVE  IInv'
<1>1. TypeOK
    BY DEF IInv
<1>2. /\ In("handler") /\ stack' = Below /\ frames' = Front(frames)
      /\ UNCHANGED <<outside, heap, opened, handlers>>
    BY DEF HandlerSaves
<1>3. /\ Allocated' /\ JumpsLinked'
      /\ Chain(jmplist)' = Chain(jmplist) /\ Heights' = Heights
    BY <1>2, HeapUnchanged
<1>4. /\ Len(stack) \in Nat /\ Len(stack) >= 2 /\ Base = Len(stack) - 2
      /\ stack' \in Seq(Word) /\ Len(stack') = Len(stack) - 2
      /\ \A q \in 1 .. Len(stack) - 2 : stack'[q] = stack[q]
      /\ frames' \in Seq(Frame) /\ Len(frames') = Len(frames) - 1
      /\ \A i \in 1 .. Len(frames) - 1 : frames'[i] = frames[i]
      /\ Placed(stack, Heights, frames', Len(stack) - 1)
    BY <1>2, HandlerWords
<1>5. TypeOK'
    BY <1>1, <1>2, <1>4 DEF TypeOK, heap
<1>6. ASSUME NEW fs \in Seq(Frame), NEW k \in Nat, k <= Len(stack) - 1, Placed(stack, Heights, fs, k)
      PROVE  Placed(stack', Heights', fs, k)
  <2>1. \A q \in Nat \ {0} : q < k => stack'[q] = stack[q]
    <3> SUFFICES ASSUME NEW q \in Nat \ {0}, q < k PROVE stack'[q] = stack[q]
      OBVIOUS
    <3>1. q \in 1 .. Len(stack) - 2
      BY <1>4, <1>6
    <3> QED
      BY <1>4, <3>1
  <2>2. k <= k
    BY <1>6
  <2> QED
    BY <1>3, <1>6, <2>1, <2>2, PlacedMoved
<1>7. FramesPlaced'
  <2>1. Len(stack) - 1 \in Nat /\ Len(stack) - 1 <= Len(stack) - 1 /\ Len(stack') + 1 = Len(stack) - 1
    BY <1>4
  <2>2. Placed(stack', Heights', frames', Len(stack) - 1)
    BY <1>4, <1>6, <2>1
  <2> QED
    BY <2>1, <2>2 DEF FramesPlaced
<1>8. BranchesFounded'
  <2>1. ASSUME NEW q \in 1 .. Len(stack'), stack'[q].word = "branch"
        PROVE  stack'[q].id \in 1 .. Len(outside) /\ Placed(stack', Heights', outside[stack'[q].id], q)
    <3>1. q \in 1 .. Len(stack) /\ q \in Nat /\ q <= Len(stack) - 1 /\ stack'[q] = stack[q]
      BY <1>4
    <3>2. stack[q].id \in 1 .. Len(outside) /\ Placed(stack, Heights, outside[stack[q].id], q)
      BY <2>1, <3>1 DEF IInv, BranchesFounded, Founded
    <3>3. outside[stack[q].id] \in Seq(Frame)
      BY <1>1, <3>2 DEF TypeOK
    <3> QED
      BY <1>6, <3>1, <3>2, <3>3
  <2> QED
    BY <1>2, <2>1 DEF BranchesFounded, Founded
<1>9. ASSUME "save" \notin handlers'  PROVE Straight'
  <2>1. Straight
    BY <1>2, <1>9 DEF IInv
  <2>2. Bodies(frames')
    BY <1>4, <2>1 DEF Straight, Bodies
  <2>3. Base' = Base
    <3>1. (TypeOK /\ Bodies(frames) => Base = Len(stack))'
      BY BaseOfBodies, PTL
    <3> QED
      BY <1>4, <1>5, <2>2, <3>1
  <2>4. \A i \in 1 .. Len(frames') - 1 : frames'[i].kind = "body"
    <3>1. frames \in Seq(Frame) /\ Len(frames) \in Nat
      BY <1>1 DEF TypeOK
    <3> QED
      BY <1>4, <2>2, <3>1 DEF Bodies
  <2>5. \A k \in Chain(jmplist)' :
            next'[k] \in Chain(jmplist)' => next'[data'[next'[k]]] < next'[data'[k]]
    <3>1. \A k \in Chain(jmplist) : next[k] \in Chain(jmplist) => next[data[next[k]]] < next[data[k]]
      BY <2>1 DEF Straight, Height
    <3>2. data' = data /\ next' = next
      BY <1>2 DEF heap
    <3> QED
      BY <1>3, <3>1, <3>2
  <2> QED
    BY <1>2, <1>3, <2>1, <2>3, <2>4, <2>5 DEF Straight, Height
<1> QED
    BY <1>3, <1>5, <1>7, <1>8, <1>9 DEF IInv

(* Links lead down: the first of jmplist is the highest.                   *)
LEMMA FirstHighest ==
    ASSUME MaxPages = 1, IInv, Straight, data[jmplist] # Zero
    PROVE  rsp \in Nat /\ \A h \in Heights : h \in Nat /\ h <= rsp
<1>1. PICK J \in SUBSET Node : Jumps(J)
    BY DEF IInv, JumpsLinked
<1>2. TypeOK /\ Allocated /\ data[Bottom] = Zero
    BY BottomUnlisted DEF IInv
<1>3. jmplist \in J /\ jmplist \in Listed /\ \A k \in J : Height(k) \in Nat \ {0}
    BY <1>1, <1>2 DEF Jumps
<1> DEFINE C == Chain(jmplist)
           S == {k \in C : Height(k) <= Height(jmplist)}
<1>4. C \subseteq J
    BY <1>1, <1>2, <1>3, ChainOfJumps
<1>5. Closed(Listed, next, C) /\ C \subseteq Listed /\ jmplist \in C
    BY <1>3, ChainIs, ReachClosed, ReachFirst
<1>6. \A k \in C : next[k] \in C => Height(next[k]) < Height(k)
    BY DEF Straight
<1>7. C = Reach(Listed, next, jmplist)
    BY ChainIs
<1>8. rsp = Height(jmplist) /\ Height(jmplist) \in Nat /\ Heights = {Height(k) : k \in C}
    BY <1>3 DEF rsp, Height, Heights
<1> HIDE DEF C
<1>9. Closed(Listed, next, S)
  <2>1. ASSUME NEW k \in S, next[k] \in Listed  PROVE next[k] \in S
    <3>1. next[k] \in C /\ Height(next[k]) < Height(k) /\ Height(k) <= Height(jmplist)
      BY <1>5, <1>6, <2>1 DEF Closed
    <3>2. Height(next[k]) \in Nat /\ Height(k) \in Nat
      BY <1>3, <1>4, <2>1, <3>1
    <3> QED
      BY <1>8, <3>1, <3>2
  <2> QED
    BY <2>1 DEF Closed
<1>10. S \in SUBSET Listed /\ jmplist \in S
    BY <1>5, <1>8
<1>11. C \subseteq S
    BY <1>7, <1>9, <1>10, ReachLeast
<1> QED
    BY <1>3, <1>4, <1>8, <1>11

(* An error raised in a handler takes the word below the handler's for its *)
(* message.  Without saves in handlers the first of jmplist leads there.   *)
LEMMA HandlerRaisesInv ==
    ASSUME MaxPages = 1, \A h \in Programs : h # {"save", "raise"}, IInv, HandlerRaises
    PROVE  IInv'
<1>1. /\ In("handler") /\ "raise" \in handlers
      /\ UNCHANGED <<outside, listmanager, closelist, data, next, opened, handlers>>
    BY DEF HandlerRaises
<1>2. Straight
  <2>1. handlers \in Programs
    BY DEF IInv, TypeOK
  <2>2. handlers \in SUBSET {"save", "raise"} /\ handlers # {"save", "raise"}
    BY <2>1, ProgramsKnown
  <2>3. "save" \notin handlers
    BY <1>1, <2>2
  <2> QED
    BY <2>3 DEF IInv
<1>3. /\ Len(stack) \in Nat /\ Len(stack) >= 2 /\ Base = Len(stack) - 2
      /\ Below \in Seq(Word) /\ Len(Below) = Len(stack) - 2
      /\ \A q \in 1 .. Len(stack) - 2 : Below[q] = stack[q]
    BY <1>1, HandlerWords
<1>4. CASE Below = <<>>
  <2>1. UNCHANGED <<stack, frames, jmplist>>
    BY <1>4 DEF HandlerRaises
  <2> QED
    BY <1>1, <2>1, NothingMoved DEF heap
<1>5. CASE Below # <<>>
  <2>1. PICK s \in Nat : s = Len(Below)
    <3>1. Len(Below) \in Nat
      BY <1>3
    <3> QED
      BY <3>1
  <2>2. s \in 1 .. Len(stack) /\ s \in 1 .. Base /\ s <= Len(stack)
    BY <1>3, <1>5, <2>1
  <2>3. PICK w \in Word : w = Last(Below) /\ w = stack[s]
    BY <1>3, <1>5, <2>1, <2>2 DEF Last
  <2>4. Raise(w, s)
    BY <1>5, <2>1, <2>3 DEF HandlerRaises
  <2>5. ASSUME data[jmplist] # Zero, rsp <= s  PROVE Founded(stack, Heights, outside, w, rsp)
    <3>1. s \in Heights
      BY <1>2, <2>2 DEF Straight
    <3>2. rsp \in Nat /\ s <= rsp
      BY <1>2, <2>5, <3>1, FirstHighest
    <3>3. rsp = s
      BY <2>5, <3>2
    <3>4. Founded(stack, Heights, outside, stack[s], s)
      BY <2>2 DEF IInv, BranchesFounded
    <3> QED
      BY <2>3, <3>3, <3>4
  <2> QED
    BY <1>1, <2>2, <2>4, <2>5, RaiseInv
<1> QED
    BY <1>4, <1>5

-----------------------------------------------------------------------------
(* Programs whose handlers do not both have saves and raise errors.        *)

LEMMA Inductive ==
    ASSUME MaxPages = 1, \A h \in Programs : h # {"save", "raise"}, IInv, [Next]_vars
    PROVE  IInv'
<1>1. CASE MakeList
    BY <1>1, MakeListInv
<1>2. CASE \E f \in Files : Open(f)
    BY <1>2, OpenInv
<1>3. CASE Save
    BY <1>3, SaveInv
<1>4. CASE SaveEnds
    BY <1>4, SaveEndsInv
<1>5. CASE \E m \in Msgs : Die(m)
    BY <1>5, DieInv
<1>6. CASE SetName
    BY <1>6, SetNameInv
<1>7. CASE HandlerSaves
    BY <1>7, HandlerSavesInv
<1>8. CASE HandlerRaises
    BY <1>8, HandlerRaisesInv
<1>9. CASE Exit
    BY <1>9, NothingMoved DEF Exit
<1>10. CASE UNCHANGED vars
    BY <1>10, NothingMoved DEF vars
<1> QED
    BY <1>1, <1>2, <1>3, <1>4, <1>5, <1>6, <1>7, <1>8, <1>9, <1>10 DEF Next

LEMMA Invariance ==
    ASSUME MaxPages = 1, \A h \in Programs : h # {"save", "raise"}
    PROVE  Spec => []IInv
<1>1. Init => IInv
    BY InitInv
<1>2. IInv /\ [Next]_vars => IInv'
    BY Inductive
<1> QED
    BY <1>1, <1>2, PTL DEF Spec

(* The labels point into the heap, the words of the stack and of the nodes *)
(* are of the kinds written there, and what _alloc_list has not handed out *)
(* holds nothing (list.s:63-124).                                          *)
THEOREM SavesTyped ==
    ASSUME MaxPages = 1, \A h \in Programs : h # {"save", "raise"}
    PROVE  Spec => [](TypeOK /\ Allocated)
<1>1. IInv => TypeOK /\ Allocated
    BY DEF IInv
<1> QED
    BY <1>1, Invariance, PTL

(* An active save is found by the errors raised in its body: its node is   *)
(* on jmplist and its handler's address at the height that node has        *)
(* (compiler.c:323-338, std.s:317-331).                                    *)
THEOREM ActiveSavesFound ==
    ASSUME MaxPages = 1, \A h \in Programs : h # {"save", "raise"}
    PROVE  Spec => []ActiveHandled
<1>1. ASSUME IInv  PROVE ActiveHandled
  <2>1. PICK pos \in Seq(Nat \ {0}) : Laid(stack, Heights, frames, pos, Len(stack) + 1)
    BY <1>1 DEF IInv, FramesPlaced, Placed
  <2>2. stack \in Seq(Word) /\ frames \in Seq(Frame) /\ Len(stack) \in Nat
    BY <1>1 DEF IInv, TypeOK
  <2>3. ASSUME NEW i \in 1 .. Len(frames), frames[i].kind = "body"
        PROVE  frames[i].id \in Entries
    <3>1. /\ pos[i] \in Nat \ {0} /\ pos[i] + Wide(frames[i]) < Len(stack) + 1
          /\ stack[pos[i]] = Branch(frames[i].id) /\ pos[i] \in Heights
      BY <2>1, <2>3 DEF Laid
    <3>2. pos[i] <= Len(stack) /\ frames[i] \in Frame
      BY <2>2, <2>3, <3>1 DEF Wide
    <3>3. PICK n \in Chain(jmplist) : pos[i] = Height(n)
      BY <3>1 DEF Heights
    <3>4. next[data[n]] <= Len(stack) /\ stack[next[data[n]]] = Branch(frames[i].id)
      BY <3>1, <3>2, <3>3 DEF Height
    <3>5. stack[next[data[n]]].word = "branch" /\ stack[next[data[n]]].id = frames[i].id
      BY <3>4 DEF Branch
    <3> QED
      BY <3>3, <3>4, <3>5 DEF Entries
  <2> QED
    BY <2>3 DEF ActiveHandled
<1> QED
    BY <1>1, Invariance, PTL

-----------------------------------------------------------------------------
(* The files.                                                              *)

(* The nodes F, the next to be handed out, are written.                    *)
LEMMA StillAllocated ==
    ASSUME HeapTyped, Allocated, NEW F \in SUBSET Node, NEW k \in Nat, k >= listmanager[2],
           listmanager'[1] = 1, listmanager'[2] = k, k \in 2 .. PageSize - 1,
           \A n \in F : n[2] \in 2 .. k - 1,
           \A n \in Node \ F : data'[n] = data[n]
    PROVE  Allocated'
<1>1. listmanager[2] \in Nat
    BY PagesHoldLists DEF Allocated
<1>2. ASSUME NEW n \in Node, data'[n] # Zero  PROVE n[2] \in 2 .. k - 1
  <2>1. CASE n \notin F
    <3>1. n[2] \in 2 .. listmanager[2] - 1
      BY <1>2, <2>1 DEF Allocated
    <3> QED
      BY <1>1, <3>1
  <2> QED
    BY <2>1
<1> QED
    BY <1>2 DEF Allocated

LEMMA StillListed ==
    ASSUME NEW F \in SUBSET Node, \A n \in F : data[n] = Zero,
           \A n \in Node \ F : data'[n] = data[n] /\ next'[n] = next[n]
    PROVE  /\ \A n \in Listed : data'[n] = data[n]
           /\ \A n : Reach(Listed, next, n) \subseteq Reach(Listed', next', n)
<1>1. \A n \in Listed : n \in Node \ F
    BY DEF Listed
<1>2. Listed \subseteq Listed'
    BY <1>1 DEF Listed
<1>3. \A n : Reach(Listed, next, n) \subseteq Reach(Listed', next', n)
    BY <1>1, <1>2, ReachGrows
<1> QED
    BY <1>1, <1>3

(* What was found is found if the rest of the list is.                     *)
LEMMA FilesMoved ==
    ASSUME FilesListed, \A n \in Listed : data'[n] = data[n],
           Reach(Listed, next, closelist) \subseteq Reach(Listed', next', closelist'),
           NEW f \in opened
    PROVE  \E n \in Reach(Listed', next', closelist') : data'[n] = <<"file", f>>
<1>1. PICK n \in Chain(closelist) : data[n] = <<"file", f>>
    BY DEF FilesListed
<1>2. n \in Reach(Listed, next, closelist) /\ n \in Listed
    BY <1>1, ChainIs DEF Reach
<1> QED
    BY <1>1, <1>2

LEMMA FilesByReach ==
    ASSUME \A f \in opened' : \E n \in Reach(Listed', next', closelist') : data'[n] = <<"file", f>>
    PROVE  FilesListed'
<1>1. \A n : n \in Reach(Listed', next', closelist') => n \in Chain(closelist)'
    BY DEF Chain
<1> QED
    BY <1>1 DEF FilesListed

LEMMA MakeListFiles ==
    ASSUME MaxPages = 1, FilesInv, MakeList
    PROVE  FilesInv'
<1> DEFINE h == AllocList(Labels)
<1>1. HeapTyped /\ Allocated
    BY DEF FilesInv
<1>2. /\ listmanager' = h.manager /\ closelist' = h.close
      /\ data' = [data EXCEPT ![h.node] = <<"value">>] /\ next' = next /\ opened' = opened /\ InMemory(h)
    BY DEF MakeList
<1>3. /\ h.node = listmanager /\ data[listmanager] = Zero /\ h.close = closelist
      /\ h.manager \in Node /\ h.manager[1] = 1 /\ h.manager[2] = listmanager[2] + 1
      /\ listmanager[2] + 1 \in 2 .. PageSize - 1
    BY <1>1, <1>2, OneNode DEF LabelType
<1> HIDE DEF h
<1>4. listmanager \in Node /\ closelist \in Node /\ DOMAIN data = Node /\ DOMAIN next = Node
    BY <1>1 DEF HeapTyped
<1>5. /\ data' = [data EXCEPT ![listmanager] = <<"value">>] /\ DOMAIN data' = Node
      /\ \A n \in Node \ {listmanager} : data'[n] = data[n] /\ next'[n] = next[n]
    BY <1>2, <1>3, <1>4
<1>6. HeapTyped'
    BY <1>2, <1>3, <1>4, <1>5 DEF HeapTyped
<1>7. PICK F \in SUBSET Node : F = {listmanager}
    BY <1>3, <1>4
<1>8. /\ \A n \in F : data[n] = Zero
      /\ \A n \in Node \ F : data'[n] = data[n] /\ next'[n] = next[n]
    BY <1>3, <1>5, <1>7
<1>9. Allocated'
  <2>1. listmanager[2] \in 2 .. PageSize - 1
    BY <1>1 DEF Allocated
  <2>2. PICK k \in Nat : k = listmanager[2] + 1
    BY <2>1, PagesHoldLists
  <2>3. \A n \in F : n[2] \in 2 .. k - 1
    BY <1>7, <2>1, <2>2, PagesHoldLists
  <2>4. k >= listmanager[2] /\ k \in 2 .. PageSize - 1 /\ listmanager'[1] = 1 /\ listmanager'[2] = k
    BY <1>2, <1>3, <2>1, <2>2, PagesHoldLists
  <2>5. \A n \in Node \ F : data'[n] = data[n]
    BY <1>5, <1>7
  <2> QED
    BY <1>1, <2>3, <2>4, <2>5, StillAllocated
<1>10. FilesListed'
  <2>1. /\ \A n \in Listed : data'[n] = data[n]
        /\ \A n : Reach(Listed, next, n) \subseteq Reach(Listed', next', n)
    BY <1>8, StillListed
  <2>2. closelist' = closelist /\ opened' = opened /\ FilesListed
    BY <1>2, <1>3 DEF FilesInv
  <2>3. Reach(Listed, next, closelist) \subseteq Reach(Listed', next', closelist')
    BY <2>1, <2>2
  <2>4. \A f \in opened : \E n \in Reach(Listed', next', closelist') : data'[n] = <<"file", f>>
    BY <2>1, <2>2, <2>3, FilesMoved
  <2> QED
    BY <2>2, <2>4, FilesByReach
<1> QED
    BY <1>6, <1>9, <1>10 DEF FilesInv

(* The node of a file is put before the others.                            *)
LEMMA OpenFiles ==
    ASSUME MaxPages = 1, FilesInv, NEW f \in Files, Open(f)
    PROVE  FilesInv'
<1> DEFINE h == AllocList(Labels)
<1>1. HeapTyped /\ Allocated
    BY DEF FilesInv
<1>2. /\ listmanager' = h.manager /\ closelist' = h.node
      /\ data' = [data EXCEPT ![h.node] = <<"file", f>>] /\ InMemory(h)
      /\ next' = [next EXCEPT ![h.node] = h.close] /\ opened' = opened \cup {f}
    BY DEF Open
<1>3. /\ h.node = listmanager /\ data[listmanager] = Zero /\ h.close = closelist
      /\ h.manager \in Node /\ h.manager[1] = 1 /\ h.manager[2] = listmanager[2] + 1
      /\ listmanager[2] + 1 \in 2 .. PageSize - 1
    BY <1>1, <1>2, OneNode DEF LabelType
<1> HIDE DEF h
<1>4. listmanager \in Node /\ closelist \in Node /\ DOMAIN data = Node /\ DOMAIN next = Node
    BY <1>1 DEF HeapTyped
<1>5. /\ DOMAIN data' = Node /\ DOMAIN next' = Node /\ closelist' = listmanager
      /\ \A n \in Node \ {listmanager} : data'[n] = data[n] /\ next'[n] = next[n]
      /\ data'[listmanager] = <<"file", f>> /\ next'[listmanager] = closelist
    BY <1>2, <1>3, <1>4
<1>6. HeapTyped'
    BY <1>2, <1>3, <1>4, <1>5 DEF HeapTyped
<1>7. PICK F \in SUBSET Node : F = {listmanager}
    BY <1>3, <1>4
<1>8. /\ \A n \in F : data[n] = Zero
      /\ \A n \in Node \ F : data'[n] = data[n] /\ next'[n] = next[n]
    BY <1>3, <1>5, <1>7
<1>9. Allocated'
  <2>1. listmanager[2] \in 2 .. PageSize - 1
    BY <1>1 DEF Allocated
  <2>2. PICK k \in Nat : k = listmanager[2] + 1
    BY <2>1, PagesHoldLists
  <2>3. \A n \in F : n[2] \in 2 .. k - 1
    BY <1>7, <2>1, <2>2, PagesHoldLists
  <2>4. k >= listmanager[2] /\ k \in 2 .. PageSize - 1 /\ listmanager'[1] = 1 /\ listmanager'[2] = k
    BY <1>2, <1>3, <2>1, <2>2, PagesHoldLists
  <2>5. \A n \in Node \ F : data'[n] = data[n]
    BY <1>5, <1>7
  <2> QED
    BY <1>1, <2>3, <2>4, <2>5, StillAllocated
<1>10. FilesListed'
  <2>1. listmanager \in Listed'
    BY <1>4, <1>5, HeldApart DEF Listed
  <2>2. Reach(Listed', next', listmanager) = {listmanager} \cup Reach(Listed', next', next'[listmanager])
    BY <2>1, ReachNext
  <2>3. Reach(Listed', next', closelist') = {listmanager} \cup Reach(Listed', next', closelist)
    BY <1>5, <2>2
  <2>4. /\ \A n \in Listed : data'[n] = data[n]
        /\ \A n : Reach(Listed, next, n) \subseteq Reach(Listed', next', n)
    BY <1>8, StillListed
  <2>5. Reach(Listed, next, closelist) \subseteq Reach(Listed', next', closelist') /\ FilesListed
    BY <2>3, <2>4 DEF FilesInv
  <2>6. \A g \in opened : \E n \in Reach(Listed', next', closelist') : data'[n] = <<"file", g>>
    BY <2>4, <2>5, FilesMoved
  <2>7. \A g \in opened' : \E n \in Reach(Listed', next', closelist') : data'[n] = <<"file", g>>
    BY <1>2, <1>5, <2>3, <2>6
  <2> QED
    BY <2>7, FilesByReach
<1> QED
    BY <1>6, <1>9, <1>10 DEF FilesInv

LEMMA SaveFiles ==
    ASSUME MaxPages = 1, FilesInv, Save
    PROVE  FilesInv'
<1> DEFINE first == AllocList(Labels)
           second == AllocList([first EXCEPT !.jmp = first.node])
           a == listmanager
           b == <<1, listmanager[2] + 1>>
<1>1. HeapTyped /\ Allocated
    BY DEF FilesInv
<1>2. /\ InMemory(first) /\ InMemory(second)
      /\ listmanager' = second.manager /\ closelist' = second.close /\ opened' = opened
      /\ data' = [data EXCEPT ![first.node] = second.node, ![second.node] = <<"frame">>]
      /\ next' = [next EXCEPT ![first.node] = first.jmp, ![second.node] = Len(stack) + 1]
    BY DEF Save
<1>3. /\ first.node = a /\ data[a] = Zero
      /\ second.node = b /\ b \in Node /\ data[b] = Zero /\ b[2] = a[2] + 1
      /\ second.manager \in Node /\ second.manager[1] = 1
      /\ second.manager[2] = a[2] + 2 /\ a[2] + 2 \in 2 .. PageSize - 1 /\ second.close = closelist
    BY <1>1, <1>2, TwoNodes
<1> HIDE DEF first, second, b
<1>4. a \in Node /\ closelist \in Node /\ DOMAIN data = Node /\ DOMAIN next = Node
    BY <1>1 DEF HeapTyped
<1>5. /\ DOMAIN data' = Node /\ DOMAIN next' = Node
      /\ \A n \in Node \ {a, b} : data'[n] = data[n] /\ next'[n] = next[n]
    BY <1>2, <1>3, <1>4
<1>6. HeapTyped'
    BY <1>2, <1>3, <1>4, <1>5 DEF HeapTyped
<1>7. PICK F \in SUBSET Node : F = {a, b}
    BY <1>3, <1>4
<1>8. /\ \A n \in F : data[n] = Zero
      /\ \A n \in Node \ F : data'[n] = data[n] /\ next'[n] = next[n]
    BY <1>3, <1>5, <1>7
<1>9. Allocated'
  <2>1. a[2] \in 2 .. PageSize - 1
    BY <1>1 DEF Allocated
  <2>2. PICK k \in Nat : k = a[2] + 2
    BY <2>1, PagesHoldLists
  <2>3. \A n \in F : n[2] \in 2 .. k - 1
    BY <1>7, <2>2, <1>3, <2>1, PagesHoldLists
  <2>4. k >= a[2] /\ k \in 2 .. PageSize - 1 /\ listmanager'[1] = 1 /\ listmanager'[2] = k
    BY <1>2, <1>3, <2>1, <2>2, PagesHoldLists
  <2>5. \A n \in Node \ F : data'[n] = data[n]
    BY <1>5, <1>7
  <2> QED
    BY <1>1, <2>3, <2>4, <2>5, StillAllocated
<1>10. FilesListed'
  <2>1. /\ \A n \in Listed : data'[n] = data[n]
        /\ \A n : Reach(Listed, next, n) \subseteq Reach(Listed', next', n)
    BY <1>8, StillListed
  <2>2. closelist' = closelist /\ opened' = opened /\ FilesListed
    BY <1>2, <1>3 DEF FilesInv
  <2>3. Reach(Listed, next, closelist) \subseteq Reach(Listed', next', closelist')
    BY <2>1, <2>2
  <2>4. \A f \in opened : \E n \in Reach(Listed', next', closelist') : data'[n] = <<"file", f>>
    BY <2>1, <2>2, <2>3, FilesMoved
  <2> QED
    BY <2>2, <2>4, FilesByReach
<1> QED
    BY <1>6, <1>9, <1>10 DEF FilesInv

LEMMA FilesKept ==
    ASSUME FilesInv, UNCHANGED <<listmanager, closelist, data, next, opened>>
    PROVE  FilesInv'
<1>1. Listed' = Listed
    BY DEF Listed
<1>2. Chain(closelist)' = Chain(closelist)
    BY <1>1 DEF Chain
<1> QED
    BY <1>2 DEF FilesInv, HeapTyped, Allocated, FilesListed

(* Every file opened is on closelist, to be closed on exit, while saves    *)
(* and lists take their nodes from the same page (std.s:197-211, 422-447), *)
(* whatever handlers do.                                                   *)
THEOREM OpenFilesListed ==
    ASSUME MaxPages = 1
    PROVE  Spec => []FilesListed
<1>1. Init => FilesInv
  <2> SUFFICES ASSUME Init  PROVE FilesInv
    OBVIOUS
  <2>1. TypeOK /\ Allocated
    BY InitInv DEF IInv
  <2> QED
    BY <2>1, TypesOfHeap DEF FilesInv, FilesListed, Init
<1>2. FilesInv /\ [Next]_vars => FilesInv'
  <2> SUFFICES ASSUME FilesInv, [Next]_vars  PROVE FilesInv'
    OBVIOUS
  <2>1. CASE MakeList
    BY <2>1, MakeListFiles
  <2>2. CASE \E f \in Files : Open(f)
    BY <2>2, OpenFiles
  <2>3. CASE Save
    BY <2>3, SaveFiles
  <2>4. CASE SaveEnds \/ SetName \/ HandlerSaves \/ Exit \/ UNCHANGED vars
    BY <2>4, FilesKept DEF SaveEnds, SetName, HandlerSaves, Exit, vars, heap
  <2>5. CASE (\E m \in Msgs : Die(m)) \/ HandlerRaises
    BY <2>5, FilesKept DEF Die, HandlerRaises
  <2> QED
    BY <2>1, <2>2, <2>3, <2>4, <2>5 DEF Next
<1>3. FilesInv => FilesListed
    BY DEF FilesInv
<1> QED
    BY <1>1, <1>2, <1>3, PTL DEF Spec
=============================================================================
