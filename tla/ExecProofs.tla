----------------------------- MODULE ExecProofs -----------------------------
(***************************************************************************)
(* Theorems about control in the interpreter, for every depth of the C     *)
(* stack and any number of scopes and messages.                            *)
(***************************************************************************)
EXTENDS Exec, SequenceTheorems, TLAPS

FrameType ==
    [kind : Kinds \ {"handler"}, base : Nat]
        \cup [kind : {"handler"}, base : Nat, str : Msgs, again : BOOLEAN]

TypeOK ==
    /\ stack \in Seq(FrameType)
    /\ mode \in Modes
    /\ varlist \in Seq(Binding)
    /\ jmplist \in Seq(Nat)
    /\ diemsg \in Msgs \cup {NoMsg}
    /\ unsaved \in BOOLEAN

(* The file being imported is the outermost frame and the only one of its  *)
(* kind; nothing is evaluated without it.                                  *)
ModuleOutermost ==
    /\ stack = <<>> <=> mode = "idle"
    /\ \A i \in 1 .. Len(stack) : stack[i].kind = "module" <=> i = 1

(* The scope a frame's statements belong to is there, and a frame that     *)
(* takes a scope with it when it goes is alone in that one.                *)
Own(i) == stack[i].kind \in {"module", "func"}
ScopesNested ==
    /\ Len(varlist) >= 1
    /\ \A i \in 1 .. Len(stack) : stack[i].base \in 1 .. Len(varlist)
    /\ \A i \in 1 .. Len(stack) : Own(i) =>
          /\ stack[i].base >= 2
          /\ \A j \in 1 .. i - 1 : stack[j].base < stack[i].base

(* The buffers that setjmp has filled, and the one in front that it has    *)
(* not, when save was called without arguments.                            *)
OnlyFirstUnfilled ==
    /\ \A i \in 2 .. Len(jmplist) : jmplist[i] # Unfilled
    /\ jmplist # <<>> /\ jmplist[1] = Unfilled => mode \in {"raise", "badjump"}
BuffersLive ==
    \A i \in 1 .. Len(jmplist) : jmplist[i] # Unfilled =>
        jmplist[i] \in 1 .. Len(stack) /\ Saving(jmplist[i])
BuffersOrdered ==
    \A i, j \in 1 .. Len(jmplist) :
        i < j => jmplist[i] = Unfilled \/ jmplist[i] > jmplist[j]
SavesListed ==
    \A k \in 1 .. Len(stack) : Saving(k) => \E i \in 1 .. Len(jmplist) : jmplist[i] = k

Buffers == OnlyFirstUnfilled /\ BuffersLive /\ BuffersOrdered /\ SavesListed

(* The inductive invariant.                                                *)
IInv ==
    /\ TypeOK
    /\ ModuleOutermost
    /\ ScopesNested
    /\ Buffers

-----------------------------------------------------------------------------
(* Frames and the three ways a step changes the C stack.                   *)

LEMMA FrameTyped ==
  /\ \A f \in FrameType : f.kind \in Kinds /\ f.base \in Nat
  /\ \A k \in Kinds \ {"handler"}, b \in Nat :
        Frame(k, b) \in FrameType /\ Frame(k, b).kind = k /\ Frame(k, b).base = b
  /\ \A b \in Nat, s \in Msgs, a \in BOOLEAN :
        /\ HandlerFrame(b, s, a) \in FrameType
        /\ HandlerFrame(b, s, a).kind = "handler" /\ HandlerFrame(b, s, a).base = b
BY DEF FrameType, Kinds, Frame, HandlerFrame

LEMMA StackTyped ==
  ASSUME TypeOK
  PROVE  /\ Len(stack) \in Nat
         /\ stack # <<>> <=> Len(stack) > 0
         /\ \A i \in 1 .. Len(stack) :
              stack[i] \in FrameType /\ stack[i].kind \in Kinds /\ stack[i].base \in Nat
<1> USE DEF TypeOK
<1>1. Len(stack) \in Nat /\ (stack # <<>> => Len(stack) > 0)
  BY LenProperties, EmptySeq
<1>2. stack = <<>> => Len(stack) = 0
  OBVIOUS
<1>3. \A i \in 1 .. Len(stack) : stack[i] \in FrameType
  BY ElementOfSeq
<1> QED  BY <1>1, <1>2, <1>3, FrameTyped

LEMMA PushFacts ==
  ASSUME TypeOK, NEW f \in FrameType, Push(f)
  PROVE  /\ stack' \in Seq(FrameType) /\ stack' # <<>>
         /\ Len(stack') = Len(stack) + 1 /\ stack'[Len(stack) + 1] = f
         /\ \A i \in 1 .. Len(stack) : stack'[i] = stack[i]
BY AppendProperties DEF Push, TypeOK

LEMMA CutFacts ==
  ASSUME TypeOK, NEW n \in 0 .. Len(stack), stack' = SubSeq(stack, 1, n)
  PROVE  /\ stack' \in Seq(FrameType) /\ Len(stack') = n
         /\ stack' = <<>> <=> n = 0
         /\ \A i \in 1 .. n : stack'[i] = stack[i]
<1>1. Len(stack) \in Nat /\ \A i \in 1 .. n : stack[i] \in FrameType
  BY StackTyped
<1>2. /\ stack' \in Seq(FrameType)
      /\ Len(stack') = IF 1 <= n THEN n - 1 + 1 ELSE 0
      /\ \A i \in 1 .. n - 1 + 1 : stack'[i] = stack[1 + i - 1]
  BY <1>1, SubSeqProperties
<1>3. Len(stack') = n /\ \A i \in 1 .. n : stack'[i] = stack[i]
  BY <1>1, <1>2
<1>4. stack' = <<>> <=> n = 0
  BY <1>2, <1>3, EmptySeq
<1> QED  BY <1>2, <1>3, <1>4

LEMMA SetTopFacts ==
  ASSUME TypeOK, stack # <<>>, NEW f \in FrameType, SetTop(f)
  PROVE  /\ stack' \in Seq(FrameType) /\ stack' # <<>>
         /\ Len(stack') = Len(stack) /\ stack'[Len(stack)] = f
         /\ \A i \in 1 .. Len(stack) - 1 : stack'[i] = stack[i]
<1>1. Len(stack) \in Nat /\ Len(stack) \in 1 .. Len(stack)
  BY StackTyped
<1>2. /\ stack' \in Seq(FrameType) /\ Len(stack') = Len(stack)
      /\ \A j \in 1 .. Len(stack) : stack'[j] = IF j = Len(stack) THEN f ELSE stack[j]
  BY <1>1, ExceptSeq DEF SetTop, TypeOK
<1>3. stack' # <<>>
  BY <1>1, <1>2
<1> QED  BY <1>1, <1>2, <1>3

(* Adding a scope, and taking the innermost one away.                      *)
LEMMA AddScopeFacts ==
  ASSUME TypeOK, varlist' = <<Unbound>> \o varlist
  PROVE  varlist' \in Seq(Binding) /\ Len(varlist') = Len(varlist) + 1
<1>1. <<Unbound>> \in Seq(Binding) /\ Len(<<Unbound>>) = 1
  BY DEF Binding
<1>2. Len(varlist) \in Nat
  BY LenProperties DEF TypeOK
<1> QED  BY <1>1, <1>2, ConcatProperties DEF TypeOK

LEMMA TailFacts ==
  ASSUME NEW S, NEW s \in Seq(S), s # <<>>
  PROVE  /\ Tail(s) \in Seq(S) /\ Len(Tail(s)) = Len(s) - 1
         /\ Len(s) \in Nat /\ Len(s) >= 1
         /\ \A i \in 1 .. Len(s) - 1 : Tail(s)[i] = s[i + 1]
BY HeadTailProperties, LenProperties, EmptySeq

LEMMA BindFacts ==
  ASSUME TypeOK, ScopesNested, NEW b \in Binding, varlist' = [varlist EXCEPT ![1] = b]
  PROVE  varlist' \in Seq(Binding) /\ Len(varlist') = Len(varlist)
<1>1. Len(varlist) \in Nat /\ 1 \in 1 .. Len(varlist)
  BY LenProperties DEF TypeOK, ScopesNested
<1> QED  BY <1>1, ExceptSeq DEF TypeOK

-----------------------------------------------------------------------------
(* Steps of the same shape keep the invariant for the same reason.         *)

(* The first buffer, when setjmp has filled it, belongs to the innermost   *)
(* saveDef on the C stack.                                                 *)
LEMMA FirstBufferInnermost ==
  ASSUME IInv, jmplist # <<>>, jmplist[1] # Unfilled
  PROVE  /\ jmplist[1] \in 2 .. Len(stack) /\ Saving(jmplist[1])
         /\ \A k \in 1 .. Len(stack) : Saving(k) => k <= jmplist[1]
<1> USE DEF IInv
<1>1. Len(jmplist) \in Nat /\ 1 \in 1 .. Len(jmplist)
  BY TailFacts DEF TypeOK
<1>2. jmplist[1] \in 1 .. Len(stack) /\ Saving(jmplist[1])
  BY <1>1 DEF Buffers, BuffersLive
<1>3. stack[1].kind = "module" /\ Len(stack) \in Nat
  BY <1>2, StackTyped DEF ModuleOutermost
<1>4. jmplist[1] # 1
  BY <1>2, <1>3 DEF Saving
<1>5. ASSUME NEW k \in 1 .. Len(stack), Saving(k) PROVE k <= jmplist[1]
  <2>1. PICK i \in 1 .. Len(jmplist) : jmplist[i] = k
    BY <1>5 DEF Buffers, SavesListed
  <2>2. i # 1 => jmplist[1] > jmplist[i]
    BY <1>1, <2>1 DEF Buffers, BuffersOrdered
  <2> QED  BY <1>2, <1>3, <2>1, <2>2
<1> QED  BY <1>2, <1>3, <1>4, <1>5

(* A saveDef that returns is the one the first buffer belongs to.          *)
LEMMA ReturningSaveFirst ==
  ASSUME IInv, In("save") \/ In("handler"), mode \in {"value", "null"}
  PROVE  jmplist # <<>> /\ jmplist[1] # Unfilled /\ jmplist[1] = Len(stack)
<1>1. Len(stack) \in Nat /\ Len(stack) \in 1 .. Len(stack) /\ Saving(Len(stack))
  BY StackTyped DEF IInv, In, Top, Saving
<1>2. PICK i \in 1 .. Len(jmplist) : jmplist[i] = Len(stack)
  BY <1>1 DEF IInv, Buffers, SavesListed
<1>3. jmplist # <<>> /\ jmplist[1] # Unfilled
  <2>1. Len(jmplist) \in Nat
    BY LenProperties DEF IInv, TypeOK
  <2>2. jmplist # <<>>
    BY <1>2, <2>1
  <2> QED  BY <2>2 DEF IInv, Buffers, OnlyFirstUnfilled
<1> QED  BY <1>1, <1>3, FirstBufferInnermost

(* The C stack and the buffers stay as they are.                           *)
LEMMA StayKeeps ==
  ASSUME IInv, mode # "idle", UNCHANGED <<stack, jmplist>>,
         varlist' \in Seq(Binding), Len(varlist') = Len(varlist),
         mode' \in Modes \ {"idle"}, diemsg' \in Msgs \cup {NoMsg}, unsaved' \in BOOLEAN,
         jmplist # <<>> /\ jmplist[1] = Unfilled => mode' \in {"raise", "badjump"}
  PROVE  IInv'
<1> USE DEF IInv
<1>1. TypeOK' /\ ModuleOutermost'
  BY DEF TypeOK, ModuleOutermost
<1>2. ScopesNested'
  BY DEF ScopesNested, Own
<1>3. Buffers'
  BY DEF Buffers, OnlyFirstUnfilled, BuffersLive, BuffersOrdered, SavesListed, Saving
<1> QED  BY <1>1, <1>2, <1>3

(* A frame that is neither a file, a function nor a save is added.         *)
LEMMA PushKeeps ==
  ASSUME IInv, mode = "run", NEW kind \in {"args", "if", "each", "while"},
         Push(Frame(kind, Top.base)), UNCHANGED <<mode, varlist, jmplist, diemsg, unsaved>>
  PROVE  IInv'
<1> USE DEF IInv
<1> DEFINE n == Len(stack)
<1>1. stack # <<>> /\ n \in Nat /\ n >= 1 /\ Top = stack[n]
      /\ \A i \in 1 .. n : stack[i].base \in Nat
  BY StackTyped DEF ModuleOutermost, Top
<1>2. Frame(kind, Top.base) \in FrameType /\ Frame(kind, Top.base).kind = kind
      /\ Frame(kind, Top.base).base = Top.base
  BY <1>1, FrameTyped DEF Kinds
<1>3. /\ stack' \in Seq(FrameType) /\ stack' # <<>> /\ Len(stack') = n + 1
      /\ stack'[n + 1].kind = kind /\ stack'[n + 1].base = stack[n].base
      /\ \A i \in 1 .. n : stack'[i] = stack[i]
  BY <1>1, <1>2, PushFacts
<1>4. TypeOK'
  BY <1>3 DEF TypeOK
<1>5. ModuleOutermost'
  BY <1>1, <1>3 DEF ModuleOutermost
<1>6. ScopesNested'
  <2>1. Len(varlist) >= 1 /\ \A i \in 1 .. n + 1 : stack'[i].base \in 1 .. Len(varlist)
    BY <1>1, <1>3 DEF ScopesNested
  <2>2. ASSUME NEW i \in 1 .. n + 1, Own(i)'
        PROVE  i \in 1 .. n /\ Own(i)
    BY <1>1, <1>3, <2>2 DEF Own
  <2>3. ASSUME NEW i \in 1 .. n, Own(i)
        PROVE  stack'[i].base >= 2 /\ \A j \in 1 .. i - 1 : stack'[j].base < stack'[i].base
    BY <1>1, <1>3, <2>3 DEF ScopesNested
  <2> QED  BY <1>3, <2>1, <2>2, <2>3 DEF ScopesNested
<1>7. Buffers'
  <2>1. OnlyFirstUnfilled' /\ BuffersOrdered'
    BY DEF Buffers, OnlyFirstUnfilled, BuffersOrdered
  <2>2. BuffersLive'
    BY <1>1, <1>3 DEF Buffers, BuffersLive, Saving
  <2>3. \A k \in 1 .. n + 1 : Saving(k)' => k \in 1 .. n /\ Saving(k)
    BY <1>1, <1>3 DEF Saving
  <2>4. SavesListed'
    BY <1>3, <2>3 DEF Buffers, SavesListed
  <2> QED  BY <2>1, <2>2, <2>4 DEF Buffers
<1> QED  BY <1>4, <1>5, <1>6, <1>7

(* The innermost frame goes, which is no save; a scope goes only with a    *)
(* frame that brought one.                                                 *)
LEMMA PopKeeps ==
  ASSUME IInv, stack # <<>>, mode \in {"value", "null"}, Pop, ~Saving(Len(stack)),
         varlist' \in Seq(Binding),
         \/ Len(varlist') >= Len(varlist)
         \/ Own(Len(stack)) /\ Len(varlist') = Len(varlist) - 1,
         Top.kind = "module" => mode' = "idle",
         Top.kind # "module" => mode' \in {mode, "null"},
         UNCHANGED <<jmplist, diemsg, unsaved>>
  PROVE  IInv'
<1> USE DEF IInv
<1> DEFINE n == Len(stack)
<1>1. n \in Nat /\ n >= 1 /\ Top = stack[n] /\ n - 1 \in 0 .. n
  BY StackTyped DEF Top
<1>2. /\ stack' \in Seq(FrameType) /\ Len(stack') = n - 1
      /\ stack' = <<>> <=> n - 1 = 0
      /\ \A i \in 1 .. n - 1 : stack'[i] = stack[i]
  BY <1>1, CutFacts DEF Pop
<1>3. Top.kind = "module" <=> n = 1
  <2>1. n \in 1 .. n
    BY <1>1
  <2> QED  BY <1>1, <2>1 DEF ModuleOutermost
<1>4. TypeOK' /\ (mode' = "idle" <=> n = 1)
  BY <1>2, <1>3 DEF TypeOK, Modes
<1>5. ModuleOutermost'
  BY <1>1, <1>2, <1>4 DEF ModuleOutermost
<1>6. ScopesNested'
  <2>1. Len(varlist) \in Nat /\ Len(varlist') \in Nat /\ Len(varlist) >= 1
        /\ \A i \in 1 .. n : stack[i].base \in 1 .. Len(varlist)
    BY LenProperties DEF TypeOK, ScopesNested
  <2>2. Own(n) => /\ Len(varlist) >= 2
                  /\ \A i \in 1 .. n - 1 : stack[i].base < stack[n].base
    BY <1>1, <2>1 DEF ScopesNested
  <2>3. Len(varlist') >= 1 /\ \A i \in 1 .. n - 1 : stack[i].base \in 1 .. Len(varlist')
    BY <1>1, <2>1, <2>2
  <2>4. ASSUME NEW i \in 1 .. n - 1, Own(i)'
        PROVE  stack'[i].base >= 2 /\ \A j \in 1 .. i - 1 : stack'[j].base < stack'[i].base
    <3>1. i \in 1 .. n /\ Own(i)
      BY <1>1, <1>2, <2>4 DEF Own
    <3>2. stack[i].base >= 2 /\ \A j \in 1 .. i - 1 : stack[j].base < stack[i].base
      BY <3>1 DEF ScopesNested
    <3>3. \A j \in 1 .. i - 1 : stack'[j] = stack[j]
      BY <1>1, <1>2, <3>1
    <3> QED  BY <1>2, <2>4, <3>2, <3>3
  <2> QED  BY <1>2, <2>3, <2>4 DEF ScopesNested
<1>7. Buffers'
  <2>1. jmplist = <<>> \/ jmplist[1] # Unfilled
    BY DEF Buffers, OnlyFirstUnfilled
  <2>2. \A i \in 1 .. n : Saving(i) => i \in 1 .. n - 1 /\ Saving(i)'
    BY <1>1, <1>2 DEF Saving
  <2>3. \A i \in 1 .. n - 1 : Saving(i)' => Saving(i)
    BY <1>2 DEF Saving
  <2>4. OnlyFirstUnfilled' /\ BuffersOrdered'
    BY <2>1 DEF Buffers, OnlyFirstUnfilled, BuffersOrdered
  <2>5. BuffersLive'
    BY <1>2, <2>2 DEF Buffers, BuffersLive
  <2>6. SavesListed'
    BY <1>1, <1>2, <2>3 DEF Buffers, SavesListed
  <2> QED  BY <2>4, <2>5, <2>6 DEF Buffers
<1> QED  BY <1>4, <1>5, <1>6, <1>7

(* The innermost saveDef goes, with all frames within it, and takes its    *)
(* buffer with it.                                                         *)
LEMMA SaveGoesKeeps ==
  ASSUME IInv, jmplist # <<>>, jmplist[1] # Unfilled,
         stack' = SubSeq(stack, 1, jmplist[1] - 1), jmplist' = Tail(jmplist),
         varlist' \in Seq(Binding), Len(varlist') = Len(varlist),
         mode' \in {"value", "null", "raise"}, UNCHANGED <<diemsg, unsaved>>
  PROVE  IInv'
<1> USE DEF IInv
<1> DEFINE n == jmplist[1] - 1
<1>1. Len(stack) \in Nat /\ jmplist[1] \in Nat /\ n \in 1 .. Len(stack) - 1
      /\ \A k \in 1 .. Len(stack) : Saving(k) => k <= n + 1
  BY FirstBufferInnermost, StackTyped
<1>2. /\ stack' \in Seq(FrameType) /\ Len(stack') = n /\ stack' # <<>>
      /\ \A i \in 1 .. n : stack'[i] = stack[i]
  <2>1. n \in 0 .. Len(stack) /\ n # 0
    BY <1>1
  <2> QED  BY <2>1, CutFacts
<1>3. /\ jmplist' \in Seq(Nat) /\ Len(jmplist') = Len(jmplist) - 1
      /\ Len(jmplist) \in Nat /\ Len(jmplist) >= 1
      /\ \A i \in 1 .. Len(jmplist) - 1 : jmplist'[i] = jmplist[i + 1]
  BY TailFacts DEF TypeOK
<1>4. TypeOK' /\ mode' # "idle"
  BY <1>2, <1>3 DEF TypeOK, Modes
<1>5. ModuleOutermost'
  <2>1. mode' # "idle"
    BY <1>4
  <2>2. \A i \in 1 .. n : i \in 1 .. Len(stack)
    BY <1>1
  <2> QED  BY <1>2, <2>1, <2>2 DEF ModuleOutermost
<1>6. ScopesNested'
  <2>1. \A i \in 1 .. n : i \in 1 .. Len(stack)
    BY <1>1
  <2>2. \A i \in 1 .. n : Own(i)' => Own(i) /\ \A j \in 1 .. i - 1 : j \in 1 .. n
    BY <1>1, <1>2 DEF Own
  <2> QED  BY <1>2, <2>1, <2>2 DEF ScopesNested
<1>7. OnlyFirstUnfilled'
  BY <1>3, EmptySeq DEF Buffers, OnlyFirstUnfilled
<1>8. \A i \in 1 .. Len(jmplist) - 1 : jmplist[i + 1] # Unfilled /\ jmplist[i + 1] \in 1 .. n
  <2> SUFFICES ASSUME NEW i \in 1 .. Len(jmplist) - 1
               PROVE  jmplist[i + 1] # Unfilled /\ jmplist[i + 1] \in 1 .. n
    OBVIOUS
  <2>1. i + 1 \in 2 .. Len(jmplist) /\ 1 \in 1 .. Len(jmplist)
    BY <1>3
  <2>2. jmplist[i + 1] # Unfilled /\ jmplist[i + 1] \in 1 .. Len(stack)
    BY <2>1 DEF Buffers, OnlyFirstUnfilled, BuffersLive
  <2>3. jmplist[1] > jmplist[i + 1]
    BY <2>1 DEF Buffers, BuffersOrdered
  <2> QED  BY <1>1, <2>2, <2>3
<1>9. BuffersLive'
  <2> SUFFICES ASSUME NEW i \in 1 .. Len(jmplist) - 1
               PROVE  jmplist'[i] \in 1 .. n /\ stack'[jmplist'[i]].kind \in {"save", "handler"}
    BY <1>2, <1>3 DEF BuffersLive, Saving
  <2>1. jmplist'[i] = jmplist[i + 1] /\ jmplist[i + 1] \in 1 .. n /\ jmplist[i + 1] # Unfilled
    BY <1>3, <1>8
  <2>2. i + 1 \in 1 .. Len(jmplist)
    BY <1>3
  <2>3. Saving(jmplist[i + 1])
    BY <2>1, <2>2 DEF Buffers, BuffersLive
  <2> QED  BY <1>2, <2>1, <2>3 DEF Saving
<1>10. BuffersOrdered'
  BY <1>3 DEF Buffers, BuffersOrdered
<1>11. SavesListed'
  <2> SUFFICES ASSUME NEW k \in 1 .. n, Saving(k)
               PROVE  \E i \in 1 .. Len(jmplist) - 1 : jmplist[i + 1] = k
    BY <1>2, <1>3 DEF SavesListed, Saving
  <2>0. k \in 1 .. Len(stack)
    BY <1>1
  <2>1. PICK j \in 1 .. Len(jmplist) : jmplist[j] = k
    BY <2>0 DEF Buffers, SavesListed
  <2>2. j # 1 /\ j - 1 \in 1 .. Len(jmplist) - 1 /\ (j - 1) + 1 = j
    BY <1>1, <1>3, <2>1
  <2> QED  BY <2>1, <2>2
<1> QED  BY <1>4, <1>5, <1>6, <1>7, <1>9, <1>10, <1>11 DEF Buffers

-----------------------------------------------------------------------------
(* Initiation, and the steps that are not of such a shape.                 *)

LEMMA InitInv == Init => IInv
<1> SUFFICES ASSUME Init PROVE IInv
  OBVIOUS
<1>1. TypeOK
  <2>1. stack \in Seq(FrameType) /\ jmplist \in Seq(Nat)
    BY EmptySeq DEF Init
  <2>2. varlist \in Seq(Binding)
    BY DEF Init, Binding
  <2> QED  BY <2>1, <2>2 DEF Init, TypeOK, Modes
<1>2. Len(stack) = 0 /\ Len(jmplist) = 0 /\ Len(varlist) = 1
  BY DEF Init
<1>3. ModuleOutermost /\ ScopesNested
  BY <1>2 DEF Init, ModuleOutermost, ScopesNested
<1>4. Buffers
  BY <1>2 DEF Init, Buffers, OnlyFirstUnfilled, BuffersLive, BuffersOrdered, SavesListed
<1> QED  BY <1>1, <1>3, <1>4 DEF IInv

LEMMA ImportInv ==
  ASSUME IInv, Import PROVE IInv'
<1> USE DEF IInv
<1>1. stack = <<>> /\ Len(stack) = 0
  BY DEF Import, ModuleOutermost
<1>2. Len(varlist) \in Nat /\ Len(varlist) >= 1
  BY LenProperties DEF TypeOK, ScopesNested
<1>3. varlist' \in Seq(Binding) /\ Len(varlist') = Len(varlist) + 1
  BY AddScopeFacts DEF Import
<1> DEFINE f == Frame("module", Len(varlist) + 1)
<1>4. f \in FrameType /\ f.kind = "module" /\ f.base = Len(varlist) + 1
  BY <1>2, FrameTyped DEF Kinds
<1>5. /\ stack' \in Seq(FrameType) /\ stack' # <<>> /\ Len(stack') = 1
      /\ stack'[1].kind = "module" /\ stack'[1].base = Len(varlist) + 1
  BY <1>1, <1>4, PushFacts DEF Import
<1>6. jmplist = <<>>
  <2>1. Len(jmplist) = 0
    <3> SUFFICES ASSUME Len(jmplist) # 0 PROVE FALSE
      OBVIOUS
    <3>1. Len(jmplist) \in Nat /\ 1 \in 1 .. Len(jmplist)
      BY LenProperties DEF TypeOK
    <3>2. jmplist[1] # Unfilled
      BY <3>1 DEF Import, Buffers, OnlyFirstUnfilled
    <3> QED  BY <1>1, <3>1, <3>2 DEF Buffers, BuffersLive
  <2> QED  BY <2>1, EmptySeq DEF TypeOK
<1>7. TypeOK' /\ ModuleOutermost'
  BY <1>3, <1>5 DEF Import, TypeOK, Modes, ModuleOutermost
<1>8. ScopesNested'
  BY <1>2, <1>3, <1>5 DEF ScopesNested
<1>9. Buffers'
  BY <1>5, <1>6 DEF Import, Buffers, OnlyFirstUnfilled, BuffersLive, BuffersOrdered, SavesListed, Saving
<1> QED  BY <1>7, <1>8, <1>9

LEMMA EnterFunctionInv ==
  ASSUME IInv, EnterFunction PROVE IInv'
<1> USE DEF IInv
<1> DEFINE n == Len(stack)
<1>1. n \in Nat /\ n >= 1 /\ stack # <<>> /\ stack[n].kind = "args"
  BY StackTyped DEF EnterFunction, In, Top
<1>2. Len(varlist) \in Nat /\ Len(varlist) >= 1
  BY LenProperties DEF TypeOK, ScopesNested
<1>3. varlist' \in Seq(Binding) /\ Len(varlist') = Len(varlist) + 1
  BY AddScopeFacts DEF EnterFunction
<1> DEFINE f == Frame("func", Len(varlist) + 1)
<1>4. f \in FrameType /\ f.kind = "func" /\ f.base = Len(varlist) + 1
  BY <1>2, FrameTyped DEF Kinds
<1>5. /\ stack' \in Seq(FrameType) /\ stack' # <<>> /\ Len(stack') = n
      /\ stack'[n].kind = "func" /\ stack'[n].base = Len(varlist) + 1
      /\ \A i \in 1 .. n - 1 : stack'[i] = stack[i]
  BY <1>1, <1>4, SetTopFacts DEF EnterFunction
<1>6. TypeOK'
  BY <1>3, <1>5 DEF EnterFunction, TypeOK, Modes
<1>7. ModuleOutermost'
  <2>1. stack' # <<>> /\ mode' # "idle"
    BY <1>5 DEF EnterFunction
  <2>2. n # 1
    BY <1>1 DEF ModuleOutermost
  <2>3. \A i \in 1 .. n : stack'[i].kind = "module" <=> i = 1
    BY <1>1, <1>5, <2>2 DEF ModuleOutermost
  <2> QED  BY <1>5, <2>1, <2>3 DEF ModuleOutermost
<1>8. ScopesNested'
  <2>1. \A i \in 1 .. n - 1 : stack'[i].base \in 1 .. Len(varlist)
    BY <1>1, <1>5 DEF ScopesNested
  <2>2. \A i \in 1 .. n : stack'[i].base \in 1 .. Len(varlist')
    BY <1>1, <1>2, <1>3, <1>5, <2>1
  <2>3. ASSUME NEW i \in 1 .. n - 1, Own(i)'
        PROVE  stack'[i].base >= 2 /\ \A j \in 1 .. i - 1 : stack'[j].base < stack'[i].base
    <3>1. i \in 1 .. n /\ Own(i)
      BY <1>1, <1>5, <2>3 DEF Own
    <3>2. stack[i].base >= 2 /\ \A j \in 1 .. i - 1 : stack[j].base < stack[i].base
      BY <3>1 DEF ScopesNested
    <3>3. \A j \in 1 .. i - 1 : stack'[j] = stack[j]
      BY <1>1, <1>5, <3>1
    <3> QED  BY <1>5, <2>3, <3>2, <3>3
  <2>4. stack'[n].base >= 2 /\ \A j \in 1 .. n - 1 : stack'[j].base < stack'[n].base
    BY <1>2, <1>5, <2>1
  <2> QED  BY <1>1, <1>2, <1>3, <1>5, <2>2, <2>3, <2>4 DEF ScopesNested
<1>9. Buffers'
  <2>1. \A k \in 1 .. n : Saving(k)' <=> Saving(k)
    BY <1>1, <1>5 DEF Saving
  <2>2. jmplist' = jmplist /\ (jmplist = <<>> \/ jmplist[1] # Unfilled)
    BY DEF EnterFunction, Buffers, OnlyFirstUnfilled
  <2>3. OnlyFirstUnfilled' /\ BuffersOrdered'
    BY <2>2 DEF Buffers, OnlyFirstUnfilled, BuffersOrdered
  <2>4. BuffersLive'
    BY <1>5, <2>1, <2>2 DEF Buffers, BuffersLive
  <2>5. SavesListed'
    BY <1>5, <2>1, <2>2 DEF Buffers, SavesListed
  <2> QED  BY <2>3, <2>4, <2>5 DEF Buffers
<1> QED  BY <1>6, <1>7, <1>8, <1>9

(* A buffer is added in front.                                             *)
LEMMA ConsFacts ==
  ASSUME TypeOK, NEW b \in Nat, jmplist' = <<b>> \o jmplist
  PROVE  /\ jmplist' \in Seq(Nat) /\ jmplist' # <<>>
         /\ Len(jmplist) \in Nat /\ Len(jmplist') = Len(jmplist) + 1 /\ jmplist'[1] = b
         /\ \A i \in 2 .. Len(jmplist) + 1 : i - 1 \in 1 .. Len(jmplist) /\ jmplist'[i] = jmplist[i - 1]
<1>1. <<b>> \in Seq(Nat) /\ Len(<<b>>) = 1 /\ <<b>>[1] = b
  OBVIOUS
<1>2. jmplist \in Seq(Nat) /\ Len(jmplist) \in Nat
  BY LenProperties DEF TypeOK
<1>3. /\ jmplist' \in Seq(Nat) /\ Len(jmplist') = 1 + Len(jmplist)
      /\ \A i \in 1 .. 1 + Len(jmplist) : jmplist'[i] = IF i <= 1 THEN <<b>>[i] ELSE jmplist[i - 1]
  BY <1>1, <1>2, ConcatProperties
<1> QED  BY <1>1, <1>2, <1>3

LEMMA SaveInv ==
  ASSUME IInv, Save PROVE IInv'
<1> USE DEF IInv
<1> DEFINE n == Len(stack)
<1>1. stack # <<>> /\ n \in Nat /\ n >= 1 /\ Top = stack[n] /\ stack[n].base \in Nat
  BY StackTyped DEF Save, ModuleOutermost, Top
<1> DEFINE f == Frame("save", Top.base)
<1>2. f \in FrameType /\ f.kind = "save" /\ f.base = stack[n].base
  BY <1>1, FrameTyped DEF Kinds
<1>3. /\ stack' \in Seq(FrameType) /\ stack' # <<>> /\ Len(stack') = n + 1
      /\ stack'[n + 1].kind = "save" /\ stack'[n + 1].base = stack[n].base
      /\ \A i \in 1 .. n : stack'[i] = stack[i]
  BY <1>1, <1>2, PushFacts DEF Save
<1>4. /\ jmplist' \in Seq(Nat) /\ jmplist' # <<>>
      /\ Len(jmplist) \in Nat /\ Len(jmplist') = Len(jmplist) + 1 /\ jmplist'[1] = n + 1
      /\ \A i \in 2 .. Len(jmplist) + 1 : i - 1 \in 1 .. Len(jmplist) /\ jmplist'[i] = jmplist[i - 1]
  BY <1>1, ConsFacts DEF Save
<1>5. TypeOK' /\ ModuleOutermost'
  <2>1. TypeOK'
    BY <1>3, <1>4 DEF Save, TypeOK
  <2>2. stack' # <<>> /\ mode' # "idle"
    BY <1>3 DEF Save
  <2>3. \A i \in 1 .. n + 1 : stack'[i].kind = "module" <=> i = 1
    BY <1>1, <1>3 DEF ModuleOutermost
  <2> QED  BY <1>3, <2>1, <2>2, <2>3 DEF ModuleOutermost
<1>6. ScopesNested'
  <2>1. Len(varlist) >= 1 /\ \A i \in 1 .. n + 1 : stack'[i].base \in 1 .. Len(varlist)
    BY <1>1, <1>3 DEF ScopesNested
  <2>2. ASSUME NEW i \in 1 .. n + 1, Own(i)'
        PROVE  i \in 1 .. n /\ Own(i)
    BY <1>1, <1>3, <2>2 DEF Own
  <2>3. ASSUME NEW i \in 1 .. n, Own(i)
        PROVE  stack'[i].base >= 2 /\ \A j \in 1 .. i - 1 : stack'[j].base < stack'[i].base
    BY <1>1, <1>3, <2>3 DEF ScopesNested
  <2> QED  BY <1>3, <2>1, <2>2, <2>3 DEF Save, ScopesNested
<1>7. \A i \in 1 .. Len(jmplist) : jmplist[i] # Unfilled /\ jmplist[i] \in 1 .. n /\ Saving(jmplist[i])
  BY <1>4 DEF Save, Buffers, OnlyFirstUnfilled, BuffersLive
<1>8. OnlyFirstUnfilled'
  BY <1>1, <1>4, <1>7 DEF OnlyFirstUnfilled, Unfilled
<1>9. BuffersLive'
  <2> SUFFICES ASSUME NEW i \in 1 .. Len(jmplist) + 1
               PROVE  jmplist'[i] \in 1 .. n + 1 /\ stack'[jmplist'[i]].kind \in {"save", "handler"}
    BY <1>3, <1>4 DEF BuffersLive, Saving
  <2>1. CASE i = 1
    BY <1>1, <1>3, <1>4, <2>1
  <2>2. CASE i # 1
    <3>1. jmplist'[i] = jmplist[i - 1] /\ i - 1 \in 1 .. Len(jmplist)
      BY <1>4, <2>2
    <3> QED  BY <1>1, <1>3, <1>7, <3>1 DEF Saving
  <2> QED  BY <2>1, <2>2
<1>10. BuffersOrdered'
  <2> SUFFICES ASSUME NEW i \in 1 .. Len(jmplist) + 1, NEW j \in 1 .. Len(jmplist) + 1, i < j
               PROVE  jmplist'[i] > jmplist'[j]
    BY <1>4 DEF BuffersOrdered
  <2>1. jmplist'[j] = jmplist[j - 1] /\ j - 1 \in 1 .. Len(jmplist)
    BY <1>4
  <2>2. CASE i = 1
    BY <1>1, <1>4, <1>7, <2>1, <2>2
  <2>3. CASE i # 1
    <3>1. i - 1 \in 1 .. Len(jmplist) /\ i - 1 < j - 1
      BY <2>1, <2>3
    <3>2. i \in 2 .. Len(jmplist) + 1
      BY <1>4, <2>3
    <3>3. jmplist'[i] = jmplist[i - 1]
      BY <1>4, <3>2
    <3> QED  BY <1>7, <2>1, <3>1, <3>3 DEF Buffers, BuffersOrdered
  <2> QED  BY <2>2, <2>3
<1>11. SavesListed'
  <2> SUFFICES ASSUME NEW k \in 1 .. n + 1, Saving(k)'
               PROVE  \E i \in 1 .. Len(jmplist) + 1 : jmplist'[i] = k
    BY <1>3, <1>4 DEF SavesListed
  <2>1. CASE k = n + 1
    BY <1>4, <2>1
  <2>2. CASE k # n + 1
    <3>1. k \in 1 .. n /\ Saving(k)
      BY <1>1, <1>3, <2>2 DEF Saving
    <3>2. PICK i \in 1 .. Len(jmplist) : jmplist[i] = k
      BY <3>1 DEF Buffers, SavesListed
    <3>3. i + 1 \in 2 .. Len(jmplist) + 1 /\ (i + 1) - 1 = i
      BY <1>4
    <3>4. jmplist'[i + 1] = k
      BY <1>4, <3>2, <3>3
    <3>5. i + 1 \in 1 .. Len(jmplist) + 1
      BY <3>3
    <3> QED  BY <3>4, <3>5
  <2> QED  BY <2>1, <2>2
<1> QED  BY <1>5, <1>6, <1>8, <1>9, <1>10, <1>11 DEF Buffers

LEMMA SaveWithoutArgumentsInv ==
  ASSUME IInv, NEW m \in Msgs, SaveWithoutArguments(m) PROVE IInv'
<1> USE DEF IInv
<1>1. /\ jmplist' \in Seq(Nat) /\ jmplist' # <<>>
      /\ Len(jmplist) \in Nat /\ Len(jmplist') = Len(jmplist) + 1 /\ jmplist'[1] = Unfilled
      /\ \A i \in 2 .. Len(jmplist) + 1 : i - 1 \in 1 .. Len(jmplist) /\ jmplist'[i] = jmplist[i - 1]
  BY ConsFacts DEF SaveWithoutArguments, Unfilled
<1>2. TypeOK' /\ ModuleOutermost' /\ ScopesNested'
  BY <1>1 DEF SaveWithoutArguments, TypeOK, Modes, ModuleOutermost, ScopesNested, Own
<1>3. \A i \in 1 .. Len(jmplist) : jmplist[i] # Unfilled /\ jmplist[i] \in 1 .. Len(stack) /\ Saving(jmplist[i])
  BY <1>1 DEF SaveWithoutArguments, Buffers, OnlyFirstUnfilled, BuffersLive
<1>4. OnlyFirstUnfilled'
  BY <1>1, <1>3 DEF SaveWithoutArguments, OnlyFirstUnfilled
<1>5. BuffersLive'
  BY <1>1, <1>3 DEF SaveWithoutArguments, BuffersLive, Saving
<1>6. BuffersOrdered'
  <2> SUFFICES ASSUME NEW i \in 2 .. Len(jmplist) + 1, NEW j \in 1 .. Len(jmplist) + 1, i < j
               PROVE  jmplist'[i] > jmplist'[j]
    BY <1>1 DEF BuffersOrdered
  <2>1. /\ jmplist'[i] = jmplist[i - 1] /\ i - 1 \in 1 .. Len(jmplist)
        /\ jmplist'[j] = jmplist[j - 1] /\ j - 1 \in 1 .. Len(jmplist) /\ i - 1 < j - 1
    BY <1>1
  <2> QED  BY <1>3, <2>1 DEF Buffers, BuffersOrdered
<1>7. SavesListed'
  <2> SUFFICES ASSUME NEW k \in 1 .. Len(stack), Saving(k)
               PROVE  \E i \in 1 .. Len(jmplist) + 1 : jmplist'[i] = k
    BY <1>1 DEF SaveWithoutArguments, SavesListed, Saving
  <2>1. PICK i \in 1 .. Len(jmplist) : jmplist[i] = k
    BY DEF Buffers, SavesListed
  <2>2. i + 1 \in 2 .. Len(jmplist) + 1 /\ (i + 1) - 1 = i
    BY <1>1
  <2>3. jmplist'[i + 1] = k
    BY <1>1, <2>1, <2>2
  <2> QED  BY <1>1, <2>2, <2>3
<1> QED  BY <1>2, <1>4, <1>5, <1>6, <1>7 DEF Buffers

(* The C stack is cut back to the save that catches the error, whose frame *)
(* is the handler's from now on.                                           *)
LEMMA UnwoundFacts ==
  ASSUME IInv, RunHandler
  PROVE  /\ jmplist[1] \in 2 .. Len(stack) /\ Len(stack) \in Nat
         /\ stack' \in Seq(FrameType) /\ stack' # <<>> /\ Len(stack') = jmplist[1]
         /\ \A i \in 1 .. jmplist[1] : stack'[i].kind = (IF i = jmplist[1] THEN "handler" ELSE stack[i].kind)
         /\ \A i \in 1 .. jmplist[1] : stack'[i].base = stack[i].base
<1> USE DEF IInv
<1> DEFINE n == jmplist[1]
<1>1. n \in 2 .. Len(stack) /\ Len(stack) \in Nat /\ Target = stack[n]
      /\ \A i \in 1 .. Len(stack) : stack[i] \in FrameType /\ stack[i].base \in Nat
  BY FirstBufferInnermost, StackTyped DEF RunHandler, Target
<1> DEFINE f == HandlerFrame(Target.base, diemsg, Target.kind = "handler")
<1>2. f \in FrameType /\ f.kind = "handler" /\ f.base = stack[n].base
  <2>1. diemsg \in Msgs /\ Target.base \in Nat /\ (Target.kind = "handler") \in BOOLEAN
    BY <1>1 DEF RunHandler, TypeOK
  <2> QED  BY <1>1, <2>1, FrameTyped
<1>3. stack' = [i \in 1 .. n |-> IF i = n THEN f ELSE stack[i]]
  BY DEF RunHandler, Unwound
<1> HIDE DEF f
<1>4. n \in Nat /\ stack' \in [1 .. n -> FrameType]
  BY <1>1, <1>2, <1>3
<1>5. stack' \in Seq(FrameType) /\ Len(stack') = n /\ stack' # <<>>
  BY <1>1, <1>4, EmptySeq
<1> QED  BY <1>1, <1>2, <1>3, <1>5

LEMMA RunHandlerInv ==
  ASSUME IInv, RunHandler PROVE IInv'
<1> USE DEF IInv
<1> DEFINE n == jmplist[1]
<1>1. /\ n \in 2 .. Len(stack) /\ Len(stack) \in Nat
      /\ stack' \in Seq(FrameType) /\ stack' # <<>> /\ Len(stack') = n
      /\ \A i \in 1 .. n : stack'[i].kind = (IF i = n THEN "handler" ELSE stack[i].kind)
      /\ \A i \in 1 .. n : stack'[i].base = stack[i].base
  BY UnwoundFacts
<1>2. Saving(n) /\ \A k \in 1 .. Len(stack) : Saving(k) => k <= n
  BY FirstBufferInnermost DEF RunHandler
<1>3. varlist' \in Seq(Binding) /\ Len(varlist') = Len(varlist) /\ jmplist' = jmplist
  BY BindFacts DEF RunHandler, TypeOK, Binding
<1>4. TypeOK'
  BY <1>1, <1>3 DEF RunHandler, TypeOK, Modes
<1>5. ModuleOutermost'
  <2>1. stack' # <<>> /\ mode' # "idle"
    BY <1>1 DEF RunHandler
  <2>2. \A i \in 1 .. n : stack'[i].kind = "module" <=> i = 1
    BY <1>1 DEF ModuleOutermost
  <2> QED  BY <1>1, <2>1, <2>2 DEF ModuleOutermost
<1>6. ScopesNested'
  <2>1. Len(varlist) >= 1 /\ \A i \in 1 .. n : stack'[i].base \in 1 .. Len(varlist)
    BY <1>1 DEF ScopesNested
  <2>2. ASSUME NEW i \in 1 .. n, Own(i)'
        PROVE  stack'[i].base >= 2 /\ \A j \in 1 .. i - 1 : stack'[j].base < stack'[i].base
    <3>1. i \in 1 .. Len(stack) /\ Own(i)
      BY <1>1, <2>2 DEF Own
    <3>2. stack[i].base >= 2 /\ \A j \in 1 .. i - 1 : stack[j].base < stack[i].base
      BY <3>1 DEF ScopesNested
    <3>3. \A j \in 1 .. i - 1 : stack'[j].base = stack[j].base
      BY <1>1, <3>1
    <3> QED  BY <1>1, <2>2, <3>2, <3>3
  <2> QED  BY <1>1, <1>3, <2>1, <2>2 DEF ScopesNested
<1>7. \A k \in 1 .. n : Saving(k)' <=> Saving(k)
  BY <1>1, <1>2 DEF Saving
<1>8. OnlyFirstUnfilled' /\ BuffersOrdered'
  BY <1>3 DEF RunHandler, Buffers, OnlyFirstUnfilled, BuffersOrdered
<1>9. BuffersLive'
  <2> SUFFICES ASSUME NEW i \in 1 .. Len(jmplist), jmplist[i] # Unfilled
               PROVE  jmplist[i] \in 1 .. n /\ Saving(jmplist[i])'
    BY <1>1, <1>3 DEF BuffersLive
  <2>1. jmplist[i] \in 1 .. Len(stack) /\ Saving(jmplist[i])
    BY DEF Buffers, BuffersLive
  <2>2. jmplist[i] \in 1 .. n
    BY <1>1, <1>2, <2>1
  <2>3. stack'[jmplist[i]].kind \in {"save", "handler"}
    BY <1>7, <2>1, <2>2 DEF Saving
  <2> QED  BY <1>3, <2>2, <2>3 DEF Saving
<1>10. SavesListed'
  BY <1>1, <1>3, <1>7 DEF Buffers, SavesListed
<1> QED  BY <1>4, <1>5, <1>6, <1>8, <1>9, <1>10 DEF Buffers

-----------------------------------------------------------------------------
(* All steps.                                                              *)

LEMMA StayingSteps ==
  ASSUME IInv,
         \/ NextStatement \/ SetErrorName \/ \E m \in {"value", "null"} : Builtin(m)
         \/ NextArgument \/ Iterate \/ \E m \in Msgs \cup {diemsg} : Die(m)
         \/ RecoverNowhere \/ FatalJump \/ ErrorNameLost
  PROVE  IInv'
<1> USE DEF IInv
<1>1. jmplist # <<>> /\ jmplist[1] = Unfilled => mode \in {"raise", "badjump"}
  BY DEF Buffers, OnlyFirstUnfilled
<1>2. mode # "idle" /\ UNCHANGED <<stack, jmplist>>
  BY DEF NextStatement, SetErrorName, Builtin, NextArgument, Iterate, Die, RecoverNowhere,
         FatalJump, ErrorNameLost
<1>3. varlist' \in Seq(Binding) /\ Len(varlist') = Len(varlist)
  <2>1. CASE SetErrorName
    BY <2>1, BindFacts DEF SetErrorName, Binding
  <2>2. CASE varlist' = varlist
    BY <2>2 DEF TypeOK
  <2> QED
    BY <2>1, <2>2 DEF NextStatement, Builtin, NextArgument, Iterate, Die, RecoverNowhere,
                      FatalJump, ErrorNameLost
<1>4. mode' \in Modes \ {"idle"}
  BY DEF NextStatement, SetErrorName, Builtin, NextArgument, Iterate, Die, RecoverNowhere,
         FatalJump, ErrorNameLost, Modes
<1>5. diemsg' \in Msgs \cup {NoMsg} /\ unsaved' \in BOOLEAN
  BY DEF NextStatement, SetErrorName, Builtin, NextArgument, Iterate, Die, RecoverNowhere,
         FatalJump, ErrorNameLost, TypeOK
<1>6. jmplist # <<>> /\ jmplist[1] = Unfilled => mode' \in {"raise", "badjump"}
  BY <1>1 DEF NextStatement, SetErrorName, Builtin, NextArgument, Iterate, Die, RecoverNowhere,
         FatalJump, ErrorNameLost
<1> QED  BY <1>2, <1>3, <1>4, <1>5, <1>6, StayKeeps

LEMMA PoppingSteps ==
  ASSUME IInv,
         ImportDone \/ ArgumentFails \/ FunctionReturns \/ FunctionFails \/ LeaveLoop \/ LeaveIf
  PROVE  IInv'
<1> USE DEF IInv
<1>1. stack # <<>> /\ Top = stack[Len(stack)] /\ mode \in {"value", "null"} /\ Pop
      /\ ~Saving(Len(stack)) /\ UNCHANGED <<jmplist, diemsg, unsaved>>
  BY DEF ImportDone, ArgumentFails, FunctionReturns, FunctionFails, LeaveLoop, LeaveIf,
         In, Top, Saving
<1>2. /\ Top.kind = "module" => mode' = "idle"
      /\ Top.kind # "module" => mode' \in {mode, "null"}
  BY DEF ImportDone, ArgumentFails, FunctionReturns, FunctionFails, LeaveLoop, LeaveIf, In
<1>3. varlist # <<>> /\ varlist \in Seq(Binding) /\ Len(varlist) \in Nat
  BY LenProperties, EmptySeq DEF TypeOK, ScopesNested
<1>4. /\ varlist' \in Seq(Binding)
      /\ \/ Len(varlist') >= Len(varlist)
         \/ Own(Len(stack)) /\ Len(varlist') = Len(varlist) - 1
  <2>1. CASE ImportDone \/ FunctionReturns
    <3>1. Own(Len(stack)) /\ varlist' = Tail(varlist)
      BY <2>1 DEF ImportDone, FunctionReturns, In, Top, Own
    <3> QED  BY <1>3, <3>1, TailFacts
  <2>2. CASE ArgumentFails
    <3>1. varlist' \in Seq(Binding) /\ Len(varlist') = Len(varlist) + 1
      BY <2>2, AddScopeFacts DEF ArgumentFails
    <3> QED  BY <1>3, <3>1
  <2>3. CASE FunctionFails \/ LeaveLoop \/ LeaveIf
    BY <1>3, <2>3 DEF FunctionFails, LeaveLoop, LeaveIf
  <2> QED  BY <2>1, <2>2, <2>3
<1> QED  BY <1>1, <1>2, <1>4, PopKeeps

LEMMA PushingSteps ==
  ASSUME IInv, CallFunction \/ EnterIf \/ \E kind \in {"each", "while"} : EnterLoop(kind)
  PROVE  IInv'
<1>1. PICK kind \in {"args", "if", "each", "while"} :
        /\ mode = "run" /\ Push(Frame(kind, Top.base))
        /\ UNCHANGED <<mode, varlist, jmplist, diemsg, unsaved>>
  BY DEF CallFunction, EnterIf, EnterLoop
<1> QED  BY <1>1, PushKeeps

(* saveDef goes on its return, after its handler, or without one.          *)
LEMMA SaveGoes ==
  ASSUME IInv, SaveReturns \/ NoHandler \/ \E unbinds \in BOOLEAN : EndOfHandler(unbinds)
  PROVE  /\ jmplist # <<>> /\ jmplist[1] # Unfilled
         /\ stack' = SubSeq(stack, 1, jmplist[1] - 1) /\ jmplist' = Tail(jmplist)
<1>1. CASE SaveReturns
  BY <1>1, ReturningSaveFirst DEF SaveReturns, Pop
<1>2. CASE NoHandler
  BY <1>2 DEF NoHandler
<1>3. CASE \E unbinds \in BOOLEAN : EndOfHandler(unbinds)
  BY <1>3, ReturningSaveFirst DEF EndOfHandler, Pop
<1> QED  BY <1>1, <1>2, <1>3

LEMMA SaveGoingSteps ==
  ASSUME IInv, SaveReturns \/ NoHandler \/ \E unbinds \in BOOLEAN : EndOfHandler(unbinds)
  PROVE  IInv'
<1> USE DEF IInv
<1>1. varlist' \in Seq(Binding) /\ Len(varlist') = Len(varlist)
  <2>1. CASE varlist' = varlist
    BY <2>1 DEF TypeOK
  <2>2. CASE varlist' = [varlist EXCEPT ![1] = Unbound]
    BY <2>2, BindFacts DEF Binding
  <2> QED  BY <2>1, <2>2 DEF SaveReturns, NoHandler, EndOfHandler
<1>2. mode' \in {"value", "null", "raise"} /\ UNCHANGED <<diemsg, unsaved>>
  BY DEF SaveReturns, NoHandler, EndOfHandler
<1> QED  BY <1>1, <1>2, SaveGoes, SaveGoesKeeps

LEMMA NextInv == IInv /\ [Next]_vars => IInv'
<1> SUFFICES ASSUME IInv, [Next]_vars PROVE IInv'
  OBVIOUS
<1>1. CASE \/ NextStatement \/ SetErrorName \/ \E m \in {"value", "null"} : Builtin(m)
           \/ NextArgument \/ Iterate \/ \E m \in Msgs \cup {diemsg} : Die(m)
           \/ RecoverNowhere \/ FatalJump \/ ErrorNameLost
  BY <1>1, StayingSteps
<1>2. CASE ImportDone \/ ArgumentFails \/ FunctionReturns \/ FunctionFails \/ LeaveLoop \/ LeaveIf
  BY <1>2, PoppingSteps
<1>3. CASE CallFunction \/ EnterIf \/ \E kind \in {"each", "while"} : EnterLoop(kind)
  BY <1>3, PushingSteps
<1>4. CASE SaveReturns \/ NoHandler \/ \E unbinds \in BOOLEAN : EndOfHandler(unbinds)
  BY <1>4, SaveGoingSteps
<1>5. CASE Import
  BY <1>5, ImportInv
<1>6. CASE EnterFunction
  BY <1>6, EnterFunctionInv
<1>7. CASE Save
  BY <1>7, SaveInv
<1>8. ASSUME NEW m \in Msgs, SaveWithoutArguments(m) PROVE IInv'
  BY <1>8, SaveWithoutArgumentsInv
<1>9. CASE RunHandler
  BY <1>9, RunHandlerInv
<1>10. CASE UNCHANGED vars
  BY <1>10 DEF vars, IInv, TypeOK, ModuleOutermost, ScopesNested, Own, Buffers,
               OnlyFirstUnfilled, BuffersLive, BuffersOrdered, SavesListed, Saving
<1> QED  BY <1>1, <1>2, <1>3, <1>4, <1>5, <1>6, <1>7, <1>8, <1>9, <1>10 DEF Next

LEMMA Inductive == Spec => []IInv
<1> QED  BY InitInv, NextInv, PTL DEF Spec

-----------------------------------------------------------------------------
(* The theorems.                                                           *)

(* The C stack, the scopes and the buffers are well formed: evaluation     *)
(* takes place within one import, whose file is the outermost frame, and   *)
(* every frame's scope is there (fffll.y:141-163, evaluate.c).             *)
THEOREM ControlTyped == Spec => [](TypeOK /\ ModuleOutermost)
<1>1. IInv => TypeOK /\ ModuleOutermost
  BY DEF IInv
<1> QED  BY <1>1, Inductive, PTL

(* jmplist holds the buffers of the saveDefs on the C stack, innermost     *)
(* first, and no other, however deep saves, calls and loops are nested     *)
(* (builtin.c:502-551).                                                    *)
THEOREM BuffersStayLive == Spec => []JmpListLive
<1>1. IInv => JmpListLive
  <2> SUFFICES ASSUME IInv, ~(jmplist # <<>> /\ jmplist[1] = Unfilled) PROVE JmpListLive
    BY DEF JmpListLive
  <2>1. \A i \in 1 .. Len(jmplist) : jmplist[i] # Unfilled
    <3> SUFFICES ASSUME NEW i \in 1 .. Len(jmplist) PROVE jmplist[i] # Unfilled
      OBVIOUS
    <3>1. Len(jmplist) \in Nat /\ jmplist # <<>>
      BY LenProperties, EmptySeq DEF IInv, TypeOK
    <3>2. i = 1 \/ i \in 2 .. Len(jmplist)
      BY <3>1
    <3> QED  BY <3>1, <3>2 DEF IInv, Buffers, OnlyFirstUnfilled
  <2> QED  BY <2>1 DEF JmpListLive, IInv, Buffers, BuffersLive, BuffersOrdered, SavesListed
<1> QED  BY <1>1, Inductive, PTL

(* No mix of returns, NULL results and jumps takes away the scope of an    *)
(* active call, or the global one (funcdef.c:44-52, fffll.y:155).          *)
THEOREM ScopesStay == Spec => []ScopesKept
<1>1. IInv => ScopesKept
  <2> SUFFICES ASSUME IInv PROVE ScopesKept
    OBVIOUS
  <2>1. Len(varlist) \in Nat
    BY LenProperties DEF IInv, TypeOK
  <2> QED  BY <2>1 DEF IInv, ScopesNested, ScopesKept
<1> QED  BY <1>1, Inductive, PTL

(* No step goes past an active save: a jump ends at the innermost one, and *)
(* everything else takes away the innermost frame at most                  *)
(* (builtin.c:544-548, exception.c:47-54).                                 *)
THEOREM SavesInOrder == Spec => NoSaveSkipped
<1> DEFINE Step == \A i, k \in 1 .. Len(stack) :
                     i < k /\ Saving(i) /\ Saving(k) => i <= Len(stack')
<1>1. ASSUME IInv, [Next]_vars PROVE Step
  <2> USE <1>1
  <2> SUFFICES ASSUME NEW i \in 1 .. Len(stack), NEW k \in 1 .. Len(stack), i < k, Saving(k)
               PROVE  i <= Len(stack')
    OBVIOUS
  <2>1. Len(stack) \in Nat /\ stack # <<>> /\ i <= Len(stack) - 1 /\ TypeOK
    BY StackTyped DEF IInv
  <2>2. ASSUME NEW f, Push(f) PROVE i <= Len(stack')
    <3>1. Len(stack') = Len(stack) + 1
      BY <2>1, <2>2, AppendProperties DEF Push, TypeOK
    <3> QED  BY <2>1, <3>1
  <2>3. ASSUME Pop PROVE i <= Len(stack')
    BY <2>1, <2>3, CutFacts DEF Pop
  <2>4. CASE SaveReturns \/ NoHandler \/ \E unbinds \in BOOLEAN : EndOfHandler(unbinds)
    <3>1. jmplist # <<>> /\ jmplist[1] # Unfilled /\ stack' = SubSeq(stack, 1, jmplist[1] - 1)
      BY <2>4, SaveGoes
    <3>2. jmplist[1] \in 2 .. Len(stack) /\ k <= jmplist[1]
      BY <3>1, FirstBufferInnermost
    <3>3. jmplist[1] - 1 \in 0 .. Len(stack)
      BY <2>1, <3>2
    <3>4. Len(stack') = jmplist[1] - 1
      BY <2>1, <3>1, <3>3, CutFacts
    <3> QED  BY <2>1, <3>2, <3>4
  <2>5. CASE RunHandler
    <3>1. jmplist[1] \in 2 .. Len(stack) /\ k <= jmplist[1] /\ Len(stack') = jmplist[1]
      BY <2>5, FirstBufferInnermost, UnwoundFacts DEF RunHandler
    <3> QED  BY <2>1, <3>1
  <2>6. CASE EnterFunction
    <3>1. Len(stack') = Len(stack)
      BY <2>1, <2>6, ExceptSeq DEF EnterFunction, SetTop
    <3> QED  BY <2>1, <3>1
  <2>7. CASE stack' = stack
    BY <2>1, <2>7
  <2> QED
    BY <2>2, <2>3, <2>4, <2>5, <2>6, <2>7
    DEF Next, vars, Import, ImportDone, NextStatement, SetErrorName, Builtin, CallFunction,
        NextArgument, ArgumentFails, FunctionReturns, FunctionFails, EnterLoop, Iterate,
        LeaveLoop, EnterIf, LeaveIf, Die, Save, SaveWithoutArguments, RecoverNowhere,
        FatalJump, ErrorNameLost
<1> QED  BY <1>1, Inductive, PTL DEF Spec, NoSaveSkipped
=============================================================================
