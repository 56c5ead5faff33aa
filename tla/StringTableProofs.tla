-------------------------- MODULE StringTableProofs --------------------------
(***************************************************************************)
(* Proofs about StringTable, for errors that meet one save at most.  The   *)
(* four properties hold each other up: a text is kept because it is in the *)
(* heap, stays in the heap because no other String has it, and is found    *)
(* again because it is kept.                                               *)
(***************************************************************************)
EXTENDS StringTable, TLAPS

IInv == TypeOK /\ Interned /\ TextsLive /\ CountsCover

LEMMA InitIInv == Init => IInv
<1> SUFFICES ASSUME Init PROVE IInv
  OBVIOUS
<1>1. TypeOK
  BY DEF Init, TypeOK
<1>2. Interned /\ TextsLive
  BY DEF Init, Interned, TextsLive
<1>3. CountsCover
  BY DEF Init, CountsCover
<1> QED  BY <1>1, <1>2, <1>3 DEF IInv

(* A step that writes to a buffer not in use changes no String's text.     *)
LEMMA TextsKeptByWrite ==
  ASSUME IInv, NEW b \in Buf \ heap, NEW t \in Text, content' = [content EXCEPT ![b] = t]
  PROVE  /\ content' \in [Buf -> Text]
         /\ content'[b] = t
         /\ \A i \in stringlist : content'[buf[i]] = TextOf(i)
BY DEF IInv, TypeOK, TextsLive, TextOf

(* Interning a String around a buffer no other String has.                 *)
LEMMA InternKeeps ==
  ASSUME IInv, NEW i \in Id, NEW b \in Buf, NEW n \in {1, 2}, Intern(i, b, n),
         \A j \in stringlist : buf[j] # b,
         heap' \subseteq Buf, b \in heap', heap \subseteq heap',
         content' \in [Buf -> Text],
         \A j \in stringlist : content'[buf[j]] = TextOf(j),
         Found(content'[b]) = {},
         diemsg' \in Buf \cup {NoBuf}, crashed' \in BOOLEAN
  PROVE  IInv'
<1>1. i \notin stringlist /\ stringlist' = stringlist \cup {i}
  BY DEF Intern
<1>2. buf' \in [Id -> Buf] /\ buf'[i] = b /\ \A j \in stringlist : buf'[j] = buf[j]
  BY <1>1 DEF Intern, IInv, TypeOK
<1>3. TypeOK'
  BY <1>2 DEF Intern, IInv, TypeOK
<1>4. Interned'
  <2>1. \A j \in stringlist : content'[buf'[j]] = TextOf(j) /\ TextOf(j) # content'[b]
    BY <1>2 DEF Found
  <2> QED  BY <1>1, <1>2, <2>1 DEF IInv, Interned, TextOf
<1>5. TextsLive'
  BY <1>1, <1>2 DEF IInv, TextsLive
<1>6. CountsCover'
  BY DEF Intern, IInv, TypeOK, CountsCover
<1> QED  BY <1>3, <1>4, <1>5, <1>6 DEF IInv

(* Using an interned String once more.                                     *)
LEMMA ReuseKeeps ==
  ASSUME IInv, NEW i \in stringlist, Reuse(i, 1),
         heap' \subseteq Buf, \A j \in stringlist : buf[j] \in heap',
         content' \in [Buf -> Text],
         \A j \in stringlist : content'[buf[j]] = TextOf(j),
         diemsg' \in Buf \cup {NoBuf}, crashed' \in BOOLEAN
  PROVE  IInv'
<1>1. TypeOK'
  BY DEF Reuse, IInv, TypeOK
<1>2. Interned'
  BY DEF Reuse, IInv, Interned, TextOf
<1>3. TextsLive'
  BY DEF Reuse, IInv, TextsLive
<1>4. CountsCover'
  BY DEF Reuse, IInv, TypeOK, CountsCover
<1> QED  BY <1>1, <1>2, <1>3, <1>4 DEF IInv

LEMMA NextIInv == IInv /\ [Once]_vars => IInv'
<1> SUFFICES ASSUME IInv, [Once]_vars PROVE IInv'
  OBVIOUS
<1>1. ASSUME NEW t \in Text, NEW b \in Buf, MakeString(t, b) PROVE IInv'
  <2> USE <1>1
  <2>1. /\ b \in Buf \ heap
        /\ content' = [content EXCEPT ![b] = t]
        /\ diemsg' \in Buf \cup {NoBuf} /\ crashed' \in BOOLEAN
    BY DEF MakeString, IInv, TypeOK
  <2>2. /\ content' \in [Buf -> Text]
        /\ content'[b] = t
        /\ \A i \in stringlist : content'[buf[i]] = TextOf(i)
    BY <2>1, TextsKeptByWrite
  <2>3. CASE Found(t) = {} /\ heap' = heap \cup {b} /\ \E i \in Id : Intern(i, b, 1)
    <3>1. PICK i \in Id : Intern(i, b, 1)
      BY <2>3
    <3>2. \A j \in stringlist : buf[j] # b
      BY <2>1 DEF IInv, TextsLive
    <3>3. heap' \subseteq Buf /\ b \in heap' /\ heap \subseteq heap'
      BY <2>3 DEF IInv, TypeOK
    <3> QED  BY <2>1, <2>2, <2>3, <3>1, <3>2, <3>3, InternKeeps
  <2>4. CASE UNCHANGED heap /\ \E i \in Found(t) : Reuse(i, 1)
    <3>1. PICK i \in stringlist : Reuse(i, 1)
      BY <2>4 DEF Found
    <3>2. heap' \subseteq Buf /\ \A j \in stringlist : buf[j] \in heap'
      BY <2>4 DEF IInv, TypeOK, TextsLive
    <3> QED  BY <2>1, <2>2, <3>1, <3>2, ReuseKeeps
  <2> QED  BY <2>3, <2>4 DEF MakeString
<1>2. ASSUME NEW t \in Text, NEW b \in Buf, SetMessage(t, b) PROVE IInv'
  <2> USE <1>2
  <2>1. /\ b \in Buf \ heap
        /\ content' = [content EXCEPT ![b] = t]
    BY DEF SetMessage
  <2>2. /\ content' \in [Buf -> Text]
        /\ \A i \in stringlist : content'[buf[i]] = TextOf(i)
    BY <2>1, TextsKeptByWrite
  <2>3. TypeOK'
    BY <2>2 DEF SetMessage, IInv, TypeOK
  <2>4. Interned'
    BY <2>2 DEF SetMessage, IInv, Interned, TextOf
  <2>5. TextsLive' /\ CountsCover'
    BY DEF SetMessage, IInv, TextsLive, CountsCover
  <2> QED  BY <2>3, <2>4, <2>5 DEF IInv
<1>3. ASSUME NEW i \in Id, Drop(i) PROVE IInv'
  <2> USE <1>3
  <2>1. cnt[i] \in Nat /\ held[i] \in Nat /\ cnt[i] >= 1 /\ held[i] >= 1 /\ cnt[i] >= held[i]
    BY DEF Drop, IInv, TypeOK, CountsCover
  <2>2. stringlist' \subseteq stringlist /\ heap' \subseteq heap /\ buf' = buf /\ content' = content
    BY DEF Drop
  <2>3. TypeOK'
    BY <2>1, <2>2 DEF Drop, IInv, TypeOK
  <2>4. Interned'
    BY <2>2 DEF IInv, Interned, TextOf
  <2>5. TextsLive'
    <3>1. \A j \in stringlist' : buf[j] \in heap'
      BY DEF Drop, IInv, TextsLive
    <3> QED  BY <2>2, <3>1 DEF IInv, TextsLive
  <2>6. CountsCover'
    BY <2>1 DEF Drop, IInv, TypeOK, CountsCover
  <2> QED  BY <2>3, <2>4, <2>5, <2>6 DEF IInv
<1>4. ASSUME NEW i \in Id, DropOnly(i) PROVE IInv'
  BY <1>4 DEF DropOnly, IInv, TypeOK, Interned, TextsLive, CountsCover, TextOf
<1>5. ASSUME SaveMessage PROVE IInv'
  <2> USE <1>5
  <2>1. diemsg \in Buf /\ diemsg \in heap /\ \A i \in stringlist : buf[i] # diemsg
    BY DEF SaveMessage, IInv, TypeOK
  <2>2. content' = content /\ crashed' = crashed
    BY DEF SaveMessage
  <2>3. /\ content' \in [Buf -> Text] /\ crashed' \in BOOLEAN
        /\ \A i \in stringlist : content'[buf[i]] = TextOf(i)
    BY <2>2 DEF IInv, TypeOK, TextOf
  <2>4. CASE /\ Found(content[diemsg]) = {} /\ \E i \in Id : Intern(i, diemsg, 2)
             /\ UNCHANGED <<heap, diemsg>>
    <3>1. PICK i \in Id : Intern(i, diemsg, 2)
      BY <2>4
    <3>2. heap' \subseteq Buf /\ diemsg \in heap' /\ heap \subseteq heap' /\ diemsg' \in Buf \cup {NoBuf}
      BY <2>1, <2>4 DEF IInv, TypeOK
    <3>3. Found(content'[diemsg]) = {}
      BY <2>2, <2>4
    <3> QED  BY <2>1, <2>3, <3>1, <3>2, <3>3, InternKeeps
  <2>5. CASE /\ \E i \in Found(content[diemsg]) : Reuse(i, 1) /\ diemsg' = buf[i]
             /\ heap' = heap \ {diemsg}
    <3>1. PICK i \in stringlist : Reuse(i, 1) /\ diemsg' = buf[i]
      BY <2>5 DEF Found
    <3>2. heap' \subseteq Buf /\ \A j \in stringlist : buf[j] \in heap'
      BY <2>1, <2>5 DEF IInv, TypeOK, TextsLive
    <3>3. diemsg' \in Buf \cup {NoBuf}
      BY <3>1 DEF IInv, TypeOK
    <3> QED  BY <2>3, <3>1, <3>2, <3>3, ReuseKeeps
  <2> QED  BY <2>4, <2>5 DEF SaveMessage
<1>6. CASE UNCHANGED vars
  BY <1>6 DEF vars, IInv, TypeOK, Interned, TextsLive, CountsCover, TextOf
<1> QED  BY <1>1, <1>2, <1>3, <1>4, <1>5, <1>6 DEF Once

(* The four properties are inductive.                                      *)
THEOREM StringsInductive == OnceSpec => []IInv
BY InitIInv, NextIInv, PTL DEF OnceSpec

(* Interning: equal texts are one String (value.c:81-105), so that `='     *)
(* compares strings by comparing addresses.                                *)
THEOREM AlwaysInterned == OnceSpec => []Interned
<1>1. IInv => Interned  BY DEF IInv
<1> QED  BY <1>1, StringsInductive, PTL

(* No text is freed while its String is in the list, and no two Strings    *)
(* have one buffer.                                                        *)
THEOREM TextsStayLive == OnceSpec => []TextsLive
<1>1. IInv => TextsLive  BY DEF IInv
<1> QED  BY <1>1, StringsInductive, PTL

(* No String is freed while a Value has it.                                *)
THEOREM CountsSuffice == OnceSpec => []CountsCover
<1>1. IInv => CountsCover  BY DEF IInv
<1> QED  BY <1>1, StringsInductive, PTL

(* Types, reference counts that never become negative included.            *)
THEOREM StringsTyped == OnceSpec => []TypeOK
<1>1. IInv => TypeOK  BY DEF IInv
<1> QED  BY <1>1, StringsInductive, PTL
=============================================================================
