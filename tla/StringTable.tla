----------------------------- MODULE StringTable -----------------------------
(***************************************************************************)
(* The strings of a running program (src/src/value.c:69-105): Strings are  *)
(* shared through `stringlist', so that equal texts are one String and `=' *)
(* may compare pointers, and are reference counted.  `diemsg', the text of *)
(* the last error, is handed to and from Strings by save                   *)
(* (src/src/builtin.c:526-539).                                            *)
(*                                                                         *)
(* A String has a text buffer `buf', allocated apart.  `stringlist' is a   *)
(* set here: its order matters to nothing.                                 *)
(***************************************************************************)
EXTENDS Integers

CONSTANTS
    Id,       \* Strings that can be allocated
    Buf,      \* text buffers that can be allocated
    Text,
    NoBuf,    \* diemsg before the first error
    MaxRefs   \* bound on a String's reference count

ASSUME NoBufIsNone == NoBuf \notin Buf
ASSUME RefsBounded == MaxRefs \in Nat

VARIABLES
    stringlist,  \* the interned Strings
    buf,         \* the text buffer of each
    cnt,         \* refcount
    held,        \* how many Values of type 's' really refer to it
    heap,        \* the buffers that are allocated
    content,     \* what is, or was last, written in each buffer
    diemsg,      \* a buffer
    crashed      \* a NULL pointer was followed

vars == <<stringlist, buf, cnt, held, heap, content, diemsg, crashed>>

Init ==
    /\ stringlist = {}
    /\ buf \in [Id -> Buf]
    /\ cnt = [i \in Id |-> 0]
    /\ held = [i \in Id |-> 0]
    /\ heap = {}
    /\ content \in [Buf -> Text]
    /\ diemsg = NoBuf
    /\ crashed = FALSE

TextOf(i) == content[buf[i]]

(* addToStringList, for a new String of text t that finds no equal one:    *)
(* String i takes buffer b, and starts with n references.                  *)
Intern(i, b, n) ==
    /\ i \in Id \ stringlist
    /\ stringlist' = stringlist \cup {i}
    /\ buf' = [buf EXCEPT ![i] = b]
    /\ cnt' = [cnt EXCEPT ![i] = n]
    /\ held' = [held EXCEPT ![i] = 1]

(* ... that finds i: the new String is freed, i gets n more references and *)
(* one more Value.                                                         *)
Reuse(i, n) ==
    /\ cnt[i] + n <= MaxRefs
    /\ cnt' = [cnt EXCEPT ![i] = @ + n]
    /\ held' = [held EXCEPT ![i] = @ + 1]
    /\ UNCHANGED <<stringlist, buf>>

(* The String addToStringList finds for a text.                            *)
\* Bug: the last String of the list is not looked at.
FoundButLast(t) == {i \in stringlist : TextOf(i) = t /\ stringlist # {i}}

Found(t) == {i \in stringlist : TextOf(i) = t}

(* A literal is parsed; cat, read or tok makes a string.                   *)
MakeString(t, b) ==
    /\ ~crashed /\ b \in Buf \ heap
    /\ content' = [content EXCEPT ![b] = t]
    /\ \/ /\ Found(t) = {}
          /\ heap' = heap \cup {b}
          /\ \E i \in Id : Intern(i, b, 1)
       \/ /\ \E i \in Found(t) : Reuse(i, 1)
          /\ UNCHANGED heap
    /\ UNCHANGED <<diemsg, crashed>>

\* Bug: the String is freed and stays in the list.
DropKeepsListed(i) ==
    /\ ~crashed /\ i \in stringlist /\ held[i] > 0 /\ (cnt[i] > 1 \/ stringlist # {i})
    /\ cnt' = [cnt EXCEPT ![i] = @ - 1]
    /\ held' = [held EXCEPT ![i] = @ - 1]
    /\ heap' = IF cnt[i] > 1 THEN heap ELSE heap \ {buf[i]}
    /\ UNCHANGED <<stringlist, buf, content, diemsg, crashed>>

(* A Value is freed: freeValue and freeString.                             *)
Drop(i) ==
    /\ ~crashed /\ i \in stringlist /\ held[i] > 0 /\ (cnt[i] > 1 \/ stringlist # {i})
    /\ cnt' = [cnt EXCEPT ![i] = @ - 1]
    /\ held' = [held EXCEPT ![i] = @ - 1]
    /\ stringlist' = IF cnt[i] > 1 THEN stringlist ELSE stringlist \ {i}
    /\ heap' = IF cnt[i] > 1 THEN heap ELSE heap \ {buf[i]}
    /\ UNCHANGED <<buf, content, diemsg, crashed>>

(* deleteFromListData cannot empty a list: it reads the second node of     *)
(* stringlist to delete the first (list.c:229-232).                        *)
DropOnly(i) ==
    /\ ~crashed /\ stringlist = {i} /\ held[i] > 0 /\ cnt[i] = 1
    /\ crashed' = TRUE
    /\ UNCHANGED <<stringlist, buf, cnt, held, heap, content, diemsg>>

(* makeErrMsg and dieDef write a new message; what diemsg was is forgotten.*)
SetMessage(t, b) ==
    /\ ~crashed /\ b \in Buf \ heap
    /\ content' = [content EXCEPT ![b] = t]
    /\ heap' = heap \cup {b}
    /\ diemsg' = b
    /\ UNCHANGED <<stringlist, buf, cnt, held, crashed>>

\* Bug: diemsg keeps its pointer to the buffer, which is freed.
SaveMessageInPlace ==
    /\ ~crashed /\ diemsg \in heap /\ \A i \in stringlist : buf[i] # diemsg
    /\ \E i \in Id : Intern(i, diemsg, 1)
    /\ heap' = heap \ {diemsg}
    /\ UNCHANGED <<content, diemsg, crashed>>

(* A save makes a string of the message.  diemsg is new: either it becomes *)
(* the text of a String, which diemsg then refers to as well, or it is     *)
(* freed and diemsg points into the String that was found.                 *)
SaveMessage ==
    /\ ~crashed /\ diemsg \in heap /\ \A i \in stringlist : buf[i] # diemsg
    /\ \/ /\ Found(content[diemsg]) = {}
          /\ \E i \in Id : Intern(i, diemsg, 2)
          /\ UNCHANGED <<heap, diemsg>>
       \/ /\ \E i \in Found(content[diemsg]) : Reuse(i, 1) /\ diemsg' = buf[i]
          /\ heap' = heap \ {diemsg}
    /\ UNCHANGED <<content, crashed>>

(* The error was not saved, or was raised again with no message of its     *)
(* own, and comes to a save when diemsg is the text of a String: the new   *)
(* String around it is freed, and the text with it.                        *)
SaveMessageAgain ==
    /\ ~crashed /\ diemsg # NoBuf
    /\ \E i \in Found(content[diemsg]) :
         /\ buf[i] = diemsg
         /\ Reuse(i, 2)
    /\ heap' = heap \ {diemsg}
    /\ UNCHANGED <<content, diemsg, crashed>>

Once ==
    \/ \E t \in Text, b \in Buf : MakeString(t, b) \/ SetMessage(t, b)
    \/ \E i \in Id : Drop(i) \/ DropOnly(i)
    \/ SaveMessage

(* Errors that meet one save at most; and all errors.                      *)
OnceSpec == Init /\ [][Once]_vars
Spec == Init /\ [][Once \/ SaveMessageAgain]_vars

-----------------------------------------------------------------------------
(* The table is well formed.                                               *)
TypeOK ==
    /\ stringlist \subseteq Id
    /\ buf \in [Id -> Buf]
    /\ cnt \in [Id -> Nat] /\ held \in [Id -> Nat]
    /\ heap \subseteq Buf
    /\ content \in [Buf -> Text]
    /\ diemsg \in Buf \cup {NoBuf}
    /\ crashed \in BOOLEAN

(* Equal texts are one String, whatever was made, dropped and saved: on    *)
(* this the comparison of strings by address rests (typecast.c:175).       *)
Interned == \A i, j \in stringlist : TextOf(i) = TextOf(j) => i = j

(* Every String in the list has a text of its own that has not been freed, *)
(* though texts move between Strings and diemsg (builtin.c:526-531).       *)
TextsLive ==
    /\ \A i \in stringlist : buf[i] \in heap
    /\ \A i, j \in stringlist : buf[i] = buf[j] => i = j

(* A String is in the list, with a reference for every Value that has it,  *)
(* as long as there is one (value.c:69-77).                                *)
CountsCover ==
    \A i \in Id : IF i \in stringlist THEN cnt[i] >= 1 /\ cnt[i] >= held[i] ELSE held[i] = 0
=============================================================================
