--------------------------- MODULE MCStringTable ----------------------------
(* Instances of StringTable, and what the documentation says of memory.    *)
EXTENDS StringTable, TLC

Symmetry == Permutations(Id) \cup Permutations(Buf) \cup Permutations(Text)

(* "Stuff is dynamically allocated and reference countd" (NEWS:15), and an *)
(* error that was not saved "will be propagated to the next save block up" *)
(* (README.md:109): the text of a string in use is not freed on the way.   *)
TextsKept == \A i \in stringlist : held[i] > 0 => buf[i] \in heap

(* NEWS:15 again: the last reference to a string may be dropped.           *)
StringsCanGo == ~crashed

(* "In any case, no memory leaks!" (NEWS:17): every text buffer is that of *)
(* a String, or of the last message.                                       *)
NoLeaks == heap \subseteq {buf[i] : i \in stringlist} \cup {diemsg}
=============================================================================
