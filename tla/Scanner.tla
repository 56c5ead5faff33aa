------------------------------- MODULE Scanner -------------------------------
(***************************************************************************)
(* The lexer at the level of characters (yylex of src/src/lexer.c): which  *)
(* of them belong to comments, strings and names, and where a comma is     *)
(* inserted in an argument list, beside what README.md:25-33 and 49 say.   *)
(*                                                                         *)
(* The text is not fixed: any character that can come next is read, by the *)
(* code and by the specification.  "x" stands for a letter, "0" for a      *)
(* digit, "@" for an @ with its two digits; numbers with a point, regular  *)
(* expressions, imports and the end of the file are left out.              *)
(***************************************************************************)
EXTENDS Integers, Sequences, SequencesExt

CONSTANTS
    MaxDepth,   \* bound on open brackets
    MaxText,    \* bound on the length of a string
    Odd         \* the odd texts that are read: see Next

Oddities == {"empty comment", "stars", "adjacent", "doubled quote", "unnoticed"}

ASSUME BoundsAreNumbers == MaxDepth \in Nat /\ MaxText \in Nat
ASSUME OddIsKnown == Odd \subseteq Oddities

White == {"sp", "nl"}
Opening == {"(", "[", "{"}
Closing == {")", "]", "}"}
Word == {"x", "0"}
Char == White \cup Opening \cup Closing \cup Word \cup {"-", "*", "\"", "@", ","}

VARIABLES
    lex,       \* the code: where it is, parencount, and the string's text
    doc,       \* the same by README.md, which keeps the brackets that are open
    comma,     \* a comma was inserted before the last character
    due        \* ... and should have been

vars == <<lex, doc, comma, due>>

Init ==
    /\ lex = [at |-> "code", parencount |-> <<0>>, text |-> <<>>]
    /\ doc = [at |-> "code", open |-> <<>>, text |-> <<>>, seen |-> <<>>, last |-> "none"]
    /\ comma = FALSE /\ due = FALSE

-----------------------------------------------------------------------------
(* The code.                                                               *)

(* parencount[parencountind]: `parencount' has the current count first.    *)
Counted(counts, c) ==
    CASE c = "(" -> [counts EXCEPT ![1] = @ + 1]
      [] c = ")" -> [counts EXCEPT ![1] = @ - 1]
      [] c = "{" -> <<0>> \o counts
      [] c = "}" -> Tail(counts)
      [] OTHER -> counts

(* After a closing bracket in an argument list the lexer looks beyond the  *)
(* white space that follows for what calls for a comma.                    *)
LookAhead(counts, c) ==
    IF counts[1] = 0 THEN "code" ELSE IF c = "]" THEN "listgap" ELSE "gap"

(* A token begins with c; one of a single character is already over.       *)
Token(l, c) ==
    LET counts == Counted(l.parencount, c) IN
    [l EXCEPT !.parencount = counts,
              !.at = CASE c \in Closing -> LookAhead(counts, c)
                       [] c = "\"" -> "string"
                       [] c \in White \cup Opening \cup {",", "-", "0"} -> "code"
                       [] OTHER -> "name"]

(* The loop that skips white space and comments before a token.            *)
Skip(l, c) == IF c = "-" THEN [l EXCEPT !.at = "dash"] ELSE Token(l, c)

(* An empty comment leaves the loop with its newline for a token, which    *)
(* starts a name.                                                          *)
LineComment(l, c) ==
    [l EXCEPT !.at = CASE l.at = "dashes" /\ c = "nl" -> "name"
                       [] l.at = "dashes" /\ c = "*" -> "block"
                       [] l.at = "line" /\ c = "nl" -> "code"
                       [] OTHER -> "line"]

(* *-- is looked for three characters at a time; the character after it is *)
(* read without a look for a comment.                                      *)
\* Bug: a comment is ended by *- already.
BlockCommentShort(l, c) ==
    [l EXCEPT !.at = CASE l.at = "block" /\ c = "*" -> "star"
                       [] l.at = "star" /\ c = "-" -> "token"
                       [] OTHER -> "block"]

BlockComment(l, c) ==
    [l EXCEPT !.at = CASE l.at = "block" /\ c = "*" -> "star"
                       [] l.at = "star" /\ c = "-" -> "stardash"
                       [] l.at = "stardash" /\ c = "-" -> "token"
                       [] OTHER -> "block"]

(* After a quote a string goes on if a quote follows, at once or after     *)
(* bytes; the quote that goes on is overwritten.                           *)
\* Bug: bytes take the place of a character.
StringByteOver(l, c) ==
    CASE l.at = "string" /\ c # "\"" -> [l EXCEPT !.text = Append(@, c)]
      [] l.at = "string" /\ c = "\"" -> [l EXCEPT !.at = "quote"]
      [] l.at # "string" /\ c = "@" ->
           [l EXCEPT !.at = "bytes", !.text = Append(IF @ = <<>> THEN @ ELSE Front(@), "byte")]
      [] l.at # "string" /\ c = "\"" -> [l EXCEPT !.at = "string"]
      [] OTHER -> Skip([l EXCEPT !.text = <<>>], c)

String(l, c) ==
    CASE l.at = "string" /\ c # "\"" -> [l EXCEPT !.text = Append(@, c)]
      [] l.at = "string" /\ c = "\"" -> [l EXCEPT !.at = "quote"]
      [] l.at # "string" /\ c = "@" -> [l EXCEPT !.at = "bytes", !.text = Append(@, "byte")]
      [] l.at # "string" /\ c = "\"" -> [l EXCEPT !.at = "string"]
      [] OTHER -> Skip([l EXCEPT !.text = <<>>], c)

EndsName == White \cup {"(", ")", "]", ","}

Lex(l, c) ==
    CASE l.at = "code" -> Skip(l, c)
      [] l.at \in {"gap", "listgap"} -> IF c \in White THEN l ELSE Skip(l, c)
      [] l.at = "token" -> Token(l, c)
      [] l.at = "name" -> IF c \in EndsName THEN Skip(l, c) ELSE l
      [] l.at = "dash" ->
           IF c = "-" THEN [l EXCEPT !.at = "dashes"] ELSE Skip([l EXCEPT !.at = "code"], c)
      [] l.at \in {"dashes", "line"} -> LineComment(l, c)
      [] l.at \in {"block", "star", "stardash"} -> BlockComment(l, c)
      [] l.at \in {"string", "quote", "bytes"} -> String(l, c)

(* A comma goes before c.  The look-ahead after a string (lexer.c:174-185) *)
(* begins at a closing bracket or not at all: it never finds anything.     *)
\* Bug: function definitions are torn apart.
InsertsBeforeBody(l, c) == l.at \in {"gap", "listgap"} /\ c \in {"[", "\"", "{"}

Inserts(l, c) ==
    \/ l.at \in {"gap", "listgap"} /\ c \in {"[", "\""}
    \/ l.at = "gap" /\ c = "{"

-----------------------------------------------------------------------------
(* README.md.                                                              *)

(* Outside comments and strings: README.md:33 for names.                   *)
Plain(d, c) ==
    CASE c = "-" -> [d EXCEPT !.at = "dash"]
      [] c \in White -> [d EXCEPT !.at = "code"]
      [] c \in Opening -> [d EXCEPT !.at = "code", !.open = <<c>> \o @, !.last = "none"]
      [] c \in Closing -> [d EXCEPT !.at = "code", !.open = Tail(@),
                                    !.last = IF c = "]" THEN "list" ELSE "value"]
      [] c = "\"" -> [d EXCEPT !.at = "string", !.text = <<>>]
      [] c = "x" -> [d EXCEPT !.at = "name", !.last = "none"]
      [] OTHER -> [d EXCEPT !.at = "code", !.last = "none"]

(* README.md:25, quotes and bytes after a quote.                           *)
Quoted(d, c) ==
    CASE d.at = "string" /\ c # "\"" -> [d EXCEPT !.text = Append(@, c)]
      [] d.at = "string" /\ c = "\"" -> [d EXCEPT !.at = "quote"]
      [] d.at = "quote" /\ c = "\"" -> [d EXCEPT !.at = "string", !.text = Append(@, c)]
      [] d.at = "bytes" /\ c = "\"" -> [d EXCEPT !.at = "string"]
      [] d.at # "string" /\ c = "@" -> [d EXCEPT !.at = "bytes", !.text = Append(@, "byte")]
      [] OTHER -> Plain([d EXCEPT !.text = <<>>, !.last = "string"], c)

(* README.md:27-29; `seen' are the last characters of a comment.           *)
Specified(d, c) ==
    CASE d.at = "code" -> Plain(d, c)
      [] d.at = "name" -> IF c \in Word THEN d ELSE Plain(d, c)
      [] d.at = "dash" ->
           IF c = "-" THEN [d EXCEPT !.at = "dashes"] ELSE Plain([d EXCEPT !.last = "none"], c)
      [] d.at = "dashes" ->
           [d EXCEPT !.at = IF c = "*" THEN "block" ELSE IF c = "nl" THEN "code" ELSE "line"]
      [] d.at = "line" -> [d EXCEPT !.at = IF c = "nl" THEN "code" ELSE "line"]
      [] d.at = "block" ->
           IF d.seen \o <<c>> = <<"*", "-", "-">> THEN [d EXCEPT !.at = "code", !.seen = <<>>]
           ELSE [d EXCEPT !.seen = CASE c = "*" -> <<"*">>
                                     [] c = "-" /\ d.seen = <<"*">> -> <<"*", "-">>
                                     [] OTHER -> <<>>]
      [] d.at \in {"string", "quote", "bytes"} -> Quoted(d, c)

(* A call's bracket is open inside the innermost block.                    *)
InArguments(open) == \E i \in DOMAIN open : open[i] = "(" /\ \A j \in 1 .. i - 1 : open[j] # "{"

(* Automatic comma insertion, README.md:49, between two values with only   *)
(* white space and comments between them.  A list before a block is the    *)
(* argument list of a function.                                            *)
Due(d, c) ==
    LET before == IF d.at \in {"quote", "bytes"} THEN "string" ELSE d.last IN
    /\ d.at \in {"code", "quote", "bytes"} /\ InArguments(d.open)
    /\ \/ before \in {"string", "value", "list"} /\ c \in {"[", "\""}
       \/ before \in {"string", "value"} /\ c = "{"
    /\ ~(d.at \in {"quote", "bytes"} /\ c = "\"")

-----------------------------------------------------------------------------
(* What is read: brackets match; @, * and a lone - only where they belong. *)
Pair == {<<"(", ")">>, <<"[", "]">>, <<"{", "}">>}
Outside == doc.at \in {"code", "name", "quote", "bytes"}

Legal(c) ==
    /\ Outside /\ c \in Opening => Len(doc.open) < MaxDepth
    /\ Outside /\ c \in Closing => doc.open # <<>> /\ <<doc.open[1], c>> \in Pair
    /\ Outside /\ c = "*" => FALSE
    /\ doc.at \in {"code", "name"} => c # "@"
    /\ doc.at = "dash" => c \in {"-", "0"}
    /\ doc.at \in {"string", "quote", "bytes"} /\ Len(doc.text) = MaxText => c \notin {"@"}
    /\ doc.at = "string" /\ Len(doc.text) = MaxText => c = "\""
    /\ doc.at = "quote" /\ Len(doc.text) = MaxText => c # "\""

(* The texts on which README.md and the code disagree are each read only   *)
(* if Odd has them:                                                        *)
(*   - a line comment with nothing in it;                                  *)
(*   - a * after * or *- in a block comment;                               *)
(*   - what follows a name or a block comment without a space;             *)
(*   - a doubled quote;                                                    *)
(*   - two values with a string first, or a comment between them.          *)
Usual(c) ==
    /\ doc.at = "dashes" /\ c = "nl" => "empty comment" \in Odd
    /\ doc.at = "block" /\ doc.seen # <<>> /\ c = "*" => "stars" \in Odd
    /\ lex.at = "name" /\ c \notin EndsName \cup Word => "adjacent" \in Odd
    /\ lex.at = "token" /\ c = "-" => "adjacent" \in Odd
    /\ doc.at = "quote" /\ c = "\"" => "doubled quote" \in Odd
    /\ (doc.last = "string" \/ doc.at \in {"quote", "bytes"}) /\ Due(doc, c)
         => "unnoticed" \in Odd
    /\ lex.at \in {"gap", "listgap"} /\ c = "-" => "unnoticed" \in Odd

Read(c) ==
    /\ Legal(c) /\ Usual(c)
    /\ lex' = Lex(lex, c) /\ comma' = Inserts(lex, c)
    /\ doc' = Specified(doc, c) /\ due' = Due(doc, c)

Next == \E c \in Char : Read(c)
Spec == Init /\ [][Next]_vars

-----------------------------------------------------------------------------
Kind(at) ==
    CASE at \in {"line", "block", "star", "stardash"} -> "comment"
      [] at \in {"string", "quote", "bytes"} -> "string"
      [] at = "name" -> "name"
      [] OTHER -> "other"

(* Comments, strings and names begin and end where README.md:25-33 says.   *)
TokensAsSpecified == Kind(lex.at) = Kind(doc.at)

(* A string has the characters and the bytes that README.md:25 gives it.   *)
TextsAsSpecified == lex.text = doc.text

(* A comma is inserted where README.md:49 wants one, and nowhere else: not *)
(* in a statement of a block that is itself an argument, nor between a     *)
(* function's parameters and its body.                                     *)
CommasAsSpecified == comma = due
=============================================================================
