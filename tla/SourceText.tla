------------------------------ MODULE SourceText ------------------------------
(* How nyxstone.cpp takes a source apart: block comments first, then the       *)
(* statements, then line comments, and the operands of the directives it        *)
(* handles itself.  gas's own scrubber is never run.  A text is a sequence of    *)
(* tokens: the characters that matter here stand for themselves, any other run   *)
(* of characters (a mnemonic, a name, a number) is one token.                    *)
EXTENDS Words, Scan, Sequences, SequencesExt

CONSTANTS
    Tokens,   \* what a text is made of
    Number,   \* what a numeric token means: [minus, magnitude as a set of bits]
    Code      \* the byte of a character in a string

Quote == "\""
Backslash == "\\"
Newline == "\n"
Space == {" ", Newline}

(* The state of every string-aware loop: before, in, or behind a backslash in   *)
(* a string literal.                                                            *)
QuoteStates == {"out", "in", "escaped"}
NextQuote(q, c) ==
  CASE q = "escaped"                   -> "in"
    [] q = "in" /\ c = Backslash       -> "escaped"
    [] c = Quote /\ q = "in"           -> "out"
    [] c = Quote /\ q = "out"          -> "in"
    [] OTHER                           -> q

\* The state before each token, and behind the last.
Quoting(t) ==
  Before(Len(t), "out", [i \in DOMAIN t |-> [q \in QuoteStates |-> NextQuote(q, t[i])]])

Pair(t, i) == SubSeq(t, i, Min({i + 1, Len(t)}))

\* Block comments: the star that opens one is not the star that closes it.
CommentStates == {"opened", "comment", "closing"}
Opens(t, i)  == Pair(t, i) = <<"/", "*">>
Closing(t, i) == Pair(t, i) = <<"*", "/">>
NextInBlock(s, t, i) ==
  CASE s = "opened"                    -> "comment"
    [] s = "comment" /\ Closing(t, i)  -> "closing"
    [] s = "comment"                   -> "comment"
    [] s = "closing"                   -> "out"

\* A comment that begins in one of the states from is replaced by a space.
Strip(t, from) ==
  LET state == Before(Len(t), "out",
        [i \in DOMAIN t |-> [s \in QuoteStates \cup CommentStates |->
           IF s \in CommentStates THEN NextInBlock(s, t, i)
           ELSE IF s \in from /\ Opens(t, i) THEN "opened"
           ELSE NextQuote(s, t[i])]])
  IN FlattenSeq([i \in DOMAIN t |->
       IF state[i] \in CommentStates THEN <<>>
       ELSE IF state[i] \in from /\ Opens(t, i) THEN <<" ">>
       ELSE <<t[i]>>])
InsideStringsToo(t)   == Strip(t, QuoteStates)
StripBlockComments(t) == Strip(t, {"out"})

StartsLineComment(t, i) == t[i] = "#" \/ Pair(t, i) = <<"/", "/">>

StripComment(t) ==
  LET q == Quoting(t)
      starts == {i \in DOMAIN t : q[i] = "out" /\ StartsLineComment(t, i)}
  IN IF starts = {} THEN t ELSE SubSeq(t, 1, Min(starts) - 1)

Trim(t) ==
  LET ink == {i \in DOMAIN t : t[i] \notin Space}
  IN IF ink = {} THEN <<>> ELSE SubSeq(t, Min(ink), Max(ink))

\* The pieces of t between the positions of cuts.
Pieces(t, cuts) ==
  LET begin(end) == Max({0} \cup {c \in cuts : c < end}) + 1
  IN FlattenSeq([end \in 1..(Len(t) + 1) |->
       IF end \in cuts \cup {Len(t) + 1} THEN <<SubSeq(t, begin(end), end - 1)>> ELSE <<>>])

SplitStatements(t) ==
  LET q == Quoting(t)
  IN Pieces(t, {i \in DOMAIN t : q[i] = "out" /\ t[i] \in {Newline, ";"}})

-------------------------------------------------------------------------------
(* Operands.                                                                     *)

Commas(args) ==
  LET p == Pieces(args, {i \in DOMAIN args : args[i] = ","})
  IN [k \in DOMAIN p |-> Trim(p[k])]

\* The driver's own loops pass over a comma at the end.
SplitOperands(args) ==
  IF Last(Commas(args)) = <<>> THEN Front(Commas(args)) ELSE Commas(args)

IsNumber(o) == Len(o) = 1 /\ o[1] \in DOMAIN Number
AllIntLiterals(args) == \A k \in DOMAIN SplitOperands(args) : IsNumber(SplitOperands(args)[k])

\* strtoll: saturates, where gas's own reader keeps the low 64 bits.
Exact(n) == IF n.minus THEN Negative(n.bits \cap WordBits) ELSE n.bits \cap WordBits
Saturated(n) ==
  IF n.bits \subseteq 0..62 THEN Exact(n)
  ELSE IF n.minus THEN {63} ELSE 0..62
AsInt32(o) == SignExtend(Low(Saturated(Number[o[1]]), 32), 32)
ParseInt(o) == Saturated(Number[o[1]])

EmitIntList(args, width) ==
  FlattenSeq([k \in DOMAIN SplitOperands(args) |->
                LittleEndian(ParseInt(SplitOperands(args)[k]), width)])

\* parse_int_args: at most max literals, and nothing else.
Malformed == [ok |-> FALSE, args |-> <<>>]
ParseIntArgs(args, max) ==
  LET o == SplitOperands(args)
  IN IF AllIntLiterals(args) /\ Len(o) \in 1..max
     THEN [ok |-> TRUE, args |-> [k \in DOMAIN o |-> ParseInt(o[k])]]
     ELSE Malformed

Unescaped(c) == CASE c = "n" -> {1, 3}      \* 10
                  [] c = "t" -> {0, 3}      \* 9
                  [] c = "r" -> {0, 2, 3}   \* 13
                  [] c = "0" -> {}
                  [] OTHER   -> Low(Code[c], 8)

(* .ascii: strings separated by spaces and at most one comma each.  What was    *)
(* emitted before an error is lost with the call.                               *)
EmitAscii(args, zeroTerminated) ==
  LET q == Quoting(args)
      closes(i)  == args[i] = Quote /\ q[i] = "in"
      follows(i) == \E j \in 1..(i - 1) :
                      closes(j) /\ \A k \in (j + 1)..(i - 1) : args[k] \in Space
      char(i) == IF q[i] = "escaped" THEN <<Unescaped(args[i])>>
                 ELSE IF closes(i)   THEN IF zeroTerminated THEN <<{}>> ELSE <<>>
                 ELSE IF q[i] = "in" /\ args[i] # Backslash THEN <<Low(Code[args[i]], 8)>>
                 ELSE <<>>
  IN [ok    |-> /\ args # <<>> /\ q[Len(args) + 1] = "out"
                /\ \A i \in DOMAIN args : q[i] = "out" =>
                     args[i] \in Space \cup {Quote} \/ (args[i] = "," /\ follows(i)),
      bytes |-> FlattenSeq([i \in DOMAIN args |-> char(i)])]

-------------------------------------------------------------------------------
(* What the comments of the two passes promise (nyxstone.cpp:105-111, 138-141):  *)
(* one reader that is in a string, in a comment, or in neither, as gas's         *)
(* scrubber is.  A line comment reaches to the end of its line.                  *)
ReaderStates == QuoteStates \cup CommentStates \cup {"line"}
NextRead(s, t, i) ==
  CASE s \in CommentStates                   -> NextInBlock(s, t, i)
    [] s = "line"                            -> IF t[i] = Newline THEN "out" ELSE "line"
    [] s = "out" /\ Opens(t, i)              -> "opened"
    [] s = "out" /\ StartsLineComment(t, i)  -> "line"
    [] OTHER                                 -> NextQuote(s, t[i])

\* Nothing in a line comment looks like a string, a separator or another comment.
PlainComments(t) ==
  \A i, j \in DOMAIN t :
    /\ Quoting(t)[i] = "out" /\ StartsLineComment(t, i)
    /\ i < j /\ \A k \in i..j : t[k] # Newline
    => t[j] \notin {Quote, ";", "*"}

Uncommented(t) ==
  LET state == Before(Len(t), "out",
                      [i \in DOMAIN t |-> [s \in ReaderStates |-> NextRead(s, t, i)]])
  IN FlattenSeq([i \in DOMAIN t |->
       CASE state[i] \in CommentStates                  -> <<>>
         [] state[i] = "line" /\ t[i] # Newline          -> <<>>
         [] state[i] = "out" /\ Opens(t, i)              -> <<" ">>
         [] state[i] = "out" /\ ~ Opens(t, i) /\ StartsLineComment(t, i) -> <<>>
         [] OTHER                                        -> <<t[i]>>])

Inked(statements) ==
  FlattenSeq([k \in DOMAIN statements |->
                IF statements[k] = <<>> THEN <<>> ELSE <<statements[k]>>])

StatementsOf(t) ==
  LET s == SplitStatements(Uncommented(t))
  IN Inked([k \in DOMAIN s |-> Trim(s[k])])
===============================================================================
