---------------------------- MODULE MCAssembleText ----------------------------
(* Instances of AssembleText for TLC: instructions of every form the encoder   *)
(* knows, with their real opcode bytes, and sources around every boundary.      *)
EXTENDS AssembleText

B(s) == [k \in DOMAIN s |-> Low(ToWord(s[k]), 8)]

\* The chains of md_relax_table for jnz %d15, j, jz.a, jeq %d15 and loop.
TheStates == (0..10) \cup (20..22)
TheRlxMore == [s \in TheStates |-> IF s \in {2, 4, 7, 10, 22} THEN 0 ELSE s + 1]
Far == 16777000
TheRlxRange == [s \in TheStates |->
                 CASE s \in {0, 3}        -> <<-256, 254>>
                   [] s \in {1, 6, 9, 21} -> <<-32768, 32766>>
                   [] s = 5               -> <<0, 30>>
                   [] s = 8               -> <<0, 62>>
                   [] s = 20              -> <<-32, -2>>
                   [] OTHER               -> <<-Far, Far>>]
S(size, form, at) == [size |-> size, form |-> form, at |-> at]
TheShape == [s \in TheStates |->
               CASE s \in {0, 3}        -> S(2, "8REL", 0)
                 [] s \in {1, 6, 9, 21} -> S(4, "15REL", 0)
                 [] s = 4               -> S(4, "24REL", 0)
                 [] s = 5               -> S(2, "4REL", 0)
                 [] s = 8               -> S(2, "5REL", 0)
                 [] s = 20              -> S(2, "4REL2", 0)
                 [] s \in {2, 7, 10}    -> S(6, "24REL", 2)
                 [] s = 22              -> S(10, "24REL", 6)]

Branch(sub, opcode) == [form |-> "relax", sub |-> sub, opcode |-> opcode]
Plain(bytes)        == [form |-> "none", bytes |-> B(bytes)]
Field1(form, bytes) == [form |-> form, bytes |-> B(bytes)]

TheInsns ==
  ("jnz15" :> Branch(2, (0 :> B(<<238, 0>>)) @@ (1 :> B(<<223, 15, 0, 128>>))
                        @@ (2 :> B(<<110, 3, 29, 0, 0, 0>>)))) @@
  ("j" :> Branch(4, (3 :> B(<<60, 0>>)) @@ (4 :> B(<<29, 0, 0, 0>>)))) @@
  ("jza" :> Branch(7, (5 :> B(<<188, 32>>)) @@ (6 :> B(<<189, 2, 0, 0>>))
                      @@ (7 :> B(<<124, 35, 29, 0, 0, 0>>)))) @@
  ("jeq15" :> Branch(10, (8 :> B(<<62, 32>>)) @@ (9 :> B(<<95, 47, 0, 0>>))
                         @@ (10 :> B(<<126, 35, 29, 0, 0, 0>>)))) @@
  ("loop" :> Branch(22, (20 :> B(<<252, 48>>)) @@ (21 :> B(<<253, 48, 0, 0>>))
                        @@ (22 :> B(<<253, 48, 3, 0, 60, 3, 29, 0, 0, 0>>)))) @@
  ("nop" :> Plain(<<0, 0>>)) @@
  ("jl" :> Field1("24REL", <<93, 0, 0, 0>>)) @@
  ("ja" :> Field1("24ABS", <<157, 0, 0, 0>>)) @@
  ("movh_hi" :> Field1("HIADJ", <<123, 0, 0, 32>>)) @@
  ("movh_up" :> Field1("HI", <<123, 0, 0, 32>>)) @@
  ("addi_lo" :> Field1("LO", <<27, 2, 0, 32>>)) @@
  ("lea_lo" :> Field1("LO2", <<217, 34, 0, 0>>)) @@
  ("ldw" :> Field1("18ABS", <<133, 2, 0, 0>>)) @@
  ("lha" :> Field1("18ABS_14", <<197, 2, 0, 4>>)) @@
  ("mov" :> Field1("16CONST", <<59, 0, 0, 32>>)) @@
  ("add" :> Field1("9SCONST", <<139, 3, 0, 32>>)) @@
  ("or" :> Field1("9ZCONST", <<143, 2, 64, 33>>)) @@
  ("ldw_off" :> Field1("16OFF", <<25, 34, 0, 0>>)) @@
  ("ldw_post" :> Field1("10OFF", <<9, 34, 0, 1>>))

TheTokens == STRING \ {""}
TheNames == {"x", "y", "z"}
TheLocals == {"1"}
TheLocalRef == ("1b" :> <<"1", 0>>) @@ ("1f" :> <<"1", 1>>)

Small(n) == [minus |-> n < 0, bits |-> Low(ToWord(IF n < 0 THEN -n ELSE n), 31)]
Top(bits) == [minus |-> FALSE, bits |-> bits]
TheNumber ==
  ("0" :> Small(0)) @@ ("1" :> Small(1)) @@ ("2" :> Small(2)) @@ ("3" :> Small(3)) @@
  ("4" :> Small(4)) @@ ("6" :> Small(6)) @@ ("26" :> Small(26)) @@ ("28" :> Small(28)) @@
  ("30" :> Small(30)) @@ ("31" :> Small(31)) @@ ("60" :> Small(60)) @@ ("62" :> Small(62)) @@ ("66" :> Small(66)) @@
  ("250" :> Small(250)) @@ ("252" :> Small(252)) @@ ("254" :> Small(254)) @@
  ("256" :> Small(256)) @@ ("258" :> Small(258)) @@ ("-1" :> Small(-1)) @@
  ("-300" :> Small(-300)) @@ ("65535" :> Small(65535)) @@
  ("2^63-1" :> Top(0..62)) @@ ("-2^63" :> [minus |-> TRUE, bits |-> {63}]) @@
  ("2^63" :> Top({63})) @@ ("2^64-1" :> Top(0..63))
TheCode == ("n" :> {1, 2, 3, 5, 6}) @@ ("t" :> {2, 4, 5, 6}) @@ ("a" :> {0, 5, 6}) @@ ("0" :> {4, 5}) @@
           (Quote :> {1, 5}) @@ (Backslash :> {2, 3, 4, 6}) @@ ("#" :> {0, 1, 5}) @@
           (";" :> {0, 1, 3, 4, 5}) @@ ("," :> {2, 3, 5}) @@ (" " :> {5}) @@
           ("/" :> {0, 1, 2, 3, 5}) @@ ("*" :> {1, 3, 5}) @@ (Newline :> {1, 3})

-------------------------------------------------------------------------------
(* Calls.                                                                        *)

Job(call, relocs, text, base, labels) ==
  [call |-> call, relocs |-> relocs, text |-> text, base |-> base, labels |-> labels,
   bytes |-> <<>>, count |-> 0]
Assemble(text)         == Job("assemble", FALSE, text, {12}, <<>>)
With(text, labels)     == Job("assemble", FALSE, text, {12}, labels)
Relocs(text, labels)   == Job("assemble", TRUE, text, {12}, labels)
Disassemble(b, count)  == [Job("disassemble", FALSE, <<>>, {12}, <<>>)
                             EXCEPT !.bytes = b, !.count = count]
Def(n, w) == [name |-> n, address |-> w]

\* Lines, and the commonest statements.
Lines(ls) == FlattenSeq([k \in DOMAIN ls |-> ls[k] \o <<Newline>>])
D(d, n)  == <<d, " ", n>>
L(n)     == <<n, ":">>
Nop      == <<"nop">>

\* Every text of up to n tokens.
Texts(alphabet, n) == BoundedSeq(alphabet, n)
Characters == {"nop", Quote, Backslash, "/", "*", "#", ";", Newline}
TextJobs(n)  == {Assemble(t) : t \in Texts(Characters, n)}
PlainTexts(n) == {j \in TextJobs(n) : PlainComments(j.text)}

\* Comments and strings in context.
Comments == { <<"nop", "/", "*", Newline, Quote, ";", "*", "/", "nop">>,
              <<"nop", "/", "*", "*", "/", Newline, "nop">>,
              <<"nop", "/", "*", "/", "nop", "*", "/", ";", "nop">>,
              <<"nop", " ", "#", " ", "nop", Newline, "nop">>,
              <<" ", "nop", " ", "/", "/", "nop", Newline, " ", "nop", "/", "*", "nop">> }
Quoted1(t) == <<".ascii", " ", Quote>> \o t \o <<Quote>>
Strings == {Quoted1(t) \o <<";">> \o Nop :
              t \in Texts({"a", "n", "#", ";", "/", "*"}, 2)
                    \cup { <<Backslash, c>> : c \in {"n", "t", "0", "a", Quote, Backslash} }}
           \cup { <<".asciz", " ", Quote, "a", Quote, " ", ",", Quote, Quote>> }

\* One reference of each form, at the boundaries of the fields.
Forms1 == DOMAIN TheInsns \ {"nop"}
Near(n) == {ToWord(n - 2), ToWord(n - 1), ToWord(n), ToWord(n + 2)}
Edges == UNION {Near(n) : n \in {0, 4096, 256, 512, 16384, 32768, 36864, 65536, 2097152,
                                 16777216 + 4096, -256, -512, -28672, -32768, 4096 - 16777216}}
         \cup { {28, 29, 30, 31}, {28, 13}, {31, 15}, {31} \cup (1..20), {4, 31}, 15..31, {32},
                {14, 20, 31}, 14..31 }
FieldJobs == {With(D(m, "x"), <<Def("x", w)>>) : m \in Forms1, w \in Edges}
             \cup {With(D(d, "x"), <<Def("x", w)>>) : d \in {".byte", ".hword", ".word"},
                                                    w \in {{}, {4, 31}, 15..31, {63}}}

\* Branches to labels of the source, around the reach of each form.
Relaxing == Branches \ {"jnz15"}
Distances == {"0", "26", "28", "30", "60", "62", "250", "252", "254", "256"}
Distant(m) ==
  {Lines(<<L("x"), D(".skip", n), D(m, "x")>>) : n \in Distances} \cup
  {Lines(<<D(m, "x"), D(".skip", n), L("x")>>) : n \in Distances}
\* Branches whose sizes depend on each other and on the padding between them.
Padding == {D(".skip", "2"), D(".align", "2"), <<".align", " ", "3", ",", "1", ",", "2">>,
            D(".balign", "4"), D(".org", "258")}
Gap == Lines(<<D("jeq15", "x"), D("jeq15", "y"), D(".skip", "2"), D(".org", "66"), L("y"),
               D(".skip", "30"), L("x")>>)
Chained(m, n) ==
  {Lines(<<D(n, "x"), D(".skip", k), p, D(m, "y"), L("x"), D(".skip", "28"), L("y"), p,
           D(m, "x")>>) : k \in {"26", "60", "250", "252"}, p \in Padding}
RelaxJobs(ms) == {Assemble(t) : t \in UNION {Distant(m) : m \in ms}
                                      \cup UNION {Chained(m, n) : m, n \in ms} \cup {Gap}}

\* Labels of every kind, data that refers to them, and what clashes.
XatY == Lines(<<L("x") \o L("y") \o Nop, D(".word", "y"), <<".word", " ", "x", "-", "4">>,
                <<".hword", " ", "y", ",", " ", "1", ",", "z", "+", "1">>, L("z")>>)
Numbered == Lines(<<L("1") \o Nop, D("j", "1b"), D("j", "1f"), L("1"), D(".word", "1b")>>)
EquTexts == { Lines(<<<<".equ", " ", "x", ",", "4">>, D(".word", "x"), D("j", "y"), L("y")>>),
              Lines(<<L("x"), <<".equ", " ", "y", ",", " ", "x", "+", "2">>, Nop,
                      D(".word", "y"), D("j", "y")>>),
              Lines(<<<<".equ", " ", "y", ",", "x">>, D("j", "y"), D(".word", "y"), L("x")>>),
              Lines(<<<<".equ", " ", "x", ",", "4">>, L("x"), D(".word", "x")>>),
              Lines(<<<<".equ", " ", "x", ",", "y">>, <<".equ", " ", "y", ",", "x">>,
                      D(".word", "x")>>),
              Lines(<<D("movh_hi", "x"), <<".equ", " ", "x", ",", "65535">>>>) }
\* What a LabelDefinition gives to a name that .equ sets, or leads to.
Aliases == { Lines(<<<<".equ", " ", "y", ",", " ", "x", "+", "2">>, D(".word", "y"), D("j", "y")>>),
             Lines(<<<<".equ", " ", "y", ",", " ", "x", "+", "2">>, D(".word", "y"), L("x")>>),
             Lines(<<L("z"), <<".equ", " ", "y", ",", "z">>, D(".word", "y"), D("jl", "x")>>) }
Clashes == { Lines(<<L("x"), L("x")>>), Lines(<<L("x"), Nop, L("x")>>),
             Lines(<<L("x"), D(".align", "3"), L("x")>>), Lines(<<L("x"), <<".equ", " ", "x", ",", "1">>>>),
             Lines(<<<<".equ", " ", "x", ",", "1">>, Nop>>), Nop }
Twice == <<Def("x", {2}), Def("x", {3})>>
LabelJobs == {Assemble(t) : t \in {XatY, Numbered} \cup EquTexts \cup Clashes}
             \cup {With(t, ls) : t \in Clashes \cup {XatY},
                                ls \in {<<Def("x", {2})>>, Twice}}
             \cup {With(t, ls) : t \in Aliases,
                                ls \in {<<Def("x", {2})>>, <<Def("x", {2}), Def("y", {3})>>}}

\* What is left for the linker: order, addends, hints, forms without a howto.
Open == { Lines(<<Nop, D("j", "x"), <<".word", " ", "x", "+", "4", ",", "y">>,
                  D("movh_hi", "x"), D(".align", "3"), D("loop", "y"), D("jl", "z"), L("z")>>),
          D(".quad", "x"), Lines(<<L("x"), D(".quad", "x")>>),
          Lines(<<L("x"), D("lha", "x"), D(".quad", "x")>>), D("jnz15", "x"),
          Lines(<<D("jeq15", "x"), D("ja", "y"), L("y")>>) }
OpenJobs == {Relocs(t, ls) : t \in Open, ls \in {<<>>, <<Def("x", {8}), Def("x", {9})>>}}
            \cup {Assemble(t) : t \in Open}
            \cup {With(t, <<Def("x", {8}), Def("y", {9})>>) : t \in Open}

\* Data lists and the directives that the driver checks itself.
DataTexts == {<<d, " ", n, ",", " ", "1">> : d \in {".byte", ".hword", ".word", ".quad"},
                n \in {"-1", "258", "-300", "65535", "2^63-1", "-2^63"}}
             \cup {D(".byte", "1") \o <<",">>, <<".byte">>,
                   <<".word", " ", "z", ",", "2^63", ",", "-1">>}
Directives ==
  {D(d, n) : d \in {".skip", ".zero", ".org", ".align", ".balign"},
             n \in {"-1", "0", "3", "4", "31", "x"}}
  \cup {D(d, n) : d \in {".byte", ".word"}, n \in {"*", "1"}}
  \cup {<<".equ", " ", "x", ",", "*">>}
  \cup {<<d, " ", "2", ",", "6", ",", "1">> : d \in {".skip", ".org", ".align", ".balign"}}
  \cup {<<d, " ", "4", ",", "-1">> : d \in {".skip", ".zero", ".org", ".align"}}
  \cup {<<d>> : d \in {".skip", ".org", ".align", ".equ", ".text", ".data", ".macro",
                       ".section", ".ascii"}}
  \cup {D(".section", ".text.hot"), D(".section", ".data"), D(".equ", "x"), D(".ascii", "a"),
        <<".byte", Quote>>, <<"nop", " ", "x">>, <<"j">>}
DirectiveJobs == {Assemble(<<".ascii", " ", Quote, "a">>)} \cup {Assemble(Lines(<<Nop, t, Nop>>)) : t \in Directives \cup DataTexts}
                 \cup {With(t, <<Def("z", {40, 2})>>) : t \in DataTexts}
                 \cup {Assemble(Lines(<<t, u>>)) : t \in {<<".macro">>, <<".data">>, <<"x">>},
                                                   u \in {D("j", "x"), <<".data">>, <<".macro">>}}

\* Decoding: 16- and 32-bit instructions, cut off anywhere.
DecodeJobs ==
  {Disassemble(b, n) : b \in BoundedSeq({{}, {0}}, 5), n \in 0..2}
  \cup {[Assemble(t) EXCEPT !.call = "instructions"] :
          t \in { <<>>, XatY, Numbered, <<".byte", " ", "1", ",", "2", ",", "3">>, D("j", "x") }}
  \cup {[Relocs(t, <<>>) EXCEPT !.call = "instructions"] : t \in Open}

RelaxedJobs == RelaxJobs(Relaxing)
AllJobs ==
  PlainTexts(4) \cup {Assemble(t) : t \in Comments \cup Strings} \cup FieldJobs
  \cup RelaxedJobs \cup LabelJobs \cup OpenJobs \cup DirectiveJobs \cup DecodeJobs

-------------------------------------------------------------------------------
(* Calls that show where the code departs from what it says.                     *)

DifferenceJobs ==
  {Assemble(Lines(<<L("x"), p, L("y"), <<".word", " ", "y", "-", "x">>>>)) :
     p \in Padding \cup {Nop}}
  \cup {Assemble(Lines(<<<<".word", " ", "y", "-", "x">>, L("x"), Nop, L("y")>>))}
ShortJobs == RelaxJobs({"jnz15"})
CommentJobs == TextJobs(4)
===============================================================================
