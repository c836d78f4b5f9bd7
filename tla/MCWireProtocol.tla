--------------------------- MODULE MCWireProtocol ---------------------------
(* An instance of WireProtocol for TLC: sizes on both sides of MaxFrame    *)
(* and of Base.                                                            *)
EXTENDS WireProtocol

t == 10   \* the units of text; Base - 1 is none
u == 11
x == Base - 1

Repeat(v, n) == [i \in 1 .. n |-> v]

SomeTexts == {<<>>, <<t>>, <<t, u, t>>, Repeat(t, MaxFrame - 1), Repeat(u, MaxFrame),
              Repeat(t, MaxFrame + 1)}
SomeBytes == {<<>>, <<0>>, <<x, 1>>, Repeat(0, MaxFrame - 1), Repeat(x, MaxFrame + 1),
              Repeat(1, Base)}

L(n, at) == [name |-> n, address |-> at]
Labels == {<<>>, <<L(<<t>>, x)>>, <<L(<<t>>, 0), L(<<u, t>>, 1)>>,
           Repeat(L(<<>>, 0), Base), Repeat(L(<<>>, 0), Base + 1),
           <<L(Repeat(t, MaxFrame + 1), 0)>>}

In(at, txt, b) == [address |-> at, assembly |-> txt, bytes |-> b]
SomeInsns == {<<>>, <<In(0, <<t>>, <<x, 0>>)>>, <<In(1, <<u>>, <<0>>), In(2, <<>>, <<1>>)>>,
              Repeat(In(0, <<>>, <<>>), Base), <<In(0, Repeat(t, MaxFrame + 1), <<>>)>>}

R(off, add, nm) == [offset |-> off, addend |-> add, type |-> 2, name |-> nm, addr |-> x]
SomeRelocs == {<<>>, <<R(0, None, <<t>>)>>, <<R(1, 0, <<>>)>>, <<R(x, x, <<u>>), R(0, 3, <<>>)>>,
               Repeat(R(0, 0, <<>>), Base)}

E(tag, msg) == [tag |-> tag, msg |-> msg]
SomeErrors == {E("Init", <<t>>), E("Alloc", <<>>), E("NullArg", <<>>),
               E("SectionViolation", <<t, u>>), E("DisassembleFailed", <<u>>),
               E("Unknown", <<t>>)}
              \cup {E("AssembleFailed", txt) : txt \in SomeTexts}

Calls ==
    {[op |-> "Assemble", src |-> s, address |-> 3, labels |-> ls, relocs |-> r, insns |-> i] :
        s \in SomeTexts, ls \in Labels, r \in BOOLEAN, i \in BOOLEAN}
    \cup
    {[op |-> "Disassemble", bytes |-> b, address |-> x, count |-> n, relocs |-> FALSE, insns |-> i] :
        b \in SomeBytes, n \in {0, 1, Base - 1, Base, Base + 1}, i \in BOOLEAN}

(* Unknown opcode, truncated body, text that is not UTF-8, nothing at all; *)
(* a label count larger than the body, up to the most that can be reserved *)
(* and above it; a disassemble count, which reserves nothing; and a length *)
(* out of bounds.                                                          *)
Malformed == { <<0, 9, 0, 0>>, <<2, 1, 0, 0, 3, 0>>, <<4, 1, 0, 0, 3, 0, 1, x>>,
               <<0, 3, 0, 0>>, <<3, 4, 0, 0, 0, 0, x>>,
               <<3, 2, 0, 0, 3, 5, 0>>, <<3, 6, 0, 0, 3, MaxReserve, 0>>,
               <<3, 5, 0, 0, 3, MaxReserve + 1, 0>>, <<2, 1, 0, 0, 0, x>>,
               <<3, 3, 0, 0, 3, x, 1>>, <<x, 1, 0, 0>> }
=============================================================================
