-------------------------- MODULE MCAssembleSession --------------------------
(* Instances of AssembleSession for TLC: the calls the threads choose from. *)
EXTENDS AssembleSession

CONSTANTS a, b

I(op)    == [op |-> op, name |-> a]   \* the name does not matter
A(op)    == [op |-> op, name |-> a]
B(op)    == [op |-> op, name |-> b]
L(n, v)  == [name |-> n, address |-> v]
Plain(src, labels, at)  == [source |-> src, labels |-> labels, address |-> at,
                            relocs |-> FALSE]
Relocs(src, labels, at) == [source |-> src, labels |-> labels, address |-> at,
                            relocs |-> TRUE]

(* Errors of every origin, alone and in pairs that compete.                *)
Faulty == { <<A("def"), I("bad"), A("def")>>,
            <<I("quoting"), I("reject")>>, <<I("reject"), I("quoting")>>,
            <<I("section"), I("bad")>>, <<I("section"), I("reject")>>,
            <<I("insn"), I("org"), A("near")>>, <<A("odd"), I("org"), A("def")>>,
            <<A("def"), A("odd")>>, <<I("reject")>>, <<I("bad"), I("huge")>>,
            <<I("fatal")>> }
(* Forward, backward and external references.                              *)
Sound  == { <<>>, <<A("ref"), A("def"), I("insn")>>, <<A("near"), B("word")>>,
            <<A("def"), B("near"), B("def"), A("ref")>>,
            <<A("near"), A("word"), I("insn"), A("def")>> }

LabelLists == { <<>>, <<L(a, 1)>>, <<L(a, 9), L(b, 2)>>, <<L(a, 1), L(a, 1)>> }

SmallInputs ==
    {Plain(src, labels, at) : src \in Sound, labels \in LabelLists, at \in {0, 8}}
    \cup {Relocs(src, labels, at) : src \in Sound, labels \in LabelLists, at \in {0, 8}}
    \cup {Plain(src, labels, 8) : src \in Faulty, labels \in {<<>>, <<L(a, 1)>>}}
    \cup {Relocs(src, <<>>, 8) : src \in Faulty}

FewInputs ==
    {Plain(src, <<>>, 8) : src \in Faulty}
    \cup {Relocs(<<A("near"), B("word")>>, <<L(a, 1)>>, 8),
          Plain(<<A("near"), B("word")>>, <<L(a, 9), L(b, 2)>>, 8)}

=============================================================================
