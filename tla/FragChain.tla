------------------------------- MODULE FragChain ------------------------------
(* The frags of .text as nyxstone_glue.c walks them: their layout, the padding   *)
(* of .align and .org, the relax chains of the branches, the image of the        *)
(* section and the place of a fixup in it.  Offsets are small integers, bytes     *)
(* and instruction words are sets of bits.                                        *)
EXTENDS FieldEncoding, Scan, Sequences, SequencesExt

CONSTANTS
    RlxMore,    \* md_relax_table: the next longer state, 0 at the end of a chain
    RlxRange,   \* the displacements a state reaches: <<backward, forward>>
    Shape       \* what md_convert_frag makes of a state: size, form of the fixup
                \* and its place behind the start of the instruction

States == DOMAIN RlxMore

\* A branch frag ends in the two opcode bytes md_assemble has written.
OpcodeBytes == 2

ASSUME RelaxTable ==
    /\ States \subseteq Nat /\ 0 \in States /\ IsFiniteSet(States)
    /\ \A s \in States : /\ RlxMore[s] \in States
                         /\ Shape[s].size \in Nat /\ Shape[s].size >= OpcodeBytes
                         /\ Shape[s].at \in Nat /\ Shape[s].form \in RelForms \ DataForms

\* A state is followed by a longer one, and no two by the same; what it reaches
\* may begin at either side of the branch, but not beyond.
ASSUME RelaxOrder ==
    \A s \in {p \in States : RlxMore[p] # 0} :
        /\ Shape[s].size < Shape[RlxMore[s]].size
        /\ \A p \in States : RlxMore[p] = RlxMore[s] => p = s
        /\ RlxRange[s][1] \in Int /\ RlxRange[s][1] <= 0
        /\ RlxRange[s][2] \in Int /\ RlxRange[s][2] >= -OpcodeBytes

FragTypes == {"unset", "fill", "align", "org", "machine"}
IsFrag(f) ==
    /\ f.type \in FragTypes /\ f.fill \in Byte /\ f.var \in {0, 1}
    /\ f.off \in Int /\ f.sub \in Nat
    /\ \A k \in DOMAIN f.lit : f.lit[k] \in Byte

\* off: the exponent of .align, the target of .org, the addend of a branch, and
\* at the end the size of the padding.  sub: the state of a branch, the maximum
\* to skip of .align.  sym, op: what a branch refers to and its mnemonic.
NewFrag(type) == [type |-> type, lit |-> <<>>, fill |-> {}, var |-> 0, off |-> 0,
                  sub |-> 0, sym |-> <<"", 0>>, op |-> ""]
FreshChain == <<NewFrag("fill")>>

\* frag_more, and frag_var: the tail is closed, a frag of type 0 follows it.
FragMore(frags, bytes) == [frags EXCEPT ![Len(frags)].lit = @ \o bytes]
LeftOpen(frags, closed) == Append(frags, NewFrag("unset"))
FragVar(frags, closed) == Append([frags EXCEPT ![Len(frags)] = closed], NewFrag("unset"))
FragNow(frags) == Len(frags)
FragNowFix(frags) == Len(Last(frags).lit)

FixSize(f) == Len(f.lit)
FillSize(f) == IF f.type = "fill" /\ f.var > 0 /\ f.off > 0 THEN f.off * f.var ELSE 0

\* The address of each frag, and the one behind the last.
Layout(frags) ==
  Before(Len(frags), 0, [i \in DOMAIN frags |-> [a \in Int |->
                           a + FixSize(frags[i]) + FillSize(frags[i])]])

ToBoundary(off, p2) == (Pow2(p2) - (off % Pow2(p2))) % Pow2(p2)
NoMaxSkip(off, p2, maxSkip) == ToBoundary(off, p2)
PadTo(off, p2, maxSkip) ==
  LET pad == ToBoundary(off, p2)
  IN IF maxSkip > 0 /\ pad > maxSkip THEN 0 ELSE pad

Backwards(f, off) == f.type = "org" /\ f.off < off
Pad(f, off) ==
  CASE f.type = "align"                      -> PadTo(off, f.off, f.sub)
    [] f.type = "org" /\ ~ Backwards(f, off) -> f.off - off
    [] f.type = "org" /\ Backwards(f, off)   -> 0
    [] OTHER                                 -> FillSize(f)

(* finalize_align_org: where each frag comes to lie while the padding before it *)
(* is being computed.                                                           *)
FinalAddresses(frags) ==
  Before(Len(frags), 0, [i \in DOMAIN frags |-> [a \in Int |->
                           a + FixSize(frags[i]) + Pad(frags[i], a + FixSize(frags[i]))]])

Finalized(frags) ==
  LET addr == FinalAddresses(frags)
  IN [i \in DOMAIN frags |->
        IF frags[i].type \in {"align", "org"}
        THEN [frags[i] EXCEPT !.type = "fill", !.var = 1,
                              !.off = Pad(frags[i], addr[i] + FixSize(frags[i]))]
        ELSE frags[i]]

OrgErrors(frags) ==
  {i \in DOMAIN frags :
     Backwards(frags[i], FinalAddresses(frags)[i] + FixSize(frags[i]))}

-------------------------------------------------------------------------------
(* Relaxation.                                                                   *)

\* chain_head: the search for a predecessor starts at index 1.  Both walks end
\* after as many steps as the table has entries.
TableSize == Cardinality(States)
Predecessors(s) == {p \in States \ {0} : RlxMore[p] = s}
Shorter(s) == IF Predecessors(s) = {} THEN s ELSE Min(Predecessors(s))
ChainHead(sub) ==
  After(TableSize, sub, [k \in 1..TableSize |-> [s \in States |-> Shorter(s)]])

Longer(s) == IF RlxMore[s] = 0 THEN s ELSE RlxMore[s]
ChainTerminal(sub) ==
  After(TableSize, sub, [k \in 1..TableSize |-> [s \in States |-> Longer(s)]])

(* relax_segment lays the frags out with the sizes of the current states, and   *)
(* grows a branch whose displacement is out of its state's range.               *)
RelaxSize(f, a) ==
  IF f.type = "machine" THEN FixSize(f) - OpcodeBytes + Shape[f.sub].size
  ELSE FixSize(f) + Pad(f, a + FixSize(f))
RelaxAddresses(frags) ==
  Before(Len(frags), 0, [i \in DOMAIN frags |-> [a \in Int |-> a + RelaxSize(frags[i], a)]])

InRange(s, d) == RlxRange[s][1] <= d /\ d <= RlxRange[s][2]

\* md_convert_frag: the opcode bytes of the final state.
Converted(f, opcode) ==
  IF f.type = "machine"
  THEN [f EXCEPT !.type = "fill", !.lit = SubSeq(@, 1, Len(@) - OpcodeBytes) \o opcode]
  ELSE f

-------------------------------------------------------------------------------
(* The image of the section.                                                     *)

Fill(f) == [k \in 1..FillSize(f) |-> f.fill]
Image(frags) == FlattenSeq([i \in DOMAIN frags |-> frags[i].lit \o Fill(frags[i])])

\* rd_le and wr_le; positions in the image count from 1, offsets from 0.
RdLe(buf, at, n) == UNION {Shift(buf[at + i], 8 * (i - 1)) : i \in 1..n}
WrLe(buf, at, n, w) ==
  [k \in DOMAIN buf |-> IF k \in (at + 1)..(at + n) THEN ByteOf(w, k - at - 1) ELSE buf[k]]

\* TriCore marks a 32-bit instruction in the first bit of its first byte.
InsnLength(b) == IF 0 \in b THEN 4 ELSE 2
FieldLength(form, b) ==
  CASE form \in {"32ABS", "32REL"} -> 4
    [] form = "16ABS"              -> 2
    [] form = "8ABS"               -> 1
    [] OTHER                       -> InsnLength(b)

EncodeAt(buf, at, form, v) ==
  LET n == FieldLength(form, buf[at + 1])
  IN WrLe(buf, at, n, Encode(form, RdLe(buf, at, n), v))

\* The encoded image goes back into the frags, the fill is only stepped over.
CopiedBack(frags, buf) ==
  LET addr == Layout(frags)
  IN [i \in DOMAIN frags |->
        [frags[i] EXCEPT !.lit = SubSeq(buf, addr[i] + 1, addr[i] + Len(@))]]
===============================================================================
