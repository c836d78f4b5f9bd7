------------------------ MODULE WireProtocol_proofs ------------------------
(***************************************************************************)
(* For any requests, answers and malformed frames, of any length: what one *)
(* side writes is what the other side reads, or it is refused, or replaced *)
(* by an error that says so; and no unit is left on the socket.            *)
(*                                                                         *)
(* The readers are the inverses of the writers, field by field (ReadIntIs  *)
(* to ReadRelocIs).  A counted list is read by a recursive function, and   *)
(* written by flattening: SetInduction follows the two along the list, one *)
(* entry at a time (Pile, Reads, ReadsTakeAll).  From there a whole body   *)
(* is read back (ParsedRequest, EveryAnswerArrives), and a whole frame     *)
(* (FrameIs).  WireInv then says which frame is where during a call.       *)
(***************************************************************************)
EXTENDS WireProtocol, WellFoundedInduction, SequenceTheorems, TLAPS

-----------------------------------------------------------------------------
(* Induction: a set of naturals with 0 and every successor has them all.   *)
(* What is to hold of n is written as membership of n in a set.            *)

LEMMA LeastNat ==
    ASSUME NEW T \in SUBSET Nat, T # {}
    PROVE  \E x \in T : \A y \in T : x <= y
<1> DEFINE R == OpToRel(<, Nat)
<1>1. IsWellFoundedOn(R, Nat)
    BY NatLessThanWellFounded
<1>2. \A x, y \in Nat : x < y => <<x, y>> \in R
    BY DEF OpToRel
<1> HIDE DEF R
<1>3. PICK x \in T : \A y \in T : ~ (<<y, x>> \in R)
    BY <1>1, WFMin
<1>4. \A y \in T : y \in Nat /\ x \in Nat /\ ~ (y < x)
    BY <1>2, <1>3
<1>5. \A y \in T : x <= y
    BY <1>4
<1>6. QED BY <1>5

LEMMA SetInduction ==
    ASSUME NEW S, 0 \in S, \A n \in Nat : n \in S => n + 1 \in S
    PROVE  Nat \subseteq S
<1> DEFINE T == Nat \ S
<1>1. SUFFICES ASSUME T # {} PROVE FALSE
    OBVIOUS
<1>2. T \in SUBSET Nat
    OBVIOUS
<1> HIDE DEF T
<1>3. PICK x \in T : \A y \in T : x <= y
    BY <1>1, <1>2, LeastNat
<1>4. x \in Nat /\ x \notin S /\ x # 0
    BY <1>3 DEF T
<1>5. x - 1 \in Nat /\ x - 1 \notin T
    BY <1>2, <1>3, <1>4
<1>6. x - 1 \in S
    BY <1>5 DEF T
<1>7. QED BY <1>4, <1>5, <1>6

-----------------------------------------------------------------------------
(* Sequences of units.                                                     *)

LEMMA NumIs == \A v \in Units : Num(v) = <<v>>
BY WireAssumption DEF Num, Units

LEMMA NumTyped == \A v \in Int : Num(v) \in Seq(Units) /\ Len(Num(v)) = 1
BY WireAssumption DEF Num, Units

LEMMA UnitTyped == \A v \in Units : v \in Int /\ Num(v) \in Seq(Units) /\ Len(Num(v)) = 1
<1>1. \A v \in Units : v \in Int
    BY DEF Units
<1>2. QED BY <1>1, NumTyped

LEMMA BytesTyped ==
    ASSUME NEW b \in Seq(Units)
    PROVE  Bytes(b) \in Seq(Units) /\ Len(Bytes(b)) = 1 + Len(b)
<1>1. Num(Len(b)) \in Seq(Units) /\ Len(Num(Len(b))) = 1
    BY NumTyped
<1>2. QED BY <1>1, ConcatProperties, ZenonT(30) DEF Bytes

LEMMA CutAt ==
    ASSUME NEW S, NEW b \in Seq(S), NEW r \in Seq(S)
    PROVE  /\ SubSeq(b \o r, 1, Len(b)) = b
           /\ SubSeq(b \o r, Len(b) + 1, Len(b \o r)) = r
<1>1. SubSeq(b \o r, 1, Len(b)) = b
    BY SubSeqOfConcat1, SubSeqFull
<1>2. QED BY <1>1, ConcatProperties, SubSeqProperties

LEMMA Assoc ==
    ASSUME NEW a \in Seq(Units), NEW b \in Seq(Units), NEW r \in Seq(Units)
    PROVE  /\ (a \o b) \o r = a \o (b \o r)
           /\ a \o b \in Seq(Units) /\ Len(a \o b) = Len(a) + Len(b)
BY SMTT(30), ConcatAssociative, ConcatProperties

LEMMA AssocIs ==
    ASSUME NEW a, NEW b, NEW r,
           a \in Seq(Units), b \in Seq(Units), r \in Seq(Units)
    PROVE  (a \o b) \o r = a \o (b \o r)
BY Assoc

LEMMA Closed ==
    ASSUME NEW a, NEW b, a \in Seq(Units), b \in Seq(Units)
    PROVE  a \o b \in Seq(Units) /\ Len(a \o b) = Len(a) + Len(b)
BY ConcatProperties

LEMMA UnitOf ==
    ASSUME NEW a \in Seq(Units), NEW b \in Seq(Units)
    PROVE  /\ \A i \in 1 .. Len(a) : (a \o b)[i] = a[i]
           /\ \A i \in 1 .. Len(b) : (a \o b)[Len(a) + i] = b[i]
<1>1. \A i \in 1 .. Len(a) + Len(b) :
          (a \o b)[i] = IF i <= Len(a) THEN a[i] ELSE b[i - Len(a)]
    BY ConcatProperties
<1>2. Len(a) \in Nat /\ Len(b) \in Nat
    OBVIOUS
<1>3. QED BY <1>1, <1>2

LEMMA Cancel ==
    ASSUME NEW a \in Seq(Units), NEW b \in Seq(Units), NEW c \in Seq(Units),
           a \o b = a \o c
    PROVE  b = c
<1>1. b = SubSeq(a \o b, Len(a) + 1, Len(a \o b))
    BY CutAt
<1>2. c = SubSeq(a \o c, Len(a) + 1, Len(a \o c))
    BY CutAt
<1>3. QED BY <1>1, <1>2

LEMMA PairIs == \A u, v : <<u>> \o <<v>> = <<u, v>>
<1> SUFFICES ASSUME NEW u, NEW v PROVE <<u>> \o <<v>> = <<u, v>>
    OBVIOUS
<1> DEFINE S == {u, v}
           w == <<u>> \o <<v>>
<1>1. <<u>> \in Seq(S) /\ <<v>> \in Seq(S) /\ <<u, v>> \in Seq(S)
    OBVIOUS
<1>2. w \in Seq(S) /\ Len(w) = 2 /\ w[1] = u /\ w[2] = v
    BY <1>1, ConcatProperties
<1>3. Len(<<u, v>>) = 2 /\ <<u, v>>[1] = u /\ <<u, v>>[2] = v
    OBVIOUS
<1> HIDE DEF w
<1>4. \A i \in 1..2 : w[i] = <<u, v>>[i]
    BY <1>2, <1>3
<1>5. w = <<u, v>>
    BY <1>1, <1>2, <1>3, <1>4, SeqEqual
<1>6. QED BY <1>5 DEF w

-----------------------------------------------------------------------------
(* A reader takes back what the writer put in front of the rest.           *)

LEMMA ReadIntIs ==
    ASSUME NEW v \in Units, NEW r \in Seq(Units)
    PROVE  ReadInt(Num(v) \o r) = Parsed(v, r)
<1>1. Num(v) \o r = <<v>> \o r
    BY NumIs
<1>2. <<v>> \o r # <<>> /\ Head(<<v>> \o r) = v /\ Tail(<<v>> \o r) = r
    OBVIOUS
<1>3. QED BY <1>1, <1>2 DEF ReadInt

LEMMA ParsedIs ==
    ASSUME NEW v, NEW r
    PROVE  Parsed(v, r) # NoParse /\ Parsed(v, r)[1] = v /\ Parsed(v, r)[2] = r
BY DEF Parsed, NoParse

LEMMA ReadBytesIs ==
    ASSUME NEW b \in Seq(Units), Fits(b), NEW r \in Seq(Units)
    PROVE  ReadBytes(Bytes(b) \o r) = Parsed(b, r)
<1>1. Len(b) \in Units /\ ~ (Len(b) > MaxFrame) /\ ~ (Len(b) > Len(b \o r))
    BY WireAssumption, Assoc DEF Fits, Units
<1>2. Num(Len(b)) \in Seq(Units)
    BY NumTyped
<1>3. Bytes(b) \o r = Num(Len(b)) \o (b \o r) /\ b \o r \in Seq(Units)
    BY <1>2, Assoc DEF Bytes
<1>4. ReadInt(Bytes(b) \o r) = Parsed(Len(b), b \o r)
    BY <1>1, <1>3, ReadIntIs
<1>5. /\ SubSeq(b \o r, 1, Len(b)) = b
      /\ SubSeq(b \o r, Len(b) + 1, Len(b \o r)) = r
    BY CutAt
<1> DEFINE P == Parsed(Len(b), b \o r)
<1>6. P # NoParse /\ P[1] = Len(b) /\ P[2] = b \o r
    BY ParsedIs
<1> HIDE DEF P
<1>7. ReadInt(Bytes(b) \o r) = P
    BY <1>4 DEF P
<1>8. QED BY <1>1, <1>5, <1>6, <1>7 DEF ReadBytes, Then

LEMMA TextIsUnits == Seq(TextUnits) \subseteq Seq(Units)
BY WireAssumption

LEMMA ReadTextIs ==
    ASSUME NEW b \in Seq(TextUnits), Fits(b), NEW r \in Seq(Units)
    PROVE  ReadText(Bytes(b) \o r) = Parsed(b, r)
<1>1. ReadBytes(Bytes(b) \o r) = Parsed(b, r)
    BY TextIsUnits, ReadBytesIs
<1>2. IsText(b)
    BY DEF IsText
<1>3. QED BY <1>1, <1>2, ParsedIs DEF ReadText, Then

LEMMA ReadLabelIs ==
    ASSUME NEW l \in LabelType, Fits(l.name), NEW r \in Seq(Units)
    PROVE  ReadLabel(Label(l) \o r) = Parsed(l, r)
<1>1. l.name \in Seq(TextUnits) /\ l.name \in Seq(Units) /\ l.address \in Units
    BY TextIsUnits DEF LabelType
<1>2. Num(l.address) \in Seq(Units) /\ Bytes(l.name) \in Seq(Units)
    BY <1>1, UnitTyped, BytesTyped
<1>3. Label(l) \o r = Bytes(l.name) \o (Num(l.address) \o r)
      /\ Num(l.address) \o r \in Seq(Units)
    BY <1>2, Assoc DEF Label
<1>4. ReadText(Label(l) \o r) = Parsed(l.name, Num(l.address) \o r)
    BY <1>1, <1>3, ReadTextIs
<1>5. ReadInt(Num(l.address) \o r) = Parsed(l.address, r)
    BY <1>1, ReadIntIs
<1>6. l = [name |-> l.name, address |-> l.address]
    BY DEF LabelType
<1>7. QED BY <1>4, <1>5, <1>6, ParsedIs DEF ReadLabel, Then

LEMMA ReadInsnIs ==
    ASSUME NEW i \in InsnType, Fits(i.assembly), Fits(i.bytes), NEW r \in Seq(Units)
    PROVE  ReadInsn(Insn(i) \o r) = Parsed(i, r)
<1> DEFINE a == Num(i.address)
           t == Bytes(i.assembly)
           b == Bytes(i.bytes)
           left2 == b \o r
           left1 == t \o left2
<1>1. /\ i.assembly \in Seq(TextUnits) /\ i.assembly \in Seq(Units)
      /\ i.bytes \in Seq(Units) /\ i.address \in Units
    BY TextIsUnits DEF InsnType
<1>2. a \in Seq(Units) /\ t \in Seq(Units) /\ b \in Seq(Units)
    BY <1>1, UnitTyped, BytesTyped
<1>3. left2 \in Seq(Units)
    <2> HIDE DEF b
    <2>1. QED BY <1>2, Assoc
<1>4. left1 \in Seq(Units)
    <2> HIDE DEF t, left2
    <2>1. QED BY <1>2, <1>3, Assoc
<1>5. Insn(i) \o r = a \o left1
    <2> DEFINE d == a \o t
    <2>1. Insn(i) = d \o b
        BY DEF Insn
    <2> HIDE DEF a, t, b, d, left1, left2
    <2>2. d \in Seq(Units)
        BY <1>2, Assoc DEF d
    <2>3. left2 \in Seq(Units)
        BY <1>2, Assoc DEF left2
    <2>4. d \o left2 = a \o (t \o left2)
        <3> HIDE DEF left2
        <3>1. (a \o t) \o left2 = a \o (t \o left2)
            BY <1>2, <2>3, AssocIs, SMTT(20)
        <3>2. QED BY <3>1 DEF d
    <2>5. (d \o b) \o r = d \o left2
        <3> HIDE DEF d
        <3>1. (d \o b) \o r = d \o (b \o r)
            BY <1>2, <2>2, AssocIs, SMTT(20)
        <3>2. QED BY <3>1 DEF left2
    <2>6. QED BY <2>1, <2>4, <2>5 DEF left1
<1>6. ReadBytes(left2) = Parsed(i.bytes, r)
    BY <1>1, ReadBytesIs
<1> HIDE DEF left2
<1>7. ReadText(left1) = Parsed(i.assembly, left2)
    BY <1>1, <1>3, ReadTextIs
<1> HIDE DEF left1
<1>8. ReadInt(Insn(i) \o r) = Parsed(i.address, left1)
    BY <1>1, <1>4, <1>5, ReadIntIs
<1>9. i = [address |-> i.address, assembly |-> i.assembly, bytes |-> i.bytes]
    BY DEF InsnType
<1>10. QED BY <1>6, <1>7, <1>8, <1>9, ParsedIs DEF ReadInsn, Then

\* ReadReloc once the offset and the two addend units are read.
RelocEnd(off, has, add, s) ==
    Then(ReadInt(s), LAMBDA ty, r4 :
    Then(ReadText(r4), LAMBDA nm, r5 : Then(ReadInt(r5), LAMBDA at, r6 :
        Parsed([offset |-> off, addend |-> IF has # 0 THEN add ELSE None,
                type |-> ty, name |-> nm, addr |-> at], r6))))

LEMMA ReadRelocIs ==
    ASSUME NEW x \in RelocType, Fits(x.name), NEW r \in Seq(Units)
    PROVE  ReadReloc(Reloc(x) \o r) = Parsed(x, r)
<1> DEFINE has == IF x.addend = None THEN 0 ELSE 1
           add == IF x.addend = None THEN 0 ELSE x.addend
           s1 == Num(x.offset)
           s2 == Num(has)
           s3 == Num(add)
           s4 == Num(x.type)
           s5 == Bytes(x.name)
           s6 == Num(x.addr)
           r5 == s6 \o r
           r4 == s5 \o r5
           r3 == s4 \o r4
           r2 == s3 \o r3
           r1 == s2 \o r2
           m  == s2 \o s3
           before == (s1 \o m) \o s4
<1>1. /\ x.name \in Seq(TextUnits) /\ x.name \in Seq(Units)
      /\ x.offset \in Units /\ x.type \in Units /\ x.addr \in Units
      /\ has \in Units /\ add \in Units
    BY TextIsUnits, WireAssumption DEF RelocType, Units
<1>2. /\ s1 \in Seq(Units) /\ s2 \in Seq(Units) /\ s3 \in Seq(Units)
      /\ s4 \in Seq(Units) /\ s5 \in Seq(Units) /\ s6 \in Seq(Units)
    BY <1>1, UnitTyped, BytesTyped
<1>3. Reloc(x) = (before \o s5) \o s6
    <2> HIDE DEF has, add
    <2>1. s2 = <<has>> /\ s3 = <<add>>
        BY <1>1, NumIs
    <2>2. <<has>> \o <<add>> = <<has, add>>
        BY PairIs
    <2>3. m = <<has, add>>
        BY <2>1, <2>2
    <2>4. (IF x.addend = None THEN <<0, 0>> ELSE <<1, x.addend>>) = <<has, add>>
        BY DEF has, add
    <2>5. QED BY <2>3, <2>4 DEF Reloc
<1>4. ReadInt(r5) = Parsed(x.addr, r)
    BY <1>1, ReadIntIs
<1> HIDE DEF s1, s2, s3, s4, s5, s6
<1>5. r5 \in Seq(Units) /\ m \in Seq(Units)
    BY <1>2, Assoc
<1>6. ReadText(r4) = Parsed(x.name, r5)
    BY <1>1, <1>5, ReadTextIs DEF s5
<1> HIDE DEF r5
<1>7. r4 \in Seq(Units)
    BY <1>2, <1>5, Assoc
<1>8. ReadInt(r3) = Parsed(x.type, r4)
    BY <1>1, <1>7, ReadIntIs DEF s4
<1> HIDE DEF r4
<1>9. r3 \in Seq(Units)
    BY <1>2, <1>7, Assoc
<1>10. ReadInt(r2) = Parsed(add, r3)
    BY <1>1, <1>9, ReadIntIs DEF s3
<1> HIDE DEF r3
<1>11. r2 \in Seq(Units)
    BY <1>2, <1>9, Assoc
<1>12. ReadInt(r1) = Parsed(has, r2)
    BY <1>1, <1>11, ReadIntIs DEF s2
<1> HIDE DEF r2
<1>13. r1 \in Seq(Units)
    BY <1>2, <1>11, Assoc
<1>14. m \o r3 = r1
    <2>1. s2 \in Seq(Units) /\ s3 \in Seq(Units) /\ r3 \in Seq(Units)
        BY <1>2, <1>9
    <2>2. (s2 \o s3) \o r3 = s2 \o (s3 \o r3)
        BY <2>1, AssocIs, SMTT(20)
    <2>3. QED BY <2>2 DEF r2
<1> HIDE DEF r1, m
<1> DEFINE start == s1 \o m
<1>14a. before \in Seq(Units)
    <2>1. start \in Seq(Units)
        BY <1>2, <1>5, Assoc
    <2> HIDE DEF start
    <2>2. start \o s4 \in Seq(Units)
        BY <1>2, <2>1, Assoc
    <2>3. QED BY <2>2 DEF start
<1>15. before \o r4 = s1 \o (m \o r3)
    <2>1. s1 \in Seq(Units) /\ m \in Seq(Units) /\ s4 \in Seq(Units) /\ r4 \in Seq(Units)
        BY <1>2, <1>5, <1>7
    <2> HIDE DEF start
    <2>2. start \in Seq(Units)
        BY <1>2, <1>5, <1>7, Assoc DEF start
    <2>3. r3 \in Seq(Units)
        BY <2>1, Assoc DEF r3
    <2>4. start \o r3 = s1 \o (m \o r3)
        <3> HIDE DEF r3
        <3>1. (s1 \o m) \o r3 = s1 \o (m \o r3)
            BY <2>1, <2>3, AssocIs, SMTT(20)
        <3>2. QED BY <3>1 DEF start
    <2>5. (start \o s4) \o r4 = start \o r3
        <3> HIDE DEF start
        <3>1. (start \o s4) \o r4 = start \o (s4 \o r4)
            BY <2>1, <2>2, AssocIs, SMTT(20)
        <3>2. QED BY <3>1 DEF r3
    <2>6. before = start \o s4
        BY DEF before, start
    <2>7. QED BY <2>4, <2>5, <2>6
<1> HIDE DEF before
<1>16. ((before \o s5) \o s6) \o r = before \o r4
    <2> DEFINE d == before \o s5
    <2>1. before \in Seq(Units) /\ s5 \in Seq(Units) /\ s6 \in Seq(Units)
        BY <1>2, <1>14a
    <2> HIDE DEF d
    <2>2. d \in Seq(Units)
        BY <2>1, Assoc DEF d
    <2>3. r5 \in Seq(Units)
        BY <2>1, Assoc DEF r5
    <2>4. d \o r5 = before \o (s5 \o r5)
        <3> HIDE DEF r5
        <3>1. (before \o s5) \o r5 = before \o (s5 \o r5)
            BY <2>1, <2>3, AssocIs, SMTT(20)
        <3>2. QED BY <3>1 DEF d
    <2>5. (d \o s6) \o r = d \o r5
        <3> HIDE DEF d
        <3>1. (d \o s6) \o r = d \o (s6 \o r)
            BY <2>1, <2>2, AssocIs, SMTT(20)
        <3>2. QED BY <3>1 DEF r5
    <2>6. before \o s5 = d
        BY DEF d
    <2>7. QED BY <2>4, <2>5, <2>6 DEF r4
<1>17. Reloc(x) \o r = s1 \o r1
    BY <1>3, <1>14, <1>15, <1>16
<1>18. ReadInt(Reloc(x) \o r) = Parsed(x.offset, r1)
    BY <1>1, <1>13, <1>17, ReadIntIs DEF s1
<1>19. x = [offset |-> x.offset, addend |-> IF has # 0 THEN add ELSE None,
            type |-> x.type, name |-> x.name, addr |-> x.addr]
    BY DEF RelocType
<1> HIDE DEF has, add
<1>20. RelocEnd(x.offset, has, add, r3) = Parsed(x, r)
    BY <1>4, <1>6, <1>8, <1>19, ParsedIs DEF RelocEnd, Then
<1>21. ReadReloc(Reloc(x) \o r) = RelocEnd(x.offset, has, add, r3)
    <2> DEFINE p1 == Parsed(x.offset, r1)
               p2 == Parsed(has, r2)
               p3 == Parsed(add, r3)
    <2>1. p1 # NoParse /\ p1[1] = x.offset /\ p1[2] = r1
        BY ParsedIs
    <2>2. p2 # NoParse /\ p2[1] = has /\ p2[2] = r2
        BY ParsedIs
    <2>3. p3 # NoParse /\ p3[1] = add /\ p3[2] = r3
        BY ParsedIs
    <2>4. ReadInt(Reloc(x) \o r) = p1 /\ ReadInt(r1) = p2 /\ ReadInt(r2) = p3
        BY <1>10, <1>12, <1>18
    <2> HIDE DEF p1, p2, p3
    <2>5. QED BY <2>1, <2>2, <2>3, <2>4 DEF ReadReloc, RelocEnd, Then
<1>22. QED BY <1>20, <1>21

-----------------------------------------------------------------------------
(* The pieces of a flattened sequence, one after the other: f[i] is what   *)
(* the first i of them make.                                               *)
Pile(ps, n, f) ==
    /\ f \in [0 .. n -> Seq(Units)]
    /\ f[0] = <<>> /\ f[n] = FlattenSeq(ps)
    /\ \A i \in 0 .. n - 1 : f[i + 1] = f[i] \o ps[i + 1]

Onto(ps, i, below) == IF i = 1 THEN ps[i] ELSE below \o ps[i]
Rising(ps, k, g) == g = [i \in 1 .. k |-> Onto(ps, i, g[i - 1])]

LEMMA RisingAt ==
    ASSUME NEW ps, NEW k \in Nat, NEW g, Rising(ps, k, g), NEW i \in 1 .. k
    PROVE  g[i] = Onto(ps, i, g[i - 1])
BY Zenon DEF Rising

LEMMA RisingGrows ==
    ASSUME NEW ps, NEW j \in Nat, NEW g, Rising(ps, j, g)
    PROVE  \E h : Rising(ps, j + 1, h)
<1> DEFINE last == Onto(ps, j + 1, g[j])
           h == [i \in 1 .. j + 1 |-> IF i = j + 1 THEN last ELSE g[i]]
<1>1. ASSUME NEW i \in 1 .. j + 1 PROVE h[i] = Onto(ps, i, h[i - 1])
    <2>1. CASE i = j + 1
        <3>1. h[i] = Onto(ps, i, g[j])
            BY <2>1
        <3>2. CASE j = 0
            BY <2>1, <3>1, <3>2 DEF Onto
        <3>3. CASE j # 0
            <4>1. j \in 1 .. j + 1 /\ j # j + 1 /\ i - 1 = j
                BY <2>1, <3>3
            <4>2. h[i - 1] = g[j]
                BY <4>1
            <4>3. QED BY <3>1, <4>2
        <3>4. QED BY <3>2, <3>3
    <2>2. CASE i # j + 1
        <3>1. i \in 1 .. j /\ h[i] = g[i]
            BY <2>2
        <3>2. g[i] = Onto(ps, i, g[i - 1])
            BY <3>1, RisingAt
        <3>3. CASE i = 1
            BY <3>1, <3>2, <3>3 DEF Onto
        <3>4. CASE i # 1
            <4>1. i - 1 \in 1 .. j + 1 /\ i - 1 # j + 1
                BY <2>2, <3>4
            <4>2. h[i - 1] = g[i - 1]
                BY <4>1
            <4>3. QED BY <3>1, <3>2, <4>2
        <3>5. QED BY <3>3, <3>4
    <2>3. QED BY <2>1, <2>2
<1>2. h = [i \in 1 .. j + 1 |-> h[i]]
    OBVIOUS
<1> HIDE DEF h
<1>3. h = [i \in 1 .. j + 1 |-> Onto(ps, i, h[i - 1])]
    BY <1>1, <1>2, Zenon
<1>4. Rising(ps, j + 1, h)
    BY <1>3 DEF Rising
<1>5. QED BY <1>4
LEMMA RisingExists ==
    ASSUME NEW n \in Nat, NEW ps \in [1 .. n -> Seq(Units)], NEW k \in Nat, k <= n
    PROVE  \E g : Rising(ps, k, g)
<1> DEFINE S == {j \in Nat : \E g : Rising(ps, j, g)}
<1>1. 0 \in S
    <2>1. Rising(ps, 0, [i \in 1..0 |-> <<>>])
        BY DEF Rising
    <2>2. QED BY <2>1
<1>2. ASSUME NEW j \in Nat, j \in S PROVE j + 1 \in S
    <2>1. PICK g : Rising(ps, j, g)
        BY <1>2
    <2>2. QED BY <2>1, RisingGrows
<1> HIDE DEF S
<1>3. k \in S
    BY <1>1, <1>2, SetInduction
<1>4. QED BY <1>3 DEF S

LEMMA RisingTyped ==
    ASSUME NEW n \in Nat, NEW ps \in [1 .. n -> Seq(Units)], NEW g, Rising(ps, n, g),
           NEW k \in 1 .. n
    PROVE  g[k] \in Seq(Units)
<1> DEFINE S == {j \in Nat : j \in 1 .. n => g[j] \in Seq(Units)}
<1>0. \A i \in 1 .. n : ps[i] \in Seq(Units)
    OBVIOUS
<1>1. 0 \in S
    OBVIOUS
<1>2. ASSUME NEW j \in Nat, j \in S, j + 1 \in 1 .. n PROVE g[j + 1] \in Seq(Units)
    <2>0. g[j + 1] = Onto(ps, j + 1, g[(j + 1) - 1])
        BY <1>2, RisingAt
    <2>1. g[j + 1] = Onto(ps, j + 1, g[j])
        <3>1. (j + 1) - 1 = j
            OBVIOUS
        <3>2. QED BY <2>0, <3>1
    <2>2. ps[j + 1] \in Seq(Units)
        BY <1>0, <1>2
    <2>3. CASE j = 0
        BY <2>1, <2>2, <2>3 DEF Onto
    <2>4. CASE j # 0
        <3>1. g[j] \in Seq(Units)
            BY <1>2, <2>4
        <3>2. g[j + 1] = g[j] \o ps[j + 1]
            <4>1. j + 1 # 1
                BY <2>4
            <4>2. QED BY <2>1, <4>1, Zenon DEF Onto
        <3>3. QED BY <2>2, <3>1, <3>2, Closed
    <2>5. QED BY <2>3, <2>4
<1>3. \A j \in Nat : j \in S => j + 1 \in S
    BY <1>2
<1> HIDE DEF S
<1>4. k \in Nat /\ k \in S
    <2>1. Nat \subseteq S
        BY <1>1, <1>3, SetInduction
    <2>2. QED BY <2>1
<1>5. QED BY <1>4 DEF S

LEMMA FlattenIsPile ==
    ASSUME NEW n \in Nat, NEW ps \in [1 .. n -> Seq(Units)]
    PROVE  \E f : Pile(ps, n, f)
<1>0. \A i \in 1 .. n : ps[i] \in Seq(Units)
    OBVIOUS
<1>1. CASE n = 0
    <2> DEFINE f == [i \in 0 .. 0 |-> <<>>]
    <2>0. ps = <<>> /\ Len(ps) = 0
        BY <1>1
    <2>1. FlattenSeq(ps) = <<>>
        BY <2>0 DEF FlattenSeq
    <2>2. Pile(ps, n, f)
        BY <1>1, <2>1 DEF Pile
    <2>3. QED BY <2>2
<1>2. CASE n # 0
    <2> DEFINE g == CHOOSE h : h = [i \in 1 .. n |-> IF i = 1 THEN ps[i] ELSE h[i - 1] \o ps[i]]
               f == [i \in 0 .. n |-> IF i = 0 THEN <<>> ELSE g[i]]
    <2>1. Rising(ps, n, g)
        <3>1. \E h : Rising(ps, n, h)
            BY RisingExists
        <3>2. Rising(ps, n, CHOOSE h : Rising(ps, n, h))
            BY <3>1, Zenon
        <3>3. QED BY <3>2, Zenon DEF Rising, Onto
    <2>2. Len(ps) = n
        OBVIOUS
    <2>2a. FlattenSeq(ps) = g[n]
        BY <1>2, <2>2 DEF FlattenSeq
    <2> HIDE DEF g
    <2>3. \A i \in 1 .. n : g[i] \in Seq(Units)
        BY <2>1, RisingTyped
    <2>5. ASSUME NEW i \in 0 .. n - 1 PROVE f[i + 1] = f[i] \o ps[i + 1]
        <3>1. f[i + 1] = g[i + 1] /\ ps[i + 1] \in Seq(Units)
            BY <1>0
        <3>1a. g[i + 1] = Onto(ps, i + 1, g[i])
            <4>1. i + 1 \in 1 .. n /\ (i + 1) - 1 = i
                OBVIOUS
            <4>2. QED BY <2>1, <4>1, RisingAt, ZenonT(30)
        <3>2. CASE i = 0
            <4>1. f[i] = <<>> /\ g[i + 1] = ps[i + 1]
                BY <3>1a, <3>2 DEF Onto
            <4>2. QED BY <3>1, <4>1, ConcatEmptySeq
        <3>3. CASE i # 0
            <4>1. f[i] = g[i] /\ i + 1 # 1
                BY <3>3
            <4>2. g[i + 1] = g[i] \o ps[i + 1]
                BY <3>1a, <4>1, Zenon DEF Onto
            <4>3. QED BY <3>1, <4>1, <4>2
        <3>4. QED BY <3>2, <3>3
    <2>6. f \in [0 .. n -> Seq(Units)]
        BY <1>0, <2>3
    <2>7. Pile(ps, n, f)
        <3>1. f[0] = <<>> /\ f[n] = FlattenSeq(ps)
            BY <1>2, <2>2a
        <3> HIDE DEF f
        <3>2. QED BY <2>5, <2>6, <3>1, Zenon DEF Pile
    <2>8. QED BY <2>7
<1>3. QED BY <1>1, <1>2

LEMMA PileAt ==
    ASSUME NEW n \in Nat, NEW ps \in [1 .. n -> Seq(Units)], NEW f, Pile(ps, n, f),
           NEW i \in 0 .. n - 1
    PROVE  /\ f[i + 1] = f[i] \o ps[i + 1]
           /\ f[i] \in Seq(Units) /\ ps[i + 1] \in Seq(Units)
<1>1. f[i + 1] = f[i] \o ps[i + 1]
    BY Zenon DEF Pile
<1>2. f \in [0 .. n -> Seq(Units)]
    BY DEF Pile
<1>3. f[i] \in Seq(Units)
    BY <1>2
<1>4. ps[i + 1] \in Seq(Units)
    OBVIOUS
<1>5. QED BY <1>1, <1>3, <1>4

LEMMA FlattenTyped ==
    ASSUME NEW n \in Nat, NEW ps \in [1 .. n -> Seq(Units)]
    PROVE  FlattenSeq(ps) \in Seq(Units)
<1>1. PICK f : Pile(ps, n, f)
    BY FlattenIsPile
<1>2. QED BY <1>1 DEF Pile

(* Non-empty pieces: as long a pile at least.                              *)
LEMMA FlattenLong ==
    ASSUME NEW n \in Nat, NEW ps \in [1 .. n -> Seq(Units)], \A i \in 1 .. n : Len(ps[i]) >= 1
    PROVE  Len(FlattenSeq(ps)) >= n
<1>1. PICK f : Pile(ps, n, f)
    BY FlattenIsPile
<1> DEFINE S == {j \in Nat : j <= n => Len(f[j]) >= j}
<1>0. \A i \in 1 .. n : ps[i] \in Seq(Units)
    OBVIOUS
<1>2. 0 \in S
    BY <1>1 DEF Pile
<1>3. ASSUME NEW j \in Nat, j \in S, j + 1 <= n PROVE Len(f[j + 1]) >= j + 1
    <2>0. j \in 0 .. n - 1 /\ j + 1 \in 1 .. n
        BY <1>3
    <2>1. /\ f[j + 1] = f[j] \o ps[j + 1]
          /\ f[j] \in Seq(Units) /\ ps[j + 1] \in Seq(Units)
        BY <1>1, <2>0, PileAt
    <2>2. Len(ps[j + 1]) >= 1 /\ Len(f[j]) >= j
        BY <1>3, <2>0
    <2>3. Len(f[j + 1]) = Len(f[j]) + Len(ps[j + 1])
        BY <2>1, Closed
    <2> DEFINE u == Len(f[j])
               v == Len(ps[j + 1])
               w == Len(f[j + 1])
    <2>4. u \in Nat /\ v \in Nat
        BY <2>1, LenProperties
    <2>5. w = u + v /\ u >= j /\ v >= 1
        BY <2>2, <2>3
    <2> HIDE DEF u, v, w
    <2>6. w >= j + 1
        BY <2>4, <2>5
    <2>7. QED BY <2>6 DEF w
<1>4. \A j \in Nat : j \in S => j + 1 \in S
    BY <1>3, <1>0
<1> HIDE DEF S
<1>5. n \in S
    BY <1>0, <1>2, <1>4, SetInduction
<1>6. QED BY <1>0, <1>1, <1>5 DEF S, Pile

(* What is left of the pile above a piece.                                 *)
Rest(ps, f, k) == \E q \in Seq(Units) : FlattenSeq(ps) = f[k] \o q

LEMMA PileRest ==
    ASSUME NEW n \in Nat, NEW ps \in [1 .. n -> Seq(Units)], NEW f, Pile(ps, n, f), NEW k \in 0 .. n
    PROVE  Rest(ps, f, k)
<1> DEFINE P(j) == \E q \in Seq(Units) : f[n] = f[n - j] \o q
           S == {j \in Nat : j <= n => P(j)}
<1>0. \A i \in 1 .. n : ps[i] \in Seq(Units)
    OBVIOUS
<1>1. f \in [0 .. n -> Seq(Units)] /\ f[n] = FlattenSeq(ps)
    BY DEF Pile
<1>2. P(0)
    <2>1. f[n] \in Seq(Units) /\ n - 0 = n
        BY <1>0, <1>1
    <2>2. f[n] = f[n] \o <<>>
        BY <2>1, ConcatEmptySeq
    <2>3. <<>> \in Seq(Units)
        OBVIOUS
    <2>4. QED BY <2>1, <2>2, <2>3
<1>3. ASSUME NEW j \in Nat, P(j), j + 1 <= n PROVE P(j + 1)
    <2> DEFINE i == n - j
               a == f[i - 1]
               b == ps[i]
    <2>1. i \in 1 .. n /\ n - (j + 1) = i - 1
        BY <1>0, <1>3
    <2>2. PICK q \in Seq(Units) : f[n] = f[i] \o q
        BY <1>3
    <2>3. f[i] = a \o b /\ a \in Seq(Units) /\ b \in Seq(Units)
        <3> DEFINE m == i - 1
        <3>1. m \in 0 .. n - 1 /\ m + 1 = i
            BY <2>1
        <3> HIDE DEF m
        <3>2. /\ f[m + 1] = f[m] \o ps[m + 1]
              /\ f[m] \in Seq(Units) /\ ps[m + 1] \in Seq(Units)
            BY <3>1, PileAt
        <3>3. QED BY <3>1, <3>2 DEF m
    <2>4. a = f[n - (j + 1)]
        BY <2>1
    <2> HIDE DEF a, b, i
    <2>5. (a \o b) \o q = a \o (b \o q)
        BY <2>3, AssocIs, SMTT(20)
    <2>6. b \o q \in Seq(Units)
        BY <2>3, Closed
    <2>7. f[n] = a \o (b \o q)
        BY <2>2, <2>3, <2>5
    <2>8. QED BY <2>4, <2>6, <2>7
<1> HIDE DEF P
<1>4. 0 \in S /\ \A j \in Nat : j \in S => j + 1 \in S
    BY <1>2, <1>3
<1>5. n - k \in Nat /\ n - k <= n /\ n - (n - k) = k
    BY <1>0
<1> HIDE DEF S
<1>6. n - k \in S
    BY <1>5, <1>4, SetInduction
<1>7. P(n - k)
    BY <1>5, <1>6 DEF S
<1>8. QED BY <1>1, <1>5, <1>7 DEF P, Rest

(* A chain of reads, each of which takes one piece, takes them all.        *)
TakesOne(g, n, ps, list) ==
    \A i \in 1 .. n : \A q \in Seq(Units) :
        g[i - 1] = Parsed(SubSeq(list, 1, i - 1), ps[i] \o q)
            => g[i] = Parsed(SubSeq(list, 1, i), q)

TakesAll(g, n, ps, T, list, r) ==
    /\ n \in Nat /\ ps \in [1 .. n -> Seq(Units)]
    /\ list \in Seq(T) /\ Len(list) = n /\ r \in Seq(Units)
    /\ g[0] = Parsed(<<>>, FlattenSeq(ps) \o r) /\ TakesOne(g, n, ps, list)

LEMMA ReadsTakeAll ==
    ASSUME NEW g, NEW n, NEW ps, NEW T, NEW list, NEW r, TakesAll(g, n, ps, T, list, r)
    PROVE  g[n] = Parsed(list, r)
<1>a. /\ n \in Nat /\ ps \in [1 .. n -> Seq(Units)]
      /\ list \in Seq(T) /\ Len(list) = n /\ r \in Seq(Units)
    BY DEF TakesAll
<1>b. g[0] = Parsed(<<>>, FlattenSeq(ps) \o r) /\ TakesOne(g, n, ps, list)
    BY DEF TakesAll
<1> USE <1>a
<1>1. PICK f : Pile(ps, n, f)
    BY FlattenIsPile
<1> DEFINE all == FlattenSeq(ps)
           P(j) == \E q \in Seq(Units) : /\ g[j] = Parsed(SubSeq(list, 1, j), q \o r)
                                         /\ all = f[j] \o q
           S == {j \in Nat : j <= n => P(j)}
<1>0. \A i \in 1 .. n : ps[i] \in Seq(Units)
    OBVIOUS
<1>2. f \in [0 .. n -> Seq(Units)] /\ f[n] = all /\ all \in Seq(Units) /\ f[0] = <<>>
    BY <1>0, <1>1 DEF Pile
<1>3. P(0)
    <2> HIDE DEF all
    <2>1. SubSeq(list, 1, 0) = <<>>
        BY SubSeqEmpty
    <2>2. all = <<>> \o all
        BY <1>2, ConcatEmptySeq
    <2>3. g[0] = Parsed(<<>>, all \o r)
        BY <1>b DEF all
    <2>4. QED BY <1>2, <2>1, <2>2, <2>3
<1>4. ASSUME NEW j \in Nat, P(j), j + 1 <= n PROVE P(j + 1)
    <2> DEFINE a == f[j]
               b == ps[j + 1]
    <2>1. PICK q \in Seq(Units) : g[j] = Parsed(SubSeq(list, 1, j), q \o r) /\ all = a \o q
        BY <1>4
    <2>0. j \in 0 .. n - 1 /\ j + 1 \in 0 .. n /\ j <= n
        BY <1>4
    <2>2. PICK w \in Seq(Units) : all = f[j + 1] \o w
        <3> DEFINE i == j + 1
        <3>1. i \in 0 .. n
            BY <2>0
        <3> HIDE DEF i
        <3>2. Rest(ps, f, i)
            BY <1>1, <3>1, PileRest
        <3>3. QED BY <3>2 DEF Rest, i
    <2>3. f[j + 1] = a \o b /\ a \in Seq(Units) /\ b \in Seq(Units)
        BY <1>1, <2>0, PileAt, ZenonT(30)
    <2> HIDE DEF a, b, all
    <2>4. b \o w \in Seq(Units)
        BY <2>3, Closed
    <2>5. a \o (b \o w) = all
        <3>0. a \in Seq(Units) /\ b \in Seq(Units)
            BY <2>3
        <3> HIDE <1>a
        <3>1. (a \o b) \o w = a \o (b \o w)
            BY <3>0, AssocIs, SMTT(20)
        <3>2. QED BY <2>2, <2>3, <3>1
    <2>6. q = b \o w
        <3> DEFINE c == b \o w
        <3>1. c \in Seq(Units) /\ a \o q = a \o c
            BY <2>1, <2>4, <2>5
        <3> HIDE DEF c
        <3>2. q = c
            BY <2>3, <3>1, Cancel
        <3>3. QED BY <3>2 DEF c
    <2>7. q \o r = b \o (w \o r)
        <3>0. b \in Seq(Units) /\ r \in Seq(Units)
            BY <2>3
        <3> HIDE <1>a
        <3>1. (b \o w) \o r = b \o (w \o r)
            BY <3>0, AssocIs, SMTT(20)
        <3>2. QED BY <2>6, <3>1
    <2>8. w \o r \in Seq(Units)
        BY Closed
    <2>9. g[j + 1] = Parsed(SubSeq(list, 1, j + 1), w \o r)
        <3> DEFINE c == w \o r
                   i == j + 1
        <3>1. i \in 1 .. n /\ i - 1 = j /\ c \in Seq(Units)
            BY <1>0, <1>4, <2>8
        <3>2. g[i - 1] = Parsed(SubSeq(list, 1, i - 1), ps[i] \o c)
            BY <2>1, <2>7, <3>1 DEF b
        <3> HIDE DEF c, i
        <3>3. g[i] = Parsed(SubSeq(list, 1, i), c)
            BY <1>b, <3>1, <3>2 DEF TakesOne
        <3>4. QED BY <3>3 DEF c, i
    <2>10. QED BY <2>2, <2>9
<1> HIDE DEF P, all
<1>5. 0 \in S /\ \A j \in Nat : j \in S => j + 1 \in S
    BY <1>3, <1>4
<1> HIDE DEF S
<1>6. n \in S
    BY <1>5, SetInduction
<1>6a. P(n)
    BY <1>6 DEF S
<1>7. PICK q \in Seq(Units) : g[n] = Parsed(SubSeq(list, 1, n), q \o r) /\ all = all \o q
    BY <1>2, <1>6a DEF P
<1>8. q = <<>>
    <2>1. all \o <<>> = all
        BY <1>2, ConcatEmptySeq
    <2>2. <<>> \in Seq(Units)
        OBVIOUS
    <2>3. QED BY <1>2, <1>7, <2>1, <2>2, Cancel
<1>9. <<>> \o r = r /\ SubSeq(list, 1, n) = list
    BY ConcatEmptySeq, SubSeqFull
<1>10. QED BY <1>7, <1>8, <1>9

-----------------------------------------------------------------------------
(* Counted lists.                                                          *)

ReadStep(kind, parse) ==
    CASE kind = "label" -> ReadOneMore(ReadLabel, parse)
      [] kind = "insn"  -> ReadOneMore(ReadInsn, parse)
      [] OTHER          -> ReadOneMore(ReadReloc, parse)
Reads(kind, n, s, g) ==
    g = [i \in 0 .. n |-> IF i = 0 THEN Parsed(<<>>, s) ELSE ReadStep(kind, g[i - 1])]

LEMMA ReadsAt ==
    ASSUME NEW kind, NEW n \in Nat, NEW s, NEW g, Reads(kind, n, s, g)
    PROVE  /\ g[0] = Parsed(<<>>, s)
           /\ \A i \in 1 .. n : g[i] = ReadStep(kind, g[i - 1])
<1>1. g[0] = Parsed(<<>>, s)
    BY DEF Reads
<1>2. ASSUME NEW i \in 1 .. n PROVE g[i] = ReadStep(kind, g[i - 1])
    <2>1. i \in 0 .. n /\ i # 0
        OBVIOUS
    <2>2. QED BY <2>1, Zenon DEF Reads
<1>3. QED BY <1>1, <1>2

LEMMA ReadsGrow ==
    ASSUME NEW kind, NEW n \in Nat, NEW s, NEW g, Reads(kind, n, s, g)
    PROVE  \E h : Reads(kind, n + 1, s, h)
<1> DEFINE last == ReadStep(kind, g[n])
           h == [i \in 0 .. n + 1 |-> IF i = n + 1 THEN last ELSE g[i]]
           P(i) == IF i = 0 THEN Parsed(<<>>, s) ELSE ReadStep(kind, h[i - 1])
<1>1. ASSUME NEW i \in 0 .. n + 1 PROVE h[i] = P(i)
    <2>1. CASE i = n + 1
        <3>1. i # 0 /\ i - 1 = n /\ n \in 0 .. n + 1 /\ n # n + 1
            BY <2>1
        <3>2. h[i] = last /\ h[i - 1] = g[n]
            BY <2>1, <3>1
        <3>3. QED BY <3>1, <3>2
    <2>2. CASE i = 0
        <3>1. h[0] = g[0]
            OBVIOUS
        <3>2. g[0] = Parsed(<<>>, s)
            BY ReadsAt
        <3>3. QED BY <2>2, <3>1, <3>2
    <2>3. CASE i \in 1 .. n
        <3>1. h[i] = g[i] /\ i # 0
            BY <2>3
        <3>2. i - 1 \in 0 .. n + 1 /\ i - 1 # n + 1
            BY <2>3
        <3>3. h[i - 1] = g[i - 1]
            BY <3>2
        <3>4. g[i] = ReadStep(kind, g[i - 1])
            BY <2>3, ReadsAt
        <3>5. QED BY <3>1, <3>3, <3>4
    <2>4. QED BY <2>1, <2>2, <2>3
<1>2. h = [i \in 0 .. n + 1 |-> h[i]]
    OBVIOUS
<1> HIDE DEF h
<1>3. h = [i \in 0 .. n + 1 |-> P(i)]
    BY <1>1, <1>2, Zenon
<1>4. Reads(kind, n + 1, s, h)
    BY <1>3 DEF Reads
<1>5. QED BY <1>4

LEMMA ReadsExist ==
    ASSUME NEW kind, NEW n \in Nat, NEW s
    PROVE  \E g : Reads(kind, n, s, g)
<1> DEFINE S == {k \in Nat : \E g : Reads(kind, k, s, g)}
<1>1. 0 \in S
    <2>1. Reads(kind, 0, s, [i \in 0 .. 0 |-> Parsed(<<>>, s)])
        BY DEF Reads
    <2>2. QED BY <2>1
<1>2. ASSUME NEW k \in Nat, k \in S PROVE k + 1 \in S
    BY <1>2, ReadsGrow
<1> HIDE DEF S
<1>3. n \in S
    BY <1>1, <1>2, SetInduction
<1>4. QED BY <1>3 DEF S

LEMMA CountIsReads ==
    ASSUME NEW n \in Nat, NEW s
    PROVE  /\ \E g : Reads("label", n, s, g) /\ ReadCount(ReadLabel, n, s) = g[n]
           /\ \E g : Reads("insn", n, s, g) /\ ReadCount(ReadInsn, n, s) = g[n]
           /\ \E g : Reads("reloc", n, s, g) /\ ReadCount(ReadReloc, n, s) = g[n]
<1>1. \A parse : /\ ReadStep("label", parse) = ReadOneMore(ReadLabel, parse)
                 /\ ReadStep("insn", parse) = ReadOneMore(ReadInsn, parse)
                 /\ ReadStep("reloc", parse) = ReadOneMore(ReadReloc, parse)
    BY DEF ReadStep
<1>2. \E g : Reads("label", n, s, g) /\ ReadCount(ReadLabel, n, s) = g[n]
    <2> DEFINE Is(g) == g = [i \in 0 .. n |-> IF i = 0 THEN Parsed(<<>>, s)
                                              ELSE ReadOneMore(ReadLabel, g[i - 1])]
               f == CHOOSE g : Is(g)
    <2>1. \A g : Is(g) <=> Reads("label", n, s, g)
        BY <1>1, Zenon DEF Reads
    <2>2. \E g : Is(g)
        BY <2>1, ReadsExist
    <2>3. Is(f)
        BY <2>2, Zenon
    <2>4. ReadCount(ReadLabel, n, s) = f[n]
        BY Zenon DEF ReadCount
    <2>5. QED BY <2>1, <2>3, <2>4
<1>3. \E g : Reads("insn", n, s, g) /\ ReadCount(ReadInsn, n, s) = g[n]
    <2> DEFINE Is(g) == g = [i \in 0 .. n |-> IF i = 0 THEN Parsed(<<>>, s)
                                              ELSE ReadOneMore(ReadInsn, g[i - 1])]
               f == CHOOSE g : Is(g)
    <2>1. \A g : Is(g) <=> Reads("insn", n, s, g)
        BY <1>1, Zenon DEF Reads
    <2>2. \E g : Is(g)
        BY <2>1, ReadsExist
    <2>3. Is(f)
        BY <2>2, Zenon
    <2>4. ReadCount(ReadInsn, n, s) = f[n]
        BY Zenon DEF ReadCount
    <2>5. QED BY <2>1, <2>3, <2>4
<1>4. \E g : Reads("reloc", n, s, g) /\ ReadCount(ReadReloc, n, s) = g[n]
    <2> DEFINE Is(g) == g = [i \in 0 .. n |-> IF i = 0 THEN Parsed(<<>>, s)
                                              ELSE ReadOneMore(ReadReloc, g[i - 1])]
               f == CHOOSE g : Is(g)
    <2>1. \A g : Is(g) <=> Reads("reloc", n, s, g)
        BY <1>1, Zenon DEF Reads
    <2>2. \E g : Is(g)
        BY <2>1, ReadsExist
    <2>3. Is(f)
        BY <2>2, Zenon
    <2>4. ReadCount(ReadReloc, n, s) = f[n]
        BY Zenon DEF ReadCount
    <2>5. QED BY <2>1, <2>3, <2>4
<1>5. QED BY <1>2, <1>3, <1>4

LEMMA ReadsList ==
    ASSUME NEW kind, NEW T, NEW list \in Seq(T), NEW ps \in [1 .. Len(list) -> Seq(Units)],
           NEW r \in Seq(Units), NEW g, Reads(kind, Len(list), FlattenSeq(ps) \o r, g),
           \A i \in 1 .. Len(list) : \A l : \A q \in Seq(Units) :
               ReadStep(kind, Parsed(l, ps[i] \o q)) = Parsed(Append(l, list[i]), q)
    PROVE  g[Len(list)] = Parsed(list, r)
<1> DEFINE n == Len(list)
<1>1. n \in Nat
    OBVIOUS
<1>2. g[0] = Parsed(<<>>, FlattenSeq(ps) \o r)
    BY <1>1, ReadsAt, ZenonT(30)
<1>3. ASSUME NEW i \in 1 .. n, NEW q \in Seq(Units),
             g[i - 1] = Parsed(SubSeq(list, 1, i - 1), ps[i] \o q)
      PROVE  g[i] = Parsed(SubSeq(list, 1, i), q)
    <2>1. g[i] = ReadStep(kind, g[i - 1])
        BY <1>1, ReadsAt
    <2>2. Append(SubSeq(list, 1, i - 1), list[i]) = SubSeq(list, 1, i)
        BY <1>1, SubSeqRecursiveSecond
    <2>3. QED BY <1>3, <2>1, <2>2
<1>4. TakesOne(g, n, ps, list)
    BY <1>3 DEF TakesOne
<1> HIDE DEF n
<1>5. Len(list) = n /\ ps \in [1 .. n -> Seq(Units)]
    BY DEF n
<1>6. g[n] = Parsed(list, r)
    <2>1. TakesAll(g, n, ps, T, list, r)
        BY <1>1, <1>2, <1>4, <1>5 DEF TakesAll
    <2>2. QED BY <2>1, ReadsTakeAll
<1>7. QED BY <1>5, <1>6

LEMMA LabelTyped ==
    ASSUME NEW l \in LabelType
    PROVE  Label(l) \in Seq(Units) /\ Len(Label(l)) >= 1
<1>1. l.name \in Seq(Units) /\ l.address \in Units
    BY TextIsUnits DEF LabelType
<1> DEFINE a == Bytes(l.name)
           b == Num(l.address)
<1>2. a \in Seq(Units) /\ b \in Seq(Units) /\ Len(b) = 1 /\ Len(a) \in Nat
    <2>1. a \in Seq(Units)
        BY <1>1, BytesTyped
    <2>2. b \in Seq(Units) /\ Len(b) = 1
        BY <1>1, UnitTyped
    <2> HIDE DEF a
    <2>3. QED BY <2>1, <2>2
<1>3. Label(l) = a \o b
    BY DEF Label
<1> HIDE DEF a, b
<1>4. Label(l) \in Seq(Units) /\ Len(Label(l)) = Len(a) + Len(b)
    BY <1>2, <1>3, Closed
<1>5. QED BY <1>2, <1>4

LEMMA InsnTyped ==
    ASSUME NEW i \in InsnType
    PROVE  Insn(i) \in Seq(Units) /\ Len(Insn(i)) >= 1
<1>1. i.assembly \in Seq(Units) /\ i.bytes \in Seq(Units) /\ i.address \in Units
    BY TextIsUnits DEF InsnType
<1> DEFINE a == Num(i.address)
           b == Bytes(i.assembly)
           c == Bytes(i.bytes)
           d == a \o b
<1>2. /\ a \in Seq(Units) /\ Len(a) = 1
      /\ b \in Seq(Units) /\ c \in Seq(Units)
    <2>1. a \in Seq(Units) /\ Len(a) = 1
        BY <1>1, UnitTyped
    <2>2. b \in Seq(Units)
        BY <1>1, BytesTyped
    <2>3. c \in Seq(Units)
        BY <1>1, BytesTyped
    <2>4. QED BY <2>1, <2>2, <2>3
<1>3. Insn(i) = d \o c
    BY DEF Insn
<1> HIDE DEF a, b, c
<1>4. d \in Seq(Units) /\ Len(d) = Len(a) + Len(b)
    BY <1>2, Closed
<1> HIDE DEF d
<1>5. Insn(i) \in Seq(Units) /\ Len(Insn(i)) = Len(d) + Len(c)
    BY <1>2, <1>3, <1>4, Closed
<1>6. Len(b) \in Nat /\ Len(c) \in Nat
    BY <1>2
<1>7. QED BY <1>2, <1>4, <1>5, <1>6

LEMMA RelocTyped ==
    ASSUME NEW x \in RelocType
    PROVE  Reloc(x) \in Seq(Units) /\ Len(Reloc(x)) >= 1
<1>1. /\ x.name \in Seq(Units) /\ x.offset \in Units /\ x.type \in Units
      /\ x.addr \in Units /\ x.addend \in Units \cup {None}
    BY TextIsUnits DEF RelocType
<1> DEFINE a == Num(x.offset)
           b == IF x.addend = None THEN <<0, 0>> ELSE <<1, x.addend>>
           c == Num(x.type)
           d == Bytes(x.name)
           e == Num(x.addr)
           ab == a \o b
           abc == ab \o c
           abcd == abc \o d
<1>2. /\ a \in Seq(Units) /\ c \in Seq(Units) /\ d \in Seq(Units) /\ e \in Seq(Units)
      /\ Len(a) = 1
    BY <1>1, UnitTyped, BytesTyped
<1>3. b \in Seq(Units)
    <2>1. 0 \in Units /\ 1 \in Units
        BY WireAssumption DEF Units
    <2>2. CASE x.addend = None
        BY <2>1, <2>2
    <2>3. CASE x.addend # None
        BY <1>1, <2>1, <2>3
    <2>4. QED BY <2>2, <2>3
<1>4. Reloc(x) = abcd \o e
    BY DEF Reloc
<1> HIDE DEF a, b, c, d, e
<1>5. ab \in Seq(Units) /\ Len(ab) = Len(a) + Len(b)
    BY <1>2, <1>3, Closed
<1> HIDE DEF ab
<1>6. abc \in Seq(Units) /\ Len(abc) = Len(ab) + Len(c)
    BY <1>2, <1>5, Closed
<1> HIDE DEF abc
<1>7. abcd \in Seq(Units) /\ Len(abcd) = Len(abc) + Len(d)
    BY <1>2, <1>6, Closed
<1> HIDE DEF abcd
<1>8. Reloc(x) \in Seq(Units) /\ Len(Reloc(x)) = Len(abcd) + Len(e)
    BY <1>2, <1>4, <1>7, Closed
<1>9. Len(b) \in Nat /\ Len(c) \in Nat /\ Len(d) \in Nat /\ Len(e) \in Nat
    BY <1>2, <1>3
<1>10. QED BY <1>2, <1>5, <1>6, <1>7, <1>8, <1>9

LEMMA Counted ==
    ASSUME NEW n \in Nat, NEW ps \in [1 .. n -> Seq(Units)], NEW body,
           \A i \in 1 .. n : Len(ps[i]) >= 1, body = Num(n) \o FlattenSeq(ps)
    PROVE  /\ body \in Seq(Units) /\ Len(body) >= n + 1
           /\ n < Base => \A r \in Seq(Units) : ReadInt(body \o r) = Parsed(n, FlattenSeq(ps) \o r)
<1> DEFINE a == Num(n)
           b == FlattenSeq(ps)
<1>1. a \in Seq(Units) /\ Len(a) = 1
    BY NumTyped
<1>2. b \in Seq(Units) /\ Len(b) >= n /\ Len(b) \in Nat
    <2>1. b \in Seq(Units)
        BY FlattenTyped
    <2>2. Len(b) >= n
        BY FlattenLong
    <2> HIDE DEF b
    <2>3. QED BY <2>1, <2>2
<1>3. ASSUME n < Base, NEW r \in Seq(Units) PROVE ReadInt(body \o r) = Parsed(n, b \o r)
    <2>1. n \in Units
        BY <1>3, WireAssumption DEF Units
    <2>2. b \o r \in Seq(Units)
        <3> HIDE DEF b
        <3>1. QED BY <1>2, Closed
    <2>3. body \o r = a \o (b \o r)
        <3> HIDE DEF a, b
        <3>1. (a \o b) \o r = a \o (b \o r)
            BY <1>1, <1>2, AssocIs, SMTT(20)
        <3>2. QED BY <3>1 DEF a, b
    <2> HIDE DEF b
    <2>4. QED BY <2>1, <2>2, <2>3, ReadIntIs
<1> HIDE DEF a, b
<1>4. body = a \o b
    BY DEF a, b
<1>5. body \in Seq(Units) /\ Len(body) = Len(a) + Len(b)
    BY <1>1, <1>2, <1>4, Closed
<1>6. Len(body) >= n + 1
    BY <1>1, <1>2, <1>5
<1>7. QED BY <1>3, <1>5, <1>6 DEF b

LEMMA LabelListed ==
    ASSUME NEW list \in Seq(LabelType)
    PROVE  /\ Each(Label, list) \in Seq(Units)
           /\ Len(Each(Label, list)) >= Len(list) + 1
<1> DEFINE n == Len(list)
           ps == [i \in 1 .. n |-> Label(list[i])]
<1>1. n \in Nat /\ \A i \in 1 .. n : list[i] \in LabelType
    OBVIOUS
<1>2. \A i \in 1 .. n : Label(list[i]) \in Seq(Units) /\ Len(Label(list[i])) >= 1
    BY <1>1, LabelTyped
<1>3. ps \in [1 .. n -> Seq(Units)] /\ \A i \in 1 .. n : Len(ps[i]) >= 1
    BY <1>2
<1>4. Each(Label, list) = Num(n) \o FlattenSeq(ps)
    BY DEF Each
<1> HIDE DEF ps
<1>5. QED BY <1>1, <1>3, <1>4, Counted

LEMMA LabelsCounted ==
    ASSUME NEW list \in Seq(LabelType)
    PROVE  Each(Label, list)[1] = Len(list) % Base
<1> DEFINE n == Len(list)
           ps == [i \in 1 .. n |-> Label(list[i])]
           rest == FlattenSeq(ps)
<1>1. n \in Nat /\ \A i \in 1 .. n : list[i] \in LabelType
    OBVIOUS
<1>2. ps \in [1 .. n -> Seq(Units)]
    BY <1>1, LabelTyped
<1>3. Each(Label, list) = Num(n) \o rest
    BY DEF Each
<1> HIDE DEF ps
<1>4. rest \in Seq(Units)
    BY <1>1, <1>2, FlattenTyped
<1> HIDE DEF rest
<1>5. (<<n % Base>> \o rest)[1] = n % Base
    BY <1>4
<1>6. QED BY <1>3, <1>5 DEF Num

LEMMA LabelListIs ==
    ASSUME NEW list \in Seq(LabelType), Len(list) < Base,
           \A i \in 1 .. Len(list) : Fits(list[i].name),
           NEW r \in Seq(Units)
    PROVE  ReadEach(ReadLabel, Each(Label, list) \o r) = Parsed(list, r)
<1> DEFINE n == Len(list)
           ps == [i \in 1 .. n |-> Label(list[i])]
           s == FlattenSeq(ps) \o r
<1>1. n \in Nat /\ n < Base /\ \A i \in 1 .. n : list[i] \in LabelType /\ Fits(list[i].name)
    OBVIOUS
<1>2. \A i \in 1 .. n : Label(list[i]) \in Seq(Units) /\ Len(Label(list[i])) >= 1
    BY <1>1, LabelTyped
<1>3. ps \in [1 .. n -> Seq(Units)] /\ \A i \in 1 .. n : Len(ps[i]) >= 1
    BY <1>2
<1>4. Each(Label, list) = Num(n) \o FlattenSeq(ps)
    BY DEF Each
<1>5. ReadInt(Each(Label, list) \o r) = Parsed(n, s)
    <2> HIDE DEF ps, n
    <2>1. QED BY <1>1, <1>3, <1>4, Counted
<1>6. PICK g : Reads("label", n, s, g) /\ ReadCount(ReadLabel, n, s) = g[n]
    BY <1>1, CountIsReads
<1>7. ASSUME NEW i \in 1 .. n, NEW l, NEW q \in Seq(Units)
      PROVE  ReadStep("label", Parsed(l, ps[i] \o q)) = Parsed(Append(l, list[i]), q)
    <2>1. ps[i] = Label(list[i])
        OBVIOUS
    <2>2. ReadLabel(Label(list[i]) \o q) = Parsed(list[i], q)
        BY <1>1, ReadLabelIs
    <2> DEFINE parse == Parsed(l, Label(list[i]) \o q)
    <2>3. parse # NoParse /\ parse[1] = l /\ parse[2] = Label(list[i]) \o q
        BY ParsedIs
    <2> HIDE DEF parse
    <2>4. ReadOneMore(ReadLabel, parse) = Parsed(Append(l, list[i]), q)
        BY <2>2, <2>3, ParsedIs DEF ReadOneMore, Then
    <2>5. ReadStep("label", parse) = Parsed(Append(l, list[i]), q)
        BY <2>4 DEF ReadStep
    <2>6. QED BY <2>1, <2>5 DEF parse
<1> HIDE DEF ps
<1>8. g[n] = Parsed(list, r)
    BY <1>3, <1>6, <1>7, ReadsList
<1>9. ReadCount(ReadLabel, n, s) = Parsed(list, r)
    BY <1>6, <1>8
<1> HIDE DEF n, s
<1>10. QED BY <1>5, <1>9, ParsedIs DEF ReadEach, Then

LEMMA InsnListed ==
    ASSUME NEW list \in Seq(InsnType)
    PROVE  /\ Each(Insn, list) \in Seq(Units)
           /\ Len(Each(Insn, list)) >= Len(list) + 1
<1> DEFINE n == Len(list)
           ps == [i \in 1 .. n |-> Insn(list[i])]
<1>1. n \in Nat /\ \A i \in 1 .. n : list[i] \in InsnType
    OBVIOUS
<1>2. \A i \in 1 .. n : Insn(list[i]) \in Seq(Units) /\ Len(Insn(list[i])) >= 1
    BY <1>1, InsnTyped
<1>3. ps \in [1 .. n -> Seq(Units)] /\ \A i \in 1 .. n : Len(ps[i]) >= 1
    BY <1>2
<1>4. Each(Insn, list) = Num(n) \o FlattenSeq(ps)
    BY DEF Each
<1> HIDE DEF ps
<1>5. QED BY <1>1, <1>3, <1>4, Counted

LEMMA InsnListIs ==
    ASSUME NEW list \in Seq(InsnType), Len(list) < Base,
           \A i \in 1 .. Len(list) : Fits(list[i].assembly) /\ Fits(list[i].bytes),
           NEW r \in Seq(Units)
    PROVE  ReadEach(ReadInsn, Each(Insn, list) \o r) = Parsed(list, r)
<1> DEFINE n == Len(list)
           ps == [i \in 1 .. n |-> Insn(list[i])]
           s == FlattenSeq(ps) \o r
<1>1. n \in Nat /\ n < Base /\ \A i \in 1 .. n : list[i] \in InsnType /\ Fits(list[i].assembly) /\ Fits(list[i].bytes)
    OBVIOUS
<1>2. \A i \in 1 .. n : Insn(list[i]) \in Seq(Units) /\ Len(Insn(list[i])) >= 1
    BY <1>1, InsnTyped
<1>3. ps \in [1 .. n -> Seq(Units)] /\ \A i \in 1 .. n : Len(ps[i]) >= 1
    BY <1>2
<1>4. Each(Insn, list) = Num(n) \o FlattenSeq(ps)
    BY DEF Each
<1>5. ReadInt(Each(Insn, list) \o r) = Parsed(n, s)
    <2> HIDE DEF ps, n
    <2>1. QED BY <1>1, <1>3, <1>4, Counted
<1>6. PICK g : Reads("insn", n, s, g) /\ ReadCount(ReadInsn, n, s) = g[n]
    BY <1>1, CountIsReads
<1>7. ASSUME NEW i \in 1 .. n, NEW l, NEW q \in Seq(Units)
      PROVE  ReadStep("insn", Parsed(l, ps[i] \o q)) = Parsed(Append(l, list[i]), q)
    <2>1. ps[i] = Insn(list[i])
        OBVIOUS
    <2>2. ReadInsn(Insn(list[i]) \o q) = Parsed(list[i], q)
        BY <1>1, ReadInsnIs
    <2> DEFINE parse == Parsed(l, Insn(list[i]) \o q)
    <2>3. parse # NoParse /\ parse[1] = l /\ parse[2] = Insn(list[i]) \o q
        BY ParsedIs
    <2> HIDE DEF parse
    <2>4. ReadOneMore(ReadInsn, parse) = Parsed(Append(l, list[i]), q)
        BY <2>2, <2>3, ParsedIs DEF ReadOneMore, Then
    <2>5. ReadStep("insn", parse) = Parsed(Append(l, list[i]), q)
        BY <2>4 DEF ReadStep
    <2>6. QED BY <2>1, <2>5 DEF parse
<1> HIDE DEF ps
<1>8. g[n] = Parsed(list, r)
    BY <1>3, <1>6, <1>7, ReadsList
<1>9. ReadCount(ReadInsn, n, s) = Parsed(list, r)
    BY <1>6, <1>8
<1> HIDE DEF n, s
<1>10. QED BY <1>5, <1>9, ParsedIs DEF ReadEach, Then

LEMMA RelocListed ==
    ASSUME NEW list \in Seq(RelocType)
    PROVE  /\ Each(Reloc, list) \in Seq(Units)
           /\ Len(Each(Reloc, list)) >= Len(list) + 1
<1> DEFINE n == Len(list)
           ps == [i \in 1 .. n |-> Reloc(list[i])]
<1>1. n \in Nat /\ \A i \in 1 .. n : list[i] \in RelocType
    OBVIOUS
<1>2. \A i \in 1 .. n : Reloc(list[i]) \in Seq(Units) /\ Len(Reloc(list[i])) >= 1
    BY <1>1, RelocTyped
<1>3. ps \in [1 .. n -> Seq(Units)] /\ \A i \in 1 .. n : Len(ps[i]) >= 1
    BY <1>2
<1>4. Each(Reloc, list) = Num(n) \o FlattenSeq(ps)
    BY DEF Each
<1> HIDE DEF ps
<1>5. QED BY <1>1, <1>3, <1>4, Counted

LEMMA RelocListIs ==
    ASSUME NEW list \in Seq(RelocType), Len(list) < Base,
           \A i \in 1 .. Len(list) : Fits(list[i].name),
           NEW r \in Seq(Units)
    PROVE  ReadEach(ReadReloc, Each(Reloc, list) \o r) = Parsed(list, r)
<1> DEFINE n == Len(list)
           ps == [i \in 1 .. n |-> Reloc(list[i])]
           s == FlattenSeq(ps) \o r
<1>1. n \in Nat /\ n < Base /\ \A i \in 1 .. n : list[i] \in RelocType /\ Fits(list[i].name)
    OBVIOUS
<1>2. \A i \in 1 .. n : Reloc(list[i]) \in Seq(Units) /\ Len(Reloc(list[i])) >= 1
    BY <1>1, RelocTyped
<1>3. ps \in [1 .. n -> Seq(Units)] /\ \A i \in 1 .. n : Len(ps[i]) >= 1
    BY <1>2
<1>4. Each(Reloc, list) = Num(n) \o FlattenSeq(ps)
    BY DEF Each
<1>5. ReadInt(Each(Reloc, list) \o r) = Parsed(n, s)
    <2> HIDE DEF ps, n
    <2>1. QED BY <1>1, <1>3, <1>4, Counted
<1>6. PICK g : Reads("reloc", n, s, g) /\ ReadCount(ReadReloc, n, s) = g[n]
    BY <1>1, CountIsReads
<1>7. ASSUME NEW i \in 1 .. n, NEW l, NEW q \in Seq(Units)
      PROVE  ReadStep("reloc", Parsed(l, ps[i] \o q)) = Parsed(Append(l, list[i]), q)
    <2>1. ps[i] = Reloc(list[i])
        OBVIOUS
    <2>2. ReadReloc(Reloc(list[i]) \o q) = Parsed(list[i], q)
        BY <1>1, ReadRelocIs
    <2> DEFINE parse == Parsed(l, Reloc(list[i]) \o q)
    <2>3. parse # NoParse /\ parse[1] = l /\ parse[2] = Reloc(list[i]) \o q
        BY ParsedIs
    <2> HIDE DEF parse
    <2>4. ReadOneMore(ReadReloc, parse) = Parsed(Append(l, list[i]), q)
        BY <2>2, <2>3, ParsedIs DEF ReadOneMore, Then
    <2>5. ReadStep("reloc", parse) = Parsed(Append(l, list[i]), q)
        BY <2>4 DEF ReadStep
    <2>6. QED BY <2>1, <2>5 DEF parse
<1> HIDE DEF ps
<1>8. g[n] = Parsed(list, r)
    BY <1>3, <1>6, <1>7, ReadsList
<1>9. ReadCount(ReadReloc, n, s) = Parsed(list, r)
    BY <1>6, <1>8
<1> HIDE DEF n, s
<1>10. QED BY <1>5, <1>9, ParsedIs DEF ReadEach, Then

-----------------------------------------------------------------------------
(* Frames.                                                                 *)

LEMMA SmallUnits == 0 \in Units /\ \A k \in 0 .. 9 : k \in Units
BY WireAssumption DEF Units

LEMMA FrameIs ==
    ASSUME NEW kind \in Units, NEW flags \in Units, NEW body,
           body \in Seq(Units), Sendable(body)
    PROVE  /\ Frame(kind, flags, body) \in Seq(Units)
           /\ HasFrame(Frame(kind, flags, body)) /\ ~ Oversized(Frame(kind, flags, body))
           /\ Kind(Frame(kind, flags, body)) = kind /\ Body(Frame(kind, flags, body)) = body
           /\ AfterFrame(Frame(kind, flags, body)) = <<>>
<1> DEFINE n == Len(body)
           num == Num(n)
           rest == <<kind, flags, 0>>
           head == num \o rest
           s == head \o body
<1>1. n \in Nat /\ n <= MaxFrame /\ n \in Units
    BY WireAssumption DEF Sendable, Units
<1>2. num = <<n>>
    BY <1>1, NumIs
<1>3. rest \in Seq(Units) /\ Len(rest) = 3 /\ rest[1] = kind
    BY SmallUnits
<1>4. num \in Seq(Units) /\ Len(num) = 1 /\ num[1] = n
    BY <1>1, <1>2
<1> HIDE DEF num, rest, n
<1>5. head \in Seq(Units) /\ Len(head) = 4 /\ head[1] = n /\ head[2] = kind
    <2>1. head \in Seq(Units) /\ Len(head) = Len(num) + Len(rest)
        BY <1>3, <1>4, Closed
    <2>2. \A i \in 1 .. Len(num) + Len(rest) :
              head[i] = IF i <= Len(num) THEN num[i] ELSE rest[i - Len(num)]
        BY <1>3, <1>4, ConcatProperties
    <2> HIDE DEF head
    <2>3. head[1] = num[1] /\ head[2] = rest[1]
        BY <1>3, <1>4, <2>2
    <2>4. QED BY <1>3, <1>4, <2>1, <2>3
<1> HIDE DEF head
<1>6. s \in Seq(Units) /\ Len(s) = 4 + n /\ s[1] = n /\ s[2] = kind
    <2>1. s \in Seq(Units) /\ Len(s) = Len(head) + Len(body)
        BY <1>5, Closed
    <2>2. \A i \in 1 .. Len(head) + Len(body) :
              s[i] = IF i <= Len(head) THEN head[i] ELSE body[i - Len(head)]
        BY <1>5, ConcatProperties
    <2> HIDE DEF s
    <2>3. Len(body) = n /\ n \in Nat
        BY DEF n
    <2>4. s[1] = head[1] /\ s[2] = head[2]
        BY <1>5, <2>2, <2>3
    <2>5. QED BY <1>5, <2>1, <2>3, <2>4
<1>7. SubSeq(s, 5, 4 + n) = body
    <2>1. SubSeq(s, Len(head) + 1, Len(s)) = body
        BY <1>5, CutAt
    <2>2. QED BY <2>1, <1>5, <1>6
<1> HIDE DEF s
<1>8. SubSeq(s, 5 + n, 4 + n) = <<>>
    BY <1>1, <1>6, SubSeqEmpty
<1>9. Frame(kind, flags, body) = s
    BY DEF Frame, s, head, num, rest, n
<1>10. HasFrame(s) /\ ~ Oversized(s)
    <2>1. Len(s) >= 4 /\ Len(s) >= 4 + s[1] /\ ~ (s[1] > MaxFrame)
        BY <1>1, <1>6, WireAssumption
    <2>2. QED BY <2>1 DEF HasFrame, HasHeader, Oversized, HeaderLen
<1>11. Kind(s) = kind /\ Body(s) = body
    BY <1>6, <1>7 DEF Kind, Body, HeaderLen
<1>12. AfterFrame(s) = <<>>
    <2>1. HeaderLen + s[1] + 1 = 5 + n
        BY <1>1, <1>6 DEF HeaderLen
    <2>2. QED BY <1>6, <1>8, <2>1 DEF AfterFrame
<1>13. QED BY <1>6, <1>9, <1>10, <1>11, <1>12

-----------------------------------------------------------------------------
(* The daemon parses the request that was written.                         *)

LEMMA ByOpcode ==
    ASSUME NEW s
    PROVE  /\ ParseRequest(1, s) = ParseAssemble(s, FALSE, FALSE)
           /\ ParseRequest(2, s) = ParseAssemble(s, FALSE, TRUE)
           /\ ParseRequest(3, s) = ParseDisasm(s, FALSE)
           /\ ParseRequest(4, s) = ParseDisasm(s, TRUE)
           /\ ParseRequest(5, s) = ParseAssemble(s, TRUE, FALSE)
           /\ ParseRequest(6, s) = ParseAssemble(s, TRUE, TRUE)
BY DEF ParseRequest

LEMMA ParsedRequest ==
    ASSUME NEW req \in Requests, RequestFits(req), ~ CountTooLarge(req),
           Sendable(RequestBody(req))
    PROVE  /\ RequestBody(req) \in Seq(Units) /\ Opcode(req) \in Units
           /\ ParseRequest(Opcode(req), RequestBody(req)) = Parsed(req, <<>>)
<1>1. CASE req \in AssembleType
    <2>1. /\ req.op = "Assemble" /\ req.src \in Seq(TextUnits) /\ req.src \in Seq(Units)
          /\ req.address \in Units /\ req.labels \in Seq(LabelType)
          /\ req.relocs \in BOOLEAN /\ req.insns \in BOOLEAN
          /\ req = [op |-> "Assemble", src |-> req.src, address |-> req.address,
                    labels |-> req.labels, relocs |-> req.relocs, insns |-> req.insns]
        BY <1>1, TextIsUnits DEF AssembleType
    <2>2. Fits(req.src) /\ \A i \in 1 .. Len(req.labels) : Fits(req.labels[i].name)
        BY <2>1 DEF RequestFits, IsAssemble
    <2> DEFINE a == Num(req.address)
               b == Each(Label, req.labels)
               c == Bytes(req.src)
               ab == a \o b
               s == ab \o c
    <2>3. a \in Seq(Units) /\ Len(a) = 1
        BY <2>1, UnitTyped
    <2>4. b \in Seq(Units) /\ Len(b) >= Len(req.labels) + 1
        BY <2>1, LabelListed
    <2>5. c \in Seq(Units)
        BY <2>1, BytesTyped
    <2>6. RequestBody(req) = s
        BY <2>1 DEF RequestBody, IsAssemble
    <2>7. s \in Seq(Units) /\ Len(req.labels) < Base
        <3>0. Len(req.labels) \in Nat
            BY <2>1
        <3>1. Len(s) <= MaxFrame
            BY <2>6 DEF Sendable
        <3> HIDE DEF a, b, c
        <3>2. ab \in Seq(Units) /\ Len(ab) = Len(a) + Len(b)
            BY <2>3, <2>4, Closed
        <3> HIDE DEF ab
        <3>3. s \in Seq(Units) /\ Len(s) = Len(ab) + Len(c)
            BY <2>5, <3>2, Closed
        <3> HIDE DEF s
        <3>4. Len(b) \in Nat /\ Len(c) \in Nat
            BY <2>4, <2>5
        <3>5. Len(req.labels) < Base
            BY <2>3, <2>4, <3>0, <3>1, <3>2, <3>3, <3>4, WireAssumption
        <3>6. QED BY <3>3, <3>5
    <2> DEFINE r2 == c \o <<>>
               r1 == b \o c
    <2>8. r2 = c
        BY <2>5, ConcatEmptySeq
    <2>9. <<>> \in Seq(Units)
        OBVIOUS
    <2>10. ReadText(c) = Parsed(req.src, <<>>)
        <3>1. ReadText(r2) = Parsed(req.src, <<>>)
            BY <2>1, <2>2, <2>9, ReadTextIs
        <3>2. QED BY <2>8, <3>1
    <2>11. ReadEach(ReadLabel, r1) = Parsed(req.labels, c)
        <3> HIDE DEF c
        <3>1. QED BY <2>1, <2>2, <2>5, <2>7, LabelListIs
    <2>12. ReadInt(s) = Parsed(req.address, r1)
        <3> HIDE DEF b, c
        <3>1. r1 \in Seq(Units)
            BY <2>4, <2>5, Closed
        <3>2. (a \o b) \o c = a \o (b \o c)
            <4> HIDE DEF a
            <4>1. QED BY <2>3, <2>4, <2>5, AssocIs, SMTT(20)
        <3>3. s = a \o r1
            BY <3>2
        <3> HIDE DEF r1, s
        <3>4. QED BY <2>1, <3>1, <3>3, ReadIntIs
    <2> HIDE DEF c, r1, s
    <2>13. ParseAssemble(s, req.relocs, req.insns) = Parsed(req, <<>>)
        <3> DEFINE v == [op |-> "Assemble", src |-> req.src, address |-> req.address,
                         labels |-> req.labels, relocs |-> req.relocs, insns |-> req.insns]
        <3>1. ParseAssemble(s, req.relocs, req.insns) = Parsed(v, <<>>)
            BY <2>10, <2>11, <2>12, ParsedIs DEF ParseAssemble, Then
        <3> HIDE DEF v
        <3>2. v = req
            BY <2>1 DEF v
        <3>3. QED BY <3>1, <3>2
    <2>14. /\ ParseRequest(Opcode(req), s) = ParseAssemble(s, req.relocs, req.insns)
          /\ Opcode(req) \in Units
        <3>0. req.relocs \in BOOLEAN /\ req.insns \in BOOLEAN
            BY <2>1
        <3>1. \/ ~ req.relocs /\ ~ req.insns
              \/ ~ req.relocs /\ req.insns
              \/ req.relocs /\ ~ req.insns
              \/ req.relocs /\ req.insns
            BY <2>1
        <3>2. IsAssemble(req)
            BY <2>1 DEF IsAssemble
        <3>3. CASE ~ req.relocs /\ ~ req.insns
            <4>1. Opcode(req) = 1
                BY <3>2, <3>3 DEF Opcode
            <4>2. req.relocs = FALSE /\ req.insns = FALSE
                BY <2>1, <3>3
            <4>3. ParseRequest(1, s) = ParseAssemble(s, FALSE, FALSE)
                BY ByOpcode
            <4>4. ParseRequest(Opcode(req), s) = ParseAssemble(s, req.relocs, req.insns)
                BY <3>0, <4>1, <4>2, <4>3
            <4>5. QED BY <4>1, <4>4, SmallUnits
        <3>4. CASE ~ req.relocs /\ req.insns
            <4>1. Opcode(req) = 2
                BY <3>2, <3>4 DEF Opcode
            <4>2. req.relocs = FALSE /\ req.insns = TRUE
                BY <2>1, <3>4
            <4>3. ParseRequest(2, s) = ParseAssemble(s, FALSE, TRUE)
                BY ByOpcode
            <4>4. ParseRequest(Opcode(req), s) = ParseAssemble(s, req.relocs, req.insns)
                BY <3>0, <4>1, <4>2, <4>3
            <4>5. QED BY <4>1, <4>4, SmallUnits
        <3>5. CASE req.relocs /\ ~ req.insns
            <4>1. Opcode(req) = 5
                BY <3>2, <3>5 DEF Opcode
            <4>2. req.relocs = TRUE /\ req.insns = FALSE
                BY <2>1, <3>5
            <4>3. ParseRequest(5, s) = ParseAssemble(s, TRUE, FALSE)
                BY ByOpcode
            <4>4. ParseRequest(Opcode(req), s) = ParseAssemble(s, req.relocs, req.insns)
                BY <3>0, <4>1, <4>2, <4>3
            <4>5. QED BY <4>1, <4>4, SmallUnits
        <3>6. CASE req.relocs /\ req.insns
            <4>1. Opcode(req) = 6
                BY <3>2, <3>6 DEF Opcode
            <4>2. req.relocs = TRUE /\ req.insns = TRUE
                BY <2>1, <3>6
            <4>3. ParseRequest(6, s) = ParseAssemble(s, TRUE, TRUE)
                BY ByOpcode
            <4>4. ParseRequest(Opcode(req), s) = ParseAssemble(s, req.relocs, req.insns)
                BY <3>0, <4>1, <4>2, <4>3
            <4>5. QED BY <4>1, <4>4, SmallUnits
        <3>7. QED BY <3>1, <3>3, <3>4, <3>5, <3>6
    <2>15. QED BY <2>6, <2>7, <2>13, <2>14
<1>2. CASE req \in DisasmType
    <2>1. /\ req.op = "Disassemble" /\ req.bytes \in Seq(Units) /\ req.count \in Nat
          /\ req.address \in Units /\ req.relocs = FALSE /\ req.insns \in BOOLEAN
          /\ req = [op |-> "Disassemble", bytes |-> req.bytes, address |-> req.address,
                    count |-> req.count, relocs |-> FALSE, insns |-> req.insns]
        BY <1>2 DEF DisasmType
    <2>2. Fits(req.bytes)
        BY <2>1 DEF RequestFits, IsAssemble
    <2>2a. req.count \in Units
        BY <2>1, WireAssumption DEF CountTooLarge, IsAssemble, Units
    <2> DEFINE a == Num(req.address)
               b == Num(req.count)
               c == Bytes(req.bytes)
               ab == a \o b
               s == ab \o c
    <2>3. a \in Seq(Units)
        BY <2>1, UnitTyped
    <2>4. b \in Seq(Units)
        BY <2>2a, UnitTyped
    <2>5. c \in Seq(Units)
        BY <2>1, BytesTyped
    <2>6. RequestBody(req) = s
        BY <2>1 DEF RequestBody, IsAssemble
    <2>7. s \in Seq(Units)
        <3> HIDE DEF a, b, c
        <3>1. ab \in Seq(Units)
            BY <2>3, <2>4, Closed
        <3> HIDE DEF ab
        <3>2. QED BY <2>5, <3>1, Closed
    <2> DEFINE r2 == c \o <<>>
               r1 == b \o c
    <2>8. r2 = c
        BY <2>5, ConcatEmptySeq
    <2>9. <<>> \in Seq(Units)
        OBVIOUS
    <2>10. ReadBytes(c) = Parsed(req.bytes, <<>>)
        <3>1. ReadBytes(r2) = Parsed(req.bytes, <<>>)
            BY <2>1, <2>2, <2>9, ReadBytesIs
        <3>2. QED BY <2>8, <3>1
    <2>11. ReadInt(r1) = Parsed(req.count, c)
        <3> HIDE DEF c
        <3>1. QED BY <2>2a, <2>5, ReadIntIs
    <2>12. ReadInt(s) = Parsed(req.address, r1)
        <3> HIDE DEF b, c
        <3>1. r1 \in Seq(Units)
            BY <2>4, <2>5, Closed
        <3>2. (a \o b) \o c = a \o (b \o c)
            <4> HIDE DEF a
            <4>1. QED BY <2>3, <2>4, <2>5, AssocIs, SMTT(20)
        <3>3. s = a \o r1
            BY <3>2
        <3> HIDE DEF r1, s
        <3>4. QED BY <2>1, <3>1, <3>3, ReadIntIs
    <2> HIDE DEF c, r1, s
    <2>13. ParseDisasm(s, req.insns) = Parsed(req, <<>>)
        <3>1. ParseDisasm(s, req.insns)
              = Parsed(Disassemble(req.bytes, req.address, req.count, req.insns), <<>>)
            BY <2>10, <2>11, <2>12, ParsedIs DEF ParseDisasm, Then
        <3>2. Disassemble(req.bytes, req.address, req.count, req.insns) = req
            BY <2>1 DEF Disassemble
        <3>3. QED BY <3>1, <3>2
    <2>14. /\ ParseRequest(Opcode(req), s) = ParseDisasm(s, req.insns)
          /\ Opcode(req) \in Units
        <3>0. req.insns \in BOOLEAN
            BY <2>1
        <3>1. ~ req.insns \/ req.insns
            BY <2>1
        <3>2. ~ IsAssemble(req)
            BY <2>1 DEF IsAssemble
        <3>3. CASE ~ req.insns
            <4>1. Opcode(req) = 3
                BY <3>2, <3>3 DEF Opcode
            <4>2. req.insns = FALSE
                BY <2>1, <3>3
            <4>3. ParseRequest(3, s) = ParseDisasm(s, FALSE)
                BY ByOpcode
            <4>4. ParseRequest(Opcode(req), s) = ParseDisasm(s, req.insns)
                BY <3>0, <4>1, <4>2, <4>3
            <4>5. QED BY <4>1, <4>4, SmallUnits
        <3>4. CASE req.insns
            <4>1. Opcode(req) = 4
                BY <3>2, <3>4 DEF Opcode
            <4>2. req.insns = TRUE
                BY <2>1, <3>4
            <4>3. ParseRequest(4, s) = ParseDisasm(s, TRUE)
                BY ByOpcode
            <4>4. ParseRequest(Opcode(req), s) = ParseDisasm(s, req.insns)
                BY <3>0, <4>1, <4>2, <4>3
            <4>5. QED BY <4>1, <4>4, SmallUnits
        <3>5. QED BY <3>1, <3>3, <3>4
    <2>15. QED BY <2>6, <2>7, <2>13, <2>14
<1>3. QED BY <1>1, <1>2, WireAssumption

-----------------------------------------------------------------------------
(* The client reads the answer that was written.                           *)

LEMMA StatusIs ==
    /\ Status.Ok = 0 /\ Status.Protocol = 7
    /\ \A t \in ErrorTags : /\ Status[t] \in Units /\ Status[t] # 0 /\ Status[t] # 7
                            /\ \A u \in ErrorTags : Status[u] = Status[t] => u = t
BY WireAssumption DEF Status, ErrorTags, Units

LEMMA NoticeIs ==
    /\ Notice \in Seq(TextUnits) /\ Notice \in Seq(Units) /\ Len(Notice) = 1 /\ Fits(Notice)
    /\ ErrBody(Notice) \in Seq(Units) /\ Sendable(ErrBody(Notice))
<1> DEFINE u == CHOOSE u \in TextUnits : TRUE
<1>1. u \in TextUnits
    BY WireAssumption
<1>2. Notice = <<u>>
    BY DEF Notice
<1> HIDE DEF u
<1>3. Notice \in Seq(TextUnits) /\ Notice \in Seq(Units) /\ Len(Notice) = 1
    <2>1. <<u>> \in Seq(TextUnits) /\ Len(<<u>>) = 1
        BY <1>1
    <2>2. QED BY <1>2, <2>1, TextIsUnits
<1>4. Fits(Notice)
    BY <1>3, WireAssumption DEF Fits
<1>5. ErrBody(Notice) = Bytes(Notice)
    BY <1>4 DEF ErrBody
<1>6. Bytes(Notice) \in Seq(Units) /\ Len(Bytes(Notice)) = 2
    <2>1. Bytes(Notice) \in Seq(Units) /\ Len(Bytes(Notice)) = 1 + Len(Notice)
        BY <1>3, BytesTyped
    <2>2. QED BY <1>3, <2>1
<1>7. Sendable(ErrBody(Notice))
    BY <1>5, <1>6, WireAssumption DEF Sendable
<1>8. QED BY <1>3, <1>4, <1>5, <1>6, <1>7

LEMMA ErrBodyIs ==
    ASSUME NEW msg \in Seq(TextUnits)
    PROVE  /\ ErrBody(msg) \in Seq(Units)
           /\ Fits(msg) => ErrBody(msg) # <<>> /\ Tail(ErrBody(msg)) = msg
           /\ ~ Fits(msg) => ErrBody(msg) = <<>>
           /\ Len(ErrBody(msg)) <= 1 + Len(msg)
<1>1. msg \in Seq(Units) /\ Len(msg) \in Nat
    BY TextIsUnits
<1> DEFINE n == Num(Len(msg))
<1>2. n \in Seq(Units) /\ Len(n) = 1
    BY <1>1, NumTyped
<1>3. Bytes(msg) = n \o msg
    BY DEF Bytes
<1> HIDE DEF n
<1>4. Bytes(msg) \in Seq(Units) /\ Len(Bytes(msg)) = 1 + Len(msg)
    BY <1>1, BytesTyped
<1>5. Bytes(msg) # <<>>
    BY <1>1, <1>4
<1>6. Tail(Bytes(msg)) = msg
    <2>1. SubSeq(n \o msg, Len(n) + 1, Len(n \o msg)) = msg
        BY <1>1, <1>2, CutAt
    <2>2. Tail(Bytes(msg)) = SubSeq(Bytes(msg), 2, Len(Bytes(msg)))
        BY <1>4, <1>5, TailIsSubSeq
    <2>3. QED BY <1>2, <1>3, <2>1, <2>2
<1>7. CASE Fits(msg)
    BY <1>1, <1>4, <1>5, <1>6, <1>7 DEF ErrBody
<1>8. CASE ~ Fits(msg)
    <2>1. ErrBody(msg) = <<>> /\ Len(<<>>) = 0
        BY <1>8 DEF ErrBody
    <2>2. QED BY <1>1, <1>8, <2>1
<1>9. QED BY <1>7, <1>8

(* What err_response keeps of a message.                                   *)
Kept(e) == CASE e.tag \in {"Alloc", "NullArg"} -> <<>>
             [] e.tag = "Unknown" -> Notice \o e.msg
             [] OTHER -> e.msg

LEMMA KeptIs ==
    ASSUME NEW e \in Errors
    PROVE  /\ e.tag \in ErrorTags /\ e.msg \in Seq(TextUnits) /\ Kept(e) \in Seq(TextUnits)
           /\ Len(Kept(e)) <= 1 + Len(e.msg)
           /\ e.tag \notin {"Alloc", "NullArg", "Unknown"} => Kept(e) = e.msg
           /\ ErrResponse(e) = Response(Status[e.tag], 0, ErrBody(Kept(e)))
<1>1. e.tag \in ErrorTags /\ e.msg \in Seq(TextUnits)
    BY WireAssumption DEF ErrorType
<1>2. Len(e.msg) \in Nat /\ <<>> \in Seq(TextUnits) /\ Len(<<>>) = 0
    BY <1>1
<1>3. Notice \o e.msg \in Seq(TextUnits) /\ Len(Notice \o e.msg) = 1 + Len(e.msg)
    <2>1. Notice \in Seq(TextUnits) /\ Len(Notice) = 1
        BY NoticeIs
    <2> HIDE DEF Kept
    <2>2. Notice \o e.msg \in Seq(TextUnits) /\ Len(Notice \o e.msg) = Len(Notice) + Len(e.msg)
        BY <1>1, <2>1, ConcatProperties
    <2>3. QED BY <2>1, <2>2
<1>4. Kept(e) \in Seq(TextUnits) /\ Len(Kept(e)) <= 1 + Len(e.msg)
    <2>1. CASE e.tag \in {"Alloc", "NullArg"}
        <3>1. Kept(e) = <<>>
            BY <2>1 DEF Kept
        <3>2. QED BY <1>2, <3>1
    <2>2. CASE e.tag = "Unknown"
        <3>1. Kept(e) = Notice \o e.msg
            BY <2>2 DEF Kept
        <3>2. QED BY <1>2, <1>3, <3>1
    <2>3. CASE e.tag \notin {"Alloc", "NullArg", "Unknown"}
        <3>1. Kept(e) = e.msg
            BY <2>3 DEF Kept
        <3>2. QED BY <1>1, <1>2, <3>1
    <2>4. QED BY <2>1, <2>2, <2>3
<1>5. e.tag \notin {"Alloc", "NullArg", "Unknown"} => Kept(e) = e.msg
    BY DEF Kept
<1>6. ErrResponse(e) = Response(Status[e.tag], 0, ErrBody(Kept(e)))
    BY DEF ErrResponse, Kept
<1>7. QED BY <1>1, <1>4, <1>5, <1>6

LEMMA FailureIs ==
    ASSUME NEW tag, NEW msg
    PROVE  Failure(tag, msg).tag = tag /\ Failure(tag, msg).msg = msg
BY DEF Failure

LEMMA ResponseIs ==
    ASSUME NEW status, NEW flags, NEW body
    PROVE  /\ Response(status, flags, body).status = status
           /\ Response(status, flags, body).flags = flags
           /\ Response(status, flags, body).body = body
BY DEF Response

LEMMA ProtocolDecoded ==
    ASSUME NEW req, NEW body
    PROVE  Decoded(req, Status.Protocol, body).tag = "Init"
<1> DEFINE msg == IF body = <<>> THEN <<>> ELSE Tail(body)
<1>1. Decoded(req, Status.Protocol, body) = DecodeErr(Status.Protocol, body)
    BY StatusIs DEF Decoded
<1>2. DecodeErr(Status.Protocol, body) = Failure("Init", Notice \o msg)
    BY DEF DecodeErr
<1> HIDE DEF msg
<1>3. QED BY <1>1, <1>2, FailureIs

LEMMA ErrorDecoded ==
    ASSUME NEW req, NEW e \in Errors, NEW body
    PROVE  Decoded(req, Status[e.tag], body)
               = Failure(e.tag, IF body = <<>> THEN <<>> ELSE Tail(body))
<1> DEFINE msg == IF body = <<>> THEN <<>> ELSE Tail(body)
           t == e.tag
           s == Status[t]
<1>1. t \in ErrorTags
    BY KeptIs
<1>2. s # Status.Ok /\ s # Status.Protocol /\ \A u \in ErrorTags : Status[u] = s => u = t
    BY <1>1, StatusIs
<1>3. Decoded(req, s, body) = DecodeErr(s, body)
    BY <1>2 DEF Decoded
<1> HIDE DEF t
<1>4. \E u \in ErrorTags : Status[u] = s
    BY <1>1
<1>5. (CHOOSE u \in ErrorTags : Status[u] = s) = t
    BY <1>1, <1>2
<1> HIDE DEF s
<1>6. DecodeErr(s, body) = Failure(t, msg)
    BY <1>2, <1>4, <1>5 DEF DecodeErr
<1>7. QED BY <1>3, <1>6 DEF s, t

LEMMA ErrorArrives ==
    ASSUME NEW req, NEW e \in Errors
    PROVE  LET resp == Downgraded(ErrResponse(e))
           IN  /\ resp.status \in Units /\ resp.flags \in Units
               /\ resp.body \in Seq(Units) /\ Sendable(resp.body)
               /\ Arrives(req, e, Decoded(req, resp.status, resp.body))
<1> DEFINE body == ErrBody(Kept(e))
           resp == Downgraded(ErrResponse(e))
           g == Decoded(req, resp.status, resp.body)
<1>1. /\ e.tag \in ErrorTags /\ e.tag # "Ok" /\ Len(e.msg) \in Nat
      /\ Kept(e) \in Seq(TextUnits) /\ Len(Kept(e)) <= 1 + Len(e.msg) /\ Len(Kept(e)) \in Nat
      /\ e.tag \notin {"Alloc", "NullArg", "Unknown"} => Kept(e) = e.msg
      /\ ErrResponse(e) = Response(Status[e.tag], 0, body)
    <2>1. /\ e.tag \in ErrorTags /\ e.msg \in Seq(TextUnits) /\ Kept(e) \in Seq(TextUnits)
          /\ Len(Kept(e)) <= 1 + Len(e.msg)
          /\ e.tag \notin {"Alloc", "NullArg", "Unknown"} => Kept(e) = e.msg
          /\ ErrResponse(e) = Response(Status[e.tag], 0, body)
        BY KeptIs
    <2>2. e.tag # "Ok"
        BY <2>1 DEF ErrorTags
    <2>3. Len(e.msg) \in Nat /\ Len(Kept(e)) \in Nat
        BY <2>1
    <2>4. QED BY <2>1, <2>2, <2>3
<1>2. /\ body \in Seq(Units) /\ Len(body) \in Nat
      /\ Fits(Kept(e)) => body # <<>> /\ Tail(body) = Kept(e)
      /\ ~ Fits(Kept(e)) => body = <<>>
      /\ Len(body) <= 1 + Len(Kept(e))
    <2>1. /\ body \in Seq(Units)
          /\ Fits(Kept(e)) => body # <<>> /\ Tail(body) = Kept(e)
          /\ ~ Fits(Kept(e)) => body = <<>>
          /\ Len(body) <= 1 + Len(Kept(e))
        BY <1>1, ErrBodyIs
    <2> HIDE DEF body
    <2>2. QED BY <2>1
<1>3. Status[e.tag] \in Units
    BY <1>1, StatusIs
<1> HIDE DEF body
<1>4. CASE Sendable(body)
    <2>1. resp = Response(Status[e.tag], 0, body)
        BY <1>1, <1>4, ResponseIs DEF Downgraded
    <2>2. resp.status = Status[e.tag] /\ resp.flags = 0 /\ resp.body = body
        BY <2>1, ResponseIs
    <2>3. g = Failure(e.tag, IF body = <<>> THEN <<>> ELSE Tail(body))
        BY <2>2, ErrorDecoded
    <2> HIDE DEF resp, g
    <2>4. CASE Fits(Kept(e))
        <3>1. g.tag = e.tag /\ g.msg = Kept(e)
            BY <1>2, <2>3, <2>4, FailureIs
        <3>2. Same(e, g)
            BY <1>1, <3>1 DEF Same
        <3>3. QED BY <1>2, <1>3, <1>4, <2>2, <3>2, SmallUnits DEF Arrives, resp, g
    <2>5. CASE ~ Fits(Kept(e))
        <3>1. g.tag = e.tag
            BY <2>3, FailureIs
        <3>2. Len(e.msg) + 2 > MaxFrame
            BY <1>1, <2>5, WireAssumption DEF Fits
        <3>3. TooLarge(req, e)
            BY <1>1, <3>2 DEF TooLarge
        <3>4. Arrives(req, e, g)
            BY <1>1, <3>1, <3>3 DEF Arrives
        <3>5. QED BY <1>2, <1>3, <1>4, <2>2, <3>4, SmallUnits DEF resp, g
    <2>6. QED BY <2>4, <2>5
<1>5. CASE ~ Sendable(body)
    <2>1. resp = ProtocolError
        BY <1>1, <1>5, ResponseIs DEF Downgraded
    <2>2. /\ resp.status = Status.Protocol /\ resp.flags = 0
          /\ resp.body = ErrBody(Notice)
        BY <2>1, ResponseIs DEF ProtocolError
    <2>3. g.tag = "Init"
        BY <2>2, ProtocolDecoded
    <2> HIDE DEF resp, g
    <2>4. Len(e.msg) + 2 > MaxFrame
        BY <1>1, <1>2, <1>5, WireAssumption DEF Sendable
    <2>5. TooLarge(req, e)
        BY <1>1, <2>4 DEF TooLarge
    <2>6. Arrives(req, e, g)
        BY <2>3, <2>5 DEF Arrives
    <2>7. Status.Protocol \in Units
        BY StatusIs, SmallUnits
    <2>8. QED BY <2>2, <2>6, <2>7, NoticeIs, SmallUnits DEF resp, g
<1>6. QED BY <1>4, <1>5

LEMMA RequestIs ==
    ASSUME NEW req \in Requests
    PROVE  /\ req.insns \in BOOLEAN /\ req.relocs \in BOOLEAN
           /\ IsAssemble(req) \/ (~ IsAssemble(req) /\ ~ req.relocs)
           /\ req.op # "raw"
<1>1. req \in AssembleType \/ req \in DisasmType
    BY WireAssumption
<1>2. QED BY <1>1 DEF AssembleType, DisasmType, IsAssemble

OkAnswer(req, a) ==
    /\ a.tag = "Ok" /\ a = Ok(a.main, a.relocs)
    /\ req.insns => a.main \in Seq(InsnType)
    /\ ~ req.insns => a.main \in Seq(Units)
    /\ ~ req.insns /\ ~ IsAssemble(req) => a.main \in Seq(TextUnits)
    /\ a.relocs \in Seq(RelocType)
    /\ ~ req.relocs => a.relocs = <<>>

LEMMA AnswerIs ==
    ASSUME NEW req \in Requests, NEW a \in Answers(req)
    PROVE  a \in Errors \/ OkAnswer(req, a)
<1> DEFINE M == IF req.insns THEN InsnLists ELSE IF IsAssemble(req) THEN ByteStrings ELSE Texts
           R == IF req.relocs THEN RelocLists ELSE {<<>>}
<1>1. SUFFICES ASSUME a \notin Errors PROVE OkAnswer(req, a)
    OBVIOUS
<1>2. a \in [tag : {"Ok"}, main : M, relocs : R]
    BY <1>1 DEF Answers
<1>3. req.insns => M \subseteq Seq(InsnType)
    BY WireAssumption
<1>4. ~ req.insns => M \subseteq Seq(Units)
    BY WireAssumption, TextIsUnits
<1>5. ~ req.insns /\ ~ IsAssemble(req) => M \subseteq Seq(TextUnits)
    BY WireAssumption
<1>6. R \subseteq Seq(RelocType) /\ (~ req.relocs => R = {<<>>})
    <2>1. <<>> \in Seq(RelocType)
        OBVIOUS
    <2>2. QED BY <2>1, WireAssumption
<1> HIDE DEF M, R
<1>7. a.tag = "Ok" /\ a.main \in M /\ a.relocs \in R /\ a = [tag |-> "Ok", main |-> a.main, relocs |-> a.relocs]
    BY <1>2
<1>8. QED BY <1>3, <1>4, <1>5, <1>6, <1>7 DEF OkAnswer, Ok

LEMMA MainRead ==
    ASSUME NEW req, NEW a, OkAnswer(req, a), MainFits(req, a)
    PROVE  /\ MainBody(req, a) \in Seq(Units) /\ Len(MainBody(req, a)) >= 1
           /\ Len(MainBody(req, a)) <= MaxFrame =>
                  \A r \in Seq(Units) :
                      ReadMain(req, MainBody(req, a) \o r) = Parsed(a.main, r)
<1>1. CASE req.insns
    <2>1. a.main \in Seq(InsnType) /\ Len(a.main) \in Nat
        BY <1>1 DEF OkAnswer
    <2>2. \A i \in 1 .. Len(a.main) : Fits(a.main[i].assembly) /\ Fits(a.main[i].bytes)
        BY <1>1 DEF MainFits, InsnsFit
    <2>3. MainBody(req, a) = Each(Insn, a.main)
        BY <1>1 DEF MainBody
    <2> DEFINE body == Each(Insn, a.main)
    <2>4. body \in Seq(Units) /\ Len(body) >= Len(a.main) + 1
        BY <2>1, InsnListed
    <2>5. ASSUME Len(body) <= MaxFrame, NEW r \in Seq(Units)
          PROVE  ReadMain(req, body \o r) = Parsed(a.main, r)
        <3>0. Len(body) \in Nat
            <4> HIDE DEF body
            <4>1. QED BY <2>4
        <3>1. Len(a.main) < Base
            <4> HIDE DEF body
            <4>1. QED BY <2>1, <2>4, <2>5, <3>0, WireAssumption
        <3>2. ReadEach(ReadInsn, body \o r) = Parsed(a.main, r)
            BY <2>1, <2>2, <3>1, InsnListIs
        <3> HIDE DEF body
        <3>3. QED BY <1>1, <3>2 DEF ReadMain
    <2> HIDE DEF body
    <2>6. Len(body) >= 1
        BY <2>1, <2>4
    <2>7. MainBody(req, a) = body
        BY <2>3 DEF body
    <2>8. QED BY <2>4, <2>5, <2>6, <2>7
<1>2. CASE ~ req.insns
    <2>1. a.main \in Seq(Units) /\ Len(a.main) \in Nat /\ Fits(a.main)
        BY <1>2 DEF OkAnswer, MainFits
    <2>2. MainBody(req, a) = Bytes(a.main)
        BY <1>2 DEF MainBody
    <2>3. Bytes(a.main) \in Seq(Units) /\ Len(Bytes(a.main)) = 1 + Len(a.main)
        BY <2>1, BytesTyped
    <2>4. ASSUME NEW r \in Seq(Units) PROVE ReadMain(req, Bytes(a.main) \o r) = Parsed(a.main, r)
        <3>1. ReadBytes(Bytes(a.main) \o r) = Parsed(a.main, r)
            BY <2>1, ReadBytesIs
        <3>2. QED BY <1>2, <3>1 DEF ReadMain
    <2> DEFINE body == Bytes(a.main)
    <2> HIDE DEF body
    <2>5. body \in Seq(Units) /\ Len(body) >= 1
        BY <2>1, <2>3 DEF body
    <2>6. \A r \in Seq(Units) : ReadMain(req, body \o r) = Parsed(a.main, r)
        BY <2>4 DEF body
    <2>7. MainBody(req, a) = body
        BY <2>2 DEF body
    <2>8. QED BY <2>5, <2>6, <2>7
<1>3. QED BY <1>1, <1>2

LEMMA RelocsRead ==
    ASSUME NEW req, NEW a, OkAnswer(req, a), RelocsFit(a.relocs), req.relocs
    PROVE  /\ Each(Reloc, a.relocs) \in Seq(Units)
           /\ Len(Each(Reloc, a.relocs)) <= MaxFrame =>
                  ReadRelocs(req, Each(Reloc, a.relocs)) = Parsed(a.relocs, <<>>)
<1>1. a.relocs \in Seq(RelocType) /\ Len(a.relocs) \in Nat
    BY DEF OkAnswer
<1>2. \A i \in 1 .. Len(a.relocs) : Fits(a.relocs[i].name)
    BY DEF RelocsFit
<1> DEFINE body == Each(Reloc, a.relocs)
           whole == body \o <<>>
<1>3. body \in Seq(Units) /\ Len(body) >= Len(a.relocs) + 1
    BY <1>1, RelocListed
<1>4. ASSUME Len(body) <= MaxFrame PROVE ReadRelocs(req, body) = Parsed(a.relocs, <<>>)
    <2>0. <<>> \in Seq(Units)
        OBVIOUS
    <2>1. Len(a.relocs) < Base
        <3> HIDE DEF body
        <3>1. Len(body) \in Nat
            BY <1>3
        <3>2. QED BY <1>1, <1>3, <1>4, <3>1, WireAssumption
    <2>2. ReadEach(ReadReloc, whole) = Parsed(a.relocs, <<>>)
        BY <1>1, <1>2, <2>0, <2>1, RelocListIs
    <2> HIDE DEF body
    <2>3. whole = body
        BY <1>3, ConcatEmptySeq
    <2>4. QED BY <2>2, <2>3 DEF ReadRelocs
<1>5. QED BY <1>3, <1>4

OkBody(req, a) == IF req.relocs THEN MainBody(req, a) \o Each(Reloc, a.relocs)
                  ELSE MainBody(req, a)

LEMMA OkDecoded ==
    ASSUME NEW req, NEW a, OkAnswer(req, a), MainFits(req, a), RelocsFit(a.relocs)
    PROVE  /\ OkBody(req, a) \in Seq(Units)
           /\ Sendable(OkBody(req, a)) => DecodeOk(req, OkBody(req, a)) = a
<1> DEFINE body == OkBody(req, a)
           mb == MainBody(req, a)
           rb == IF req.relocs THEN Each(Reloc, a.relocs) ELSE <<>>
<1>1. mb \in Seq(Units) /\ Len(mb) \in Nat
    <2>1. mb \in Seq(Units)
        BY MainRead
    <2> HIDE DEF mb
    <2>2. QED BY <2>1
<1>2. rb \in Seq(Units) /\ Len(rb) \in Nat
    <2>1. rb \in Seq(Units)
        <3>1. CASE req.relocs
            BY <3>1, RelocsRead
        <3>2. CASE ~ req.relocs
            BY <3>2
        <3>3. QED BY <3>1, <3>2
    <2> HIDE DEF rb
    <2>2. QED BY <2>1
<1>3. body = mb \o rb
    <2>1. mb \o <<>> = mb
        BY <1>1, ConcatEmptySeq
    <2>2. CASE req.relocs
        BY <2>2 DEF OkBody
    <2>3. CASE ~ req.relocs
        BY <2>1, <2>3 DEF OkBody
    <2>4. QED BY <2>2, <2>3
<1>4. body \in Seq(Units) /\ Len(body) = Len(mb) + Len(rb)
    <2> HIDE DEF mb, rb, body
    <2>1. QED BY <1>1, <1>2, <1>3, Closed
<1>5. ASSUME Sendable(body) PROVE DecodeOk(req, body) = a
    <2>1. Len(mb) <= MaxFrame /\ Len(rb) <= MaxFrame
        <3>1. Len(body) <= MaxFrame
            BY <1>5 DEF Sendable
        <3> HIDE DEF mb, rb, body
        <3>2. QED BY <1>1, <1>2, <1>4, <3>1, WireAssumption
    <2>2. ReadMain(req, body) = Parsed(a.main, rb)
        <3>1. \A r \in Seq(Units) : ReadMain(req, mb \o r) = Parsed(a.main, r)
            BY <2>1, MainRead
        <3> HIDE DEF mb, rb, body
        <3>2. ReadMain(req, mb \o rb) = Parsed(a.main, rb)
            BY <1>2, <3>1
        <3>3. QED BY <1>3, <3>2
    <2>3. ReadRelocs(req, rb) = Parsed(a.relocs, <<>>)
        <3>1. CASE req.relocs
            <4>1. rb = Each(Reloc, a.relocs)
                BY <3>1
            <4>2. QED BY <2>1, <3>1, <4>1, RelocsRead
        <3>2. CASE ~ req.relocs
            <4>1. rb = <<>> /\ a.relocs = <<>>
                BY <3>2 DEF OkAnswer
            <4>2. QED BY <3>2, <4>1 DEF ReadRelocs
        <3>3. QED BY <3>1, <3>2
    <2> HIDE DEF rb, body
    <2> DEFINE all == Then(ReadMain(req, body), LAMBDA m, r :
                          Then(ReadRelocs(req, r), LAMBDA rs, left : Parsed(Ok(m, rs), left)))
    <2>4. all = Parsed(Ok(a.main, a.relocs), <<>>)
        BY <2>2, <2>3, ParsedIs DEF Then
    <2>5. Ok(a.main, a.relocs) = a
        BY DEF OkAnswer
    <2>6. all = Parsed(a, <<>>)
        BY <2>4, <2>5
    <2>7. DecodeOk(req, body)
            = IF all = NoParse THEN IpcError
              ELSE IF ~ IsAssemble(req) /\ ~ req.insns /\ ~ IsText(all[1].main)
                   THEN Failure("DisassembleFailed", Notice)
                   ELSE all[1]
        BY DEF DecodeOk
    <2> HIDE DEF all
    <2>8. all # NoParse /\ all[1] = a
        BY <2>6, ParsedIs
    <2>9. ~ IsAssemble(req) /\ ~ req.insns => IsText(a.main)
        BY DEF OkAnswer, IsText
    <2>10. QED BY <2>7, <2>8, <2>9
<1>6. QED BY <1>4, <1>5

LEMMA OkArrives ==
    ASSUME NEW req \in Requests, NEW a, OkAnswer(req, a)
    PROVE  LET resp == Downgraded(OkResponse(req, a))
           IN  /\ resp.status \in Units /\ resp.flags \in Units
               /\ resp.body \in Seq(Units) /\ Sendable(resp.body)
               /\ Arrives(req, a, Decoded(req, resp.status, resp.body))
<1> DEFINE resp == Downgraded(OkResponse(req, a))
           g == Decoded(req, resp.status, resp.body)
           body == OkBody(req, a)
           flags == IF req.relocs THEN 1 ELSE 0
<1>1. CASE MainFits(req, a) /\ RelocsFit(a.relocs) /\ Sendable(body)
    <2>1. OkResponse(req, a) = Response(Status.Ok, flags, body)
        BY <1>1 DEF OkResponse, OkBody
    <2> HIDE DEF flags
    <2>2. resp = Response(Status.Ok, flags, body)
        BY <1>1, <2>1, ResponseIs DEF Downgraded
    <2>3. resp.status = Status.Ok /\ resp.flags = flags /\ resp.body = body
        BY <2>2, ResponseIs
    <2> HIDE DEF body
    <2>4. g = DecodeOk(req, body)
        BY <2>3 DEF Decoded
    <2>5. g = a /\ body \in Seq(Units)
        BY <1>1, <2>4, OkDecoded DEF body
    <2> HIDE DEF resp, g
    <2>6. Same(a, g)
        BY <2>5 DEF Same, OkAnswer
    <2>7. flags \in Units /\ Status.Ok \in Units
        BY SmallUnits, StatusIs DEF flags
    <2>8. QED BY <1>1, <2>3, <2>5, <2>6, <2>7 DEF Arrives, resp, g
<1>2. CASE ~ (MainFits(req, a) /\ RelocsFit(a.relocs) /\ Sendable(body))
    <2>1. resp = ProtocolError
        <3>1. CASE ~ (MainFits(req, a) /\ RelocsFit(a.relocs))
            <4>1. OkResponse(req, a) = ProtocolError
                BY <3>1 DEF OkResponse
            <4>2. ProtocolError.body = ErrBody(Notice)
                BY ResponseIs DEF ProtocolError
            <4>3. QED BY <4>1, <4>2, NoticeIs DEF Downgraded
        <3>2. CASE MainFits(req, a) /\ RelocsFit(a.relocs)
            <4>1. OkResponse(req, a) = Response(Status.Ok, flags, body)
                BY <3>2 DEF OkResponse, OkBody
            <4> HIDE DEF flags, body
            <4>2. OkResponse(req, a).body = body
                BY <4>1, ResponseIs
            <4>3. QED BY <1>2, <3>2, <4>2 DEF Downgraded
        <3>3. QED BY <3>1, <3>2
    <2>2. /\ resp.status = Status.Protocol /\ resp.flags = 0
          /\ resp.body = ErrBody(Notice)
        BY <2>1, ResponseIs DEF ProtocolError
    <2>3. g.tag = "Init"
        BY <2>2, ProtocolDecoded
    <2> HIDE DEF resp, g
    <2>4. TooLarge(req, a)
        <3>0. a.tag = "Ok"
            BY DEF OkAnswer
        <3>1. CASE ~ (MainFits(req, a) /\ RelocsFit(a.relocs))
            BY <3>0, <3>1 DEF TooLarge
        <3>2. CASE MainFits(req, a) /\ RelocsFit(a.relocs)
            <4> DEFINE mb == MainBody(req, a)
                       rb == Each(Reloc, a.relocs)
            <4>1. mb \in Seq(Units)
                BY <3>2, MainRead
            <4>2. a.relocs \in Seq(RelocType)
                BY DEF OkAnswer
            <4>3. rb \in Seq(Units)
                BY <4>2, RelocListed
            <4>4. ~ (Len(body) <= MaxFrame)
                BY <1>2, <3>2 DEF Sendable
            <4>5. body = mb \/ body = mb \o rb
                BY DEF OkBody
            <4> HIDE DEF mb, rb, body
            <4>6. Len(mb \o rb) = Len(mb) + Len(rb) /\ Len(mb) \in Nat /\ Len(rb) \in Nat
                BY <4>1, <4>3, Closed
            <4>7. Len(mb \o rb) > MaxFrame
                BY <4>4, <4>5, <4>6, WireAssumption
            <4>8. QED BY <3>0, <4>7 DEF TooLarge, mb, rb
        <3>3. QED BY <3>1, <3>2
    <2>5. Arrives(req, a, g)
        BY <2>3, <2>4 DEF Arrives
    <2>6. Status.Protocol \in Units
        BY StatusIs, SmallUnits
    <2>7. QED BY <2>2, <2>5, <2>6, NoticeIs, SmallUnits DEF resp, g
<1>3. QED BY <1>1, <1>2

LEMMA EveryAnswerArrives ==
    ASSUME NEW req \in Requests, NEW a \in Answers(req)
    PROVE  LET resp == Downgraded(Answered(req, a))
           IN  /\ resp.status \in Units /\ resp.flags \in Units
               /\ resp.body \in Seq(Units) /\ Sendable(resp.body)
               /\ Arrives(req, a, Decoded(req, resp.status, resp.body))
<1>1. CASE a \in Errors
    <2>1. a.tag # "Ok"
        BY <1>1, KeptIs DEF ErrorTags
    <2>2. Answered(req, a) = ErrResponse(a)
        BY <2>1 DEF Answered
    <2>3. QED BY <1>1, <2>2, ErrorArrives
<1>2. CASE OkAnswer(req, a)
    <2>1. Answered(req, a) = OkResponse(req, a)
        BY <1>2 DEF Answered, OkAnswer
    <2>2. QED BY <1>2, <2>1, OkArrives
<1>3. QED BY <1>1, <1>2, AnswerIs

-----------------------------------------------------------------------------
(* The inductive invariant: at most one frame is on its way, and it is the *)
(* frame of the call being made, or of the answer to it.                   *)

RawCalls == [op : {"raw"}, frame : RawFrames]
CanGo(req) == RequestFits(req) /\ ~ CountTooLarge(req) /\ Sendable(RequestBody(req))
RequestFrame(req) == Frame(Opcode(req), 0, RequestBody(req))
ResponseFrame(resp) == Frame(resp.status, resp.flags, resp.body)

NobodyAnswered == seen = None /\ answer = None

\* The request, or the malformed frame, is on its way.
Underway ==
    /\ d2c = <<>> /\ daemon = "serving" /\ NobodyAnswered
    /\ \/ asked \in Requests /\ CanGo(asked) /\ c2d = RequestFrame(asked)
       \/ asked \in RawCalls /\ c2d = asked.frame
\* The answer to the request is.
Replied ==
    /\ c2d = <<>> /\ daemon = "serving"
    /\ asked \in Requests /\ seen = asked /\ answer \in Answers(asked)
    /\ d2c = ResponseFrame(Downgraded(Answered(asked, answer)))
\* The refusal of a malformed frame is.
Refused ==
    /\ c2d = <<>> /\ daemon = "serving" /\ NobodyAnswered
    /\ asked \in RawCalls /\ ~ Fatal(asked.frame)
    /\ d2c = ResponseFrame(ProtocolError)
\* The daemon gave the stream up, or is gone with the frame.
Lost ==
    /\ d2c = <<>> /\ daemon = "exited" /\ NobodyAnswered
    /\ asked \in RawCalls /\ Fatal(asked.frame) /\ c2d \in {asked.frame, <<>>}

Quiet == c2d = <<>> /\ d2c = <<>> /\ daemon = "serving"
Settled ==
    \/ asked \in Requests /\ NobodyAnswered
    \/ /\ asked \in Requests /\ seen = asked /\ answer \in Answers(asked)
       /\ Arrives(asked, answer, got)
    \/ /\ asked \in RawCalls /\ NobodyAnswered
       /\ got = IF Fatal(asked.frame) THEN IpcError
                ELSE [tag |-> "raw", status |-> Status.Protocol]

WireInv ==
    \/ phase = "idle" /\ Quiet /\ NobodyAnswered /\ asked = None
    \/ phase = "waiting" /\ (Underway \/ Replied \/ Refused \/ Lost)
    \/ phase = "done" /\ Quiet /\ Settled

\* The count of a request that fits a frame is below what can be reserved.
LEMMA NeverOvercommits ==
    ASSUME NEW req \in Requests, CanGo(req)
    PROVE  ~ Overcommits(Opcode(req), RequestBody(req))
<1>1. CASE req \in AssembleType
    <2>1. /\ req.op = "Assemble" /\ req.src \in Seq(Units) /\ req.address \in Units
          /\ req.labels \in Seq(LabelType) /\ Len(req.labels) \in Nat
        BY <1>1, TextIsUnits DEF AssembleType
    <2> DEFINE n == Len(req.labels)
               a == Num(req.address)
               b == Each(Label, req.labels)
               c == Bytes(req.src)
               ab == a \o b
               s == ab \o c
    <2>2. a \in Seq(Units) /\ Len(a) = 1
        BY <2>1, UnitTyped
    <2>3. b \in Seq(Units) /\ Len(b) >= n + 1 /\ Len(b) \in Nat
        BY <2>1, LabelListed
    <2>4. c \in Seq(Units) /\ Len(c) \in Nat
        BY <2>1, BytesTyped
    <2>5. b[1] = n % Base
        BY LabelsCounted, <2>1
    <2>6. RequestBody(req) = s /\ Len(s) <= MaxFrame
        BY <2>1 DEF RequestBody, IsAssemble, CanGo, Sendable
    <2>7. n \in Nat
        BY <2>1
    <2> HIDE DEF n, a, b, c
    <2>8. ab \in Seq(Units) /\ Len(ab) = 1 + Len(b) /\ ab[2] = b[1]
        <3>1. ab \in Seq(Units) /\ Len(ab) = Len(a) + Len(b)
            BY <2>2, <2>3, Closed
        <3>2. ab[Len(a) + 1] = b[1]
            BY <2>2, <2>3, <2>7, UnitOf
        <3> HIDE DEF ab
        <3>3. QED BY <2>2, <3>1, <3>2
    <2> HIDE DEF ab
    <2>9. Len(s) = Len(ab) + Len(c) /\ s[2] = ab[2]
        <3>1. 2 \in 1 .. Len(ab)
            BY <2>3, <2>7, <2>8
        <3>2. QED BY <2>4, <2>8, <3>1, UnitOf, Closed
    <2> HIDE DEF s
    <2>10. n <= MaxFrame
        BY <2>3, <2>4, <2>6, <2>7, <2>8, <2>9, WireAssumption
    <2>11. n % Base = n
        BY <2>7, <2>10, WireAssumption
    <2>12. ~ (s[2] > MaxReserve)
        BY <2>5, <2>7, <2>8, <2>9, <2>10, <2>11, WireAssumption
    <2>13. QED BY <2>6, <2>12 DEF Overcommits
<1>2. CASE req \in DisasmType
    <2>1. ~ IsAssemble(req) /\ req.insns \in BOOLEAN
        BY <1>2 DEF DisasmType, IsAssemble
    <2>2. Opcode(req) \in {3, 4}
        BY <2>1 DEF Opcode
    <2>3. QED BY <2>2 DEF Overcommits
<1>3. QED BY <1>1, <1>2, WireAssumption

LEMMA RequestSent ==
    ASSUME NEW req \in Requests, CanGo(req)
    PROVE  LET f == RequestFrame(req)
           IN  /\ f \in Seq(Units) /\ HasFrame(f) /\ ~ Fatal(f) /\ AfterFrame(f) = <<>>
               /\ ParseRequest(Kind(f), Body(f)) = Parsed(req, <<>>)
<1> DEFINE f == RequestFrame(req)
           k == Opcode(req)
           b == RequestBody(req)
<1>1. b \in Seq(Units) /\ k \in Units /\ Sendable(b) /\ ParseRequest(k, b) = Parsed(req, <<>>)
    BY ParsedRequest DEF CanGo
<1>2. f = Frame(k, 0, b)
    BY DEF RequestFrame
<1> HIDE DEF f, k, b
<1>3. /\ f \in Seq(Units) /\ HasFrame(f) /\ ~ Oversized(f)
      /\ Kind(f) = k /\ Body(f) = b /\ AfterFrame(f) = <<>>
    BY <1>1, <1>2, SmallUnits, FrameIs
<1>4. ~ Overcommits(k, b)
    BY NeverOvercommits DEF k, b
<1>5. QED BY <1>1, <1>3, <1>4 DEF f, Fatal

LEMMA ResponseSent ==
    ASSUME NEW resp, resp.status \in Units, resp.flags \in Units,
           resp.body \in Seq(Units), Sendable(resp.body)
    PROVE  LET f == ResponseFrame(resp)
           IN  /\ f \in Seq(Units) /\ HasFrame(f) /\ ~ Oversized(f) /\ AfterFrame(f) = <<>>
               /\ Kind(f) = resp.status /\ Body(f) = resp.body
<1> DEFINE s == resp.status
           fl == resp.flags
           b == resp.body
<1>1. ResponseFrame(resp) = Frame(s, fl, b)
    BY DEF ResponseFrame
<1>2. s \in Units /\ fl \in Units /\ b \in Seq(Units) /\ Sendable(b)
    OBVIOUS
<1>3. s = resp.status /\ b = resp.body
    OBVIOUS
<1> HIDE DEF s, fl, b
<1>4. QED BY <1>1, <1>2, <1>3, FrameIs

LEMMA ProtocolErrorIs ==
    LET f == ResponseFrame(ProtocolError)
    IN  /\ f \in Seq(Units) /\ HasFrame(f) /\ ~ Oversized(f) /\ AfterFrame(f) = <<>>
        /\ Kind(f) = Status.Protocol /\ Sendable(ProtocolError.body)
        /\ Downgraded(ProtocolError) = ProtocolError
<1> DEFINE p == ProtocolError
<1>1. p.status = Status.Protocol /\ p.flags = 0 /\ p.body = ErrBody(Notice)
    BY ResponseIs DEF ProtocolError
<1>2. p.status \in Units /\ p.flags \in Units /\ p.body \in Seq(Units) /\ Sendable(p.body)
    BY <1>1, StatusIs, SmallUnits, NoticeIs
<1>3. Downgraded(p) = p
    BY <1>2 DEF Downgraded
<1> HIDE DEF p
<1>4. QED BY <1>1, <1>2, <1>3, ResponseSent DEF p

LEMMA NoFrame == ~ HasFrame(<<>>) /\ ~ Oversized(<<>>) /\ <<>> \in Seq(Units)
BY DEF HasFrame, Oversized, HasHeader, HeaderLen

LEMMA RawIs ==
    ASSUME NEW f \in RawFrames
    PROVE  /\ f \in Seq(Units)
           /\ Oversized(f) => ~ HasFrame(f)
           /\ ~ Oversized(f) => /\ ParseRequest(Kind(f), Body(f)) = NoParse
                                /\ AfterFrame(f) = <<>>
<1>1. f \in Seq(Units) /\ HasHeader(f)
    BY RawAssumption
<1>2. ASSUME ~ Oversized(f)
      PROVE  ParseRequest(Kind(f), Body(f)) = NoParse /\ AfterFrame(f) = <<>>
    <2>1. Len(f) = HeaderLen + f[1] /\ ParseRequest(Kind(f), Body(f)) = NoParse
        BY <1>2, RawAssumption
    <2>2. f[1] \in Nat
        BY <1>1, WireAssumption DEF HasHeader, HeaderLen, Units
    <2>3. HeaderLen + f[1] + 1 > Len(f) /\ HeaderLen + f[1] + 1 \in Int /\ Len(f) \in Int
        BY <2>1, <2>2 DEF HeaderLen
    <2>4. SubSeq(f, HeaderLen + f[1] + 1, Len(f)) = <<>>
        <3> DEFINE m == HeaderLen + f[1] + 1
                   n == Len(f)
        <3>1. m \in Int /\ n \in Int /\ m > n
            BY <2>3
        <3> HIDE DEF m, n
        <3>2. SubSeq(f, m, n) = <<>>
            BY <1>1, <3>1, SubSeqEmpty
        <3>3. QED BY <3>2 DEF m, n
    <2>5. QED BY <2>1, <2>4 DEF AfterFrame
<1>3. Oversized(f) => ~ HasFrame(f)
    BY DEF HasFrame
<1>4. QED BY <1>1, <1>2, <1>3

LEMMA RawCallIs ==
    ASSUME NEW x \in RawCalls
    PROVE  x.op = "raw" /\ x.frame \in RawFrames
BY DEF RawCalls

-----------------------------------------------------------------------------
(* Every step preserves it.                                                *)

LEMMA CallKeeps ==
    ASSUME WireInv, NEW req \in Requests, Call(req)
    PROVE  WireInv'
<1>1. Quiet
    BY DEF WireInv, Call
<1>2. /\ asked' = req /\ seen' = None /\ answer' = None
      /\ d2c' = <<>> /\ daemon' = "serving"
    BY <1>1 DEF Call, Quiet
<1>3. CASE phase' = "done" /\ c2d' = c2d
    BY <1>1, <1>2, <1>3 DEF WireInv, Quiet, Settled, NobodyAnswered
<1>4. CASE phase' = "waiting" /\ CanGo(req) /\ c2d' = c2d \o RequestFrame(req)
    <2> DEFINE f == RequestFrame(req)
    <2>1. f \in Seq(Units)
        BY <1>4, RequestSent
    <2>2. <<>> \o f = f /\ c2d' = c2d \o f /\ c2d = <<>>
        BY <1>1, <1>4, <2>1, ConcatEmptySeq DEF Quiet
    <2> HIDE DEF f
    <2>3. c2d' = f
        BY <2>2
    <2>4. Underway'
        BY <1>2, <1>4, <2>3 DEF Underway, NobodyAnswered, f, CanGo, RequestFrame
    <2>5. QED BY <1>4, <2>4 DEF WireInv
<1>5. QED BY <1>3, <1>4 DEF Call, CanGo, RequestFrame

LEMMA SendRawKeeps ==
    ASSUME WireInv, NEW f \in RawFrames, SendRaw(f)
    PROVE  WireInv'
<1>1. Quiet
    BY DEF WireInv, SendRaw
<1>2. f \in Seq(Units)
    BY RawIs
<1>3. c2d' = f
    <2>1. c2d' = <<>> \o f
        BY <1>1 DEF SendRaw, Quiet
    <2>2. QED BY <1>2, <2>1, ConcatEmptySeq
<1>4. /\ asked' = [op |-> "raw", frame |-> f] /\ phase' = "waiting"
      /\ seen' = None /\ answer' = None /\ d2c' = <<>> /\ daemon' = "serving"
    BY <1>1 DEF SendRaw, Quiet
<1>5. asked' \in RawCalls /\ asked'.frame = f
    BY <1>4 DEF RawCalls
<1>6. Underway'
    BY <1>3, <1>4, <1>5 DEF Underway, NobodyAnswered
<1>7. QED BY <1>4, <1>6 DEF WireInv

LEMMA Responds ==
    ASSUME NEW resp, Respond(resp), d2c = <<>>, daemon = "serving", Sendable(resp.body),
           ResponseFrame(resp) \in Seq(Units)
    PROVE  d2c' = ResponseFrame(resp) /\ daemon' = "serving"
<1> DEFINE f == ResponseFrame(resp)
<1>1. d2c' = d2c \o f /\ daemon' = daemon
    BY DEF Respond, ResponseFrame
<1> HIDE DEF f
<1>2. <<>> \o f = f
    BY ConcatEmptySeq DEF f
<1>3. QED BY <1>1, <1>2 DEF f

LEMMA ServeKeeps ==
    ASSUME WireInv, Serve
    PROVE  WireInv'
<1> DEFINE parse == ParseRequest(Kind(c2d), Body(c2d))
<1>0. HasFrame(c2d) /\ daemon = "serving" /\ c2d' = AfterFrame(c2d)
      /\ ~ Overcommits(Kind(c2d), Body(c2d))
      /\ phase' = phase /\ asked' = asked /\ got' = got
    BY DEF Serve
<1>1. phase = "waiting" /\ Underway
    BY <1>0, NoFrame DEF WireInv, Quiet, Replied, Refused, Lost
<1>2. d2c = <<>> /\ NobodyAnswered
    BY <1>1 DEF Underway
<1>3. CASE asked \in Requests /\ CanGo(asked) /\ c2d = RequestFrame(asked)
    <2>1. c2d' = <<>> /\ parse = Parsed(asked, <<>>)
        BY <1>0, <1>3, RequestSent
    <2>2. parse # NoParse /\ parse[1] = asked
        BY <2>1, ParsedIs
    <2>3. PICK a \in Answers(asked) :
              seen' = asked /\ answer' = a /\ Respond(Downgraded(Answered(asked, a)))
        BY <2>2 DEF Serve
    <2> DEFINE resp == Downgraded(Answered(asked, a))
    <2>4. /\ resp.status \in Units /\ resp.flags \in Units
          /\ resp.body \in Seq(Units) /\ Sendable(resp.body)
        BY <1>3, EveryAnswerArrives
    <2>5. Respond(resp)
        BY <2>3
    <2> HIDE DEF resp
    <2>6. ResponseFrame(resp) \in Seq(Units)
        BY <2>4, ResponseSent
    <2>7. d2c' = ResponseFrame(resp) /\ daemon' = "serving"
        BY <1>0, <1>2, <2>4, <2>5, <2>6, Responds
    <2>8. Replied'
        BY <1>0, <1>3, <2>1, <2>3, <2>7
        DEF Replied, resp, Answers, Answered, IsAssemble, OkResponse, MainFits, MainBody
    <2>9. QED BY <1>0, <1>1, <2>8 DEF WireInv
<1>4. CASE asked \in RawCalls /\ c2d = asked.frame
    <2>1. asked.frame \in RawFrames
        BY <1>4, RawCallIs
    <2>2. ~ Oversized(asked.frame)
        BY <1>0, <1>4, <2>1, RawIs
    <2>3. c2d' = <<>> /\ parse = NoParse
        BY <1>0, <1>4, <2>1, <2>2, RawIs
    <2>4. Respond(Downgraded(ProtocolError)) /\ seen' = seen /\ answer' = answer
        BY <2>3 DEF Serve
    <2>5. Respond(ProtocolError)
        BY <2>4, ProtocolErrorIs
    <2>6. d2c' = ResponseFrame(ProtocolError) /\ daemon' = "serving"
        BY <1>0, <1>2, <2>5, ProtocolErrorIs, Responds
    <2>7. Refused'
        BY <1>0, <1>2, <1>4, <2>2, <2>3, <2>4, <2>6 DEF Refused, NobodyAnswered, Fatal
    <2>8. QED BY <1>0, <1>1, <2>7 DEF WireInv
<1>5. QED BY <1>1, <1>3, <1>4 DEF Underway

LEMMA ServeFailsKeeps ==
    ASSUME WireInv, ServeFails
    PROVE  WireInv'
<1>1. Oversized(c2d) /\ daemon = "serving"
    BY DEF ServeFails
<1>2. phase = "waiting" /\ Underway
    BY <1>1, NoFrame DEF WireInv, Quiet, Replied, Refused, Lost
<1>3. asked \in RawCalls /\ c2d = asked.frame
    BY <1>1, <1>2, RequestSent DEF Underway, Fatal
<1>4. Lost'
    BY <1>1, <1>2, <1>3 DEF ServeFails, Underway, Lost, NobodyAnswered, Fatal
<1>5. QED BY <1>2, <1>4 DEF ServeFails, WireInv

LEMMA ServeAbortsKeeps ==
    ASSUME WireInv, ServeAborts
    PROVE  WireInv'
<1>1. /\ HasFrame(c2d) /\ Overcommits(Kind(c2d), Body(c2d)) /\ c2d' = AfterFrame(c2d)
      /\ daemon = "serving" /\ daemon' = "exited" /\ phase' = phase /\ asked' = asked
      /\ d2c' = d2c /\ seen' = seen /\ answer' = answer
    BY DEF ServeAborts
<1>2. phase = "waiting" /\ Underway
    BY <1>1, NoFrame DEF WireInv, Quiet, Replied, Refused, Lost
<1>3. asked \in RawCalls /\ c2d = asked.frame
    BY <1>1, <1>2, RequestSent DEF Underway, Fatal
<1>4. c2d' = <<>>
    <2>1. ~ Oversized(c2d)
        BY <1>1 DEF HasFrame
    <2>2. QED BY <1>1, <1>3, <2>1, RawCallIs, RawIs
<1>5. Lost'
    BY <1>1, <1>2, <1>3, <1>4 DEF Underway, Lost, NobodyAnswered, Fatal
<1>6. QED BY <1>1, <1>2, <1>5 DEF WireInv

LEMMA ReceiveKeeps ==
    ASSUME WireInv, Receive
    PROVE  WireInv'
<1>1. /\ phase = "waiting" /\ HasFrame(d2c) /\ phase' = "done" /\ d2c' = AfterFrame(d2c)
      /\ asked' = asked /\ c2d' = c2d /\ daemon' = daemon /\ seen' = seen /\ answer' = answer
      /\ got' = IF asked.op = "raw" THEN [tag |-> "raw", status |-> Kind(d2c)]
                ELSE Decoded(asked, Kind(d2c), Body(d2c))
    BY DEF Receive
<1>2. Replied \/ Refused
    BY <1>1, NoFrame DEF WireInv, Underway, Lost
<1>3. CASE Replied
    <2> DEFINE resp == Downgraded(Answered(asked, answer))
    <2>1. /\ c2d = <<>> /\ daemon = "serving" /\ asked \in Requests /\ seen = asked
          /\ answer \in Answers(asked) /\ d2c = ResponseFrame(resp)
        BY <1>3 DEF Replied
    <2>2. /\ resp.status \in Units /\ resp.flags \in Units
          /\ resp.body \in Seq(Units) /\ Sendable(resp.body)
          /\ Arrives(asked, answer, Decoded(asked, resp.status, resp.body))
        BY <2>1, EveryAnswerArrives
    <2> HIDE DEF resp
    <2>3. AfterFrame(d2c) = <<>> /\ Kind(d2c) = resp.status /\ Body(d2c) = resp.body
        BY <2>1, <2>2, ResponseSent
    <2>4. asked.op # "raw"
        BY <2>1, RequestIs
    <2>5. got' = Decoded(asked, resp.status, resp.body) /\ d2c' = <<>>
        BY <1>1, <2>3, <2>4
    <2>6. Arrives(asked, answer, got')
        BY <2>2, <2>5
    <2>7. Settled'
        BY <1>1, <2>1, <2>6
        DEF Settled, Answers, IsAssemble, Arrives, Same, TooLarge, MainFits, MainBody
    <2>8. Quiet'
        BY <1>1, <2>1, <2>5 DEF Quiet
    <2>9. QED BY <1>1, <2>7, <2>8 DEF WireInv
<1>4. CASE Refused
    <2>1. /\ c2d = <<>> /\ daemon = "serving" /\ NobodyAnswered /\ asked \in RawCalls
          /\ d2c = ResponseFrame(ProtocolError)
        BY <1>4 DEF Refused
    <2>2. AfterFrame(d2c) = <<>> /\ Kind(d2c) = Status.Protocol
        BY <2>1, ProtocolErrorIs
    <2>3. asked.op = "raw"
        BY <2>1, RawCallIs
    <2>4. got' = [tag |-> "raw", status |-> Status.Protocol] /\ d2c' = <<>>
        BY <1>1, <2>2, <2>3
    <2>5. ~ Fatal(asked.frame)
        BY <1>4 DEF Refused
    <2>6. Settled' /\ Quiet'
        BY <1>1, <2>1, <2>4, <2>5 DEF Settled, Quiet, NobodyAnswered
    <2>7. QED BY <1>1, <2>6 DEF WireInv
<1>5. QED BY <1>2, <1>3, <1>4

LEMMA ReceiveFailsKeeps ==
    ASSUME WireInv, ReceiveFails
    PROVE  WireInv'
<1>1. /\ phase = "waiting" /\ (Oversized(d2c) \/ daemon = "exited")
      /\ phase' = "done" /\ got' = IpcError
      /\ daemon' = "serving" /\ c2d' = <<>> /\ d2c' = <<>>
      /\ asked' = asked /\ seen' = seen /\ answer' = answer
    BY DEF ReceiveFails
<1>2. Replied => ~ Oversized(d2c)
    <2> SUFFICES ASSUME Replied PROVE ~ Oversized(d2c)
        OBVIOUS
    <2> DEFINE resp == Downgraded(Answered(asked, answer))
    <2>1. asked \in Requests /\ answer \in Answers(asked) /\ d2c = ResponseFrame(resp)
        BY DEF Replied
    <2>2. /\ resp.status \in Units /\ resp.flags \in Units
          /\ resp.body \in Seq(Units) /\ Sendable(resp.body)
        BY <2>1, EveryAnswerArrives
    <2> HIDE DEF resp
    <2>3. QED BY <2>1, <2>2, ResponseSent
<1>3. Refused => ~ Oversized(d2c)
    BY ProtocolErrorIs DEF Refused
<1>4. Lost
    BY <1>1, <1>2, <1>3, NoFrame DEF WireInv, Underway, Replied, Refused
<1>5. Settled'
    BY <1>1, <1>4 DEF Settled, Lost, NobodyAnswered
<1>6. QED BY <1>1, <1>5 DEF WireInv, Quiet

LEMMA WireInvHolds == Spec => []WireInv
<1>1. Init => WireInv
    BY DEF Init, WireInv, Quiet, NobodyAnswered
<1>2. WireInv /\ [Next]_vars => WireInv'
    <2> SUFFICES ASSUME WireInv, [Next]_vars PROVE WireInv'
        OBVIOUS
    <2>1. ASSUME NEW req \in Requests, Call(req) PROVE WireInv'
        BY <2>1, CallKeeps
    <2>2. ASSUME NEW f \in RawFrames, SendRaw(f) PROVE WireInv'
        BY <2>2, SendRawKeeps
    <2>3. CASE Serve
        BY <2>3, ServeKeeps
    <2>4. CASE ServeFails
        BY <2>4, ServeFailsKeeps
    <2>5. CASE ServeAborts
        BY <2>5, ServeAbortsKeeps
    <2>6. CASE Receive
        BY <2>6, ReceiveKeeps
    <2>7. CASE ReceiveFails
        BY <2>7, ReceiveFailsKeeps
    <2>8. CASE UNCHANGED vars
        BY <2>8 DEF vars, WireInv, Quiet, Settled, NobodyAnswered, Underway, Replied, Refused,
                    Lost, Answers, IsAssemble, Arrives, Same, TooLarge, MainFits, MainBody,
                    Answered, OkResponse, CanGo, RequestFrame, RequestFits, CountTooLarge
    <2>9. QED BY <2>1, <2>2, <2>3, <2>4, <2>5, <2>6, <2>7, <2>8 DEF Next
<1>3. QED BY <1>1, <1>2, PTL DEF Spec

-----------------------------------------------------------------------------
(* The properties of the run wire_calls, for all sizes and all values.     *)

(* Only whole units travel, whatever is called and answered.               *)
THEOREM WireTypes == Spec => []TypeOK
<1>1. WireInv => TypeOK
    <2> SUFFICES ASSUME WireInv PROVE TypeOK
        OBVIOUS
    <2>1. phase \in {"idle", "waiting", "done"} /\ daemon \in {"serving", "exited"}
        BY DEF WireInv, Quiet, Underway, Replied, Refused, Lost
    <2>2. asked \in Requests \cup [op : {"raw"}, frame : RawFrames] \cup {None}
        BY DEF WireInv, Settled, Underway, Replied, Refused, Lost, RawCalls
    <2>3. c2d \in Seq(Units)
        <3>1. c2d = <<>> \/ (asked \in RawCalls /\ c2d = asked.frame)
              \/ (asked \in Requests /\ CanGo(asked) /\ c2d = RequestFrame(asked))
            BY DEF WireInv, Quiet, Underway, Replied, Refused, Lost
        <3>2. QED BY <3>1, NoFrame, RawCallIs, RawIs, RequestSent
    <2>4. d2c \in Seq(Units)
        <3>1. d2c = <<>> \/ Replied \/ Refused
            BY DEF WireInv, Quiet, Underway, Lost
        <3>2. CASE Replied
            <4> DEFINE resp == Downgraded(Answered(asked, answer))
            <4>1. asked \in Requests /\ answer \in Answers(asked) /\ d2c = ResponseFrame(resp)
                BY <3>2 DEF Replied
            <4>2. /\ resp.status \in Units /\ resp.flags \in Units
                  /\ resp.body \in Seq(Units) /\ Sendable(resp.body)
                BY <4>1, EveryAnswerArrives
            <4> HIDE DEF resp
            <4>3. QED BY <4>1, <4>2, ResponseSent
        <3>3. QED BY <3>1, <3>2, NoFrame, ProtocolErrorIs DEF Refused
    <2>5. QED BY <2>1, <2>2, <2>3, <2>4 DEF TypeOK
<1>2. QED BY <1>1, WireInvHolds, PTL

(* What the daemon works on is what was asked, to the last label.          *)
THEOREM RequestsArrive == Spec => []RequestArrives
<1>1. WireInv => RequestArrives
    BY DEF WireInv, RequestArrives, Settled, NobodyAnswered, Underway, Replied, Refused, Lost
<1>2. QED BY <1>1, WireInvHolds, PTL

(* What the caller gets is what the driver answered, unless the response   *)
(* was above MaxFrame.                                                     *)
THEOREM AnswersArrive == Spec => []AnswerArrives
<1>1. WireInv => AnswerArrives
    BY DEF WireInv, AnswerArrives, Settled, NobodyAnswered
<1>2. QED BY <1>1, WireInvHolds, PTL

(* No unit is left over between calls.                                     *)
THEOREM StreamStaysInSync == Spec => []StreamInSync
<1>1. WireInv => StreamInSync
    BY DEF WireInv, StreamInSync, Quiet
<1>2. QED BY <1>1, WireInvHolds, PTL

(* Only a length out of bounds and a label count that cannot be reserved   *)
(* stop the daemon; what else it cannot parse it refuses and goes on.      *)
THEOREM DaemonKeepsServing == Spec => []DaemonServes
<1>1. WireInv => DaemonServes
    <2> SUFFICES ASSUME WireInv PROVE DaemonServes
        OBVIOUS
    <2>1. daemon = "exited" => Lost
        BY DEF WireInv, Quiet, Underway, Replied, Refused
    <2>2. daemon = "exited" => asked.op = "raw" /\ Fatal(asked.frame)
        BY <2>1, RawCallIs DEF Lost
    <2>3. phase = "done" /\ asked.op = "raw" => asked \in RawCalls /\ Settled
        BY RequestIs DEF WireInv, Settled
    <2>4. asked \in RawCalls => asked \notin Requests
        BY RawCallIs, RequestIs
    <2>5. QED BY <2>2, <2>3, <2>4 DEF DaemonServes, Settled
<1>2. QED BY <1>1, WireInvHolds, PTL
====
