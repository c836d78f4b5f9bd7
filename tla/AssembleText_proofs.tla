------------------------ MODULE AssembleText_proofs ------------------------
(***************************************************************************)
(* One call after the parse, for any text, any table of instructions and   *)
(* any relax states: the layout, every item in its place through           *)
(* relaxation, conversion and the fixups; what symbols mean, which fields  *)
(* are left for the linker, and what is read back from the others.         *)
(***************************************************************************)
EXTENDS TextParse_proofs, FieldEncoding_proofs

-----------------------------------------------------------------------------
(* The padding.                                                            *)

\* The distance to the next multiple is the least that leads to one.
LEMMA LeastPad ==
    ASSUME NEW m \in Nat, m > 0, NEW a \in Nat
    PROVE  (m - (a % m)) % m = Min({p \in 0..m : (a + p) % m = 0})
<1> DEFINE r == a % m  q == a \div m  T == {p \in 0..m : (a + p) % m = 0}
           x == IF r = 0 THEN 0 ELSE m - r
<1>1. r \in 0..m - 1 /\ q \in Nat /\ a = m * q + r
    OBVIOUS
<1>2. (m - r) % m = x
    <2>1. CASE r = 0
        <3>1. (m * 1 + 0) % m = 0
            BY Remainder
        <3>2. m - r = m * 1 + 0
            BY <2>1
        <3>3. QED BY <2>1, <3>1, <3>2
    <2>2. CASE r # 0
        <3>1. m - r \in 0..m - 1
            BY <1>1, <2>2
        <3> HIDE DEF r
        <3>2. (m * 0 + (m - r)) % m = m - r
            BY <3>1, Remainder
        <3>3. m * 0 + (m - r) = m - r
            BY <3>1
        <3>4. QED BY <2>2, <3>2, <3>3
    <2>3. QED BY <2>1, <2>2
<1> HIDE DEF q
<1>3. x \in 0..m /\ (a + x) % m = 0
    <2>1. CASE r = 0
        BY <1>1, <2>1
    <2>2. CASE r # 0
        <3>1. a + x = m * (q + 1) + 0
            <4>1. a + x = (m * q + r) + (m - r)
                BY <1>1, <2>2
            <4> DEFINE mq == m * q
            <4>2. mq \in Nat /\ m * (q + 1) = mq + m
                BY <1>1
            <4> HIDE DEF mq, r
            <4>3. (mq + r) + (m - r) = mq + m
                BY <1>1, <4>2
            <4>4. QED BY <4>1, <4>2, <4>3 DEF mq
        <3>2. (m * (q + 1) + 0) % m = 0
            BY <1>1, Remainder
        <3>3. x \in 0..m
            BY <1>1, <2>2
        <3>4. QED BY <3>1, <3>2, <3>3
    <2>3. QED BY <2>1, <2>2
<1>4. ASSUME NEW p \in T PROVE x <= p
    <2>1. CASE r = 0
        BY <2>1
    <2>2. CASE r # 0
        <3>1. SUFFICES ASSUME p < m - r PROVE FALSE
            BY <1>1, <2>2
        <3>2. r + p \in 0..m - 1 /\ r + p # 0
            BY <1>1, <2>2, <3>1
        <3>3. a + p = m * q + (r + p)
            <4> DEFINE mq == m * q
            <4>1. mq \in Nat /\ a = mq + r /\ p \in Nat
                BY <1>1
            <4> HIDE DEF mq, r
            <4>2. a + p = mq + (r + p)
                BY <1>1, <4>1
            <4>3. QED BY <4>2 DEF mq
        <3> HIDE DEF r
        <3>4. (m * q + (r + p)) % m = r + p
            BY <1>1, <3>2, Remainder
        <3>5. QED BY <3>2, <3>3, <3>4
    <2>3. QED BY <2>1, <2>2
<1>5. T \in SUBSET Nat /\ x \in T
    BY <1>3
<1>6. Min(T) \in T /\ Min(T) <= x
    BY <1>5, MinIs
<1>7. x <= Min(T) /\ x \in Nat /\ Min(T) \in Nat
    BY <1>4, <1>5, <1>6
<1> HIDE DEF T, x
<1>8. Min(T) = x
    BY <1>6, <1>7
<1>9. QED BY <1>2, <1>8 DEF T, r

LEMMA AlignPad ==
    ASSUME NEW f, f.type = "align", NEW it, f.off = it.p2, f.sub = it.max, it.p2 \in Nat,
           it.max \in Nat, NEW a \in Nat
    PROVE  Pad(f, a) = LET pad == Min({p \in 0..Pow2(it.p2) : (a + p) % Pow2(it.p2) = 0})
                       IN IF it.max = 0 \/ pad <= it.max THEN pad ELSE 0
<1> DEFINE m == Pow2(it.p2)  pad == Min({p \in 0..m : (a + p) % m = 0})
<1>1. m \in Nat /\ m > 0
    BY Pow2Is
<1>2. (m - (a % m)) % m = pad
    BY <1>1, LeastPad
<1>3. (m - (a % m)) % m \in Nat
    <2> DEFINE r == a % m
    <2>1. r \in 0..m - 1
        BY <1>1
    <2> HIDE DEF r, m
    <2>2. (m - r) % m \in Nat
        BY <1>1, <2>1
    <2>3. QED BY <2>2 DEF r
<1>4. ToBoundary(a, f.off) = pad
    BY <1>2 DEF ToBoundary
<1>5. pad \in Nat
    BY <1>2, <1>3
<1> HIDE DEF pad
<1>6. Pad(f, a) = IF it.max > 0 /\ pad > it.max THEN 0 ELSE pad
    BY <1>4 DEF Pad, PadTo
<1>7. (it.max > 0 /\ pad > it.max) <=> ~ (it.max = 0 \/ pad <= it.max)
    BY <1>5
<1>8. QED BY <1>6, <1>7 DEF pad

LEMMA MaxOfTwo ==
    ASSUME NEW x \in Int
    PROVE  Max({x, 0}) = IF x > 0 THEN x ELSE 0
<1> DEFINE T == {x, 0}  y == IF x > 0 THEN x ELSE 0
<1>1. y \in T /\ \A z \in T : y >= z
    OBVIOUS
<1>2. \E z \in T : \A w \in T : z >= w
    BY <1>1
<1>3. Max(T) \in T /\ \A w \in T : Max(T) >= w
    BY <1>2 DEF Max
<1>4. QED BY <1>3

LEMMA OrgPad ==
    ASSUME NEW f, f.type = "org", NEW it, f.off = it.to, it.to \in Nat, NEW a \in Nat
    PROVE  Pad(f, a) = Max({it.to - a, 0})
<1>1. Max({it.to - a, 0}) = IF it.to - a > 0 THEN it.to - a ELSE 0
    BY MaxOfTwo
<1>2. Pad(f, a) = IF it.to < a THEN 0 ELSE it.to - a
    BY DEF Pad, Backwards
<1>3. QED BY <1>1, <1>2

-----------------------------------------------------------------------------
(* finalize_align_org gives every frag the padding it was laid out with.   *)

Unfilled(fs) == \A i \in 1..Len(fs) : fs[i].var = 0

LEMMA FinalizedChain ==
    ASSUME NEW fs, FragsOK(fs)
    PROVE  Finalized(fs) \in Seq(FragRecords) /\ Len(Finalized(fs)) = Len(fs)
<1> DEFINE g == Finalized(fs)  n == Len(fs)
<1>1. n \in Nat /\ DOMAIN fs = 1..n
    BY DEF FragsOK
<1>2. \A i \in 1..n : g[i] \in FragRecords
    BY FinalizedTyped
<1>3. g = [i \in 1..n |-> g[i]]
    BY <1>1 DEF Finalized
<1> HIDE DEF g, n
<1>4. g \in [1..n -> FragRecords]
    BY <1>2, <1>3
<1>5. QED BY <1>1, <1>4, FunctionIsList DEF g, n

LEMMA FilledAs ==
    ASSUME NEW fs, FragsOK(fs), Unfilled(fs), NEW i \in 1..Len(fs)
    PROVE  /\ FixSize(Finalized(fs)[i]) = FixSize(fs[i])
           /\ FillSize(Finalized(fs)[i]) = Pad(fs[i], FinalAddresses(fs)[i] + FixSize(fs[i]))
           /\ fs[i].type \notin {"align", "org"} => FillSize(Finalized(fs)[i]) = 0
<1> DEFINE g == Finalized(fs)[i]  f == fs[i]  a == FinalAddresses(fs)[i] + FixSize(fs[i])
<1>1. f \in FragRecords /\ PaddingOK(f) /\ f.var = 0
    BY DEF FragsOK, FragOK, Unfilled
<1>2. /\ g.lit = f.lit
      /\ g.type = IF f.type \in {"align", "org"} THEN "fill" ELSE f.type
      /\ f.type \in {"align", "org"} => g.var = 1 /\ g.off = Pad(f, a)
      /\ f.type \notin {"align", "org"} => g = f
    BY FinalizedTyped
<1>3. a \in Int
    <2>1. Len(fs) \in Nat
        BY DEF FragsOK
    <2>2. i \in 1..Len(fs) + 1
        BY <2>1
    <2>3. FinalAddresses(fs)[i] \in Nat
        BY <2>2, FinalTyped
    <2>4. FixSize(f) \in Nat
        BY <1>1, PadTyped, 0 \in Int
    <2>5. QED BY <2>3, <2>4
<1> HIDE DEF a, g, f
<1>4. FixSize(g) = FixSize(f)
    BY <1>2 DEF FixSize
<1>5. CASE f.type \in {"align", "org"}
    <2>1. Pad(f, a) \in Nat
        BY <1>1, <1>3, PadTyped
    <2>2. g.type = "fill" /\ g.var = 1 /\ g.off = Pad(f, a)
        BY <1>2, <1>5
    <2> DEFINE p == Pad(f, a)
    <2> HIDE DEF p
    <2>3. FillSize(g) = p
        <3>1. p \in Nat /\ g.off = p
            BY <2>1, <2>2 DEF p
        <3>2. FillSize(g) = IF p > 0 THEN p * 1 ELSE 0
            BY <2>2, <3>1 DEF FillSize
        <3>3. QED BY <3>1, <3>2
    <2>4. QED BY <1>4, <1>5, <2>3 DEF p, a, g, f
<1>6. CASE f.type \notin {"align", "org"}
    <2>1. g = f
        BY <1>2, <1>6
    <2>2. FillSize(f) = 0
        BY <1>1 DEF FillSize
    <2>3. Pad(f, a) = FillSize(f)
        BY <1>6 DEF Pad
    <2>4. QED BY <1>4, <2>1, <2>2, <2>3 DEF a, g, f
<1>7. QED BY <1>5, <1>6

LEMMA FinalLayout ==
    ASSUME NEW fs, FragsOK(fs), Unfilled(fs), NEW i \in 1..Len(fs) + 1
    PROVE  Layout(Finalized(fs))[i] = FinalAddresses(fs)[i]
<1> DEFINE n == Len(fs)  gs == Finalized(fs)  l == Layout(gs)  f == FinalAddresses(fs)
           s == [j \in 1..n |-> [a \in Int |->
                  a + FixSize(fs[j]) + Pad(fs[j], a + FixSize(fs[j]))]]
           S == {k \in Nat : k <= n => l[k + 1] = f[k + 1]}
<1>1. n \in Nat /\ gs \in Seq(FragRecords) /\ Len(gs) = n
    BY FinalizedChain DEF FragsOK
<1>2. /\ l[1] = 0 /\ \A j \in 1..n : l[j + 1] = l[j] + FixSize(gs[j]) + FillSize(gs[j])
    <2> HIDE DEF gs
    <2>1. /\ Layout(gs)[1] = 0
          /\ \A j \in 1..Len(gs) : Layout(gs)[j + 1] = Layout(gs)[j] + FixSize(gs[j]) + FillSize(gs[j])
        BY <1>1, LayoutRun
    <2>2. QED BY <1>1, <2>1
<1>3. Runs(n, Nat, 0, s, f)
    BY FinalRun
<1>4. f[1] = 0 /\ \A j \in 1..n : f[j] \in Nat /\ f[j + 1] = s[j][f[j]]
    <2> HIDE DEF s, f
    <2>1. f[1] = 0
        BY <1>3 DEF Runs
    <2>2. ASSUME NEW j \in 1..n PROVE f[j] \in Nat /\ f[j + 1] = s[j][f[j]]
        BY <1>1, <1>3, RunAt
    <2>3. QED BY <2>1, <2>2
<1>5. \A j \in 1..n : FixSize(gs[j]) = FixSize(fs[j])
                      /\ FillSize(gs[j]) = Pad(fs[j], f[j] + FixSize(fs[j]))
    BY FilledAs
<1>6. \A j \in 1..n : f[j + 1] = f[j] + FixSize(fs[j]) + Pad(fs[j], f[j] + FixSize(fs[j]))
    <2>1. ASSUME NEW j \in 1..n
          PROVE  f[j + 1] = f[j] + FixSize(fs[j]) + Pad(fs[j], f[j] + FixSize(fs[j]))
        <3>1. f[j] \in Int /\ f[j + 1] = s[j][f[j]]
            BY <1>4
        <3> HIDE DEF f
        <3>2. s[j][f[j]] = f[j] + FixSize(fs[j]) + Pad(fs[j], f[j] + FixSize(fs[j]))
            BY <3>1
        <3>3. QED BY <3>1, <3>2
    <2>2. QED BY <2>1
<1> HIDE DEF l, f, gs, n
<1>7. 0 \in S
    BY <1>2, <1>4
<1>8. ASSUME NEW k \in Nat, k \in S PROVE k + 1 \in S
    <2>1. CASE k + 1 <= n
        <3>1. k + 1 \in 1..n /\ l[k + 1] = f[k + 1]
            BY <1>1, <1>8, <2>1
        <3>2. l[(k + 1) + 1] = f[(k + 1) + 1]
            <4>1. l[(k + 1) + 1] = l[k + 1] + FixSize(gs[k + 1]) + FillSize(gs[k + 1])
                BY <1>2, <3>1
            <4>2. f[(k + 1) + 1] = f[k + 1] + FixSize(fs[k + 1]) + Pad(fs[k + 1], f[k + 1] + FixSize(fs[k + 1]))
                BY <1>6, <3>1
            <4>3. FixSize(gs[k + 1]) = FixSize(fs[k + 1])
                  /\ FillSize(gs[k + 1]) = Pad(fs[k + 1], f[k + 1] + FixSize(fs[k + 1]))
                BY <1>5, <3>1
            <4>4. QED BY <3>1, <4>1, <4>2, <4>3
        <3>3. QED BY <3>2
    <2>2. CASE ~ (k + 1 <= n)
        BY <2>2
    <2>3. QED BY <2>1, <2>2
<1> HIDE DEF S
<1>9. i - 1 \in Nat /\ i - 1 \in S /\ i - 1 <= n /\ (i - 1) + 1 = i
    BY <1>1, <1>7, <1>8, SetInduction DEF n
<1>10. QED BY <1>9 DEF S, l, f, gs

-----------------------------------------------------------------------------
(* Addresses.                                                              *)

\* TrueAddress, for any chain.
SizeIn(frs, it, a) ==
  CASE it.kind = "bytes"                       -> Len(it.bytes)
    [] it.kind = "data"                        -> it.width
    [] it.kind = "insn" /\ it.op \in Branches  -> Shape[frs[it.frag].sub].size
    [] it.kind = "insn" /\ it.op \notin Branches -> Len(Insns[it.op].bytes)
    [] it.kind = "org" -> Max({it.to - a, 0})
    [] it.kind = "align" ->
         LET pad == Min({p \in 0..Pow2(it.p2) : (a + p) % Pow2(it.p2) = 0})
         IN IF it.max = 0 \/ pad <= it.max THEN pad ELSE 0
    [] OTHER -> 0
AddressIn(its, frs) ==
  Before(Len(its), 0, [k \in DOMAIN its |-> [a \in Nat |-> a + SizeIn(frs, its[k], a)]])

LEMMA TrueAddressIs == TrueAddress = AddressIn(items, frags)
BY DEF TrueAddress, AddressIn, ItemSize, SizeIn

\* The branches have a final state.
Shaped(frs, it) == IsBranch(it) => Shape[frs[it.frag].sub].size \in Nat

LEMMA SizeIs ==
    ASSUME NEW frs, NEW it \in Items, Shaped(frs, it), NEW a \in Nat
    PROVE  /\ SizeIn(frs, it, a) \in Nat
           /\ ~ Shuts(it) => SizeIn(frs, it, a) = Fixed(it)
           /\ IsBranch(it) => SizeIn(frs, it, a) = Shape[frs[it.frag].sub].size
           /\ it.kind = "org" => SizeIn(frs, it, a) = Max({it.to - a, 0})
           /\ it.kind = "align" =>
                SizeIn(frs, it, a) =
                  LET pad == Min({p \in 0..Pow2(it.p2) : (a + p) % Pow2(it.p2) = 0})
                  IN IF it.max = 0 \/ pad <= it.max THEN pad ELSE 0
<1>1. Fixed(it) \in Nat
    BY FixedNat
<1>2. CASE it.kind = "bytes"
    <2>1. SizeIn(frs, it, a) = Fixed(it)
        BY <1>2 DEF SizeIn, Fixed
    <2>2. QED BY <1>1, <1>2, <2>1 DEF Shuts, IsBranch
<1>3. CASE it.kind = "data"
    <2>1. SizeIn(frs, it, a) = Fixed(it)
        BY <1>3 DEF SizeIn, Fixed
    <2>2. QED BY <1>1, <1>3, <2>1 DEF Shuts, IsBranch
<1>4. CASE it.kind = "insn" /\ it.op \in Branches
    <2>1. SizeIn(frs, it, a) = Shape[frs[it.frag].sub].size /\ IsBranch(it) /\ Shuts(it)
        BY <1>4 DEF SizeIn, IsBranch, Shuts
    <2>2. QED BY <1>4, <2>1 DEF Shaped
<1>5. CASE it.kind = "insn" /\ it.op \notin Branches
    <2>1. SizeIn(frs, it, a) = Fixed(it)
        BY <1>5 DEF SizeIn, Fixed
    <2>2. QED BY <1>1, <1>5, <2>1 DEF Shuts, IsBranch
<1>6. CASE it.kind = "org"
    <2>1. SizeIn(frs, it, a) = Max({it.to - a, 0}) /\ Shuts(it) /\ ~ IsBranch(it)
        BY <1>6 DEF SizeIn, IsBranch, Shuts
    <2>2. it.to \in Nat
        BY <1>6, KindOf
    <2>3. it.to - a \in Int
        BY <2>2
    <2>4. Max({it.to - a, 0}) \in Nat
        BY <2>3, MaxOfTwo
    <2>5. QED BY <1>6, <2>1, <2>4
<1>7. CASE it.kind = "align"
    <2> DEFINE m == Pow2(it.p2)  pad == Min({p \in 0..m : (a + p) % m = 0})
    <2>1. /\ SizeIn(frs, it, a) = IF it.max = 0 \/ pad <= it.max THEN pad ELSE 0
          /\ Shuts(it) /\ ~ IsBranch(it)
        BY <1>7 DEF SizeIn, IsBranch, Shuts
    <2>2. m \in Nat /\ m > 0
        BY <1>7, KindOf, Pow2Is
    <2>3. pad = (m - (a % m)) % m
        BY <2>2, LeastPad
    <2>4. pad \in Nat
        <3> DEFINE r == a % m
        <3>1. r \in 0..m - 1
            BY <2>2
        <3> HIDE DEF r, m
        <3>2. (m - r) % m \in Nat
            BY <2>2, <3>1
        <3>3. QED BY <2>3, <3>2 DEF r
    <2> HIDE DEF pad
    <2>5. SizeIn(frs, it, a) \in Nat
        BY <2>1, <2>4
    <2>6. QED BY <1>7, <2>1, <2>5 DEF pad
<1>8. CASE it.kind \notin {"bytes", "data", "insn", "org", "align"}
    <2>1. SizeIn(frs, it, a) = 0 /\ Fixed(it) = 0 /\ ~ Shuts(it) /\ ~ IsBranch(it)
        BY <1>8 DEF SizeIn, Fixed, Shuts, IsBranch
    <2>2. QED BY <1>8, <2>1
<1>9. QED BY <1>2, <1>3, <1>4, <1>5, <1>6, <1>7, <1>8

LEMMA AddressRun ==
    ASSUME NEW frs, NEW its \in Seq(Items), \A k \in 1..Len(its) : Shaped(frs, its[k])
    PROVE  /\ AddressIn(its, frs) \in [1..Len(its) + 1 -> Nat] /\ AddressIn(its, frs)[1] = 0
           /\ \A k \in 1..Len(its) :
                AddressIn(its, frs)[k + 1]
                  = AddressIn(its, frs)[k] + SizeIn(frs, its[k], AddressIn(its, frs)[k])
<1> DEFINE n == Len(its)  ta == AddressIn(its, frs)
           s == [k \in DOMAIN its |-> [a \in Nat |-> a + SizeIn(frs, its[k], a)]]
<1>1. n \in Nat /\ DOMAIN its = 1..n /\ \A k \in 1..n : its[k] \in Items
    OBVIOUS
<1>2. ta = Before(n, 0, s)
    BY DEF AddressIn
<1>3. \A k \in 1..n : \A a \in Nat : SizeIn(frs, its[k], a) \in Nat
    BY <1>1, SizeIs
<1>4. \A k \in 1..n : \A a \in Nat : s[k][a] = a + SizeIn(frs, its[k], a)
    BY <1>1
<1> HIDE DEF s, ta, n
<1>5. ASSUME NEW k \in 1..n, NEW a \in Nat PROVE s[k][a] \in Nat
    <2>1. SizeIn(frs, its[k], a) \in Nat /\ s[k][a] = a + SizeIn(frs, its[k], a)
        BY <1>3, <1>4
    <2>2. QED BY <2>1
<1>6. Runs(n, Nat, 0, s, ta)
    BY <1>1, <1>2, <1>5, BeforeIs, 0 \in Nat
<1>7. ta \in [1..n + 1 -> Nat] /\ ta[1] = 0
    BY <1>6 DEF Runs
<1>8. ASSUME NEW k \in 1..n PROVE ta[k + 1] = ta[k] + SizeIn(frs, its[k], ta[k])
    <2>1. ta[k + 1] = s[k][ta[k]] /\ ta[k] \in Nat
        BY <1>1, <1>6, RunAt
    <2>2. QED BY <1>4, <2>1
<1>9. QED BY <1>7, <1>8 DEF n, ta

-----------------------------------------------------------------------------
(* After md_convert_frag and finalize_align_org.                           *)

\* An item in a chain that will not change its layout any more, from a to b.
Settled(it, fr, f, l, o, a, b, d) ==
    /\ a = l + o /\ o + Fixed(it) <= FixSize(f)
    /\ ~ Shuts(it) => b = a + Fixed(it)
    /\ Plain(it, d) => \A j \in 1..Fixed(it) : f.lit[o + j] = Stored(it)[j]
    /\ it.kind \in {"org", "align"} =>
         f.fill = it.fill /\ FixSize(f) = o /\ b = a + FillSize(f)
    /\ IsBranch(it) => /\ it.frag = fr /\ FixSize(f) = o + Shape[f.sub].size
                       /\ b = a + Shape[f.sub].size /\ Shape[f.sub].size \in Nat

Final(its, frs, d) ==
    /\ AddressIn(its, frs) \in [1..Len(its) + 1 -> Nat]
    /\ AddressIn(its, frs)[Len(its) + 1] = Layout(frs)[Len(frs) + 1]
    /\ \A k \in 1..Len(its) :
         /\ FragOf(its)[k] \in 1..Len(frs) /\ PlaceOf(its)[k] \in Nat
         /\ Settled(its[k], FragOf(its)[k], frs[FragOf(its)[k]], Layout(frs)[FragOf(its)[k]],
                    PlaceOf(its)[k], AddressIn(its, frs)[k], AddressIn(its, frs)[k + 1], d)

\* What becomes of a frag that starts at l.
Becomes(f, g, l) ==
    /\ Own(f) <= FixSize(g) /\ g.sub = f.sub /\ g.fill = f.fill
    /\ \A j \in 1..Own(f) : g.lit[j] = f.lit[j]
    /\ f.type = "machine" =>
         /\ Shape[f.sub].size \in Nat /\ FixSize(g) = Own(f) + Shape[f.sub].size
         /\ \A j \in 1..Shape[f.sub].size : g.lit[Own(f) + j] = Opcode(f)[j]
    /\ f.type # "machine" => FixSize(g) = FixSize(f)
    /\ f.type \in {"align", "org"} => FillSize(g) = Pad(f, l + FixSize(f))
    /\ f.type \notin {"align", "org"} => FillSize(g) = 0

\* One item, from the frag it is in.
LEMMA SettlesOne ==
    ASSUME NEW d, NEW it \in Items, NEW f \in FragRecords, NEW g \in FragRecords, NEW l \in Nat,
           Becomes(f, g, l), NEW o \in Nat, InFrag(it, f, o, d), NEW fr, NEW frs,
           IsBranch(it) => it.frag = fr /\ frs[fr] = g, NEW b, b = l + o + SizeIn(frs, it, l + o)
    PROVE  /\ Settled(it, fr, g, l, o, l + o, b, d)
           /\ Shuts(it) => b = l + FixSize(g) + FillSize(g)
<1> DEFINE a == l + o
<1>1. a \in Nat /\ Fixed(it) \in Nat /\ b = a + SizeIn(frs, it, a)
    BY FixedNat
<1>2. FixSize(f) \in Nat /\ FixSize(g) \in Nat /\ FillSize(g) \in Nat /\ Own(f) \in Int
    BY SizesTyped, LitOf
<1>3. Shaped(frs, it)
    BY DEF Shaped, InFrag, Becomes
<1> HIDE DEF a
<1>4. o + Fixed(it) <= FixSize(g)
    BY <1>1, <1>2 DEF InFrag, Becomes
<1>5. ASSUME Plain(it, d), NEW j \in 1..Fixed(it) PROVE g.lit[o + j] = Stored(it)[j]
    <2>1. Written(it, d)
        BY <1>5, FixedTyped
    <2>2. f.lit[o + j] = Stored(it)[j] /\ o + Fixed(it) <= Own(f)
        BY <2>1 DEF InFrag
    <2>3. o + j \in 1..Own(f)
        BY <1>1, <1>2, <2>2
    <2>4. QED BY <2>2, <2>3 DEF Becomes
<1>6. ASSUME ~ Shuts(it) PROVE b = a + Fixed(it)
    BY <1>1, <1>3, <1>6, SizeIs
<1>7. ASSUME it.kind \in {"org", "align"}
      PROVE  g.fill = it.fill /\ FixSize(g) = o /\ b = a + FillSize(g)
    <2>1. /\ f.type = it.kind /\ f.fill = it.fill /\ FixSize(f) = o /\ f.type # "machine"
        BY <1>7 DEF InFrag
    <2>2. g.fill = it.fill /\ FixSize(g) = o /\ FillSize(g) = Pad(f, a)
        BY <1>7, <2>1 DEF Becomes, a
    <2>3. CASE it.kind = "org"
        <3>1. f.type = "org" /\ f.off = it.to /\ it.to \in Nat
            BY <2>3, KindOf DEF InFrag
        <3>2. Pad(f, a) = Max({it.to - a, 0})
            BY <1>1, <3>1, OrgPad
        <3>3. SizeIn(frs, it, a) = Max({it.to - a, 0})
            BY <1>1, <1>3, <2>3, SizeIs
        <3>4. QED BY <1>1, <2>2, <3>2, <3>3
    <2>4. CASE it.kind = "align"
        <3>1. f.type = "align" /\ f.off = it.p2 /\ f.sub = it.max /\ it.p2 \in Nat /\ it.max \in Nat
            BY <2>4, KindOf DEF InFrag
        <3>2. Pad(f, a) = LET pad == Min({p \in 0..Pow2(it.p2) : (a + p) % Pow2(it.p2) = 0})
                          IN IF it.max = 0 \/ pad <= it.max THEN pad ELSE 0
            BY <1>1, <3>1, AlignPad
        <3>3. SizeIn(frs, it, a)
                = LET pad == Min({p \in 0..Pow2(it.p2) : (a + p) % Pow2(it.p2) = 0})
                  IN IF it.max = 0 \/ pad <= it.max THEN pad ELSE 0
            BY <1>1, <1>3, <2>4, SizeIs
        <3>4. SizeIn(frs, it, a) = Pad(f, a)
            BY <3>2, <3>3, Zenon
        <3>5. QED BY <1>1, <2>2, <3>4
    <2>5. QED BY <1>7, <2>3, <2>4
<1>8. ASSUME IsBranch(it)
      PROVE  /\ it.frag = fr /\ FixSize(g) = o + Shape[g.sub].size
             /\ b = a + Shape[g.sub].size /\ Shape[g.sub].size \in Nat /\ FillSize(g) = 0
    <2>1. f.type = "machine" /\ Own(f) = o
        BY <1>8 DEF InFrag
    <2>2. /\ g.sub = f.sub /\ Shape[f.sub].size \in Nat /\ FixSize(g) = o + Shape[f.sub].size
          /\ FillSize(g) = 0
        BY <2>1 DEF Becomes
    <2>3. it.frag = fr /\ frs[it.frag] = g
        BY <1>8
    <2>4. SizeIn(frs, it, a) = Shape[g.sub].size
        BY <1>1, <1>3, <1>8, <2>3, SizeIs
    <2>5. QED BY <1>1, <2>2, <2>3, <2>4
<1>9. ASSUME Shuts(it) PROVE b = l + FixSize(g) + FillSize(g)
    <2>1. CASE it.kind \in {"org", "align"}
        BY <1>2, <1>7, <2>1 DEF a
    <2>2. CASE IsBranch(it)
        <3> DEFINE z == Shape[g.sub].size
        <3>1. FixSize(g) = o + z /\ b = a + z /\ z \in Nat /\ FillSize(g) = 0
            BY <1>8, <2>2
        <3> HIDE DEF z
        <3>2. QED BY <3>1 DEF a
    <2>3. QED BY <1>9, <2>1, <2>2 DEF Shuts
<1>10. Settled(it, fr, g, l, o, a, b, d)
    BY <1>4, <1>5, <1>6, <1>7, <1>8 DEF Settled, a
<1>11. QED BY <1>9, <1>10 DEF a

\* All of them, one after the other.
LEMMA Settles ==
    ASSUME NEW d, NEW its \in Seq(Items), NEW frs, FragsOK(frs), InPlace(its, frs, d),
           Last(frs).type \in {"fill", "unset"}, NEW gs \in Seq(FragRecords), Len(gs) = Len(frs),
           \A i \in 1..Len(frs) : Becomes(frs[i], gs[i], Layout(gs)[i])
    PROVE  Final(its, gs, d)
<1> DEFINE n == Len(its)  z == Len(frs)  f == FragOf(its)  p == PlaceOf(its)  l == Layout(gs)
           ta == AddressIn(its, gs)
<1>1. n \in Nat /\ z \in Nat /\ z > 0 /\ \A k \in 1..n : its[k] \in Items
    BY LastFrag DEF FragsOK
<1>2. /\ \A k \in 1..n :
           /\ f[k] \in 1..z /\ InFrag(its[k], frs[f[k]], p[k], d)
           /\ IsBranch(its[k]) => its[k].frag = f[k]
      /\ f[n + 1] = z /\ p[n + 1] = FixSize(frs[z])
    BY DEF InPlace
<1>3. f[1] = 1 /\ p[1] = 0 /\ \A k \in 1..n + 1 : f[k] \in Nat /\ p[k] \in Nat
    BY SpotsTyped
<1>4. \A i \in 1..z : /\ frs[i] \in FragRecords /\ gs[i] \in FragRecords
                      /\ Becomes(frs[i], gs[i], l[i])
    <2>1. frs \in Seq(FragRecords)
        BY DEF FragsOK
    <2>2. QED BY <2>1
<1>5. \A k \in 1..n : Shaped(gs, its[k])
    <2>1. ASSUME NEW k \in 1..n, IsBranch(its[k]) PROVE Shape[gs[its[k].frag].sub].size \in Nat
        <3>1. its[k].frag = f[k] /\ f[k] \in 1..z /\ frs[f[k]].type = "machine"
            BY <1>2, <2>1 DEF InFrag
        <3>2. Becomes(frs[f[k]], gs[f[k]], l[f[k]])
            BY <1>4, <3>1
        <3>3. QED BY <3>1, <3>2 DEF Becomes
    <2>2. QED BY <2>1 DEF Shaped
<1>6. /\ ta \in [1..n + 1 -> Nat] /\ ta[1] = 0
      /\ \A k \in 1..n : ta[k + 1] = ta[k] + SizeIn(gs, its[k], ta[k])
    BY <1>5, AddressRun
<1>7. /\ l \in [1..z + 1 -> Nat] /\ l[1] = 0
      /\ \A i \in 1..z : l[i + 1] = l[i] + FixSize(gs[i]) + FillSize(gs[i])
    <2>1. /\ l \in [1..Len(gs) + 1 -> Nat] /\ l[1] = 0
          /\ \A i \in 1..Len(gs) : l[i + 1] = l[i] + FixSize(gs[i]) + FillSize(gs[i])
        BY LayoutRun
    <2>2. QED BY <2>1
<1>8. \A k \in 1..n : /\ f[k + 1] = IF Shuts(its[k]) THEN f[k] + 1 ELSE f[k]
                      /\ p[k + 1] = IF Shuts(its[k]) THEN 0 ELSE p[k] + Fixed(its[k])
    BY SpotNext
<1>9. Last(frs) = frs[z]
    BY LastFrag
<1>10. AddressIn(its, gs) = ta /\ Layout(gs) = l
    OBVIOUS
<1> HIDE DEF f, p, l, ta, n, z
<1> DEFINE Good(k) == Settled(its[k], f[k], gs[f[k]], l[f[k]], p[k], ta[k], ta[k + 1], d)
           S == {j \in Nat : j <= n => f[j + 1] \in Nat /\ f[j + 1] <= z
                                       /\ ta[j + 1] = l[f[j + 1]] + p[j + 1]}
<1>11. ASSUME NEW k \in 1..n, ta[k] = l[f[k]] + p[k]
       PROVE  /\ Good(k)
              /\ Shuts(its[k]) => ta[k + 1] = l[f[k] + 1]
              /\ ~ Shuts(its[k]) => ta[k + 1] = ta[k] + Fixed(its[k])
    <2> DEFINE i == f[k]
    <2>1. /\ i \in 1..z /\ InFrag(its[k], frs[i], p[k], d) /\ its[k] \in Items
          /\ IsBranch(its[k]) => its[k].frag = i
        BY <1>1, <1>2
    <2>2. frs[i] \in FragRecords /\ gs[i] \in FragRecords /\ Becomes(frs[i], gs[i], l[i])
        BY <1>4, <2>1
    <2>3. l[i] \in Nat /\ p[k] \in Nat /\ ta[k + 1] = l[i] + p[k] + SizeIn(gs, its[k], l[i] + p[k])
        <3>1. i \in 1..z + 1 /\ k \in 1..n + 1
            BY <1>1, <2>1
        <3>2. l[i] \in Nat /\ p[k] \in Nat
            BY <1>3, <1>7, <3>1
        <3>3. ta[k + 1] = ta[k] + SizeIn(gs, its[k], ta[k])
            BY <1>6
        <3>4. QED BY <1>11, <3>2, <3>3
    <2> HIDE DEF i
    <2> DEFINE it == its[k]  x == frs[i]  y == gs[i]  m == l[i]  o == p[k]  b == ta[k + 1]
    <2>4. /\ Settled(it, i, y, m, o, m + o, b, d)
          /\ Shuts(it) => b = m + FixSize(y) + FillSize(y)
        <3>1. /\ it \in Items /\ x \in FragRecords /\ y \in FragRecords /\ m \in Nat
              /\ o \in Nat /\ Becomes(x, y, m) /\ InFrag(it, x, o, d)
            BY <2>1, <2>2, <2>3
        <3>2. IsBranch(it) => it.frag = i /\ gs[i] = y
            BY <2>1
        <3>3. b = m + o + SizeIn(gs, it, m + o)
            BY <2>3
        <3> HIDE DEF it, x, y, m, o, b
        <3>4. Settled(it, i, y, m, o, m + o, b, d)
            BY <3>1, <3>2, <3>3, SettlesOne
        <3>5. Shuts(it) => b = m + FixSize(y) + FillSize(y)
            <4>1. CASE it.kind \in {"org", "align"}
                <5>1. FixSize(y) = o /\ b = m + o + FillSize(y)
                    BY <3>4, <4>1 DEF Settled
                <5>2. QED BY <5>1
            <4>2. CASE IsBranch(it)
                <5>1. FixSize(y) = o + Shape[y.sub].size /\ b = m + o + Shape[y.sub].size
                      /\ Shape[y.sub].size \in Nat
                    BY <3>4, <4>2 DEF Settled
                <5>2. x.type = "machine"
                    BY <3>1, <4>2 DEF InFrag
                <5>3. FillSize(y) = 0
                    BY <3>1, <5>2 DEF Becomes
                <5>4. QED BY <3>1, <5>1, <5>3
            <4>3. QED BY <4>1, <4>2 DEF Shuts
        <3>6. QED BY <3>4, <3>5
    <2>5. Good(k)
        BY <1>11, <2>4 DEF i
    <2>6. Shuts(its[k]) => ta[k + 1] = l[i + 1]
        BY <1>7, <2>1, <2>4
    <2>7. ~ Shuts(its[k]) => ta[k + 1] = ta[k] + Fixed(its[k])
        BY <1>11, <2>4 DEF Settled, i
    <2>8. QED BY <2>5, <2>6, <2>7 DEF i
<1>12. 0 \in S
    <2>1. 0 + 1 = 1 /\ 1 \in 1..z + 1
        BY <1>1
    <2>2. ta[1] = l[f[1]] + p[1]
        BY <1>3, <1>6, <1>7
    <2>3. QED BY <1>1, <1>3, <2>1, <2>2
<1>13. ASSUME NEW j \in Nat, j \in S PROVE j + 1 \in S
    <2>1. CASE j + 1 <= n
        <3> DEFINE k == j + 1
        <3>1. k \in 1..n /\ ta[k] = l[f[k]] + p[k] /\ k \in Nat
            BY <1>1, <1>13, <2>1
        <3> HIDE DEF k
        <3>2. /\ Shuts(its[k]) => ta[k + 1] = l[f[k] + 1]
              /\ ~ Shuts(its[k]) => ta[k + 1] = ta[k] + Fixed(its[k])
            BY <1>11, <3>1
        <3>3. /\ f[k + 1] = IF Shuts(its[k]) THEN f[k] + 1 ELSE f[k]
              /\ p[k + 1] = IF Shuts(its[k]) THEN 0 ELSE p[k] + Fixed(its[k])
            BY <1>8, <3>1
        <3>4. f[k] \in 1..z /\ f[k + 1] <= z /\ f[k + 1] \in Nat
            <4>1. f[k] \in 1..z /\ k + 1 \in 1..n + 1
                BY <1>1, <1>2, <3>1
            <4>2. f[k + 1] \in Nat
                BY <1>3, <4>1
            <4>3. k = n \/ k + 1 \in 1..n
                BY <1>1, <3>1
            <4>4. CASE k = n
                BY <1>1, <1>2, <4>1, <4>2, <4>4
            <4>5. CASE k + 1 \in 1..n
                BY <1>1, <1>2, <4>1, <4>2, <4>5
            <4>6. QED BY <4>1, <4>2, <4>3, <4>4, <4>5
        <3>5. ta[k + 1] = l[f[k + 1]] + p[k + 1]
            <4>1. CASE Shuts(its[k])
                <5>1. f[k + 1] = f[k] + 1 /\ p[k + 1] = 0 /\ ta[k + 1] = l[f[k] + 1]
                    BY <3>2, <3>3, <4>1
                <5>2. f[k] + 1 \in 1..z + 1
                    BY <1>1, <3>4
                <5>3. l[f[k] + 1] \in Nat
                    BY <1>7, <5>2
                <5>4. QED BY <5>1, <5>3
            <4>2. CASE ~ Shuts(its[k])
                <5>1. f[k + 1] = f[k] /\ p[k + 1] = p[k] + Fixed(its[k])
                      /\ ta[k + 1] = ta[k] + Fixed(its[k])
                    BY <3>2, <3>3, <4>2
                <5>2. its[k] \in Items /\ k \in 1..n + 1 /\ f[k] \in 1..z + 1
                    BY <1>1, <3>1, <3>4
                <5>3. l[f[k]] \in Nat /\ p[k] \in Nat /\ Fixed(its[k]) \in Nat
                    BY <1>3, <1>7, <5>2, FixedNat
                <5>4. QED BY <3>1, <5>1, <5>3
            <4>3. QED BY <4>1, <4>2
        <3>6. k \in S
            BY <3>1, <3>4, <3>5
        <3>7. QED BY <3>6 DEF k
    <2>2. CASE ~ (j + 1 <= n)
        BY <2>2
    <2>3. QED BY <2>1, <2>2
<1> HIDE DEF S
<1>14. ASSUME NEW k \in 1..n + 1 PROVE ta[k] = l[f[k]] + p[k]
    <2>1. \A j \in Nat : j \in S => j + 1 \in S
        BY <1>13
    <2>2. Nat \subseteq S
        BY <1>12, <2>1, SetInduction
    <2>3. k - 1 \in Nat /\ k - 1 <= n /\ (k - 1) + 1 = k
        BY <1>1
    <2>4. k - 1 \in S
        BY <2>2, <2>3
    <2>5. QED BY <2>3, <2>4 DEF S
<1>15. \A k \in 1..n : Good(k)
    <2>1. ASSUME NEW k \in 1..n PROVE Good(k)
        <3>1. k \in 1..n + 1
            BY <1>1
        <3>2. QED BY <1>11, <1>14, <3>1
    <2>2. QED BY <2>1
<1>16. ta[n + 1] = l[z + 1]
    <2>1. n + 1 \in 1..n + 1 /\ z \in 1..z
        BY <1>1
    <2>2. ta[n + 1] = l[z] + FixSize(frs[z])
        BY <1>2, <1>14, <2>1
    <2>3. FixSize(gs[z]) = FixSize(frs[z]) /\ FillSize(gs[z]) = 0
        <3>1. frs[z].type \notin {"machine", "org", "align"}
            BY <1>9
        <3>2. Becomes(frs[z], gs[z], l[z])
            BY <1>4, <2>1
        <3>3. QED BY <3>1, <3>2 DEF Becomes
    <2>4. l[z + 1] = l[z] + FixSize(gs[z]) + FillSize(gs[z])
        BY <1>7, <2>1
    <2>5. l[z] \in Nat /\ FixSize(frs[z]) \in Nat
        <3>1. z \in 1..z + 1 /\ frs[z] \in FragRecords
            BY <1>1, <1>4, <2>1
        <3>2. QED BY <1>7, <3>1, SizesTyped
    <2>6. QED BY <2>2, <2>3, <2>4, <2>5
<1>17. \A k \in 1..n : f[k] \in 1..Len(gs) /\ p[k] \in Nat /\ Good(k)
    <2>1. ASSUME NEW k \in 1..n PROVE f[k] \in 1..Len(gs) /\ p[k] \in Nat
        <3>1. k \in 1..n + 1
            BY <1>1
        <3>2. QED BY <1>2, <1>3, <3>1 DEF z
    <2>2. QED BY <1>15, <2>1
<1>18. ta[n + 1] = l[Len(gs) + 1] /\ ta \in [1..n + 1 -> Nat]
    BY <1>6, <1>16 DEF z
<1>19. QED BY <1>17, <1>18 DEF Final, f, p, l, ta, n

-----------------------------------------------------------------------------
(* md_convert_frag and finalize_align_org.                                 *)

LEMMA ConvertKeeps ==
    ASSUME NEW f, FragOK(f)
    PROVE  Convert(f).sub = f.sub /\ Convert(f).lit \in Seq(Byte)
<1>1. f \in FragRecords /\ f.lit \in Seq(Byte) /\ Len(f.lit) \in Nat
    BY LitOf DEF FragOK
<1>2. FragOK(Convert(f))
    BY <1>1, ConvertTyped
<1>3. Convert(f).lit \in Seq(Byte)
    BY <1>2, LitOf DEF FragOK
<1>4. CASE f.type = "machine"
    <2> DEFINE w == SubSeq(f.lit, 1, Len(f.lit) - OpcodeBytes) \o Opcode(f)
    <2>1. Convert(f) = [f EXCEPT !.type = "fill", !.lit = w]
        BY <1>4 DEF Convert, Converted
    <2> HIDE DEF w
    <2>2. QED BY <1>1, <1>3, <2>1 DEF FragRecords
<1>5. CASE f.type # "machine"
    BY <1>3, <1>5 DEF Convert
<1>6. QED BY <1>4, <1>5

LEMMA FinalizedSub ==
    ASSUME NEW fs, FragsOK(fs), NEW i \in 1..Len(fs)
    PROVE  Finalized(fs)[i].sub = fs[i].sub
<1> DEFINE pad == Pad(fs[i], FinalAddresses(fs)[i] + FixSize(fs[i]))
<1>1. DOMAIN fs = 1..Len(fs) /\ fs[i] \in FragRecords
    BY DEF FragsOK, FragOK
<1>2. Finalized(fs)[i] = IF fs[i].type \in {"align", "org"}
                         THEN [fs[i] EXCEPT !.type = "fill", !.var = 1, !.off = pad]
                         ELSE fs[i]
    BY <1>1 DEF Finalized
<1> HIDE DEF pad
<1>3. QED BY <1>1, <1>2 DEF FragRecords

LEMMA ConvertLit ==
    ASSUME NEW f, FragOK(f)
    PROVE  /\ Own(f) <= FixSize(Convert(f)) /\ Own(f) \in Nat
           /\ \A j \in 1..Own(f) : Convert(f).lit[j] = f.lit[j]
           /\ f.type = "machine" =>
                /\ Shape[f.sub].size \in Nat /\ FixSize(Convert(f)) = Own(f) + Shape[f.sub].size
                /\ \A j \in 1..Shape[f.sub].size : Convert(f).lit[Own(f) + j] = Opcode(f)[j]
<1> DEFINE x == f.lit  y == Convert(f).lit
<1>1. f \in FragRecords /\ x \in Seq(Byte) /\ Len(x) \in Nat /\ FixSize(f) = Len(x)
    BY LitOf DEF FragOK
<1>2. CASE f.type # "machine"
    <2>1. Own(f) = Len(x) /\ Convert(f) = f
        BY <1>1, <1>2 DEF Own, Convert
    <2>2. QED BY <1>1, <1>2, <2>1
<1>3. CASE f.type = "machine"
    <2> DEFINE head == SubSeq(f.lit, 1, Len(f.lit) - 2)  op == Opcode(f)  z == Shape[f.sub].size
               o == Own(f)
    <2>1. /\ y = head \o op /\ head \in Seq(Byte) /\ Len(head) = Len(x) - 2
          /\ op \in Seq(Byte) /\ Len(op) = z /\ z \in Nat /\ Len(x) >= 2
        BY <1>1, <1>3, ConvertTyped
    <2>2. o = Len(x) - 2
        BY <1>1, <1>3 DEF Own, OpcodeBytes
    <2>3. \A j \in 1..Len(x) - 2 : head[j] = x[j]
        <3>1. 1 \in 1..Len(x) + 1 /\ Len(x) - 2 \in 1 - 1..Len(x)
            BY <1>1, <2>1
        <3> HIDE DEF x
        <3>2. \A j \in 1..Len(x) - 2 : SubSeq(x, 1, Len(x) - 2)[j] = x[j]
            BY <1>1, <2>1
        <3>3. QED BY <3>2 DEF x
    <2>4. FixSize(Convert(f)) = Len(y)
        BY DEF FixSize
    <2> HIDE DEF x, y, head, op, z, o
    <2>5. /\ Len(y) = Len(head) + Len(op) /\ \A j \in 1..Len(head) : y[j] = head[j]
          /\ \A j \in 1..Len(op) : y[Len(head) + j] = op[j]
        <3>1. head \in Seq(Byte) /\ op \in Seq(Byte) /\ y = head \o op
            BY <2>1
        <3>2. Len(head) \in Nat /\ Len(op) \in Nat /\ Len(head \o op) = Len(head) + Len(op)
            BY <3>1
        <3>3. ASSUME NEW j \in 1..Len(head) PROVE (head \o op)[j] = head[j]
            BY <3>1
        <3>4. ASSUME NEW j \in 1..Len(op) PROVE (head \o op)[Len(head) + j] = op[j]
            BY <3>1
        <3>5. QED BY <3>1, <3>2, <3>3, <3>4
    <2>6. o \in Nat /\ o = Len(head) /\ Len(y) = o + z
        BY <1>1, <2>1, <2>2, <2>5
    <2>7. \A j \in 1..o : y[j] = x[j]
        BY <2>2, <2>3, <2>5, <2>6
    <2>8. \A j \in 1..z : y[o + j] = op[j]
        BY <2>1, <2>5, <2>6
    <2>9. QED BY <2>1, <2>4, <2>6, <2>7, <2>8, SMTT(30) DEF x, y, op, z, o
<1>4. QED BY <1>2, <1>3

\* The last frag of the chain stays open until md_convert_frag.
OpenEnd == phase \in {"relax", "relaxing"} => Last(frags).type \in {"fill", "unset"}

LEMMA OpenEnds ==
    ASSUME Types, OpenEnd, DefineLabels \/ RelaxBranches \/ RelaxSegment
    PROVE  OpenEnd'
<1>1. FragsOK(frags) /\ Len(frags) \in 1..Len(frags) /\ Last(frags) = frags[Len(frags)]
    BY LastFrag DEF Types, ChainOK
<1>2. CASE DefineLabels
    <2>1. phase = "parse" /\ frags' = frags
        BY <1>2 DEF DefineLabels
    <2>2. Last(frags).type \in {"fill", "unset"}
        BY <2>1 DEF Types, ChainOK, Parsing
    <2>3. QED BY <2>1, <2>2 DEF OpenEnd
<1>3. ASSUME NEW new, frags' = [i \in DOMAIN frags |-> new[i]]
      PROVE  Last(frags)' = new[Len(frags)] /\ Len(frags') = Len(frags)
    <2>1. DOMAIN frags = 1..Len(frags) /\ Len(frags) \in Nat
        BY <1>1 DEF FragsOK
    <2>2. Len(frags') = Len(frags) /\ frags'[Len(frags)] = new[Len(frags)]
        BY <1>1, <1>3, <2>1
    <2>3. QED BY <2>2 DEF Last
<1>4. CASE RelaxBranches
    <2> DEFINE new == [i \in DOMAIN frags |-> Prepared(frags[i])]  f == frags[Len(frags)]
    <2>1. frags' = [i \in DOMAIN frags |-> new[i]] /\ phase = "relax"
        BY <1>4 DEF RelaxBranches
    <2>2. DOMAIN frags = 1..Len(frags) /\ Len(frags) \in Nat /\ f \in FragRecords
        BY <1>1 DEF FragsOK
    <2>3. new[Len(frags)] = Prepared(f)
        BY <1>1, <2>2
    <2> HIDE DEF new
    <2>4. Last(frags)' = Prepared(f)
        BY <1>3, <2>1, <2>3
    <2>5. f.type \in {"fill", "unset"}
        BY <1>1, <2>1 DEF OpenEnd
    <2> HIDE DEF f
    <2>6. Prepared(f).type = "fill"
        BY <2>2, <2>5 DEF Prepared, FragRecords
    <2>7. QED BY <2>4, <2>6 DEF OpenEnd
<1>5. CASE RelaxSegment
    <2>1. phase = "relaxing"
        BY <1>5 DEF RelaxSegment
    <2>2. PICK i \in Growing : frags' = [frags EXCEPT ![i].sub = RlxMore[@]]
        BY <1>5 DEF RelaxSegment
    <2>3. i \in DOMAIN frags /\ frags[i].type = "machine"
        BY DEF Growing
    <2>4. Last(frags).type \in {"fill", "unset"}
        BY <2>1 DEF OpenEnd
    <2>5. i # Len(frags)
        BY <1>1, <2>3, <2>4
    <2>6. Len(frags') = Len(frags) /\ frags'[Len(frags)] = frags[Len(frags)]
        BY <1>1, <2>2, <2>5 DEF FragsOK
    <2>7. QED BY <1>1, <2>4, <2>6 DEF OpenEnd, Last
<1>6. QED BY <1>2, <1>4, <1>5

LEMMA ConvertedBecomes ==
    ASSUME Types, phase = "relaxing", NEW i \in 1..Len(frags)
    PROVE  LET gs == Finalized(ConvertedChain) IN Becomes(frags[i], gs[i], Layout(gs)[i])
<1> DEFINE cs == ConvertedChain  gs == Finalized(cs)  f == frags[i]  c == Convert(f)  g == gs[i]
           l == Layout(gs)[i]
<1>1. /\ FragsOK(cs) /\ Len(cs) = Len(frags) /\ \A k \in 1..Len(frags) : cs[k] = Convert(frags[k])
    BY ConvertedChainTyped
<1>2. cs[i] = c /\ i \in 1..Len(cs) /\ i \in 1..Len(cs) + 1
    BY <1>1
<1>3. FragOK(f) /\ f \in FragRecords /\ Len(f.lit) \in Nat
    BY FragIs
<1>4. Unfilled(cs)
    <2>1. ASSUME NEW k \in 1..Len(cs) PROVE cs[k].var = 0
        <3>1. k \in 1..Len(frags) /\ cs[k] = Convert(frags[k])
            BY <1>1
        <3>2. FragOK(frags[k]) /\ Len(frags[k].lit) \in Nat /\ frags[k].var = 0
            BY <3>1, FragIs
        <3>3. Convert(frags[k]).var = frags[k].var
            BY <3>2, ConvertTyped
        <3>4. QED BY <3>1, <3>2, <3>3
    <2>2. QED BY <2>1 DEF Unfilled
<1> HIDE DEF cs
<1>5. /\ g \in FragRecords /\ g.lit = c.lit /\ g.fill = c.fill /\ g.sub = c.sub
    <2>1. gs[i] \in FragRecords /\ gs[i].lit = cs[i].lit /\ gs[i].fill = cs[i].fill
        BY <1>1, <1>2, FinalizedTyped
    <2>2. gs[i].sub = cs[i].sub
        BY <1>1, <1>2, FinalizedSub
    <2>3. QED BY <1>2, <2>1, <2>2
<1>6. /\ FixSize(g) = FixSize(c)
      /\ FillSize(g) = Pad(c, l + FixSize(c))
      /\ c.type \notin {"align", "org"} => FillSize(g) = 0
    <2>1. /\ FixSize(gs[i]) = FixSize(cs[i])
          /\ FillSize(gs[i]) = Pad(cs[i], FinalAddresses(cs)[i] + FixSize(cs[i]))
          /\ cs[i].type \notin {"align", "org"} => FillSize(gs[i]) = 0
        BY <1>1, <1>2, <1>4, FilledAs
    <2>2. Layout(gs)[i] = FinalAddresses(cs)[i]
        BY <1>1, <1>2, <1>4, FinalLayout
    <2>3. QED BY <1>2, <2>1, <2>2
<1> HIDE DEF gs, g, l
<1>7. /\ c.fill = f.fill /\ c.sub = f.sub /\ (f.type # "machine" => c = f)
      /\ f.type = "machine" => c.type = "fill"
    BY <1>3, ConvertTyped, ConvertKeeps
<1>8. /\ Own(f) <= FixSize(c) /\ Own(f) \in Nat
      /\ \A j \in 1..Own(f) : c.lit[j] = f.lit[j]
      /\ f.type = "machine" =>
           /\ Shape[f.sub].size \in Nat /\ FixSize(c) = Own(f) + Shape[f.sub].size
           /\ \A j \in 1..Shape[f.sub].size : c.lit[Own(f) + j] = Opcode(f)[j]
    BY <1>3, ConvertLit
<1> HIDE DEF f, c
<1>9. /\ Own(f) <= FixSize(g) /\ g.sub = f.sub /\ g.fill = f.fill
      /\ \A j \in 1..Own(f) : g.lit[j] = f.lit[j]
    BY <1>5, <1>6, <1>7, <1>8
<1>10. f.type = "machine" =>
         /\ Shape[f.sub].size \in Nat /\ FixSize(g) = Own(f) + Shape[f.sub].size
         /\ \A j \in 1..Shape[f.sub].size : g.lit[Own(f) + j] = Opcode(f)[j]
    BY <1>5, <1>6, <1>8, Zenon
<1>11. /\ f.type # "machine" => FixSize(g) = FixSize(f)
       /\ f.type \in {"align", "org"} => FillSize(g) = Pad(f, l + FixSize(f))
       /\ f.type \notin {"align", "org"} => FillSize(g) = 0
    BY <1>6, <1>7
<1>12. Becomes(f, g, l)
    BY <1>9, <1>10, <1>11, Zenon DEF Becomes
<1>13. QED BY <1>12 DEF f, g, l, gs, cs

\* The layout is final.
LEMMA ConvertFinal ==
    ASSUME NEW d, Types, OpenEnd, Reads(d), ConvertAndFinalize
    PROVE  Final(items, frags, d)'
<1> DEFINE gs == Finalized(ConvertedChain)
<1>1. phase = "relaxing" /\ frags' = gs /\ items' = items
    BY ConvertIs
<1>2. FragsOK(ConvertedChain) /\ Len(ConvertedChain) = Len(frags)
    BY ConvertedChainTyped
<1>3. gs \in Seq(FragRecords) /\ Len(gs) = Len(frags)
    BY <1>2, FinalizedChain
<1>4. FragsOK(frags) /\ items \in Seq(Items)
    BY DEF Types, ChainOK, ItemsOK
<1>5. \A i \in 1..Len(frags) : Becomes(frags[i], gs[i], Layout(gs)[i])
    BY <1>1, ConvertedBecomes
<1>6. Last(frags).type \in {"fill", "unset"}
    BY <1>1 DEF OpenEnd
<1>7. InPlace(items, frags, d)
    BY DEF Reads, Sited
<1> HIDE DEF gs
<1>8. Final(items, gs, d)
    BY <1>3, <1>4, <1>5, <1>6, <1>7, Settles
<1>9. QED BY <1>1, <1>8 DEF Final, AddressIn, Layout

-----------------------------------------------------------------------------
(* The fields in the final chain: where they start, and that they end      *)
(* within what the item asked for.                                         *)

Refers(it) == Fielded(it) \/ IsBranch(it)
FieldStart(it, f) == IF IsBranch(it) THEN Shape[f.sub].at ELSE 0
FormIn(it, f)     == IF IsBranch(it) THEN Shape[f.sub].form ELSE FormOf(it)
Extent(it, f)     == IF IsBranch(it) THEN Shape[f.sub].size ELSE Fixed(it)
Room(it, f, o) == Refers(it) =>
    /\ FieldStart(it, f) \in Nat /\ FormIn(it, f) \in FixForms
    /\ FieldStart(it, f) + FieldLength(FormIn(it, f), f.lit[o + FieldStart(it, f) + 1])
         <= Extent(it, f)
Hits(fx, it, i, f, o) == /\ Refers(it) /\ fx.frag = i /\ fx.where = o + FieldStart(it, f)
                         /\ fx.form = FormIn(it, f)
HitSet(its, frs) ==
    {fx \in Fixups : \E k \in 1..Len(its) :
        Hits(fx, its[k], FragOf(its)[k], frs[FragOf(its)[k]], PlaceOf(its)[k])}
Roomy(its, frs, fxs) ==
    /\ \A k \in 1..Len(its) : Room(its[k], frs[FragOf(its)[k]], PlaceOf(its)[k])
    /\ fxs \in Seq(HitSet(its, frs))

LEMMA InsnFields ==
    /\ InsnForms \cap DataForms = {} /\ "64" \notin DataForms
    /\ RelForms \ DataForms \subseteq InsnForms
    /\ \A form \in InsnForms : \A b : FieldLength(form, b) = InsnLength(b)
    /\ \A b : InsnLength(b) \in {2, 4}
    /\ \A form, b : FieldLength(form, b) \in {1, 2, 4}
<1>1. InsnForms \cap DataForms = {} /\ "64" \notin DataForms
    BY DEF InsnForms, DataForms, RelForms
<1>2. RelForms \ DataForms \subseteq InsnForms
    BY DEF InsnForms
<1>3. \A b : InsnLength(b) \in {2, 4}
    BY DEF InsnLength
<1>4. ASSUME NEW form, form \notin DataForms, NEW b PROVE FieldLength(form, b) = InsnLength(b)
    BY <1>4 DEF FieldLength, DataForms
<1>5. ASSUME NEW form, NEW b PROVE FieldLength(form, b) \in {1, 2, 4}
    <2>1. CASE form \in DataForms
        <3>1. form \in {"32ABS", "32REL"} \/ form = "16ABS" \/ form = "8ABS"
            BY <2>1 DEF DataForms
        <3>2. QED BY <3>1 DEF FieldLength
    <2>2. CASE form \notin DataForms
        BY <1>3, <1>4, <2>2
    <2>3. QED BY <2>1, <2>2
<1>6. QED BY <1>1, <1>2, <1>3, <1>4, <1>5

LEMMA DataFields ==
    ASSUME NEW w \in Widths, NEW b
    PROVE  /\ FieldLength(DataForm(w), b) <= w
           /\ DataForm(w) \in DataForms \cup {"64"}
<1>1. CASE w = 1
    BY <1>1 DEF DataForm, FieldLength, DataForms
<1>2. CASE w = 2
    BY <1>2 DEF DataForm, FieldLength, DataForms
<1>3. CASE w = 4
    BY <1>3 DEF DataForm, FieldLength, DataForms
<1>4. CASE w = 8
    <2>1. DataForm(w) = "64"
        BY <1>4 DEF DataForm
    <2>2. FieldLength(DataForm(w), b) \in {1, 2, 4}
        BY InsnFields
    <2>3. QED BY <1>4, <2>1, <2>2
<1>5. QED BY <1>1, <1>2, <1>3, <1>4 DEF Widths

LEMMA Rooms ==
    ASSUME NEW d, NEW it \in Items, NEW f, FragOK(f), NEW g \in FragRecords, NEW l,
           Becomes(f, g, l), NEW o \in Nat, InFrag(it, f, o, d)
    PROVE  Room(it, g, o)
<1>1. CASE it.kind = "data"
    <2>1. it.width \in Widths /\ ~ IsBranch(it)
        BY <1>1, KindOf DEF IsBranch
    <2>2. FieldStart(it, g) = 0 /\ FormIn(it, g) = DataForm(it.width) /\ Extent(it, g) = it.width
        BY <1>1, <2>1 DEF FieldStart, FormIn, Extent, FormOf, Fixed
    <2>3. DataForm(it.width) \in FixForms
        BY <2>1, DataFields DEF FixForms
    <2>4. FieldLength(DataForm(it.width), g.lit[o + 0 + 1]) <= it.width
        BY <2>1, DataFields
    <2>5. FieldLength(DataForm(it.width), g.lit[o + 0 + 1]) \in {1, 2, 4}
        BY InsnFields
    <2> DEFINE x == FieldLength(DataForm(it.width), g.lit[o + 0 + 1])
    <2>6. 0 + x <= it.width
        BY <2>4, <2>5
    <2> HIDE DEF x
    <2>7. QED BY <2>2, <2>3, <2>6 DEF Room, x
<1>2. CASE it.kind = "insn" /\ it.op \notin Branches \cup Simple
    <2> DEFINE bs == Insns[it.op].bytes  form == Insns[it.op].form
    <2>1. it.op \in DOMAIN Insns \ Branches /\ it.op \notin Simple /\ ~ IsBranch(it)
        BY <1>2, KindOf DEF IsBranch
    <2>2. /\ bs \in Seq(Byte) /\ Len(bs) > 0 /\ form \in InsnForms /\ form \in FixForms
          /\ Len(bs) = InsnLength(bs[1])
        BY <2>1, InsnIs
    <2>3. /\ FieldStart(it, g) = 0 /\ FormIn(it, g) = form /\ Extent(it, g) = Len(bs)
          /\ Fixed(it) = Len(bs) /\ Stored(it) = bs /\ Written(it, d)
        BY <1>2, <2>1 DEF FieldStart, FormIn, Extent, FormOf, Fixed, Stored, Written
    <2> HIDE DEF bs, form
    <2>4. 1 \in 1..Fixed(it) /\ o + Fixed(it) <= Own(f)
        BY <2>2, <2>3 DEF InFrag
    <2>5. f.lit[o + 1] = bs[1]
        BY <2>3, <2>4 DEF InFrag
    <2>6. Own(f) \in Int
        BY LitOf DEF FragOK
    <2>7. o + 1 \in 1..Own(f)
        BY <2>2, <2>3, <2>4, <2>6
    <2>8. g.lit[o + 1] = bs[1]
        BY <2>5, <2>7 DEF Becomes
    <2>9. FieldLength(form, g.lit[o + 1]) = Len(bs)
        BY <2>2, <2>8, InsnFields
    <2>10. o + 0 + 1 = o + 1 /\ 0 + Len(bs) <= Len(bs)
        BY <2>2
    <2>11. QED BY <2>2, <2>3, <2>9, <2>10 DEF Room
<1>3. CASE IsBranch(it)
    <2> DEFINE s == Shape[f.sub]  op == Opcode(f)  x == InsnLength(op[s.at + 1])
    <2>1. f.type = "machine" /\ Own(f) = o
        BY <1>3 DEF InFrag
    <2>2. f.op \in Branches /\ f.sub \in DOMAIN Insns[f.op].opcode
        BY <2>1 DEF FragOK, MachineOK
    <2>3. /\ s.at \in Nat /\ s.size \in Nat /\ s.at + x <= s.size /\ f.sub \in States
        BY <2>2, InsnIs DEF Opcode
    <2>4. s.form \in RelForms \ DataForms
        BY <2>3, RelaxTable
    <2>5. s.form \in InsnForms /\ s.form \in FixForms
        BY <2>4, InsnFields DEF FixForms
    <2>6. g.sub = f.sub /\ \A j \in 1..s.size : g.lit[o + j] = op[j]
        BY <2>1 DEF Becomes
    <2>7. FieldStart(it, g) = s.at /\ FormIn(it, g) = s.form /\ Extent(it, g) = s.size
        BY <1>3, <2>6 DEF FieldStart, FormIn, Extent
    <2>8. x \in {2, 4}
        BY InsnFields
    <2> HIDE DEF s, op
    <2>9. s.at + 1 \in 1..s.size
        <3> HIDE DEF x
        <3>1. QED BY <2>3, <2>8
    <2>10. g.lit[o + (s.at + 1)] = op[s.at + 1]
        BY <2>6, <2>9
    <2>11. o + (s.at + 1) = o + s.at + 1
        BY <2>3
    <2>12. FieldLength(s.form, g.lit[o + s.at + 1]) = x
        BY <2>5, <2>10, <2>11, InsnFields
    <2>13. QED BY <2>3, <2>5, <2>7, <2>12 DEF Room
<1>4. CASE ~ Refers(it)
    BY <1>4 DEF Room
<1>5. QED BY <1>1, <1>2, <1>3, <1>4 DEF Refers, Fielded

\* The fixups sit on the fields.
LEMMA FieldHit ==
    ASSUME NEW its, NEW gs, NEW fx \in FieldSet(its)
    PROVE  fx \in HitSet(its, gs)
<1>1. fx \in Fixups
    BY DEF FieldSet
<1>2. PICK k \in 1..Len(its) : Fits(fx, its, k)
    BY DEF FieldSet
<1>3. ~ IsBranch(its[k])
    BY <1>2 DEF Fits, Fielded, IsBranch
<1>4. fx.where + 0 = fx.where
    BY <1>1 DEF Fixups
<1>5. PlaceOf(its)[k] = fx.where
    BY <1>2 DEF Fits
<1>6. Hits(fx, its[k], FragOf(its)[k], gs[FragOf(its)[k]], PlaceOf(its)[k])
    BY <1>2, <1>3, <1>4, <1>5 DEF Fits, Hits, Refers, FieldStart, FormIn
<1>7. QED BY <1>1, <1>6 DEF HitSet

LEMMA BranchFixTyped ==
    ASSUME Types, NEW i \in 1..Len(frags), frags[i].type = "machine"
    PROVE  /\ BranchFix(i) \in Fixups /\ BranchFix(i).frag = i
           /\ BranchFix(i).form = Shape[frags[i].sub].form
           /\ BranchFix(i).where = Own(frags[i]) + Shape[frags[i].sub].at
<1> DEFINE f == frags[i]  s == Shape[f.sub]  k == Len(f.lit)
           where == FixSize(f) - OpcodeBytes + s.at
<1>1. f \in FragRecords /\ k \in Nat /\ k >= 2 /\ f.op \in Branches
      /\ f.sub \in DOMAIN Insns[f.op].opcode
    BY FragIs
<1>2. s.at \in Nat /\ s.form \in FixForms
    BY <1>1, InsnIs
<1>3. where = k - 2 + s.at /\ where \in Nat /\ where = Own(f) + s.at
    BY <1>1, <1>2 DEF FixSize, OpcodeBytes, Own
<1>4. ToWord(f.off) \in Word /\ f.sym \in SymVals /\ NoSym \in SymVals
    BY <1>1, WordParts, SymbolsTyped DEF FragRecords
<1>5. BranchFix(i) = [frag |-> i, where |-> where, form |-> s.form, sym |-> f.sym,
                      sub |-> NoSym, add |-> ToWord(f.off)]
    BY DEF BranchFix, Fix, Term
<1>6. i \in Nat
    BY DEF Types, ChainOK, FragsOK
<1> HIDE DEF where, s, f, k
<1>7. BranchFix(i) \in Fixups /\ BranchFix(i).frag = i /\ BranchFix(i).where = where
      /\ BranchFix(i).form = s.form
    BY <1>2, <1>3, <1>4, <1>5, <1>6 DEF Fixups
<1>8. QED BY <1>3, <1>7 DEF s, f

LEMMA BranchHit ==
    ASSUME NEW d, Types, InPlace(items, frags, d), NEW i \in 1..Len(frags),
           frags[i].type = "machine", NEW gs, gs[i].sub = frags[i].sub
    PROVE  BranchFix(i) \in HitSet(items, gs)
<1>1. PICK k \in 1..Len(items) : IsBranch(items[k]) /\ FragOf(items)[k] = i
    BY DEF InPlace, HasBranch
<1>2. Own(frags[i]) = PlaceOf(items)[k]
    BY <1>1 DEF InPlace, InFrag
<1>3. Hits(BranchFix(i), items[k], i, gs[i], PlaceOf(items)[k])
    BY <1>1, <1>2, BranchFixTyped DEF Hits, Refers, FieldStart, FormIn
<1>4. QED BY <1>1, <1>3, BranchFixTyped DEF HitSet

LEMMA ConvertRoomy ==
    ASSUME NEW d, Types, Reads(d), ConvertAndFinalize
    PROVE  Roomy(items, frags, fixes)'
<1> DEFINE gs == Finalized(ConvertedChain)
<1>1. phase = "relaxing" /\ frags' = gs /\ items' = items
      /\ fixes' = fixes \o FlattenSeq(NewFixes)
    BY ConvertIs
<1>2. FragsOK(ConvertedChain) /\ Len(ConvertedChain) = Len(frags)
    BY ConvertedChainTyped
<1>3. gs \in Seq(FragRecords) /\ Len(gs) = Len(frags)
    BY <1>2, FinalizedChain
<1>4. FragsOK(frags) /\ items \in Seq(Items) /\ Len(frags) \in Nat /\ DOMAIN frags = 1..Len(frags)
    BY DEF Types, ChainOK, ItemsOK, FragsOK
<1>5. \A i \in 1..Len(frags) : Becomes(frags[i], gs[i], Layout(gs)[i])
    BY <1>1, ConvertedBecomes
<1>6. InPlace(items, frags, d) /\ fixes \in Seq(FieldSet(items))
    BY DEF Reads, Sited
<1> HIDE DEF gs
<1>7. ASSUME NEW k \in 1..Len(items)
      PROVE  Room(items[k], gs[FragOf(items)[k]], PlaceOf(items)[k])
    <2> DEFINE i == FragOf(items)[k]  o == PlaceOf(items)[k]
    <2>1. i \in 1..Len(frags) /\ InFrag(items[k], frags[i], o, d)
        BY <1>6 DEF InPlace
    <2>2. o \in Nat
        <3>1. k \in 1..Len(items) + 1
            BY <1>4
        <3>2. QED BY <1>4, <3>1, SpotsTyped
    <2>3. items[k] \in Items /\ FragOK(frags[i]) /\ gs[i] \in FragRecords
          /\ Becomes(frags[i], gs[i], Layout(gs)[i])
        BY <1>3, <1>4, <1>5, <2>1 DEF FragsOK
    <2> HIDE DEF i, o
    <2>4. Room(items[k], gs[i], o)
        BY <2>1, <2>2, <2>3, Rooms
    <2>5. QED BY <2>4 DEF i, o
<1>8. FlattenSeq(NewFixes) \in Seq(HitSet(items, gs))
    <2>1. ASSUME NEW i \in 1..Len(frags) PROVE NewFixes[i] \in Seq(HitSet(items, gs))
        <3>1. NewFixes[i] = IF frags[i].type = "machine" THEN <<BranchFix(i)>> ELSE <<>>
            BY <1>4 DEF NewFixes
        <3>2. CASE frags[i].type = "machine"
            <4>1. gs[i].sub = frags[i].sub
                BY <1>5 DEF Becomes
            <4>2. BranchFix(i) \in HitSet(items, gs)
                BY <1>6, <3>2, <4>1, BranchHit
            <4>3. QED BY <3>1, <3>2, <4>2, SingleTyped
        <3>3. CASE frags[i].type # "machine"
            BY <3>1, <3>3, EmptyTyped
        <3>4. QED BY <3>2, <3>3
    <2>2. NewFixes = [i \in 1..Len(frags) |-> NewFixes[i]]
        BY <1>4 DEF NewFixes
    <2>3. QED BY <1>4, <2>1, <2>2, SelectTyped
<1>9. fixes \in Seq(HitSet(items, gs))
    <2>1. FieldSet(items) \subseteq HitSet(items, gs)
        BY FieldHit
    <2>2. QED BY <1>6, <2>1
<1>10. fixes' \in Seq(HitSet(items, gs))
    <2> DEFINE x == fixes  y == FlattenSeq(NewFixes)
    <2>1. x \in Seq(HitSet(items, gs)) /\ y \in Seq(HitSet(items, gs)) /\ fixes' = x \o y
        BY <1>1, <1>8, <1>9
    <2> HIDE DEF x, y
    <2>2. x \o y \in Seq(HitSet(items, gs))
        BY <2>1, ConcatProperties
    <2>3. QED BY <2>1, <2>2
<1>11. Roomy(items, gs, fixes')
    BY <1>7, <1>10 DEF Roomy
<1>12. QED BY <1>1, <1>11 DEF Roomy, HitSet

-----------------------------------------------------------------------------
(* One field is encoded.                                                   *)

\* No form moves a bit to the first one of an instruction, which tells its length.
LEMMA MovesAbove ==
    ASSUME NEW form \in InsnForms, NEW m \in Moves(form)
    PROVE  m[1] \in Nat /\ m[2] \in Nat /\ m[3] \in Nat /\ m[3] > 0
<1>1. form \in {"24REL", "24ABS", "18ABS", "18ABS_14", "HI", "HIADJ", "LO", "LO2", "16CONST",
                "16OFF", "10OFF", "15REL", "8REL", "4REL", "4REL2", "5REL", "9SCONST",
                "9ZCONST", "8CONST"}
    BY DEF InsnForms, RelForms, DataForms
<1>2. CASE form \in {"24REL", "24ABS", "18ABS", "18ABS_14"}
    BY <1>2 DEF Moves
<1>3. CASE form \in {"HI", "HIADJ", "LO", "LO2", "16CONST"}
    BY <1>3 DEF Moves
<1>4. CASE form \in {"16OFF", "10OFF", "15REL", "8REL", "4REL"}
    BY <1>4 DEF Moves
<1>5. CASE form \in {"4REL2", "5REL", "9SCONST", "9ZCONST", "8CONST"}
    BY <1>5 DEF Moves
<1>6. QED BY <1>1, <1>2, <1>3, <1>4, <1>5

LEMMA SteadyBit ==
    ASSUME NEW form \in InsnForms, NEW op, NEW v
    PROVE  0 \in Encode(form, op, v) <=> 0 \in op
<1>1. 0 \notin Field(form)
    <2>1. ASSUME NEW m \in Moves(form) PROVE 0 \notin m[3]..(m[3] + m[2] - 1)
        BY MovesAbove
    <2>2. QED BY <2>1 DEF Field
<1>2. ASSUME NEW w PROVE 0 \notin Placed(form, w)
    <2>1. ASSUME NEW m \in Moves(form), 0 \in Shift(w \cap (m[1]..(m[1] + m[2] - 1)), m[3] - m[1])
          PROVE  FALSE
        <3>1. m[1] \in Nat /\ m[2] \in Nat /\ m[3] \in Nat /\ m[3] > 0
            BY MovesAbove
        <3>2. PICK b \in w \cap (m[1]..(m[1] + m[2] - 1)) : 0 = b + (m[3] - m[1])
            BY <2>1 DEF Shift
        <3>3. b \in Int /\ b >= m[1]
            BY <3>1
        <3>4. QED BY <3>1, <3>2, <3>3
    <2>2. QED BY <2>1 DEF Placed
<1>3. QED BY <1>1, <1>2 DEF Encode

LEMMA EncodeOutside ==
    ASSUME NEW buf \in Seq(Byte), NEW at, NEW form, NEW v, NEW p \in 1..Len(buf),
           p \notin (at + 1)..(at + FieldLength(form, buf[at + 1]))
    PROVE  EncodeAt(buf, at, form, v)[p] = buf[p]
<1> DEFINE n == FieldLength(form, buf[at + 1])
<1>1. p \in DOMAIN buf /\ p \notin (at + 1)..(at + n)
    OBVIOUS
<1> HIDE DEF n
<1>2. \A w : WrLe(buf, at, n, w)[p] = buf[p]
    BY <1>1 DEF WrLe
<1>3. QED BY <1>2 DEF EncodeAt, n

LEMMA EncodeFirst ==
    ASSUME NEW buf \in Seq(Byte), NEW at \in Nat, NEW form \in InsnForms, NEW v,
           at + FieldLength(form, buf[at + 1]) <= Len(buf)
    PROVE  0 \in EncodeAt(buf, at, form, v)[at + 1] <=> 0 \in buf[at + 1]
<1> DEFINE n == FieldLength(form, buf[at + 1])  op == RdLe(buf, at, n)  w == Encode(form, op, v)
<1>1. n \in {1, 2, 4} /\ at + n <= Len(buf) /\ Len(buf) \in Nat
    BY InsnFields
<1>2. EncodeAt(buf, at, form, v) = WrLe(buf, at, n, w)
    BY DEF EncodeAt
<1> HIDE DEF n
<1>3. ASSUME NEW i \in 1..n PROVE buf[at + i] \subseteq 0..7
    <2>1. at + i \in 1..Len(buf)
        BY <1>1
    <2>2. buf[at + i] \in Byte
        BY <2>1
    <2>3. QED BY <2>2 DEF Byte
<1>4. 0 \in op <=> 0 \in buf[at + 1]
    <2>1. ASSUME NEW i \in 1..n, 0 \in Shift(buf[at + i], 8 * (i - 1)) PROVE 0 \in buf[at + 1]
        <3>1. PICK b \in buf[at + i] : 0 = b + 8 * (i - 1)
            BY <2>1 DEF Shift
        <3>2. b \in 0..7
            BY <1>3
        <3>3. i \in Nat /\ i >= 1
            BY <1>1
        <3>4. i = 1 /\ b = 0
            BY <3>1, <3>2, <3>3
        <3>5. QED BY <3>4
    <2>2. ASSUME 0 \in buf[at + 1] PROVE 0 \in op
        <3>1. 1 \in 1..n
            BY <1>1
        <3>2. 0 = 0 + 8 * (1 - 1) /\ 0 \in WordBits
            BY DEF WordBits
        <3>3. 0 \in Shift(buf[at + 1], 8 * (1 - 1))
            BY <2>2, <3>2 DEF Shift
        <3>4. QED BY <3>1, <3>3 DEF RdLe
    <2>3. QED BY <2>1, <2>2 DEF RdLe
<1>5. op \subseteq Int
    <2>1. ASSUME NEW i \in 1..n PROVE Shift(buf[at + i], 8 * (i - 1)) \subseteq Int
        BY DEF Shift, WordBits
    <2>2. QED BY <2>1 DEF RdLe
<1>6. w \subseteq Int
    <2>1. ASSUME NEW x, NEW k PROVE Shift(x, k) \subseteq Int
        BY DEF Shift, WordBits
    <2>2. \A x : Placed(form, x) \subseteq Int
        BY <2>1 DEF Placed
    <2>3. QED BY <1>5, <2>2 DEF Encode
<1>7. 0 \in w <=> 0 \in op
    BY SteadyBit
<1>8. WrLe(buf, at, n, w)[at + 1] = ByteOf(w, at + 1 - at - 1)
    <2>1. at + 1 \in (at + 1)..(at + n) /\ at + 1 \in 1..Len(buf)
        BY <1>1
    <2>2. at + 1 \in DOMAIN buf
        BY <2>1
    <2>3. QED BY <2>1, <2>2 DEF WrLe
<1> HIDE DEF w
<1>9. ByteOf(w, at + 1 - at - 1) = Shift(w, 0) \cap (0..7)
    <2>1. at + 1 - at - 1 = 0
        OBVIOUS
    <2> DEFINE i == at + 1 - at - 1
    <2>2. i \in Nat /\ i = 0
        BY <2>1
    <2>3. ByteOf(w, i) = Shift(w, -8 * i) \cap (0..7)
        BY DEF ByteOf
    <2> HIDE DEF i
    <2>4. -8 * i = 0
        <3>1. i \in Int
            BY <2>2
        <3>2. -8 * i = 0 - 8 * i
            BY <3>1
        <3>3. 0 - 8 * i = 0
            BY <2>2
        <3>4. QED BY <3>2, <3>3
    <2>5. ByteOf(w, i) = Shift(w, 0) \cap (0..7)
        BY <2>3, <2>4
    <2>6. QED BY <2>5 DEF i
<1>10. 0 \in Shift(w, 0) <=> 0 \in w
    <2>1. ASSUME 0 \in Shift(w, 0) PROVE 0 \in w
        <3>1. PICK b \in w : 0 = b + 0
            BY <2>1 DEF Shift
        <3>2. b \in Int
            BY <1>6
        <3>3. QED BY <3>1, <3>2
    <2>2. ASSUME 0 \in w PROVE 0 \in Shift(w, 0)
        <3>1. 0 = 0 + 0 /\ 0 \in WordBits
            BY DEF WordBits
        <3>2. QED BY <2>2, <3>1 DEF Shift
    <2>3. QED BY <2>1, <2>2
<1>11. 0 \in 0..7
    OBVIOUS
<1>12. QED BY <1>2, <1>4, <1>7, <1>8, <1>9, <1>10, <1>11

\* Addresses never go back.
LEMMA Ascending ==
    ASSUME NEW n \in Nat, NEW a \in [1..n + 1 -> Nat], \A k \in 1..n : a[k] <= a[k + 1],
           NEW j \in 1..n + 1, NEW k \in 1..n + 1, j <= k
    PROVE  a[j] <= a[k]
<1> DEFINE S == {i \in Nat : j + i <= n + 1 => a[j] <= a[j + i]}
<1>1. 0 \in S
    BY DEF S
<1>2. ASSUME NEW i \in Nat, i \in S PROVE i + 1 \in S
    <2>1. CASE j + (i + 1) <= n + 1
        <3> DEFINE m == j + i
        <3>1. m \in 1..n /\ a[j] <= a[m] /\ m + 1 = j + (i + 1)
            BY <1>2, <2>1
        <3>2. m \in 1..n + 1 /\ m + 1 \in 1..n + 1
            BY <3>1
        <3> HIDE DEF m
        <3>3. a[m] <= a[m + 1] /\ a[m] \in Nat /\ a[m + 1] \in Nat /\ a[j] \in Nat
            BY <3>1, <3>2
        <3>4. a[j] <= a[m + 1]
            BY <3>1, <3>3
        <3>5. QED BY <3>1, <3>4
    <2>2. CASE ~ (j + (i + 1) <= n + 1)
        BY <2>2
    <2>3. QED BY <2>1, <2>2
<1> HIDE DEF S
<1>3. \A i \in Nat : i \in S => i + 1 \in S
    BY <1>2
<1>4. Nat \subseteq S
    BY <1>1, <1>3, SetInduction
<1>5. k - j \in Nat /\ j + (k - j) = k /\ j + (k - j) <= n + 1
    OBVIOUS
<1>6. k - j \in S
    BY <1>4, <1>5
<1>7. QED BY <1>5, <1>6 DEF S

-----------------------------------------------------------------------------
(* Encoding the fields leaves alone what needs none.                       *)

LEMMA Ordered ==
    ASSUME NEW d, NEW its \in Seq(Items), NEW frs \in Seq(FragRecords), Final(its, frs, d)
    PROVE  LET a == AddressIn(its, frs)
           IN /\ a \in [1..Len(its) + 1 -> Nat] /\ a[Len(its) + 1] = Len(Image(frs))
              /\ \A k \in 1..Len(its) : a[k] <= a[k + 1]
              /\ \A j, k \in 1..Len(its) + 1 : j <= k => a[j] <= a[k]
              /\ \A k \in 1..Len(its) + 1 : a[k] <= Len(Image(frs))
<1> DEFINE n == Len(its)  a == AddressIn(its, frs)  z == Len(Image(frs))
<1>1. /\ n \in Nat /\ a \in [1..n + 1 -> Nat]
    BY DEF Final
<1>2. a[n + 1] = z
    BY ImageIs DEF Final
<1>3. ASSUME NEW k \in 1..n PROVE a[k] <= a[k + 1]
    <2> DEFINE it == its[k]  i == FragOf(its)[k]  f == frs[i]  o == PlaceOf(its)[k]
               l == Layout(frs)[i]
    <2>1. /\ i \in 1..Len(frs) /\ it \in Items
          /\ Settled(it, i, f, l, o, a[k], a[k + 1], d)
        BY DEF Final
    <2>2. f \in FragRecords
        BY <2>1
    <2>3. k \in 1..n + 1
        BY <1>1
    <2>4. a[k] \in Nat /\ Fixed(it) \in Nat /\ FillSize(f) \in Nat
        BY <1>1, <2>1, <2>2, <2>3, FixedNat, SizesTyped
    <2> DEFINE x == a[k]  y == a[k + 1]
    <2>5. /\ ~ Shuts(it) => y = x + Fixed(it)
          /\ it.kind \in {"org", "align"} => y = x + FillSize(f)
          /\ IsBranch(it) => y = x + Shape[f.sub].size /\ Shape[f.sub].size \in Nat
        BY <2>1 DEF Settled
    <2> HIDE DEF it, i, f, o, l, a, x, y
    <2>6. x <= y
        BY <2>4, <2>5 DEF Shuts, x
    <2>7. QED BY <2>6 DEF x, y
<1> HIDE DEF n, a, z
<1>4. ASSUME NEW j \in 1..n + 1, NEW k \in 1..n + 1, j <= k PROVE a[j] <= a[k]
    BY <1>1, <1>3, <1>4, Ascending
<1>5. ASSUME NEW k \in 1..n + 1 PROVE a[k] <= z
    <2>1. n + 1 \in 1..n + 1 /\ k <= n + 1
        BY <1>1
    <2>2. a[k] <= a[n + 1]
        BY <1>4, <2>1
    <2>3. QED BY <1>2, <2>2
<1>6. QED BY <1>1, <1>2, <1>3, <1>4, <1>5 DEF n, a, z

\* Where an item lies in the image.
Begin(its, frs, k) == AddressIn(its, frs)[k] + FieldStart(its[k], frs[FragOf(its)[k]])
FormAt(its, frs, k) == FormIn(its[k], frs[FragOf(its)[k]])

LEMMA FieldSpan ==
    ASSUME NEW d, NEW its \in Seq(Items), NEW frs \in Seq(FragRecords), Final(its, frs, d),
           NEW k \in 1..Len(its), Refers(its[k]),
           Room(its[k], frs[FragOf(its)[k]], PlaceOf(its)[k])
    PROVE  LET b == Begin(its, frs, k)  form == FormAt(its, frs, k)
           IN /\ b \in Nat /\ form \in FixForms /\ AddressIn(its, frs)[k] <= b
              /\ b + FieldLength(form, Image(frs)[b + 1]) <= AddressIn(its, frs)[k + 1]
              /\ b = Layout(frs)[FragOf(its)[k]] + PlaceOf(its)[k]
                       + FieldStart(its[k], frs[FragOf(its)[k]])
<1> DEFINE it == its[k]  i == FragOf(its)[k]  f == frs[i]  o == PlaceOf(its)[k]
           l == Layout(frs)[i]  a == AddressIn(its, frs)[k]  e == AddressIn(its, frs)[k + 1]
           s == FieldStart(it, f)  form == FormIn(it, f)  im == Image(frs)
           n == FieldLength(form, f.lit[o + s + 1])
<1>1. /\ i \in 1..Len(frs) /\ it \in Items /\ o \in Nat
      /\ Settled(it, i, f, l, o, a, e, d)
    BY DEF Final
<1>2. f \in FragRecords
    BY <1>1
<1>3. l \in Nat
    <2>1. i \in 1..Len(frs) + 1
        BY <1>1
    <2>2. QED BY <2>1, LayoutRun
<1>4. s \in Nat /\ form \in FixForms /\ s + n <= Extent(it, f)
    BY DEF Room
<1>5. n \in {1, 2, 4}
    BY InsnFields
<1>6. a = l + o /\ e = a + Extent(it, f) /\ o + Extent(it, f) <= FixSize(f) /\ Extent(it, f) \in Nat
    <2>1. CASE IsBranch(it)
        <3>1. Extent(it, f) = Shape[f.sub].size
            BY <2>1 DEF Extent
        <3>2. a = l + o /\ FixSize(f) = o + Shape[f.sub].size /\ e = a + Shape[f.sub].size
              /\ Shape[f.sub].size \in Nat
            BY <1>1, <2>1 DEF Settled
        <3>3. QED BY <1>1, <3>1, <3>2
    <2>2. CASE ~ IsBranch(it)
        <3>1. Extent(it, f) = Fixed(it) /\ Fixed(it) \in Nat
            BY <1>1, <2>2, FixedNat DEF Extent
        <3>2. ~ Shuts(it)
            BY <2>2 DEF Shuts, Refers, Fielded
        <3>3. a = l + o /\ o + Fixed(it) <= FixSize(f) /\ e = a + Fixed(it)
            BY <1>1, <3>2 DEF Settled
        <3>4. QED BY <3>1, <3>3
    <2>3. QED BY <2>1, <2>2
<1>7. FixSize(f) \in Nat /\ \A j \in 1..FixSize(f) : im[l + j] = f.lit[j]
    BY <1>1, <1>2, SizesTyped, ImageIs
<1> DEFINE b == Begin(its, frs, k)
<1>8. b = a + s
    BY DEF Begin
<1>9. Refers(it) /\ FormAt(its, frs, k) = form
    BY DEF FormAt
<1> HIDE DEF it, i, f, o, l, a, e, s, form, im, n, b
<1>10. o + s + 1 \in 1..FixSize(f)
    BY <1>1, <1>4, <1>5, <1>6, <1>7
<1>11. im[l + (o + s + 1)] = f.lit[o + s + 1]
    BY <1>7, <1>10
<1>12. l + (o + s + 1) = b + 1 /\ b \in Nat /\ a <= b /\ b = l + o + s
    BY <1>1, <1>3, <1>4, <1>6, <1>8
<1>13. FieldLength(form, im[b + 1]) = n
    BY <1>11, <1>12 DEF n
<1>14. b + n <= e
    BY <1>1, <1>3, <1>4, <1>5, <1>6, <1>8
<1>15. /\ b \in Nat /\ form \in FixForms /\ a <= b /\ b + FieldLength(form, im[b + 1]) <= e
       /\ b = l + o + s
    BY <1>4, <1>12, <1>13, <1>14
<1>16. QED BY <1>9, <1>15 DEF it, i, f, o, l, a, e, s, form, im, b

\* What needs no fixup is in the buffer as the text has it, and every field with a
\* fixup still tells the length of its instruction.
Intact(its, frs, d, buf) ==
    /\ buf \in Seq(Byte) /\ Len(buf) = Len(Image(frs))
    /\ \A k \in 1..Len(its) : Plain(its[k], d) =>
         \A j \in 1..Fixed(its[k]) : buf[AddressIn(its, frs)[k] + j] = Stored(its[k])[j]
    /\ \A k \in 1..Len(its) : Refers(its[k]) /\ FormAt(its, frs, k) \in InsnForms =>
         (0 \in buf[Begin(its, frs, k) + 1] <=> 0 \in Image(frs)[Begin(its, frs, k) + 1])

LEMMA ImageIntact ==
    ASSUME NEW d, NEW its \in Seq(Items), NEW frs \in Seq(FragRecords), Final(its, frs, d)
    PROVE  Intact(its, frs, d, Image(frs))
<1>1. Image(frs) \in Seq(Byte)
    BY ImageIs
<1>2. ASSUME NEW k \in 1..Len(its), Plain(its[k], d), NEW j \in 1..Fixed(its[k])
      PROVE  Image(frs)[AddressIn(its, frs)[k] + j] = Stored(its[k])[j]
    <2> DEFINE it == its[k]  i == FragOf(its)[k]  f == frs[i]  o == PlaceOf(its)[k]
               l == Layout(frs)[i]  a == AddressIn(its, frs)[k]  im == Image(frs)
    <2>1. /\ i \in 1..Len(frs) /\ it \in Items /\ o \in Nat
          /\ Settled(it, i, f, l, o, a, AddressIn(its, frs)[k + 1], d)
        BY DEF Final
    <2>2. f \in FragRecords /\ i \in 1..Len(frs) + 1
        BY <2>1
    <2>3. l \in Nat /\ FixSize(f) \in Nat /\ Fixed(it) \in Nat
        BY <2>1, <2>2, LayoutRun, SizesTyped, FixedNat
    <2>4. a = l + o /\ o + Fixed(it) <= FixSize(f) /\ f.lit[o + j] = Stored(it)[j]
        BY <1>2, <2>1 DEF Settled
    <2>5. \A x \in 1..FixSize(f) : im[l + x] = f.lit[x]
        BY <2>1, ImageIs
    <2>6. j \in 1..Fixed(it)
        OBVIOUS
    <2> HIDE DEF it, i, f, o, l, a, im
    <2>7. o + j \in 1..FixSize(f) /\ l + (o + j) = a + j
        BY SMTT(30), <2>1, <2>3, <2>4, <2>6
    <2>8. im[a + j] = Stored(it)[j]
        BY <2>4, <2>5, <2>7
    <2>9. QED BY <2>8 DEF it, a, im
<1>3. QED BY <1>1, <1>2 DEF Intact

LEMMA EncodeIntact ==
    ASSUME NEW d, NEW its \in Seq(Items), NEW frs \in Seq(FragRecords), Final(its, frs, d),
           \A k \in 1..Len(its) : Room(its[k], frs[FragOf(its)[k]], PlaceOf(its)[k]),
           NEW fx \in HitSet(its, frs), fx.form # "64", NEW v, NEW buf, Intact(its, frs, d, buf)
    PROVE  Intact(its, frs, d, EncodeAt(buf, Layout(frs)[fx.frag] + fx.where, fx.form, v))
<1> DEFINE n == Len(its)  a == AddressIn(its, frs)  im == Image(frs)  z == Len(im)
           at == Layout(frs)[fx.frag] + fx.where  form == fx.form
           len == FieldLength(form, buf[at + 1])  new == EncodeAt(buf, at, form, v)
           Start(k) == Begin(its, frs, k)
<1>1. /\ n \in Nat /\ a \in [1..n + 1 -> Nat] /\ \A k \in 1..n : a[k] <= a[k + 1]
      /\ \A j, k \in 1..n + 1 : j <= k => a[j] <= a[k]
      /\ \A k \in 1..n + 1 : a[k] <= z
    <2>1. n \in Nat /\ a \in [1..n + 1 -> Nat]
        BY DEF Final
    <2>2. \A k \in 1..n : a[k] <= a[k + 1]
        BY Ordered, Zenon
    <2>3. \A j, k \in 1..n + 1 : j <= k => a[j] <= a[k]
        BY Ordered, Zenon
    <2>4. \A k \in 1..n + 1 : a[k] <= z
        BY Ordered, Zenon
    <2>5. QED BY <2>1, <2>2, <2>3, <2>4
<1>2. PICK k \in 1..n : Hits(fx, its[k], FragOf(its)[k], frs[FragOf(its)[k]], PlaceOf(its)[k])
    BY DEF HitSet
<1>3. /\ Refers(its[k]) /\ form = FormAt(its, frs, k)
      /\ fx.frag = FragOf(its)[k] /\ fx.where = PlaceOf(its)[k] + FieldStart(its[k], frs[FragOf(its)[k]])
    BY <1>2 DEF Hits, FormAt
<1>4. ASSUME NEW m \in 1..n, Refers(its[m])
      PROVE  /\ Start(m) \in Nat /\ FormAt(its, frs, m) \in FixForms /\ a[m] <= Start(m)
             /\ Start(m) + FieldLength(FormAt(its, frs, m), im[Start(m) + 1]) <= a[m + 1]
             /\ Start(m) = Layout(frs)[FragOf(its)[m]] + PlaceOf(its)[m]
                              + FieldStart(its[m], frs[FragOf(its)[m]])
    BY <1>4, FieldSpan
<1>5. at = Start(k)
    <2> DEFINE l == Layout(frs)[FragOf(its)[k]]  o == PlaceOf(its)[k]
               s == FieldStart(its[k], frs[FragOf(its)[k]])
    <2>1. at = l + (o + s) /\ Start(k) = l + o + s
        BY <1>3, <1>4
    <2>2. o \in Nat /\ s \in Nat
        BY <1>3 DEF Final, Room
    <2>3. l \in Nat
        <3>1. FragOf(its)[k] \in 1..Len(frs) + 1
            BY DEF Final
        <3>2. QED BY <3>1, LayoutRun
    <2> HIDE DEF l, o, s, at, Start
    <2>4. QED BY <2>1, <2>2, <2>3
<1>6. /\ buf \in Seq(Byte) /\ Len(buf) = z /\ z \in Nat
      /\ \A m \in 1..n : Plain(its[m], d) =>
           \A j \in 1..Fixed(its[m]) : buf[a[m] + j] = Stored(its[m])[j]
      /\ \A m \in 1..n : Refers(its[m]) /\ FormAt(its, frs, m) \in InsnForms =>
           (0 \in buf[Start(m) + 1] <=> 0 \in im[Start(m) + 1])
    BY DEF Intact
<1> HIDE DEF a, im, z, at, Start
<1>7. len \in {1, 2, 4} /\ at \in Nat /\ a[k] <= at /\ at + len <= a[k + 1]
    <2>1. len = FieldLength(form, im[at + 1])
        <3>1. CASE form \in InsnForms
            <4>1. 0 \in buf[at + 1] <=> 0 \in im[at + 1]
                BY <1>3, <1>5, <1>6, <3>1
            <4>2. InsnLength(buf[at + 1]) = InsnLength(im[at + 1])
                BY <4>1 DEF InsnLength
            <4>3. QED BY <3>1, <4>2, InsnFields
        <3>2. CASE form \in DataForms
            <4>1. form \in {"32ABS", "32REL"} \/ form = "16ABS" \/ form = "8ABS"
                BY <3>2 DEF DataForms
            <4>2. QED BY <4>1 DEF FieldLength
        <3>3. form \in FixForms /\ form # "64"
            BY <1>3, <1>4
        <3>4. QED BY <3>1, <3>2, <3>3 DEF FixForms
    <2>2. at \in Nat /\ a[k] <= at /\ at + FieldLength(form, im[at + 1]) <= a[k + 1]
        BY <1>3, <1>4, <1>5
    <2>3. len \in {1, 2, 4}
        BY InsnFields
    <2> HIDE DEF form, len
    <2>4. QED BY <2>1, <2>2, <2>3
<1> HIDE DEF len, new
<1>8. new \in Seq(Byte) /\ Len(new) = z
    BY <1>6, EncodeTyped DEF new
<1>9. ASSUME NEW m \in 1..n, m # k, NEW x \in Nat, a[m] < x, x <= a[m + 1]
      PROVE  new[x] = buf[x]
    <2>1. m \in 1..n + 1 /\ m + 1 \in 1..n + 1 /\ k \in 1..n + 1 /\ k + 1 \in 1..n + 1
        BY <1>1
    <2>2. a[m] \in Nat /\ a[m + 1] \in Nat /\ a[k] \in Nat /\ a[k + 1] \in Nat
        BY <1>1, <2>1
    <2>3. x \in 1..Len(buf)
        <3>1. a[m + 1] <= z
            BY <1>1, <2>1
        <3>2. QED BY <1>6, <1>9, <2>2, <3>1
    <2>4. a[m + 1] <= a[k] \/ a[k + 1] <= a[m]
        <3>1. m + 1 <= k \/ k + 1 <= m
            BY <1>9
        <3>2. CASE m + 1 <= k
            BY <1>1, <2>1, <3>2
        <3>3. CASE k + 1 <= m
            BY <1>1, <2>1, <3>3
        <3>4. QED BY <3>1, <3>2, <3>3
    <2>5. x \notin (at + 1)..(at + len)
        BY <1>7, <1>9, <2>2, <2>4
    <2>6. QED BY <1>6, <2>3, <2>5, EncodeOutside DEF new, len
<1>10. ASSUME NEW m \in 1..n, Plain(its[m], d), NEW j \in 1..Fixed(its[m])
       PROVE  new[a[m] + j] = Stored(its[m])[j]
    <2>1. m # k
        BY <1>3, <1>10 DEF Plain, Refers, Fielded, IsBranch
    <2>2. its[m] \in Items /\ m \in 1..n + 1 /\ ~ Shuts(its[m])
        BY <1>10 DEF Plain, Shuts, IsBranch
    <2>3. a[m] \in Nat /\ Fixed(its[m]) \in Nat
        BY <1>1, <2>2, FixedNat
    <2>4. a[m + 1] = a[m] + Fixed(its[m])
        BY <2>2 DEF Final, Settled, a
    <2>5. a[m] + j \in Nat /\ a[m] < a[m] + j /\ a[m] + j <= a[m + 1]
        BY <2>3, <2>4
    <2>6. new[a[m] + j] = buf[a[m] + j]
        BY <1>9, <2>1, <2>5
    <2>7. QED BY <1>6, <1>10, <2>6
<1>11. ASSUME NEW m \in 1..n, Refers(its[m]), FormAt(its, frs, m) \in InsnForms
       PROVE  0 \in new[Start(m) + 1] <=> 0 \in im[Start(m) + 1]
    <2>1. 0 \in buf[Start(m) + 1] <=> 0 \in im[Start(m) + 1]
        BY <1>6, <1>11
    <2>2. CASE m = k
        <3>1. form \in InsnForms
            BY <1>3, <1>11, <2>2
        <3>2. at + len <= Len(buf)
            <4>1. k + 1 \in 1..n + 1
                BY <1>1
            <4>2. a[k + 1] <= z /\ a[k + 1] \in Nat
                BY <1>1, <4>1
            <4>3. QED BY <1>6, <1>7, <4>2
        <3>3. at \in Nat
            BY <1>7
        <3> HIDE DEF form
        <3>4. 0 \in new[at + 1] <=> 0 \in buf[at + 1]
            BY <1>6, <3>1, <3>2, <3>3, EncodeFirst DEF new, len
        <3>5. QED BY <1>5, <2>1, <2>2, <3>4
    <2>3. CASE m # k
        <3> DEFINE x == FieldLength(FormAt(its, frs, m), im[Start(m) + 1])
        <3>1. x \in {1, 2, 4}
            BY InsnFields
        <3>2. Start(m) \in Nat /\ a[m] <= Start(m) /\ Start(m) + x <= a[m + 1]
            BY <1>4, <1>11
        <3> HIDE DEF x
        <3>3. m \in 1..n + 1 /\ m + 1 \in 1..n + 1
            BY <1>1
        <3>4. a[m] \in Nat /\ a[m + 1] \in Nat
            BY <1>1, <3>3
        <3>5. Start(m) + 1 \in Nat /\ a[m] < Start(m) + 1 /\ Start(m) + 1 <= a[m + 1]
            BY <3>1, <3>2, <3>4
        <3>6. new[Start(m) + 1] = buf[Start(m) + 1]
            BY <1>9, <2>3, <3>5
        <3>7. QED BY <2>1, <3>6
    <2>4. QED BY <2>2, <2>3
<1>12. QED BY <1>8, <1>10, <1>11 DEF Intact, a, im, z, new, at, Start

LEMMA EncodedIntact ==
    ASSUME NEW d, Types, Final(items, frags, d), Roomy(items, frags, fixes)
    PROVE  Intact(items, frags, d, EncodedImage)
<1> DEFINE A == {buf \in Seq(Byte) : Intact(items, frags, d, buf)}
           s == [k \in DOMAIN fixes |-> [buf \in Seq(Byte) |->
                   IF k \in Encodable \ OutOfRange
                   THEN EncodeAt(buf, Site(fixes[k]), fixes[k].form, FieldValue(fixes[k]))
                   ELSE buf]]
<1>1. frags \in Seq(FragRecords) /\ items \in Seq(Items)
    BY DEF Types, ChainOK, FragsOK, ItemsOK
<1>2. Image(frags) \in A
    BY <1>1, ImageIs, ImageIntact
<1>3. DOMAIN fixes = 1..Len(fixes) /\ Len(fixes) \in Nat
    BY DEF Types, FixesOK
<1>4. ASSUME NEW k \in 1..Len(fixes), NEW a \in A PROVE s[k][a] \in A
    <2>1. a \in Seq(Byte) /\ Intact(items, frags, d, a)
        OBVIOUS
    <2> DEFINE e == EncodeAt(a, Site(fixes[k]), fixes[k].form, FieldValue(fixes[k]))
    <2>2. s[k][a] = IF k \in Encodable \ OutOfRange THEN e ELSE a
        BY <1>3, <2>1
    <2>3. CASE k \in Encodable \ OutOfRange
        <3>1. fixes[k] \in HitSet(items, frags)
            BY DEF Roomy
        <3>2. fixes[k].form # "64"
            BY <2>3 DEF Encodable, HasHowto
        <3>3. \A m \in 1..Len(items) : Room(items[m], frags[FragOf(items)[m]], PlaceOf(items)[m])
            BY DEF Roomy
        <3>4. Intact(items, frags, d, e)
            BY <1>1, <2>1, <3>1, <3>2, <3>3, EncodeIntact DEF Site
        <3>5. e \in Seq(Byte)
            BY <3>4 DEF Intact
        <3> HIDE DEF e, s
        <3>6. QED BY <2>2, <2>3, <3>4, <3>5
    <2>4. CASE k \notin Encodable \ OutOfRange
        <3> HIDE DEF e, s
        <3>1. QED BY <2>2, <2>4
    <2>5. QED BY <2>3, <2>4
<1>5. EncodedImage = After(Len(fixes), Image(frags), s)
    BY DEF EncodedImage
<1> HIDE DEF A, s
<1>6. After(Len(fixes), Image(frags), s) \in A
    BY <1>2, <1>3, <1>4, AfterIs
<1>7. QED BY <1>5, <1>6 DEF A

-----------------------------------------------------------------------------
(* The encoded image goes back into the frags.                             *)

LEMMA StepsAgree ==
    ASSUME NEW n \in Nat, NEW f, NEW g, f[1] = g[1],
           \A k \in 1..n : f[k] = g[k] => f[k + 1] = g[k + 1], NEW k \in 1..n + 1
    PROVE  f[k] = g[k]
<1> DEFINE S == {j \in Nat : j <= n => f[j + 1] = g[j + 1]}
<1>1. 0 \in S
    BY DEF S
<1>2. ASSUME NEW j \in Nat, j \in S PROVE j + 1 \in S
    <2>1. CASE j + 1 <= n
        <3>1. j + 1 \in 1..n /\ f[j + 1] = g[j + 1]
            BY <1>2, <2>1
        <3>2. QED BY <3>1
    <2>2. CASE ~ (j + 1 <= n)
        BY <2>2
    <2>3. QED BY <2>1, <2>2
<1> HIDE DEF S
<1>3. \A j \in Nat : j \in S => j + 1 \in S
    BY <1>2
<1>4. Nat \subseteq S
    BY <1>1, <1>3, SetInduction
<1>5. k - 1 \in Nat /\ k - 1 <= n /\ (k - 1) + 1 = k
    OBVIOUS
<1>6. k - 1 \in S
    BY <1>4, <1>5
<1>7. QED BY <1>5, <1>6 DEF S

\* Chains that differ in their bytes alone.
Alike(fs, gs) ==
    /\ Len(gs) = Len(fs)
    /\ \A i \in 1..Len(fs) : /\ FixSize(gs[i]) = FixSize(fs[i])
                             /\ FillSize(gs[i]) = FillSize(fs[i])
                             /\ gs[i].sub = fs[i].sub /\ gs[i].fill = fs[i].fill

LEMMA AlikeLayout ==
    ASSUME NEW fs \in Seq(FragRecords), NEW gs \in Seq(FragRecords), Alike(fs, gs),
           NEW i \in 1..Len(fs) + 1
    PROVE  Layout(gs)[i] = Layout(fs)[i]
<1> DEFINE n == Len(fs)  f == Layout(fs)  g == Layout(gs)
<1>1. n \in Nat /\ f[1] = 0 /\ g[1] = 0
    BY LayoutRun
<1>2. ASSUME NEW k \in 1..n, g[k] = f[k] PROVE g[k + 1] = f[k + 1]
    <2>1. k \in 1..Len(gs)
        BY DEF Alike
    <2>2. f[k + 1] = f[k] + FixSize(fs[k]) + FillSize(fs[k])
        BY LayoutRun
    <2>3. g[k + 1] = g[k] + FixSize(gs[k]) + FillSize(gs[k])
        BY <2>1, LayoutRun
    <2>4. FixSize(gs[k]) = FixSize(fs[k]) /\ FillSize(gs[k]) = FillSize(fs[k])
        BY DEF Alike
    <2> HIDE DEF f, g
    <2>5. QED BY <1>2, <2>2, <2>3, <2>4
<1>3. i \in 1..n + 1
    OBVIOUS
<1> HIDE DEF n, f, g
<1>4. \A k \in 1..n : g[k] = f[k] => g[k + 1] = f[k + 1]
    BY <1>2
<1>5. g[1] = f[1]
    BY <1>1
<1>6. g[i] = f[i]
    BY ZenonT(30), <1>1, <1>3, <1>4, <1>5, StepsAgree
<1>7. QED BY <1>6 DEF f, g

LEMMA FinalShaped ==
    ASSUME NEW d, NEW its, NEW frs, Final(its, frs, d), NEW k \in 1..Len(its)
    PROVE  Shaped(frs, its[k])
<1>1. CASE IsBranch(its[k])
    BY <1>1 DEF Shaped, Final, Settled
<1>2. QED BY <1>1 DEF Shaped

LEMMA AlikeAddress ==
    ASSUME NEW d, NEW its \in Seq(Items), NEW fs \in Seq(FragRecords), NEW gs \in Seq(FragRecords),
           Alike(fs, gs), Final(its, fs, d)
    PROVE  /\ AddressIn(its, gs) \in [1..Len(its) + 1 -> Nat]
           /\ \A k \in 1..Len(its) + 1 : AddressIn(its, gs)[k] = AddressIn(its, fs)[k]
<1> DEFINE n == Len(its)  a == AddressIn(its, fs)  b == AddressIn(its, gs)
<1>1. ASSUME NEW k \in 1..n
      PROVE  Shaped(fs, its[k]) /\ Shaped(gs, its[k]) /\ its[k] \in Items
             /\ (IsBranch(its[k]) => gs[its[k].frag].sub = fs[its[k].frag].sub)
    <2>1. Shaped(fs, its[k]) /\ its[k] \in Items
        BY FinalShaped
    <2>2. IsBranch(its[k]) => gs[its[k].frag].sub = fs[its[k].frag].sub
        <3>1. ASSUME IsBranch(its[k]) PROVE gs[its[k].frag].sub = fs[its[k].frag].sub
            <4>1. its[k].frag = FragOf(its)[k] /\ FragOf(its)[k] \in 1..Len(fs)
                BY <3>1 DEF Final, Settled
            <4>2. QED BY <4>1 DEF Alike
        <3>2. QED BY <3>1
    <2>3. QED BY <2>1, <2>2 DEF Shaped
<1>2. /\ n \in Nat /\ a \in [1..n + 1 -> Nat] /\ a[1] = 0
      /\ \A k \in 1..n : a[k + 1] = a[k] + SizeIn(fs, its[k], a[k])
    BY <1>1, AddressRun
<1>3. /\ b \in [1..n + 1 -> Nat] /\ b[1] = 0
      /\ \A k \in 1..n : b[k + 1] = b[k] + SizeIn(gs, its[k], b[k])
    BY <1>1, AddressRun
<1> HIDE DEF n, a, b
<1>4. ASSUME NEW k \in 1..n, b[k] = a[k] PROVE b[k + 1] = a[k + 1]
    <2> DEFINE it == its[k]  x == a[k]
    <2>1. it \in Items /\ Shaped(fs, it) /\ Shaped(gs, it)
          /\ (IsBranch(it) => gs[it.frag].sub = fs[it.frag].sub)
        BY <1>1
    <2>2. x \in Nat
        <3>1. k \in 1..n + 1
            BY <1>2
        <3>2. QED BY <1>2, <3>1
    <2>3. a[k + 1] = x + SizeIn(fs, it, x) /\ b[k + 1] = x + SizeIn(gs, it, x)
        BY <1>2, <1>3, <1>4
    <2> HIDE DEF it, x
    <2>4. CASE ~ Shuts(it)
        <3>1. SizeIn(fs, it, x) = Fixed(it) /\ SizeIn(gs, it, x) = Fixed(it)
            BY <2>1, <2>2, <2>4, SizeIs
        <3>2. QED BY <2>3, <3>1
    <2>5. CASE IsBranch(it)
        <3>1. SizeIn(fs, it, x) = Shape[fs[it.frag].sub].size
              /\ SizeIn(gs, it, x) = Shape[gs[it.frag].sub].size
            BY <2>1, <2>2, <2>5, SizeIs
        <3>2. QED BY <2>1, <2>3, <2>5, <3>1
    <2>6. CASE it.kind = "org"
        <3>1. SizeIn(fs, it, x) = Max({it.to - x, 0}) /\ SizeIn(gs, it, x) = Max({it.to - x, 0})
            BY <2>1, <2>2, <2>6, SizeIs
        <3>2. QED BY <2>3, <3>1
    <2>7. CASE it.kind = "align"
        <3> DEFINE p == LET pad == Min({p \in 0..Pow2(it.p2) : (x + p) % Pow2(it.p2) = 0})
                        IN IF it.max = 0 \/ pad <= it.max THEN pad ELSE 0
        <3>1. SizeIn(fs, it, x) = p /\ SizeIn(gs, it, x) = p
            BY <2>1, <2>2, <2>7, SizeIs
        <3> HIDE DEF p
        <3>2. QED BY <2>3, <3>1
    <2>8. QED BY <2>4, <2>5, <2>6, <2>7 DEF Shuts
<1>5. \A k \in 1..n : b[k] = a[k] => b[k + 1] = a[k + 1]
    BY <1>4
<1>6. ASSUME NEW k \in 1..n + 1 PROVE b[k] = a[k]
    <2>1. b[1] = a[1]
        BY <1>2, <1>3
    <2>2. n \in Nat
        BY <1>2
    <2>3. QED BY <1>5, <2>1, <2>2, StepsAgree
<1>7. QED BY <1>3, <1>6 DEF n, a, b

LEMMA CopiedAlike ==
    ASSUME NEW fs \in Seq(FragRecords), NEW buf \in Seq(Byte), Len(buf) = Len(Image(fs))
    PROVE  LET gs == CopiedBack(fs, buf)
           IN /\ gs \in Seq(FragRecords) /\ Alike(fs, gs)
              /\ \A i \in 1..Len(fs) + 1 : Layout(gs)[i] = Layout(fs)[i]
<1> DEFINE z == Len(fs)  gs == CopiedBack(fs, buf)
<1>1. z \in Nat
    OBVIOUS
<1>2. \A i \in 1..z :
         /\ gs[i] \in FragRecords /\ Len(gs[i].lit) = Len(fs[i].lit)
         /\ gs[i].type = fs[i].type /\ gs[i].fill = fs[i].fill /\ gs[i].var = fs[i].var
         /\ gs[i].off = fs[i].off /\ gs[i].sub = fs[i].sub
    BY CopiedTyped
<1>3. gs \in Seq(FragRecords) /\ Len(gs) = z
    <2>1. gs = [i \in 1..z |-> gs[i]]
        BY DEF CopiedBack
    <2> HIDE DEF gs
    <2>2. gs \in [1..z -> FragRecords]
        BY <1>2, <2>1
    <2>3. QED BY <1>1, <2>2, FunctionIsList
<1> HIDE DEF gs
<1>4. Alike(fs, gs)
    <2>1. ASSUME NEW i \in 1..z
          PROVE  /\ FixSize(gs[i]) = FixSize(fs[i]) /\ FillSize(gs[i]) = FillSize(fs[i])
                 /\ gs[i].sub = fs[i].sub /\ gs[i].fill = fs[i].fill
        <3>1. FixSize(gs[i]) = FixSize(fs[i])
            BY <1>2 DEF FixSize
        <3>2. FillSize(gs[i]) = FillSize(fs[i])
            BY <1>2 DEF FillSize
        <3>3. QED BY <1>2, <3>1, <3>2
    <2>2. QED BY <1>3, <2>1 DEF Alike
<1>5. \A i \in 1..z + 1 : Layout(gs)[i] = Layout(fs)[i]
    BY <1>3, <1>4, AlikeLayout
<1>6. QED BY <1>3, <1>4, <1>5 DEF gs

LEMMA CopiedFinal ==
    ASSUME NEW d, NEW its \in Seq(Items), NEW fs \in Seq(FragRecords), Final(its, fs, d),
           NEW buf, Intact(its, fs, d, buf)
    PROVE  Final(its, CopiedBack(fs, buf), d) /\ CopiedBack(fs, buf) \in Seq(FragRecords)
<1> DEFINE n == Len(its)  z == Len(fs)  gs == CopiedBack(fs, buf)
           a == AddressIn(its, fs)  b == AddressIn(its, gs)
<1>1. buf \in Seq(Byte) /\ Len(buf) = Len(Image(fs)) /\ n \in Nat /\ z \in Nat
    BY DEF Intact
<1>2. \A i \in 1..z :
         /\ gs[i] \in FragRecords /\ Len(gs[i].lit) = Len(fs[i].lit)
         /\ \A j \in 1..Len(fs[i].lit) : gs[i].lit[j] = buf[Layout(fs)[i] + j]
         /\ gs[i].type = fs[i].type /\ gs[i].fill = fs[i].fill /\ gs[i].var = fs[i].var
         /\ gs[i].off = fs[i].off /\ gs[i].sub = fs[i].sub
    BY <1>1, CopiedTyped
<1>3. gs \in Seq(FragRecords) /\ Alike(fs, gs) /\ \A i \in 1..z + 1 : Layout(gs)[i] = Layout(fs)[i]
    BY <1>1, CopiedAlike
<1> HIDE DEF gs
<1>4. Len(gs) = z /\ Alike(fs, gs)
    BY <1>3 DEF Alike
<1>5. \A i \in 1..z + 1 : Layout(gs)[i] = Layout(fs)[i]
    BY <1>3
<1>6. b \in [1..n + 1 -> Nat] /\ \A k \in 1..n + 1 : b[k] = a[k]
    BY <1>3, <1>4, AlikeAddress
<1>7. ASSUME NEW k \in 1..n
      PROVE  /\ FragOf(its)[k] \in 1..Len(gs) /\ PlaceOf(its)[k] \in Nat
             /\ Settled(its[k], FragOf(its)[k], gs[FragOf(its)[k]], Layout(gs)[FragOf(its)[k]],
                        PlaceOf(its)[k], b[k], b[k + 1], d)
    <2> DEFINE it == its[k]  i == FragOf(its)[k]  f == fs[i]  g == gs[i]  o == PlaceOf(its)[k]
               l == Layout(fs)[i]  x == a[k]  y == a[k + 1]
    <2>1. /\ i \in 1..z /\ it \in Items /\ o \in Nat /\ Settled(it, i, f, l, o, x, y, d)
        BY DEF Final
    <2>2. i \in 1..z + 1 /\ k \in 1..n + 1 /\ k + 1 \in 1..n + 1 /\ f \in FragRecords
        BY <1>1, <2>1
    <2>3. Layout(gs)[i] = l /\ b[k] = x /\ b[k + 1] = y
        BY <1>5, <1>6, <2>2
    <2>4. FixSize(g) = FixSize(f) /\ FillSize(g) = FillSize(f) /\ g.sub = f.sub /\ g.fill = f.fill
        BY <1>4, <2>1 DEF Alike
    <2>5. l \in Nat /\ FixSize(f) \in Nat /\ Fixed(it) \in Nat
        BY <2>1, <2>2, LayoutRun, SizesTyped, FixedNat
    <2>6. x = l + o /\ o + Fixed(it) <= FixSize(f)
        BY <2>1 DEF Settled
    <2>7. \A j \in 1..FixSize(f) : g.lit[j] = buf[l + j]
        BY <1>2, <2>1 DEF FixSize
    <2>8. Plain(it, d) => \A j \in 1..Fixed(it) : buf[x + j] = Stored(it)[j]
        BY DEF Intact
    <2>9. i \in 1..Len(gs)
        BY <1>4, <2>1
    <2> HIDE DEF it, i, f, g, o, l, x, y
    <2>10. ASSUME Plain(it, d), NEW j \in 1..Fixed(it) PROVE g.lit[o + j] = Stored(it)[j]
        <3>1. o + j \in 1..FixSize(f) /\ l + (o + j) = x + j
            BY <2>1, <2>5, <2>6
        <3>2. g.lit[o + j] = buf[x + j]
            BY <2>7, <3>1
        <3>3. QED BY <2>8, <2>10, <3>2
    <2>11. Settled(it, i, g, l, o, x, y, d)
        BY <2>1, <2>4, <2>10 DEF Settled
    <2>12. QED BY <2>1, <2>3, <2>9, <2>11 DEF it, i, g, o, l, x, y
<1>8. b[n + 1] = Layout(gs)[Len(gs) + 1]
    <2>1. n + 1 \in 1..n + 1 /\ z + 1 \in 1..z + 1
        BY <1>1
    <2>2. a[n + 1] = Layout(fs)[z + 1]
        BY DEF Final
    <2>3. QED BY <1>4, <1>5, <1>6, <2>1, <2>2
<1>9. Final(its, gs, d)
    BY <1>6, <1>7, <1>8 DEF Final
<1>10. QED BY <1>3, <1>9 DEF gs

LEMMA ApplyFinal ==
    ASSUME NEW d, Types, Final(items, frags, d), Roomy(items, frags, fixes), ApplyTextFixups
    PROVE  Final(items, frags, d)'
<1>1. frags \in Seq(FragRecords) /\ items \in Seq(Items)
    BY DEF Types, ChainOK, FragsOK, ItemsOK
<1>2. frags' = CopiedBack(frags, EncodedImage) /\ items' = items
    BY DEF ApplyTextFixups
<1>3. Intact(items, frags, d, EncodedImage)
    BY EncodedIntact
<1>4. Final(items, CopiedBack(frags, EncodedImage), d)
    BY <1>1, <1>3, CopiedFinal
<1>5. QED BY <1>2, <1>4 DEF Final, AddressIn, Layout

-----------------------------------------------------------------------------
(* The layout in every pass.                                               *)

LayoutInv(d) ==
    /\ OpenEnd
    /\ phase \in {"reset", "parse", "relax", "relaxing"} => Reads(d)
    /\ phase = "fixups" => Final(items, frags, d) /\ Roomy(items, frags, fixes)
    /\ phase = "report" => parseErr \/ secViol \/ dirErr \/ Final(items, frags, d)
    /\ phase \notin {"decode", "done"} => result.status # "OK"
    /\ result.status = "OK" => Final(items, frags, d) /\ result.bytes = Image(frags)

LEMMA InitReads ==
    ASSUME NEW d, Init
    PROVE  Reads(d)
<1> DEFINE its == <<>>  f == NewFrag("fill")
<1>1. items = its /\ frags = <<f>> /\ fixes = <<>>
    BY DEF Init, FreshChain
<1>2. its \in Seq(Items) /\ Len(its) = 0
    BY EmptyTyped
<1>3. f \in FragRecords /\ f.type = "fill" /\ f.lit = <<>>
    <2>1. f.type = "fill" /\ f.lit = <<>>
        BY DEF NewFrag
    <2>2. FragOK(f)
        BY NewFragTyped DEF FragTypes
    <2>3. QED BY <2>1, <2>2 DEF FragOK
<1> HIDE DEF its, f
<1>4. Len(<<f>>) = 1 /\ <<f>>[1] = f
    OBVIOUS
<1>5. FragOf(its)[1] = 1 /\ PlaceOf(its)[1] = 0 /\ Len(its) + 1 = 1
    <2>1. FragOf(its)[1] = 1 /\ PlaceOf(its)[1] = 0
        BY <1>2, SpotsTyped, Zenon
    <2>2. Len(its) + 1 = 1
        BY <1>2
    <2>3. QED BY <2>1, <2>2
<1>6. FixSize(f) = 0
    BY <1>3, EmptyTyped DEF FixSize
<1>7. InPlace(its, <<f>>, d)
    <2>1. FragOf(its)[Len(its) + 1] = Len(<<f>>)
        BY <1>4, <1>5
    <2>2. PlaceOf(its)[Len(its) + 1] = FixSize(<<f>>[Len(<<f>>)])
        BY <1>4, <1>5, <1>6
    <2>3. 1..Len(its) = {}
        BY <1>2
    <2>4. ASSUME NEW i \in 1..Len(<<f>>) PROVE <<f>>[i].type # "machine"
        <3>1. i = 1
            BY <1>4
        <3>2. QED BY <1>3, <1>4, <3>1
    <2>5. QED BY <2>1, <2>2, <2>3, <2>4 DEF InPlace
<1>8. <<>> \in Seq(FieldSet(its))
    BY EmptyTyped
<1>9. QED BY <1>1, <1>7, <1>8 DEF Reads, Sited

LEMMA InitLayout == \A d : Init => LayoutInv(d)
<1> SUFFICES ASSUME NEW d, Init PROVE LayoutInv(d)
    OBVIOUS
<1>1. Reads(d)
    BY InitReads
<1>2. phase \in {"reset", "decode"} /\ result = [NoResult EXCEPT !.bytes = job.bytes]
    BY DEF Init
<1>3. result.status = "none"
    BY <1>2 DEF NoResult
<1>4. QED BY <1>1, <1>2, <1>3 DEF LayoutInv, OpenEnd

LEMMA ReadOn ==
    ASSUME NEW d, LayoutInv(d), phase \in {"reset", "parse"}, phase' = "parse",
           result' = result, Reads(d)'
    PROVE  LayoutInv(d)'
<1>1. result.status # "OK"
    BY DEF LayoutInv
<1>2. OpenEnd'
    BY DEF OpenEnd
<1>3. QED BY <1>1, <1>2 DEF LayoutInv

LEMMA StatementLayout ==
    ASSUME NEW d, Types, LayoutInv(d), d => LiteralsFit,
           \/ Reset \/ NextStatement \/ Label \/ IntList \/ ConsList \/ Ascii \/ Skip
           \/ Org \/ Align \/ Equ \/ Accepted \/ SwitchesSection \/ Unsupported \/ Instruction
    PROVE  LayoutInv(d)'
<1>1. phase \in {"reset", "parse"} /\ phase' = "parse" /\ result' = result
    <2>1. CASE Reset \/ NextStatement \/ Label
        BY <2>1 DEF Reset, NextStatement, Label, outputs
    <2>2. CASE IntList \/ ConsList \/ Ascii \/ Skip
        BY <2>2 DEF IntList, ConsList, Ascii, Skip, At, Emits, Handled, GasError, Rejected, outputs
    <2>3. CASE Org \/ Align \/ Equ
        BY <2>3 DEF Org, Align, Equ, At, Closes, Handled, GasError, Rejected, outputs
    <2>4. CASE Accepted \/ SwitchesSection \/ Unsupported
        BY <2>4 DEF Accepted, SwitchesSection, Unsupported, At, Handled, Rejected, outputs
    <2>5. CASE Instruction
        BY <2>5 DEF Instruction, Emits, Handled, GasError, outputs
    <2>6. QED BY <2>1, <2>2, <2>3, <2>4, <2>5
<1>2. Reads(d)
    BY <1>1 DEF LayoutInv
<1>3. CASE Reset \/ NextStatement \/ Label \/ Equ \/ Accepted \/ SwitchesSection \/ Unsupported
    BY <1>1, <1>2, <1>3, QuietStatements, ReadOn
<1>4. CASE IntList
    BY <1>1, <1>2, <1>4, IntListSited, ReadOn
<1>5. CASE ConsList
    BY <1>1, <1>2, <1>5, ConsListSited, ReadOn
<1>6. CASE Ascii \/ Skip
    BY <1>1, <1>2, <1>6, BytesStatements, ReadOn
<1>7. CASE Org \/ Align
    BY <1>1, <1>2, <1>7, ClosingStatements, ReadOn
<1>8. CASE Instruction
    BY <1>1, <1>2, <1>8, InstructionSited, ReadOn
<1>9. QED BY <1>3, <1>4, <1>5, <1>6, <1>7, <1>8

LEMMA PassLayout ==
    ASSUME NEW d, Types, LayoutInv(d),
           DefineLabels \/ RelaxBranches \/ RelaxSegment \/ ConvertAndFinalize \/ ApplyTextFixups
    PROVE  LayoutInv(d)'
<1>1. phase \notin {"decode", "done"} /\ result' = result
    BY DEF DefineLabels, RelaxBranches, RelaxSegment, ConvertAndFinalize, ApplyTextFixups,
           outputs
<1>2. result'.status # "OK"
    BY <1>1 DEF LayoutInv
<1>3. CASE DefineLabels
    <2> DEFINE stop == parseErr' \/ secViol \/ dirErr
    <2>1. phase = "parse" /\ phase' = IF stop THEN "report" ELSE "relax"
        BY <1>3, Zenon DEF DefineLabels
    <2>2. secViol' = secViol /\ dirErr' = dirErr
        BY <1>3, Zenon DEF DefineLabels
    <2>3. Reads(d)'
        BY <1>3, <2>1, LabelsSited DEF LayoutInv
    <2>4. OpenEnd'
        BY <1>3, OpenEnds DEF LayoutInv
    <2>5. CASE stop
        <3>1. parseErr' \/ secViol' \/ dirErr'
            BY <2>2, <2>5, Zenon
        <3>2. phase' = "report"
            BY <2>1, <2>5, Zenon
        <3>3. QED BY <1>2, <2>4, <3>1, <3>2 DEF LayoutInv
    <2>6. CASE ~ stop
        <3>1. phase' = "relax"
            BY <2>1, <2>6, Zenon
        <3>2. QED BY <1>2, <2>3, <2>4, <3>1 DEF LayoutInv
    <2>7. QED BY <2>5, <2>6
<1>4. CASE RelaxBranches \/ RelaxSegment
    <2>1. phase \in {"relax", "relaxing"} /\ phase' = "relaxing"
        BY <1>4 DEF RelaxBranches, RelaxSegment
    <2>2. Reads(d)'
        BY <1>4, <2>1, RelaxSited DEF LayoutInv
    <2>3. OpenEnd'
        BY <1>4, OpenEnds DEF LayoutInv
    <2>4. QED BY <1>2, <2>1, <2>2, <2>3 DEF LayoutInv
<1>5. CASE ConvertAndFinalize
    <2>1. phase = "relaxing" /\ phase' = "fixups"
        BY <1>5, ConvertIs
    <2>2. Final(items, frags, d)' /\ Roomy(items, frags, fixes)'
        BY <1>5, <2>1, ConvertFinal, ConvertRoomy DEF LayoutInv
    <2>3. QED BY <1>2, <2>1, <2>2 DEF LayoutInv, OpenEnd
<1>6. CASE ApplyTextFixups
    <2>1. phase = "fixups" /\ phase' = "report"
        BY <1>6 DEF ApplyTextFixups
    <2>2. Final(items, frags, d)'
        BY <1>6, <2>1, ApplyFinal DEF LayoutInv
    <2>3. QED BY <1>2, <2>1, <2>2 DEF LayoutInv, OpenEnd
<1>7. QED BY <1>3, <1>4, <1>5, <1>6

LEMMA ReportLayout ==
    ASSUME NEW d, LayoutInv(d), Report
    PROVE  LayoutInv(d)'
<1>1. /\ phase = "report" /\ phase' \in {"decode", "done"} /\ items' = items /\ frags' = frags
    BY DEF Report, section
<1>2. CASE Status # "OK"
    <2>1. result' = [NoResult EXCEPT !.status = Status]
        BY <1>2 DEF Report
    <2>2. result'.status # "OK"
        BY <1>2, <2>1 DEF NoResult
    <2>3. QED BY <1>1, <2>2 DEF LayoutInv, OpenEnd
<1>3. CASE Status = "OK"
    <2>1. result' = [status |-> "OK", bytes |-> Image(frags),
                     relocs |-> IF job.relocs THEN CollectRelocs ELSE <<>>]
        BY <1>3 DEF Report
    <2>2. result'.bytes = Image(frags)
        BY <2>1
    <2>3. ~ dirErr /\ ~ secViol /\ ~ parseErr
        BY <1>3 DEF Status
    <2>4. Final(items, frags, d)
        BY <1>1, <2>3 DEF LayoutInv
    <2>5. Final(items, frags, d)' /\ result'.bytes = Image(frags)'
        BY <1>1, <2>2, <2>4
    <2>6. QED BY <1>1, <2>5 DEF LayoutInv, OpenEnd
<1>4. QED BY <1>2, <1>3

LEMMA NextLayout ==
    ASSUME NEW d, Types, LayoutInv(d), d => LiteralsFit, [Next]_vars
    PROVE  LayoutInv(d)'
<1>1. CASE \/ Reset \/ NextStatement \/ Label \/ IntList \/ ConsList \/ Ascii \/ Skip
           \/ Org \/ Align \/ Equ \/ Accepted \/ SwitchesSection \/ Unsupported \/ Instruction
    BY <1>1, StatementLayout
<1>2. CASE DefineLabels \/ RelaxBranches \/ RelaxSegment \/ ConvertAndFinalize \/ ApplyTextFixups
    BY <1>2, PassLayout
<1>3. CASE Report
    BY <1>3, ReportLayout
<1>4. CASE DecodeOne \/ Decoded
    <2>1. /\ phase = "decode" /\ phase' \in {"decode", "done"}
          /\ result' = result /\ items' = items /\ frags' = frags
        BY <1>4 DEF DecodeOne, Decoded, section, outputs
    <2>2. QED BY <2>1 DEF LayoutInv, OpenEnd
<1>5. CASE UNCHANGED vars
    <2>1. /\ phase' = phase /\ result' = result /\ items' = items /\ frags' = frags
          /\ fixes' = fixes /\ parseErr' = parseErr /\ secViol' = secViol /\ dirErr' = dirErr
        BY <1>5 DEF vars, section, flags, outputs
    <2>2. QED BY <2>1 DEF LayoutInv, OpenEnd, Reads
<1>6. QED BY <1>1, <1>2, <1>3, <1>4, <1>5 DEF Next, Returned

\* The numbers of the data lists are claimed under their condition.
LEMMA LayoutHolds == Spec => []LayoutInv(FALSE)
<1>1. Types /\ LayoutInv(FALSE) /\ [Next]_vars => LayoutInv(FALSE)'
    BY NextLayout
<1>2. Init => LayoutInv(FALSE)
    BY InitLayout
<1>3. QED BY <1>1, <1>2, TypesHold, PTL DEF Spec

LEMMA NumbersHold == Spec /\ []LiteralsFit => []LayoutInv(TRUE)
<1>1. Types /\ LayoutInv(TRUE) /\ LiteralsFit /\ [Next]_vars => LayoutInv(TRUE)'
    BY NextLayout
<1>2. Init => LayoutInv(TRUE)
    BY InitLayout
<1>3. QED BY <1>1, <1>2, TypesHold, PTL DEF Spec

\* What an item has in the result.
LEMMA AnsweredIs ==
    ASSUME NEW d, Types, LayoutInv(d), Succeeded, NEW k \in DOMAIN items
    PROVE  LET it == items[k]  i == FragOf(items)[k]
           IN /\ it \in Items /\ Answered(k) \in Seq(Byte)
              /\ Plain(it, d) => Answered(k) = Stored(it)
              /\ it.kind \in {"align", "org"} =>
                   \A j \in DOMAIN Answered(k) : Answered(k)[j] = it.fill
<1> DEFINE n == Len(items)  it == items[k]  i == FragOf(items)[k]  f == frags[i]
           o == PlaceOf(items)[k]  l == Layout(frags)[i]  a == TrueAddress[k]
           b == TrueAddress[k + 1]  im == Image(frags)
<1>1. Final(items, frags, d) /\ result.bytes = im
    BY DEF LayoutInv, Succeeded
<1>2. frags \in Seq(FragRecords) /\ items \in Seq(Items) /\ k \in 1..n
    BY DEF Types, ChainOK, FragsOK, ItemsOK
<1>3. /\ i \in 1..Len(frags) /\ o \in Nat /\ it \in Items /\ Settled(it, i, f, l, o, a, b, d)
    BY <1>1, <1>2, TrueAddressIs DEF Final
<1>4. a \in Nat /\ b \in Nat /\ a <= b /\ b <= Len(im)
    <2> DEFINE t == AddressIn(items, frags)
    <2>1. k \in 1..n + 1 /\ k + 1 \in 1..n + 1
        BY <1>2
    <2>2. t[k] \in Nat /\ t[k + 1] \in Nat
        BY <1>1, <2>1 DEF Final
    <2>3. t[k] <= t[k + 1] /\ t[k + 1] <= Len(im)
        BY <1>1, <1>2, <2>1, Ordered, Zenon
    <2>4. QED BY <2>2, <2>3, TrueAddressIs
<1>5. Answered(k) = SubSeq(im, a + 1, b)
    BY <1>1 DEF Answered
<1>6. f \in FragRecords /\ i \in 1..Len(frags) + 1
    BY <1>2, <1>3
<1>7. l \in Nat /\ FixSize(f) \in Nat /\ FillSize(f) \in Nat /\ Fixed(it) \in Nat
    BY <1>2, <1>3, <1>6, LayoutRun, SizesTyped, FixedNat
<1>8. /\ im \in Seq(Byte) /\ \A j \in 1..FixSize(f) : im[l + j] = f.lit[j]
      /\ \A j \in 1..FillSize(f) : im[l + FixSize(f) + j] = f.fill
    BY <1>2, <1>3, ImageIs
<1> DEFINE s == SubSeq(im, a + 1, b)
<1> HIDE DEF n, it, i, f, o, l, a, b, im
<1>9. s \in Seq(Byte) /\ Len(s) = b - a /\ \A j \in 1..b - a : s[j] = im[a + j]
    BY <1>4, <1>8
<1> HIDE DEF s
<1>10. ASSUME Plain(it, d) PROVE s = Stored(it)
    <2>1. Stored(it) \in Seq(Byte) /\ Len(Stored(it)) = Fixed(it)
        BY <1>3, <1>10, FixedTyped
    <2>2. ~ Shuts(it)
        BY <1>10 DEF Plain, Shuts, IsBranch
    <2>3. a = l + o /\ o + Fixed(it) <= FixSize(f) /\ b = a + Fixed(it)
          /\ \A j \in 1..Fixed(it) : f.lit[o + j] = Stored(it)[j]
        BY <1>3, <1>10, <2>2 DEF Settled
    <2>4. ASSUME NEW j \in 1..Fixed(it) PROVE s[j] = Stored(it)[j]
        <3>1. j \in 1..b - a /\ o + j \in 1..FixSize(f) /\ l + (o + j) = a + j
            <4> DEFINE w == Fixed(it)  z == FixSize(f)
            <4>1. /\ a \in Nat /\ b \in Nat /\ l \in Nat /\ o \in Nat /\ w \in Nat /\ z \in Nat
                  /\ a = l + o /\ o + w <= z /\ b = a + w /\ j \in 1..w
                BY <1>3, <1>4, <1>7, <2>3
            <4> HIDE DEF w, z
            <4>2. j \in 1..b - a /\ o + j \in 1..z /\ l + (o + j) = a + j
                BY <4>1
            <4>3. QED BY <4>2 DEF z
        <3>2. s[j] = im[a + j] /\ im[a + j] = f.lit[o + j]
            BY <1>8, <1>9, <3>1
        <3>3. QED BY <2>3, <3>2
    <2>5. Len(s) = Fixed(it)
        BY <1>4, <1>7, <1>9, <2>3
    <2>6. QED BY <1>9, <2>1, <2>4, <2>5
<1>11. ASSUME it.kind \in {"align", "org"}, NEW j \in DOMAIN s PROVE s[j] = it.fill
    <2>1. f.fill = it.fill /\ FixSize(f) = o /\ b = a + FillSize(f) /\ a = l + o
        BY <1>3, <1>11 DEF Settled
    <2>2. DOMAIN s = 1..b - a
        BY <1>9
    <2>3. j \in 1..b - a /\ j \in 1..FillSize(f) /\ l + FixSize(f) + j = a + j
        BY <1>3, <1>4, <1>7, <2>1, <2>2
    <2>4. QED BY <1>8, <1>9, <2>1, <2>3
<1>12. QED BY <1>3, <1>5, <1>9, <1>10, <1>11 DEF it, s

(* The padding of .align and .org is exact for the sizes the branches end  *)
(* up with, and everything that needs no fixup is found where it belongs,  *)
(* whatever the fixups and their neighbours have been encoded to           *)
(* (nyxstone_glue.c:331-337, 429-440).                                     *)
THEOREM LaidOutExactly == Spec => []LayoutExact
<1>1. Types /\ LayoutInv(FALSE) => LayoutExact
    <2> SUFFICES ASSUME Types, LayoutInv(FALSE), Succeeded
                 PROVE  /\ Len(result.bytes) = TrueAddress[Len(items) + 1]
                        /\ \A k \in DOMAIN items :
                             /\ items[k].kind = "bytes" => Answered(k) = items[k].bytes
                             /\ items[k].kind \in {"align", "org"} =>
                                  \A i \in DOMAIN Answered(k) : Answered(k)[i] = items[k].fill
        BY DEF LayoutExact
    <2>1. Final(items, frags, FALSE) /\ result.bytes = Image(frags)
        BY DEF LayoutInv, Succeeded
    <2>2. Len(result.bytes) = TrueAddress[Len(items) + 1]
        <3>1. frags \in Seq(FragRecords)
            BY DEF Types, ChainOK, FragsOK
        <3>2. Len(Image(frags)) = Layout(frags)[Len(frags) + 1]
            BY <3>1, ImageIs
        <3>3. QED BY <2>1, <3>2, TrueAddressIs DEF Final
    <2>3. ASSUME NEW k \in DOMAIN items, items[k].kind = "bytes"
          PROVE  Answered(k) = items[k].bytes
        <3>1. Plain(items[k], FALSE) /\ Stored(items[k]) = items[k].bytes
            BY <2>3 DEF Plain, Stored
        <3>2. QED BY <3>1, AnsweredIs
    <2>4. ASSUME NEW k \in DOMAIN items, items[k].kind \in {"align", "org"},
                 NEW i \in DOMAIN Answered(k)
          PROVE  Answered(k)[i] = items[k].fill
        BY <2>4, AnsweredIs
    <2>5. QED BY <2>2, <2>3, <2>4
<1>2. QED BY <1>1, TypesHold, LayoutHolds, PTL

(* A number in a data list is stored with its low bits, whichever of the   *)
(* two paths the list takes, as long as those that only strtoll reads fit  *)
(* in its range (nyxstone.cpp:176-181, tests.cpp:720-722).                 *)
THEOREM NumbersStored == Spec /\ []LiteralsFit => []DataExact
<1>1. Types /\ LayoutInv(TRUE) => DataExact
    <2> SUFFICES ASSUME Types, LayoutInv(TRUE), Succeeded, NEW k \in DOMAIN items,
                        items[k].kind = "data", items[k].term.sym = NoSym
                 PROVE  Answered(k) = LittleEndian(items[k].term.add, items[k].width)
        BY DEF DataExact
    <2>1. Plain(items[k], TRUE)
          /\ Stored(items[k]) = LittleEndian(items[k].term.add, items[k].width)
        BY DEF Plain, Stored
    <2>2. QED BY <2>1, AnsweredIs
<1>2. QED BY <1>1, TypesHold, NumbersHold, PTL

-----------------------------------------------------------------------------
(* Some of the values x[1], x[2] .. as a list: each chosen one is in it     *)
(* once, and nothing else.                                                 *)

Chosen(A, n, keep, x, all) ==
    /\ all \in Seq(A)
    /\ \A m \in 1..Len(all) : \E k \in keep : all[m] = x[k]
    /\ \A k \in keep : \E m \in 1..Len(all) : all[m] = x[k]
    /\ \A l, m \in 1..Len(all) : l # m =>
         \E j, k \in keep : j # k /\ all[l] = x[j] /\ all[m] = x[k]

LEMMA ChosenList ==
    ASSUME NEW A, NEW n \in Nat, NEW keep \in SUBSET (1..n), NEW x, \A k \in keep : x[k] \in A,
           NEW ps, ps = [k \in 1..n |-> IF k \in keep THEN <<x[k]>> ELSE <<>>]
    PROVE  Chosen(A, n, keep, x, FlattenSeq(ps))
<1> DEFINE s == [i \in 1..n |-> [a \in Nat |-> a + Len(ps[i])]]
           at == Before(n, 0, s)
           all == FlattenSeq(ps)
<1>1. ASSUME NEW k \in 1..n
      PROVE  /\ ps[k] \in Seq(A)
             /\ k \in keep => Len(ps[k]) = 1 /\ ps[k][1] = x[k]
             /\ k \notin keep => Len(ps[k]) = 0
    <2>1. CASE k \in keep
        <3>1. ps[k] = <<x[k]>> /\ x[k] \in A
            BY <2>1
        <3>2. QED BY <2>1, <3>1, SingleTyped
    <2>2. CASE k \notin keep
        <3>1. ps[k] = <<>>
            BY <2>2
        <3>2. QED BY <2>2, <3>1, EmptyTyped
    <2>3. QED BY <2>1, <2>2
<1>2. ps \in [1..n -> Seq(A)] /\ \A k \in 1..n : Len(ps[k]) \in Nat
    BY <1>1
<1>3. at \in [1..n + 1 -> Nat] /\ at[1] = 0 /\ \A i \in 1..n : at[i + 1] = at[i] + Len(ps[i])
    <2>1. 0 \in Nat /\ \A i \in 1..n : \A a \in Nat : s[i][a] = a + Len(ps[i]) /\ s[i][a] \in Nat
        BY <1>2
    <2> HIDE DEF s
    <2>2. Runs(n, Nat, 0, s, at)
        BY <2>1, BeforeIs
    <2> HIDE DEF at
    <2>3. at \in [1..n + 1 -> Nat] /\ at[1] = 0 /\ \A i \in 1..n : at[i + 1] = s[i][at[i]]
        BY <2>2 DEF Runs
    <2>4. \A i \in 1..n : at[i] \in Nat
        BY <2>3
    <2>5. QED BY <2>1, <2>3, <2>4
<1> HIDE DEF at
<1>4. Starts(ps, n, at)
    BY <1>3 DEF Starts
<1>5. Laid(A, all, ps, n, at)
    BY <1>2, <1>4, FlattenSegment
<1> HIDE DEF all
<1>6. all \in Seq(A) /\ Len(all) = at[n + 1] /\ at[n + 1] \in Nat
    BY <1>3, <1>5 DEF Laid
<1>7. ASSUME NEW k \in keep
      PROVE  /\ at[k] \in Nat /\ at[k + 1] = at[k] + 1 /\ at[k] + 1 \in 1..Len(all)
             /\ all[at[k] + 1] = x[k]
    <2>1. k \in 1..n /\ k \in 1..n + 1 /\ at[k] \in Nat /\ at[k + 1] = at[k] + 1
        BY <1>1, <1>3
    <2>2. at[k + 1] <= at[n + 1]
        BY <1>5, <2>1 DEF Laid
    <2>3. 1 \in 1..Len(ps[k]) /\ ps[k][1] = x[k]
        BY <1>1, <2>1
    <2>4. all[at[k] + 1] = ps[k][1]
        BY <1>5, <2>1, <2>3 DEF Laid
    <2>5. QED BY <1>6, <2>1, <2>2, <2>3, <2>4
<1> DEFINE T == {i \in Nat : i <= n => \A m \in 1..at[i + 1] : \E k \in keep : m = at[k] + 1}
<1>8. 0 \in T
    BY <1>3
<1>9. ASSUME NEW i \in Nat, i \in T PROVE i + 1 \in T
    <2>1. CASE i + 1 <= n
        <3>1. i + 1 \in 1..n /\ at[(i + 1) + 1] = at[i + 1] + Len(ps[i + 1]) /\ at[i + 1] \in Nat
            BY <1>3, <2>1
        <3>2. ASSUME NEW m \in 1..at[(i + 1) + 1] PROVE \E k \in keep : m = at[k] + 1
            <4>1. CASE m <= at[i + 1]
                <5>1. m \in 1..at[i + 1]
                    BY <3>1, <4>1
                <5>2. QED BY <1>9, <2>1, <5>1
            <4>2. CASE m > at[i + 1]
                <5>1. i + 1 \in keep /\ Len(ps[i + 1]) = 1
                    BY <1>1, <3>1, <4>2
                <5>2. m = at[i + 1] + 1
                    BY <3>1, <4>2, <5>1
                <5>3. QED BY <5>1, <5>2
            <4>3. QED BY <3>1, <4>1, <4>2
        <3>3. QED BY <3>2
    <2>2. CASE ~ (i + 1 <= n)
        BY <2>2
    <2>3. QED BY <2>1, <2>2
<1>10. \A m \in 1..Len(all) : \E k \in keep : m = at[k] + 1
    <2>1. n \in T
        <3> HIDE DEF T
        <3>1. Nat \subseteq T
            BY <1>8, <1>9, SetInduction
        <3>2. QED BY <3>1
    <2>2. QED BY <1>6, <2>1
<1>11. \A m \in 1..Len(all) : \E k \in keep : all[m] = x[k]
    BY <1>7, <1>10
<1>12. \A k \in keep : \E m \in 1..Len(all) : all[m] = x[k]
    BY <1>7
<1>13. ASSUME NEW l \in 1..Len(all), NEW m \in 1..Len(all), l # m
       PROVE  \E j, k \in keep : j # k /\ all[l] = x[j] /\ all[m] = x[k]
    <2>1. PICK j \in keep : l = at[j] + 1
        BY <1>10
    <2>2. PICK k \in keep : m = at[k] + 1
        BY <1>10
    <2>3. j # k
        BY <1>13, <2>1, <2>2
    <2>4. QED BY <1>7, <2>1, <2>2, <2>3
<1>14. QED BY <1>6, <1>11, <1>12, <1>13 DEF Chosen, all

-----------------------------------------------------------------------------
(* The symbols.  .equ is plain if no name is set twice and none is set to  *)
(* a name that .equ sets: then what a symbol stands for in the end can be  *)
(* told from the labels and from the one .equ that sets it.                *)

SetName(its, s) == \E k \in 1..Len(its) : its[k].kind = "equ" /\ its[k].sym = s
LabelAt(its, s) == \E k \in 1..Len(its) : its[k].kind = "label" /\ its[k].sym = s
PlainIn(its) ==
    /\ \A j, k \in 1..Len(its) :
         its[j].kind = "equ" /\ its[k].kind = "equ" /\ its[j].sym = its[k].sym => j = k
    /\ \A k \in 1..Len(its) : its[k].kind = "equ" => ~ SetName(its, its[k].term.sym)
Outer(s) == \E k \in DOMAIN Given : Sym(Given[k].name) = s

Follows(its, t, d) == \/ d.seg = "absolute" /\ t = NoSym
                      \/ d.seg = "text" /\ LabelAt(its, t)
                      \/ d.seg = "alias" /\ d.of = t /\ t # NoSym
Traced(its, s, d) ==
    /\ ~ d.set => \/ LabelAt(its, s) /\ d.seg = "text"
                  \/ Outer(s) /\ d.seg = "absolute" /\ ~ Parsing
    /\ d.set => \E k \in 1..Len(its) : /\ its[k].kind = "equ" /\ its[k].sym = s
                                       /\ Follows(its, its[k].term.sym, d)
Entered(it) ==
    /\ it.kind = "label" => /\ it.sym \in DOMAIN syms /\ ~ syms[it.sym].set
                            /\ syms[it.sym].seg = "text"
    /\ it.kind = "equ" => it.sym \in DOMAIN syms
Naming == PlainIn(items) => /\ \A s \in DOMAIN syms : Traced(items, s, syms[s])
                            /\ \A k \in 1..Len(items) : Entered(items[k])

\* Items that follow.
Continues(its, all) == /\ Len(its) \in Nat /\ Len(all) \in Nat /\ Len(its) <= Len(all)
                    /\ \A k \in 1..Len(its) : all[k] = its[k]

LEMMA ContinuesIs ==
    ASSUME NEW its \in Seq(Items), NEW what \in Seq(Items)
    PROVE  /\ Continues(its, its \o what) /\ Len(its \o what) = Len(its) + Len(what)
           /\ \A j \in 1..Len(what) : (its \o what)[Len(its) + j] = what[j]
           /\ Len(what) \in Nat
BY ConcatProperties DEF Continues

LEMMA NamesGrow ==
    ASSUME NEW its, NEW all, Continues(its, all)
    PROVE  /\ \A s : SetName(its, s) => SetName(all, s)
           /\ \A s : LabelAt(its, s) => LabelAt(all, s)
           /\ PlainIn(all) => PlainIn(its)
           /\ \A s, d : Traced(its, s, d) => Traced(all, s, d)
<1>1. \A k \in 1..Len(its) : k \in 1..Len(all) /\ all[k] = its[k]
    BY DEF Continues
<1>2. \A s : SetName(its, s) => SetName(all, s)
    BY <1>1 DEF SetName
<1>3. \A s : LabelAt(its, s) => LabelAt(all, s)
    BY <1>1 DEF LabelAt
<1>4. PlainIn(all) => PlainIn(its)
    BY <1>1, <1>2 DEF PlainIn
<1>5. \A t, d : Follows(its, t, d) => Follows(all, t, d)
    BY <1>3 DEF Follows
<1>6. ASSUME NEW s, NEW d, Traced(its, s, d)
      PROVE  Traced(all, s, d)
    <2>1. ~ d.set => \/ LabelAt(all, s) /\ d.seg = "text"
                     \/ Outer(s) /\ d.seg = "absolute" /\ ~ Parsing
        BY <1>3, <1>6 DEF Traced
    <2>2. ASSUME d.set
          PROVE  \E k \in 1..Len(all) : /\ all[k].kind = "equ" /\ all[k].sym = s
                                        /\ Follows(all, all[k].term.sym, d)
        <3>1. PICK k \in 1..Len(its) : /\ its[k].kind = "equ" /\ its[k].sym = s
                                       /\ Follows(its, its[k].term.sym, d)
            BY <1>6, <2>2 DEF Traced
        <3>2. QED BY <1>1, <1>5, <3>1
    <2>3. QED BY <2>1, <2>2 DEF Traced
<1>7. QED BY <1>2, <1>3, <1>4, <1>6

\* Statements that define no symbol, and those of them that refer to none either.
Mute(it) == it.kind # "label" /\ it.kind # "equ"
SameFront(fs, gs) == \A i \in 1..Len(fs) - 1 : gs[i] = fs[i]
Still(it) == ~ Refers(it) /\ fixes' = fixes /\ SameFront(frags, frags')
MuteStep(what, still) ==
    /\ what \in Seq(Items) /\ \A j \in 1..Len(what) : Mute(what[j])
    /\ items' = items \o what /\ UNCHANGED <<job, phase, syms>>
    /\ still => /\ \A j \in 1..Len(what) : ~ Refers(what[j])
                /\ fixes' = fixes /\ SameFront(frags, frags')

LEMMA MuteNaming ==
    ASSUME Types, Naming, NEW what, NEW still, MuteStep(what, still)
    PROVE  Naming'
<1> DEFINE all == items \o what
<1>1. items \in Seq(Items) /\ what \in Seq(Items)
    BY DEF Types, ItemsOK, MuteStep
<1>2. /\ Continues(items, all) /\ Len(all) = Len(items) + Len(what) /\ Len(what) \in Nat
      /\ \A j \in 1..Len(what) : all[Len(items) + j] = what[j]
    BY <1>1, ContinuesIs
<1>3. items' = all /\ UNCHANGED <<job, phase, syms>> /\ \A j \in 1..Len(what) : Mute(what[j])
    BY DEF MuteStep
<1> HIDE DEF all
<1>4. SUFFICES ASSUME PlainIn(items')
               PROVE  /\ \A s \in DOMAIN syms : Traced(items, s, syms[s])'
                      /\ \A k \in 1..Len(items') : Entered(items[k])'
    BY <1>3 DEF Naming
<1>5. PlainIn(items)
    BY <1>2, <1>3, <1>4, NamesGrow
<1>6. ASSUME NEW s \in DOMAIN syms PROVE Traced(items, s, syms[s])'
    <2>1. Traced(items, s, syms[s])
        BY <1>5 DEF Naming
    <2>2. Traced(all, s, syms[s])
        BY <1>2, <2>1, NamesGrow
    <2>3. QED BY <1>3, <2>2 DEF Traced, Outer, Given, Parsing
<1>7. ASSUME NEW k \in 1..Len(all) PROVE Entered(all[k])
    <2>1. CASE k <= Len(items)
        <3>1. k \in 1..Len(items) /\ all[k] = items[k]
            BY <1>2, <2>1 DEF Continues
        <3>2. QED BY <1>5, <3>1 DEF Naming
    <2>2. CASE k > Len(items)
        <3> DEFINE j == k - Len(items)
        <3>1. j \in 1..Len(what) /\ k = Len(items) + j
            BY <1>2, <2>2 DEF Continues
        <3>2. Mute(all[k])
            BY <1>2, <1>3, <3>1
        <3>3. QED BY <3>2 DEF Mute, Entered
    <2>3. QED BY <1>2, <2>1, <2>2 DEF Continues
<1>8. \A k \in 1..Len(items') : Entered(items[k])'
    BY <1>3, <1>7 DEF Entered
<1>9. QED BY <1>6, <1>8

LEMMA MuteOne ==
    ASSUME NEW it \in Items, Mute(it), items' = items \o <<it>>, UNCHANGED <<job, phase, syms>>,
           NEW still, still => Still(it)
    PROVE  \E what : MuteStep(what, still)
<1> DEFINE w == <<it>>
<1>1. w \in Seq(Items) /\ Len(w) = 1 /\ w[1] = it
    BY SingleTyped
<1>2. items' = items \o w
    OBVIOUS
<1> HIDE DEF w
<1>3. \A j \in 1..Len(w) : w[j] = it
    BY <1>1
<1>4. still => /\ \A j \in 1..Len(w) : ~ Refers(w[j])
               /\ fixes' = fixes /\ SameFront(frags, frags')
    BY <1>3 DEF Still
<1>5. MuteStep(w, still)
    BY <1>1, <1>2, <1>3, <1>4 DEF MuteStep
<1>6. QED BY <1>5

LEMMA MuteFaults ==
    ASSUME GasError \/ Rejected
    PROVE  \E what : MuteStep(what, TRUE)
<1>1. UNCHANGED <<job, phase, syms, frags, fixes>>
    BY DEF GasError, Rejected, Handled
<1>2. PICK c \in {"gas", "directive"} : items' = items \o <<[kind |-> "fault", class |-> c]>>
    BY DEF GasError, Rejected, Handled
<1> DEFINE it == [kind |-> "fault", class |-> c]
<1>3. it \in Items /\ it.kind = "fault"
    BY DEF Items
<1>4. items' = items \o <<it>>
    BY <1>2
<1> HIDE DEF it
<1>5. Mute(it) /\ Still(it)
    BY <1>1, <1>3 DEF Mute, Still, Refers, Fielded, IsBranch, SameFront
<1>6. QED BY <1>1, <1>3, <1>4, <1>5, MuteOne

LEMMA MoreFront ==
    ASSUME Types, phase = "parse", NEW b \in Seq(Byte), NEW what, Emits(b, what)
    PROVE  SameFront(frags, frags')
<1>1. FragsOK(frags) /\ Last(frags).type \in {"fill", "unset"} /\ frags' = FragMore(frags, b)
    BY Reading DEF Emits
<1>2. \A i \in 1..Len(frags) - 1 : FragMore(frags, b)[i] = frags[i]
    BY <1>1, MoreIs
<1>3. QED BY <1>1, <1>2 DEF SameFront

LEMMA MuteBytes ==
    ASSUME Types, phase = "parse", NEW b \in Seq(Byte), Emits(b, <<Bytes(b)>>), UNCHANGED fixes
    PROVE  \E what : MuteStep(what, TRUE)
<1> DEFINE it == Bytes(b)
<1>1. it \in Items /\ it.kind = "bytes"
    BY DEF Items, Bytes
<1>2. items' = items \o <<it>> /\ UNCHANGED <<job, phase, syms>>
    BY DEF Emits, Handled
<1>3. SameFront(frags, frags')
    BY MoreFront
<1> HIDE DEF it
<1>4. Mute(it) /\ Still(it)
    BY <1>1, <1>3 DEF Mute, Still, Refers, Fielded, IsBranch
<1>5. QED BY <1>1, <1>2, <1>4, MuteOne

LEMMA MuteData ==
    ASSUME Types, phase = "parse", NEW w \in Widths, NEW os \in Seq(Seq(Tokens)),
           \A k \in 1..Len(os) : IsExpression(os[k]), NEW b \in Seq(Byte), Emits(b, Data(w, os)),
           NEW still, still => UNCHANGED fixes /\ \A k \in 1..Len(os) : IsNumber(os[k])
    PROVE  \E what : MuteStep(what, still)
<1> DEFINE what == Data(w, os)
<1>1. /\ what \in Seq(Items) /\ Len(what) = Len(os)
      /\ \A k \in 1..Len(os) : what[k] = Datum(w, Expression(os[k])) /\ Expression(os[k]) \in Terms
    BY Reading, DataTyped
<1>2. items' = items \o what /\ UNCHANGED <<job, phase, syms>>
    BY DEF Emits, Handled
<1>3. SameFront(frags, frags')
    BY MoreFront
<1> HIDE DEF what
<1>4. ASSUME NEW k \in 1..Len(what) PROVE Mute(what[k]) /\ (still => ~ Refers(what[k]))
    <2> DEFINE e == Expression(os[k])
    <2>1. what[k] = Datum(w, e) /\ e \in Terms
        BY <1>1
    <2>2. still => e.sym = NoSym
        <3>1. SUFFICES ASSUME still PROVE e.sym = NoSym
            OBVIOUS
        <3>2. IsNumber(os[k]) /\ os[k] \in Seq(Tokens)
            BY <1>1, <3>1
        <3>3. e = Constant(Exact(Number[os[k][1]])) /\ Exact(Number[os[k][1]]) \in Word
            BY <3>2, NumberIs, WordParts DEF IsNumber
        <3>4. QED BY <3>3, ConstantTyped
    <2> HIDE DEF e
    <2>3. what[k].kind = "data"
        BY <2>1 DEF Datum
    <2>4. Fielded(what[k]) <=> e.sym # NoSym
        BY <2>1, DatumIs
    <2>5. QED BY <2>2, <2>3, <2>4 DEF Mute, Refers, IsBranch
<1>5. MuteStep(what, still)
    BY <1>1, <1>2, <1>3, <1>4 DEF MuteStep
<1>6. QED BY <1>5

LEMMA MuteCloses ==
    ASSUME Types, phase = "parse", NEW closed, FragOK(closed), NEW what \in Items,
           what.kind \in {"org", "align"}, Closes(closed, what)
    PROVE  \E w : MuteStep(w, TRUE)
<1>1. frags' = FragVar(frags, closed) /\ fixes' = fixes
    BY DEF Closes
<1>2. SameFront(frags, frags')
    BY <1>1, Reading, FragVarTyped DEF SameFront
<1>3. Mute(what) /\ Still(what)
    BY <1>1, <1>2 DEF Mute, Still, Refers, Fielded, IsBranch
<1>4. items' = items \o <<what>> /\ UNCHANGED <<job, phase, syms>>
    BY DEF Closes, Handled
<1>5. QED BY <1>3, <1>4, MuteOne

LEMMA MuteInsn ==
    ASSUME NEW m \in DOMAIN Insns \ Simple, NEW e \in Terms, NEW i \in Nat,
           items' = items \o <<[kind |-> "insn", op |-> m, term |-> e, frag |-> i]>>,
           UNCHANGED <<job, phase, syms>>
    PROVE  \E what : MuteStep(what, FALSE)
<1> DEFINE it == [kind |-> "insn", op |-> m, term |-> e, frag |-> i]
<1>1. it \in Items /\ Mute(it)
    BY DEF Items, Mute
<1>2. items' = items \o <<it>>
    OBVIOUS
<1> HIDE DEF it
<1>3. QED BY <1>1, <1>2, MuteOne

LEMMA MuteInstruction ==
    ASSUME Types, Instruction
    PROVE  \E what : MuteStep(what, FALSE)
<1> DEFINE m == line[1]  i == Insns[m]  e == Expression(Operand)
           what == [kind |-> "insn", op |-> m, term |-> e, frag |-> FragNow(frags)]
<1>1. phase = "parse"
    BY DEF Instruction
<1>2. ASSUME NEW w, MuteStep(w, TRUE) PROVE \E x : MuteStep(x, FALSE)
    <2>1. MuteStep(w, FALSE)
        BY <1>2 DEF MuteStep
    <2>2. QED BY <2>1
<1>3. CASE GasError
    BY <1>2, <1>3, MuteFaults
<1>4. CASE Readable(m) /\ m \in Simple /\ Emits(i.bytes, <<Bytes(i.bytes)>>) /\ UNCHANGED fixes
    <2>1. m \in DOMAIN Insns \ Branches
        BY <1>4 DEF Simple, Branches
    <2>2. i.bytes \in Seq(Byte)
        BY <2>1, InsnIs
    <2>3. QED BY <1>1, <1>2, <1>4, <2>2, MuteBytes
<1>5. ASSUME Readable(m), m \notin Simple, items' = items \o <<what>>, UNCHANGED <<job, phase, syms>>
      PROVE  \E w : MuteStep(w, FALSE)
    <2>1. e \in Terms /\ m \in DOMAIN Insns \ Simple
        BY <1>1, <1>5, OperandTyped DEF Readable
    <2>2. FragNow(frags) \in Nat
        BY <1>1, Reading DEF FragNow
    <2> HIDE DEF m, e
    <2>3. QED BY <1>5, <2>1, <2>2, MuteInsn
<1>6. CASE /\ Readable(m) /\ m \notin Simple \cup Branches
           /\ Emits(i.bytes, <<[what EXCEPT !.term = e]>>)
    <2>1. [what EXCEPT !.term = e] = what
        OBVIOUS
    <2>2. items' = items \o <<[what EXCEPT !.term = e]>> /\ UNCHANGED <<job, phase, syms>>
        BY <1>6 DEF Emits, Handled
    <2>3. items' = items \o <<what>>
        BY <2>1, <2>2
    <2> HIDE DEF what, m
    <2>4. QED BY <1>5, <1>6, <2>2, <2>3
<1>7. CASE Readable(m) /\ m \in Branches /\ Handled(<<what>>) /\ UNCHANGED syms
    <2>1. m \notin Simple
        BY <1>7, InsnIs
    <2>2. items' = items \o <<what>> /\ UNCHANGED <<job, phase, syms>>
        BY <1>7 DEF Handled
    <2> HIDE DEF what, m
    <2>3. QED BY <1>5, <1>7, <2>1, <2>2
<1>8. QED BY <1>3, <1>4, <1>6, <1>7 DEF Instruction

LEMMA MuteConsList ==
    ASSUME Types, ConsList
    PROVE  \E what : MuteStep(what, FALSE)
<1> DEFINE w == DataWidth(Directive)  os == Commas(Args)  es == [k \in DOMAIN os |-> Expression(os[k])]
           b == FlattenSeq([k \in DOMAIN os |-> Cons1(w, es[k])])
<1>1. /\ phase = "parse" /\ Directive \in DataDirectives
      /\ \/ GasError
         \/ (\A k \in DOMAIN os : IsExpression(os[k])) /\ Emits(b, Data(w, os))
    BY DEF ConsList, At
<1>2. w \in Widths /\ Args \in Seq(Tokens)
    BY <1>1, DirectiveWidth, Reading
<1>3. os \in Seq(Seq(Tokens)) /\ DOMAIN os = 1..Len(os) /\ Len(os) \in Nat
    BY <1>2, CommasTyped
<1>4. b \in Seq(Byte)
    <2> HIDE DEF w, os, es
    <2>1. b = FlattenSeq([k \in 1..Len(os) |-> Cons1(w, es[k])])
        BY <1>3
    <2>2. QED BY <1>2, <1>3, <2>1, ConsBytes
<1> HIDE DEF w, os, b
<1>5. CASE GasError
    <2>1. PICK what : MuteStep(what, TRUE)
        BY <1>5, MuteFaults
    <2>2. MuteStep(what, FALSE)
        BY <2>1 DEF MuteStep
    <2>3. QED BY <2>2
<1>6. QED BY <1>1, <1>2, <1>3, <1>4, <1>5, MuteData

LEMMA StillIntList ==
    ASSUME Types, IntList
    PROVE  \E what : MuteStep(what, TRUE)
<1> DEFINE w == DataWidth(Directive)  os == SplitOperands(Args)  b == EmitIntList(Args, w)
<1>1. /\ phase = "parse" /\ Directive \in DataDirectives /\ AllIntLiterals(Args)
      /\ Emits(b, Data(w, os)) /\ UNCHANGED fixes
    BY DEF IntList, At
<1>2. w \in Widths /\ Args \in Seq(Tokens) /\ SymsTyped
    BY <1>1, DirectiveWidth, Reading
<1>3. os \in Seq(Seq(Tokens)) /\ DOMAIN os = 1..Len(os)
    BY <1>2, CommasTyped
<1>4. \A k \in 1..Len(os) : IsNumber(os[k])
    BY <1>1, <1>3, SMTT(30) DEF AllIntLiterals
<1>5. b \in Seq(Byte) /\ \A k \in 1..Len(os) : IsExpression(os[k])
    BY <1>1, <1>2, <1>4, IntListTyped DEF IsExpression
<1> HIDE DEF w, os, b
<1>6. QED BY <1>1, <1>2, <1>3, <1>4, <1>5, MuteData

LEMMA StillBytes ==
    ASSUME Types, Ascii \/ Skip
    PROVE  \E what : MuteStep(what, TRUE)
<1>1. CASE Ascii
    <2> DEFINE e == EmitAscii(Args, Directive = ".asciz")
    <2>1. phase = "parse" /\ (Rejected \/ (Emits(e.bytes, <<Bytes(e.bytes)>>) /\ UNCHANGED fixes))
        BY <1>1 DEF Ascii, At
    <2>2. e.bytes \in Seq(Byte)
        BY <2>1, Reading, AsciiTyped
    <2> HIDE DEF e
    <2>3. QED BY <2>1, <2>2, MuteBytes, MuteFaults
<1>2. CASE Skip
    <2> DEFINE p == ParseIntArgs(Args, IF Directive = ".zero" THEN 1 ELSE 2)
               b == [k \in 1..IntOf(p.args[1]) |-> Low(Arg(p.args, 2), 8)]
    <2>1. /\ phase = "parse"
          /\ Rejected \/ (63 \notin p.args[1] /\ Emits(b, <<Bytes(b)>>) /\ UNCHANGED fixes)
        BY <1>2 DEF Skip, At
    <2>2. CASE 63 \notin p.args[1] /\ Emits(b, <<Bytes(b)>>) /\ UNCHANGED fixes
        <3>1. IntOf(p.args[1]) \in Nat
            BY <2>2, IntOfIs
        <3>2. b \in Seq(Byte)
            BY <3>1, FillBytes
        <3> HIDE DEF b
        <3>3. QED BY <2>1, <2>2, <3>2, MuteBytes
    <2>3. QED BY <2>1, <2>2, MuteFaults
<1>3. QED BY <1>1, <1>2

LEMMA StillOrg ==
    ASSUME Types, Org
    PROVE  \E what : MuteStep(what, TRUE)
<1> DEFINE p == ParseIntArgs(Args, 2)  to == IntOf(p.args[1])  fill == Low(Arg(p.args, 2), 8)
           closed == [Last(frags) EXCEPT !.type = "org", !.fill = fill, !.off = to]
           what == [kind |-> "org", to |-> to, fill |-> fill]
<1>1. phase = "parse" /\ (Rejected \/ (63 \notin p.args[1] /\ Closes(closed, what)))
    BY DEF Org, At
<1>2. CASE 63 \notin p.args[1] /\ Closes(closed, what)
    <2>1. to \in Nat /\ fill \in Byte
        BY <1>2, IntOfIs, WordParts
    <2> HIDE DEF to, fill
    <2>2. what \in Items /\ what.kind = "org"
        BY <2>1 DEF Items
    <2>3. Last(frags) \in FragRecords /\ "org" \in FragTypes /\ to \in Int
        BY <1>1, <2>1, OpenFrag DEF FragTypes
    <2>4. FragOK(closed)
        <3>1. closed \in FragRecords
            BY <2>1, <2>3 DEF FragRecords
        <3>2. closed.type = "org" /\ closed.off = to
            BY <2>3 DEF FragRecords
        <3>3. QED BY <2>1, <3>1, <3>2 DEF FragOK, MachineOK, PaddingOK
    <2> HIDE DEF what, closed
    <2>5. QED BY <1>1, <1>2, <2>2, <2>4, MuteCloses
<1>3. QED BY <1>1, <1>2, MuteFaults

LEMMA StillAlign ==
    ASSUME Types, Align
    PROVE  \E what : MuteStep(what, TRUE)
<1> DEFINE p == ParseIntArgs(Args, 3)
           legal == p.args[1] \in (IF Directive = ".align" THEN Exponents ELSE PowersOfTwo)
           p2   == IF Directive = ".align" THEN IntOf(p.args[1]) ELSE Min(p.args[1])
           fill == Low(Arg(p.args, 2), 8)
           most == IF 63 \in Arg(p.args, 3) THEN 0 ELSE IntOf(Arg(p.args, 3))
           closed == [Last(frags) EXCEPT !.type = "align", !.fill = fill, !.off = p2,
                                         !.sub = most]
           what == [kind |-> "align", p2 |-> p2, fill |-> fill, max |-> most]
<1>1. phase = "parse" /\ (Rejected \/ (p.ok /\ legal /\ Closes(closed, what)))
    BY DEF Align, At
<1>2. CASE legal /\ Closes(closed, what)
    <2>1. p2 \in Nat
        <3>1. CASE Directive = ".align"
            <4>1. PICK n \in 0..30 : p.args[1] = ToWord(n)
                BY <1>2, <3>1 DEF Exponents
            <4>2. 63 \notin ToWord(n)
                BY SmallPositive
            <4>3. IntOf(p.args[1]) \in Nat
                BY <4>1, <4>2, IntOfIs
            <4>4. QED BY <3>1, <4>3
        <3>2. CASE Directive # ".align"
            <4>1. PICK b \in 0..62 : p.args[1] = {b}
                BY <1>2, <3>2 DEF PowersOfTwo
            <4>2. Min({b}) \in {b}
                <5>1. {b} \in SUBSET Nat /\ {b} # {}
                    OBVIOUS
                <5>2. QED BY <5>1, MinIs
            <4>3. p2 = Min({b})
                BY <3>2, <4>1
            <4>4. QED BY <4>2, <4>3
        <3>3. QED BY <3>1, <3>2
    <2>2. most \in Nat /\ fill \in Byte
        BY IntOfIs, WordParts
    <2> HIDE DEF p2, most, fill
    <2>3. what \in Items /\ what.kind = "align"
        BY <2>1, <2>2 DEF Items
    <2>4. Last(frags) \in FragRecords /\ "align" \in FragTypes /\ p2 \in Int
        BY <1>1, <2>1, OpenFrag DEF FragTypes
    <2>5. FragOK(closed)
        <3>1. closed \in FragRecords
            BY <2>1, <2>2, <2>4 DEF FragRecords
        <3>2. closed.type = "align" /\ closed.off = p2
            BY <2>4 DEF FragRecords
        <3>3. QED BY <2>1, <3>1, <3>2 DEF FragOK, MachineOK, PaddingOK
    <2> HIDE DEF what, closed
    <2>6. QED BY <1>1, <1>2, <2>3, <2>5, MuteCloses
<1>3. QED BY <1>1, <1>2, MuteFaults

LEMMA StillStatements ==
    ASSUME Types, \/ IntList \/ Ascii \/ Skip \/ Org \/ Align
                  \/ Accepted \/ SwitchesSection \/ Unsupported
    PROVE  \E what : MuteStep(what, TRUE)
<1>1. CASE IntList
    BY <1>1, StillIntList
<1>2. CASE Ascii \/ Skip
    BY <1>2, StillBytes
<1>3. CASE Org
    BY <1>3, StillOrg
<1>4. CASE Align
    BY <1>4, StillAlign
<1>5. CASE Accepted
    <2> DEFINE w == <<>>
    <2>1. items' = items \o w /\ UNCHANGED <<job, phase, syms, frags, fixes>>
        BY <1>5 DEF Accepted, Handled
    <2>2. w \in Seq(Items) /\ Len(w) = 0
        BY EmptyTyped
    <2> HIDE DEF w
    <2>3. \A j \in 1..Len(w) : Mute(w[j]) /\ ~ Refers(w[j])
        BY <2>2
    <2>4. MuteStep(w, TRUE)
        BY <2>1, <2>2, <2>3 DEF MuteStep, SameFront
    <2>5. QED BY <2>4
<1>6. CASE SwitchesSection
    <2> DEFINE it == [kind |-> "fault", class |-> "section"]
    <2>1. it \in Items /\ it.kind = "fault"
        BY DEF Items
    <2>2. items' = items \o <<it>> /\ UNCHANGED <<job, phase, syms, frags, fixes>>
        BY <1>6 DEF SwitchesSection, Handled
    <2> HIDE DEF it
    <2>3. Mute(it) /\ Still(it)
        BY <2>1, <2>2 DEF Mute, Still, Refers, Fielded, IsBranch, SameFront
    <2>4. QED BY <2>1, <2>2, <2>3, MuteOne
<1>7. CASE Unsupported
    BY <1>7, MuteFaults DEF Unsupported
<1>8. QED BY <1>1, <1>2, <1>3, <1>4, <1>5, <1>6, <1>7

\* One more item, and the table it leaves.
LEMMA OneNaming ==
    ASSUME Types, Naming, NEW it \in Items, items' = items \o <<it>>, UNCHANGED <<job, phase>>,
           NEW s, DOMAIN syms' = DOMAIN syms \cup {s},
           \A x \in DOMAIN syms : x # s => syms'[x] = syms[x],
           PlainIn(items') => Traced(items, s, syms[s])',
           PlainIn(items') => \A k \in 1..Len(items') : items'[k].sym = s => Entered(items[k])',
           it.kind \in {"label", "equ"} => it.sym = s
    PROVE  Naming'
<1> DEFINE all == items \o <<it>>
<1>1. items \in Seq(Items) /\ <<it>> \in Seq(Items) /\ Len(<<it>>) = 1 /\ <<it>>[1] = it
    BY SingleTyped DEF Types, ItemsOK
<1>2. /\ Continues(items, all) /\ Len(all) = Len(items) + 1 /\ all[Len(items) + 1] = it
    <2> DEFINE w == <<it>>
    <2>1. w \in Seq(Items) /\ Len(w) = 1 /\ w[1] = it /\ 1 \in 1..Len(w)
        BY <1>1
    <2> HIDE DEF w
    <2>2. /\ Continues(items, items \o w) /\ Len(items \o w) = Len(items) + 1
          /\ (items \o w)[Len(items) + 1] = it
        <3>1. /\ Continues(items, items \o w) /\ Len(items \o w) = Len(items) + Len(w)
              /\ \A j \in 1..Len(w) : (items \o w)[Len(items) + j] = w[j]
            BY <1>1, <2>1, ContinuesIs
        <3>2. Len(items \o w) = Len(items) + 1
            BY <2>1, <3>1
        <3>3. (items \o w)[Len(items) + 1] = it
            BY <2>1, <3>1
        <3>4. QED BY <3>1, <3>2, <3>3
    <2>3. QED BY <2>2 DEF w
<1>3. items' = all
    OBVIOUS
<1> HIDE DEF all
<1>4. SUFFICES ASSUME PlainIn(items')
               PROVE  /\ \A x \in DOMAIN syms' : Traced(items, x, syms[x])'
                      /\ \A k \in 1..Len(items') : Entered(items[k])'
    BY DEF Naming
<1>5. PlainIn(items)
    BY <1>2, <1>3, <1>4, NamesGrow
<1>6. ASSUME NEW x \in DOMAIN syms' PROVE Traced(items, x, syms[x])'
    <2>1. CASE x = s
        BY <1>4, <2>1
    <2>2. CASE x # s
        <3>1. x \in DOMAIN syms /\ syms'[x] = syms[x]
            BY <2>2
        <3>2. Traced(items, x, syms[x])
            BY <1>5, <3>1 DEF Naming
        <3>3. Traced(all, x, syms[x])
            BY <1>2, <3>2, NamesGrow
        <3>4. QED BY <1>3, <3>1, <3>3 DEF Traced, Outer, Given, Parsing
    <2>3. QED BY <2>1, <2>2
<1>7. ASSUME NEW k \in 1..Len(items') PROVE Entered(items[k])'
    <2>1. CASE items'[k].sym = s
        BY <1>4, <2>1
    <2>2. CASE items'[k].sym # s
        <3>1. CASE k \in 1..Len(items)
            <4>1. items'[k] = items[k]
                BY <1>2, <1>3, <3>1 DEF Continues
            <4>2. Entered(items[k])
                BY <1>5, <3>1 DEF Naming
            <4>3. items[k].sym # s
                BY <2>2, <4>1
            <4>4. QED BY <4>1, <4>2, <4>3 DEF Entered
        <3>2. CASE k \notin 1..Len(items)
            <4>1. items'[k] = it
                BY <1>2, <1>3, <3>2 DEF Continues
            <4>2. it.kind # "label" /\ it.kind # "equ"
                BY <2>2, <4>1
            <4>3. QED BY <4>1, <4>2 DEF Entered
        <3>3. QED BY <3>1, <3>2
    <2>3. QED BY <2>1, <2>2
<1>8. QED BY <1>6, <1>7

LEMMA LabelNaming ==
    ASSUME Types, Naming, Label
    PROVE  Naming'
<1>1. phase = "parse" /\ UNCHANGED <<job, phase>> /\ HasLabel(line)
    BY DEF Label
<1>2. PICK s \in Symbols : ColonDefines(s)
    <2> DEFINE n == line[1]
    <2>1. CASE n \in Names /\ ColonDefines(Sym(n))
        <3>1. Sym(n) \in Symbols
            BY <2>1, NameTypes, SymbolsTyped
        <3>2. QED BY <2>1, <3>1
    <2>2. CASE /\ n \in Locals /\ locals' = [locals EXCEPT ![n] = @ + 1]
               /\ ColonDefines(<<n, locals'[n]>>)
        <3>1. locals \in [Locals -> Nat]
            BY DEF Types, SymbolsOK, SymsTyped
        <3>2. locals'[n] \in Nat
            BY <2>2, <3>1
        <3>3. <<n, locals'[n]>> \in Symbols
            BY <2>2, <3>2 DEF Symbols
        <3>4. QED BY <2>2, <3>3
    <2>3. QED BY <2>1, <2>2 DEF Label
<1> DEFINE it == [kind |-> "label", sym |-> s]
<1>3. it \in Items /\ it.kind = "label" /\ it.sym = s
    BY DEF Items
<1>4. items' = Append(items, it) /\ items \in Seq(Items)
    BY <1>2 DEF ColonDefines, Types, ItemsOK
<1> HIDE DEF it
<1>5. items' = items \o <<it>>
    <2>1. Append(items, it) = items \o <<it>>
        BY <1>3, <1>4
    <2>2. QED BY <1>4, <2>1
<1>6. Len(items') = Len(items) + 1 /\ items'[Len(items) + 1] = it /\ Len(items) \in Nat
    BY <1>3, <1>4
<1>7. LabelAt(items, s)'
    <2>1. Len(items) + 1 \in 1..Len(items')
        BY <1>6
    <2>2. QED BY <1>3, <1>6, <2>1 DEF LabelAt
<1>8. PlainIn(items') => s \in DOMAIN syms' /\ ~ syms'[s].set /\ syms'[s].seg = "text"
    <2>1. CASE ~ IsLabel(s) /\ syms' = Defined(s, Here)
        <3>1. s \in DOMAIN syms' /\ syms'[s] = Here
            BY <2>1 DEF Defined
        <3>2. Here.seg = "text" /\ ~ Here.set
            BY DEF Here, InText
        <3>3. QED BY <3>1, <3>2
    <2>2. CASE IsLabel(s) /\ UNCHANGED syms
        <3>1. s \in DOMAIN syms /\ ~ syms[s].set
            BY <2>2 DEF IsLabel
        <3>2. PlainIn(items') => PlainIn(items)
            <4>1. Continues(items, items')
                BY <1>3, <1>4, <1>6 DEF Continues
            <4>2. QED BY <4>1, NamesGrow
        <3>3. PlainIn(items') => Traced(items, s, syms[s])
            BY <3>1, <3>2 DEF Naming
        <3>4. PlainIn(items') => syms[s].seg = "text"
            BY <1>1, <3>1, <3>3 DEF Traced, Parsing
        <3>5. QED BY <2>2, <3>1, <3>4
    <2>3. QED BY <1>2, <2>1, <2>2 DEF ColonDefines
<1>9. /\ DOMAIN syms' = DOMAIN syms \cup {s}
      /\ \A x \in DOMAIN syms : x # s => syms'[x] = syms[x]
    <2>1. CASE syms' = Defined(s, Here)
        BY <2>1 DEF Defined
    <2>2. CASE IsLabel(s) /\ UNCHANGED syms
        BY <2>2 DEF IsLabel
    <2>3. QED BY <1>2, <2>1, <2>2 DEF ColonDefines
<1>10. PlainIn(items') => Traced(items, s, syms[s])'
    BY <1>7, <1>8 DEF Traced
<1>11. PlainIn(items') => \A k \in 1..Len(items') : items'[k].sym = s => Entered(items[k])'
    BY <1>8 DEF Entered
<1>12. QED BY <1>1, <1>3, <1>5, <1>9, <1>10, <1>11, OneNaming

LEMMA EquDefines ==
    ASSUME Types, Naming, phase = "parse", NEW s \in Symbols, NEW e \in Terms, ~ IsLabel(s),
           items' = items \o <<[kind |-> "equ", sym |-> s, term |-> e]>>, UNCHANGED <<job, phase>>,
           syms' = Defined(s, [EquValue(e) EXCEPT !.set = TRUE])
    PROVE  Naming'
<1> DEFINE it == [kind |-> "equ", sym |-> s, term |-> e]
           d == [EquValue(e) EXCEPT !.set = TRUE]
<1>1. SymsTyped /\ NoSym \notin DOMAIN syms
    BY Reading, SymbolsTyped DEF SymsTyped
<1>6. it \in Items /\ it.kind = "equ" /\ it.sym = s /\ it.term = e
    BY DEF Items
<1>7. items' = items \o <<it>> /\ items \in Seq(Items) /\ UNCHANGED <<job, phase>>
    BY DEF Types, ItemsOK, it
<1> HIDE DEF it
<1>8. Len(items') = Len(items) + 1 /\ items'[Len(items) + 1] = it /\ Len(items) \in Nat
      /\ \A k \in 1..Len(items) : items'[k] = items[k]
    BY <1>6, <1>7, OneMore
<1>9. Continues(items, items') /\ Len(items) + 1 \in 1..Len(items')
    BY <1>8 DEF Continues
<1>10. s \in DOMAIN syms' /\ syms'[s] = d /\ DOMAIN syms' = DOMAIN syms \cup {s}
       /\ \A x \in DOMAIN syms : x # s => syms'[x] = syms[x]
    BY DEF Defined, d
<1>11. d.set /\ d.seg = EquValue(e).seg /\ d.of = EquValue(e).of
    <2>1. EquValue(e) \in SymbolRecords
        <3>1. e.sym \in SymVals /\ e.add \in Word
            BY DEF Terms
        <3>2. CASE e.sym = NoSym
            <4>1. EquValue(e) = Absolute(e.add)
                BY <1>1, <3>2 DEF EquValue, IsLocal
            <4>2. QED BY <3>1, <4>1, SymbolRecordsIs
        <3>3. CASE e.sym # NoSym /\ IsLocal(e.sym)
            <4>1. EquValue(e) = [syms[e.sym] EXCEPT !.off = @ + IntOf(e.add)]
                BY <3>3 DEF EquValue
            <4>2. syms[e.sym] \in SymbolRecords
                BY <1>1, <3>3 DEF SymsTyped, IsLocal
            <4>3. IntOf(e.add) \in Int
                BY IntOfIs
            <4>4. QED BY SMTT(30), <4>1, <4>2, <4>3 DEF SymbolRecords
        <3>4. CASE e.sym # NoSym /\ ~ IsLocal(e.sym)
            <4>1. EquValue(e) = AliasOf(e.sym, e.add)
                BY <3>4 DEF EquValue
            <4>2. QED BY <3>1, <4>1, SymbolRecordsIs
        <3>5. QED BY <3>2, <3>3, <3>4
    <2>2. QED BY <2>1 DEF SymbolRecords
<1> HIDE DEF d
<1>12. ASSUME PlainIn(items') PROVE Follows(items', e.sym, d)
    <2>1. CASE e.sym = NoSym
        <3>1. EquValue(e) = Absolute(e.add)
            BY <1>1, <2>1 DEF EquValue, IsLocal
        <3>2. d.seg = "absolute"
            BY <1>11, <3>1 DEF Absolute, InText
        <3>3. QED BY <2>1, <3>2 DEF Follows
    <2>2. CASE e.sym # NoSym /\ IsLocal(e.sym)
        <3> DEFINE x == e.sym
        <3>1. x \in DOMAIN syms /\ syms[x].seg = "text"
            BY <2>2 DEF IsLocal
        <3>2. syms[x] \in SymbolRecords
            BY <1>1, <3>1 DEF SymsTyped
        <3>3. EquValue(e) = [syms[x] EXCEPT !.off = @ + IntOf(e.add)]
            BY <2>2 DEF EquValue
        <3>4. d.seg = "text"
            BY <1>11, <3>1, <3>2, <3>3 DEF SymbolRecords
        <3>5. PlainIn(items) /\ Traced(items, x, syms[x])
            BY <1>9, <1>12, <3>1, NamesGrow DEF Naming
        <3>6. ~ syms[x].set
            <4>1. ~ SetName(items', x)
                BY <1>6, <1>8, <1>9, <1>12 DEF PlainIn
            <4>2. ~ SetName(items, x)
                BY <1>9, <4>1, NamesGrow
            <4>3. QED BY <3>5, <4>2 DEF Traced, SetName
        <3>7. LabelAt(items, x)
            BY <3>1, <3>5, <3>6 DEF Traced
        <3>8. LabelAt(items', x)
            BY <1>9, <3>7, NamesGrow
        <3>9. QED BY <3>4, <3>8 DEF Follows
    <2>3. CASE e.sym # NoSym /\ ~ IsLocal(e.sym)
        <3>1. EquValue(e) = AliasOf(e.sym, e.add)
            BY <2>3 DEF EquValue
        <3>2. d.seg = "alias" /\ d.of = e.sym
            BY <1>11, <3>1 DEF AliasOf, InText
        <3>3. QED BY <2>3, <3>2 DEF Follows
    <2>4. QED BY <2>1, <2>2, <2>3
<1>13. PlainIn(items') => Traced(items', s, d)
    BY <1>6, <1>8, <1>9, <1>11, <1>12 DEF Traced
<1>14. PlainIn(items') => Traced(items, s, syms[s])'
    BY <1>10, <1>13, <1>7 DEF Traced, Outer, Given, Parsing
<1>15. PlainIn(items') => \A k \in 1..Len(items') : items'[k].sym = s => Entered(items[k])'
    <2>1. SUFFICES ASSUME PlainIn(items'), NEW k \in 1..Len(items'), items'[k].sym = s
                   PROVE  Entered(items[k])'
        OBVIOUS
    <2>2. items'[k].kind # "label"
        <3>1. CASE k = Len(items) + 1
            BY <1>6, <1>8, <3>1
        <3>2. CASE k \in 1..Len(items) /\ items'[k].kind = "label"
            <4>1. Entered(items[k]) /\ items'[k] = items[k]
                BY <1>8, <1>9, <2>1, <3>2, NamesGrow DEF Naming
            <4>2. IsLabel(s)
                BY <2>1, <3>2, <4>1 DEF Entered, IsLabel
            <4>3. QED BY <4>2
        <3>3. QED BY <1>8, <3>1, <3>2
    <2>3. QED BY <1>10, <2>1, <2>2 DEF Entered
<1>16. QED BY <1>6, <1>7, <1>10, <1>14, <1>15, OneNaming

LEMMA EquNaming ==
    ASSUME Types, Naming, Equ
    PROVE  Naming'
<1> DEFINE o == Commas(Args)
           s == Sym(o[1][1])
           e == Expression(o[2])
           it == [kind |-> "equ", sym |-> s, term |-> e]
           d == [EquValue(e) EXCEPT !.set = TRUE]
<1>1. /\ phase = "parse"
      /\ \/ Rejected
         \/ GasError
         \/ /\ Len(o) > 1 /\ o[1] # <<>> /\ IsExpression(o[2]) /\ ~ IsLabel(s)
            /\ syms' = Defined(s, d) /\ Handled(<<it>>)
    BY DEF Equ, At
<1>2. CASE Rejected \/ GasError
    BY <1>2, MuteFaults, MuteNaming
<1>3. CASE /\ Len(o) > 1 /\ o[1] # <<>> /\ IsExpression(o[2]) /\ ~ IsLabel(s)
           /\ syms' = Defined(s, d) /\ Handled(<<it>>)
    <2>1. Args \in Seq(Tokens) /\ SymsTyped
        BY <1>1, Reading
    <2>2. o \in Seq(Seq(Tokens))
        BY <2>1, CommasTyped
    <2>3. o[1] \in Seq(Tokens) /\ o[2] \in Seq(Tokens) /\ o[1] # <<>> /\ IsExpression(o[2])
        BY <1>3, <2>2
    <2>4. o[1][1] \in Tokens
        BY <2>3
    <2>5. s \in Symbols /\ e \in Terms
        BY <2>1, <2>3, <2>4, SymbolsTyped, ExpressionTyped
    <2> HIDE DEF s, e
    <2>6. items' = items \o <<[kind |-> "equ", sym |-> s, term |-> e]>> /\ UNCHANGED <<job, phase>>
        BY <1>3 DEF Handled
    <2>7. QED BY <1>1, <1>3, <2>5, <2>6, EquDefines
<1>4. QED BY <1>1, <1>2, <1>3

LEMMA QuietNaming ==
    ASSUME Naming, UNCHANGED <<job, syms, items>>, Parsing' => Parsing
    PROVE  Naming'
<1>1. \A s \in DOMAIN syms : Traced(items, s, syms[s]) => Traced(items, s, syms[s])'
    BY DEF Traced, Outer, Given
<1>2. \A k \in 1..Len(items) : Entered(items[k]) => Entered(items[k])'
    BY DEF Entered
<1>3. QED BY <1>1, <1>2 DEF Naming

LEMMA GivenNaming ==
    ASSUME Types, Naming, DefineLabels
    PROVE  Naming'
<1> DEFINE new == {k \in DOMAIN Given : ~ Taken(k)}
           at(n) == CHOOSE k \in new : Given[k].name = n
           names == {Sym(Given[k].name) : k \in new}
<1>1. /\ syms' = [s \in DOMAIN syms \cup names |->
                    IF s \in names THEN Absolute(Given[at(s[1])].address) ELSE syms[s]]
      /\ UNCHANGED <<job, items>> /\ phase' \in {"report", "relax"}
    BY DEF DefineLabels
<1>2. ~ Parsing'
    BY <1>1 DEF Parsing
<1>3. SUFFICES ASSUME PlainIn(items)
               PROVE  /\ \A x \in DOMAIN syms' : Traced(items, x, syms[x])'
                      /\ \A k \in 1..Len(items) : Entered(items[k])'
    BY <1>1 DEF Naming
<1>4. /\ DOMAIN syms' = DOMAIN syms \cup names
      /\ \A x \in DOMAIN syms : HasValue(x) => syms'[x] = syms[x]
    <2>1. DOMAIN syms' = DOMAIN syms \cup names
        BY <1>1
    <2>2. ASSUME NEW x \in DOMAIN syms, HasValue(x) PROVE x \notin names
        BY <2>2 DEF Taken
    <2>3. QED BY <1>1, <2>1, <2>2
<1>5. ASSUME NEW x \in DOMAIN syms' PROVE Traced(items, x, syms[x])'
    <2>1. CASE x \notin names
        <3>1. x \in DOMAIN syms /\ syms'[x] = syms[x]
            BY <1>1, <1>4, <2>1
        <3>2. Traced(items, x, syms[x])
            BY <1>3, <3>1 DEF Naming
        <3>3. QED BY <1>1, <1>2, <3>1, <3>2 DEF Traced, Outer, Given
    <2>2. CASE x \in names
        <3>2. Outer(x)
            BY <2>2 DEF Outer
        <3>3. syms'[x] = Absolute(Given[at(x[1])].address)
            BY <1>1, <1>4, <2>2
        <3>4. syms'[x].seg = "absolute" /\ ~ syms'[x].set
            BY <3>3 DEF Absolute, InText
        <3>5. Outer(x)'
            BY <1>1, <3>2 DEF Outer, Given
        <3>6. QED BY <1>2, <3>4, <3>5 DEF Traced
    <2>3. QED BY <2>1, <2>2
<1>6. ASSUME NEW k \in 1..Len(items) PROVE Entered(items[k])'
    <2>1. Entered(items[k])
        BY <1>3, <1>6 DEF Naming
    <2>2. items' = items
        BY <1>1
    <2> HIDE DEF names
    <2>3. items[k].kind = "label" => HasValue(items[k].sym)
        BY <2>1 DEF Entered, HasValue
    <2>4. QED BY <1>4, <2>1, <2>2, <2>3 DEF Entered
<1>7. QED BY <1>5, <1>6

LEMMA NamingStarts ==
    ASSUME Init
    PROVE  Naming
BY DEF Init, Naming

LEMMA NamingStays ==
    ASSUME Types, Naming, [Next]_vars
    PROVE  Naming'
<1>1. CASE Label
    BY <1>1, LabelNaming
<1>2. CASE Equ
    BY <1>2, EquNaming
<1>3. CASE DefineLabels
    BY <1>3, GivenNaming
<1>4. CASE \/ IntList \/ ConsList \/ Ascii \/ Skip \/ Org \/ Align \/ Accepted
           \/ SwitchesSection \/ Unsupported \/ Instruction
    BY <1>4, StillStatements, MuteConsList, MuteInstruction, MuteNaming
<1>5. CASE Reset \/ NextStatement
    BY <1>5, QuietNaming DEF Reset, NextStatement, section, Parsing
<1>6. CASE RelaxBranches \/ RelaxSegment
    BY <1>6, QuietNaming DEF RelaxBranches, RelaxSegment, Parsing
<1>7. CASE ConvertAndFinalize \/ ApplyTextFixups \/ Report
    <2>1. UNCHANGED <<job, syms, items>> /\ phase' \notin {"reset", "parse"}
        BY <1>7 DEF ConvertAndFinalize, ApplyTextFixups, Report, section
    <2>2. QED BY <2>1, QuietNaming DEF Parsing
<1>8. CASE DecodeOne \/ Decoded
    <2>1. UNCHANGED <<job, syms, items>> /\ phase' \notin {"reset", "parse"}
        BY <1>8 DEF DecodeOne, Decoded, section
    <2>2. QED BY <2>1, QuietNaming DEF Parsing
<1>9. CASE Returned \/ UNCHANGED vars
    <2>1. UNCHANGED <<job, syms, items, phase>>
        BY <1>9 DEF Returned, vars, section
    <2>2. QED BY <2>1, QuietNaming DEF Parsing
<1>10. QED BY <1>1, <1>2, <1>3, <1>4, <1>5, <1>6, <1>7, <1>8, <1>9 DEF Next

LEMMA NamingHolds == Spec => []Naming
<1>1. Init => Naming
    BY NamingStarts
<1>2. Types /\ Naming /\ [Next]_vars => Naming'
    BY NamingStays
<1>3. QED BY <1>1, <1>2, TypesHold, PTL DEF Spec

-----------------------------------------------------------------------------
(* What the aliases lead to.                                               *)

LEMMA AfterSame ==
    ASSUME NEW n \in Nat, NEW A, NEW x \in A, NEW f \in [A -> A], f[f[x]] = f[x],
           n = 0 => f[x] = x
    PROVE  After(n, x, [k \in 1..n |-> f]) = f[x]
<1> DEFINE s == [k \in 1..n |-> f]  g == Before(n, x, s)
           S == {i \in Nat : i <= n => g[i + 1] = (IF i = 0 THEN x ELSE f[x])}
<1>1. \A i \in 1..n : s[i] = f
    OBVIOUS
<1>2. \A i \in 1..n : \A a \in A : s[i][a] \in A
    BY <1>1
<1> HIDE DEF s
<1>3. Runs(n, A, x, s, g)
    BY <1>2, BeforeIs
<1> HIDE DEF g
<1>4. 0 \in S
    BY <1>3 DEF Runs
<1>5. ASSUME NEW i \in Nat, i \in S PROVE i + 1 \in S
    <2>1. CASE i + 1 <= n
        <3>1. i + 1 \in 1..n /\ g[i + 1] = (IF i = 0 THEN x ELSE f[x])
            BY <1>5, <2>1
        <3>2. g[(i + 1) + 1] = s[i + 1][g[i + 1]]
            BY <1>3, <3>1 DEF Runs
        <3>3. g[(i + 1) + 1] = f[x]
            BY <1>1, <3>1, <3>2
        <3>4. QED BY <3>3
    <2>2. CASE ~ (i + 1 <= n)
        BY <2>2
    <2>3. QED BY <2>1, <2>2
<1>6. n \in S
    <2> HIDE DEF S
    <2>1. Nat \subseteq S
        BY <1>4, <1>5, SetInduction
    <2>2. QED BY <2>1
<1>7. g[n + 1] = f[x]
    BY <1>6
<1>8. After(n, x, s) = g[n + 1]
    BY DEF After, g
<1>9. QED BY <1>7, <1>8 DEF s

\* An alias of a plain .equ leads to a name that is none.
IsAlias(s) == s \in DOMAIN syms /\ syms[s].seg = "alias"
Target(s)  == IF IsAlias(s) THEN syms[s].of ELSE s
Added(s)   == IF IsAlias(s) THEN Plus({}, syms[s].val) ELSE {}

LEMMA AliasEnds ==
    ASSUME SymsTyped, Naming, PlainIn(items), NEW s, IsAlias(s)
    PROVE  /\ syms[s].set /\ syms[s].of \in SymVals /\ syms[s].val \in Word
           /\ ~ IsAlias(syms[s].of)
           /\ \E k \in 1..Len(items) : /\ items[k].kind = "equ" /\ items[k].sym = s
                                       /\ items[k].term.sym = syms[s].of
<1>1. syms[s] \in SymbolRecords /\ Traced(items, s, syms[s])
    BY DEF SymsTyped, Naming, IsAlias
<1>2. syms[s].of \in SymVals /\ syms[s].val \in Word
    BY <1>1 DEF SymbolRecords
<1>3. syms[s].set
    BY <1>1 DEF Traced, IsAlias
<1>4. PICK k \in 1..Len(items) : /\ items[k].kind = "equ" /\ items[k].sym = s
                                 /\ Follows(items, items[k].term.sym, syms[s])
    BY <1>1, <1>3 DEF Traced
<1> DEFINE t == items[k].term.sym
<1>5. syms[s].of = t /\ ~ SetName(items, t)
    BY <1>4 DEF Follows, PlainIn, IsAlias
<1> HIDE DEF t
<1>6. ~ IsAlias(t)
    <2>1. SUFFICES ASSUME IsAlias(t) PROVE FALSE
        OBVIOUS
    <2>2. Traced(items, t, syms[t]) /\ syms[t].set
        BY <2>1 DEF Naming, IsAlias, Traced
    <2>3. SetName(items, t)
        BY <2>2 DEF Traced, SetName
    <2>4. QED BY <1>5, <2>3
<1>7. QED BY <1>2, <1>3, <1>4, <1>5, <1>6 DEF t

LEMMA ResolvedIs ==
    ASSUME SymsTyped, Naming, PlainIn(items), NEW s \in SymVals
    PROVE  Resolved(s) = <<Target(s), Added(s)>>
<1> DEFINE n == Cardinality(DOMAIN syms)  A == SymVals \X Word
           f == [r \in A |-> Behind(r)]  x == <<s, {}>>
<1>1. n \in Nat /\ (n = 0 => DOMAIN syms = {})
    BY FS_CardinalityType, FS_EmptySet DEF SymsTyped
<1>2. x \in A
    BY DEF Word
<1>3. \A r \in A : Behind(r) \in A
    <2> TAKE r \in A
    <2>1. r[1] \in SymVals /\ r[2] \in Word /\ r = <<r[1], r[2]>>
        OBVIOUS
    <2>2. CASE ~ IsAlias(r[1])
        BY <2>2 DEF Behind, IsAlias
    <2>3. CASE IsAlias(r[1])
        <3>1. syms[r[1]].of \in SymVals
            BY <2>3, AliasEnds
        <3>2. Plus(r[2], syms[r[1]].val) \in Word
            BY <2>1, <2>3, AliasEnds, WordOps
        <3>3. Behind(r) = <<syms[r[1]].of, Plus(r[2], syms[r[1]].val)>>
            BY <2>3 DEF Behind, IsAlias
        <3>4. QED BY <3>1, <3>2, <3>3
    <2>4. QED BY <2>2, <2>3
<1>4. Behind(x) = <<Target(s), Added(s)>>
    <2>1. CASE ~ IsAlias(s)
        BY <2>1 DEF Behind, IsAlias, Target, Added
    <2>2. CASE IsAlias(s)
        BY <2>2 DEF Behind, IsAlias, Target, Added
    <2>3. QED BY <2>1, <2>2
<1>5. Behind(Behind(x)) = Behind(x)
    <2>1. ~ IsAlias(Target(s))
        BY AliasEnds DEF Target
    <2>2. QED BY <1>4, <2>1 DEF Behind, IsAlias
<1>6. f \in [A -> A] /\ f[f[x]] = f[x] /\ f[x] = <<Target(s), Added(s)>>
    BY <1>2, <1>3, <1>4, <1>5
<1>7. n = 0 => f[x] = x
    <2>1. DOMAIN syms = {} => Target(s) = s /\ Added(s) = {}
        BY DEF Target, Added, IsAlias
    <2>2. QED BY <1>1, <1>6, <2>1
<1>8. Resolved(s) = After(n, x, [k \in 1..n |-> f])
    BY DEF Resolved, SymVals
<1> HIDE DEF n, f, A, x
<1>9. QED BY <1>1, <1>2, <1>6, <1>7, <1>8, AfterSame

LEMMA DefinedIs ==
    ASSUME SymsTyped, Naming, PlainIn(items), NEW s \in SymVals
    PROVE  IsDefined(s) <=> \/ s \in DOMAIN syms /\ syms[s].seg # "alias"
                            \/ s \in DOMAIN syms /\ syms[s].seg = "alias" /\ syms[s].of \in DOMAIN syms
<1>1. Root(s) = Target(s)
    BY ResolvedIs DEF Root
<1>2. IsDefined(s) <=> Target(s) \in DOMAIN syms /\ syms[Target(s)].seg # "alias"
    BY <1>1 DEF IsDefined, HasValue
<1>3. CASE ~ IsAlias(s)
    BY <1>2, <1>3 DEF Target, IsAlias
<1>4. CASE IsAlias(s)
    <2>1. Target(s) = syms[s].of /\ ~ IsAlias(syms[s].of)
        BY <1>4, AliasEnds DEF Target
    <2>2. QED BY <1>2, <1>4, <2>1 DEF IsAlias
<1>5. QED BY <1>3, <1>4

LEMMA PlacesAre ==
    ASSUME items \in Seq(Items), NEW s
    PROVE  Places(s) # {} <=> LabelAt(items, s) \/ Outer(s)
<1> DEFINE L == {i \in DOMAIN items : items[i].kind = "label" /\ items[i].sym = s}
           G == {i \in DOMAIN Given : Sym(Given[i].name) = s}
           place(k) == Plus(job.base, ToWord(TrueAddress[k]))
           address(k) == Given[k].address
<1>1. L # {} <=> LabelAt(items, s)
    BY DEF LabelAt
<1>2. G # {} <=> Outer(s)
    BY DEF Outer
<1>3. Places(s) = {place(k) : k \in L} \cup {address(k) : k \in G}
    BY DEF Places
<1> HIDE DEF L, G, place, address
<1>4. QED BY <1>1, <1>2, <1>3

LEMMA MeaningIs ==
    ASSUME NEW s, s # NoSym
    PROVE  Meaning(s) # {} <=>
             \/ Places(s) # {}
             \/ \E k \in DOMAIN items : /\ items[k].kind = "equ" /\ items[k].sym = s
                                        /\ \/ items[k].term.sym = NoSym
                                           \/ Places(items[k].term.sym) # {}
<1>1. CASE Places(s) # {}
    <2>1. Meaning(s) = Places(s)
        BY <1>1 DEF Meaning
    <2>2. QED BY <1>1, <2>1
<1>2. CASE Places(s) = {}
    <2> DEFINE from(t) == IF t.sym = NoSym THEN {{}} ELSE Places(t.sym)
               sums(t) == {Plus(v, t.add) : v \in from(t)}
    <2>1. Meaning(s) = UNION {sums(t) : t \in SetTo(s)}
        BY <1>2 DEF Meaning
    <2>2. \A t : sums(t) # {} <=> from(t) # {}
        OBVIOUS
    <2>3. \A t : from(t) # {} <=> t.sym = NoSym \/ Places(t.sym) # {}
        OBVIOUS
    <2> HIDE DEF sums, from
    <2>4. Meaning(s) # {} <=> \E t \in SetTo(s) : sums(t) # {}
        BY <2>1
    <2>5. \A t : t \in SetTo(s) <=> \E k \in DOMAIN items : /\ items[k].kind = "equ"
                                                           /\ items[k].sym = s /\ items[k].term = t
        BY DEF SetTo
    <2>6. QED BY SMTT(30), <1>2, <2>2, <2>3, <2>4, <2>5
<1>3. QED BY <1>1, <1>2

\* A defined symbol has a meaning, and without LabelDefinitions no other has.
LEMMA DefinedMeans ==
    ASSUME Types, Naming, PlainIn(items), NEW s \in Symbols
    PROVE  /\ IsDefined(s) => Meaning(s) # {}
           /\ Given = <<>> /\ Meaning(s) # {} => IsDefined(s)
<1>1. SymsTyped /\ s \in SymVals /\ s # NoSym /\ items \in Seq(Items) /\ DOMAIN items = 1..Len(items)
    BY SymbolsTyped DEF Types, SymbolsOK, ItemsOK, SymVals
<1>2. \A x \in DOMAIN syms : Traced(items, x, syms[x])
    BY DEF Naming
<1>3. \A x : Places(x) # {} <=> LabelAt(items, x) \/ Outer(x)
    BY <1>1, PlacesAre
<1>4. ASSUME IsDefined(s) PROVE Meaning(s) # {}
    <2>1. s \in DOMAIN syms /\ (syms[s].seg = "alias" => syms[s].of \in DOMAIN syms)
        BY <1>1, <1>4, DefinedIs
    <2>2. Traced(items, s, syms[s])
        BY <1>2, <2>1
    <2>3. CASE ~ syms[s].set
        BY <1>1, <1>3, <2>2, <2>3, MeaningIs DEF Traced
    <2>4. CASE syms[s].set
        <3>1. PICK k \in 1..Len(items) : /\ items[k].kind = "equ" /\ items[k].sym = s
                                         /\ Follows(items, items[k].term.sym, syms[s])
            BY <2>2, <2>4 DEF Traced
        <3> DEFINE t == items[k].term.sym
        <3>2. t = NoSym \/ LabelAt(items, t) \/ (t \in DOMAIN syms /\ ~ SetName(items, t))
            BY <2>1, <3>1 DEF Follows, PlainIn
        <3>3. t = NoSym \/ Places(t) # {}
            <4>1. CASE t \in DOMAIN syms /\ ~ SetName(items, t)
                <5>1. Traced(items, t, syms[t])
                    BY <1>2, <4>1
                <5>2. ~ syms[t].set
                    BY <4>1, <5>1 DEF Traced, SetName
                <5>3. LabelAt(items, t) \/ Outer(t)
                    BY <5>1, <5>2 DEF Traced
                <5>4. QED BY <1>3, <5>3
            <4>2. QED BY <1>3, <3>2, <4>1
        <3>4. QED BY <1>1, <3>1, <3>3, MeaningIs
    <2>5. QED BY <2>3, <2>4
<1>5. ASSUME Given = <<>>, Meaning(s) # {} PROVE IsDefined(s)
    <2>1. \A x : ~ Outer(x)
        BY <1>5 DEF Outer
    <2>2. \A x : Places(x) # {} => x \in DOMAIN syms /\ ~ syms[x].set /\ syms[x].seg = "text"
        <3>1. \A k \in 1..Len(items) : Entered(items[k])
            BY DEF Naming
        <3>2. QED BY <1>3, <2>1, <3>1 DEF LabelAt, Entered
    <2>3. CASE Places(s) # {}
        BY <1>1, <2>2, <2>3, DefinedIs
    <2>4. CASE Places(s) = {}
        <3>1. PICK k \in 1..Len(items) : /\ items[k].kind = "equ" /\ items[k].sym = s
                                         /\ \/ items[k].term.sym = NoSym
                                            \/ Places(items[k].term.sym) # {}
            BY <1>1, <1>5, <2>4, MeaningIs
        <3>2. s \in DOMAIN syms
            BY <3>1 DEF Naming, Entered
        <3>3. Traced(items, s, syms[s])
            BY <1>2, <3>2
        <3>4. ~ LabelAt(items, s)
            BY <1>3, <2>4
        <3>5. syms[s].set
            BY <2>1, <3>3, <3>4 DEF Traced
        <3>6. PICK j \in 1..Len(items) : /\ items[j].kind = "equ" /\ items[j].sym = s
                                         /\ Follows(items, items[j].term.sym, syms[s])
            BY <3>3, <3>5 DEF Traced
        <3>7. j = k
            BY <3>1, <3>6 DEF PlainIn
        <3>8. syms[s].seg = "alias" => syms[s].of \in DOMAIN syms
            BY <2>2, <3>1, <3>6, <3>7 DEF Follows
        <3>9. QED BY <1>1, <3>2, <3>8, DefinedIs
    <2>5. QED BY <2>3, <2>4
<1>6. QED BY <1>4, <1>5

-----------------------------------------------------------------------------
(* The fixups while the text is read.  Every one was asked for by an item,  *)
(* every item with a field has asked for one, and no two are at one place.  *)

Distinct(fxs) == \A i, j \in 1..Len(fxs) :
    fxs[i].frag = fxs[j].frag /\ fxs[i].where = fxs[j].where => i = j
Asked(fx, it, i, o) == /\ Fielded(it) /\ fx.frag = i /\ fx.where = o /\ fx.form = FormOf(it)
                       /\ fx.sym = it.term.sym /\ fx.add = it.term.add
Paired(its, fxs) ==
    /\ \A m \in 1..Len(fxs) : \E k \in 1..Len(its) :
         Asked(fxs[m], its[k], FragOf(its)[k], PlaceOf(its)[k])
    /\ \A k \in 1..Len(its) : Fielded(its[k]) =>
         \E m \in 1..Len(fxs) : Asked(fxs[m], its[k], FragOf(its)[k], PlaceOf(its)[k])
    /\ Distinct(fxs)

LEMMA PairedGrows ==
    ASSUME NEW d, NEW its \in Seq(Items), NEW what \in Seq(Items), NEW b, NEW at,
           Tiles(what, b, at, d), NEW frs, InPlace(its, frs, d), NEW z, z = FixSize(frs[Len(frs)]),
           z \in Nat, NEW fxs \in Seq(Fixups), Paired(its, fxs),
           \A i \in 1..Len(fxs) : FixIn(fxs[i], frs),
           NEW nf \in Seq(Fixups), Distinct(nf),
           \A m \in 1..Len(nf) : \E j \in 1..Len(what) : Asked(nf[m], what[j], Len(frs), z + at[j]),
           \A j \in 1..Len(what) : Fielded(what[j]) =>
             \E m \in 1..Len(nf) : Asked(nf[m], what[j], Len(frs), z + at[j])
    PROVE  Paired(its \o what, fxs \o nf)
<1> DEFINE all == its \o what  afx == fxs \o nf  n == Len(its)  u == Len(fxs)
           f == FragOf(all)  p == PlaceOf(all)
<1>1. /\ Len(all) = n + Len(what) /\ n \in Nat /\ Len(what) \in Nat
      /\ \A k \in 1..n : all[k] = its[k]
      /\ \A j \in 1..Len(what) : all[n + j] = what[j]
    BY ContinuesIs DEF Continues
<1>2. /\ Len(afx) = u + Len(nf) /\ u \in Nat /\ Len(nf) \in Nat
      /\ \A i \in 1..u : afx[i] = fxs[i]
      /\ \A m \in 1..Len(nf) : afx[u + m] = nf[m]
    BY ConcatProperties
<1>3. \A k \in 1..n : f[k] = FragOf(its)[k] /\ p[k] = PlaceOf(its)[k]
    <2>1. ASSUME NEW k \in 1..n PROVE f[k] = FragOf(its)[k] /\ p[k] = PlaceOf(its)[k]
        <3>1. k \in 1..Len(its) + 1
            BY <1>1
        <3>2. QED BY <3>1, SpotsKept
    <2>2. QED BY <2>1
<1>4. \A j \in 1..Len(what) : f[n + j] = Len(frs) /\ p[n + j] = z + at[j]
    <2>1. FragOf(its)[n + 1] = Len(frs) /\ PlaceOf(its)[n + 1] = z
        BY DEF InPlace
    <2>2. ASSUME NEW j \in 1..Len(what) PROVE f[n + j] = Len(frs) /\ p[n + j] = z + at[j]
        <3>1. j \in 1..Len(what) + 1
            BY <1>1
        <3>2. FragOf(its \o what)[Len(its) + j] = FragOf(its)[Len(its) + 1]
            BY <3>1, TileSpots, ZenonT(30)
        <3>3. PlaceOf(its \o what)[Len(its) + j] = PlaceOf(its)[Len(its) + 1] + at[j]
            BY <3>1, TileSpots
        <3>4. QED BY <2>1, <3>2, <3>3
    <2>3. QED BY <2>2
<1>5. ASSUME NEW m \in 1..Len(nf) PROVE nf[m].frag = Len(frs) /\ nf[m].where >= z
    <2>1. PICK j \in 1..Len(what) : Asked(nf[m], what[j], Len(frs), z + at[j])
        OBVIOUS
    <2>2. j \in 1..Len(what) + 1
        BY <1>1
    <2>3. at[j] \in Nat
        BY <2>2 DEF Tiles
    <2> DEFINE a == at[j]
    <2>4. nf[m].frag = Len(frs) /\ nf[m].where = z + a
        BY <2>1 DEF Asked
    <2>5. a \in Nat
        BY <2>3
    <2> HIDE DEF a
    <2>6. z + a >= z
        BY <2>5
    <2>7. QED BY <2>4, <2>6
<1>6. \A i \in 1..u : fxs[i].frag = Len(frs) => fxs[i].where < z
    BY DEF FixIn
<1>7. \A i \in 1..u : fxs[i].where \in Nat
    <2>1. \A i \in 1..u : fxs[i] \in Fixups
        OBVIOUS
    <2>2. QED BY <2>1 DEF Fixups
<1>8. \A m \in 1..Len(nf) : nf[m].where \in Nat
    <2>1. \A m \in 1..Len(nf) : nf[m] \in Fixups
        OBVIOUS
    <2>2. QED BY <2>1 DEF Fixups
<1> HIDE DEF all, afx, n, u, f, p
<1>9. ASSUME NEW i \in 1..Len(afx)
      PROVE  \E k \in 1..Len(all) : Asked(afx[i], all[k], f[k], p[k])
    <2>1. CASE i <= u
        <3>1. i \in 1..u /\ afx[i] = fxs[i]
            BY <1>2, <2>1
        <3>2. PICK k \in 1..n : Asked(fxs[i], its[k], FragOf(its)[k], PlaceOf(its)[k])
            BY <3>1 DEF Paired, n, u
        <3>3. k \in 1..Len(all) /\ all[k] = its[k] /\ f[k] = FragOf(its)[k] /\ p[k] = PlaceOf(its)[k]
            BY <1>1, <1>3
        <3>4. QED BY <3>1, <3>2, <3>3
    <2>2. CASE i > u
        <3> DEFINE m == i - u
        <3>1. m \in 1..Len(nf) /\ i = u + m
            BY <1>2, <2>2
        <3> HIDE DEF m
        <3>2. PICK j \in 1..Len(what) : Asked(nf[m], what[j], Len(frs), z + at[j])
            BY <3>1
        <3>3. n + j \in 1..Len(all) /\ all[n + j] = what[j] /\ f[n + j] = Len(frs) /\ p[n + j] = z + at[j]
            BY <1>1, <1>4
        <3>4. afx[i] = nf[m]
            BY <1>2, <3>1
        <3>5. QED BY <3>2, <3>3, <3>4
    <2>3. i <= u \/ i > u
        BY <1>2, SMTT(30)
    <2>4. QED BY <2>1, <2>2, <2>3
<1>10. ASSUME NEW k \in 1..Len(all), Fielded(all[k])
       PROVE  \E i \in 1..Len(afx) : Asked(afx[i], all[k], f[k], p[k])
    <2>1. CASE k <= n
        <3>1. k \in 1..n /\ all[k] = its[k] /\ f[k] = FragOf(its)[k] /\ p[k] = PlaceOf(its)[k]
            BY <1>1, <1>3, <2>1
        <3>2. PICK i \in 1..u : Asked(fxs[i], its[k], FragOf(its)[k], PlaceOf(its)[k])
            BY <1>10, <3>1 DEF Paired, n, u
        <3>3. i \in 1..Len(afx) /\ afx[i] = fxs[i]
            BY <1>2
        <3>4. QED BY <3>1, <3>2, <3>3
    <2>2. CASE k > n
        <3> DEFINE j == k - n
        <3>1. j \in 1..Len(what) /\ k = n + j
            BY <1>1, <2>2
        <3> HIDE DEF j
        <3>2. all[k] = what[j] /\ f[k] = Len(frs) /\ p[k] = z + at[j]
            BY <1>1, <1>4, <3>1
        <3>3. PICK m \in 1..Len(nf) : Asked(nf[m], what[j], Len(frs), z + at[j])
            BY <1>10, <3>1, <3>2
        <3>4. u + m \in 1..Len(afx) /\ afx[u + m] = nf[m]
            BY <1>2
        <3>5. QED BY <3>2, <3>3, <3>4
    <2>3. QED BY <1>1, <2>1, <2>2
<1>11. ASSUME NEW i \in 1..Len(afx), NEW j \in 1..Len(afx),
              afx[i].frag = afx[j].frag, afx[i].where = afx[j].where
       PROVE  i = j
    <2>1. CASE i <= u /\ j <= u
        <3>1. i \in 1..u /\ j \in 1..u /\ afx[i] = fxs[i] /\ afx[j] = fxs[j]
            BY <1>2, <2>1
        <3>2. QED BY <1>11, <3>1 DEF Paired, Distinct, u
    <2>2. CASE i > u /\ j > u
        <3> DEFINE l == i - u  m == j - u
        <3>1. l \in 1..Len(nf) /\ i = u + l /\ m \in 1..Len(nf) /\ j = u + m
            BY <1>2, <2>2
        <3> HIDE DEF l, m
        <3>2. afx[i] = nf[l] /\ afx[j] = nf[m]
            BY <1>2, <3>1
        <3>3. l = m
            BY <1>11, <3>1, <3>2 DEF Distinct
        <3>4. QED BY <3>1, <3>3
    <2>3. ASSUME NEW x \in 1..Len(afx), NEW y \in 1..Len(afx), x <= u, y > u,
                 afx[x].frag = afx[y].frag, afx[x].where = afx[y].where
          PROVE  FALSE
        <3> DEFINE m == y - u
        <3>1. x \in 1..u /\ m \in 1..Len(nf) /\ y = u + m
            BY SMTT(30), <1>2, <2>3
        <3> HIDE DEF m
        <3>2. afx[x] = fxs[x] /\ afx[y] = nf[m]
            BY <1>2, <3>1
        <3>3. nf[m].frag = Len(frs) /\ nf[m].where >= z
            BY <1>5, <3>1
        <3>4. fxs[x].where < z
            BY <1>6, <2>3, <3>1, <3>2, <3>3
        <3>5. fxs[x].where \in Nat /\ nf[m].where \in Nat
            BY <1>7, <1>8, <3>1
        <3>6. QED BY SMTT(30), <2>3, <3>2, <3>3, <3>4, <3>5
    <2>4. QED BY <1>2, <1>11, <2>1, <2>2, <2>3
<1>12. Paired(all, afx)
    BY <1>9, <1>10, <1>11 DEF Paired, Distinct, f, p
<1>13. QED BY <1>12 DEF all, afx

LEMMA PairedSame ==
    ASSUME NEW its \in Seq(Items), NEW what \in Seq(Items), NEW fxs, Paired(its, fxs),
           \A j \in 1..Len(what) : ~ Fielded(what[j])
    PROVE  Paired(its \o what, fxs)
<1> DEFINE all == its \o what  n == Len(its)  f == FragOf(all)  p == PlaceOf(all)
<1>1. /\ Len(all) = n + Len(what) /\ n \in Nat /\ Len(what) \in Nat
      /\ \A k \in 1..n : all[k] = its[k]
      /\ \A j \in 1..Len(what) : all[n + j] = what[j]
    BY ContinuesIs DEF Continues
<1>2. ASSUME NEW k \in 1..n PROVE f[k] = FragOf(its)[k] /\ p[k] = PlaceOf(its)[k]
    <2>1. k \in 1..Len(its) + 1
        BY <1>1
    <2>2. QED BY <2>1, SpotsKept
<1> HIDE DEF all, n, f, p
<1>3. ASSUME NEW m \in 1..Len(fxs)
      PROVE  \E k \in 1..Len(all) : Asked(fxs[m], all[k], f[k], p[k])
    <2>1. PICK k \in 1..n : Asked(fxs[m], its[k], FragOf(its)[k], PlaceOf(its)[k])
        BY DEF Paired, n
    <2>2. k \in 1..Len(all) /\ all[k] = its[k] /\ f[k] = FragOf(its)[k] /\ p[k] = PlaceOf(its)[k]
        BY <1>1, <1>2
    <2>3. QED BY <2>1, <2>2
<1>4. ASSUME NEW k \in 1..Len(all), Fielded(all[k])
      PROVE  \E m \in 1..Len(fxs) : Asked(fxs[m], all[k], f[k], p[k])
    <2>1. k \in 1..n
        <3>1. SUFFICES ASSUME k > n PROVE FALSE
            BY <1>1
        <3> DEFINE j == k - n
        <3>2. j \in 1..Len(what) /\ k = n + j
            BY <1>1, <3>1
        <3> HIDE DEF j
        <3>3. all[k] = what[j]
            BY <1>1, <3>2
        <3>4. QED BY <1>4, <3>2, <3>3
    <2>2. all[k] = its[k] /\ f[k] = FragOf(its)[k] /\ p[k] = PlaceOf(its)[k]
        BY <1>1, <1>2, <2>1
    <2>3. QED BY <1>4, <2>1, <2>2 DEF Paired, n
<1>5. Paired(all, fxs)
    BY <1>3, <1>4 DEF Paired, f, p
<1>6. QED BY <1>5 DEF all

\* The branches are in their frags with what they refer to.
AimedAt(f, it) == f.sym = it.term.sym /\ f.off = IntOf(it.term.add) /\ f.op = it.op
Aimed(its, frs) == \A k \in 1..Len(its) : IsBranch(its[k]) => AimedAt(frs[FragOf(its)[k]], its[k])

LEMMA AimedGrows ==
    ASSUME NEW d, NEW its \in Seq(Items), NEW what \in Seq(Items), NEW frs, InPlace(its, frs, d),
           Len(frs) \in Nat, frs[Len(frs)].type # "machine", Aimed(its, frs), NEW gs, SameFront(frs, gs),
           \A j \in 1..Len(what) : IsBranch(what[j]) =>
             AimedAt(gs[FragOf(its \o what)[Len(its) + j]], what[j])
    PROVE  Aimed(its \o what, gs)
<1> DEFINE all == its \o what  n == Len(its)  f == FragOf(all)
<1>1. /\ Len(all) = n + Len(what) /\ n \in Nat /\ Len(what) \in Nat
      /\ \A k \in 1..n : all[k] = its[k]
      /\ \A j \in 1..Len(what) : all[n + j] = what[j]
    BY ContinuesIs DEF Continues
<1>2. ASSUME NEW k \in 1..n PROVE f[k] = FragOf(its)[k]
    <2>1. k \in 1..Len(its) + 1
        BY <1>1
    <2>2. QED BY <2>1, SpotsKept
<1>3. \A j \in 1..Len(what) : IsBranch(what[j]) => AimedAt(gs[f[n + j]], what[j])
    OBVIOUS
<1> HIDE DEF all, n, f
<1>4. ASSUME NEW k \in 1..Len(all), IsBranch(all[k]) PROVE AimedAt(gs[f[k]], all[k])
    <2>1. CASE k <= n
        <3>1. k \in 1..n /\ all[k] = its[k] /\ f[k] = FragOf(its)[k]
            BY <1>1, <1>2, <2>1
        <3> DEFINE i == FragOf(its)[k]
        <3>2. i \in 1..Len(frs) /\ frs[i].type = "machine" /\ AimedAt(frs[i], its[k])
            BY <1>4, <3>1 DEF InPlace, InFrag, Aimed, n
        <3> HIDE DEF i
        <3>3. i \in 1..Len(frs) - 1
            BY <3>2
        <3>4. gs[i] = frs[i]
            BY <3>3 DEF SameFront
        <3>5. QED BY <3>1, <3>2, <3>4 DEF i
    <2>2. CASE k > n
        <3> DEFINE j == k - n
        <3>1. j \in 1..Len(what) /\ k = n + j
            BY <1>1, <2>2
        <3> HIDE DEF j
        <3>2. all[k] = what[j]
            BY <1>1, <3>1
        <3>3. QED BY <1>3, <1>4, <3>1, <3>2
    <2>3. QED BY <1>1, <2>1, <2>2
<1>5. Aimed(all, gs)
    BY <1>4 DEF Aimed, f
<1>6. QED BY <1>5 DEF all

\* What is kept while the text is read and the branches relax.
Pairs == Paired(items, fixes) /\ Aimed(items, frags)

\* The frag that is being written.
LEMMA WritingFrag ==
    ASSUME Types, phase = "parse", Reads(FALSE)
    PROVE  /\ items \in Seq(Items) /\ fixes \in Seq(Fixups) /\ FragsOK(frags)
           /\ InPlace(items, frags, FALSE) /\ Len(frags) \in 1..Len(frags) /\ Len(frags) \in Nat
           /\ Last(frags).type \in {"fill", "unset"} /\ Last(frags) = frags[Len(frags)]
           /\ frags[Len(frags)].type # "machine" /\ FixSize(frags[Len(frags)]) \in Nat
           /\ FragNow(frags) = Len(frags) /\ FragNowFix(frags) = FixSize(frags[Len(frags)])
           /\ \A i \in 1..Len(fixes) : FixIn(fixes[i], frags)
<1>1. /\ Last(frags).type \in {"fill", "unset"} /\ Last(frags) \in FragRecords
      /\ Last(frags) = frags[Len(frags)] /\ Len(frags) \in 1..Len(frags)
    BY OpenFrag
<1>2. FixSize(Last(frags)) \in Nat /\ FixSize(Last(frags)) = Len(Last(frags).lit)
    BY <1>1, LitOf
<1>3. FragsOK(frags) /\ fixes \in Seq(Fixups) /\ Len(frags) \in Nat
    BY Reading
<1>4. items \in Seq(Items) /\ \A i \in 1..Len(fixes) : FixIn(fixes[i], frags)
    BY DEF Types, ItemsOK, FixesOK
<1>5. InPlace(items, frags, FALSE)
    BY DEF Reads, Sited
<1>6. QED BY <1>1, <1>2, <1>3, <1>4, <1>5 DEF FragNow, FragNowFix

\* Items that refer to nothing.
LEMMA QuietPairs ==
    ASSUME Types, phase = "parse", Reads(FALSE), Pairs, NEW what \in Seq(Items),
           \A j \in 1..Len(what) : ~ Refers(what[j]),
           items' = items \o what, fixes' = fixes, SameFront(frags, frags')
    PROVE  Pairs'
<1>1. /\ items \in Seq(Items) /\ InPlace(items, frags, FALSE) /\ Len(frags) \in Nat
      /\ frags[Len(frags)].type # "machine"
    BY WritingFrag
<1>2. Paired(items, fixes) /\ Aimed(items, frags)
    BY DEF Pairs
<1>3. \A j \in 1..Len(what) : ~ Fielded(what[j]) /\ ~ IsBranch(what[j])
    BY DEF Refers
<1>4. Paired(items \o what, fixes)
    BY <1>1, <1>2, <1>3, PairedSame
<1>5. Aimed(items \o what, frags')
    BY <1>1, <1>2, <1>3, AimedGrows
<1>6. QED BY <1>4, <1>5 DEF Pairs

LEMMA StillPairs ==
    ASSUME Types, phase = "parse", Reads(FALSE), Pairs, NEW what, MuteStep(what, TRUE)
    PROVE  Pairs'
<1>1. /\ what \in Seq(Items) /\ items' = items \o what
      /\ (\A j \in 1..Len(what) : ~ Refers(what[j])) /\ fixes' = fixes /\ SameFront(frags, frags')
    BY DEF MuteStep
<1>2. QED BY <1>1, QuietPairs

LEMMA OnePairs ==
    ASSUME Types, phase = "parse", Reads(FALSE), Pairs, NEW it \in Items,
           it.kind \in {"label", "equ", "fault"}, items' = items \o <<it>>, UNCHANGED <<frags, fixes>>
    PROVE  Pairs'
<1> DEFINE w == <<it>>
<1>1. w \in Seq(Items) /\ Len(w) = 1 /\ w[1] = it
    BY SingleTyped
<1>2. ~ Refers(it)
    BY DEF Refers, Fielded, IsBranch
<1>3. items' = items \o w
    OBVIOUS
<1> HIDE DEF w
<1>4. \A j \in 1..Len(w) : ~ Refers(w[j])
    BY <1>1, <1>2
<1>5. SameFront(frags, frags')
    BY DEF SameFront
<1>6. QED BY <1>1, <1>3, <1>4, <1>5, QuietPairs

\* Bytes with new fixups.
LEMMA EmitsPairs ==
    ASSUME Types, phase = "parse", Reads(FALSE), Pairs, NEW b \in Seq(Byte), NEW what \in Seq(Items),
           NEW at, Tiles(what, b, at, FALSE), Emits(b, what),
           NEW z, z = FixSize(frags[Len(frags)]), NEW nf \in Seq(Fixups), Distinct(nf),
           \A m \in 1..Len(nf) : \E j \in 1..Len(what) :
             Asked(nf[m], what[j], Len(frags), z + at[j]),
           \A j \in 1..Len(what) : Fielded(what[j]) =>
             \E m \in 1..Len(nf) : Asked(nf[m], what[j], Len(frags), z + at[j]),
           fixes' = fixes \o nf
    PROVE  Pairs'
<1>1. /\ items \in Seq(Items) /\ InPlace(items, frags, FALSE) /\ Len(frags) \in Nat
      /\ frags[Len(frags)].type # "machine" /\ z \in Nat /\ fixes \in Seq(Fixups)
      /\ \A i \in 1..Len(fixes) : FixIn(fixes[i], frags)
    BY WritingFrag
<1>2. Paired(items, fixes) /\ Aimed(items, frags)
    BY DEF Pairs
<1>3. \A j \in 1..Len(what) : ~ IsBranch(what[j])
    BY DEF Tiles, Shuts
<1>4. SameFront(frags, frags') /\ items' = items \o what
    BY MoreFront DEF Emits, Handled
<1>5. Paired(items \o what, fixes \o nf)
    BY <1>1, <1>2, PairedGrows
<1>6. Aimed(items \o what, frags')
    BY <1>1, <1>2, <1>3, <1>4, AimedGrows
<1>7. QED BY <1>4, <1>5, <1>6 DEF Pairs

LEMMA FaultPairs ==
    ASSUME Types, phase = "parse", Reads(FALSE), Pairs, GasError \/ Rejected
    PROVE  Pairs'
BY MuteFaults, StillPairs

LEMMA TimesDiffer ==
    ASSUME NEW w \in Widths, NEW j \in Nat, NEW k \in Nat, j # k
    PROVE  w * (j - 1) # w * (k - 1)
<1>1. CASE w = 1
    BY <1>1
<1>2. CASE w = 2
    BY <1>2
<1>3. CASE w = 4
    BY <1>3
<1>4. CASE w = 8
    BY <1>4
<1>5. QED BY <1>1, <1>2, <1>3, <1>4 DEF Widths

\* A list of data: a fixup for every name in it.
LEMMA ConsListPairs ==
    ASSUME Types, Reads(FALSE), Pairs, ConsList
    PROVE  Pairs'
<1> DEFINE w  == DataWidth(Directive)
           os == Commas(Args)
           es == [k \in DOMAIN os |-> Expression(os[k])]
           at(k) == FragNowFix(frags) + w * (k - 1)
           ps == [k \in DOMAIN os |-> Cons1(w, es[k])]
           fx(k) == Fix(FragNow(frags), at(k), DataForm(w), es[k])
           one(k) == IF es[k].sym = NoSym THEN <<>> ELSE <<fx(k)>>
           n == Len(os)
           what == Data(w, os)
           z == FixSize(frags[Len(frags)])
<1>1. phase = "parse" /\ Directive \in DataDirectives
    BY DEF ConsList, At
<1>2. \/ GasError
      \/ /\ \A k \in DOMAIN os : IsExpression(os[k])
         /\ Emits(FlattenSeq(ps), what)
         /\ fixes' = fixes \o FlattenSeq([k \in DOMAIN os |-> one(k)])
    BY DEF ConsList
<1>3. CASE GasError
    BY <1>1, <1>3, FaultPairs
<1>4. CASE /\ \A k \in DOMAIN os : IsExpression(os[k])
           /\ Emits(FlattenSeq(ps), what)
           /\ fixes' = fixes \o FlattenSeq([k \in DOMAIN os |-> one(k)])
    <2>1. w \in Widths /\ Args \in Seq(Tokens) /\ SymsTyped
        BY <1>1, DirectiveWidth, Reading
    <2>2. os \in Seq(Seq(Tokens))
        BY <2>1, CommasTyped
    <2>3. DOMAIN os = 1..n /\ n \in Nat
        BY <2>2
    <2>4. /\ what \in Seq(Items) /\ Len(what) = n
          /\ \A k \in 1..n : what[k] = Datum(w, Expression(os[k])) /\ Expression(os[k]) \in Terms
        BY <1>4, <2>1, <2>2, <2>3, DataTyped
    <2>5. \A k \in 1..n : es[k] \in Terms /\ what[k] = Datum(w, es[k]) /\ ps[k] = Cons1(w, es[k])
        BY <2>3, <2>4
    <2>6. ps \in [1..n -> Seq(Byte)] /\ \A k \in 1..n : Len(ps[k]) = w
        <3> HIDE DEF w, os, es
        <3>1. \A k \in 1..n : Cons1(w, es[k]) \in Seq(Byte) /\ Len(Cons1(w, es[k])) = w
            BY <2>1, ConsTyped
        <3>2. QED BY <2>3, <3>1
    <2> DEFINE b == FlattenSeq(ps)  t == [j \in 1..n + 1 |-> w * (j - 1)]
               keep == {k \in 1..n : es[k].sym # NoSym}  x == [k \in 1..n |-> fx(k)]
               qs == [k \in 1..n |-> IF k \in keep THEN <<x[k]>> ELSE <<>>]
    <2>7. Emits(b, what)
        BY <1>4
    <2>8. fixes' = fixes \o FlattenSeq(qs)
        <3>1. [k \in DOMAIN os |-> one(k)] = qs
            <4> HIDE DEF os, es, n, fx
            <4>1. DOMAIN os = 1..n
                BY <2>3
            <4>2. ASSUME NEW k \in 1..n
                  PROVE  one(k) = IF k \in keep THEN <<x[k]>> ELSE <<>>
                OBVIOUS
            <4>3. QED BY <4>1, <4>2
        <3>2. QED BY <1>4, <3>1
    <2>9. z \in Nat /\ FragNow(frags) = Len(frags) /\ FragNowFix(frags) = z /\ Len(frags) \in Nat
        BY <1>1, WritingFrag
    <2> HIDE DEF w, os, es, n, what, ps, z
    <2>10. ASSUME NEW k \in 1..n
           PROVE  /\ ~ Shuts(what[k]) /\ Fixed(what[k]) = w /\ Len(ps[k]) = w
                  /\ ~ Written(what[k], FALSE)
                  /\ Fielded(what[k]) <=> k \in keep
                  /\ FormOf(what[k]) = DataForm(w) /\ what[k].term = es[k]
        <3>1. es[k] \in Terms /\ what[k] = Datum(w, es[k])
            BY <2>5
        <3> DEFINE e == es[k]
        <3> HIDE DEF e
        <3>2. /\ ~ Shuts(what[k]) /\ Fixed(what[k]) = w
              /\ ~ Written(what[k], FALSE)
              /\ Fielded(what[k]) <=> e.sym # NoSym
              /\ FormOf(what[k]) = DataForm(w)
            BY <2>1, <3>1, DatumIs DEF e
        <3>3. what[k].term = e
            BY <3>1 DEF Datum, e
        <3>4. QED BY <2>6, <3>2, <3>3 DEF e
    <2>11. /\ Tiles(what, b, t, FALSE) /\ b \in Seq(Byte) /\ \A j \in 1..n : w * (j - 1) \in Nat
        <3>1. ps \in [1..Len(what) -> Seq(Byte)]
            BY <2>4, <2>6
        <3>2. \A k \in 1..Len(what) : /\ ~ Shuts(what[k]) /\ Fixed(what[k]) = w /\ Len(ps[k]) = w
                                      /\ Written(what[k], FALSE) => ps[k] = Stored(what[k])
            BY <2>4, <2>10
        <3>3. /\ Tiles(what, FlattenSeq(ps), [j \in 1..Len(what) + 1 |-> w * (j - 1)], FALSE)
              /\ FlattenSeq(ps) \in Seq(Byte) /\ \A j \in 1..Len(what) : w * (j - 1) \in Nat
            BY <2>1, <2>4, <3>1, <3>2, EvenTiles
        <3>4. QED BY <2>4, <3>3
    <2>12. \A k \in 1..n : t[k] = w * (k - 1)
        BY <2>3
    <2> HIDE DEF t, b, keep
    <2>13. ASSUME NEW k \in 1..n
           PROVE  /\ x[k] \in Fixups /\ x[k].where = z + t[k]
                  /\ k \in keep => Asked(x[k], what[k], Len(frags), z + t[k])
        <3> DEFINE e == es[k]  p == w * (k - 1)
        <3>1. e \in Terms /\ p \in Nat /\ t[k] = p
            BY <2>5, <2>11, <2>12
        <3>2. DataForm(w) \in FixForms
            BY <2>1, DataFormTyped
        <3>3. x[k] = Fix(Len(frags), z + p, DataForm(w), e)
            BY <2>9
        <3> HIDE DEF e, p, x
        <3>4. z + p \in Nat
            BY <2>9, <3>1
        <3> DEFINE q == z + p
        <3>5. q \in Nat /\ x[k] = Fix(Len(frags), q, DataForm(w), e)
            BY <3>3, <3>4
        <3> HIDE DEF q
        <3>6. x[k] \in Fixups /\ x[k].frag = Len(frags) /\ x[k].where = q
            BY <2>9, <3>1, <3>2, <3>5, FixTyped
        <3>7. x[k].form = DataForm(w) /\ x[k].sym = e.sym /\ x[k].add = e.add
            BY <3>5 DEF Fix
        <3>8. k \in keep => Asked(x[k], what[k], Len(frags), q)
            BY <2>10, <3>6, <3>7 DEF Asked, e
        <3>9. z + t[k] = q
            BY <3>1 DEF q
        <3>10. QED BY <3>6, <3>8, <3>9
    <2> HIDE DEF x
    <2> DEFINE nf == FlattenSeq(qs)
    <2>14. Chosen(Fixups, n, keep, x, nf)
        <3>1. keep \in SUBSET (1..n) /\ n \in Nat
            BY <2>3 DEF keep
        <3>2. \A k \in keep : x[k] \in Fixups
            BY <2>13, <3>1
        <3> HIDE DEF nf
        <3>3. QED BY <3>1, <3>2, ChosenList DEF nf
    <2> HIDE DEF qs
    <2>15. fixes' = fixes \o nf
        BY <2>8
    <2> HIDE DEF nf
    <2>16. nf \in Seq(Fixups)
        BY <2>14 DEF Chosen
    <2>17. keep \subseteq 1..n
        BY DEF keep
    <2>18. \A m \in 1..Len(nf) : \E j \in 1..Len(what) : Asked(nf[m], what[j], Len(frags), z + t[j])
        <3>1. ASSUME NEW m \in 1..Len(nf)
              PROVE  \E j \in 1..Len(what) : Asked(nf[m], what[j], Len(frags), z + t[j])
            <4>1. PICK k \in keep : nf[m] = x[k]
                BY <2>14 DEF Chosen
            <4>2. k \in 1..Len(what) /\ Asked(x[k], what[k], Len(frags), z + t[k])
                BY <2>4, <2>13, <2>17
            <4>3. QED BY <4>1, <4>2
        <3>2. QED BY <3>1
    <2>19. \A j \in 1..Len(what) : Fielded(what[j]) =>
             \E m \in 1..Len(nf) : Asked(nf[m], what[j], Len(frags), z + t[j])
        <3>1. ASSUME NEW j \in 1..Len(what), Fielded(what[j])
              PROVE  \E m \in 1..Len(nf) : Asked(nf[m], what[j], Len(frags), z + t[j])
            <4>1. j \in 1..n /\ j \in keep
                BY <2>4, <2>10, <3>1
            <4>2. PICK m \in 1..Len(nf) : nf[m] = x[j]
                BY <2>14, <4>1 DEF Chosen
            <4>3. Asked(x[j], what[j], Len(frags), z + t[j])
                BY <2>13, <4>1
            <4>4. QED BY <4>2, <4>3
        <3>2. QED BY <3>1
    <2>20. ASSUME NEW l \in 1..Len(nf), NEW m \in 1..Len(nf), l # m
           PROVE  nf[l].where # nf[m].where
        <3>1. PICK j \in keep, k \in keep : j # k /\ nf[l] = x[j] /\ nf[m] = x[k]
            BY <2>14, <2>20 DEF Chosen
        <3>2. j \in 1..n /\ k \in 1..n
            BY <2>17
        <3> DEFINE p == w * (j - 1)  q == w * (k - 1)
        <3>3. p # q /\ p \in Nat /\ q \in Nat
            <4>1. j \in Nat /\ k \in Nat
                BY <2>3, <3>2
            <4>2. p # q
                BY <2>1, <3>1, <4>1, TimesDiffer
            <4>3. QED BY <2>11, <3>2, <4>2
        <3>4. t[j] = p /\ t[k] = q
            BY <2>12, <3>2
        <3> HIDE DEF p, q
        <3>5. nf[l].where = z + p /\ nf[m].where = z + q
            BY <2>13, <3>1, <3>2, <3>4
        <3>6. QED BY <2>9, <3>3, <3>5
    <2>21. Distinct(nf)
        BY <2>20 DEF Distinct
    <2>22. QED BY <1>1, <2>4, <2>7, <2>11, <2>15, <2>16, <2>18, <2>19, <2>21, EmitsPairs DEF z
<1>5. QED BY <1>2, <1>3, <1>4

LEMMA FieldPairs ==
    ASSUME Types, phase = "parse", Reads(FALSE), Pairs, NEW m \in DOMAIN Insns \ (Simple \cup Branches),
           NEW e \in Terms, NEW what \in Items, what.kind = "insn", what.op = m, what.term = e,
           fixes' = Append(fixes, Fix(FragNow(frags), FragNowFix(frags), Insns[m].form, e)),
           Emits(Insns[m].bytes, <<what>>)
    PROVE  Pairs'
<1> DEFINE b == Insns[m].bytes  w == <<what>>  z == FixSize(frags[Len(frags)])
           fx == Fix(Len(frags), z, Insns[m].form, e)  nf == <<fx>>
<1>1. b \in Seq(Byte) /\ Insns[m].form \in FixForms
    BY InsnIs
<1>2. /\ ~ Shuts(what) /\ Fixed(what) = Len(b) /\ Stored(what) = b /\ Fielded(what)
      /\ FormOf(what) = Insns[m].form
    BY DEF Shuts, IsBranch, Fixed, Stored, Fielded, FormOf
<1> HIDE DEF b
<1>3. w \in Seq(Items) /\ Len(w) = 1 /\ w[1] = what /\ \E at : Tiles(w, b, at, FALSE) /\ at[1] = 0
    BY ZenonT(60), <1>1, <1>2, TileOne
<1>4. PICK at : Tiles(w, b, at, FALSE) /\ at[1] = 0
    BY <1>3
<1>5. /\ z \in Nat /\ FragNow(frags) = Len(frags) /\ FragNowFix(frags) = z /\ Len(frags) \in Nat
      /\ fixes \in Seq(Fixups)
    BY WritingFrag
<1> HIDE DEF z
<1>6. fx \in Fixups /\ fx.frag = Len(frags) /\ fx.where = z
    BY <1>1, <1>5, FixTyped
<1>7. fx.form = Insns[m].form /\ fx.sym = e.sym /\ fx.add = e.add
    BY DEF Fix
<1>8. fixes' = Append(fixes, fx) /\ Emits(b, w)
    BY <1>5 DEF b
<1> HIDE DEF fx, w
<1>9. Asked(fx, w[1], Len(frags), z + at[1])
    BY <1>2, <1>3, <1>4, <1>5, <1>6, <1>7 DEF Asked
<1>10. nf \in Seq(Fixups) /\ Len(nf) = 1 /\ nf[1] = fx
    BY <1>6, SingleTyped
<1>11. fixes' = fixes \o nf
    <2>1. Append(fixes, fx) = fixes \o <<fx>>
        BY <1>5, <1>6
    <2>2. QED BY <1>8, <2>1
<1> HIDE DEF nf
<1>12. \A k \in 1..Len(nf) : \E j \in 1..Len(w) : Asked(nf[k], w[j], Len(frags), z + at[j])
    BY <1>3, <1>9, <1>10
<1>13. \A j \in 1..Len(w) : Fielded(w[j]) =>
         \E k \in 1..Len(nf) : Asked(nf[k], w[j], Len(frags), z + at[j])
    BY <1>3, <1>9, <1>10
<1>14. Distinct(nf)
    BY <1>10 DEF Distinct
<1>15. QED BY <1>1, <1>3, <1>4, <1>8, <1>10, <1>11, <1>12, <1>13, <1>14, EmitsPairs DEF z

LEMMA BranchPairs ==
    ASSUME Types, phase = "parse", Reads(FALSE), Pairs, NEW m \in Branches, NEW e \in Terms,
           LET i == Insns[m]
               opened == FragMore(frags, SubSeq(i.opcode[i.sub], 1, OpcodeBytes))
           IN frags' = FragVar(opened, [Last(opened) EXCEPT
                         !.type = "machine", !.sub = i.sub, !.op = m, !.sym = e.sym,
                         !.off = IntOf(e.add)]),
           Handled(<<[kind |-> "insn", op |-> m, term |-> e, frag |-> FragNow(frags)]>>),
           UNCHANGED fixes
    PROVE  Pairs'
<1> DEFINE i == Insns[m]  two == SubSeq(i.opcode[i.sub], 1, OpcodeBytes)
           opened == FragMore(frags, two)
           closed == [Last(opened) EXCEPT !.type = "machine", !.sub = i.sub, !.op = m,
                                          !.sym = e.sym, !.off = IntOf(e.add)]
           what == [kind |-> "insn", op |-> m, term |-> e, frag |-> FragNow(frags)]
           w == <<what>>  n == Len(frags)
<1>1. /\ items \in Seq(Items) /\ InPlace(items, frags, FALSE) /\ n \in 1..n /\ n \in Nat
      /\ frags[n].type # "machine" /\ FragsOK(frags) /\ FragNow(frags) = n
      /\ Last(frags).type \in {"fill", "unset"}
    BY WritingFrag
<1>2. two \in Seq(Byte)
    <2> DEFINE op == i.opcode[i.sub]
    <2>1. op \in Seq(Byte) /\ Len(op) >= 2
        BY InsnIs DEF OpcodeBytes
    <2> HIDE DEF op
    <2>2. SubSeq(op, 1, 2) \in Seq(Byte)
        BY <2>1
    <2>3. QED BY <2>2 DEF op, OpcodeBytes
<1> HIDE DEF two
<1>3. Last(opened) \in FragRecords
    <2>1. FragsOK(opened)
        BY <1>1, <1>2, FragMoreTyped
    <2>2. QED BY <2>1, LastFrag DEF FragOK
<1>4. frags' = FragVar(frags, closed)
    <2>1. frags' = FragVar(opened, closed)
        BY DEF opened, closed, two
    <2>2. FragVar(FragMore(frags, two), closed) = FragVar(frags, closed)
        BY <1>1, FragVarAfterMore
    <2>3. QED BY <2>1, <2>2 DEF opened
<1> HIDE DEF opened
<1>5. closed.sym = e.sym /\ closed.off = IntOf(e.add) /\ closed.op = m
    BY <1>3 DEF FragRecords
<1> HIDE DEF closed
<1>6. /\ what \in Items /\ what.kind = "insn" /\ what.op = m /\ what.term = e
    <2>1. m \in DOMAIN Insns \ Simple /\ FragNow(frags) \in Nat
        BY <1>1 DEF Branches, Simple
    <2>2. QED BY <2>1 DEF Items
<1>7. items' = items \o w /\ fixes' = fixes
    BY DEF Handled
<1> HIDE DEF what
<1>8. w \in Seq(Items) /\ Len(w) = 1 /\ w[1] = what
    BY <1>6, SingleTyped
<1> HIDE DEF w
<1>9. ~ Fielded(what) /\ AimedAt(closed, what)
    BY <1>5, <1>6 DEF Fielded, AimedAt
<1>10. SameFront(frags, frags') /\ frags'[n] = closed
    <2> DEFINE gs == [frags EXCEPT ![n] = closed]  u == NewFrag("unset")
    <2>1. frags' = Append(gs, u)
        BY <1>4 DEF FragVar
    <2>2. frags \in Seq(FragRecords)
        BY <1>1 DEF FragsOK
    <2>3. /\ DOMAIN gs = 1..n /\ gs[n] = closed /\ \A j \in 1..n - 1 : gs[j] = frags[j]
        <3> HIDE DEF n
        <3>1. DOMAIN frags = 1..n
            BY <2>2 DEF n
        <3>2. QED BY <1>1, <3>1
    <2>4. Len(gs) = n
        BY <1>1, <2>3, <2>2
    <2> HIDE DEF gs, u, n
    <2>5. \A j \in 1..n : Append(gs, u)[j] = gs[j]
        BY <1>1, <2>3, <2>4
    <2>6. \A j \in 1..n - 1 : frags'[j] = frags[j]
        <3>1. \A j \in 1..n - 1 : j \in 1..n
            BY <1>1
        <3>2. QED BY <2>1, <2>3, <2>5, <3>1
    <2>7. frags'[n] = closed
        BY <1>1, <2>1, <2>3, <2>5
    <2>8. QED BY <2>6, <2>7 DEF SameFront, n
<1>11. Paired(items, fixes) /\ Aimed(items, frags)
    BY DEF Pairs
<1>12. \A j \in 1..Len(w) : w[j] = what
    BY <1>8
<1>13. Paired(items \o w, fixes)
    BY <1>1, <1>8, <1>9, <1>11, <1>12, PairedSame
<1>14. FragOf(items \o w)[Len(items) + 1] = n
    <2>1. Len(items) + 1 \in 1..Len(items) + 1
        BY <1>1
    <2>2. FragOf(items \o w)[Len(items) + 1] = FragOf(items)[Len(items) + 1]
        BY <1>1, <1>8, <2>1, SpotsKept
    <2>3. QED BY <1>1, <2>2 DEF InPlace
<1>15. \A j \in 1..Len(w) : AimedAt(frags'[FragOf(items \o w)[Len(items) + j]], w[j])
    <2>1. \A j \in 1..Len(w) : j = 1
        BY <1>8
    <2>2. QED BY <1>8, <1>9, <1>10, <1>14, <2>1
<1>16. Aimed(items \o w, frags')
    BY <1>1, <1>8, <1>10, <1>11, <1>15, AimedGrows
<1>17. QED BY <1>7, <1>13, <1>16 DEF Pairs

LEMMA InstructionPairs ==
    ASSUME Types, Reads(FALSE), Pairs, Instruction
    PROVE  Pairs'
<1> DEFINE m == line[1]  i == Insns[m]  e == Expression(Operand)
           what == [kind |-> "insn", op |-> m, term |-> e, frag |-> FragNow(frags)]
           opened == FragMore(frags, SubSeq(i.opcode[i.sub], 1, OpcodeBytes))
<1>1. phase = "parse" /\ line # <<>>
    BY DEF Instruction
<1>2. CASE GasError
    BY <1>1, <1>2, FaultPairs
<1>3. CASE m \in Simple /\ Emits(i.bytes, <<Bytes(i.bytes)>>) /\ UNCHANGED fixes
    <2>1. i.bytes \in Seq(Byte)
        BY <1>3, InsnIs
    <2> DEFINE b == i.bytes
    <2>2. b \in Seq(Byte) /\ Emits(b, <<Bytes(b)>>)
        BY <1>3, <2>1
    <2> HIDE DEF b
    <2>3. \E w : MuteStep(w, TRUE)
        BY <1>1, <1>3, <2>2, MuteBytes
    <2>4. QED BY <1>1, <2>3, StillPairs
<1>4. CASE /\ Readable(m) /\ m \notin Simple \cup Branches
           /\ fixes' = Append(fixes, Fix(FragNow(frags), FragNowFix(frags), i.form, e))
           /\ Emits(i.bytes, <<[what EXCEPT !.term = e]>>)
    <2>1. e \in Terms
        BY <1>1, <1>4, OperandTyped
    <2>2. m \in DOMAIN Insns \ (Simple \cup Branches)
        BY <1>4 DEF Readable
    <2>3. [what EXCEPT !.term = e] = what
        OBVIOUS
    <2>4. what \in Items /\ what.kind = "insn" /\ what.op = m /\ what.term = e
        <3>1. FragNow(frags) \in Nat
            BY <1>1, Reading DEF FragNow
        <3> HIDE DEF e, m
        <3>2. QED BY <2>1, <2>2, <3>1 DEF Items
    <2> HIDE DEF m, e, what
    <2>5. QED BY <1>1, <1>4, <2>1, <2>2, <2>3, <2>4, FieldPairs
<1>5. CASE /\ Readable(m) /\ m \in Branches
           /\ frags' = FragVar(opened, [Last(opened) EXCEPT
                    !.type = "machine", !.sub = i.sub, !.op = m, !.sym = e.sym,
                    !.off = IntOf(e.add)])
           /\ Handled(<<what>>)
           /\ UNCHANGED <<syms, fixes, errors, dirErr, secViol>>
    <2>1. m \notin Simple
        BY <1>5, InsnIs
    <2>2. e \in Terms
        BY <1>1, <1>5, <2>1, OperandTyped
    <2> HIDE DEF m, e
    <2>3. QED BY <1>1, <1>5, <2>2, BranchPairs
<1>6. QED BY <1>2, <1>3, <1>4, <1>5 DEF Instruction

\* Labels and .equ.
LEMMA NamePairs ==
    ASSUME Types, Reads(FALSE), Pairs, Label \/ Equ
    PROVE  Pairs'
<1>1. CASE Label
    <2>1. phase = "parse" /\ UNCHANGED <<frags, fixes>>
        BY <1>1 DEF Label
    <2>2. PICK s \in Symbols : items' = Append(items, [kind |-> "label", sym |-> s])
        <3>1. CASE line[1] \in Names /\ ColonDefines(Sym(line[1]))
            <4>1. Sym(line[1]) \in Symbols
                BY <3>1, NameTypes DEF Symbols, Sym
            <4>2. QED BY <3>1, <4>1 DEF ColonDefines
        <3>2. CASE /\ line[1] \in Locals /\ locals' = [locals EXCEPT ![line[1]] = @ + 1]
                   /\ ColonDefines(<<line[1], locals'[line[1]]>>)
            <4>1. locals \in [Locals -> Nat]
                BY DEF Types, SymbolsOK, SymsTyped
            <4>2. locals'[line[1]] \in Nat
                BY <3>2, <4>1
            <4>3. <<line[1], locals'[line[1]]>> \in Symbols
                BY <3>2, <4>2 DEF Symbols
            <4>4. QED BY <3>2, <4>3 DEF ColonDefines
        <3>3. QED BY <1>1, <3>1, <3>2 DEF Label
    <2> DEFINE it == [kind |-> "label", sym |-> s]
    <2>3. it \in Items /\ it.kind = "label"
        BY DEF Items
    <2>4. items \in Seq(Items) /\ items' = Append(items, it)
        BY <2>2 DEF Types, ItemsOK
    <2> HIDE DEF it
    <2>5. items' = items \o <<it>>
        BY <2>3, <2>4
    <2>6. QED BY <2>1, <2>3, <2>5, OnePairs
<1>2. CASE Equ
    <2> DEFINE o == Commas(Args)  s == Sym(o[1][1])  e == Expression(o[2])
    <2>1. phase = "parse"
        BY <1>2 DEF Equ, At
    <2>2. CASE Rejected \/ GasError
        BY <2>1, <2>2, FaultPairs
    <2>3. CASE Len(o) > 1 /\ o[1] # <<>> /\ o[2] # <<>> /\ IsExpression(o[2])
               /\ Handled(<<[kind |-> "equ", sym |-> s, term |-> e]>>)
               /\ UNCHANGED <<frags, fixes>>
        <3>1. Args \in Seq(Tokens) /\ SymsTyped
            BY <2>1, Reading
        <3>2. o \in Seq(Seq(Tokens))
            BY <3>1, CommasTyped
        <3>3. o[1] \in Seq(Tokens) /\ o[2] \in Seq(Tokens) /\ o[1] # <<>>
            BY <2>3, <3>2
        <3>4. o[1][1] \in Tokens
            <4> DEFINE u == o[1]
            <4>1. u \in Seq(Tokens) /\ u # <<>>
                BY <3>3
            <4> HIDE DEF u
            <4>2. u[1] \in Tokens
                BY <4>1
            <4>3. QED BY <4>2 DEF u
        <3>5. s \in Symbols
            BY <3>4 DEF Symbols, Sym
        <3>6. e \in Terms
            BY <2>3, <3>1, <3>3, ExpressionTyped
        <3> HIDE DEF s, e, o
        <3> DEFINE it == [kind |-> "equ", sym |-> s, term |-> e]
        <3>7. it \in Items /\ it.kind = "equ"
            BY <3>5, <3>6 DEF Items
        <3>8. items' = items \o <<it>>
            BY <2>3 DEF Handled
        <3> HIDE DEF it
        <3>9. QED BY <2>1, <2>3, <3>7, <3>8, OnePairs
    <2>4. QED BY <1>2, <2>2, <2>3 DEF Equ
<1>3. QED BY <1>1, <1>2

\* The passes that follow keep what a branch refers to.
SameAim(f, g) == g.sym = f.sym /\ g.off = f.off /\ g.op = f.op

LEMMA SamePairs ==
    ASSUME Types, Reads(FALSE), Pairs, UNCHANGED <<items, fixes>>,
           \A i \in 1..Len(frags) : SameAim(frags[i], frags'[i])
    PROVE  Pairs'
<1>1. Paired(items, fixes) /\ Aimed(items, frags) /\ InPlace(items, frags, FALSE)
    BY DEF Pairs, Reads, Sited
<1>2. Aimed(items, frags')
    BY <1>1 DEF Aimed, AimedAt, SameAim, InPlace
<1>3. QED BY <1>1, <1>2 DEF Pairs

LEMMA RelaxPairs ==
    ASSUME Types, Reads(FALSE), Pairs, RelaxBranches \/ RelaxSegment \/ DefineLabels
    PROVE  Pairs'
<1>1. /\ frags \in Seq(FragRecords) /\ DOMAIN frags = 1..Len(frags)
      /\ \A i \in 1..Len(frags) : frags[i] \in FragRecords
    BY FragIs DEF Types, ChainOK, FragsOK
<1>2. CASE RelaxBranches
    <2>1. frags' = [i \in DOMAIN frags |-> Prepared(frags[i])] /\ UNCHANGED <<items, fixes>>
        BY <1>2 DEF RelaxBranches
    <2>2. ASSUME NEW f \in FragRecords PROVE SameAim(f, Prepared(f))
        <3>1. CASE f.type = "unset"
            <4>1. Prepared(f) = [f EXCEPT !.type = "fill", !.var = 0]
                BY <3>1 DEF Prepared
            <4>2. QED BY <4>1 DEF FragRecords, SameAim
        <3>2. CASE f.type = "machine"
            <4>1. Prepared(f) = [f EXCEPT !.sub = StartState(f)]
                BY <3>2 DEF Prepared
            <4>2. QED BY <4>1 DEF FragRecords, SameAim
        <3>3. CASE f.type \notin {"unset", "machine"}
            <4>1. Prepared(f) = f
                BY <3>3 DEF Prepared
            <4>2. QED BY <4>1 DEF SameAim
        <3>4. QED BY <3>1, <3>2, <3>3
    <2>3. \A i \in 1..Len(frags) : frags'[i] = Prepared(frags[i])
        BY <1>1, <2>1
    <2>4. \A i \in 1..Len(frags) : SameAim(frags[i], frags'[i])
        BY <1>1, <2>2, <2>3
    <2>5. QED BY <2>1, <2>4, SamePairs
<1>3. CASE RelaxSegment
    <2>1. PICK j \in Growing : frags' = [frags EXCEPT ![j].sub = RlxMore[@]]
        BY <1>3 DEF RelaxSegment
    <2>2. j \in DOMAIN frags /\ UNCHANGED <<items, fixes>>
        BY <1>3, <2>1 DEF Growing, RelaxSegment
    <2>3. ASSUME NEW i \in 1..Len(frags)
          PROVE  SameAim(frags[i], frags'[i])
        <3> DEFINE f == frags[i]
        <3>1. f \in FragRecords
            BY <1>1
        <3>2. CASE i = j
            <4>1. frags'[i] = [f EXCEPT !.sub = RlxMore[f.sub]]
                BY <1>1, <2>1, <3>2
            <4> HIDE DEF f
            <4>2. SameAim(f, [f EXCEPT !.sub = RlxMore[f.sub]])
                BY <3>1 DEF FragRecords, SameAim
            <4>3. QED BY <4>1, <4>2 DEF f
        <3>3. CASE i # j
            <4>1. frags'[i] = frags[i]
                BY <1>1, <2>1, <3>3
            <4>2. QED BY <4>1 DEF SameAim
        <3>4. QED BY <3>2, <3>3
    <2>4. QED BY <2>2, <2>3, SamePairs
<1>4. CASE DefineLabels
    BY <1>4 DEF DefineLabels, Pairs
<1>5. QED BY <1>2, <1>3, <1>4

-----------------------------------------------------------------------------
(* The fixups of the final chain: those of the text, and one for every     *)
(* branch.                                                                 *)

Meant(fx, it, i, f, o) ==
    /\ Refers(it) /\ fx.frag = i /\ fx.where = o + FieldStart(it, f)
    /\ FieldStart(it, f) \in Nat
    /\ fx.form = FormIn(it, f) /\ fx.sym = it.term.sym /\ fx.add = it.term.add
Matched(its, frs, fxs) ==
    /\ \A m \in 1..Len(fxs) : \E k \in 1..Len(its) :
         Meant(fxs[m], its[k], FragOf(its)[k], frs[FragOf(its)[k]], PlaceOf(its)[k])
    /\ \A k \in 1..Len(its) : Refers(its[k]) => \E m \in 1..Len(fxs) :
         Meant(fxs[m], its[k], FragOf(its)[k], frs[FragOf(its)[k]], PlaceOf(its)[k])
    /\ Distinct(fxs)

LEMMA AskedMeant ==
    ASSUME NEW fx \in Fixups, NEW it, NEW i, NEW o, Asked(fx, it, i, o), NEW f
    PROVE  Meant(fx, it, i, f, o)
<1>1. ~ IsBranch(it)
    BY DEF Asked, Fielded, IsBranch
<1>2. fx.where = o /\ fx.where \in Nat
    BY DEF Asked, Fixups
<1>3. fx.where = o + 0
    BY <1>2
<1>4. QED BY <1>1, <1>3 DEF Meant, Asked, Refers, FieldStart, FormIn

LEMMA BranchMeant ==
    ASSUME Types, InPlace(items, frags, FALSE), Aimed(items, frags), NEW k \in 1..Len(items),
           IsBranch(items[k]), NEW i, i = FragOf(items)[k], NEW g, g.sub = frags[i].sub
    PROVE  /\ i \in 1..Len(frags) /\ frags[i].type = "machine"
           /\ Meant(BranchFix(i), items[k], i, g, PlaceOf(items)[k])
<1> DEFINE f == frags[i]  it == items[k]
<1>1. /\ i \in 1..Len(frags) /\ f.type = "machine" /\ Own(f) = PlaceOf(items)[k]
      /\ f.sym = it.term.sym /\ f.off = IntOf(it.term.add)
    BY DEF InPlace, InFrag, Aimed, AimedAt
<1>2. it \in Items /\ it.kind = "insn"
    BY DEF Types, ItemsOK, IsBranch
<1>3. it.term \in Terms
    BY <1>2, KindOf
<1>4. it.term.add \in Word
    BY <1>3 DEF Terms
<1>5. ToWord(f.off) = it.term.add
    BY <1>1, <1>4, WordOfInt
<1>6. BranchFix(i).sym = f.sym /\ BranchFix(i).add = ToWord(f.off)
    BY DEF BranchFix, Fix, Term
<1>7. /\ BranchFix(i).frag = i /\ BranchFix(i).form = Shape[f.sub].form
      /\ BranchFix(i).where = Own(f) + Shape[f.sub].at
    BY <1>1, BranchFixTyped
<1>8. Shape[f.sub].at \in Nat
    BY <1>1, FragIs, InsnIs
<1>9. Meant(BranchFix(i), it, i, g, PlaceOf(items)[k])
    BY <1>1, <1>5, <1>6, <1>7, <1>8 DEF Meant, Refers, FieldStart, FormIn
<1>10. QED BY <1>1, <1>9

\* A field of the text lies before the bytes of the branch that ends its frag.
LEMMA AskedBefore ==
    ASSUME Types, InPlace(items, frags, FALSE), NEW fx \in Fixups, NEW k \in 1..Len(items),
           Asked(fx, items[k], FragOf(items)[k], PlaceOf(items)[k])
    PROVE  fx.where < Own(frags[fx.frag]) /\ Own(frags[fx.frag]) \in Int
<1> DEFINE it == items[k]  f == frags[fx.frag]
<1>1. it \in Items
    BY DEF Types, ItemsOK
<1>2. Fixed(it) \in Nat /\ Fixed(it) > 0
    <2>1. CASE it.kind = "data"
        <3>1. Fixed(it) = it.width /\ it.width \in Widths
            BY <1>1, <2>1, KindOf DEF Fixed
        <3>2. QED BY <3>1 DEF Widths
    <2>2. CASE it.kind = "insn" /\ it.op \notin Branches
        <3>1. it.op \in DOMAIN Insns \ Branches
            BY <1>1, <2>2, KindOf
        <3>2. Len(Insns[it.op].bytes) > 0 /\ Insns[it.op].bytes \in Seq(Byte)
            BY <3>1, InsnIs
        <3> DEFINE b == Insns[it.op].bytes
        <3>3. Fixed(it) = Len(b)
            BY <2>2 DEF Fixed
        <3> HIDE DEF b
        <3>4. b \in Seq(Byte) /\ Len(b) > 0
            BY <3>2 DEF b
        <3>5. QED BY <3>3, <3>4
    <2>3. QED BY <2>1, <2>2 DEF Asked, Fielded
<1>3. /\ fx.frag = FragOf(items)[k] /\ fx.where = PlaceOf(items)[k] /\ fx.where \in Nat
      /\ fx.frag \in 1..Len(frags)
    BY DEF Asked, InPlace, Fixups
<1>4. fx.where + Fixed(it) <= Own(f)
    BY <1>3 DEF InPlace, InFrag
<1>5. Own(f) \in Int
    <2>1. f \in FragRecords
        BY <1>3, FragIs
    <2>2. QED BY <2>1, LitOf
<1> HIDE DEF it, f
<1>6. fx.where < Own(f) /\ Own(f) \in Int
    BY <1>2, <1>3, <1>4, <1>5
<1>7. QED BY <1>6 DEF f

LEMMA ConvertMatches ==
    ASSUME Types, Reads(FALSE), Pairs, ConvertAndFinalize
    PROVE  Matched(items, frags, fixes)'
<1> DEFINE gs == Finalized(ConvertedChain)  n == Len(frags)
           keep == {i \in 1..n : frags[i].type = "machine"}  x == [i \in 1..n |-> BranchFix(i)]
           qs == [i \in 1..n |-> IF i \in keep THEN <<x[i]>> ELSE <<>>]
           nf == FlattenSeq(qs)  u == Len(fixes)  all == fixes \o nf
           f == FragOf(items)  p == PlaceOf(items)
<1>1. frags' = gs /\ items' = items /\ fixes' = fixes \o FlattenSeq(NewFixes)
    BY ConvertIs
<1>2. \A i \in 1..n : Becomes(frags[i], gs[i], Layout(gs)[i])
    <2>1. phase = "relaxing"
        BY ConvertIs
    <2>2. QED BY <2>1, ConvertedBecomes
<1>3. \A i \in 1..n : gs[i].sub = frags[i].sub
    BY <1>2 DEF Becomes
<1>4. DOMAIN frags = 1..n /\ n \in Nat /\ fixes \in Seq(Fixups) /\ u \in Nat
    <2>1. frags \in Seq(FragRecords) /\ fixes \in Seq(Fixups)
        BY DEF Types, ChainOK, FragsOK, FixesOK
    <2>2. QED BY <2>1
<1>5. fixes' = all
    <2>1. NewFixes = qs
        BY <1>4 DEF NewFixes
    <2>2. QED BY <1>1, <2>1
<1> HIDE DEF gs, x
<1>6. \A i \in keep : BranchFix(i) \in Fixups /\ BranchFix(i).frag = i
      /\ BranchFix(i).where = Own(frags[i]) + Shape[frags[i].sub].at
    BY BranchFixTyped
<1>7. \A i \in 1..n : x[i] = BranchFix(i)
    BY DEF x
<1>8. Chosen(Fixups, n, keep, x, nf)
    <2>1. keep \in SUBSET (1..n) /\ \A i \in keep : x[i] \in Fixups
        BY <1>6, <1>7
    <2> HIDE DEF nf, keep
    <2>2. QED BY <1>4, <2>1, ChosenList DEF nf
<1> HIDE DEF qs, nf
<1>9. nf \in Seq(Fixups) /\ Len(nf) \in Nat
    BY <1>8 DEF Chosen
<1>10. /\ Len(all) = u + Len(nf)
       /\ \A m \in 1..u : all[m] = fixes[m]
       /\ \A m \in 1..Len(nf) : all[u + m] = nf[m]
    BY <1>4, <1>9, ConcatProperties
<1>11. Paired(items, fixes) /\ Aimed(items, frags) /\ InPlace(items, frags, FALSE)
    BY DEF Pairs, Reads, Sited
<1> HIDE DEF all, u
<1>12. \A m \in 1..u : fixes[m] \in Fixups
    BY <1>4 DEF u
<1>13. \A i \in keep : Own(frags[i]) <= BranchFix(i).where /\ BranchFix(i).where \in Nat
    <2>1. ASSUME NEW i \in keep
          PROVE  Own(frags[i]) <= BranchFix(i).where /\ BranchFix(i).where \in Nat
        <3> DEFINE g == frags[i]
        <3>1. /\ g \in FragRecords /\ g.type = "machine" /\ g.op \in Branches
              /\ g.sub \in DOMAIN Insns[g.op].opcode
            BY FragIs
        <3>2. Shape[g.sub].at \in Nat /\ Own(g) \in Int
            BY <3>1, InsnIs, LitOf
        <3>3. BranchFix(i).where \in Nat
            BY <1>6 DEF Fixups
        <3>4. QED BY <1>6, <3>2, <3>3
    <2>2. QED BY <2>1
<1> HIDE DEF n, f, p
<1>14. ASSUME NEW m \in 1..Len(all)
       PROVE  \E k \in 1..Len(items) : Meant(all[m], items[k], f[k], gs[f[k]], p[k])
    <2>1. CASE m <= u
        <3>1. m \in 1..u /\ all[m] = fixes[m] /\ fixes[m] \in Fixups
            BY <1>10, <1>12, <2>1
        <3>2. PICK k \in 1..Len(items) : Asked(fixes[m], items[k], f[k], p[k])
            BY <1>11, <3>1 DEF Paired, u, f, p
        <3>3. Meant(fixes[m], items[k], f[k], gs[f[k]], p[k])
            BY <3>1, <3>2, AskedMeant
        <3>4. QED BY <3>1, <3>3
    <2>2. CASE m > u
        <3> DEFINE l == m - u
        <3>1. l \in 1..Len(nf) /\ m = u + l
            BY <1>4, <1>9, <1>10, <2>2
        <3> HIDE DEF l
        <3>2. PICK i \in keep : nf[l] = x[i]
            BY <1>8, <3>1 DEF Chosen
        <3>3. all[m] = BranchFix(i) /\ i \in 1..n
            BY <1>7, <1>10, <3>1, <3>2
        <3>4. PICK k \in 1..Len(items) : IsBranch(items[k]) /\ f[k] = i
            BY <1>11, <3>2 DEF InPlace, HasBranch, f, n
        <3>5. Meant(BranchFix(i), items[k], i, gs[i], p[k])
            BY <1>3, <1>11, <3>3, <3>4, BranchMeant DEF f, p
        <3>6. QED BY <3>3, <3>4, <3>5
    <2>3. QED BY <1>4, <1>9, <1>10, <2>1, <2>2
<1>15. ASSUME NEW k \in 1..Len(items), Refers(items[k])
       PROVE  \E m \in 1..Len(all) : Meant(all[m], items[k], f[k], gs[f[k]], p[k])
    <2>1. CASE Fielded(items[k])
        <3>1. PICK m \in 1..u : Asked(fixes[m], items[k], f[k], p[k])
            BY <1>11, <2>1 DEF Paired, u, f, p
        <3>2. m \in 1..Len(all) /\ all[m] = fixes[m] /\ fixes[m] \in Fixups
            BY <1>4, <1>9, <1>10, <1>12
        <3>3. Meant(fixes[m], items[k], f[k], gs[f[k]], p[k])
            BY <3>1, <3>2, AskedMeant
        <3>4. QED BY <3>2, <3>3
    <2>2. CASE IsBranch(items[k])
        <3> DEFINE i == f[k]
        <3>1. i = FragOf(items)[k]
            BY DEF f
        <3> HIDE DEF i
        <3>2. i \in 1..Len(frags) /\ frags[i].type = "machine"
            BY <1>11, <2>2, <3>1 DEF InPlace, InFrag
        <3>3. gs[i].sub = frags[i].sub /\ i \in keep /\ i \in 1..n
            BY <1>3, <3>2 DEF n
        <3>4. Meant(BranchFix(i), items[k], i, gs[i], p[k])
            BY <1>11, <2>2, <3>1, <3>3, BranchMeant DEF p
        <3>5. PICK l \in 1..Len(nf) : nf[l] = x[i]
            BY <1>8, <3>3 DEF Chosen
        <3>6. u + l \in 1..Len(all) /\ all[u + l] = BranchFix(i)
            BY <1>4, <1>7, <1>9, <1>10, <3>3, <3>5
        <3>7. QED BY <3>4, <3>6 DEF i
    <2>3. QED BY <1>15, <2>1, <2>2 DEF Refers
<1>16. ASSUME NEW l \in 1..Len(all), NEW m \in 1..Len(all),
              all[l].frag = all[m].frag, all[l].where = all[m].where
       PROVE  l = m
    <2>1. CASE l <= u /\ m <= u
        <3>1. l \in 1..u /\ m \in 1..u /\ all[l] = fixes[l] /\ all[m] = fixes[m]
            BY <1>10, <2>1
        <3>2. QED BY <1>11, <1>16, <3>1 DEF Paired, Distinct, u
    <2>2. CASE l > u /\ m > u
        <3> DEFINE a == l - u  b == m - u
        <3>1. a \in 1..Len(nf) /\ l = u + a /\ b \in 1..Len(nf) /\ m = u + b
            BY <1>4, <1>9, <1>10, <2>2
        <3> HIDE DEF a, b
        <3>2. all[l] = nf[a] /\ all[m] = nf[b]
            BY <1>10, <3>1
        <3>3. SUFFICES ASSUME a # b PROVE FALSE
            BY <3>1
        <3>4. PICK i \in keep, j \in keep : i # j /\ nf[a] = x[i] /\ nf[b] = x[j]
            BY <1>8, <3>1, <3>3 DEF Chosen
        <3>5. nf[a].frag = i /\ nf[b].frag = j
            BY <1>6, <1>7, <3>4
        <3>6. QED BY <1>16, <3>2, <3>4, <3>5
    <2>3. ASSUME NEW a \in 1..Len(all), NEW b \in 1..Len(all), a <= u, b > u,
                 all[a].frag = all[b].frag, all[a].where = all[b].where
          PROVE  FALSE
        <3> DEFINE c == b - u
        <3>1. c \in 1..Len(nf) /\ b = u + c /\ a \in 1..u
            BY <1>4, <1>9, <1>10, <2>3
        <3> HIDE DEF c
        <3>2. PICK i \in keep : nf[c] = x[i]
            BY <1>8, <3>1 DEF Chosen
        <3>3. all[b] = BranchFix(i) /\ all[a] = fixes[a] /\ fixes[a] \in Fixups
            BY <1>7, <1>10, <1>12, <3>1, <3>2
        <3>4. PICK k \in 1..Len(items) : Asked(fixes[a], items[k], f[k], p[k])
            BY <1>11, <3>1 DEF Paired, u, f, p
        <3>5. fixes[a].where < Own(frags[fixes[a].frag]) /\ Own(frags[fixes[a].frag]) \in Int
            BY <1>11, <3>3, <3>4, AskedBefore DEF f, p
        <3>6. fixes[a].frag = i
            BY <1>6, <2>3, <3>3
        <3>7. fixes[a].where \in Nat
            BY <3>3 DEF Fixups
        <3>8. QED BY <1>13, <2>3, <3>3, <3>5, <3>6, <3>7
    <2>4. QED BY <1>4, <1>9, <1>10, <1>16, <2>1, <2>2, <2>3
<1>17. Matched(items, gs, all)
    BY <1>14, <1>15, <1>16 DEF Matched, Distinct, f, p
<1>18. QED BY <1>1, <1>5, <1>17

-----------------------------------------------------------------------------
(* The fixups and the relocations in every pass.                           *)

RelocInv ==
    /\ phase \in {"reset", "parse", "relax", "relaxing"} => Pairs
    /\ phase = "fixups" => Matched(items, frags, fixes)
    /\ phase = "report" =>
         \/ parseErr \/ secViol \/ dirErr
         \/ Matched(items, frags, fixes) /\ unresolved = Cardinality(Pending)
    /\ Succeeded =>
         /\ Matched(items, frags, fixes)
         /\ job.relocs => result.relocs = CollectRelocs
         /\ ~ job.relocs => result.relocs = <<>> /\ Pending = {}

LEMMA MatchedFor ==
    ASSUME NEW its, NEW frs, NEW gs, NEW fxs, Matched(its, frs, fxs),
           \A k \in 1..Len(its) : gs[FragOf(its)[k]].sub = frs[FragOf(its)[k]].sub
    PROVE  Matched(its, gs, fxs)
<1> DEFINE o(k) == PlaceOf(its)[k]  i(k) == FragOf(its)[k]
<1>1. ASSUME NEW m \in 1..Len(fxs), NEW k \in 1..Len(its),
             Meant(fxs[m], its[k], i(k), frs[i(k)], o(k))
      PROVE  Meant(fxs[m], its[k], i(k), gs[i(k)], o(k))
    <2>1. gs[i(k)].sub = frs[i(k)].sub
        OBVIOUS
    <2>2. QED BY <1>1, <2>1 DEF Meant, FieldStart, FormIn
<1>2. /\ \A m \in 1..Len(fxs) : \E k \in 1..Len(its) : Meant(fxs[m], its[k], i(k), frs[i(k)], o(k))
      /\ \A k \in 1..Len(its) : Refers(its[k]) =>
           \E m \in 1..Len(fxs) : Meant(fxs[m], its[k], i(k), frs[i(k)], o(k))
      /\ Distinct(fxs)
    BY DEF Matched
<1> HIDE DEF o, i
<1>3. /\ \A m \in 1..Len(fxs) : \E k \in 1..Len(its) : Meant(fxs[m], its[k], i(k), gs[i(k)], o(k))
      /\ \A k \in 1..Len(its) : Refers(its[k]) =>
           \E m \in 1..Len(fxs) : Meant(fxs[m], its[k], i(k), gs[i(k)], o(k))
    BY <1>1, <1>2
<1>4. QED BY <1>2, <1>3 DEF Matched, i, o

LEMMA PendingSame ==
    ASSUME UNCHANGED <<syms, fixes>>
    PROVE  Pending' = Pending
BY DEF Pending, Known, IsDefined, HasValue, Root, Resolved, Behind

LEMMA PendingFinite ==
    ASSUME Types
    PROVE  Pending \in SUBSET (1..Len(fixes)) /\ IsFiniteSet(Pending) /\ DOMAIN fixes = 1..Len(fixes)
<1>1. fixes \in Seq(Fixups)
    BY DEF Types, FixesOK
<1>2. DOMAIN fixes = 1..Len(fixes) /\ Len(fixes) \in Nat
    BY <1>1
<1>3. Pending \in SUBSET (1..Len(fixes))
    BY <1>2 DEF Pending
<1>4. IsFiniteSet(1..Len(fixes))
    BY <1>2, FS_Interval
<1>5. QED BY <1>2, <1>3, <1>4, FS_Subset

LEMMA RelocsSame ==
    ASSUME UNCHANGED <<job, syms, fixes, frags>>
    PROVE  CollectRelocs' = CollectRelocs
<1> DEFINE reloc(fx) == [offset |-> Plus(job.base, ToWord(Site(fx))), addend |-> fx.add,
                         type |-> fx.form, symbol |-> fx.sym, hint |-> Hint(fx.sym[1])]
           R == [k \in DOMAIN fixes |-> IF k \in Pending THEN <<reloc(fixes[k])>> ELSE <<>>]
<1>1. Pending' = Pending
    BY PendingSame
<1>2. ASSUME NEW k PROVE Site(fixes[k])' = Site(fixes[k])
    BY DEF Site
<1>3. ASSUME NEW k PROVE Hint(fixes[k].sym[1])' = Hint(fixes[k].sym[1])
    BY DEF Hint
<1>4. ASSUME NEW k PROVE reloc(fixes[k])' = reloc(fixes[k])
    BY <1>2, <1>3
<1>5. fixes' = fixes
    OBVIOUS
<1> HIDE DEF reloc
<1>6. R' = R
    BY <1>1, <1>4, <1>5
<1> HIDE DEF R
<1>7. FlattenSeq(R)' = FlattenSeq(R)
    BY <1>6
<1>8. CollectRelocs = FlattenSeq(R)
    BY Zenon DEF CollectRelocs, R, reloc
<1>9. CollectRelocs' = FlattenSeq(R)'
    BY Zenon DEF CollectRelocs, R, reloc
<1>10. QED BY <1>7, <1>8, <1>9

LEMMA RelocStarts ==
    ASSUME Init
    PROVE  RelocInv
<1> DEFINE its == <<>>  fxs == <<>>
<1>1. items = its /\ fixes = fxs /\ result.status = "none" /\ phase \in {"reset", "decode"}
    BY DEF Init, NoResult
<1>2. its \in Seq(Items) /\ 1..Len(its) = {} /\ 1..Len(fxs) = {}
    BY EmptyTyped
<1> HIDE DEF its, fxs
<1>3. Pairs
    BY <1>1, <1>2 DEF Pairs, Paired, Aimed, Distinct
<1>4. QED BY <1>1, <1>3 DEF RelocInv, Succeeded

LEMMA StatementReloc ==
    ASSUME Types, LayoutInv(FALSE), RelocInv,
           \/ Reset \/ NextStatement \/ Label \/ IntList \/ ConsList \/ Ascii \/ Skip
           \/ Org \/ Align \/ Equ \/ Accepted \/ SwitchesSection \/ Unsupported \/ Instruction
    PROVE  RelocInv'
<1>1. phase \in {"reset", "parse"} /\ phase' = "parse" /\ result' = result
    <2>1. CASE Reset \/ NextStatement \/ Label
        BY <2>1 DEF Reset, NextStatement, Label, outputs
    <2>2. CASE IntList \/ ConsList \/ Ascii \/ Skip
        BY <2>2 DEF IntList, ConsList, Ascii, Skip, At, Emits, Handled, GasError, Rejected, outputs
    <2>3. CASE Org \/ Align \/ Equ
        BY <2>3 DEF Org, Align, Equ, At, Closes, Handled, GasError, Rejected, outputs
    <2>4. CASE Accepted \/ SwitchesSection \/ Unsupported
        BY <2>4 DEF Accepted, SwitchesSection, Unsupported, At, Handled, Rejected, outputs
    <2>5. CASE Instruction
        BY <2>5 DEF Instruction, Emits, Handled, GasError, outputs
    <2>6. QED BY <2>1, <2>2, <2>3, <2>4, <2>5
<1>2. Reads(FALSE) /\ Pairs /\ result.status # "OK"
    BY <1>1 DEF LayoutInv, RelocInv
<1>3. Pairs'
    <2>1. CASE Reset \/ NextStatement
        <3>1. items' = items /\ fixes' = fixes /\ frags' = frags
            BY <2>1 DEF Reset, NextStatement, section
        <3>2. QED BY <1>2, <3>1 DEF Pairs
    <2>2. CASE \/ IntList \/ Ascii \/ Skip \/ Org \/ Align
               \/ Accepted \/ SwitchesSection \/ Unsupported
        <3>1. phase = "parse"
            BY <2>2 DEF IntList, Ascii, Skip, Org, Align, Accepted, SwitchesSection, Unsupported, At
        <3>2. QED BY <1>2, <2>2, <3>1, StillStatements, StillPairs
    <2>3. CASE Label \/ Equ
        BY <1>2, <2>3, NamePairs
    <2>4. CASE ConsList
        BY <1>2, <2>4, ConsListPairs
    <2>5. CASE Instruction
        BY <1>2, <2>5, InstructionPairs
    <2>6. QED BY <2>1, <2>2, <2>3, <2>4, <2>5
<1>4. QED BY <1>1, <1>2, <1>3 DEF RelocInv, Succeeded

LEMMA ApplyReloc ==
    ASSUME Types, LayoutInv(FALSE), RelocInv, ApplyTextFixups
    PROVE  Matched(items, frags, fixes)' /\ unresolved' = Cardinality(Pending)'
<1>1. /\ phase = "fixups" /\ frags' = CopiedBack(frags, EncodedImage)
      /\ unresolved' = Cardinality(Pending) /\ items' = items /\ fixes' = fixes /\ syms' = syms
    BY DEF ApplyTextFixups
<1>2. Matched(items, frags, fixes) /\ Final(items, frags, FALSE)
    BY <1>1 DEF LayoutInv, RelocInv
<1>3. frags \in Seq(FragRecords)
    BY DEF Types, ChainOK, FragsOK
<1>4. ASSUME NEW k \in 1..Len(items) PROVE frags'[FragOf(items)[k]].sub = frags[FragOf(items)[k]].sub
    <2>1. FragOf(items)[k] \in 1..Len(frags)
        BY <1>2 DEF Final
    <2>2. QED BY <1>1, <1>3, <2>1, EncodedTyped, CopiedTyped
<1>5. Matched(items, frags', fixes)
    BY <1>2, <1>4, MatchedFor
<1>6. Pending' = Pending
    BY <1>1, PendingSame
<1>7. QED BY <1>1, <1>5, <1>6 DEF Matched

LEMMA PassReloc ==
    ASSUME Types, LayoutInv(FALSE), RelocInv,
           DefineLabels \/ RelaxBranches \/ RelaxSegment \/ ConvertAndFinalize \/ ApplyTextFixups
    PROVE  RelocInv'
<1>1. phase \notin {"decode", "done"} /\ result' = result
    BY DEF DefineLabels, RelaxBranches, RelaxSegment, ConvertAndFinalize, ApplyTextFixups,
           outputs
<1>2. ~ Succeeded'
    BY <1>1 DEF LayoutInv, Succeeded
<1>3. CASE DefineLabels
    <2> DEFINE stop == parseErr' \/ secViol \/ dirErr
    <2>1. phase = "parse" /\ phase' = (IF stop THEN "report" ELSE "relax")
        BY <1>3, Zenon DEF DefineLabels
    <2>2. secViol' = secViol /\ dirErr' = dirErr
        BY <1>3, Zenon DEF DefineLabels
    <2>3. Pairs'
        BY <1>3, <2>1, RelaxPairs DEF LayoutInv, RelocInv
    <2>4. CASE stop
        <3>1. parseErr' \/ secViol' \/ dirErr'
            BY <2>2, <2>4, Zenon
        <3>2. phase' = "report"
            BY <2>1, <2>4, Zenon
        <3>3. QED BY <1>2, <3>1, <3>2 DEF RelocInv
    <2>5. CASE ~ stop
        <3>1. phase' = "relax"
            BY <2>1, <2>5, Zenon
        <3>2. QED BY <1>2, <2>3, <3>1 DEF RelocInv
    <2>6. QED BY <2>4, <2>5
<1>4. CASE RelaxBranches \/ RelaxSegment
    <2>1. phase \in {"relax", "relaxing"} /\ phase' = "relaxing"
        BY <1>4 DEF RelaxBranches, RelaxSegment
    <2>2. Pairs'
        BY <1>4, <2>1, RelaxPairs DEF LayoutInv, RelocInv
    <2>3. QED BY <1>2, <2>1, <2>2 DEF RelocInv
<1>5. CASE ConvertAndFinalize
    <2>1. phase = "relaxing" /\ phase' = "fixups"
        BY <1>5, ConvertIs
    <2>2. Matched(items, frags, fixes)'
        BY <1>5, <2>1, ConvertMatches DEF LayoutInv, RelocInv
    <2>3. QED BY <1>2, <2>1, <2>2 DEF RelocInv
<1>6. CASE ApplyTextFixups
    <2>1. phase' = "report"
        BY <1>6 DEF ApplyTextFixups
    <2>2. Matched(items, frags, fixes)' /\ unresolved' = Cardinality(Pending)'
        BY <1>6, ApplyReloc
    <2>3. QED BY <1>2, <2>1, <2>2 DEF RelocInv
<1>7. QED BY <1>3, <1>4, <1>5, <1>6

LEMMA ReportReloc ==
    ASSUME Types, RelocInv, Report
    PROVE  RelocInv'
<1>1. /\ phase = "report" /\ phase' \in {"decode", "done"}
      /\ UNCHANGED <<job, items, frags, fixes, syms>>
    BY DEF Report, section
<1>2. CASE Status # "OK"
    <2>1. result' = [NoResult EXCEPT !.status = Status]
        BY <1>2 DEF Report
    <2>2. result'.status # "OK"
        BY <1>2, <2>1 DEF NoResult
    <2>3. QED BY <1>1, <2>2 DEF RelocInv, Succeeded
<1>3. CASE Status = "OK"
    <2>1. result' = [status |-> "OK", bytes |-> Image(frags),
                     relocs |-> IF job.relocs THEN CollectRelocs ELSE <<>>]
        BY <1>3 DEF Report
    <2>2. result'.relocs = IF job.relocs THEN CollectRelocs ELSE <<>>
        BY <2>1, Zenon
    <2>3. ~ dirErr /\ ~ secViol /\ ~ parseErr /\ (~ job.relocs => ~ (unresolved > 0))
        BY <1>3 DEF Status
    <2>4. Matched(items, frags, fixes) /\ unresolved = Cardinality(Pending)
        BY <1>1, <2>3 DEF RelocInv
    <2>5. ~ job.relocs => Pending = {}
        <3>1. unresolved \in Nat
            BY DEF Types, FlagsOK
        <3>2. QED BY <2>3, <2>4, <3>1, PendingFinite, FS_EmptySet
    <2>6. Matched(items, frags, fixes)' /\ Pending' = Pending /\ CollectRelocs' = CollectRelocs
        BY <1>1, <2>4, PendingSame, RelocsSame DEF Matched
    <2>7. job' = job
        BY <1>1
    <2>8. job'.relocs => result'.relocs = CollectRelocs'
        BY <2>2, <2>6, <2>7
    <2>9. ~ job'.relocs => result'.relocs = <<>> /\ Pending' = {}
        BY <2>2, <2>5, <2>6, <2>7
    <2>10. QED BY <1>1, <2>6, <2>8, <2>9 DEF RelocInv
<1>4. QED BY <1>2, <1>3

LEMMA SameReloc ==
    ASSUME RelocInv, UNCHANGED <<job, items, frags, fixes, syms, result>>,
           \/ phase' \in {"decode", "done"}
           \/ UNCHANGED <<phase, parseErr, secViol, dirErr, unresolved>>
    PROVE  RelocInv'
<1>1. Pending' = Pending /\ CollectRelocs' = CollectRelocs
    BY PendingSame, RelocsSame
<1>2. Pairs => Pairs'
    BY DEF Pairs
<1>3. Matched(items, frags, fixes) => Matched(items, frags, fixes)'
    BY DEF Matched
<1>4. Succeeded' = Succeeded
    BY DEF Succeeded
<1>5. Succeeded' => /\ Matched(items, frags, fixes)'
                    /\ job'.relocs => result'.relocs = CollectRelocs'
                    /\ ~ job'.relocs => result'.relocs = <<>> /\ Pending' = {}
    BY <1>1, <1>3, <1>4 DEF RelocInv
<1>6. QED BY <1>1, <1>2, <1>3, <1>5 DEF RelocInv

LEMMA NextReloc ==
    ASSUME Types, LayoutInv(FALSE), RelocInv, [Next]_vars
    PROVE  RelocInv'
<1>1. CASE \/ Reset \/ NextStatement \/ Label \/ IntList \/ ConsList \/ Ascii \/ Skip
           \/ Org \/ Align \/ Equ \/ Accepted \/ SwitchesSection \/ Unsupported \/ Instruction
    BY <1>1, StatementReloc
<1>2. CASE DefineLabels \/ RelaxBranches \/ RelaxSegment \/ ConvertAndFinalize \/ ApplyTextFixups
    BY <1>2, PassReloc
<1>3. CASE Report
    BY <1>3, ReportReloc
<1>4. CASE DecodeOne \/ Decoded
    <2>1. /\ phase' \in {"decode", "done"}
          /\ UNCHANGED <<job, items, frags, fixes, syms, result>>
        BY <1>4 DEF DecodeOne, Decoded, section, outputs
    <2>2. QED BY <2>1, SameReloc
<1>5. CASE UNCHANGED vars
    <2>1. UNCHANGED <<job, items, frags, fixes, syms, result>>
          /\ UNCHANGED <<phase, parseErr, secViol, dirErr, unresolved>>
        BY <1>5 DEF vars, section, flags, outputs
    <2>2. QED BY <2>1, SameReloc
<1>6. QED BY <1>1, <1>2, <1>3, <1>4, <1>5 DEF Next, Returned

LEMMA RelocHolds == Spec => []RelocInv
<1>1. Init => RelocInv
    BY RelocStarts
<1>2. Types /\ LayoutInv(FALSE) /\ RelocInv /\ [Next]_vars => RelocInv'
    BY NextReloc
<1>3. QED BY <1>1, <1>2, TypesHold, LayoutHolds, PTL DEF Spec

-----------------------------------------------------------------------------
(* The relocations of the result.                                          *)

LEMMA HintIs ==
    ASSUME Types, NEW n
    PROVE  Hint(n) = FirstAddress(n)
<1> DEFINE ls == job.labels  m == {k \in DOMAIN ls : ls[k].name = n}
           f == {i \in DOMAIN ls : ls[i].name = n /\ \A j \in 1..(i - 1) : ls[j].name # n}
<1>1. ls \in Seq([name : Names, address : Word])
    BY JobTypes DEF Types
<1> HIDE DEF ls
<1>2. DOMAIN ls = 1..Len(ls) /\ Len(ls) \in Nat
    BY <1>1
<1>3. Hint(n) = IF m = {} THEN {} ELSE ls[Min(m)].address
    BY DEF Hint, ls
<1>4. FirstAddress(n) = UNION {ls[k].address : k \in f}
    BY DEF FirstAddress, ls
<1>5. CASE m = {}
    <2>1. f = {}
        BY <1>5
    <2>2. QED BY <1>3, <1>4, <1>5, <2>1
<1>6. CASE m # {}
    <2> DEFINE z == Min(m)
    <2>1. m \in SUBSET Nat
        BY <1>2
    <2>2. z \in m /\ \A y \in m : z <= y
        BY <1>6, <2>1, MinIs
    <2> HIDE DEF z
    <2>3. ASSUME NEW j \in 1..(z - 1) PROVE ls[j].name # n
        <3>1. z \in 1..Len(ls)
            BY <1>2, <2>2
        <3>2. j \in 1..Len(ls) /\ ~ (z <= j)
            BY <1>2, <3>1
        <3>3. QED BY <1>2, <2>2, <3>2
    <2>4. z \in f
        BY <2>2, <2>3
    <2>5. ASSUME NEW i \in f PROVE i = z
        <3>1. i \in m /\ i \in 1..Len(ls) /\ z \in 1..Len(ls)
            BY <1>2, <2>2
        <3>2. z <= i /\ z \notin 1..(i - 1)
            BY <2>2, <3>1
        <3>3. QED BY <1>2, <3>1, <3>2
    <2>6. f = {z}
        BY <2>4, <2>5
    <2> HIDE DEF f, m
    <2>7. UNION {ls[k].address : k \in f} = ls[z].address
        BY <2>6
    <2>8. QED BY <1>3, <1>4, <1>6, <2>7 DEF z
<1>7. QED BY <1>5, <1>6

\* A fixup sits on the field it was made for.
LEMMA SitePlace ==
    ASSUME Types, Final(items, frags, FALSE), NEW k \in 1..Len(items), NEW fx,
           Meant(fx, items[k], FragOf(items)[k], frags[FragOf(items)[k]], PlaceOf(items)[k])
    PROVE  /\ Site(fx) = FieldAt(k) /\ fx.form = FieldForm(items[k])
           /\ items[k].kind \in {"data", "insn"}
<1> DEFINE it == items[k]  i == FragOf(items)[k]  f == frags[i]  o == PlaceOf(items)[k]
           l == Layout(frags)[i]  a == TrueAddress[k]
<1>1. it \in Items /\ i \in 1..Len(frags) /\ o \in Nat /\ a = l + o /\ (IsBranch(it) => it.frag = i)
    <2>1. it \in Items
        BY DEF Types, ItemsOK
    <2>2. /\ i \in 1..Len(frags) /\ o \in Nat
          /\ Settled(it, i, f, l, o, AddressIn(items, frags)[k], AddressIn(items, frags)[k + 1], FALSE)
        BY DEF Final
    <2>3. a = AddressIn(items, frags)[k]
        BY TrueAddressIs
    <2> HIDE DEF it, i, f, l, o, a
    <2>4. QED BY <2>1, <2>2, <2>3 DEF Settled
<1>2. l \in Nat
    <2>1. frags \in Seq(FragRecords)
        BY DEF Types, ChainOK, FragsOK
    <2>2. i \in 1..Len(frags) + 1
        BY <1>1, <2>1
    <2>3. QED BY <2>1, <2>2, LayoutRun
<1>3. /\ Refers(it) /\ fx.frag = i /\ fx.where = o + FieldStart(it, f)
      /\ FieldStart(it, f) \in Nat /\ fx.form = FormIn(it, f)
    BY DEF Meant
<1>4. it.kind \in {"data", "insn"}
    BY <1>3 DEF Refers, Fielded, IsBranch
<1>5. FieldStart(it, f) = FieldOffset(it)
    BY <1>1 DEF FieldStart, FieldOffset, IsBranch
<1>6. FormIn(it, f) = FieldForm(it)
    <2>1. CASE it.kind = "data"
        BY <2>1 DEF FormIn, FieldForm, IsBranch, FormOf
    <2>2. CASE it.kind # "data"
        <3>1. it.kind = "insn"
            BY <1>4, <2>2
        <3>2. QED BY <1>1, <3>1 DEF FormIn, FieldForm, IsBranch, FormOf
    <2>3. QED BY <2>1, <2>2
<1>7. Site(fx) = l + (o + FieldStart(it, f))
    BY <1>3 DEF Site
<1>8. FieldAt(k) = a + FieldStart(it, f)
    BY <1>5 DEF FieldAt
<1> DEFINE s == FieldStart(it, f)
<1>9. s \in Nat
    BY <1>3
<1> HIDE DEF s, l, o, a
<1>10. l + (o + s) = a + s
    BY <1>1, <1>2, <1>9
<1>11. QED BY <1>3, <1>4, <1>6, <1>7, <1>8, <1>10 DEF s

\* Fixups in different places of the chain have different sites in the image.
LEMMA ChainAscends ==
    ASSUME NEW frs \in Seq(FragRecords), NEW i \in 1..Len(frs), NEW j \in 1..Len(frs) + 1, i < j
    PROVE  /\ Layout(frs)[i] \in Nat /\ Layout(frs)[j] \in Nat
           /\ FixSize(frs[i]) \in Nat /\ Layout(frs)[i] + FixSize(frs[i]) <= Layout(frs)[j]
<1> DEFINE n == Len(frs)  a == Layout(frs)
<1>1. n \in Nat /\ a \in [1..n + 1 -> Nat]
      /\ \A k \in 1..n : a[k + 1] = a[k] + FixSize(frs[k]) + FillSize(frs[k])
    BY LayoutRun
<1>2. \A k \in 1..n : FixSize(frs[k]) \in Nat /\ FillSize(frs[k]) \in Nat
    <2>1. \A k \in 1..n : frs[k] \in FragRecords
        OBVIOUS
    <2>2. QED BY <2>1, SizesTyped
<1>3. i \in 1..n /\ j \in 1..n + 1
    OBVIOUS
<1> HIDE DEF n, a
<1>4. \A k \in 1..n : a[k] <= a[k + 1]
    <2>1. ASSUME NEW k \in 1..n PROVE a[k] <= a[k + 1]
        <3>1. k \in 1..n + 1
            BY <1>1
        <3>2. a[k] \in Nat
            BY <1>1, <3>1
        <3>3. QED BY <1>1, <1>2, <3>2
    <2>2. QED BY <2>1
<1>5. i + 1 \in 1..n + 1 /\ i + 1 <= j /\ i \in 1..n + 1
    BY <1>1, <1>3
<1>6. a[i + 1] <= a[j]
    BY <1>1, <1>3, <1>4, <1>5, Ascending
<1>7. a[i] \in Nat /\ a[j] \in Nat /\ a[i + 1] = a[i] + FixSize(frs[i]) + FillSize(frs[i])
      /\ FixSize(frs[i]) \in Nat /\ FillSize(frs[i]) \in Nat
    BY <1>1, <1>2, <1>3, <1>5
<1>8. a[i] + FixSize(frs[i]) <= a[j]
    BY <1>6, <1>7
<1>9. QED BY <1>7, <1>8 DEF a

LEMMA SiteWithin ==
    ASSUME Types, NEW m \in 1..Len(fixes)
    PROVE  Site(fixes[m]) \in Nat /\ Site(fixes[m]) < Len(Image(frags))
<1> DEFINE fx == fixes[m]  i == fx.frag  n == Len(frags)
<1>1. frags \in Seq(FragRecords) /\ n \in Nat /\ fixes \in Seq(Fixups)
    BY DEF Types, ChainOK, FragsOK, FixesOK
<1>2. i \in 1..n /\ fx.where < FixSize(frags[i])
    BY DEF Types, FixesOK, FixIn
<1>3. fx \in Fixups
    BY <1>1
<1>4. fx.where \in Nat
    BY <1>3 DEF Fixups
<1>5. n + 1 \in 1..n + 1 /\ i < n + 1
    BY <1>1, <1>2
<1>6. /\ Layout(frags)[i] \in Nat /\ Layout(frags)[n + 1] \in Nat /\ FixSize(frags[i]) \in Nat
      /\ Layout(frags)[i] + FixSize(frags[i]) <= Layout(frags)[n + 1]
    BY <1>1, <1>2, <1>5, ChainAscends
<1>7. Len(Image(frags)) = Layout(frags)[n + 1]
    BY <1>1, ImageIs
<1>8. Site(fx) = Layout(frags)[i] + fx.where
    BY DEF Site
<1> HIDE DEF fx, i, n
<1>9. QED BY <1>2, <1>4, <1>6, <1>7, <1>8 DEF fx

LEMMA SitesApart ==
    ASSUME Types, Distinct(fixes), NEW l \in 1..Len(fixes), NEW m \in 1..Len(fixes), l # m
    PROVE  Site(fixes[l]) # Site(fixes[m])
<1> DEFINE i == fixes[l].frag  j == fixes[m].frag  x == fixes[l].where  y == fixes[m].where
           a == Layout(frags)  z(k) == FixSize(frags[k])
<1>1. frags \in Seq(FragRecords) /\ Len(frags) \in Nat /\ fixes \in Seq(Fixups)
    BY DEF Types, ChainOK, FragsOK, FixesOK
<1>2. i \in 1..Len(frags) /\ x < z(i) /\ j \in 1..Len(frags) /\ y < z(j)
    BY DEF Types, FixesOK, FixIn
<1>3. fixes[l] \in Fixups /\ fixes[m] \in Fixups
    BY <1>1
<1>4. x \in Nat /\ y \in Nat
    BY <1>3 DEF Fixups
<1>5. i # j \/ x # y
    BY DEF Distinct
<1>6. i \in 1..Len(frags) + 1 /\ j \in 1..Len(frags) + 1
    BY <1>1, <1>2
<1>7. a[i] \in Nat /\ a[j] \in Nat
    BY <1>1, <1>6, LayoutRun
<1>8. i < j => z(i) \in Nat /\ a[i] + z(i) <= a[j]
    BY <1>1, <1>2, <1>6, ChainAscends
<1>9. j < i => z(j) \in Nat /\ a[j] + z(j) <= a[i]
    BY <1>1, <1>2, <1>6, ChainAscends
<1>10. Site(fixes[l]) = a[i] + x /\ Site(fixes[m]) = a[j] + y
    BY DEF Site
<1> HIDE DEF i, j, x, y, a, z
<1>11. a[i] + x # a[j] + y
    <2>1. CASE i = j
        BY <1>4, <1>5, <1>7, <2>1
    <2>2. CASE i < j
        BY <1>2, <1>4, <1>7, <1>8, <2>2
    <2>3. CASE j < i
        BY <1>2, <1>4, <1>7, <1>9, <2>3
    <2>4. i \in Int /\ j \in Int
        BY <1>2
    <2>5. QED BY <2>1, <2>2, <2>3, <2>4
<1>12. QED BY <1>10, <1>11

LEMMA OffsetsApart ==
    ASSUME Types, Distinct(fixes), Len(Image(frags)) <= Pow2(64),
           NEW l \in 1..Len(fixes), NEW m \in 1..Len(fixes), l # m
    PROVE  Plus(job.base, ToWord(Site(fixes[l]))) # Plus(job.base, ToWord(Site(fixes[m])))
<1> DEFINE x == Site(fixes[l])  y == Site(fixes[m])  w == Pow2(64)  n == Len(Image(frags))
<1>1. x \in Nat /\ x < n /\ y \in Nat /\ y < n /\ x # y
    BY SiteWithin, SitesApart
<1>2. w \in Nat
    BY Pow2Is
<1>3. n \in Nat
    <2>1. frags \in Seq(FragRecords)
        BY DEF Types, ChainOK, FragsOK
    <2>2. Image(frags) \in Seq(Byte)
        BY <2>1, ImageIs
    <2>3. QED BY <2>2
<1>4. job.base \in Word
    BY JobTypes DEF Types
<1>5. n <= w
    OBVIOUS
<1>6. ToWord(x) \in Word /\ ToWord(y) \in Word
    BY WordParts
<1> HIDE DEF x, y, w, n
<1>7. x - y < w /\ y - x < w /\ x \in Int /\ y \in Int
    BY <1>1, <1>2, <1>3, <1>5
<1>8. ToWord(x) # ToWord(y)
    BY <1>1, <1>7, SameInt DEF w
<1>9. QED BY <1>4, <1>6, <1>8, PlusCancels DEF x, y

\* The fixups left for the linker are those whose symbol means nothing here.
LEMMA PendingMeans ==
    ASSUME Types, Naming, PlainIn(items), NEW m \in 1..Len(fixes)
    PROVE  LET s == fixes[m].sym
           IN /\ m \in Pending => s # NoSym /\ (job.relocs => Meaning(s) = {})
              /\ s # NoSym /\ Meaning(s) = {} => m \in Pending
<1> DEFINE s == fixes[m].sym
<1>1. fixes \in Seq(Fixups)
    BY DEF Types, FixesOK
<1>2. fixes[m] \in Fixups /\ m \in DOMAIN fixes
    BY <1>1
<1>3. s \in SymVals
    BY <1>2 DEF Fixups
<1>4. m \in Pending <=> s # NoSym /\ ~ IsDefined(s)
    BY <1>2 DEF Pending, Known
<1>5. job.relocs => Given = <<>>
    BY DEF Given
<1> HIDE DEF s
<1>6. ASSUME s # NoSym
      PROVE  /\ IsDefined(s) => Meaning(s) # {}
             /\ Given = <<>> /\ Meaning(s) # {} => IsDefined(s)
    <2>1. s \in Symbols
        BY <1>3, <1>6 DEF SymVals
    <2>2. QED BY <2>1, DefinedMeans
<1>7. QED BY <1>4, <1>5, <1>6 DEF s

\* The relocation of a fixup, and that of a field.
RelocOf(fx) == [offset |-> Plus(job.base, ToWord(Site(fx))), addend |-> fx.add,
                type |-> fx.form, symbol |-> fx.sym, hint |-> Hint(fx.sym[1])]
RelocAt(k) == [offset |-> Plus(job.base, ToWord(FieldAt(k))), addend |-> items[k].term.add,
               type |-> FieldForm(items[k]), symbol |-> items[k].term.sym,
               hint |-> FirstAddress(items[k].term.sym[1])]
Meets(m, k) == Meant(fixes[m], items[k], FragOf(items)[k], frags[FragOf(items)[k]], PlaceOf(items)[k])
Missing == {k \in Symbolic : Meaning(items[k].term.sym) = {}}

LEMMA RelocMeets ==
    ASSUME Types, Final(items, frags, FALSE), NEW m \in 1..Len(fixes), NEW k \in 1..Len(items),
           Meets(m, k)
    PROVE  /\ RelocOf(fixes[m]) = RelocAt(k) /\ fixes[m].sym = items[k].term.sym
           /\ items[k].kind \in {"data", "insn"}
<1> DEFINE fx == fixes[m]  it == items[k]
<1>1. Site(fx) = FieldAt(k) /\ fx.form = FieldForm(it) /\ it.kind \in {"data", "insn"}
    BY SitePlace DEF Meets
<1>2. fx.sym = it.term.sym /\ fx.add = it.term.add
    BY DEF Meets, Meant
<1>3. Hint(fx.sym[1]) = FirstAddress(it.term.sym[1])
    BY <1>2, HintIs
<1>4. RelocOf(fx) = RelocAt(k)
    BY <1>1, <1>2, <1>3, Zenon DEF RelocOf, RelocAt
<1>5. QED BY <1>1, <1>2, <1>4

\* What is missing has a fixup that waits for the linker.
LEMMA MissingPending ==
    ASSUME Types, Naming, PlainIn(items), Matched(items, frags, fixes), NEW k \in Missing
    PROVE  k \in 1..Len(items) /\ \E m \in Pending : m \in 1..Len(fixes) /\ Meets(m, k)
<1> DEFINE it == items[k]
<1>1. items \in Seq(Items)
    BY DEF Types, ItemsOK
<1>2. /\ k \in 1..Len(items) /\ it \in Items /\ it.kind \in {"data", "insn"}
      /\ it.term.sym # NoSym /\ Meaning(it.term.sym) = {}
    BY <1>1 DEF Missing, Symbolic
<1>3. it.kind = "insn" => it.op \in DOMAIN Insns \ Simple
    BY <1>2, KindOf
<1>4. Refers(it)
    BY <1>2, <1>3 DEF Refers, Fielded, IsBranch
<1>5. PICK m \in 1..Len(fixes) : Meets(m, k)
    BY <1>2, <1>4 DEF Matched, Meets
<1>6. fixes[m].sym = it.term.sym
    BY <1>5 DEF Meets, Meant
<1>7. m \in Pending
    BY <1>2, <1>6, PendingMeans
<1>8. QED BY <1>2, <1>5, <1>7

LEMMA PendingMissing ==
    ASSUME Types, Naming, PlainIn(items), Matched(items, frags, fixes), job.relocs, NEW m \in Pending,
           Final(items, frags, FALSE)
    PROVE  m \in 1..Len(fixes) /\ \E k \in Missing : RelocOf(fixes[m]) = RelocAt(k)
<1>1. m \in 1..Len(fixes)
    BY PendingFinite
<1>2. PICK k \in 1..Len(items) : Meets(m, k)
    BY <1>1 DEF Matched, Meets
<1>3. /\ RelocOf(fixes[m]) = RelocAt(k) /\ fixes[m].sym = items[k].term.sym
      /\ items[k].kind \in {"data", "insn"}
    BY <1>1, <1>2, RelocMeets
<1>4. items[k].term.sym # NoSym /\ Meaning(items[k].term.sym) = {}
    BY <1>1, <1>3, PendingMeans
<1>5. k \in DOMAIN items
    BY DEF Types, ItemsOK
<1>6. k \in Missing
    BY <1>3, <1>4, <1>5 DEF Missing, Symbolic
<1>7. QED BY <1>1, <1>3, <1>6

\* nyxstone_glue_collect_relocs.
LEMMA CollectedAre ==
    ASSUME Types
    PROVE  \E A : Chosen(A, Len(fixes), Pending, [k \in DOMAIN fixes |-> RelocOf(fixes[k])], CollectRelocs)
<1> DEFINE x == [k \in DOMAIN fixes |-> RelocOf(fixes[k])]  n == Len(fixes)
           A == {x[k] : k \in 1..n}
           ps == [k \in 1..n |-> IF k \in Pending THEN <<x[k]>> ELSE <<>>]
<1>1. Pending \in SUBSET (1..n) /\ DOMAIN fixes = 1..n
    BY PendingFinite
<1>2. n \in Nat
    BY DEF Types, FixesOK
<1>3. \A k \in Pending : x[k] \in A
    BY <1>1
<1>4. CollectRelocs = FlattenSeq([k \in DOMAIN fixes |->
                        IF k \in Pending THEN <<RelocOf(fixes[k])>> ELSE <<>>])
    BY Zenon DEF CollectRelocs, RelocOf
<1>5. \A k \in 1..n : x[k] = RelocOf(fixes[k])
    BY <1>1
<1>6. ps = [k \in DOMAIN fixes |-> IF k \in Pending THEN <<RelocOf(fixes[k])>> ELSE <<>>]
    BY <1>1, <1>5
<1>7. CollectRelocs = FlattenSeq(ps)
    BY <1>4, <1>6
<1>8. ps = [k \in 1..n |-> IF k \in Pending THEN <<x[k]>> ELSE <<>>]
    OBVIOUS
<1> HIDE DEF ps, A, x, n
<1>9. Chosen(A, n, Pending, x, FlattenSeq(ps))
    BY <1>1, <1>2, <1>3, <1>8, ChosenList
<1>10. Chosen(A, n, Pending, x, CollectRelocs)
    BY <1>7, <1>9
<1>11. QED BY <1>10 DEF x, n

LEMMA SitesExact ==
    ASSUME Types, LayoutInv(FALSE), Naming, RelocInv, Succeeded, PlainIn(items),
           Len(result.bytes) <= Pow2(64)
    PROVE  /\ ToSet(result.relocs) = {RelocAt(k) : k \in Missing}
           /\ IsInjective(result.relocs)
<1> DEFINE all == result.relocs
<1>1. Final(items, frags, FALSE) /\ result.bytes = Image(frags)
    BY DEF LayoutInv, Succeeded
<1>2. /\ Matched(items, frags, fixes)
      /\ job.relocs => all = CollectRelocs
      /\ ~ job.relocs => all = <<>> /\ Pending = {}
    BY DEF RelocInv
<1>3. CASE ~ job.relocs
    <2>1. Missing = {}
        BY <1>2, <1>3, MissingPending
    <2>2. ToSet(<<>>) = {} /\ IsInjective(<<>>)
        BY DEF ToSet, IsInjective
    <2>3. QED BY <1>2, <1>3, <2>1, <2>2
<1>4. CASE job.relocs
    <2> DEFINE x == [k \in DOMAIN fixes |-> RelocOf(fixes[k])]
    <2>1. PICK A : Chosen(A, Len(fixes), Pending, x, all)
        BY <1>2, <1>4, CollectedAre
    <2>2. \A m \in Pending : m \in 1..Len(fixes) /\ x[m] = RelocOf(fixes[m])
        BY PendingFinite
    <2> HIDE DEF all, x
    <2>3. DOMAIN all = 1..Len(all)
        BY <2>1 DEF Chosen
    <2>4. ASSUME NEW i \in DOMAIN all PROVE \E k \in Missing : all[i] = RelocAt(k)
        <3>1. PICK m \in Pending : all[i] = x[m]
            BY <2>1, <2>3 DEF Chosen
        <3>2. PICK k \in Missing : RelocOf(fixes[m]) = RelocAt(k)
            BY <1>1, <1>2, <1>4, PendingMissing
        <3>3. QED BY <2>2, <3>1, <3>2
    <2>5. ASSUME NEW k \in Missing PROVE \E i \in DOMAIN all : all[i] = RelocAt(k)
        <3>1. PICK m \in Pending : k \in 1..Len(items) /\ m \in 1..Len(fixes) /\ Meets(m, k)
            BY <1>2, MissingPending
        <3>2. RelocOf(fixes[m]) = RelocAt(k)
            BY <1>1, <3>1, RelocMeets
        <3>3. PICK i \in 1..Len(all) : all[i] = x[m]
            BY <2>1 DEF Chosen
        <3>4. QED BY <2>2, <2>3, <3>2, <3>3
    <2>6. ToSet(all) = {RelocAt(k) : k \in Missing}
        BY <2>4, <2>5 DEF ToSet
    <2>7. ASSUME NEW i \in DOMAIN all, NEW j \in DOMAIN all, i # j PROVE all[i] # all[j]
        <3>1. \A s, t \in 1..Len(all) : s # t =>
                \E l, m \in Pending : l # m /\ all[s] = x[l] /\ all[t] = x[m]
            BY <2>1 DEF Chosen
        <3>2. PICK l \in Pending, m \in Pending : l # m /\ all[i] = x[l] /\ all[j] = x[m]
            BY <2>3, <2>7, <3>1
        <3>3. Distinct(fixes) /\ Len(Image(frags)) <= Pow2(64)
            BY <1>1, <1>2 DEF Matched
        <3>4. RelocOf(fixes[l]).offset # RelocOf(fixes[m]).offset
            BY <2>2, <3>2, <3>3, OffsetsApart DEF RelocOf
        <3>5. QED BY <2>2, <3>2, <3>4
    <2>8. IsInjective(all)
        BY <2>7 DEF IsInjective
    <2>9. QED BY <2>6, <2>8 DEF all
<1>5. QED BY <1>3, <1>4

\* .equ sets no name twice, and none to a name that .equ sets.
PlainEqus == PlainIn(items)
\* A length is a size_t.
Countable == Len(result.bytes) <= Pow2(64)

(* The relocations of a result are the fields whose symbol has no          *)
(* definition, each of them once, at its absolute address and with the     *)
(* address of the first LabelDefinition of that name                       *)
(* (nyxstone.cpp:598-617): whatever the branches have been relaxed to and  *)
(* the padding has been sized to, and in whatever order the text, the      *)
(* fixups of the parse and those of md_convert_frag were made.             *)
THEOREM RelocsExact == Spec => [](PlainEqus /\ Countable => RelocSites)
<1>1. Types /\ LayoutInv(FALSE) /\ Naming /\ RelocInv => (PlainEqus /\ Countable => RelocSites)
    <2> SUFFICES ASSUME Types, LayoutInv(FALSE), Naming, RelocInv, PlainEqus, Countable, Succeeded
                 PROVE  /\ ToSet(result.relocs) = {RelocAt(k) : k \in Missing}
                        /\ IsInjective(result.relocs)
        BY Zenon DEF RelocSites, RelocAt, Missing
    <2>1. QED BY SitesExact DEF PlainEqus, Countable
<1>2. QED BY <1>1, TypesHold, LayoutHolds, NamingHolds, RelocHolds, PTL

-----------------------------------------------------------------------------
(* A field that has been encoded reads back.                               *)

\* Encode puts nothing outside the field.
LEMMA PlacedInField ==
    ASSUME NEW form \in Forms, NEW v \in Word
    PROVE  Placed(form, v) \subseteq Field(form)
<1>1. ASSUME NEW b \in Placed(form, v) PROVE b \in Field(form)
    <2>1. Placed(form, v) \subseteq WordBits
        BY DEF Placed, Shift
    <2>2. b \in Int /\ v \in SUBSET Int
        BY <2>1 DEF WordBits, Word
    <2>3. PICK m \in Moves(form) : Goes(m, v, b)
        BY <2>2, PlacedBit
    <2>4. Covers(m, b)
        BY <2>3 DEF Goes, Covers
    <2>5. QED BY <2>2, <2>3, <2>4, FieldBit
<1>2. QED BY <1>1

\* A byte of a word, back in its place.
LEMMA ByteBack ==
    ASSUME NEW w \in Word, NEW j \in 0..7, NEW b \in Int
    PROVE  b \in Shift(ByteOf(w, j), 8 * j) <=> b \in w /\ 8 * j <= b /\ b < 8 * j + 8
<1>1. w \in SUBSET Int /\ ByteOf(w, j) \in SUBSET Int /\ 8 * j \in Int /\ -8 * j \in Int
      /\ w \subseteq WordBits
    BY DEF Word, WordBits, ByteOf
<1> DEFINE c == b - 8 * j
<1>2. c \in Int /\ c - (-8 * j) = b
    OBVIOUS
<1>3. b \in Shift(ByteOf(w, j), 8 * j) <=> b \in WordBits /\ c \in ByteOf(w, j)
    BY <1>1, ShiftBit
<1>4. c \in ByteOf(w, j) <=> c \in Shift(w, -8 * j) /\ c \in 0..7
    BY DEF ByteOf
<1>5. c \in Shift(w, -8 * j) <=> c \in WordBits /\ b \in w
    BY <1>1, <1>2, ShiftBit
<1>6. c \in 0..7 <=> 8 * j <= b /\ b < 8 * j + 8
    BY <1>2
<1>7. c \in 0..7 => c \in WordBits
    BY DEF WordBits
<1> HIDE DEF c
<1>8. QED BY <1>1, <1>3, <1>4, <1>5, <1>6, <1>7

\* rd_le and wr_le.
LEMMA ReadWritten ==
    ASSUME NEW buf \in Seq(Byte), NEW at \in Nat, NEW n \in {1, 2, 4}, at + n <= Len(buf),
           NEW w \in Word, w \subseteq 0..(8 * n - 1)
    PROVE  RdLe(WrLe(buf, at, n, w), at, n) = w
<1> DEFINE new == WrLe(buf, at, n, w)
<1>1. ASSUME NEW i \in 1..n PROVE new[at + i] = ByteOf(w, i - 1)
    <2>1. at + i \in DOMAIN buf /\ at + i \in (at + 1)..(at + n) /\ at + i - at - 1 = i - 1
        OBVIOUS
    <2>2. QED BY <2>1 DEF WrLe
<1> HIDE DEF new
<1>2. \A b : b \in RdLe(new, at, n) <=> \E i \in 1..n : b \in Shift(new[at + i], 8 * (i - 1))
    BY DEF RdLe
<1>3. ASSUME NEW b \in RdLe(new, at, n) PROVE b \in Int
    <2>1. PICK i \in 1..n : b \in Shift(new[at + i], 8 * (i - 1))
        BY <1>2
    <2>2. b \in WordBits
        BY <2>1 DEF Shift
    <2>3. QED BY <2>2 DEF WordBits
<1>4. ASSUME NEW b \in Int, NEW i \in 1..n
      PROVE  b \in Shift(new[at + i], 8 * (i - 1)) <=> b \in w /\ 8 * (i - 1) <= b /\ b < 8 * i
    <2>1. i - 1 \in 0..7
        OBVIOUS
    <2>2. b \in Shift(ByteOf(w, i - 1), 8 * (i - 1))
            <=> b \in w /\ 8 * (i - 1) <= b /\ b < 8 * (i - 1) + 8
        BY <2>1, ByteBack
    <2>3. 8 * (i - 1) + 8 = 8 * i
        OBVIOUS
    <2>4. QED BY <1>1, <2>2, <2>3
<1>5. ASSUME NEW b \in w PROVE b \in Int /\ \E i \in 1..n : 8 * (i - 1) <= b /\ b < 8 * i
    <2>1. b \in 0..(8 * n - 1)
        OBVIOUS
    <2>2. CASE b < 8
        BY <2>1, <2>2
    <2>3. CASE b >= 8 /\ b < 16
        <3>1. n # 1
            BY <2>1, <2>3
        <3>2. 2 \in 1..n /\ 8 * (2 - 1) <= b /\ b < 8 * 2
            BY <2>3, <3>1
        <3>3. QED BY <2>1, <3>2
    <2>4. CASE b >= 16
        <3>1. n = 4 /\ b < 32
            BY <2>1, <2>4
        <3>2. CASE b < 24
            <4>1. 3 \in 1..n /\ 8 * (3 - 1) <= b /\ b < 8 * 3
                <5>1. 3 \in 1..n
                    BY <3>1
                <5>2. QED BY <2>1, <2>4, <3>2, <5>1
            <4>2. b \in Int
                BY <2>1
            <4>3. \E i \in 1..n : 8 * (i - 1) <= b /\ b < 8 * i
                BY <4>1, Zenon
            <4>4. QED BY <4>2, <4>3
        <3>3. CASE b >= 24
            <4>1. 4 \in 1..n /\ 8 * (4 - 1) <= b /\ b < 8 * 4
                BY <2>1, <3>1, <3>3
            <4>2. QED BY <2>1, <4>1
        <3>4. QED BY <2>1, <3>2, <3>3
    <2>5. QED BY <2>1, <2>2, <2>3, <2>4
<1>6. \A b : b \in RdLe(new, at, n) <=> b \in w
    BY <1>2, <1>3, <1>4, <1>5
<1>7. QED BY <1>6 DEF new

\* The bits that are read.
LEMMA ReadTyped ==
    ASSUME NEW buf \in Seq(Byte), NEW at \in Nat, NEW n \in {1, 2, 4}, at + n <= Len(buf)
    PROVE  RdLe(buf, at, n) \in Word /\ RdLe(buf, at, n) \subseteq 0..(8 * n - 1)
<1>1. ASSUME NEW b \in RdLe(buf, at, n) PROVE b \in WordBits /\ b \in 0..(8 * n - 1)
    <2>1. PICK i \in 1..n : b \in Shift(buf[at + i], 8 * (i - 1))
        BY DEF RdLe
    <2>2. buf[at + i] \in Byte
        OBVIOUS
    <2>3. PICK c \in 0..7 : b = c + 8 * (i - 1) /\ b \in WordBits
        BY <2>1, <2>2 DEF Shift, Byte
    <2>4. QED BY <2>3
<1>2. QED BY <1>1 DEF Word

\* What is encoded reads back.
LEMMA FieldHolds ==
    ASSUME NEW buf \in Seq(Byte), NEW at \in Nat, NEW form \in Forms, NEW v \in Word,
           Legal(form, v), at + FieldLength(form, buf[at + 1]) <= Len(buf),
           Field(form) \subseteq 0..(8 * FieldLength(form, buf[at + 1]) - 1)
    PROVE  Holds(form, RdLe(EncodeAt(buf, at, form, v), at, FieldLength(form, buf[at + 1])), v)
<1> DEFINE n == FieldLength(form, buf[at + 1])
           op == RdLe(buf, at, n)
           w == Encode(form, op, v)
<1>1. n \in {1, 2, 4} /\ at + n <= Len(buf) /\ Field(form) \subseteq 0..(8 * n - 1)
    BY InsnFields
<1>2. EncodeAt(buf, at, form, v) = WrLe(buf, at, n, w)
    BY DEF EncodeAt
<1> HIDE DEF n
<1>3. op \in Word /\ op \subseteq 0..(8 * n - 1)
    BY <1>1, ReadTyped
<1>4. Adjusted(form, v) \in Word
    <2>1. {15} \in Word
        BY DEF Word, WordBits
    <2>2. QED BY <2>1, WordOps DEF Adjusted
<1>5. Placed(form, Adjusted(form, v)) \subseteq 0..(8 * n - 1)
    BY <1>1, <1>4, PlacedInField
<1>6. Placed(form, Adjusted(form, v)) \subseteq WordBits
    BY DEF Placed, Shift
<1>7. w \in Word /\ w \subseteq 0..(8 * n - 1)
    BY <1>3, <1>5, <1>6 DEF Encode, Word
<1>8. RdLe(WrLe(buf, at, n, w), at, n) = w
    BY <1>1, <1>7, ReadWritten
<1>9. Holds(form, w, v)
    BY <1>3, FieldReadsBack
<1>10. QED BY <1>2, <1>8, <1>9 DEF n

\* The field of a fixup lies in the bytes that are read for it.
Wide(it, f, o) == Refers(it) /\ FormIn(it, f) # "64" =>
    Field(FormIn(it, f))
      \subseteq 0..(8 * FieldLength(FormIn(it, f), f.lit[o + FieldStart(it, f) + 1]) - 1)
WideFields(its, frs) ==
    \A k \in 1..Len(its) : Wide(its[k], frs[FragOf(its)[k]], PlaceOf(its)[k])

LEMMA DataWide ==
    ASSUME NEW w \in Widths, DataForm(w) # "64", NEW b
    PROVE  Field(DataForm(w)) \subseteq 0..(8 * FieldLength(DataForm(w), b) - 1)
<1>1. CASE w = 1
    <2>1. DataForm(w) = "8ABS"
        BY <1>1 DEF DataForm
    <2>2. Moves("8ABS") = {<<0, 8, 0>>} /\ FieldLength("8ABS", b) = 1
        <3>1. Moves("8ABS") = {<<0, 8, 0>>}
            BY DEF Moves, RefusedForms
        <3>2. FieldLength("8ABS", b) = 1
            BY DEF FieldLength
        <3>3. QED BY <3>1, <3>2
    <2>3. Field("8ABS") \subseteq 0..7
        BY <2>2 DEF Field
    <2>4. QED BY <2>1, <2>2, <2>3
<1>2. CASE w = 2
    <2>1. DataForm(w) = "16ABS"
        BY <1>2 DEF DataForm
    <2>2. Moves("16ABS") = {<<0, 16, 0>>} /\ FieldLength("16ABS", b) = 2
        <3>1. Moves("16ABS") = {<<0, 16, 0>>}
            BY DEF Moves, RefusedForms
        <3>2. FieldLength("16ABS", b) = 2
            BY DEF FieldLength
        <3>3. QED BY <3>1, <3>2
    <2>3. Field("16ABS") \subseteq 0..15
        BY <2>2 DEF Field
    <2>4. QED BY <2>1, <2>2, <2>3
<1>3. CASE w = 4
    <2>1. DataForm(w) = "32ABS"
        BY <1>3 DEF DataForm
    <2>2. Moves("32ABS") = {<<0, 32, 0>>} /\ FieldLength("32ABS", b) = 4
        <3>1. Moves("32ABS") = {<<0, 32, 0>>}
            BY DEF Moves, RefusedForms
        <3>2. FieldLength("32ABS", b) = 4
            BY DEF FieldLength
        <3>3. QED BY <3>1, <3>2
    <2>3. Field("32ABS") \subseteq 0..31
        BY <2>2 DEF Field
    <2>4. QED BY <2>1, <2>2, <2>3
<1>4. CASE w = 8
    BY <1>4 DEF DataForm
<1>5. QED BY <1>1, <1>2, <1>3, <1>4 DEF Widths

LEMMA Wides ==
    ASSUME NEW d, NEW it \in Items, NEW f, FragOK(f), NEW g \in FragRecords, NEW l,
           Becomes(f, g, l), NEW o \in Nat, InFrag(it, f, o, d)
    PROVE  Wide(it, g, o)
<1>1. CASE it.kind = "data"
    <2>1. it.width \in Widths /\ ~ IsBranch(it)
        BY <1>1, KindOf DEF IsBranch
    <2>2. FormIn(it, g) = DataForm(it.width)
        BY <1>1, <2>1 DEF FormIn, FormOf
    <2>3. QED BY <2>1, <2>2, DataWide DEF Wide
<1>2. CASE it.kind = "insn" /\ it.op \notin Branches \cup Simple
    <2> DEFINE bs == Insns[it.op].bytes  form == Insns[it.op].form
    <2>1. it.op \in DOMAIN Insns \ Branches /\ it.op \notin Simple /\ ~ IsBranch(it)
        BY <1>2, KindOf DEF IsBranch
    <2>2. bs \in Seq(Byte) /\ Len(bs) > 0 /\ form \in InsnForms
        BY <2>1, InsnIs
    <2>3. Field(form) \subseteq 0..(8 * InsnLength(bs[1]) - 1)
        BY <2>1, FieldTable
    <2>4. /\ FieldStart(it, g) = 0 /\ FormIn(it, g) = form
          /\ Fixed(it) = Len(bs) /\ Stored(it) = bs /\ Written(it, d)
        BY <1>2, <2>1 DEF FieldStart, FormIn, FormOf, Fixed, Stored, Written
    <2> HIDE DEF bs, form
    <2>5. 1 \in 1..Fixed(it) /\ o + Fixed(it) <= Own(f)
        BY <2>2, <2>4 DEF InFrag
    <2>6. f.lit[o + 1] = bs[1]
        BY <2>4, <2>5 DEF InFrag
    <2>7. Own(f) \in Int
        BY LitOf DEF FragOK
    <2>8. o + 1 \in 1..Own(f)
        BY <2>2, <2>4, <2>5, <2>7
    <2>9. g.lit[o + 1] = bs[1]
        BY <2>6, <2>8 DEF Becomes
    <2>10. FieldLength(form, g.lit[o + 1]) = InsnLength(bs[1])
        BY <2>2, <2>9, InsnFields
    <2>11. o + 0 + 1 = o + 1
        OBVIOUS
    <2>12. QED BY <2>3, <2>4, <2>10, <2>11 DEF Wide
<1>3. CASE IsBranch(it)
    <2> DEFINE s == Shape[f.sub]  op == Opcode(f)  x == InsnLength(op[s.at + 1])
    <2>1. f.type = "machine" /\ Own(f) = o
        BY <1>3 DEF InFrag
    <2>2. f.op \in Branches /\ f.sub \in DOMAIN Insns[f.op].opcode
        BY <2>1 DEF FragOK, MachineOK
    <2>3. s.at \in Nat /\ s.size \in Nat /\ s.at + x <= s.size /\ f.sub \in States
        BY <2>2, InsnIs DEF Opcode
    <2>4. s.form \in RelForms \ DataForms
        BY <2>3, RelaxTable
    <2>5. s.form \in InsnForms /\ s.form \in FixForms
        BY <2>4, InsnFields DEF FixForms
    <2>6. g.sub = f.sub /\ \A j \in 1..s.size : g.lit[o + j] = op[j]
        BY <2>1 DEF Becomes
    <2>7. FieldStart(it, g) = s.at /\ FormIn(it, g) = s.form
        BY <1>3, <2>6 DEF FieldStart, FormIn
    <2>8. Field(s.form) \subseteq 0..(8 * x - 1)
        BY <2>2, FieldTable DEF Opcode
    <2>9. x \in {2, 4}
        BY InsnFields
    <2> HIDE DEF s, op
    <2>10. s.at + 1 \in 1..s.size
        <3> HIDE DEF x
        <3>1. QED BY <2>3, <2>9
    <2>11. g.lit[o + (s.at + 1)] = op[s.at + 1]
        BY <2>6, <2>10
    <2>12. o + (s.at + 1) = o + s.at + 1
        BY <2>3
    <2>13. FieldLength(s.form, g.lit[o + s.at + 1]) = x
        BY <2>5, <2>11, <2>12, InsnFields
    <2> HIDE DEF x
    <2>14. QED BY <2>7, <2>8, <2>13 DEF Wide
<1>4. CASE ~ Refers(it)
    BY <1>4 DEF Wide
<1>5. QED BY <1>1, <1>2, <1>3, <1>4 DEF Refers, Fielded

LEMMA ConvertWide ==
    ASSUME Types, Reads(FALSE), ConvertAndFinalize
    PROVE  WideFields(items, frags)'
<1> DEFINE gs == Finalized(ConvertedChain)
<1>1. phase = "relaxing" /\ frags' = gs /\ items' = items
    BY ConvertIs
<1>2. FragsOK(ConvertedChain) /\ Len(ConvertedChain) = Len(frags)
    BY ConvertedChainTyped
<1>3. gs \in Seq(FragRecords) /\ Len(gs) = Len(frags)
    BY <1>2, FinalizedChain
<1>4. FragsOK(frags) /\ items \in Seq(Items) /\ Len(frags) \in Nat
    BY DEF Types, ChainOK, ItemsOK, FragsOK
<1>5. \A i \in 1..Len(frags) : Becomes(frags[i], gs[i], Layout(gs)[i])
    BY <1>1, ConvertedBecomes
<1>6. InPlace(items, frags, FALSE)
    BY DEF Reads, Sited
<1> HIDE DEF gs
<1>7. ASSUME NEW k \in 1..Len(items)
      PROVE  Wide(items[k], gs[FragOf(items)[k]], PlaceOf(items)[k])
    <2> DEFINE i == FragOf(items)[k]  o == PlaceOf(items)[k]
    <2>1. i \in 1..Len(frags) /\ InFrag(items[k], frags[i], o, FALSE)
        BY <1>6 DEF InPlace
    <2>2. o \in Nat
        <3>1. k \in 1..Len(items) + 1
            BY <1>4
        <3>2. QED BY <1>4, <3>1, SpotsTyped
    <2>3. items[k] \in Items /\ FragOK(frags[i]) /\ gs[i] \in FragRecords
          /\ Becomes(frags[i], gs[i], Layout(gs)[i])
        BY <1>3, <1>4, <1>5, <2>1 DEF FragsOK
    <2> HIDE DEF i, o
    <2>4. Wide(items[k], gs[i], o)
        BY <2>1, <2>2, <2>3, Wides
    <2>5. QED BY <2>4 DEF i, o
<1>8. QED BY <1>1, <1>7 DEF WideFields

\* Where a field lies in its frag and in the image.
LEMMA FieldIn ==
    ASSUME NEW d, NEW its \in Seq(Items), NEW frs \in Seq(FragRecords), Final(its, frs, d),
           NEW k \in 1..Len(its), Refers(its[k]),
           Room(its[k], frs[FragOf(its)[k]], PlaceOf(its)[k]),
           Wide(its[k], frs[FragOf(its)[k]], PlaceOf(its)[k])
    PROVE  LET i == FragOf(its)[k]  form == FormAt(its, frs, k)
               w == PlaceOf(its)[k] + FieldStart(its[k], frs[i])
               b == Layout(frs)[i] + w
               n == FieldLength(form, Image(frs)[b + 1])
           IN /\ i \in 1..Len(frs) /\ w \in Nat /\ b \in Nat /\ n \in {1, 2, 4}
              /\ w + n <= FixSize(frs[i]) /\ form \in FixForms
              /\ AddressIn(its, frs)[k] <= b /\ b + n <= AddressIn(its, frs)[k + 1]
              /\ form # "64" => Field(form) \subseteq 0..(8 * n - 1)
<1> DEFINE it == its[k]  i == FragOf(its)[k]  f == frs[i]  o == PlaceOf(its)[k]
           l == Layout(frs)[i]  s == FieldStart(it, f)  form == FormIn(it, f)  im == Image(frs)
           n == FieldLength(form, f.lit[o + s + 1])  w == o + s  b == l + w
           a == AddressIn(its, frs)[k]  e == AddressIn(its, frs)[k + 1]
<1>1. /\ i \in 1..Len(frs) /\ it \in Items /\ o \in Nat
      /\ Settled(it, i, f, l, o, a, e, d)
    BY DEF Final
<1>2. f \in FragRecords
    BY <1>1
<1>3. l \in Nat
    <2>1. i \in 1..Len(frs) + 1
        BY <1>1
    <2>2. QED BY <2>1, LayoutRun
<1>4. s \in Nat /\ form \in FixForms /\ s + n <= Extent(it, f)
    BY DEF Room
<1>5. n \in {1, 2, 4}
    BY InsnFields
<1>6. a = l + o /\ e = a + Extent(it, f) /\ o + Extent(it, f) <= FixSize(f) /\ Extent(it, f) \in Nat
    <2>1. CASE IsBranch(it)
        <3>1. Extent(it, f) = Shape[f.sub].size
            BY <2>1 DEF Extent
        <3>2. a = l + o /\ FixSize(f) = o + Shape[f.sub].size /\ e = a + Shape[f.sub].size
              /\ Shape[f.sub].size \in Nat
            BY <1>1, <2>1 DEF Settled
        <3>3. QED BY <1>1, <3>1, <3>2
    <2>2. CASE ~ IsBranch(it)
        <3>1. Extent(it, f) = Fixed(it) /\ Fixed(it) \in Nat
            BY <1>1, <2>2, FixedNat DEF Extent
        <3>2. ~ Shuts(it)
            BY <2>2 DEF Shuts, Refers, Fielded
        <3>3. a = l + o /\ o + Fixed(it) <= FixSize(f) /\ e = a + Fixed(it)
            BY <1>1, <3>2 DEF Settled
        <3>4. QED BY <3>1, <3>3
    <2>3. QED BY <2>1, <2>2
<1>7. FixSize(f) \in Nat /\ \A j \in 1..FixSize(f) : im[l + j] = f.lit[j]
    BY <1>1, <1>2, SizesTyped, ImageIs
<1>8. FormAt(its, frs, k) = form /\ form # "64" => Field(form) \subseteq 0..(8 * n - 1)
    BY DEF FormAt, Wide
<1>9. FormAt(its, frs, k) = form
    BY DEF FormAt
<1> HIDE DEF it, i, f, o, l, a, e, s, form, im, n
<1>10. w \in Nat /\ b \in Nat /\ b = a + s /\ w + 1 \in 1..FixSize(f) /\ w + n <= FixSize(f)
    BY <1>1, <1>3, <1>4, <1>5, <1>6, <1>7
<1>11. im[l + (w + 1)] = f.lit[w + 1]
    BY <1>7, <1>10
<1>12. l + (w + 1) = b + 1 /\ w + 1 = o + s + 1
    BY <1>1, <1>3, <1>4
<1>13. FieldLength(form, im[b + 1]) = n
    BY <1>11, <1>12 DEF n
<1>14. a <= b /\ b + n <= e
    BY <1>1, <1>3, <1>4, <1>5, <1>6
<1> HIDE DEF w, b
<1>15. /\ i \in 1..Len(frs) /\ w \in Nat /\ b \in Nat
       /\ FieldLength(form, im[b + 1]) \in {1, 2, 4}
       /\ w + FieldLength(form, im[b + 1]) <= FixSize(f) /\ form \in FixForms
       /\ a <= b /\ b + FieldLength(form, im[b + 1]) <= e
       /\ form # "64" => Field(form) \subseteq 0..(8 * FieldLength(form, im[b + 1]) - 1)
    BY <1>1, <1>4, <1>5, <1>8, <1>9, <1>10, <1>13, <1>14
<1>16. QED BY <1>9, <1>15, Zenon DEF it, i, f, o, l, a, e, s, form, im, w, b

-----------------------------------------------------------------------------
(* Fields that lie apart, encoded one after the other.                     *)

Fitting(E, z, at, form, v, len) ==
    \A m \in E : /\ at[m] \in Nat /\ len[m] \in {1, 2, 4} /\ at[m] + len[m] <= z
                 /\ form[m] \in InsnForms \cup DataForms /\ v[m] \in Word
                 /\ Legal(form[m], v[m]) /\ Field(form[m]) \subseteq 0..(8 * len[m] - 1)
Apart(E, at, len) ==
    \A l, m \in E : l # m => at[l] + len[l] <= at[m] \/ at[m] + len[m] <= at[l]
\* A buffer whose fields have their lengths; those of D hold their values.
Encoded(E, D, z, at, form, v, len, buf) ==
    /\ buf \in Seq(Byte) /\ Len(buf) = z
    /\ \A m \in E : FieldLength(form[m], buf[at[m] + 1]) = len[m]
    /\ \A m \in D : Holds(form[m], RdLe(buf, at[m], len[m]), v[m])

LEMMA EncodeOne ==
    ASSUME NEW E, NEW D \in SUBSET E, NEW z \in Nat, NEW at, NEW form, NEW v, NEW len,
           Fitting(E, z, at, form, v, len), Apart(E, at, len),
           NEW buf, Encoded(E, D, z, at, form, v, len, buf), NEW k \in E
    PROVE  Encoded(E, D \cup {k}, z, at, form, v, len, EncodeAt(buf, at[k], form[k], v[k]))
<1> DEFINE new == EncodeAt(buf, at[k], form[k], v[k])  n == FieldLength(form[k], buf[at[k] + 1])
<1>1. /\ buf \in Seq(Byte) /\ Len(buf) = z /\ n = len[k]
      /\ \A m \in E : FieldLength(form[m], buf[at[m] + 1]) = len[m]
      /\ \A m \in D : Holds(form[m], RdLe(buf, at[m], len[m]), v[m])
    BY DEF Encoded
<1>2. /\ at[k] \in Nat /\ len[k] \in {1, 2, 4} /\ at[k] + len[k] <= z /\ v[k] \in Word
      /\ form[k] \in InsnForms \cup DataForms /\ Legal(form[k], v[k])
      /\ Field(form[k]) \subseteq 0..(8 * len[k] - 1)
    BY DEF Fitting
<1>3. form[k] \in Forms
    BY <1>2 DEF Forms
<1>4. new \in Seq(Byte) /\ Len(new) = z
    BY <1>1, EncodeTyped
<1>5. Holds(form[k], RdLe(new, at[k], len[k]), v[k])
    <2>1. at[k] + n <= Len(buf) /\ Field(form[k]) \subseteq 0..(8 * n - 1)
        BY <1>1, <1>2
    <2>2. Holds(form[k], RdLe(new, at[k], n), v[k])
        BY <1>1, <1>2, <1>3, <2>1, FieldHolds
    <2> HIDE DEF new, n
    <2>3. QED BY <1>1, <2>2
<1>6. ASSUME NEW m \in E, m # k
      PROVE  /\ FieldLength(form[m], new[at[m] + 1]) = len[m]
             /\ RdLe(new, at[m], len[m]) = RdLe(buf, at[m], len[m])
    <2>1. at[m] \in Nat /\ len[m] \in {1, 2, 4} /\ at[m] + len[m] <= z
        BY DEF Fitting
    <2>2. at[k] + len[k] <= at[m] \/ at[m] + len[m] <= at[k]
        BY <1>6 DEF Apart
    <2> DEFINE p == at[m]  x == len[m]  q == at[k]  y == len[k]
    <2>3. p \in Nat /\ x \in {1, 2, 4} /\ p + x <= z /\ q \in Nat /\ y \in {1, 2, 4}
          /\ (q + y <= p \/ p + x <= q)
        BY <1>2, <2>1, <2>2
    <2> HIDE DEF p, x, q, y, new
    <2>4. \A j \in 1..x : p + j \notin (q + 1)..(q + y) /\ p + j \in 1..z
        BY <2>3
    <2>5. n = y /\ at[k] = q
        BY <1>1 DEF y, q
    <2>6. \A j \in 1..x : p + j \notin (at[k] + 1)..(at[k] + n)
        BY <2>4, <2>5
    <2>7. RdLe(new, p, x) = RdLe(buf, p, x)
        <3>1. ASSUME NEW j \in 1..x PROVE new[p + j] = buf[p + j]
            <4>1. p + j \in 1..Len(buf) /\ p + j \notin (at[k] + 1)..(at[k] + n)
                BY <1>1, <2>4, <2>6
            <4>2. QED BY <1>1, <4>1, EncodeOutside DEF new
        <3>2. QED BY <3>1 DEF RdLe
    <2>8. new[p + 1] = buf[p + 1]
        <3>1. 1 \in 1..x
            BY <2>3
        <3>2. p + 1 \in 1..Len(buf) /\ p + 1 \notin (at[k] + 1)..(at[k] + n)
            BY <1>1, <2>4, <2>6, <3>1
        <3>3. QED BY <1>1, <3>2, EncodeOutside DEF new
    <2>9. QED BY <1>1, <2>7, <2>8 DEF p, x
<1>7. FieldLength(form[k], new[at[k] + 1]) = len[k]
    <2>1. CASE form[k] \in InsnForms
        <3>1. at[k] + n <= Len(buf)
            BY <1>1, <1>2
        <3>2. 0 \in new[at[k] + 1] <=> 0 \in buf[at[k] + 1]
            BY <1>1, <1>2, <2>1, <3>1, EncodeFirst
        <3> HIDE DEF new
        <3>3. InsnLength(new[at[k] + 1]) = InsnLength(buf[at[k] + 1])
            BY <3>2 DEF InsnLength
        <3>4. QED BY <1>1, <2>1, <3>3, InsnFields
    <2>2. CASE form[k] \in DataForms
        <3>1. form[k] \in {"32ABS", "32REL"} \/ form[k] = "16ABS" \/ form[k] = "8ABS"
            BY <2>2 DEF DataForms
        <3> HIDE DEF new
        <3>2. FieldLength(form[k], new[at[k] + 1]) = n
            BY <3>1 DEF FieldLength
        <3>3. QED BY <1>1, <3>2
    <2>3. QED BY <1>2, <2>1, <2>2
<1> HIDE DEF new
<1>8. \A m \in E : FieldLength(form[m], new[at[m] + 1]) = len[m]
    BY <1>6, <1>7
<1>9. \A m \in D \cup {k} : Holds(form[m], RdLe(new, at[m], len[m]), v[m])
    BY <1>1, <1>5, <1>6
<1>10. QED BY <1>4, <1>8, <1>9 DEF Encoded, new

LEMMA EncodeAll ==
    ASSUME NEW n \in Nat, NEW E \in SUBSET (1..n), NEW z \in Nat, NEW at, NEW form, NEW v, NEW len,
           Fitting(E, z, at, form, v, len), Apart(E, at, len),
           NEW buf, Encoded(E, {}, z, at, form, v, len, buf),
           NEW s, \A m \in 1..n : \A x \in Seq(Byte) :
             s[m][x] = IF m \in E THEN EncodeAt(x, at[m], form[m], v[m]) ELSE x
    PROVE  Encoded(E, E, z, at, form, v, len, After(n, buf, s))
<1> DEFINE g == Before(n, buf, s)
           D(i) == {m \in E : m < i}
           S == {i \in Nat : i + 1 <= n + 1 => Encoded(E, D(i + 1), z, at, form, v, len, g[i + 1])}
<1>1. buf \in Seq(Byte)
    BY DEF Encoded
<1>2. \A m \in 1..n : \A x \in Seq(Byte) : s[m][x] \in Seq(Byte)
    BY EncodeTyped
<1>3. Runs(n, Seq(Byte), buf, s, g)
    BY <1>1, <1>2, BeforeIs
<1> HIDE DEF g
<1>4. 0 \in S
    <2>1. g[1] = buf
        BY <1>3 DEF Runs
    <2>2. ASSUME NEW m \in D(1) PROVE FALSE
        <3>1. m \in 1..n /\ m < 1
            OBVIOUS
        <3>2. QED BY <3>1
    <2>3. 0 + 1 = 1
        OBVIOUS
    <2> HIDE DEF D
    <2>4. D(1) = {}
        BY <2>2
    <2>5. Encoded(E, D(0 + 1), z, at, form, v, len, g[0 + 1])
        BY <2>1, <2>3, <2>4
    <2>6. QED BY <2>5
<1>5. ASSUME NEW i \in Nat, i \in S PROVE i + 1 \in S
    <2> SUFFICES ASSUME i + 1 + 1 <= n + 1
                 PROVE  Encoded(E, D(i + 1 + 1), z, at, form, v, len, g[i + 1 + 1])
        OBVIOUS
    <2> DEFINE j == i + 1
    <2>1. j \in 1..n
        OBVIOUS
    <2>2. Encoded(E, D(j), z, at, form, v, len, g[j])
        BY <1>5, <2>1
    <2>3. D(j) \in SUBSET E /\ \A m \in E : m \in D(j + 1) <=> m \in D(j) \/ m = j
        <3>1. \A m \in E : m \in Int
            OBVIOUS
        <3>2. D(j) \in SUBSET E
            OBVIOUS
        <3>3. ASSUME NEW m \in E PROVE m \in D(j + 1) <=> m \in D(j) \/ m = j
            <4>1. m \in Int /\ j \in Int
                BY <2>1, <3>1
            <4>2. m < j + 1 <=> m < j \/ m = j
                BY <4>1
            <4>3. (m \in D(j + 1) <=> m < j + 1) /\ (m \in D(j) <=> m < j)
                OBVIOUS
            <4>4. QED BY <4>2, <4>3
        <3>4. QED BY <3>2, <3>3
    <2>4. D(j + 1) \in SUBSET E
        OBVIOUS
    <2> HIDE DEF j, D
    <2>5. g[j + 1] = s[j][g[j]] /\ g[j] \in Seq(Byte)
        BY <1>3, <2>1, RunAt
    <2>6. CASE j \in E
        <3>1. g[j + 1] = EncodeAt(g[j], at[j], form[j], v[j])
            BY <2>1, <2>5, <2>6
        <3>2. D(j) \cup {j} = D(j + 1)
            BY <2>3, <2>4, <2>6
        <3>3. Encoded(E, D(j) \cup {j}, z, at, form, v, len, EncodeAt(g[j], at[j], form[j], v[j]))
            BY <2>2, <2>3, <2>6, EncodeOne
        <3>4. QED BY <3>1, <3>2, <3>3 DEF j
    <2>7. CASE j \notin E
        <3>1. g[j + 1] = g[j]
            BY <2>1, <2>5, <2>7
        <3>2. D(j + 1) = D(j)
            BY <2>3, <2>4, <2>7
        <3>3. QED BY <2>2, <3>1, <3>2 DEF j
    <2>8. QED BY <2>6, <2>7
<1> HIDE DEF S
<1>6. n \in S
    BY <1>4, <1>5, SetInduction
<1>7. Encoded(E, D(n + 1), z, at, form, v, len, g[n + 1])
    BY <1>6 DEF S
<1>8. D(n + 1) = E
    <2>1. \A m \in E : m \in 1..n
        OBVIOUS
    <2>2. \A m \in E : m < n + 1
        BY <2>1
    <2>3. QED BY <2>2
<1>9. After(n, buf, s) = g[n + 1]
    BY DEF After, g
<1> HIDE DEF D
<1>10. QED BY <1>7, <1>8, <1>9

-----------------------------------------------------------------------------
(* apply_text_fixups, from the outside.                                    *)

LEMMA ResolvedTyped ==
    ASSUME SymsTyped, NEW s \in SymVals
    PROVE  Resolved(s) \in SymVals \X Word
<1> DEFINE n == Cardinality(DOMAIN syms)
           steps == [k \in 1..n |-> [r \in (Symbols \cup {NoSym}) \X Word |-> Behind(r)]]
<1>1. n \in Nat
    BY FS_CardinalityType DEF SymsTyped
<1>2. <<s, {}>> \in SymVals \X Word
    BY DEF Word
<1>3. ASSUME NEW r \in SymVals \X Word PROVE Behind(r) \in SymVals \X Word
    <2>1. r[1] \in SymVals /\ r[2] \in Word
        OBVIOUS
    <2>2. CASE r[1] \in DOMAIN syms /\ syms[r[1]].seg = "alias"
        <3>1. syms[r[1]] \in SymbolRecords
            BY <2>2 DEF SymsTyped
        <3>2. syms[r[1]].of \in SymVals /\ syms[r[1]].val \in Word
            BY <3>1 DEF SymbolRecords
        <3>3. Plus(r[2], syms[r[1]].val) \in Word
            BY <2>1, <3>2, WordOps
        <3>4. Behind(r) = <<syms[r[1]].of, Plus(r[2], syms[r[1]].val)>>
            BY <2>2 DEF Behind
        <3>5. QED BY <3>2, <3>3, <3>4
    <2>3. CASE ~ (r[1] \in DOMAIN syms /\ syms[r[1]].seg = "alias")
        <3>1. Behind(r) = r
            BY <2>3 DEF Behind
        <3>2. QED BY <3>1
    <2>4. QED BY <2>2, <2>3
<1>4. \A k \in 1..n : \A r \in SymVals \X Word : steps[k][r] \in SymVals \X Word
    BY <1>3 DEF SymVals
<1>5. Resolved(s) = After(n, <<s, {}>>, steps)
    BY DEF Resolved
<1> HIDE DEF n, steps
<1>6. QED BY <1>1, <1>2, <1>4, <1>5, AfterIs

LEMMA FieldValueTyped ==
    ASSUME Types, NEW m \in Known
    PROVE  m \in 1..Len(fixes) /\ FieldValue(fixes[m]) \in Word
<1> DEFINE fx == fixes[m]  r == Root(fx.sym)  d == syms[r]
<1>1. m \in 1..Len(fixes) /\ IsDefined(fx.sym)
    <2>1. DOMAIN fixes = 1..Len(fixes)
        BY DEF Types, FixesOK
    <2>2. QED BY <2>1 DEF Known
<1>2. fx.sym \in SymVals /\ fx.add \in Word
    <2>1. fx \in Fixups
        BY <1>1 DEF Types, FixesOK
    <2>2. QED BY <2>1 DEF Fixups
<1>3. SymsTyped /\ job.base \in Word
    BY JobTypes DEF Types, SymbolsOK
<1>4. Resolved(fx.sym)[2] \in Word
    BY <1>2, <1>3, ResolvedTyped
<1>5. r \in DOMAIN syms
    BY <1>1 DEF IsDefined, HasValue
<1>6. d.val \in Word
    <2>1. d \in SymbolRecords
        BY <1>3, <1>5 DEF SymsTyped
    <2>2. QED BY <2>1 DEF SymbolRecords
<1>7. ValueOf(d) \in Word
    <2>1. \A n : Plus(job.base, ToWord(n)) \in Word
        BY <1>3, WordParts, WordOps
    <2>2. QED BY <1>6, <2>1 DEF ValueOf
<1>8. SymAbs(fx.sym) \in Word
    BY <1>4, <1>7, WordOps DEF SymAbs
<1>9. Plus(SymAbs(fx.sym), fx.add) \in Word
    BY <1>2, <1>8, WordOps
<1>10. Plus(job.base, ToWord(Site(fx))) \in Word
    BY <1>3, WordParts, WordOps
<1>11. FieldValue(fx) \in Word
    BY <1>9, <1>10, WordOps DEF FieldValue
<1>12. QED BY <1>1, <1>11

\* The fixups as lists: where they are, their forms, what they are to hold and
\* how many bytes are read for each.
SiteList   == [m \in 1..Len(fixes) |-> Site(fixes[m])]
FormList   == [m \in 1..Len(fixes) |-> fixes[m].form]
ValueList  == [m \in 1..Len(fixes) |-> FieldValue(fixes[m])]
LengthList ==
    [m \in 1..Len(fixes) |-> FieldLength(fixes[m].form, Image(frags)[Site(fixes[m]) + 1])]
Ready == /\ Final(items, frags, FALSE) /\ Roomy(items, frags, fixes)
         /\ WideFields(items, frags) /\ Matched(items, frags, fixes)

\* Where the fixup of an item lies.
LEMMA FixPlace ==
    ASSUME Types, Ready, NEW m \in 1..Len(fixes), NEW k \in 1..Len(items), Meets(m, k)
    PROVE  /\ fixes[m].frag \in 1..Len(frags) /\ fixes[m].where \in Nat
           /\ SiteList[m] = Layout(frags)[fixes[m].frag] + fixes[m].where
           /\ SiteList[m] \in Nat /\ LengthList[m] \in {1, 2, 4}
           /\ fixes[m].where + LengthList[m] <= FixSize(frags[fixes[m].frag])
           /\ FormList[m] = fixes[m].form /\ FormList[m] \in FixForms
           /\ AddressIn(items, frags)[k] <= SiteList[m]
           /\ SiteList[m] + LengthList[m] <= AddressIn(items, frags)[k + 1]
           /\ FormList[m] # "64" => Field(FormList[m]) \subseteq 0..(8 * LengthList[m] - 1)
<1> DEFINE fx == fixes[m]  i == FragOf(items)[k]
           w == PlaceOf(items)[k] + FieldStart(items[k], frags[i])
           form == FormAt(items, frags, k)  b == Layout(frags)[i] + w
           n == FieldLength(form, Image(frags)[b + 1])
<1>1. fx.frag = i /\ fx.where = w /\ fx.form = form /\ Refers(items[k])
    BY DEF Meets, Meant, FormAt
<1>2. items \in Seq(Items) /\ frags \in Seq(FragRecords)
    BY DEF Types, ItemsOK, ChainOK, FragsOK
<1>3. Room(items[k], frags[i], PlaceOf(items)[k]) /\ Wide(items[k], frags[i], PlaceOf(items)[k])
    BY DEF Ready, Roomy, WideFields
<1>4. /\ i \in 1..Len(frags) /\ w \in Nat /\ b \in Nat /\ n \in {1, 2, 4}
      /\ w + n <= FixSize(frags[i]) /\ form \in FixForms
      /\ AddressIn(items, frags)[k] <= b /\ b + n <= AddressIn(items, frags)[k + 1]
      /\ form # "64" => Field(form) \subseteq 0..(8 * n - 1)
    <2>1. Final(items, frags, FALSE)
        BY DEF Ready
    <2>2. QED BY <1>1, <1>2, <1>3, <2>1, FieldIn, Zenon
<1>5. SiteList[m] = b /\ FormList[m] = form /\ LengthList[m] = n
    <2>1. Site(fx) = b
        BY <1>1 DEF Site
    <2>2. QED BY <1>1, <2>1 DEF SiteList, FormList, LengthList
<1> HIDE DEF fx, i, w, form, b, n
<1>6. QED BY <1>1, <1>4, <1>5 DEF fx, b

LEMMA FieldsReady ==
    ASSUME Types, Ready
    PROVE  LET E == Encodable \ OutOfRange  z == Len(Image(frags))
           IN /\ E \in SUBSET (1..Len(fixes)) /\ z \in Nat
              /\ Fitting(E, z, SiteList, FormList, ValueList, LengthList)
              /\ Apart(E, SiteList, LengthList)
              /\ Encoded(E, {}, z, SiteList, FormList, ValueList, LengthList, Image(frags))
<1> DEFINE E == Encodable \ OutOfRange  z == Len(Image(frags))  a == AddressIn(items, frags)
           N == Len(items)
<1>1. E \in SUBSET (1..Len(fixes)) /\ \A m \in E : m \in Known
    <2>1. \A m \in Known : m \in 1..Len(fixes)
        BY FieldValueTyped
    <2>2. QED BY <2>1 DEF Encodable
<1>2. items \in Seq(Items) /\ frags \in Seq(FragRecords) /\ Final(items, frags, FALSE)
    BY DEF Types, ItemsOK, ChainOK, FragsOK, Ready
<1>3. z \in Nat /\ Image(frags) \in Seq(Byte) /\ N \in Nat
    BY <1>2, ImageIs
<1>4. a \in [1..N + 1 -> Nat] /\ \A j, k \in 1..N + 1 : j <= k => a[j] <= a[k]
    BY <1>2, Ordered, Zenon
<1>5. \A k \in 1..N + 1 : a[k] <= z
    BY <1>2, Ordered, Zenon
<1>6. \A m \in 1..Len(fixes) : \E k \in 1..N : Meets(m, k)
    BY DEF Ready, Matched, Meets
<1>7. ASSUME NEW m \in E
      PROVE  /\ SiteList[m] \in Nat /\ LengthList[m] \in {1, 2, 4}
             /\ SiteList[m] + LengthList[m] <= z
             /\ FormList[m] \in InsnForms \cup DataForms /\ ValueList[m] \in Word
             /\ Legal(FormList[m], ValueList[m])
             /\ Field(FormList[m]) \subseteq 0..(8 * LengthList[m] - 1)
             /\ FieldLength(FormList[m], Image(frags)[SiteList[m] + 1]) = LengthList[m]
    <2>1. m \in 1..Len(fixes) /\ m \in Known /\ m \in Encodable /\ m \notin OutOfRange
        BY <1>1
    <2>2. PICK k \in 1..N : Meets(m, k)
        BY <1>6, <2>1
    <2>3. /\ SiteList[m] \in Nat /\ LengthList[m] \in {1, 2, 4}
          /\ SiteList[m] + LengthList[m] <= a[k + 1]
          /\ FormList[m] = fixes[m].form /\ FormList[m] \in FixForms
          /\ FormList[m] # "64" => Field(FormList[m]) \subseteq 0..(8 * LengthList[m] - 1)
        BY <2>1, <2>2, FixPlace
    <2>4. k + 1 \in 1..N + 1
        BY <1>3
    <2>5. a[k + 1] \in Nat /\ a[k + 1] <= z
        BY <1>4, <1>5, <2>4
    <2>6. fixes[m].form # "64"
        BY <2>1 DEF Encodable, HasHowto
    <2>7. ValueList[m] = FieldValue(fixes[m])
        BY <2>1 DEF ValueList
    <2>8. Legal(fixes[m].form, FieldValue(fixes[m]))
        BY <2>1 DEF OutOfRange
    <2>9. FieldValue(fixes[m]) \in Word
        BY <2>1, FieldValueTyped
    <2>10. FieldLength(FormList[m], Image(frags)[SiteList[m] + 1]) = LengthList[m]
        BY <2>1 DEF FormList, SiteList, LengthList
    <2> HIDE DEF a, z, E
    <2>11. SiteList[m] + LengthList[m] <= z
        BY <1>3, <2>3, <2>5
    <2>12. FormList[m] \in InsnForms \cup DataForms
        BY <2>3, <2>6 DEF FixForms
    <2>13. QED BY <2>3, <2>6, <2>7, <2>8, <2>9, <2>10, <2>11, <2>12
<1>8. ASSUME NEW l \in E, NEW m \in E, l # m
      PROVE  \/ SiteList[l] + LengthList[l] <= SiteList[m]
             \/ SiteList[m] + LengthList[m] <= SiteList[l]
    <2>1. l \in 1..Len(fixes) /\ m \in 1..Len(fixes)
        BY <1>1
    <2>2. PICK j \in 1..N : Meets(l, j)
        BY <1>6, <2>1
    <2>3. PICK k \in 1..N : Meets(m, k)
        BY <1>6, <2>1
    <2>4. j # k
        <3>1. SUFFICES ASSUME j = k PROVE FALSE
            OBVIOUS
        <3>2. fixes[l].frag = fixes[m].frag /\ fixes[l].where = fixes[m].where
            BY <2>2, <2>3, <3>1 DEF Meets, Meant
        <3>3. Distinct(fixes)
            BY DEF Ready, Matched
        <3>4. QED BY <1>8, <2>1, <3>2, <3>3 DEF Distinct
    <2>5. /\ SiteList[l] \in Nat /\ LengthList[l] \in {1, 2, 4}
          /\ a[j] <= SiteList[l] /\ SiteList[l] + LengthList[l] <= a[j + 1]
        BY <2>1, <2>2, FixPlace
    <2>6. /\ SiteList[m] \in Nat /\ LengthList[m] \in {1, 2, 4}
          /\ a[k] <= SiteList[m] /\ SiteList[m] + LengthList[m] <= a[k + 1]
        BY <2>1, <2>3, FixPlace
    <2>7. j \in 1..N + 1 /\ j + 1 \in 1..N + 1 /\ k \in 1..N + 1 /\ k + 1 \in 1..N + 1
          /\ (j + 1 <= k \/ k + 1 <= j)
        BY <1>3, <2>4
    <2> HIDE DEF a, N
    <2>8. a[j] \in Nat /\ a[j + 1] \in Nat /\ a[k] \in Nat /\ a[k + 1] \in Nat
        BY <1>4, <2>7
    <2>9. a[j + 1] <= a[k] \/ a[k + 1] <= a[j]
        BY <1>4, <2>7
    <2>10. QED BY <2>5, <2>6, <2>8, <2>9
<1> HIDE DEF E, z
<1>9. Fitting(E, z, SiteList, FormList, ValueList, LengthList)
    BY <1>7 DEF Fitting
<1>10. Apart(E, SiteList, LengthList)
    BY <1>8 DEF Apart
<1>11. Encoded(E, {}, z, SiteList, FormList, ValueList, LengthList, Image(frags))
    BY <1>3, <1>7 DEF Encoded, z
<1>12. QED BY <1>1, <1>3, <1>9, <1>10, <1>11 DEF E, z

\* A field of the encoded image is read the same once it is back in its frag.
LEMMA CopiedReads ==
    ASSUME NEW frs \in Seq(FragRecords), NEW buf \in Seq(Byte), Len(buf) = Len(Image(frs)),
           NEW i \in 1..Len(frs), NEW w \in Nat, NEW n \in {1, 2, 4}, w + n <= FixSize(frs[i])
    PROVE  LET b == Layout(frs)[i] + w  im == Image(CopiedBack(frs, buf))
           IN RdLe(im, b, n) = RdLe(buf, b, n) /\ im[b + 1] = buf[b + 1]
<1> DEFINE gs == CopiedBack(frs, buf)  im == Image(gs)  l == Layout(frs)[i]  b == l + w
<1>1. gs \in Seq(FragRecords) /\ Alike(frs, gs) /\ Layout(gs)[i] = l
    <2>1. i \in 1..Len(frs) + 1
        OBVIOUS
    <2>2. QED BY <2>1, CopiedAlike
<1>2. l \in Nat
    <2>1. i \in 1..Len(frs) + 1
        OBVIOUS
    <2>2. QED BY <2>1, LayoutRun
<1>3. \A j \in 1..FixSize(frs[i]) : gs[i].lit[j] = buf[l + j]
    BY CopiedTyped DEF FixSize
<1>4. i \in 1..Len(gs) /\ FixSize(gs[i]) = FixSize(frs[i])
    BY <1>1 DEF Alike
<1> HIDE DEF gs
<1>5. \A j \in 1..FixSize(gs[i]) : im[Layout(gs)[i] + j] = gs[i].lit[j]
    BY <1>1, <1>4, ImageIs
<1> HIDE DEF im, l
<1>6. FixSize(frs[i]) \in Nat
    BY SizesTyped
<1>7. ASSUME NEW j \in 1..n PROVE im[b + j] = buf[b + j]
    <2>1. w + j \in 1..FixSize(frs[i]) /\ l + (w + j) = b + j
        BY <1>2, <1>6
    <2>2. im[l + (w + j)] = buf[l + (w + j)]
        BY <1>1, <1>3, <1>4, <1>5, <2>1
    <2>3. QED BY <2>1, <2>2
<1>8. 1 \in 1..n
    OBVIOUS
<1> HIDE DEF b
<1>9. RdLe(im, b, n) = RdLe(buf, b, n)
    BY <1>7 DEF RdLe
<1>10. QED BY <1>7, <1>8, <1>9 DEF b, l, im, gs

\* What is in the field of a fixup stands for its value.
ReadsBack(m) ==
    LET fx == fixes[m]  n == FieldLength(fx.form, Image(frags)[Site(fx) + 1])
    IN Holds(fx.form, RdLe(Image(frags), Site(fx), n), FieldValue(fx))
AllRead == \A m \in Known : ReadsBack(m)

LEMMA ApplyKeeps ==
    ASSUME Types, ApplyTextFixups
    PROVE  /\ Known' = Known
           /\ \A m \in 1..Len(fixes) : Site(fixes[m])' = Site(fixes[m])
           /\ \A m \in Known : FieldValue(fixes[m])' = FieldValue(fixes[m])
<1>1. /\ frags' = CopiedBack(frags, EncodedImage) /\ fixes' = fixes /\ syms' = syms
      /\ job' = job
    BY DEF ApplyTextFixups
<1>2. frags \in Seq(FragRecords) /\ EncodedImage \in Seq(Byte)
      /\ Len(EncodedImage) = Len(Image(frags))
    BY EncodedTyped DEF Types, ChainOK, FragsOK
<1>3. \A i \in 1..Len(frags) + 1 : Layout(frags')[i] = Layout(frags)[i]
    BY <1>1, <1>2, CopiedAlike
<1>4. \A s : /\ Resolved(s)' = Resolved(s) /\ Root(s)' = Root(s)
             /\ IsDefined(s)' = IsDefined(s)
    BY <1>1 DEF Resolved, Root, Behind, IsDefined, HasValue
<1>5. Known' = Known
    BY <1>1, <1>4 DEF Known
<1>6. ASSUME NEW m \in 1..Len(fixes) PROVE Site(fixes[m])' = Site(fixes[m])
    <2>1. fixes[m].frag \in 1..Len(frags)
        BY DEF Types, FixesOK, FixIn
    <2>2. fixes[m].frag \in 1..Len(frags) + 1
        BY <1>2, <2>1
    <2>3. Layout(frags')[fixes[m].frag] = Layout(frags)[fixes[m].frag]
        BY <1>3, <2>2
    <2>4. Site(fixes[m])' = Layout(frags')[fixes'[m].frag] + fixes'[m].where
        BY DEF Site, Layout
    <2>5. QED BY <1>1, <2>3, <2>4 DEF Site
<1>7. ASSUME NEW m \in Known PROVE FieldValue(fixes[m])' = FieldValue(fixes[m])
    <2> DEFINE fx == fixes[m]  d == syms[Root(fx.sym)]
    <2>1. m \in 1..Len(fixes) /\ Root(fx.sym) \in DOMAIN syms
        <3>1. DOMAIN fixes = 1..Len(fixes)
            BY DEF Types, FixesOK
        <3>2. QED BY <3>1 DEF Known, IsDefined, HasValue
    <2>2. d.seg = "text" => d.frag \in 1..Len(frags) + 1
        <3>1. d.frag \in 0..Len(frags) /\ (d.seg = "text" => d.frag > 0)
            BY <2>1 DEF Types, SymbolsOK
        <3>2. QED BY <1>2, <3>1
    <2>3. d.seg = "text" => Layout(frags')[d.frag] = Layout(frags)[d.frag]
        BY <1>3, <2>2
    <2>4. syms'[Root(fx.sym)'] = d
        BY <1>1, <1>4
    <2>5. ValueOf(d)' = IF d'.seg = "text" THEN Plus(job'.base, ToWord(Layout(frags')[d'.frag] + d'.off))
                        ELSE d'.val
        BY DEF ValueOf, Layout
    <2>6. d' = d
        BY <1>1, <1>4
    <2>7. ValueOf(d)' = ValueOf(d)
        BY <1>1, <2>3, <2>5, <2>6 DEF ValueOf
    <2>8. SymAbs(fx.sym)' = SymAbs(fx.sym)
        BY <1>1, <1>4, <2>7 DEF SymAbs
    <2>9. Site(fx)' = Site(fx)
        BY <1>6, <2>1
    <2>10. QED BY <1>1, <2>8, <2>9 DEF FieldValue
<1>8. QED BY <1>5, <1>6, <1>7

LEMMA EncodedFields ==
    ASSUME Types, Ready
    PROVE  LET E == Encodable \ OutOfRange
           IN Encoded(E, E, Len(Image(frags)), SiteList, FormList, ValueList, LengthList, EncodedImage)
<1> DEFINE E == Encodable \ OutOfRange  z == Len(Image(frags))
           s == [k \in DOMAIN fixes |-> [buf \in Seq(Byte) |->
                   IF k \in E THEN EncodeAt(buf, Site(fixes[k]), fixes[k].form, FieldValue(fixes[k]))
                   ELSE buf]]
<1>1. /\ E \in SUBSET (1..Len(fixes)) /\ z \in Nat
      /\ Fitting(E, z, SiteList, FormList, ValueList, LengthList)
      /\ Apart(E, SiteList, LengthList)
      /\ Encoded(E, {}, z, SiteList, FormList, ValueList, LengthList, Image(frags))
    BY FieldsReady
<1>2. DOMAIN fixes = 1..Len(fixes) /\ Len(fixes) \in Nat
    BY DEF Types, FixesOK
<1>3. ASSUME NEW m \in 1..Len(fixes), NEW x \in Seq(Byte)
      PROVE  s[m][x] = IF m \in E THEN EncodeAt(x, SiteList[m], FormList[m], ValueList[m]) ELSE x
    BY <1>2 DEF SiteList, FormList, ValueList
<1>4. EncodedImage = After(Len(fixes), Image(frags), s)
    BY DEF EncodedImage
<1> HIDE DEF E, z, s
<1>5. Encoded(E, E, z, SiteList, FormList, ValueList, LengthList, After(Len(fixes), Image(frags), s))
    BY <1>1, <1>2, <1>3, EncodeAll
<1>6. QED BY <1>4, <1>5 DEF E, z

(* Every field whose symbol is known reads back, once no value was out of  *)
(* range and no form was unknown.                                          *)
LEMMA ApplyReads ==
    ASSUME Types, Ready, ApplyTextFixups, errors' = 0, ~ unsup'
    PROVE  AllRead'
<1> DEFINE buf == EncodedImage  E == Encodable \ OutOfRange  im == Image(frags')
<1>1. /\ frags' = CopiedBack(frags, buf) /\ fixes' = fixes
      /\ errors' = errors + Cardinality(OutOfRange) /\ unsup' = (Known # Encodable)
    BY DEF ApplyTextFixups
<1>2. OutOfRange = {}
    <2>1. \A m \in Known : m \in 1..Len(fixes)
        BY FieldValueTyped
    <2>2. OutOfRange \in SUBSET (1..Len(fixes))
        BY <2>1 DEF OutOfRange, Encodable
    <2>3. IsFiniteSet(OutOfRange)
        <3>1. IsFiniteSet(1..Len(fixes))
            BY FS_Interval DEF Types, FixesOK
        <3>2. QED BY <2>2, <3>1, FS_Subset
    <2>4. Cardinality(OutOfRange) \in Nat /\ errors \in Nat
        BY <2>3, FS_CardinalityType DEF Types, FlagsOK
    <2>5. Cardinality(OutOfRange) = 0
        BY <1>1, <2>4
    <2>6. QED BY <2>3, <2>5, FS_EmptySet
<1>3. Known = Encodable /\ E = Known
    BY <1>1, <1>2
<1>4. /\ frags \in Seq(FragRecords) /\ buf \in Seq(Byte) /\ Len(buf) = Len(Image(frags))
    BY EncodedTyped DEF Types, ChainOK, FragsOK
<1>5. Encoded(E, E, Len(Image(frags)), SiteList, FormList, ValueList, LengthList, buf)
    BY EncodedFields
<1>6. /\ Known' = Known
      /\ \A m \in 1..Len(fixes) : Site(fixes[m])' = Site(fixes[m])
      /\ \A m \in Known : FieldValue(fixes[m])' = FieldValue(fixes[m])
    BY ApplyKeeps
<1>7. ASSUME NEW m \in Known PROVE ReadsBack(m)'
    <2> DEFINE at == SiteList[m]  form == FormList[m]  v == ValueList[m]  n == LengthList[m]
    <2>1. m \in 1..Len(fixes)
        BY FieldValueTyped
    <2>2. PICK k \in 1..Len(items) : Meets(m, k)
        BY <2>1 DEF Ready, Matched, Meets
    <2>3. /\ fixes[m].frag \in 1..Len(frags) /\ fixes[m].where \in Nat
          /\ at = Layout(frags)[fixes[m].frag] + fixes[m].where /\ n \in {1, 2, 4}
          /\ fixes[m].where + n <= FixSize(frags[fixes[m].frag])
        BY <2>1, <2>2, FixPlace
    <2>4. im = Image(CopiedBack(frags, buf))
        BY <1>1
    <2>5. Holds(form, RdLe(buf, at, n), v) /\ FieldLength(form, buf[at + 1]) = n
        BY <1>3, <1>5 DEF Encoded
    <2>7. at = Site(fixes[m]) /\ form = fixes[m].form /\ v = FieldValue(fixes[m])
        BY <2>1 DEF SiteList, FormList, ValueList
    <2>8. Site(fixes[m])' = at /\ FieldValue(fixes[m])' = v /\ fixes'[m].form = form
        BY <1>1, <1>6, <2>1, <2>7
    <2> DEFINE i == fixes[m].frag  w == fixes[m].where
    <2>9. i \in 1..Len(frags) /\ w \in Nat /\ at = Layout(frags)[i] + w /\ n \in {1, 2, 4}
          /\ w + n <= FixSize(frags[i])
        BY <2>3
    <2> HIDE DEF at, form, v, n, i, w, im, buf, E
    <2>12. RdLe(im, at, n) = RdLe(buf, at, n) /\ im[at + 1] = buf[at + 1]
        BY <1>4, <2>4, <2>9, CopiedReads
    <2>6. Holds(form, RdLe(im, at, FieldLength(form, im[at + 1])), v)
        BY <2>5, <2>12
    <2>10. ReadsBack(m)' = Holds(fixes'[m].form,
               RdLe(im, Site(fixes[m])', FieldLength(fixes'[m].form, im[Site(fixes[m])' + 1])),
               FieldValue(fixes[m])')
        BY Zenon DEF ReadsBack, Image, im
    <2>11. QED BY <2>6, <2>8, <2>10
<1>8. QED BY <1>6, <1>7 DEF AllRead

-----------------------------------------------------------------------------
(* The fields in every pass.                                               *)

HitInv ==
    /\ phase = "fixups" => WideFields(items, frags)
    /\ phase = "report" => parseErr \/ secViol \/ dirErr \/ errors > 0 \/ unsup \/ AllRead
    /\ Succeeded => errors = 0 /\ AllRead

LEMMA ReadSame ==
    ASSUME UNCHANGED <<job, syms, fixes, frags>>
    PROVE  AllRead' = AllRead
<1>1. \A s : Resolved(s)' = Resolved(s) /\ Root(s)' = Root(s) /\ IsDefined(s)' = IsDefined(s)
    BY DEF Resolved, Root, Behind, IsDefined, HasValue
<1>2. Known' = Known
    BY <1>1 DEF Known
<1>3. \A m : Site(fixes[m])' = Site(fixes[m])
    BY DEF Site
<1>4. \A d : ValueOf(d)' = ValueOf(d)
    BY DEF ValueOf
<1>5. \A s : SymAbs(s)' = SymAbs(s)
    BY <1>1, <1>4 DEF SymAbs
<1>6. \A m : FieldValue(fixes[m])' = FieldValue(fixes[m])
    BY <1>3, <1>5 DEF FieldValue
<1>7. \A m : ReadsBack(m)' = ReadsBack(m)
    BY <1>3, <1>6 DEF ReadsBack
<1>8. QED BY <1>2, <1>7 DEF AllRead

LEMMA ReportHit ==
    ASSUME Types, HitInv, Report
    PROVE  HitInv'
<1>1. phase = "report" /\ phase' \in {"decode", "done"}
      /\ UNCHANGED <<job, frags, fixes, syms, errors>>
    BY DEF Report, section, flags
<1>2. CASE Status # "OK"
    <2>1. result' = [NoResult EXCEPT !.status = Status]
        BY <1>2 DEF Report
    <2>2. result'.status # "OK"
        BY <1>2, <2>1 DEF NoResult
    <2>3. QED BY <1>1, <2>2 DEF HitInv, Succeeded
<1>3. CASE Status = "OK"
    <2>1. ~ dirErr /\ ~ secViol /\ ~ parseErr /\ ~ unsup /\ ~ (errors > 0)
        BY <1>3 DEF Status
    <2>2. errors \in Nat
        BY DEF Types, FlagsOK
    <2>3. errors = 0 /\ AllRead
        BY <1>1, <2>1, <2>2 DEF HitInv
    <2>4. AllRead' = AllRead
        BY <1>1, ReadSame
    <2>5. QED BY <1>1, <2>3, <2>4 DEF HitInv
<1>4. QED BY <1>2, <1>3

LEMMA NextHit ==
    ASSUME Types, LayoutInv(FALSE), RelocInv, HitInv, [Next]_vars
    PROVE  HitInv'
<1>1. CASE \/ Reset \/ NextStatement \/ Label \/ IntList \/ ConsList \/ Ascii \/ Skip
           \/ Org \/ Align \/ Equ \/ Accepted \/ SwitchesSection \/ Unsupported \/ Instruction
    <2>1. phase \in {"reset", "parse"} /\ phase' = "parse" /\ result' = result
        <3>1. CASE Reset \/ NextStatement \/ Label
            BY <3>1 DEF Reset, NextStatement, Label, outputs
        <3>2. CASE IntList \/ ConsList \/ Ascii \/ Skip
            BY <3>2 DEF IntList, ConsList, Ascii, Skip, At, Emits, Handled, GasError, Rejected, outputs
        <3>3. CASE Org \/ Align \/ Equ
            BY <3>3 DEF Org, Align, Equ, At, Closes, Handled, GasError, Rejected, outputs
        <3>4. CASE Accepted \/ SwitchesSection \/ Unsupported
            BY <3>4 DEF Accepted, SwitchesSection, Unsupported, At, Handled, Rejected, outputs
        <3>5. CASE Instruction
            BY <3>5 DEF Instruction, Emits, Handled, GasError, outputs
        <3>6. QED BY <1>1, <3>1, <3>2, <3>3, <3>4, <3>5
    <2>2. ~ Succeeded'
        BY <2>1 DEF LayoutInv, Succeeded
    <2>3. QED BY <2>1, <2>2 DEF HitInv
<1>2. CASE DefineLabels \/ RelaxBranches \/ RelaxSegment \/ ConvertAndFinalize \/ ApplyTextFixups
    <2>1. phase \notin {"decode", "done"} /\ result' = result
        BY <1>2 DEF DefineLabels, RelaxBranches, RelaxSegment, ConvertAndFinalize,
               ApplyTextFixups, outputs
    <2>2. ~ Succeeded'
        BY <2>1 DEF LayoutInv, Succeeded
    <2>3. CASE DefineLabels
        <3> DEFINE stop == parseErr' \/ secViol \/ dirErr
        <3>1. phase' = (IF stop THEN "report" ELSE "relax")
            BY <2>3, Zenon DEF DefineLabels
        <3>2. secViol' = secViol /\ dirErr' = dirErr
            BY <2>3, Zenon DEF DefineLabels
        <3>3. phase' # "fixups" /\ (phase' = "report" => parseErr' \/ secViol' \/ dirErr')
            BY <3>1, <3>2
        <3>4. QED BY <2>2, <3>3 DEF HitInv
    <2>4. CASE RelaxBranches \/ RelaxSegment
        <3>1. phase' = "relaxing"
            BY <2>4 DEF RelaxBranches, RelaxSegment
        <3>2. QED BY <2>2, <3>1 DEF HitInv
    <2>5. CASE ConvertAndFinalize
        <3>1. phase = "relaxing" /\ phase' = "fixups"
            BY <2>5, ConvertIs
        <3>2. WideFields(items, frags)'
            BY <2>5, <3>1, ConvertWide DEF LayoutInv
        <3>3. QED BY <2>2, <3>1, <3>2 DEF HitInv
    <2>6. CASE ApplyTextFixups
        <3>1. phase = "fixups" /\ phase' = "report"
            BY <2>6 DEF ApplyTextFixups
        <3>2. Ready
            BY <3>1 DEF Ready, LayoutInv, RelocInv, HitInv
        <3>3. errors' \in Nat
            <4>1. OutOfRange \in SUBSET (1..Len(fixes))
                BY FieldValueTyped DEF OutOfRange, Encodable
            <4>2. IsFiniteSet(1..Len(fixes))
                BY FS_Interval DEF Types, FixesOK
            <4>3. Cardinality(OutOfRange) \in Nat
                BY <4>1, <4>2, FS_Subset, FS_CardinalityType
            <4>4. errors' = errors + Cardinality(OutOfRange) /\ errors \in Nat
                BY <2>6 DEF ApplyTextFixups, Types, FlagsOK
            <4>5. QED BY <4>3, <4>4
        <3>4. errors' > 0 \/ unsup' \/ AllRead'
            <4>1. errors' = 0 /\ ~ unsup' => AllRead'
                BY <2>6, <3>2, ApplyReads
            <4>2. QED BY <3>3, <4>1
        <3>5. QED BY <2>2, <3>1, <3>4 DEF HitInv
    <2>7. QED BY <1>2, <2>3, <2>4, <2>5, <2>6
<1>3. CASE Report
    BY <1>3, ReportHit
<1>4. CASE DecodeOne \/ Decoded
    <2>1. /\ phase' \in {"decode", "done"}
          /\ UNCHANGED <<job, frags, fixes, syms, result, errors>>
        BY <1>4 DEF DecodeOne, Decoded, section, outputs, flags
    <2>2. AllRead' = AllRead
        BY <2>1, ReadSame
    <2>3. QED BY <2>1, <2>2 DEF HitInv, Succeeded
<1>5. CASE UNCHANGED vars
    <2>1. UNCHANGED <<job, items, frags, fixes, syms, result>>
          /\ UNCHANGED <<phase, parseErr, secViol, dirErr, errors, unsup>>
        BY <1>5 DEF vars, section, flags, outputs
    <2>2. AllRead' = AllRead
        BY <2>1, ReadSame
    <2>3. WideFields(items, frags)' = WideFields(items, frags)
        BY <2>1 DEF WideFields
    <2>4. QED BY <2>1, <2>2, <2>3 DEF HitInv, Succeeded
<1>6. QED BY <1>1, <1>2, <1>3, <1>4, <1>5 DEF Next, Returned

LEMMA HitHolds == Spec => []HitInv
<1>1. Init => HitInv
    BY DEF Init, HitInv, Succeeded, NoResult
<1>2. Types /\ LayoutInv(FALSE) /\ RelocInv /\ HitInv /\ [Next]_vars => HitInv'
    BY NextHit
<1>3. QED BY <1>1, <1>2, TypesHold, LayoutHolds, RelocHolds, PTL DEF Spec

-----------------------------------------------------------------------------
(* Where the symbols are: while there is no error, every label is on the   *)
(* spot of its item, a name that a plain .equ sets is what its term said,  *)
(* and after the parse the LabelDefinitions have their addresses.          *)

Leads(its, t, d) ==
    \/ d.seg = "absolute" /\ t.sym = NoSym /\ d.val = t.add
    \/ /\ d.seg = "text"
       /\ \E j \in 1..Len(its) :
            /\ its[j].kind = "label" /\ its[j].sym = t.sym
            /\ d.frag = FragOf(its)[j] /\ d.off = PlaceOf(its)[j] + IntOf(t.add)
    \/ d.seg = "alias" /\ d.of = t.sym /\ t.sym # NoSym /\ d.val = t.add
Backed(its, s, d) ==
    d.set => \E k \in 1..Len(its) : /\ its[k].kind = "equ" /\ its[k].sym = s
                                    /\ Leads(its, its[k].term, d)
Sits(its, k, table) ==
    its[k].kind = "label" => /\ its[k].sym \in DOMAIN table
                             /\ table[its[k].sym] = InText(FragOf(its)[k], PlaceOf(its)[k])
Bound == phase \in {"relax", "relaxing", "fixups", "report"} \/ Succeeded
Binds(k) == LET s == Sym(Given[k].name)
            IN s \in DOMAIN syms /\ syms[s] = Absolute(Given[k].address)
Located == errors = 0 =>
    /\ \A k \in 1..Len(items) : Sits(items, k, syms)
    /\ PlainIn(items) => \A s \in DOMAIN syms : Backed(items, s, syms[s])
    /\ Bound => \A k \in DOMAIN Given : Binds(k)

LEMMA SitsGrow ==
    ASSUME NEW its \in Seq(Items), NEW what \in Seq(Items)
    PROVE  /\ \A table : \A k \in 1..Len(its) : Sits(its, k, table) => Sits(its \o what, k, table)
           /\ \A s, d : Backed(its, s, d) => Backed(its \o what, s, d)
<1> DEFINE all == its \o what
<1>1. Continues(its, all)
    BY ContinuesIs
<1>2. ASSUME NEW k \in 1..Len(its)
      PROVE  /\ k \in 1..Len(all) /\ all[k] = its[k]
             /\ FragOf(all)[k] = FragOf(its)[k] /\ PlaceOf(all)[k] = PlaceOf(its)[k]
    <2>1. k \in 1..Len(its) + 1
        OBVIOUS
    <2>2. FragOf(all)[k] = FragOf(its)[k] /\ PlaceOf(all)[k] = PlaceOf(its)[k]
        BY <2>1, SpotsKept
    <2>3. QED BY <1>1, <2>2 DEF Continues
<1> HIDE DEF all
<1>3. ASSUME NEW table, NEW k \in 1..Len(its), Sits(its, k, table) PROVE Sits(all, k, table)
    BY <1>2, <1>3 DEF Sits
<1>4. ASSUME NEW t, NEW d, Leads(its, t, d) PROVE Leads(all, t, d)
    BY <1>2, <1>4 DEF Leads
<1>5. ASSUME NEW s, NEW d, Backed(its, s, d) PROVE Backed(all, s, d)
    BY <1>2, <1>4, <1>5 DEF Backed
<1>6. QED BY <1>3, <1>5 DEF all

LEMMA QuietLocated ==
    ASSUME Located, UNCHANGED <<job, syms, items>>, errors' = 0 => errors = 0, Bound' => Bound
    PROVE  Located'
<1>1. (\A k \in DOMAIN Given : Binds(k))' = (\A k \in DOMAIN Given : Binds(k))
    BY DEF Binds, Given
<1>2. (\A k \in 1..Len(items) : Sits(items, k, syms))' = (\A k \in 1..Len(items) : Sits(items, k, syms))
    BY DEF Sits
<1>3. (\A s \in DOMAIN syms : Backed(items, s, syms[s]))' = (\A s \in DOMAIN syms : Backed(items, s, syms[s]))
    BY DEF Backed
<1>4. PlainIn(items)' = PlainIn(items)
    BY DEF PlainIn
<1>5. QED BY <1>1, <1>2, <1>3, <1>4 DEF Located

LEMMA MuteLocated ==
    ASSUME Types, Located, NEW what, NEW still, MuteStep(what, still),
           errors' = 0 => errors = 0, ~ Bound'
    PROVE  Located'
<1> DEFINE all == items \o what
<1>1. items \in Seq(Items) /\ what \in Seq(Items)
    BY DEF Types, ItemsOK, MuteStep
<1>2. /\ Continues(items, all) /\ Len(all) = Len(items) + Len(what) /\ Len(what) \in Nat
      /\ \A j \in 1..Len(what) : all[Len(items) + j] = what[j]
    BY <1>1, ContinuesIs
<1>3. /\ \A k \in 1..Len(items) : Sits(items, k, syms) => Sits(all, k, syms)
      /\ \A s, d : Backed(items, s, d) => Backed(all, s, d)
    BY <1>1, SitsGrow
<1>4. items' = all /\ UNCHANGED <<job, phase, syms>> /\ \A j \in 1..Len(what) : Mute(what[j])
    BY DEF MuteStep
<1> HIDE DEF all
<1>5. SUFFICES ASSUME errors' = 0
               PROVE  /\ \A k \in 1..Len(all) : Sits(all, k, syms)
                      /\ PlainIn(items') => \A s \in DOMAIN syms : Backed(all, s, syms[s])
    BY <1>4 DEF Located
<1>6. errors = 0 /\ (PlainIn(items') => PlainIn(items))
    BY <1>2, <1>4, <1>5, NamesGrow
<1>7. ASSUME NEW k \in 1..Len(all) PROVE Sits(all, k, syms)
    <2>1. CASE k <= Len(items)
        <3>1. k \in 1..Len(items)
            BY <1>2, <2>1 DEF Continues
        <3>2. QED BY <1>3, <1>6, <3>1 DEF Located
    <2>2. CASE k > Len(items)
        <3> DEFINE j == k - Len(items)
        <3>1. j \in 1..Len(what) /\ k = Len(items) + j
            BY <1>2, <2>2 DEF Continues
        <3>2. Mute(all[k])
            BY <1>2, <1>4, <3>1
        <3>3. QED BY <3>2 DEF Mute, Sits
    <2>3. QED BY <1>2, <2>1, <2>2 DEF Continues
<1>8. QED BY <1>3, <1>6, <1>7 DEF Located

\* One more item, and the table it leaves.
LEMMA OneLocated ==
    ASSUME Types, Naming, Located, NEW it \in Items, items' = items \o <<it>>, ~ Bound',
           NEW s, NEW d, syms' = Defined(s, d), ~ IsLabel(s) \/ syms' = syms,
           errors' = 0 => errors = 0,
           errors' = 0 => /\ Sits(items', Len(items) + 1, syms')
                          /\ PlainIn(items') => Backed(items', s, d)
    PROVE  Located'
<1>1. /\ Len(items') = Len(items) + 1 /\ items'[Len(items) + 1] = it /\ Len(items) \in Nat
      /\ \A k \in 1..Len(items) : items'[k] = items[k]
    <2>1. items \in Seq(Items)
        BY DEF Types, ItemsOK
    <2>2. QED BY <2>1, OneMore
<1>2. Continues(items, items')
    BY <1>1 DEF Continues
<1>3. /\ \A table : \A k \in 1..Len(items) : Sits(items, k, table) => Sits(items', k, table)
      /\ \A x, e : Backed(items, x, e) => Backed(items', x, e)
    <2> DEFINE w == <<it>>
    <2>1. items \in Seq(Items) /\ w \in Seq(Items)
        BY SingleTyped DEF Types, ItemsOK
    <2>2. items' = items \o w
        OBVIOUS
    <2> HIDE DEF w
    <2>3. QED BY <2>1, <2>2, SitsGrow
<1>4. SUFFICES ASSUME errors' = 0
               PROVE  /\ \A k \in 1..Len(items') : Sits(items', k, syms')
                      /\ PlainIn(items') => \A x \in DOMAIN syms' : Backed(items', x, syms'[x])
    BY DEF Located, Sits, Backed
<1>5. errors = 0 /\ (PlainIn(items') => PlainIn(items))
    BY <1>2, <1>4, NamesGrow
<1>6. ASSUME NEW k \in 1..Len(items') PROVE Sits(items', k, syms')
    <2>1. CASE k = Len(items) + 1
        BY <1>4, <2>1
    <2>2. CASE k \in 1..Len(items)
        <3>1. Sits(items, k, syms)
            BY <1>5, <2>2 DEF Located
        <3>2. Sits(items, k, syms')
            <4>1. CASE syms' = syms
                BY <3>1, <4>1
            <4>2. CASE ~ IsLabel(s)
                <5>1. items[k].kind = "label" => items[k].sym # s
                    BY <3>1, <4>2 DEF Sits, InText, IsLabel
                <5>2. QED BY <3>1, <5>1 DEF Sits, Defined
            <4>3. QED BY <4>1, <4>2
        <3>3. QED BY <1>3, <2>2, <3>2
    <2>3. QED BY <1>1, <2>1, <2>2
<1>7. ASSUME PlainIn(items'), NEW x \in DOMAIN syms' PROVE Backed(items', x, syms'[x])
    <2>1. CASE x = s
        BY <1>4, <1>7, <2>1 DEF Defined
    <2>2. CASE x # s
        <3>1. x \in DOMAIN syms /\ syms'[x] = syms[x]
            BY <2>2 DEF Defined
        <3>2. QED BY <1>3, <1>5, <1>7, <3>1 DEF Located
    <2>3. QED BY <2>1, <2>2
<1>8. QED BY <1>6, <1>7

\* The end of the chain is the spot of the item that comes next.
LEMMA HereIs ==
    ASSUME Types, phase = "parse", Reads(FALSE)
    PROVE  Here = InText(FragOf(items)[Len(items) + 1], PlaceOf(items)[Len(items) + 1])
<1>1. frags \in Seq(FragRecords) /\ Len(frags) > 0
    BY DEF Types, ChainOK, FragsOK
<1>2. Last(frags) = frags[Len(frags)]
    BY <1>1 DEF Last
<1>3. FragOf(items)[Len(items) + 1] = Len(frags)
      /\ PlaceOf(items)[Len(items) + 1] = FixSize(frags[Len(frags)])
    BY DEF Reads, Sited, InPlace
<1>4. QED BY <1>2, <1>3 DEF Here, FragNow, FragNowFix, FixSize

LEMMA LabelLocated ==
    ASSUME Types, Reads(FALSE), Naming, Located, Label, ~ Bound'
    PROVE  Located'
<1>1. phase = "parse" /\ UNCHANGED <<job, phase>> /\ HasLabel(line)
    BY DEF Label
<1>2. PICK s \in Symbols : ColonDefines(s)
    <2> DEFINE n == line[1]
    <2>1. CASE n \in Names /\ ColonDefines(Sym(n))
        <3>1. Sym(n) \in Symbols
            BY <2>1, NameTypes, SymbolsTyped
        <3>2. QED BY <2>1, <3>1
    <2>2. CASE /\ n \in Locals /\ locals' = [locals EXCEPT ![n] = @ + 1]
               /\ ColonDefines(<<n, locals'[n]>>)
        <3>1. locals \in [Locals -> Nat]
            BY DEF Types, SymbolsOK, SymsTyped
        <3>2. locals'[n] \in Nat
            BY <2>2, <3>1
        <3>3. <<n, locals'[n]>> \in Symbols
            BY <2>2, <3>2 DEF Symbols
        <3>4. QED BY <2>2, <3>3
    <2>3. QED BY <2>1, <2>2 DEF Label
<1> DEFINE it == [kind |-> "label", sym |-> s]
<1>3. it \in Items /\ it.kind = "label" /\ it.sym = s
    BY DEF Items
<1>4. items' = Append(items, it) /\ items \in Seq(Items) /\ Len(items) + 1 \in 1..Len(items) + 1
    BY <1>2 DEF ColonDefines, Types, ItemsOK
<1> HIDE DEF it
<1> DEFINE w == <<it>>  z == Len(items) + 1
<1>5. items' = items \o w /\ w \in Seq(Items) /\ items'[z] = it
    <2>1. Append(items, it) = items \o <<it>>
        BY <1>3, <1>4
    <2>2. w \in Seq(Items)
        BY <1>3, SingleTyped
    <2>3. QED BY <1>3, <1>4, <2>1, <2>2
<1>6. FragOf(items')[z] = FragOf(items)[z] /\ PlaceOf(items')[z] = PlaceOf(items)[z]
    <2> HIDE DEF w, z
    <2>1. z \in 1..Len(items) + 1
        BY <1>4 DEF z
    <2>2. QED BY <1>4, <1>5, <2>1, SpotsKept
<1>7. Here = InText(FragOf(items')[z], PlaceOf(items')[z])
    BY <1>1, <1>6, HereIs
<1>8. errors \in Nat /\ syms = [x \in DOMAIN syms |-> syms[x]]
    BY DEF Types, FlagsOK, SymbolsOK, SymsTyped
<1>9. items' = items \o <<it>>
    BY <1>5
<1> HIDE DEF w, z
<1>10. CASE ~ IsLabel(s) /\ syms' = Defined(s, Here) /\ UNCHANGED errors
    <2>1. ~ Here.set
        BY DEF Here, InText
    <2>2. s \in DOMAIN syms' /\ syms'[s] = Here
        BY <1>10 DEF Defined
    <2>3. Sits(items', z, syms') /\ Backed(items', s, Here)
        BY <1>3, <1>5, <1>7, <2>1, <2>2 DEF Sits, Backed
    <2>4. QED BY <1>3, <1>9, <1>10, <2>3, OneLocated DEF z
<1>11. CASE /\ IsLabel(s) /\ errors' = errors + (IF syms[s] = Here THEN 0 ELSE 1)
            /\ UNCHANGED syms
    <2>1. s \in DOMAIN syms /\ ~ syms[s].set
        BY <1>11 DEF IsLabel
    <2>2. syms' = Defined(s, syms[s])
        BY <1>8, <1>11, <2>1 DEF Defined
    <2>3. errors' = 0 => errors = 0 /\ syms[s] = Here
        BY <1>8, <1>11
    <2>4. errors' = 0 => Sits(items', z, syms') /\ Backed(items', s, syms[s])
        BY <1>3, <1>5, <1>7, <1>11, <2>1, <2>3 DEF Sits, Backed
    <2>5. QED BY <1>3, <1>9, <1>11, <2>2, <2>3, <2>4, OneLocated DEF z
<1>12. QED BY <1>2, <1>10, <1>11 DEF ColonDefines

LEMMA EquLeads ==
    ASSUME Types, Naming, Located, phase = "parse", NEW s \in Symbols, NEW e \in Terms, ~ IsLabel(s),
           items' = items \o <<[kind |-> "equ", sym |-> s, term |-> e]>>, UNCHANGED errors,
           syms' = Defined(s, [EquValue(e) EXCEPT !.set = TRUE]), ~ Bound'
    PROVE  Located'
<1> DEFINE it == [kind |-> "equ", sym |-> s, term |-> e]
           d == [EquValue(e) EXCEPT !.set = TRUE]  w == <<it>>
<1>1. SymsTyped /\ NoSym \notin DOMAIN syms
    BY Reading, SymbolsTyped DEF SymsTyped
<1>2. it \in Items /\ it.kind = "equ" /\ it.sym = s /\ it.term = e
    BY DEF Items
<1>3. items' = items \o <<it>> /\ items \in Seq(Items)
    BY DEF Types, ItemsOK, it
<1> HIDE DEF it
<1>4. Len(items') = Len(items) + 1 /\ items'[Len(items) + 1] = it /\ Len(items) \in Nat
      /\ \A k \in 1..Len(items) : items'[k] = items[k]
    BY <1>2, <1>3, OneMore
<1>5. Continues(items, items') /\ Len(items) + 1 \in 1..Len(items')
    BY <1>4 DEF Continues
<1>6. ASSUME NEW k \in 1..Len(items)
      PROVE  FragOf(items')[k] = FragOf(items)[k] /\ PlaceOf(items')[k] = PlaceOf(items)[k]
    <2>1. w \in Seq(Items) /\ items' = items \o w /\ k \in 1..Len(items) + 1
        BY <1>2, <1>3, SingleTyped
    <2> HIDE DEF w
    <2>2. QED BY <1>3, <2>1, SpotsKept
<1>7. EquValue(e) \in SymbolRecords /\ IntOf(e.add) \in Int
    <2>1. e.sym \in SymVals /\ e.add \in Word
        BY DEF Terms
    <2>2. CASE e.sym = NoSym
        <3>1. EquValue(e) = Absolute(e.add)
            BY <1>1, <2>2 DEF EquValue, IsLocal
        <3>2. QED BY <2>1, <3>1, SymbolRecordsIs, IntOfIs
    <2>3. CASE e.sym # NoSym /\ IsLocal(e.sym)
        <3>1. EquValue(e) = [syms[e.sym] EXCEPT !.off = @ + IntOf(e.add)]
            BY <2>3 DEF EquValue
        <3>2. syms[e.sym] \in SymbolRecords
            BY <1>1, <2>3 DEF SymsTyped, IsLocal
        <3>3. IntOf(e.add) \in Int
            BY IntOfIs
        <3>4. QED BY <3>1, <3>2, <3>3 DEF SymbolRecords
    <2>4. CASE e.sym # NoSym /\ ~ IsLocal(e.sym)
        <3>1. EquValue(e) = AliasOf(e.sym, e.add)
            BY <2>4 DEF EquValue
        <3>2. QED BY <2>1, <3>1, SymbolRecordsIs, IntOfIs
    <2>5. QED BY <2>2, <2>3, <2>4
<1>8. /\ d.set /\ d.seg = EquValue(e).seg /\ d.of = EquValue(e).of /\ d.val = EquValue(e).val
      /\ d.frag = EquValue(e).frag /\ d.off = EquValue(e).off
    BY <1>7 DEF SymbolRecords
<1>9. syms' = Defined(s, d)
    OBVIOUS
<1> HIDE DEF d
<1>10. ASSUME PlainIn(items'), errors' = 0 PROVE Leads(items', e, d)
    <2>1. CASE e.sym = NoSym
        <3>1. EquValue(e) = Absolute(e.add)
            BY <1>1, <2>1 DEF EquValue, IsLocal
        <3>2. d.seg = "absolute" /\ d.val = e.add
            BY <1>8, <3>1 DEF Absolute, InText
        <3>3. QED BY <2>1, <3>2 DEF Leads
    <2>2. CASE e.sym # NoSym /\ IsLocal(e.sym)
        <3> DEFINE x == e.sym
        <3>1. x \in DOMAIN syms /\ syms[x].seg = "text" /\ syms[x] \in SymbolRecords
            BY <1>1, <2>2 DEF IsLocal, SymsTyped
        <3>2. EquValue(e) = [syms[x] EXCEPT !.off = @ + IntOf(e.add)]
            BY <2>2 DEF EquValue
        <3>3. d.seg = "text" /\ d.frag = syms[x].frag /\ d.off = syms[x].off + IntOf(e.add)
            BY <1>8, <3>1, <3>2 DEF SymbolRecords
        <3>4. PlainIn(items) /\ Traced(items, x, syms[x])
            BY <1>5, <1>10, <3>1, NamesGrow DEF Naming
        <3>5. ~ syms[x].set
            <4>1. ~ SetName(items', x)
                BY <1>2, <1>4, <1>5, <1>10 DEF PlainIn
            <4>2. ~ SetName(items, x)
                BY <1>5, <4>1, NamesGrow
            <4>3. QED BY <3>4, <4>2 DEF Traced, SetName
        <3>6. PICK j \in 1..Len(items) : items[j].kind = "label" /\ items[j].sym = x
            BY <3>1, <3>4, <3>5 DEF Traced, LabelAt
        <3>7. syms[x] = InText(FragOf(items)[j], PlaceOf(items)[j])
            BY <1>10, <3>4, <3>6 DEF Located, Sits
        <3>8. syms[x].frag = FragOf(items)[j] /\ syms[x].off = PlaceOf(items)[j]
            BY <3>7 DEF InText
        <3>9. j \in 1..Len(items') /\ items'[j] = items[j]
            BY <1>4
        <3>10. QED BY <1>6, <3>3, <3>6, <3>8, <3>9 DEF Leads
    <2>3. CASE e.sym # NoSym /\ ~ IsLocal(e.sym)
        <3>1. EquValue(e) = AliasOf(e.sym, e.add)
            BY <2>3 DEF EquValue
        <3>2. d.seg = "alias" /\ d.of = e.sym /\ d.val = e.add
            BY <1>8, <3>1 DEF AliasOf, InText
        <3>3. QED BY <2>3, <3>2 DEF Leads
    <2>4. QED BY <2>1, <2>2, <2>3
<1>11. errors' = 0 => /\ Sits(items', Len(items) + 1, syms')
                      /\ PlainIn(items') => Backed(items', s, d)
    BY <1>2, <1>4, <1>5, <1>10 DEF Backed, Sits
<1>12. QED BY <1>2, <1>3, <1>9, <1>11, OneLocated

LEMMA EquLocated ==
    ASSUME Types, Naming, Located, Equ, ~ Bound'
    PROVE  Located'
<1> DEFINE o == Commas(Args)
           s == Sym(o[1][1])
           e == Expression(o[2])
           it == [kind |-> "equ", sym |-> s, term |-> e]
           d == [EquValue(e) EXCEPT !.set = TRUE]
<1>1. /\ phase = "parse"
      /\ \/ Rejected /\ errors' = errors
         \/ GasError
         \/ /\ Len(o) > 1 /\ o[1] # <<>> /\ IsExpression(o[2]) /\ ~ IsLabel(s)
            /\ syms' = Defined(s, d) /\ Handled(<<it>>) /\ UNCHANGED errors
    BY DEF Equ, At, Rejected
<1>2. CASE (Rejected /\ errors' = errors) \/ GasError
    <2>1. errors' = 0 => errors = 0
        BY <1>2 DEF GasError, Types, FlagsOK
    <2>2. QED BY <1>2, <2>1, MuteFaults, MuteLocated
<1>3. CASE /\ Len(o) > 1 /\ o[1] # <<>> /\ IsExpression(o[2]) /\ ~ IsLabel(s)
           /\ syms' = Defined(s, d) /\ Handled(<<it>>) /\ UNCHANGED errors
    <2>1. Args \in Seq(Tokens) /\ SymsTyped
        BY <1>1, Reading
    <2>2. o \in Seq(Seq(Tokens))
        BY <2>1, CommasTyped
    <2>3. o[1] \in Seq(Tokens) /\ o[2] \in Seq(Tokens) /\ o[1] # <<>> /\ IsExpression(o[2])
        BY <1>3, <2>2
    <2>4. o[1][1] \in Tokens
        BY <2>3
    <2>5. s \in Symbols /\ e \in Terms
        BY <2>1, <2>3, <2>4, SymbolsTyped, ExpressionTyped
    <2> HIDE DEF s, e
    <2>6. items' = items \o <<[kind |-> "equ", sym |-> s, term |-> e]>>
        BY <1>3 DEF Handled
    <2>7. QED BY <1>1, <1>3, <2>5, <2>6, EquLeads
<1>4. QED BY <1>1, <1>2, <1>3

LEMMA GivenLocated ==
    ASSUME Types, Naming, Located, DefineLabels
    PROVE  Located'
<1> DEFINE new == {k \in DOMAIN Given : ~ Taken(k)}
           bad == DOMAIN Given \ new
           at(n) == CHOOSE k \in new : Given[k].name = n
           names == {Sym(Given[k].name) : k \in new}
<1>1. /\ syms' = [s \in DOMAIN syms \cup names |->
                    IF s \in names THEN Absolute(Given[at(s[1])].address) ELSE syms[s]]
      /\ errors' = errors + Cardinality(bad) /\ UNCHANGED <<job, items>>
    BY DEF DefineLabels
<1>2. IsFiniteSet(bad) /\ errors \in Nat /\ Cardinality(bad) \in Nat
    <2>1. bad \in SUBSET DOMAIN Given
        OBVIOUS
    <2>2. IsFiniteSet(DOMAIN Given)
        <3>1. DOMAIN Given = 1..Len(Given) /\ Len(Given) \in Nat
            BY GivenIs DEF Types
        <3>2. QED BY <3>1, FS_Interval
    <2> HIDE DEF bad
    <2>3. IsFiniteSet(bad)
        BY <2>1, <2>2, FS_Subset
    <2>4. errors \in Nat
        BY DEF Types, FlagsOK
    <2>5. QED BY <2>3, <2>4, FS_CardinalityType
<1>3. errors' = 0 => errors = 0 /\ new = DOMAIN Given
    <2>1. errors' = 0 => errors = 0 /\ Cardinality(bad) = 0
        BY <1>1, <1>2
    <2>2. QED BY <1>2, <2>1, FS_EmptySet
<1>4. DOMAIN syms' = DOMAIN syms \cup names
      /\ \A x \in DOMAIN syms : x \notin names => syms'[x] = syms[x]
    BY <1>1
<1>5. SUFFICES ASSUME errors' = 0
               PROVE  /\ \A k \in 1..Len(items) : Sits(items, k, syms')
                      /\ PlainIn(items) => \A s \in DOMAIN syms' : Backed(items, s, syms'[s])
                      /\ \A k \in DOMAIN Given : Binds(k)'
    BY <1>1 DEF Located, Given
<1>6. errors = 0 /\ new = DOMAIN Given
    BY <1>3, <1>5
<1>7. ASSUME NEW k \in 1..Len(items) PROVE Sits(items, k, syms')
    <2>1. Sits(items, k, syms)
        BY <1>6 DEF Located
    <2>2. items[k].kind = "label" => HasValue(items[k].sym)
        BY <2>1 DEF Sits, InText, HasValue
    <2>3. items[k].kind = "label" => items[k].sym \notin names
        BY <2>2 DEF Taken
    <2> HIDE DEF names
    <2>4. QED BY <1>4, <2>1, <2>3 DEF Sits
<1>8. ASSUME PlainIn(items), NEW s \in DOMAIN syms' PROVE Backed(items, s, syms'[s])
    <2>1. CASE s \notin names
        <3>1. s \in DOMAIN syms /\ syms'[s] = syms[s]
            BY <1>4, <2>1
        <3>2. QED BY <1>6, <1>8, <3>1 DEF Located
    <2>2. CASE s \in names
        <3>1. syms'[s] = Absolute(Given[at(s[1])].address)
            BY <1>1, <1>4, <2>2
        <3>2. ~ syms'[s].set
            BY <3>1 DEF Absolute, InText
        <3>3. QED BY <3>2 DEF Backed
    <2>3. QED BY <2>1, <2>2
<1>9. ASSUME NEW k \in DOMAIN Given PROVE Binds(k)'
    <2> DEFINE s == Sym(Given[k].name)
    <2>1. s \in names /\ s[1] = Given[k].name
        BY <1>6 DEF Sym
    <2>2. syms'[s] = Absolute(Given[at(s[1])].address) /\ s \in DOMAIN syms'
        BY <1>1, <1>4, <2>1
    <2>3. \A j \in new : Given[j].name = Given[k].name => j = k
        <3>1. SUFFICES ASSUME NEW j \in new, Given[j].name = Given[k].name, j # k PROVE FALSE
            OBVIOUS
        <3>2. j \in Nat /\ k \in Nat /\ j >= 1 /\ k >= 1
            <4>1. j \in DOMAIN Given
                OBVIOUS
            <4>2. DOMAIN Given = 1..Len(Given)
                BY GivenIs DEF Types
            <4>3. QED BY <4>1, <4>2
        <3>3. \A i \in 1..(j - 1) : Given[i].name # Given[j].name
            BY DEF Taken
        <3>4. \A i \in 1..(k - 1) : Given[i].name # Given[k].name
            BY <1>6 DEF Taken
        <3>5. j \in 1..(k - 1) \/ k \in 1..(j - 1)
            BY <3>1, <3>2
        <3>6. QED BY <3>1, <3>3, <3>4, <3>5
    <2>4. k \in new
        BY <1>6
    <2> HIDE DEF new
    <2>5. at(Given[k].name) = k
        BY <2>3, <2>4
    <2>6. syms'[s] = Absolute(Given[k].address)
        BY <2>1, <2>2, <2>5
    <2>7. Given' = Given
        BY <1>1 DEF Given
    <2>8. QED BY <2>2, <2>6, <2>7 DEF Binds
<1>10. QED BY <1>7, <1>8, <1>9

LEMMA MuteErrors ==
    ASSUME Types, \/ IntList \/ ConsList \/ Ascii \/ Skip \/ Org \/ Align
                  \/ Accepted \/ SwitchesSection \/ Unsupported \/ Instruction
    PROVE  /\ phase' = "parse" /\ result' = result
           /\ errors' = 0 => errors = 0
<1>1. errors \in Nat
    BY DEF Types, FlagsOK
<1>2. CASE IntList \/ Ascii \/ Skip
    BY <1>2 DEF IntList, Ascii, Skip, At, Emits, Rejected, Handled, outputs
<1>3. CASE ConsList \/ Instruction
    <2>1. errors' = errors \/ errors' = errors + 1
        BY <1>3 DEF ConsList, Instruction, Emits, GasError
    <2>2. phase' = "parse" /\ result' = result
        BY <1>3 DEF ConsList, Instruction, At, Emits, GasError, Handled, outputs
    <2>3. QED BY <1>1, <2>1, <2>2
<1>4. CASE Org \/ Align
    BY <1>4 DEF Org, Align, At, Closes, Rejected, Handled, outputs
<1>5. CASE Accepted \/ SwitchesSection \/ Unsupported
    BY <1>5 DEF Accepted, SwitchesSection, Unsupported, At, Rejected, Handled, outputs
<1>6. QED BY <1>2, <1>3, <1>4, <1>5

LEMMA PassErrors ==
    ASSUME Types, ConvertAndFinalize \/ ApplyTextFixups
    PROVE  errors' = 0 => errors = 0
<1>1. errors \in Nat
    BY DEF Types, FlagsOK
<1>2. CASE ConvertAndFinalize
    <2> DEFINE bad == OrgErrors([i \in DOMAIN frags |->
             IF frags[i].type = "machine" THEN Converted(frags[i], Opcode(frags[i]))
             ELSE frags[i]])
    <2>1. errors' = errors + Cardinality(bad)
        BY <1>2, Zenon DEF ConvertAndFinalize
    <2>2. frags \in Seq(FragRecords)
        BY DEF Types, ChainOK, FragsOK
    <2>3. DOMAIN frags = 1..Len(frags) /\ Len(frags) \in Nat
        BY <2>2
    <2>4. bad \in SUBSET (1..Len(frags))
        BY <2>3 DEF OrgErrors
    <2>5. IsFiniteSet(1..Len(frags))
        BY <2>3, FS_Interval
    <2> HIDE DEF bad
    <2>6. Cardinality(bad) \in Nat
        BY <2>4, <2>5, FS_Subset, FS_CardinalityType
    <2>7. QED BY <1>1, <2>1, <2>6
<1>3. CASE ApplyTextFixups
    <2>1. OutOfRange \in SUBSET (1..Len(fixes))
        BY FieldValueTyped DEF OutOfRange, Encodable
    <2>2. IsFiniteSet(1..Len(fixes))
        BY FS_Interval DEF Types, FixesOK
    <2>3. Cardinality(OutOfRange) \in Nat
        BY <2>1, <2>2, FS_Subset, FS_CardinalityType
    <2>4. errors' = errors + Cardinality(OutOfRange)
        BY <1>3 DEF ApplyTextFixups
    <2>5. QED BY <1>1, <2>3, <2>4
<1>4. QED BY <1>2, <1>3

LEMMA NextLocated ==
    ASSUME Types, LayoutInv(FALSE), Naming, Located, [Next]_vars
    PROVE  Located'
<1>1. phase \notin {"decode", "done"} /\ result' = result => ~ Succeeded'
    BY DEF LayoutInv, Succeeded
<1>2. CASE \/ IntList \/ ConsList \/ Ascii \/ Skip \/ Org \/ Align \/ Accepted
           \/ SwitchesSection \/ Unsupported \/ Instruction
    <2>1. \E what, still : MuteStep(what, still)
        BY <1>2, StillStatements, MuteConsList, MuteInstruction
    <2>2. phase' = "parse" /\ result' = result /\ (errors' = 0 => errors = 0)
        BY <1>2, MuteErrors
    <2>3. phase' = phase
        BY <2>1 DEF MuteStep
    <2>4. ~ Bound'
        BY <1>1, <2>2, <2>3 DEF Bound
    <2>5. QED BY <2>1, <2>2, <2>4, MuteLocated
<1>3. CASE Label
    <2>1. phase = "parse" /\ phase' = phase /\ result' = result
        BY <1>3 DEF Label, outputs
    <2>2. ~ Bound' /\ Reads(FALSE)
        BY <1>1, <2>1 DEF Bound, LayoutInv
    <2>3. QED BY <1>3, <2>2, LabelLocated
<1>4. CASE Equ
    <2>1. phase = "parse" /\ phase' = phase /\ result' = result
        BY <1>4 DEF Equ, At, Handled, GasError, Rejected, outputs
    <2>2. ~ Bound'
        BY <1>1, <2>1 DEF Bound
    <2>3. QED BY <1>4, <2>2, EquLocated
<1>5. CASE DefineLabels
    BY <1>5, GivenLocated
<1>6. CASE Reset \/ NextStatement
    <2>1. /\ UNCHANGED <<job, syms, items, errors, result>> /\ phase \in {"reset", "parse"}
          /\ phase' = "parse"
        BY <1>6 DEF Reset, NextStatement, section, flags, outputs
    <2>2. ~ Bound'
        BY <1>1, <2>1 DEF Bound
    <2>3. QED BY <2>1, <2>2, QuietLocated
<1>7. CASE RelaxBranches \/ RelaxSegment
    <2>1. UNCHANGED <<job, syms, items, errors>> /\ phase \in {"relax", "relaxing"}
        BY <1>7 DEF RelaxBranches, RelaxSegment, flags
    <2>2. QED BY <2>1, QuietLocated DEF Bound
<1>8. CASE ConvertAndFinalize \/ ApplyTextFixups
    <2>1. UNCHANGED <<job, syms, items>> /\ phase \in {"relaxing", "fixups"}
        BY <1>8 DEF ConvertAndFinalize, ApplyTextFixups
    <2>2. QED BY <1>8, <2>1, PassErrors, QuietLocated DEF Bound
<1>9. CASE Report
    <2>1. UNCHANGED <<job, syms, items, errors>> /\ phase = "report"
        BY <1>9 DEF Report, section, flags
    <2>2. QED BY <2>1, QuietLocated DEF Bound
<1>10. CASE DecodeOne \/ Decoded
    <2>1. UNCHANGED <<job, syms, items, errors, result>> /\ phase' \in {"decode", "done"}
        BY <1>10 DEF DecodeOne, Decoded, section, flags, outputs
    <2>2. Bound' => Bound
        BY <2>1 DEF Bound, Succeeded
    <2>3. QED BY <2>1, <2>2, QuietLocated
<1>11. CASE UNCHANGED vars
    <2>1. UNCHANGED <<job, syms, items, errors, result, phase>>
        BY <1>11 DEF vars, section, flags, outputs
    <2>2. Bound' => Bound
        BY <2>1 DEF Bound, Succeeded
    <2>3. QED BY <2>1, <2>2, QuietLocated
<1>12. QED BY <1>2, <1>3, <1>4, <1>5, <1>6, <1>7, <1>8, <1>9, <1>10, <1>11 DEF Next, Returned

LEMMA LocatedHolds == Spec => []Located
<1>1. Init => Located
    <2> SUFFICES ASSUME Init PROVE Located
        OBVIOUS
    <2> DEFINE its == <<>>
    <2>1. items = its /\ syms = <<>> /\ phase \in {"reset", "decode"} /\ result.status = "none"
        BY DEF Init, NoResult
    <2>2. 1..Len(its) = {} /\ DOMAIN syms = {}
        BY <2>1
    <2> HIDE DEF its
    <2>3. QED BY <2>1, <2>2 DEF Located, Bound, Succeeded
<1>2. Types /\ LayoutInv(FALSE) /\ Naming /\ Located /\ [Next]_vars => Located'
    BY NextLocated
<1>3. QED BY <1>1, <1>2, TypesHold, LayoutHolds, NamingHolds, PTL DEF Spec

-----------------------------------------------------------------------------
(* What a symbol means and what the fixups take for it.                    *)

LEMMA PlusZero ==
    ASSUME NEW w \in Word
    PROVE  Plus(w, {}) = w /\ Plus({}, w) = w /\ Minus(w, {}) = w
<1> DEFINE i == IntOf(w)
<1>1. i \in Int /\ ToWord(i) = w
    BY WordOfInt
<1>2. ToWord(0) = {} /\ 0 \in Int
    BY ZeroAndOne
<1> HIDE DEF i
<1>3. ToWord(i + 0) = Plus(w, {}) /\ ToWord(0 + i) = Plus({}, w) /\ ToWord(i - 0) = Minus(w, {})
    <2>1. ToWord(i + 0) = Plus(ToWord(i), ToWord(0)) /\ ToWord(0 + i) = Plus(ToWord(0), ToWord(i))
        BY <1>1, <1>2, SumOfWords
    <2>2. ToWord(i - 0) = Minus(ToWord(i), ToWord(0))
        BY <1>1, <1>2, DifferenceOfWords
    <2>3. QED BY <1>1, <1>2, <2>1, <2>2
<1>4. i + 0 = i /\ 0 + i = i /\ i - 0 = i
    BY <1>1
<1>5. QED BY <1>1, <1>3, <1>4

\* An addend on the address of a place, or on the place.
LEMMA PlusMoves ==
    ASSUME NEW b \in Word, NEW w \in Word, NEW l \in Nat, NEW o \in Nat
    PROVE  Plus(Plus(b, ToWord(l + o)), w) = Plus(b, ToWord(l + (o + IntOf(w))))
<1> DEFINE x == IntOf(b)  y == IntOf(w)
<1>1. x \in Int /\ ToWord(x) = b /\ y \in Int /\ ToWord(y) = w
    BY WordOfInt
<1> HIDE DEF x, y
<1>2. l + o \in Int /\ x + (l + o) \in Int /\ l + (o + y) \in Int
      /\ (x + (l + o)) + y = x + (l + (o + y))
    BY <1>1
<1>3. ToWord(x + (l + o)) = Plus(b, ToWord(l + o))
    BY <1>1, <1>2, SumOfWords
<1>4. ToWord((x + (l + o)) + y) = Plus(ToWord(x + (l + o)), w)
    BY <1>1, <1>2, SumOfWords
<1>5. ToWord(x + (l + (o + y))) = Plus(b, ToWord(l + (o + y)))
    BY <1>1, <1>2, SumOfWords
<1>6. QED BY <1>2, <1>3, <1>4, <1>5 DEF y

\* An item lies on its spot.
LEMMA SpotAddress ==
    ASSUME Types, Final(items, frags, FALSE), NEW k \in 1..Len(items)
    PROVE  /\ FragOf(items)[k] \in 1..Len(frags) /\ PlaceOf(items)[k] \in Nat
           /\ Layout(frags)[FragOf(items)[k]] \in Nat
           /\ TrueAddress[k] = Layout(frags)[FragOf(items)[k]] + PlaceOf(items)[k]
<1> DEFINE i == FragOf(items)[k]  o == PlaceOf(items)[k]  l == Layout(frags)[i]  a == TrueAddress[k]
<1>1. /\ i \in 1..Len(frags) /\ o \in Nat
      /\ Settled(items[k], i, frags[i], l, o, AddressIn(items, frags)[k],
                 AddressIn(items, frags)[k + 1], FALSE)
    BY DEF Final
<1>2. a = AddressIn(items, frags)[k]
    BY TrueAddressIs
<1>3. l \in Nat
    <2>1. frags \in Seq(FragRecords)
        BY DEF Types, ChainOK, FragsOK
    <2>2. i \in 1..Len(frags) + 1
        BY <1>1, <2>1
    <2>3. QED BY <2>1, <2>2, LayoutRun
<1> HIDE DEF i, o, l, a
<1>4. a = l + o
    BY <1>1, <1>2 DEF Settled
<1>5. QED BY <1>1, <1>3, <1>4 DEF i, o, l, a

\* The settled symbol table of a result.
Answering == /\ Types /\ Naming /\ Located /\ Succeeded /\ PlainIn(items) /\ errors = 0
             /\ Final(items, frags, FALSE)

LEMMA PlaceValue ==
    ASSUME Answering, NEW s, NEW v \in Places(s)
    PROVE  /\ s \in DOMAIN syms /\ ~ IsAlias(s) /\ v = ValueOf(syms[s]) /\ v \in Word
<1> DEFINE L == {i \in DOMAIN items : items[i].kind = "label" /\ items[i].sym = s}
           G == {i \in DOMAIN Given : Sym(Given[i].name) = s}
           place(k) == Plus(job.base, ToWord(TrueAddress[k]))
           address(k) == Given[k].address
<1>1. Places(s) = {place(k) : k \in L} \cup {address(k) : k \in G}
    BY DEF Places
<1>2. job.base \in Word /\ DOMAIN items = 1..Len(items)
    BY JobTypes DEF Answering, Types, ItemsOK
<1>3. CASE \E k \in L : v = place(k)
    <2>1. PICK k \in 1..Len(items) : items[k].kind = "label" /\ items[k].sym = s /\ v = place(k)
        BY <1>2, <1>3
    <2>2. s \in DOMAIN syms /\ syms[s] = InText(FragOf(items)[k], PlaceOf(items)[k])
        BY <2>1 DEF Answering, Located, Sits
    <2>3. syms[s].seg = "text" /\ syms[s].frag = FragOf(items)[k] /\ syms[s].off = PlaceOf(items)[k]
        BY <2>2 DEF InText
    <2>4. TrueAddress[k] = Layout(frags)[FragOf(items)[k]] + PlaceOf(items)[k]
        BY SpotAddress DEF Answering
    <2>5. ValueOf(syms[s]) = Plus(job.base, ToWord(Layout(frags)[FragOf(items)[k]] + PlaceOf(items)[k]))
        BY <2>3 DEF ValueOf
    <2>6. v = ValueOf(syms[s])
        BY <2>1, <2>4, <2>5
    <2>7. v \in Word
        BY <1>2, <2>5, <2>6, WordParts, WordOps
    <2>8. QED BY <2>2, <2>3, <2>6, <2>7 DEF IsAlias
<1>4. CASE \E k \in G : v = address(k)
    <2>1. PICK k \in DOMAIN Given : Sym(Given[k].name) = s /\ v = Given[k].address
        BY <1>4
    <2>2. s \in DOMAIN syms /\ syms[s] = Absolute(v)
        BY <2>1 DEF Answering, Located, Binds, Bound
    <2>3. syms[s].seg = "absolute" /\ syms[s].val = v
        BY <2>2 DEF Absolute, InText
    <2>4. v \in Word
        BY <2>1, GivenIs DEF Answering, Types
    <2>5. QED BY <2>2, <2>3, <2>4 DEF IsAlias, ValueOf
<1>5. QED BY <1>1, <1>3, <1>4

\* The value of a symbol that is no alias, and of an alias.
LEMMA SymAbsIs ==
    ASSUME Types, Naming, PlainIn(items), NEW s \in SymVals
    PROVE  /\ s \in DOMAIN syms /\ ~ IsAlias(s) /\ ValueOf(syms[s]) \in Word
                => IsDefined(s) /\ SymAbs(s) = ValueOf(syms[s])
           /\ IsAlias(s) /\ syms[s].of \in DOMAIN syms
                => IsDefined(s) /\ SymAbs(s) = Plus(ValueOf(syms[syms[s].of]), syms[s].val)
<1>1. SymsTyped
    BY DEF Types, SymbolsOK
<1>2. Resolved(s) = <<Target(s), Added(s)>>
    BY <1>1, ResolvedIs
<1>3. Root(s) = Target(s) /\ SymAbs(s) = Plus(ValueOf(syms[Target(s)]), Added(s))
    BY <1>2 DEF Root, SymAbs
<1>4. IsDefined(s) <=> \/ s \in DOMAIN syms /\ syms[s].seg # "alias"
                       \/ s \in DOMAIN syms /\ syms[s].seg = "alias" /\ syms[s].of \in DOMAIN syms
    BY <1>1, DefinedIs
<1>5. ASSUME s \in DOMAIN syms, ~ IsAlias(s), ValueOf(syms[s]) \in Word
      PROVE  IsDefined(s) /\ SymAbs(s) = ValueOf(syms[s])
    <2>1. Target(s) = s /\ Added(s) = {}
        BY <1>5 DEF Target, Added
    <2>2. SymAbs(s) = ValueOf(syms[s])
        BY <1>3, <1>5, <2>1, PlusZero
    <2>3. QED BY <1>4, <1>5, <2>2 DEF IsAlias
<1>6. ASSUME IsAlias(s), syms[s].of \in DOMAIN syms
      PROVE  IsDefined(s) /\ SymAbs(s) = Plus(ValueOf(syms[syms[s].of]), syms[s].val)
    <2>1. Target(s) = syms[s].of /\ Added(s) = Plus({}, syms[s].val)
        BY <1>6 DEF Target, Added
    <2>2. syms[s].val \in Word
        BY <1>1, <1>6, AliasEnds
    <2>3. Added(s) = syms[s].val
        BY <2>1, <2>2, PlusZero
    <2>4. QED BY <1>3, <1>4, <1>6, <2>1, <2>3 DEF IsAlias
<1>7. QED BY <1>5, <1>6

LEMMA NamersTyped ==
    ASSUME NEW it \in Items
    PROVE  /\ it.kind = "label" => it.sym \in Symbols
           /\ it.kind = "equ" => it.sym \in Symbols /\ it.term \in Terms
BY DEF Items

\* What .equ makes of a term has the value of the term.
LEMMA TermValue ==
    ASSUME Answering, NEW s \in SymVals, NEW t \in Terms, s \in DOMAIN syms, Leads(items, t, syms[s]),
           NEW u, u \in IF t.sym = NoSym THEN {{}} ELSE Places(t.sym)
    PROVE  IsDefined(s) /\ Plus(u, t.add) = SymAbs(s)
<1> DEFINE d == syms[s]
<1>1. Types /\ Naming /\ PlainIn(items) /\ SymsTyped /\ job.base \in Word /\ items \in Seq(Items)
    BY JobTypes DEF Answering, Types, SymbolsOK, ItemsOK
<1>2. t.add \in Word /\ t.sym \in SymVals /\ d \in SymbolRecords
    BY <1>1 DEF Terms, SymsTyped
<1>3. CASE d.seg = "absolute" /\ t.sym = NoSym /\ d.val = t.add
    <2>1. u = {} /\ ValueOf(d) = t.add /\ ~ IsAlias(s)
        BY <1>3 DEF ValueOf, IsAlias
    <2>2. Plus(u, t.add) = t.add
        BY <1>2, <2>1, PlusZero
    <2>3. QED BY <1>1, <1>2, <2>1, <2>2, SymAbsIs
<1>4. CASE d.seg = "text" /\ \E j \in 1..Len(items) :
               /\ items[j].kind = "label" /\ items[j].sym = t.sym
               /\ d.frag = FragOf(items)[j] /\ d.off = PlaceOf(items)[j] + IntOf(t.add)
    <2>1. PICK j \in 1..Len(items) :
               /\ items[j].kind = "label" /\ items[j].sym = t.sym
               /\ d.frag = FragOf(items)[j] /\ d.off = PlaceOf(items)[j] + IntOf(t.add)
        BY <1>4
    <2>2. t.sym # NoSym
        <3>1. items[j] \in Items
            BY <1>1
        <3>2. items[j].sym \in Symbols
            BY <2>1, <3>1, NamersTyped
        <3>3. QED BY <2>1, <3>2, SymbolsTyped
    <2>3. u \in Places(t.sym)
        BY <2>2
    <2>4. t.sym \in DOMAIN syms /\ u = ValueOf(syms[t.sym])
        BY <2>3, PlaceValue
    <2>5. syms[t.sym] = InText(FragOf(items)[j], PlaceOf(items)[j])
        BY <2>1 DEF Answering, Located, Sits
    <2> DEFINE l == Layout(frags)[FragOf(items)[j]]  o == PlaceOf(items)[j]
    <2>6. l \in Nat /\ o \in Nat
        BY SpotAddress DEF Answering
    <2>7. u = Plus(job.base, ToWord(l + o))
        BY <2>4, <2>5 DEF ValueOf, InText
    <2>8. ValueOf(d) = Plus(job.base, ToWord(l + (o + IntOf(t.add))))
        BY <1>4, <2>1 DEF ValueOf
    <2> HIDE DEF l, o, d
    <2>9. Plus(u, t.add) = ValueOf(d)
        BY <1>1, <1>2, <2>6, <2>7, <2>8, PlusMoves
    <2>10. ValueOf(d) \in Word
        BY <1>1, <2>8, WordParts, WordOps
    <2>11. ~ IsAlias(s)
        BY <1>4 DEF IsAlias, d
    <2>12. QED BY <1>1, <2>9, <2>10, <2>11, SymAbsIs DEF d
<1>5. CASE d.seg = "alias" /\ d.of = t.sym /\ t.sym # NoSym /\ d.val = t.add
    <2>1. u \in Places(t.sym)
        BY <1>5
    <2>2. t.sym \in DOMAIN syms /\ u = ValueOf(syms[t.sym])
        BY <2>1, PlaceValue
    <2>3. IsAlias(s) /\ syms[s].of \in DOMAIN syms
        BY <1>5, <2>2 DEF IsAlias
    <2>4. IsDefined(s) /\ SymAbs(s) = Plus(ValueOf(syms[syms[s].of]), syms[s].val)
        BY <1>1, <2>3, SymAbsIs
    <2>5. QED BY <1>5, <2>2, <2>4
<1>6. QED BY <1>3, <1>4, <1>5 DEF Leads

\* A symbol that means something is defined, and means its value.
LEMMA MeaningValue ==
    ASSUME Answering, NEW s \in Symbols, NEW v \in Meaning(s)
    PROVE  IsDefined(s) /\ v = SymAbs(s)
<1>1. Types /\ Naming /\ PlainIn(items) /\ SymsTyped /\ items \in Seq(Items)
      /\ DOMAIN items = 1..Len(items)
    BY DEF Answering, Types, SymbolsOK, ItemsOK
<1>2. s \in SymVals /\ s # NoSym
    BY SymbolsTyped DEF SymVals
<1>3. CASE Places(s) # {}
    <2>1. v \in Places(s)
        BY <1>2, <1>3 DEF Meaning
    <2>2. s \in DOMAIN syms /\ ~ IsAlias(s) /\ v = ValueOf(syms[s]) /\ v \in Word
        BY <2>1, PlaceValue
    <2>3. QED BY <1>1, <1>2, <2>2, SymAbsIs
<1>4. CASE Places(s) = {}
    <2> DEFINE from(t) == IF t.sym = NoSym THEN {{}} ELSE Places(t.sym)
    <2>1. Meaning(s) = UNION {{Plus(u, t.add) : u \in from(t)} : t \in SetTo(s)}
        BY <1>2, <1>4 DEF Meaning
    <2> HIDE DEF from
    <2>2. PICK t \in SetTo(s) : \E u \in from(t) : v = Plus(u, t.add)
        BY <2>1
    <2>3. PICK u \in from(t) : v = Plus(u, t.add)
        BY <2>2
    <2>4. PICK k \in 1..Len(items) : items[k].kind = "equ" /\ items[k].sym = s /\ items[k].term = t
        BY <1>1, <2>2 DEF SetTo
    <2>5. t \in Terms
        <3>1. items[k] \in Items
            BY <1>1
        <3>2. QED BY <2>4, <3>1, NamersTyped
    <2>6. s \in DOMAIN syms
        BY <1>1, <2>4 DEF Naming, Entered
    <2>7. Traced(items, s, syms[s])
        BY <1>1, <2>6 DEF Naming
    <2>8. syms[s].set
        BY <1>1, <1>4, <2>7, PlacesAre DEF Traced
    <2>9. Backed(items, s, syms[s])
        BY <2>6 DEF Answering, Located
    <2>10. PICK j \in 1..Len(items) : /\ items[j].kind = "equ" /\ items[j].sym = s
                                      /\ Leads(items, items[j].term, syms[s])
        BY <2>8, <2>9 DEF Backed
    <2>11. j = k
        BY <1>1, <2>4, <2>10 DEF PlainIn
    <2>12. Leads(items, t, syms[s])
        BY <2>4, <2>10, <2>11
    <2>13. u \in IF t.sym = NoSym THEN {{}} ELSE Places(t.sym)
        BY <2>3 DEF from
    <2>14. QED BY <1>2, <2>3, <2>5, <2>6, <2>12, <2>13, TermValue
<1>5. QED BY <1>3, <1>4

\* No field holds a difference that gas has left to its fixup.
NoDifferences == \A k \in 1..Len(items) :
    items[k].kind \in {"data", "insn"} => items[k].term.sub = NoSym

\* What a field means is the value that its fixup writes.
LEMMA FieldMeans ==
    ASSUME Answering, NoDifferences, NEW m \in 1..Len(fixes), NEW k \in 1..Len(items), Meets(m, k),
           items[k].term.sym # NoSym, NEW v \in FieldMeaning(k)
    PROVE  m \in Known /\ v = FieldValue(fixes[m])
<1> DEFINE fx == fixes[m]  t == items[k].term  here == Plus(job.base, ToWord(FieldAt(k)))
           rel == fx.form \in RelForms
<1>1. Types /\ Naming /\ PlainIn(items) /\ Final(items, frags, FALSE) /\ DOMAIN fixes = 1..Len(fixes)
    BY PendingFinite DEF Answering
<1>2. Site(fx) = FieldAt(k) /\ fx.form = FieldForm(items[k]) /\ items[k].kind \in {"data", "insn"}
    BY <1>1, SitePlace DEF Meets
<1>3. fx.sym = t.sym /\ fx.add = t.add
    BY DEF Meets, Meant
<1>4. t \in Terms /\ t.sub = NoSym
    <2>1. items[k] \in Items
        BY <1>1 DEF Types, ItemsOK
    <2>2. t \in Terms
        BY <1>2, <2>1, KindOf
    <2>3. QED BY <1>2, <2>2 DEF NoDifferences
<1>5. t.sym \in Symbols /\ t.add \in Word
    BY <1>4 DEF Terms, SymVals
<1>6. Meaning(t.sub) = {{}}
    BY <1>4 DEF Meaning
<1>7. FieldMeaning(k) = {Minus(Plus(u, t.add), w) :
                           u \in Meaning(t.sym), w \in IF rel THEN {here} ELSE {{}}}
    BY <1>2, <1>6 DEF FieldMeaning
<1> HIDE DEF here, rel
<1>8. PICK u \in Meaning(t.sym), w \in IF rel THEN {here} ELSE {{}} : v = Minus(Plus(u, t.add), w)
    BY <1>7
<1>9. IsDefined(t.sym) /\ u = SymAbs(t.sym)
    BY <1>5, MeaningValue
<1>10. m \in Known
    BY <1>1, <1>3, <1>9 DEF Known
<1>11. v = FieldValue(fx)
    <2>1. CASE rel
        <3>1. w = here
            BY <1>8, <2>1
        <3>2. FieldValue(fx) = Minus(Plus(SymAbs(t.sym), t.add), here)
            BY <1>2, <1>3, <2>1 DEF FieldValue, rel, here
        <3>3. QED BY <1>8, <1>9, <3>1, <3>2
    <2>2. CASE ~ rel
        <3>1. w = {}
            BY <1>8, <2>2
        <3>2. FieldValue(fx) = Plus(SymAbs(t.sym), t.add)
            BY <1>3, <2>2 DEF FieldValue, rel
        <3>3. FieldValue(fx) \in Word
            BY <1>1, <1>10, FieldValueTyped
        <3>4. QED BY <1>8, <1>9, <3>1, <3>2, <3>3, PlusZero
    <2>3. QED BY <2>1, <2>2
<1>12. QED BY <1>10, <1>11

(* Every field whose symbol has a meaning reads back as that meaning: the  *)
(* address of a label or of a LabelDefinition, what .equ made of one, or   *)
(* the displacement to it from the field (nyxstone_glue.c:745-753,         *)
(* apply_text_fixups), wherever relaxation and padding have moved the      *)
(* label, the field and the bytes around it.  Differences that gas has     *)
(* left to their fixups are the exception: their second symbol is never    *)
(* looked at.                                                              *)
THEOREM ReferencesRead == Spec => [](PlainEqus /\ NoDifferences => ReferencesHit)
<1>1. Types /\ LayoutInv(FALSE) /\ Naming /\ RelocInv /\ Located /\ HitInv
        => (PlainEqus /\ NoDifferences => ReferencesHit)
    <2> SUFFICES ASSUME Types, LayoutInv(FALSE), Naming, RelocInv, Located, HitInv, PlainEqus,
                        NoDifferences, Succeeded, NEW k \in Symbolic, NEW v \in FieldMeaning(k)
                 PROVE  LET form == FieldForm(items[k])
                            n == FieldLength(form, result.bytes[FieldAt(k) + 1])
                        IN Holds(form, RdLe(result.bytes, FieldAt(k), n), v)
        BY Zenon DEF ReferencesHit
    <2>1. Final(items, frags, FALSE) /\ result.bytes = Image(frags) /\ Matched(items, frags, fixes)
          /\ errors = 0 /\ AllRead
        BY DEF LayoutInv, RelocInv, HitInv, Succeeded
    <2>2. Answering
        BY <2>1 DEF Answering, PlainEqus
    <2>3. /\ k \in 1..Len(items) /\ items[k] \in Items /\ items[k].kind \in {"data", "insn"}
          /\ items[k].term.sym # NoSym
        BY DEF Types, ItemsOK, Symbolic
    <2>4. items[k].kind = "insn" => items[k].op \in DOMAIN Insns \ Simple
        BY <2>3, KindOf
    <2>5. Refers(items[k])
        BY <2>3, <2>4 DEF Refers, Fielded, IsBranch
    <2>6. PICK m \in 1..Len(fixes) : Meets(m, k)
        BY <2>1, <2>3, <2>5 DEF Matched, Meets
    <2>7. m \in Known /\ v = FieldValue(fixes[m])
        BY <2>2, <2>3, <2>6, FieldMeans
    <2>8. Site(fixes[m]) = FieldAt(k) /\ fixes[m].form = FieldForm(items[k])
        BY <2>1, <2>3, <2>6, SitePlace DEF Meets
    <2>9. ReadsBack(m)
        BY <2>1, <2>7 DEF AllRead
    <2>10. QED BY <2>1, <2>7, <2>8, <2>9 DEF ReadsBack
<1>2. QED BY <1>1, TypesHold, LayoutHolds, NamingHolds, RelocHolds, LocatedHolds, HitHolds, PTL

-----------------------------------------------------------------------------
(* Relaxation.  A walk in which every step leads further up ends after as  *)
(* many steps as there is something to walk on.                            *)

LEMMA WalkEnds ==
    ASSUME NEW n \in Nat, NEW T, IsFiniteSet(T), Cardinality(T) <= n, NEW step, NEW m \in [T -> Int],
           \A i \in 1..n : \A x \in T :
             step[i][x] \in T /\ (step[i][x] # x => m[x] < m[step[i][x]]),
           \A i, j \in 1..n : step[i] = step[j], NEW start \in T
    PROVE  LET y == After(n, start, step)
           IN y \in T /\ \A i \in 1..n : step[i][y] = y
<1> DEFINE g == Before(n, start, step)
           Above(x) == {t \in T : m[x] < m[t]}
           Rest(x) == \A i \in 1..n : step[i][x] = x
<1>1. Runs(n, T, start, step, g)
    BY BeforeIs
<1>2. After(n, start, step) = g[n + 1]
    BY DEF After
<1> HIDE DEF g
<1>3. ASSUME NEW x \in T
      PROVE  IsFiniteSet(Above(x)) /\ Cardinality(Above(x)) \in Nat /\ Cardinality(Above(x)) < Cardinality(T)
    <2>1. Above(x) \in SUBSET T /\ x \notin Above(x)
        OBVIOUS
    <2>2. Above(x) # T
        BY <2>1
    <2> HIDE DEF Above
    <2>3. IsFiniteSet(Above(x)) /\ Cardinality(Above(x)) <= Cardinality(T)
          /\ (Cardinality(T) = Cardinality(Above(x)) => Above(x) = T)
        BY <2>1, FS_Subset
    <2>4. Cardinality(Above(x)) \in Nat /\ Cardinality(T) \in Nat
        BY <2>3, FS_CardinalityType
    <2>5. QED BY <2>2, <2>3, <2>4
<1>4. ASSUME NEW x \in T, NEW y \in T, m[x] < m[y]
      PROVE  Cardinality(Above(y)) < Cardinality(Above(x))
    <2>1. m[x] \in Int /\ m[y] \in Int /\ \A t \in T : m[t] \in Int
        OBVIOUS
    <2>2. Above(y) \in SUBSET Above(x) /\ y \in Above(x) /\ y \notin Above(y)
        BY <1>4, <2>1
    <2>3. IsFiniteSet(Above(x)) /\ Cardinality(Above(x)) \in Nat /\ Cardinality(Above(y)) \in Nat
        BY <1>3
    <2> HIDE DEF Above
    <2>4. Cardinality(Above(y)) <= Cardinality(Above(x))
          /\ (Cardinality(Above(x)) = Cardinality(Above(y)) => Above(y) = Above(x))
        BY <2>2, <2>3, FS_Subset
    <2>5. Above(y) # Above(x)
        BY <2>2
    <2>6. QED BY <2>3, <2>4, <2>5
<1> HIDE DEF Above
<1> DEFINE S == {k \in Nat : k <= n => \/ Rest(g[k + 1])
                                       \/ Cardinality(Above(g[k + 1])) + k < Cardinality(T)}
<1>5. Cardinality(T) \in Nat
    BY FS_CardinalityType
<1>6. 0 \in S
    <2>1. g[1] = start
        BY <1>1 DEF Runs
    <2>2. Cardinality(Above(g[1])) \in Nat /\ Cardinality(Above(g[1])) < Cardinality(T)
        BY <1>3, <2>1
    <2>3. Cardinality(Above(g[0 + 1])) + 0 < Cardinality(T)
        BY <2>2
    <2>4. QED BY <2>3
<1>7. ASSUME NEW k \in Nat, k \in S PROVE k + 1 \in S
    <2>1. SUFFICES ASSUME k + 1 <= n
                   PROVE  \/ Rest(g[(k + 1) + 1])
                          \/ Cardinality(Above(g[(k + 1) + 1])) + (k + 1) < Cardinality(T)
        OBVIOUS
    <2> DEFINE i == k + 1
    <2>2. i \in 1..n /\ i = k + 1 /\ k <= n
        BY <2>1
    <2> HIDE DEF i
    <2>3. g[i + 1] = step[i][g[i]] /\ g[i] \in T /\ g[i + 1] \in T
        BY <1>1, <2>2, RunAt
    <2>4. Rest(g[i]) \/ Cardinality(Above(g[i])) + k < Cardinality(T)
        BY <1>7, <2>2
    <2>5. CASE g[i + 1] = g[i]
        <3>1. \A j \in 1..n : step[j][g[i]] = g[i]
            <4>1. ASSUME NEW j \in 1..n PROVE step[j] = step[i]
                BY <2>2
            <4>2. QED BY <2>3, <2>5, <4>1
        <3>2. Rest(g[i + 1])
            BY <2>5, <3>1
        <3>3. QED BY <2>2, <3>2
    <2>6. CASE g[i + 1] # g[i]
        <3>1. ~ Rest(g[i])
            BY <2>2, <2>3, <2>6
        <3>2. m[g[i]] < m[g[i + 1]]
            BY <2>2, <2>3, <2>6
        <3>3. Cardinality(Above(g[i + 1])) < Cardinality(Above(g[i]))
            BY <1>4, <2>3, <3>2
        <3>4. Cardinality(Above(g[i + 1])) \in Nat /\ Cardinality(Above(g[i])) \in Nat
            BY <1>3, <2>3
        <3>5. Cardinality(Above(g[i])) + k < Cardinality(T)
            BY <2>4, <3>1
        <3> HIDE DEF Rest
        <3>6. Cardinality(Above(g[i + 1])) + (k + 1) < Cardinality(T)
            BY <1>5, <3>3, <3>4, <3>5
        <3>7. QED BY <2>2, <3>6
    <2>7. QED BY <2>5, <2>6
<1> HIDE DEF S
<1>8. n \in S
    BY <1>6, <1>7, SetInduction
<1>9. g[n + 1] \in T
    BY <1>1 DEF Runs
<1>10. Rest(g[n + 1])
    <2>1. Rest(g[n + 1]) \/ Cardinality(Above(g[n + 1])) + n < Cardinality(T)
        BY <1>8 DEF S
    <2>2. Cardinality(Above(g[n + 1])) \in Nat
        BY <1>3, <1>9
    <2> HIDE DEF Rest
    <2>3. QED BY <1>5, <2>1, <2>2
<1>11. QED BY <1>2, <1>9, <1>10

LEMMA StatesIs ==
    /\ IsFiniteSet(States) /\ TableSize = Cardinality(States) /\ TableSize \in Nat
    /\ \A s \in States : /\ RlxMore[s] \in States /\ Shape[s].size \in Nat
                         /\ RlxMore[s] # 0 => Shape[s].size < Shape[RlxMore[s]].size
BY RelaxTable, RelaxOrder, TableSizeIs DEF TableSize

\* The longest state has no longer one.
LEMMA TerminalIs ==
    ASSUME NEW s \in States
    PROVE  RlxMore[ChainTerminal(s)] = 0
<1> DEFINE step == [k \in 1..TableSize |-> [x \in States |-> Longer(x)]]
           m == [x \in States |-> Shape[x].size]
<1>1. m \in [States -> Int]
    BY StatesIs
<1>2. \A k \in 1..TableSize : \A x \in States : step[k][x] = Longer(x)
    OBVIOUS
<1>3. ASSUME NEW x \in States PROVE Longer(x) \in States /\ (Longer(x) # x => m[x] < m[Longer(x)])
    BY StatesIs DEF Longer
<1>4. \A i, j \in 1..TableSize : step[i] = step[j]
    OBVIOUS
<1>5. ChainTerminal(s) = After(TableSize, s, step)
    BY DEF ChainTerminal
<1> DEFINE y == After(TableSize, s, step)
<1> HIDE DEF step, m
<1>6. y \in States /\ \A i \in 1..TableSize : step[i][y] = y
    BY <1>1, <1>2, <1>3, <1>4, StatesIs, WalkEnds
<1>7. 1 \in 1..TableSize
    <2>1. States # {}
        OBVIOUS
    <2>2. TableSize # 0
        BY <2>1, StatesIs, FS_EmptySet
    <2>3. QED BY <2>2, StatesIs
<1> HIDE DEF y
<1>8. Longer(y) = y
    BY <1>2, <1>6, <1>7
<1>9. RlxMore[y] = 0
    BY <1>6, <1>8, StatesIs DEF Longer
<1>10. QED BY <1>5, <1>9 DEF y

\* Nothing leads to the shortest state, if the chain does not begin at index 0.
LEMMA HeadIs ==
    ASSUME NEW o \in Branches, NEW s \in DOMAIN Insns[o].opcode,
           RlxMore[0] \notin DOMAIN Insns[o].opcode
    PROVE  \A p \in States : RlxMore[p] # ChainHead(s)
<1> DEFINE C == DOMAIN Insns[o].opcode
           step == [k \in 1..TableSize |-> [x \in States |-> Shorter(x)]]
           m == [x \in C |-> -Shape[x].size]
<1>1. C \in SUBSET States /\ \A x \in C : Longer(x) \in C /\ Shorter(x) \in C
    BY InsnIs
<1>2. 0 \notin C
    BY <1>1 DEF Longer
<1>3. m \in [C -> Int] /\ \A x \in C : m[x] = -Shape[x].size
    BY <1>1, StatesIs
<1>4. \A k \in 1..TableSize : \A x \in C : step[k][x] = Shorter(x)
    BY <1>1
<1>5. \A i, j \in 1..TableSize : step[i] = step[j]
    OBVIOUS
<1>6. ASSUME NEW x \in C, Predecessors(x) # {} 
      PROVE  Shorter(x) \in States /\ RlxMore[Shorter(x)] = x
    <2>1. Predecessors(x) \in SUBSET Nat
        BY RelaxTable DEF Predecessors
    <2>2. Shorter(x) \in Predecessors(x)
        BY <1>6, <2>1, MinIs DEF Shorter
    <2>3. QED BY <2>2 DEF Predecessors
<1>7. ASSUME NEW x \in C PROVE Shorter(x) \in C /\ (Shorter(x) # x => m[x] < m[Shorter(x)])
    <2>1. Shorter(x) \in C /\ x \in States /\ Shorter(x) \in States
        BY <1>1
    <2>2. CASE Predecessors(x) = {}
        BY <2>1, <2>2 DEF Shorter
    <2>3. CASE Predecessors(x) # {}
        <3>1. RlxMore[Shorter(x)] = x /\ x # 0
            BY <1>2, <1>6, <2>3
        <3>2. Shape[Shorter(x)].size < Shape[x].size /\ Shape[x].size \in Nat /\ Shape[Shorter(x)].size \in Nat
            BY <2>1, <3>1, StatesIs
        <3>3. m[x] = -Shape[x].size /\ m[Shorter(x)] = -Shape[Shorter(x)].size
            BY <1>3, <2>1
        <3>4. QED BY <2>1, <3>2, <3>3
    <2>4. QED BY <2>2, <2>3
<1>8. ChainHead(s) = After(TableSize, s, step) /\ s \in C
    BY DEF ChainHead
<1>9. IsFiniteSet(C) /\ Cardinality(C) <= TableSize /\ TableSize \in Nat /\ TableSize # 0
    <2>1. States # {}
        BY <1>1, <1>8
    <2>2. TableSize # 0
        BY <2>1, StatesIs, FS_EmptySet
    <2>3. QED BY <1>1, <2>2, StatesIs, FS_Subset
<1> DEFINE y == After(TableSize, s, step)
<1> HIDE DEF step, m, C
<1>10. y \in C /\ \A i \in 1..TableSize : step[i][y] = y
    BY <1>3, <1>4, <1>5, <1>7, <1>8, <1>9, WalkEnds
<1> HIDE DEF y
<1>11. Shorter(y) = y
    <2>1. 1 \in 1..TableSize
        BY <1>9
    <2>2. QED BY <1>4, <1>10, <2>1
<1>12. ASSUME NEW p \in States, RlxMore[p] = y PROVE FALSE
    <2>1. p # 0
        BY <1>10, <1>12 DEF C
    <2>2. Predecessors(y) # {}
        BY <1>12, <2>1 DEF Predecessors
    <2>3. y \in States /\ RlxMore[y] = y
        BY <1>6, <1>10, <1>11, <2>2
    <2>4. y # 0
        BY <1>2, <1>10
    <2>5. Shape[y].size < Shape[y].size /\ Shape[y].size \in Nat
        BY <2>3, <2>4, StatesIs
    <2>6. QED BY <2>5
<1>13. QED BY <1>8, <1>12 DEF y

\* From a to b nothing is padded.
Solid(its, a, b) == \A i \in a..(b - 1) : its[i].kind \notin {"align", "org"}

\* The sizes of the branches, and those in states that are not shorter.
Sized(its, frs) == \A k \in 1..Len(its) : IsBranch(its[k]) =>
    /\ Shape[frs[its[k].frag].sub].size \in Nat
    /\ Shape[frs[its[k].frag].sub].size >= OpcodeBytes
Outgrows(its, gs, frs) == \A k \in 1..Len(its) : IsBranch(its[k]) =>
    Shape[gs[its[k].frag].sub].size >= Shape[frs[its[k].frag].sub].size

LEMMA SizedRun ==
    ASSUME NEW its \in Seq(Items), NEW frs, Sized(its, frs)
    PROVE  /\ AddressIn(its, frs) \in [1..Len(its) + 1 -> Nat]
           /\ \A k \in 1..Len(its) :
                AddressIn(its, frs)[k + 1]
                  = AddressIn(its, frs)[k] + SizeIn(frs, its[k], AddressIn(its, frs)[k])
<1>1. \A k \in 1..Len(its) : Shaped(frs, its[k])
    BY DEF Shaped, Sized
<1>2. QED BY <1>1, AddressRun

\* What lies between two items that have no padding between them.
LEMMA SolidStep ==
    ASSUME NEW its \in Seq(Items), NEW frs, Sized(its, frs), NEW k \in 1..Len(its),
           its[k].kind \notin {"align", "org"}
    PROVE  /\ AddressIn(its, frs)[k] \in Nat /\ AddressIn(its, frs)[k + 1] \in Nat
           /\ IsBranch(its[k]) => AddressIn(its, frs)[k + 1]
                                    = AddressIn(its, frs)[k] + Shape[frs[its[k].frag].sub].size
           /\ ~ IsBranch(its[k]) => ~ Shuts(its[k]) /\ AddressIn(its, frs)[k + 1]
                                      = AddressIn(its, frs)[k] + Fixed(its[k])
<1> DEFINE A == AddressIn(its, frs)
<1>1. A \in [1..Len(its) + 1 -> Nat] /\ A[k + 1] = A[k] + SizeIn(frs, its[k], A[k])
    BY SizedRun
<1>2. k \in 1..Len(its) + 1 /\ k + 1 \in 1..Len(its) + 1
    OBVIOUS
<1>3. A[k] \in Nat /\ A[k + 1] \in Nat
    BY <1>1, <1>2
<1>4. its[k] \in Items /\ Shaped(frs, its[k])
    BY DEF Sized, Shaped
<1> HIDE DEF A
<1>5. /\ ~ Shuts(its[k]) => SizeIn(frs, its[k], A[k]) = Fixed(its[k])
      /\ IsBranch(its[k]) => SizeIn(frs, its[k], A[k]) = Shape[frs[its[k].frag].sub].size
    BY <1>3, <1>4, SizeIs
<1>6. Shuts(its[k]) <=> IsBranch(its[k])
    BY DEF Shuts
<1>7. QED BY <1>1, <1>3, <1>5, <1>6 DEF A

\* Branches only grow, and what they push away moves further off.
LEMMA Stretches ==
    ASSUME NEW its \in Seq(Items), NEW frs, NEW gs, Sized(its, frs), Sized(its, gs),
           Outgrows(its, gs, frs), NEW a \in 1..Len(its), NEW b \in (a + 1)..Len(its) + 1,
           Solid(its, a, b)
    PROVE  LET x == AddressIn(its, frs)[b] - AddressIn(its, frs)[a]
               y == AddressIn(its, gs)[b] - AddressIn(its, gs)[a]
           IN /\ x \in Nat /\ y \in Nat /\ y >= x /\ (y # x => x >= OpcodeBytes)
              /\ IsBranch(its[a]) => x >= OpcodeBytes
<1> DEFINE A == AddressIn(its, frs)  B == AddressIn(its, gs)
           S == {n \in Nat : a + n + 1 <= b =>
                   LET x == A[a + n + 1] - A[a]  y == B[a + n + 1] - B[a]
                   IN /\ x \in Nat /\ y \in Nat /\ y >= x /\ (y # x => x >= OpcodeBytes)
                      /\ IsBranch(its[a]) => x >= OpcodeBytes}
<1>1. ASSUME NEW k \in a..(b - 1)
      PROVE  /\ A[k] \in Nat /\ A[k + 1] \in Nat /\ B[k] \in Nat /\ B[k + 1] \in Nat
             /\ \E u, v \in Nat : /\ A[k + 1] = A[k] + u /\ B[k + 1] = B[k] + v /\ v >= u
                                  /\ v # u => u >= OpcodeBytes
                                  /\ IsBranch(its[k]) => u >= OpcodeBytes
    <2>1. k \in 1..Len(its) /\ its[k].kind \notin {"align", "org"}
        BY DEF Solid
    <2>2. /\ A[k] \in Nat /\ A[k + 1] \in Nat /\ B[k] \in Nat /\ B[k + 1] \in Nat
          /\ IsBranch(its[k]) => /\ A[k + 1] = A[k] + Shape[frs[its[k].frag].sub].size
                                 /\ B[k + 1] = B[k] + Shape[gs[its[k].frag].sub].size
          /\ ~ IsBranch(its[k]) => A[k + 1] = A[k] + Fixed(its[k]) /\ B[k + 1] = B[k] + Fixed(its[k])
        BY <2>1, SolidStep
    <2> HIDE DEF A, B
    <2>3. CASE IsBranch(its[k])
        <3>1. /\ Shape[frs[its[k].frag].sub].size \in Nat /\ Shape[gs[its[k].frag].sub].size \in Nat
              /\ Shape[frs[its[k].frag].sub].size >= OpcodeBytes
              /\ Shape[gs[its[k].frag].sub].size >= Shape[frs[its[k].frag].sub].size
            BY <2>1, <2>3 DEF Sized, Outgrows
        <3>2. QED BY <2>2, <2>3, <3>1
    <2>4. CASE ~ IsBranch(its[k])
        <3>1. Fixed(its[k]) \in Nat /\ Fixed(its[k]) >= Fixed(its[k])
            BY <2>1, FixedNat
        <3>2. QED BY <2>2, <2>4, <3>1
    <2>5. QED BY <2>3, <2>4
<1> HIDE DEF A, B
<1>2. 0 \in S
    <2>1. a \in a..(b - 1) /\ a + 0 + 1 = a + 1
        OBVIOUS
    <2>2. PICK u, v \in Nat : /\ A[a + 1] = A[a] + u /\ B[a + 1] = B[a] + v /\ v >= u
                              /\ v # u => u >= OpcodeBytes
                              /\ IsBranch(its[a]) => u >= OpcodeBytes
        BY <1>1, <2>1
    <2>3. A[a] \in Nat /\ B[a] \in Nat
        BY <1>1, <2>1
    <2>4. A[a + 1] - A[a] = u /\ B[a + 1] - B[a] = v
        BY <2>2, <2>3
    <2>5. QED BY <2>1, <2>2, <2>4
<1>3. ASSUME NEW n \in Nat, n \in S PROVE n + 1 \in S
    <2>1. SUFFICES ASSUME a + (n + 1) + 1 <= b
                   PROVE  LET x == A[a + (n + 1) + 1] - A[a]  y == B[a + (n + 1) + 1] - B[a]
                          IN /\ x \in Nat /\ y \in Nat /\ y >= x /\ (y # x => x >= OpcodeBytes)
                             /\ IsBranch(its[a]) => x >= OpcodeBytes
        OBVIOUS
    <2> DEFINE k == a + n + 1
    <2>2. k \in a..(b - 1) /\ a + (n + 1) + 1 = k + 1 /\ k <= b
        BY <2>1
    <2>3. /\ A[k] - A[a] \in Nat /\ B[k] - B[a] \in Nat /\ B[k] - B[a] >= A[k] - A[a]
          /\ B[k] - B[a] # A[k] - A[a] => A[k] - A[a] >= OpcodeBytes
          /\ IsBranch(its[a]) => A[k] - A[a] >= OpcodeBytes
        BY <1>3, <2>2
    <2> HIDE DEF k
    <2>4. PICK u, v \in Nat : /\ A[k + 1] = A[k] + u /\ B[k + 1] = B[k] + v /\ v >= u
                              /\ v # u => u >= OpcodeBytes
        BY <1>1, <2>2
    <2>5. A[k] \in Nat /\ B[k] \in Nat /\ A[a] \in Nat /\ B[a] \in Nat
        BY <1>1, <2>2
    <2> DEFINE p == A[k] - A[a]  q == B[k] - B[a]
    <2>6. A[k + 1] - A[a] = p + u /\ B[k + 1] - B[a] = q + v
        <3>1. A[k + 1] = A[k] + u /\ B[k + 1] = B[k] + v /\ u \in Nat /\ v \in Nat
            BY <2>4
        <3>2. \A x, y, z \in Int : (x + z) - y = (x - y) + z
            OBVIOUS
        <3>3. A[k] \in Int /\ A[a] \in Int /\ B[k] \in Int /\ B[a] \in Int /\ u \in Int /\ v \in Int
            BY <2>5
        <3>4. (A[k] + u) - A[a] = (A[k] - A[a]) + u /\ (B[k] + v) - B[a] = (B[k] - B[a]) + v
            BY <3>2, <3>3
        <3>5. QED BY <3>1, <3>4
    <2>7. p \in Nat /\ q \in Nat /\ q >= p /\ (q # p => p >= OpcodeBytes)
          /\ (IsBranch(its[a]) => p >= OpcodeBytes)
        BY <2>3
    <2> HIDE DEF p, q
    <2>8. /\ p + u \in Nat /\ q + v \in Nat /\ q + v >= p + u
          /\ q + v # p + u => p + u >= OpcodeBytes
          /\ p >= OpcodeBytes => p + u >= OpcodeBytes
        BY <2>4, <2>7 DEF OpcodeBytes
    <2>9. QED BY <2>2, <2>6, <2>7, <2>8
<1> HIDE DEF S
<1> DEFINE n == b - a - 1
<1>4. n \in Nat /\ a + n + 1 = b /\ a + n + 1 <= b
    OBVIOUS
<1> HIDE DEF n
<1>5. n \in S
    BY <1>2, <1>3, <1>4, SetInduction
<1>6. QED BY <1>4, <1>5 DEF S, A, B

-----------------------------------------------------------------------------
(* The addresses of relax_segment.                                         *)

LEMMA RelaxRun ==
    ASSUME NEW fs, FragsOK(fs)
    PROVE  LET l == RelaxAddresses(fs)
           IN /\ l \in [1..Len(fs) + 1 -> Nat]
              /\ \A i \in 1..Len(fs) : l[i + 1] = l[i] + RelaxSize(fs[i], l[i])
<1> DEFINE s == [i \in DOMAIN fs |-> [a \in Int |-> a + RelaxSize(fs[i], a)]]
           n == Len(fs)  l == RelaxAddresses(fs)
<1>1. n \in Nat /\ DOMAIN fs = 1..n /\ \A i \in 1..n : FragOK(fs[i])
    BY DEF FragsOK
<1>2. \A i \in 1..n : \A a \in Nat : s[i][a] = a + RelaxSize(fs[i], a)
    BY <1>1
<1>3. ASSUME NEW i \in 1..n, NEW a \in Nat PROVE RelaxSize(fs[i], a) \in Nat
    <2>1. FragOK(fs[i]) /\ fs[i] \in FragRecords
        BY <1>1 DEF FragOK
    <2>2. FixSize(fs[i]) \in Nat /\ a + FixSize(fs[i]) \in Nat
        BY <2>1, SizesTyped
    <2>3. CASE fs[i].type = "machine"
        <3>1. /\ fs[i].op \in Branches /\ FixSize(fs[i]) >= OpcodeBytes
              /\ fs[i].sub \in DOMAIN Insns[fs[i].op].opcode
            BY <2>1, <2>3 DEF FragOK, MachineOK, FixSize
        <3>2. Shape[fs[i].sub].size \in Nat
            BY <3>1, InsnIs
        <3>3. RelaxSize(fs[i], a) = FixSize(fs[i]) - OpcodeBytes + Shape[fs[i].sub].size
            BY <2>3 DEF RelaxSize
        <3>4. QED BY <2>2, <3>1, <3>2, <3>3 DEF OpcodeBytes
    <2>4. CASE fs[i].type # "machine"
        <3>1. Pad(fs[i], a + FixSize(fs[i])) \in Nat
            BY <2>1, <2>2, PadTyped DEF FragOK
        <3>2. RelaxSize(fs[i], a) = FixSize(fs[i]) + Pad(fs[i], a + FixSize(fs[i]))
            BY <2>4 DEF RelaxSize
        <3>3. QED BY <2>2, <3>1, <3>2
    <2>5. QED BY <2>3, <2>4
<1>4. ASSUME NEW i \in 1..n, NEW a \in Nat PROVE s[i][a] \in Nat
    <2>1. s[i][a] = a + RelaxSize(fs[i], a) /\ RelaxSize(fs[i], a) \in Nat
        BY <1>2, <1>3
    <2> HIDE DEF s
    <2>2. QED BY <2>1
<1>5. l = Before(n, 0, s)
    BY DEF RelaxAddresses
<1> HIDE DEF s, l
<1>6. Runs(n, Nat, 0, s, l)
    BY <1>1, <1>4, <1>5, BeforeIs, 0 \in Nat
<1>7. ASSUME NEW i \in 1..n PROVE l[i + 1] = l[i] + RelaxSize(fs[i], l[i])
    <2>1. l[i + 1] = s[i][l[i]] /\ l[i] \in Nat
        BY <1>1, <1>6, RunAt
    <2>2. QED BY <1>2, <2>1
<1>8. QED BY <1>6, <1>7 DEF Runs, l, n

LEMMA SizedIs ==
    ASSUME NEW d, NEW its, NEW frs, FragsOK(frs), InPlace(its, frs, d)
    PROVE  Sized(its, frs)
<1>1. ASSUME NEW k \in 1..Len(its), IsBranch(its[k])
      PROVE  /\ Shape[frs[its[k].frag].sub].size \in Nat
             /\ Shape[frs[its[k].frag].sub].size >= OpcodeBytes
    <2> DEFINE i == its[k].frag
    <2>1. i \in 1..Len(frs) /\ frs[i].type = "machine"
        BY <1>1 DEF InPlace, InFrag
    <2>2. frs[i].op \in Branches /\ frs[i].sub \in DOMAIN Insns[frs[i].op].opcode
        BY <2>1 DEF FragsOK, FragOK, MachineOK
    <2>3. QED BY <2>2, InsnIs
<1>2. QED BY <1>1 DEF Sized

\* relax_segment sees items as far apart as they are in the end.
LEMMA Spaced ==
    ASSUME NEW d, NEW its \in Seq(Items), NEW frs, FragsOK(frs), InPlace(its, frs, d),
           NEW a \in 1..Len(its), NEW b \in a..Len(its), Solid(its, a, b)
    PROVE  LET l == RelaxAddresses(frs)  f == FragOf(its)  p == PlaceOf(its)
               A == AddressIn(its, frs)
           IN /\ l[f[a]] \in Nat /\ p[a] \in Nat /\ l[f[b]] \in Nat /\ p[b] \in Nat
              /\ A[a] \in Nat /\ A[b] \in Nat
              /\ (l[f[b]] + p[b]) - (l[f[a]] + p[a]) = A[b] - A[a]
<1> DEFINE l == RelaxAddresses(frs)  f == FragOf(its)  p == PlaceOf(its)
           A == AddressIn(its, frs)  at(k) == l[f[k]] + p[k]
           S == {n \in Nat : a + n <= b => at(a + n) - at(a) = A[a + n] - A[a]}
<1>1. Sized(its, frs) /\ frs \in Seq(FragRecords) /\ Len(its) \in Nat /\ Len(frs) \in Nat
    BY SizedIs DEF FragsOK
<1>2. l \in [1..Len(frs) + 1 -> Nat] /\ \A i \in 1..Len(frs) : l[i + 1] = l[i] + RelaxSize(frs[i], l[i])
    BY RelaxRun
<1>3. ASSUME NEW k \in 1..Len(its)
      PROVE  f[k] \in 1..Len(frs) /\ l[f[k]] \in Nat /\ p[k] \in Nat /\ A[k] \in Nat
    <2>1. f[k] \in 1..Len(frs)
        BY DEF InPlace
    <2>2. p[k] \in Nat
        <3>1. k \in 1..Len(its) + 1
            OBVIOUS
        <3>2. QED BY <3>1, SpotsTyped
    <2>3. A[k] \in Nat
        <3>1. AddressIn(its, frs) \in [1..Len(its) + 1 -> Nat]
            BY <1>1, SizedRun
        <3>2. QED BY <3>1
    <2>4. QED BY <1>2, <2>1, <2>2, <2>3
<1>4. ASSUME NEW k \in a..(b - 1)
      PROVE  /\ k \in 1..Len(its) /\ k + 1 \in 1..Len(its)
             /\ \E u \in Nat : at(k + 1) = at(k) + u /\ A[k + 1] = A[k] + u
    <2>1. k \in 1..Len(its) /\ k + 1 \in 1..Len(its) /\ its[k].kind \notin {"align", "org"}
        BY <1>1 DEF Solid
    <2>2. /\ f[k + 1] = IF Shuts(its[k]) THEN f[k] + 1 ELSE f[k]
          /\ p[k + 1] = IF Shuts(its[k]) THEN 0 ELSE p[k] + Fixed(its[k])
        BY <2>1, SpotNext
    <2>3. /\ IsBranch(its[k]) => A[k + 1] = A[k] + Shape[frs[its[k].frag].sub].size
          /\ ~ IsBranch(its[k]) => ~ Shuts(its[k]) /\ A[k + 1] = A[k] + Fixed(its[k])
        BY <1>1, <2>1, SolidStep
    <2>4. f[k] \in 1..Len(frs) /\ l[f[k]] \in Nat /\ p[k] \in Nat
        BY <1>3, <2>1
    <2>5. CASE IsBranch(its[k])
        <3> DEFINE i == f[k]  z == Shape[frs[i].sub].size
        <3>1. /\ its[k].frag = i /\ frs[i].type = "machine" /\ Own(frs[i]) = p[k]
              /\ i \in 1..Len(frs)
            BY <2>1, <2>5 DEF InPlace, InFrag
        <3>2. z \in Nat
            BY <1>1, <2>1, <2>5, <3>1 DEF Sized
        <3>3. l[i + 1] = l[i] + RelaxSize(frs[i], l[i])
            BY <1>2, <3>1
        <3>4. RelaxSize(frs[i], l[i]) = p[k] + z
            BY <3>1 DEF RelaxSize, Own
        <3>5. f[k + 1] = i + 1 /\ p[k + 1] = 0 /\ A[k + 1] = A[k] + z
            BY <2>2, <2>3, <2>5, <3>1 DEF Shuts
        <3> HIDE DEF z, l, f, p, A, i
        <3>6. at(k + 1) = l[i] + (p[k] + z) + 0
            BY <3>3, <3>4, <3>5
        <3>7. at(k) = l[i] + p[k] /\ l[i] \in Nat
            BY <2>4 DEF i
        <3>8. QED BY <2>1, <2>4, <3>2, <3>5, <3>6, <3>7
    <2>6. CASE ~ IsBranch(its[k])
        <3>1. f[k + 1] = f[k] /\ p[k + 1] = p[k] + Fixed(its[k]) /\ A[k + 1] = A[k] + Fixed(its[k])
            BY <2>2, <2>3, <2>6
        <3>2. Fixed(its[k]) \in Nat
            BY <2>1, FixedNat
        <3> HIDE DEF l, f, p, A
        <3>3. at(k + 1) = at(k) + Fixed(its[k])
            BY <2>4, <3>1, <3>2
        <3>4. QED BY <2>1, <3>1, <3>2, <3>3
    <2>7. QED BY <2>5, <2>6
<1>5. \A k \in 1..Len(its) : at(k) \in Nat /\ A[k] \in Nat
    BY <1>3
<1> HIDE DEF l, f, p, A, at
<1>6. 0 \in S
    <2>1. a + 0 = a /\ at(a) \in Nat /\ A[a] \in Nat
        BY <1>5
    <2>2. QED BY <2>1
<1>7. ASSUME NEW n \in Nat, n \in S PROVE n + 1 \in S
    <2>1. SUFFICES ASSUME a + (n + 1) <= b
                   PROVE  at(a + (n + 1)) - at(a) = A[a + (n + 1)] - A[a]
        OBVIOUS
    <2> DEFINE k == a + n
    <2>2. k \in a..(b - 1) /\ a + (n + 1) = k + 1
        BY <2>1
    <2>3. at(k) - at(a) = A[k] - A[a]
        BY <1>7, <2>2
    <2> HIDE DEF k
    <2>4. PICK u \in Nat : at(k + 1) = at(k) + u /\ A[k + 1] = A[k] + u
        BY <1>4, <2>2
    <2>5. k \in 1..Len(its) /\ a \in 1..Len(its)
        BY <1>4, <2>2
    <2>6. at(k) \in Int /\ at(a) \in Int /\ A[k] \in Int /\ A[a] \in Int /\ u \in Int
        BY <1>5, <2>5
    <2>7. \A w, x, y, z, v \in Int : w - x = y - z => (w + v) - x = (y + v) - z
        OBVIOUS
    <2>8. (at(k) + u) - at(a) = (A[k] + u) - A[a]
        BY <2>3, <2>6, <2>7
    <2>9. QED BY <2>2, <2>4, <2>8
<1> HIDE DEF S
<1> DEFINE n == b - a
<1>8. n \in Nat /\ a + n = b /\ a + n <= b
    OBVIOUS
<1> HIDE DEF n
<1>9. n \in S
    BY <1>6, <1>7, <1>8, SetInduction
<1>10. at(b) - at(a) = A[b] - A[a]
    BY <1>8, <1>9 DEF S
<1>11. b \in 1..Len(its)
    OBVIOUS
<1>12. l[f[b]] \in Nat /\ p[b] \in Nat /\ l[f[a]] \in Nat /\ p[a] \in Nat /\ A[a] \in Nat /\ A[b] \in Nat
    BY <1>3, <1>11
<1>13. QED BY <1>10, <1>12 DEF l, f, p, A, at

-----------------------------------------------------------------------------
(* What is out of reach stays out of reach.                                *)

\* Item k refers to the label j, and nothing is padded between them.
Targets(its, j, k) ==
    /\ its[j].kind = "label" /\ its[j].sym = its[k].term.sym /\ its[k].term.add = {}
    /\ \A i \in (j..k) \cup (k..j) : its[i].kind \notin {"align", "org"}
Far(p, its, frs, j, k) == ~ InRange(p, AddressIn(its, frs)[j] - AddressIn(its, frs)[k])

LEMMA FarKept ==
    ASSUME NEW its \in Seq(Items), NEW frs, NEW gs, Sized(its, frs), Sized(its, gs),
           Outgrows(its, gs, frs), NEW j \in 1..Len(its), NEW k \in 1..Len(its),
           IsBranch(its[k]), Targets(its, j, k),
           NEW p \in States, RlxMore[p] # 0, Far(p, its, frs, j, k)
    PROVE  Far(p, its, gs, j, k)
<1> DEFINE A == AddressIn(its, frs)  B == AddressIn(its, gs)  x == A[j] - A[k]  y == B[j] - B[k]
<1>1. /\ RlxRange[p][1] \in Int /\ RlxRange[p][1] <= 0
      /\ RlxRange[p][2] \in Int /\ RlxRange[p][2] >= -OpcodeBytes
    BY RelaxOrder
<1>2. Len(its) \in Nat /\ j # k
    BY DEF Targets, IsBranch
<1>3. A[j] \in Nat /\ A[k] \in Nat /\ B[j] \in Nat /\ B[k] \in Nat
    <2>1. AddressIn(its, frs) \in [1..Len(its) + 1 -> Nat] /\ AddressIn(its, gs) \in [1..Len(its) + 1 -> Nat]
        BY SizedRun
    <2>2. j \in 1..Len(its) + 1 /\ k \in 1..Len(its) + 1
        BY <1>2
    <2>3. QED BY <2>1, <2>2
<1>4. ~ (RlxRange[p][1] <= x /\ x <= RlxRange[p][2])
    BY DEF Far, InRange
<1>5. CASE j > k
    <2>1. Solid(its, k, j)
        BY <1>2 DEF Solid, Targets
    <2>2. k \in 1..Len(its) /\ j \in (k + 1)..Len(its) + 1
        BY <1>2, <1>5
    <2>3. x \in Nat /\ y \in Nat /\ y >= x
        BY <2>1, <2>2, Stretches
    <2> HIDE DEF x, y
    <2>4. ~ (RlxRange[p][1] <= y /\ y <= RlxRange[p][2])
        BY <1>1, <1>4, <2>3
    <2>5. QED BY <2>4 DEF Far, InRange, y
<1>6. CASE j < k
    <2> DEFINE u == A[k] - A[j]  v == B[k] - B[j]
    <2>1. Solid(its, j, k)
        BY <1>2 DEF Solid, Targets
    <2>2. j \in 1..Len(its) /\ k \in (j + 1)..Len(its) + 1
        BY <1>2, <1>6
    <2>3. u \in Nat /\ v \in Nat /\ v >= u /\ (v # u => u >= OpcodeBytes)
        BY <2>1, <2>2, Stretches
    <2>4. x = -u /\ y = -v
        BY <1>3
    <2> HIDE DEF x, y, u, v
    <2>5. ~ (RlxRange[p][1] <= y /\ y <= RlxRange[p][2])
        BY <1>1, <1>4, <2>3, <2>4 DEF OpcodeBytes
    <2>6. QED BY <2>5 DEF Far, InRange, y
<1>7. QED BY <1>2, <1>5, <1>6

-----------------------------------------------------------------------------
(* Branches are no longer than they have to be.                            *)

TextIn(table, s) == s \in DOMAIN table /\ table[s].seg = "text"

\* The chains of the branches to symbols of the text do not begin at index 0.
HeadsIn(its, table) == \A k \in 1..Len(its) :
    IsBranch(its[k]) /\ TextIn(table, its[k].term.sym) =>
        RlxMore[0] \notin DOMAIN Insns[its[k].op].opcode

StateOf(its, frs, k) == frs[its[k].frag].sub
TightAt(its, table, frs, k) ==
    /\ ~ TextIn(table, its[k].term.sym) => RlxMore[StateOf(its, frs, k)] = 0
    /\ \A j \in 1..Len(its) : Targets(its, j, k) =>
         \A p \in States : RlxMore[p] = StateOf(its, frs, k) /\ p # StateOf(its, frs, k)
                             => Far(p, its, frs, j, k)
Tight(its, table, frs) == \A k \in 1..Len(its) : IsBranch(its[k]) => TightAt(its, table, frs, k)

AllSit(its, table) == \A k \in 1..Len(its) : Sits(its, k, table)

\* A branch and its frag.
LEMMA BranchFrag ==
    ASSUME NEW d, NEW its, NEW frs, FragsOK(frs), InPlace(its, frs, d), Aimed(its, frs),
           NEW k \in 1..Len(its), IsBranch(its[k])
    PROVE  /\ its[k].frag = FragOf(its)[k] /\ its[k].frag \in 1..Len(frs)
           /\ frs[its[k].frag].type = "machine" /\ frs[its[k].frag] \in FragRecords
           /\ AimedAt(frs[its[k].frag], its[k]) /\ Own(frs[its[k].frag]) = PlaceOf(its)[k]
           /\ its[k].op \in Branches /\ StateOf(its, frs, k) \in DOMAIN Insns[its[k].op].opcode
           /\ StateOf(its, frs, k) \in States
<1> DEFINE i == its[k].frag
<1>1. i = FragOf(its)[k] /\ i \in 1..Len(frs) /\ frs[i].type = "machine"
      /\ Own(frs[i]) = PlaceOf(its)[k]
    BY DEF InPlace, InFrag
<1>2. AimedAt(frs[i], its[k])
    BY <1>1 DEF Aimed
<1>3. frs[i] \in FragRecords /\ frs[i].op \in Branches /\ frs[i].sub \in DOMAIN Insns[frs[i].op].opcode
    BY <1>1 DEF FragsOK, FragOK, MachineOK
<1>4. frs[i].op = its[k].op
    BY <1>2 DEF AimedAt
<1>5. frs[i].sub \in States
    BY <1>3, InsnIs
<1>6. QED BY <1>1, <1>2, <1>3, <1>4, <1>5 DEF StateOf

LEMMA TargetIn ==
    ASSUME NEW its, NEW table, AllSit(its, table), NEW j \in 1..Len(its), NEW k, Targets(its, j, k)
    PROVE  LET s == its[k].term.sym
           IN /\ s \in DOMAIN table /\ table[s] = InText(FragOf(its)[j], PlaceOf(its)[j])
              /\ TextIn(table, s)
<1>1. its[j].kind = "label" /\ its[j].sym = its[k].term.sym /\ Sits(its, j, table)
    BY DEF Targets, AllSit
<1>2. QED BY <1>1 DEF Sits, InText, TextIn

\* In a chain that does not begin at index 0 every state has a name of its own.
LEMMA NotZero ==
    ASSUME NEW o \in Branches, RlxMore[0] \notin DOMAIN Insns[o].opcode,
           NEW s \in DOMAIN Insns[o].opcode
    PROVE  s # 0
BY InsnIs DEF Longer

\* Before the first step.
LEMMA StartTight ==
    ASSUME NEW d, NEW its, NEW table, NEW frs, FragsOK(frs), InPlace(its, frs, d), Aimed(its, frs),
           HeadsIn(its, table), AllSit(its, table), NEW gs,
           \A i \in 1..Len(frs) : frs[i].type = "machine" =>
             gs[i].sub = IF TextIn(table, frs[i].sym) THEN ChainHead(frs[i].sub)
                         ELSE ChainTerminal(frs[i].sub)
    PROVE  Tight(its, table, gs)
<1>1. ASSUME NEW k \in 1..Len(its), IsBranch(its[k]) PROVE TightAt(its, table, gs, k)
    <2> DEFINE i == its[k].frag  s == frs[i].sub  x == its[k].term.sym
    <2>1. /\ i \in 1..Len(frs) /\ frs[i].type = "machine" /\ frs[i].sym = x
          /\ its[k].op \in Branches /\ s \in DOMAIN Insns[its[k].op].opcode /\ s \in States
        BY <1>1, BranchFrag DEF AimedAt, StateOf
    <2>2. gs[i].sub = IF TextIn(table, x) THEN ChainHead(s) ELSE ChainTerminal(s)
        BY <2>1
    <2>3. StateOf(its, gs, k) = gs[i].sub
        BY DEF StateOf
    <2>4. CASE ~ TextIn(table, x)
        <3>1. RlxMore[StateOf(its, gs, k)] = 0
            BY <2>1, <2>2, <2>3, <2>4, TerminalIs
        <3>2. \A j \in 1..Len(its) : ~ Targets(its, j, k)
            BY <2>4, TargetIn
        <3>3. QED BY <3>1, <3>2 DEF TightAt
    <2>5. CASE TextIn(table, x)
        <3>1. RlxMore[0] \notin DOMAIN Insns[its[k].op].opcode
            BY <1>1, <2>5 DEF HeadsIn
        <3>2. \A p \in States : RlxMore[p] # ChainHead(s)
            BY <2>1, <3>1, HeadIs
        <3>3. QED BY <2>2, <2>3, <2>5, <3>2 DEF TightAt
    <2>6. QED BY <2>4, <2>5
<1>2. QED BY <1>1 DEF Tight

-----------------------------------------------------------------------------
(* A step of relax_segment.                                                *)

\* The displacement it looks at.
DisplacementIn(frs, table, i) ==
    LET f == frs[i]  l == RelaxAddresses(frs)
    IN l[table[f.sym].frag] + table[f.sym].off + f.off - (l[i] + FixSize(f) - OpcodeBytes)

LEMMA IntOfNothing == IntOf({}) = 0
<1> DEFINE s == [i \in 1..64 |-> [n \in Nat |-> 2 * n + (IF 64 - i \in {} THEN 1 ELSE 0)]]
           m == Before(64, 0, s)
<1>1. \A i \in 1..64 : \A a \in {0} : s[i][a] \in {0}
    OBVIOUS
<1>2. Magnitude({}) = m[65]
    BY DEF Magnitude, After
<1> HIDE DEF s
<1>3. Runs(64, {0}, 0, s, m)
    BY <1>1, BeforeIs
<1> HIDE DEF m
<1>4. m[65] = 0
    BY <1>3 DEF Runs
<1>5. QED BY <1>2, <1>4 DEF IntOf

LEMMA DisplacementIs ==
    ASSUME NEW d, NEW its \in Seq(Items), NEW table, NEW frs, FragsOK(frs), InPlace(its, frs, d),
           Aimed(its, frs), AllSit(its, table), NEW j \in 1..Len(its), NEW k \in 1..Len(its),
           IsBranch(its[k]), Targets(its, j, k)
    PROVE  DisplacementIn(frs, table, its[k].frag) = AddressIn(its, frs)[j] - AddressIn(its, frs)[k]
<1> DEFINE i == its[k].frag  l == RelaxAddresses(frs)  f == FragOf(its)  p == PlaceOf(its)
           A == AddressIn(its, frs)  g == frs[i]
<1>1. /\ i = f[k] /\ g.sym = its[k].term.sym /\ g.off = IntOf(its[k].term.add)
      /\ g.type = "machine" /\ Own(g) = p[k] /\ g \in FragRecords
    BY BranchFrag DEF AimedAt
<1>2. g.off = 0
    <2>1. its[k].term.add = {}
        BY DEF Targets
    <2>2. IntOf({}) = 0
        BY IntOfNothing
    <2>3. QED BY <1>1, <2>1, <2>2
<1>3. table[g.sym] = InText(f[j], p[j])
    BY <1>1, TargetIn
<1>4. table[g.sym].frag = f[j] /\ table[g.sym].off = p[j]
    BY <1>3 DEF InText
<1>5. FixSize(g) - OpcodeBytes = p[k] /\ FixSize(g) \in Nat
    BY <1>1, SizesTyped DEF Own
<1>6. Len(its) \in Nat /\ j # k
    BY DEF Targets, IsBranch
<1>7. /\ l[f[k]] \in Nat /\ p[k] \in Nat /\ l[f[j]] \in Nat /\ p[j] \in Nat
      /\ A[k] \in Nat /\ A[j] \in Nat
      /\ (l[f[j]] + p[j]) - (l[f[k]] + p[k]) = A[j] - A[k]
    <2>1. CASE j > k
        <3>1. Solid(its, k, j) /\ j \in k..Len(its)
            BY <1>6, <2>1 DEF Solid, Targets
        <3>2. QED BY <3>1, Spaced
    <2>2. CASE j < k
        <3>1. Solid(its, j, k) /\ k \in j..Len(its)
            BY <1>6, <2>2 DEF Solid, Targets
        <3>2. /\ l[f[k]] \in Nat /\ p[k] \in Nat /\ l[f[j]] \in Nat /\ p[j] \in Nat
              /\ A[k] \in Nat /\ A[j] \in Nat
              /\ (l[f[k]] + p[k]) - (l[f[j]] + p[j]) = A[k] - A[j]
            BY <3>1, Spaced
        <3> HIDE DEF l, f, p, A
        <3> DEFINE u == l[f[k]] + p[k]  v == l[f[j]] + p[j]  x == A[k]  y == A[j]
        <3>3. u \in Int /\ v \in Int /\ x \in Int /\ y \in Int
            <4>1. /\ l[f[k]] \in Nat /\ p[k] \in Nat /\ l[f[j]] \in Nat /\ p[j] \in Nat
                  /\ A[k] \in Nat /\ A[j] \in Nat
                BY <3>2
            <4>2. \A m, n \in Nat : m \in Int /\ m + n \in Int
                OBVIOUS
            <4>3. QED BY <4>1, <4>2, Zenon
        <3>4. u - v = x - y
            BY <3>2, Zenon
        <3> HIDE DEF u, v, x, y
        <3>5. v - u = y - x
            BY <3>3, <3>4
        <3>6. (l[f[j]] + p[j]) - (l[f[k]] + p[k]) = A[j] - A[k]
            BY <3>5 DEF u, v, x, y
        <3>7. QED BY <3>2, <3>6
    <2>3. QED BY <1>6, <2>1, <2>2
<1>8. DisplacementIn(frs, table, i)
        = l[table[g.sym].frag] + table[g.sym].off + g.off - (l[i] + FixSize(g) - OpcodeBytes)
    BY DEF DisplacementIn
<1> HIDE DEF l, f, p, A, g
<1> DEFINE t == table[g.sym].frag  o == table[g.sym].off  z == g.off  x == FixSize(g)
           lk == l[f[k]]  lj == l[f[j]]  pk == p[k]  pj == p[j]  li == l[i]  lt == l[t]
<1>9. DisplacementIn(frs, table, i) = lt + o + z - (li + x - OpcodeBytes)
    BY <1>8
<1>10. /\ lt = lj /\ o = pj /\ z = 0 /\ li = lk /\ x - OpcodeBytes = pk
       /\ lk \in Nat /\ pk \in Nat /\ lj \in Nat /\ pj \in Nat /\ x \in Nat
    BY <1>1, <1>2, <1>4, <1>5, <1>7
<1>11. lj + pj - (lk + pk) = A[j] - A[k]
    BY <1>7
<1> HIDE DEF t, o, z, x, lk, lj, pk, pj, li, lt
<1>12. lt + o + z - (li + x - OpcodeBytes) = lj + pj - (lk + pk)
    BY <1>10 DEF OpcodeBytes
<1>13. QED BY <1>9, <1>11, <1>12 DEF A

LEMMA GrowTight ==
    ASSUME NEW d, NEW its \in Seq(Items), NEW table, NEW frs, FragsOK(frs), InPlace(its, frs, d),
           Aimed(its, frs), AllSit(its, table), HeadsIn(its, table), Tight(its, table, frs),
           NEW i \in 1..Len(frs), frs[i].type = "machine", TextIn(table, frs[i].sym),
           RlxMore[frs[i].sub] # 0, ~ InRange(frs[i].sub, DisplacementIn(frs, table, i))
    PROVE  Tight(its, table, [frs EXCEPT ![i].sub = RlxMore[@]])
<1> DEFINE gs == [frs EXCEPT ![i].sub = RlxMore[@]]
<1>1. /\ frs \in Seq(FragRecords) /\ DOMAIN frs = 1..Len(frs)
      /\ \A h \in 1..Len(frs) : frs[h] \in FragRecords
    BY DEF FragsOK
<1>2. /\ gs[i].sub = RlxMore[frs[i].sub]
      /\ \A h \in 1..Len(frs) : h # i => gs[h] = frs[h]
    <2> DEFINE f == frs[i]
    <2>1. gs[i] = [f EXCEPT !.sub = RlxMore[f.sub]] /\ f \in FragRecords
        BY <1>1
    <2> HIDE DEF f
    <2>2. [f EXCEPT !.sub = RlxMore[f.sub]].sub = RlxMore[f.sub]
        BY <2>1 DEF FragRecords
    <2>3. QED BY <1>1, <2>1, <2>2 DEF f
<1> HIDE DEF gs
<1>3. frs[i].sub \in States
    <2>1. frs[i].op \in Branches /\ frs[i].sub \in DOMAIN Insns[frs[i].op].opcode
        BY DEF FragsOK, FragOK, MachineOK
    <2>2. QED BY <2>1, InsnIs
<1>4. Sized(its, frs)
    BY SizedIs
<1>5. Sized(its, gs) /\ Outgrows(its, gs, frs)
    <2>1. ASSUME NEW k \in 1..Len(its), IsBranch(its[k])
          PROVE  LET x == Shape[frs[its[k].frag].sub].size  y == Shape[gs[its[k].frag].sub].size
                 IN y \in Nat /\ y >= OpcodeBytes /\ y >= x
        <3> DEFINE h == its[k].frag  x == Shape[frs[h].sub].size  y == Shape[gs[h].sub].size
        <3>1. h \in 1..Len(frs)
            BY <2>1, BranchFrag
        <3>2. x \in Nat /\ x >= OpcodeBytes
            BY <1>4, <2>1 DEF Sized
        <3>3. y \in Nat /\ y >= x
            <4>1. CASE h = i
                BY <1>2, <1>3, <4>1, StatesIs
            <4>2. CASE h # i
                BY <1>2, <3>1, <3>2, <4>2
            <4>3. QED BY <4>1, <4>2
        <3> HIDE DEF x, y
        <3>4. y >= OpcodeBytes
            BY <3>2, <3>3 DEF OpcodeBytes
        <3>5. QED BY <3>3, <3>4 DEF x, y
    <2>2. QED BY <2>1 DEF Sized, Outgrows
<1>6. ASSUME NEW k \in 1..Len(its), IsBranch(its[k]) PROVE TightAt(its, table, gs, k)
    <2> DEFINE h == its[k].frag  s == StateOf(its, frs, k)  t == StateOf(its, gs, k)
               x == its[k].term.sym
    <2>1. /\ h \in 1..Len(frs) /\ frs[h].sym = x /\ its[k].op \in Branches
          /\ s \in DOMAIN Insns[its[k].op].opcode /\ s \in States
        BY <1>6, BranchFrag DEF AimedAt
    <2>2. s = frs[h].sub /\ t = gs[h].sub
        BY DEF StateOf
    <2>3. TightAt(its, table, frs, k)
        BY <1>6 DEF Tight
    <2>4. ~ TextIn(table, x) => RlxMore[t] = 0
        <3>1. CASE h = i
            BY <2>1, <3>1
        <3>2. CASE h # i
            <4>1. t = s
                BY <1>2, <2>1, <2>2, <3>2
            <4>2. QED BY <2>3, <4>1 DEF TightAt
        <3>3. QED BY <3>1, <3>2
    <2>5. ASSUME NEW j \in 1..Len(its), Targets(its, j, k), NEW p \in States,
                 RlxMore[p] = t, p # t
          PROVE  Far(p, its, gs, j, k)
        <3>1. TextIn(table, x)
            BY <2>5, TargetIn
        <3>2. RlxMore[0] \notin DOMAIN Insns[its[k].op].opcode
            BY <1>6, <3>1 DEF HeadsIn
        <3>3. RlxMore[p] # 0 /\ Far(p, its, frs, j, k)
            <4>1. CASE h = i
                <5>1. RlxMore[p] = RlxMore[frs[i].sub]
                    BY <1>2, <2>2, <2>5, <4>1
                <5>2. p = frs[i].sub
                    BY <1>3, <5>1, RelaxOrder
                <5>3. DisplacementIn(frs, table, i) = AddressIn(its, frs)[j] - AddressIn(its, frs)[k]
                    <6>1. DisplacementIn(frs, table, its[k].frag)
                            = AddressIn(its, frs)[j] - AddressIn(its, frs)[k]
                        BY <1>6, <2>5, DisplacementIs
                    <6>2. QED BY <4>1, <6>1
                <5>4. QED BY <5>1, <5>2, <5>3 DEF Far
            <4>2. CASE h # i
                <5>1. t = s
                    BY <1>2, <2>1, <2>2, <4>2
                <5>2. s # 0
                    BY <2>1, <3>2, NotZero
                <5>3. Far(p, its, frs, j, k)
                    BY <2>3, <2>5, <5>1 DEF TightAt
                <5>4. QED BY <2>5, <5>1, <5>2, <5>3
            <4>3. QED BY <4>1, <4>2
        <3>4. QED BY <1>4, <1>5, <1>6, <2>5, <3>3, FarKept
    <2>6. QED BY <2>4, <2>5 DEF TightAt
<1>7. Tight(its, table, gs)
    BY <1>6 DEF Tight
<1>8. QED BY <1>7 DEF gs

-----------------------------------------------------------------------------
(* The branches in every pass.                                             *)

LEMMA StatesKept ==
    ASSUME NEW its \in Seq(Items), NEW frs, NEW gs,
           \A k \in 1..Len(its) : IsBranch(its[k]) => gs[its[k].frag].sub = frs[its[k].frag].sub,
           NEW table, Tight(its, table, frs)
    PROVE  Tight(its, table, gs)
<1>1. DOMAIN its = 1..Len(its)
    OBVIOUS
<1>2. ASSUME NEW k \in 1..Len(its), NEW a PROVE SizeIn(gs, its[k], a) = SizeIn(frs, its[k], a)
    <2>1. CASE IsBranch(its[k])
        <3>1. gs[its[k].frag].sub = frs[its[k].frag].sub
            BY <2>1
        <3>2. QED BY <3>1 DEF SizeIn
    <2>2. CASE ~ IsBranch(its[k])
        BY <2>2 DEF SizeIn, IsBranch
    <2>3. QED BY <2>1, <2>2
<1>3. AddressIn(its, gs) = AddressIn(its, frs)
    BY <1>1, <1>2 DEF AddressIn
<1>4. ASSUME NEW k \in 1..Len(its), IsBranch(its[k]) PROVE TightAt(its, table, gs, k)
    <2>1. StateOf(its, gs, k) = StateOf(its, frs, k)
        BY <1>4 DEF StateOf
    <2>2. TightAt(its, table, frs, k)
        BY <1>4 DEF Tight
    <2>3. QED BY <1>3, <2>1, <2>2 DEF TightAt, Far
<1>5. QED BY <1>4 DEF Tight

(* A branch is as short as the steps of relax_segment allow, if nothing    *)
(* was wrong and its chain does not begin at index 0.                      *)
Shrunk == errors = 0 /\ HeadsIn(items, syms) => Tight(items, syms, frags)
ShortInv ==
    /\ phase \in {"relaxing", "fixups"} => Shrunk
    /\ phase = "report" => parseErr \/ secViol \/ dirErr \/ Shrunk
    /\ Succeeded => Shrunk

LEMMA TrimKept ==
    ASSUME Types, Shrunk, UNCHANGED <<items, syms>>, errors' = 0 => errors = 0,
           \A k \in 1..Len(items) : IsBranch(items[k]) =>
             frags'[items[k].frag].sub = frags[items[k].frag].sub
    PROVE  Shrunk'
<1>1. items \in Seq(Items)
    BY DEF Types, ItemsOK
<1>2. Tight(items, syms, frags) => Tight(items, syms, frags')
    BY <1>1, StatesKept
<1>3. Tight(items, syms, frags)' = Tight(items, syms, frags')
    BY DEF Tight, TightAt, StateOf, Targets, Far
<1>4. HeadsIn(items, syms)' = HeadsIn(items, syms)
    BY DEF HeadsIn, TextIn
<1>5. QED BY <1>2, <1>3, <1>4 DEF Shrunk

LEMMA TrimSame ==
    ASSUME Types, Shrunk, UNCHANGED <<items, syms, frags, errors>>
    PROVE  Shrunk'
BY TrimKept

LEMMA StartTrim ==
    ASSUME Types, Reads(FALSE), Pairs, Located, RelaxBranches
    PROVE  Shrunk'
<1>1. /\ UNCHANGED <<items, syms, errors>>
      /\ frags' = [i \in DOMAIN frags |-> Prepared(frags[i])]
    BY DEF RelaxBranches, flags
<1>2. FragsOK(frags) /\ DOMAIN frags = 1..Len(frags) /\ InPlace(items, frags, FALSE)
      /\ Aimed(items, frags)
    <2>1. FragsOK(frags) /\ InPlace(items, frags, FALSE) /\ Aimed(items, frags)
        BY DEF Types, ChainOK, Reads, Sited, Pairs
    <2>2. frags \in Seq(FragRecords)
        BY <2>1 DEF FragsOK
    <2>3. DOMAIN frags = 1..Len(frags)
        BY <2>2
    <2>4. QED BY <2>1, <2>3
<1>3. SUFFICES ASSUME errors = 0, HeadsIn(items, syms)
               PROVE  Tight(items, syms, frags')
    <2>1. HeadsIn(items, syms)' = HeadsIn(items, syms)
        BY <1>1 DEF HeadsIn, TextIn
    <2>2. Tight(items, syms, frags)' = Tight(items, syms, frags')
        BY <1>1 DEF Tight, TightAt, StateOf, Targets, Far
    <2>3. QED BY <1>1, <2>1, <2>2 DEF Shrunk
<1>4. AllSit(items, syms)
    BY <1>3 DEF Located, AllSit
<1>5. ASSUME NEW i \in 1..Len(frags), frags[i].type = "machine"
      PROVE  frags'[i].sub = IF TextIn(syms, frags[i].sym) THEN ChainHead(frags[i].sub)
                             ELSE ChainTerminal(frags[i].sub)
    <2> DEFINE f == frags[i]
    <2>1. frags'[i] = [f EXCEPT !.sub = StartState(f)] /\ f \in FragRecords
        BY <1>1, <1>2, <1>5 DEF Prepared, FragsOK, FragOK
    <2> HIDE DEF f
    <2>2. frags'[i].sub = StartState(f)
        BY <2>1 DEF FragRecords
    <2>3. QED BY <2>2 DEF f, StartState, IsLocal, TextIn
<1>6. QED BY <1>2, <1>3, <1>4, <1>5, StartTight

LEMMA GrowTrim ==
    ASSUME Types, Reads(FALSE), Pairs, Located, Shrunk, RelaxSegment
    PROVE  Shrunk'
<1>1. PICK i \in Growing : frags' = [frags EXCEPT ![i].sub = RlxMore[@]]
    BY DEF RelaxSegment
<1>2. UNCHANGED <<items, syms, errors>>
    BY DEF RelaxSegment, flags
<1>3. FragsOK(frags) /\ DOMAIN frags = 1..Len(frags) /\ InPlace(items, frags, FALSE)
      /\ Aimed(items, frags) /\ items \in Seq(Items)
    <2>1. /\ FragsOK(frags) /\ InPlace(items, frags, FALSE) /\ Aimed(items, frags)
          /\ items \in Seq(Items)
        BY DEF Types, ChainOK, Reads, Sited, Pairs, ItemsOK
    <2>2. frags \in Seq(FragRecords)
        BY <2>1 DEF FragsOK
    <2>3. DOMAIN frags = 1..Len(frags)
        BY <2>2
    <2>4. QED BY <2>1, <2>3
<1>4. SUFFICES ASSUME errors = 0, HeadsIn(items, syms)
               PROVE  Tight(items, syms, frags')
    <2>1. HeadsIn(items, syms)' = HeadsIn(items, syms)
        BY <1>2 DEF HeadsIn, TextIn
    <2>2. Tight(items, syms, frags)' = Tight(items, syms, frags')
        BY <1>2 DEF Tight, TightAt, StateOf, Targets, Far
    <2>3. QED BY <1>2, <2>1, <2>2 DEF Shrunk
<1>5. AllSit(items, syms) /\ Tight(items, syms, frags)
    BY <1>4 DEF Located, AllSit, Shrunk
<1>6. Displacement(i, RelaxAddresses(frags)) = DisplacementIn(frags, syms, i)
    BY DEF Displacement, DisplacementIn
<1>7. /\ i \in 1..Len(frags) /\ frags[i].type = "machine" /\ TextIn(syms, frags[i].sym)
      /\ RlxMore[frags[i].sub] # 0 /\ ~ InRange(frags[i].sub, DisplacementIn(frags, syms, i))
    BY <1>3, <1>6 DEF Growing, IsLocal, TextIn
<1>8. Tight(items, syms, [frags EXCEPT ![i].sub = RlxMore[@]])
    BY <1>3, <1>4, <1>5, <1>7, GrowTight
<1>9. QED BY <1>1, <1>8

LEMMA ConvertTrim ==
    ASSUME Types, Reads(FALSE), Shrunk, ConvertAndFinalize
    PROVE  Shrunk'
<1>1. frags' = Finalized(ConvertedChain) /\ items' = items /\ phase = "relaxing"
    BY ConvertIs
<1>2. syms' = syms /\ (errors' = 0 => errors = 0)
    BY PassErrors DEF ConvertAndFinalize
<1>3. /\ FragsOK(frags) /\ FragsOK(ConvertedChain) /\ Len(ConvertedChain) = Len(frags)
      /\ InPlace(items, frags, FALSE)
    BY ConvertedChainTyped DEF Types, ChainOK, Reads, Sited
<1>4. ASSUME NEW k \in 1..Len(items), IsBranch(items[k])
      PROVE  frags'[items[k].frag].sub = frags[items[k].frag].sub
    <2> DEFINE i == items[k].frag
    <2>1. i \in 1..Len(frags)
        BY <1>3, <1>4 DEF InPlace
    <2>2. frags'[i].sub = ConvertedChain[i].sub
        BY <1>1, <1>3, <2>1, FinalizedSub
    <2>3. ConvertedChain[i] = Convert(frags[i]) /\ FragOK(frags[i])
        BY <1>3, <2>1 DEF ConvertedChain, FragsOK
    <2>4. QED BY <2>2, <2>3, ConvertKeeps
<1>5. QED BY <1>1, <1>2, <1>4, TrimKept

LEMMA ApplyTrim ==
    ASSUME Types, Final(items, frags, FALSE), Shrunk, ApplyTextFixups
    PROVE  Shrunk'
<1>1. frags' = CopiedBack(frags, EncodedImage) /\ UNCHANGED <<items, syms>>
    BY DEF ApplyTextFixups
<1>2. errors' = 0 => errors = 0
    BY PassErrors
<1>3. /\ frags \in Seq(FragRecords) /\ EncodedImage \in Seq(Byte)
      /\ Len(EncodedImage) = Len(Image(frags))
    BY EncodedTyped DEF Types, ChainOK, FragsOK
<1>4. Alike(frags, frags')
    BY <1>1, <1>3, CopiedAlike
<1>5. ASSUME NEW k \in 1..Len(items), IsBranch(items[k])
      PROVE  frags'[items[k].frag].sub = frags[items[k].frag].sub
    <2>1. items[k].frag = FragOf(items)[k] /\ FragOf(items)[k] \in 1..Len(frags)
        BY <1>5 DEF Final, Settled
    <2>2. QED BY <1>4, <2>1 DEF Alike
<1>6. QED BY <1>1, <1>2, <1>5, TrimKept

LEMMA ReportTrim ==
    ASSUME Types, ShortInv, Report
    PROVE  ShortInv'
<1>1. phase = "report" /\ phase' \in {"decode", "done"}
      /\ UNCHANGED <<items, frags, syms, errors>>
    BY DEF Report, section, flags, source
<1>2. CASE Status # "OK"
    <2>1. result' = [NoResult EXCEPT !.status = Status]
        BY <1>2 DEF Report
    <2>2. result'.status # "OK"
        BY <1>2, <2>1 DEF NoResult
    <2>3. QED BY <1>1, <2>2 DEF ShortInv, Succeeded
<1>3. CASE Status = "OK"
    <2>1. ~ dirErr /\ ~ secViol /\ ~ parseErr
        BY <1>3 DEF Status
    <2>2. Shrunk'
        BY <1>1, <2>1, TrimSame DEF ShortInv
    <2>3. QED BY <1>1, <2>2 DEF ShortInv
<1>4. QED BY <1>2, <1>3

LEMMA NextShort ==
    ASSUME Types, LayoutInv(FALSE), RelocInv, Located, ShortInv, [Next]_vars
    PROVE  ShortInv'
<1>1. CASE \/ Reset \/ NextStatement \/ Label \/ IntList \/ ConsList \/ Ascii \/ Skip
           \/ Org \/ Align \/ Equ \/ Accepted \/ SwitchesSection \/ Unsupported \/ Instruction
    <2>1. phase \in {"reset", "parse"} /\ phase' = "parse" /\ result' = result
        <3>1. CASE Reset \/ NextStatement \/ Label
            BY <3>1 DEF Reset, NextStatement, Label, outputs
        <3>2. CASE IntList \/ ConsList \/ Ascii \/ Skip
            BY <3>2 DEF IntList, ConsList, Ascii, Skip, At, Emits, Handled, GasError, Rejected, outputs
        <3>3. CASE Org \/ Align \/ Equ
            BY <3>3 DEF Org, Align, Equ, At, Closes, Handled, GasError, Rejected, outputs
        <3>4. CASE Accepted \/ SwitchesSection \/ Unsupported
            BY <3>4 DEF Accepted, SwitchesSection, Unsupported, At, Handled, Rejected, outputs
        <3>5. CASE Instruction
            BY <3>5 DEF Instruction, Emits, Handled, GasError, outputs
        <3>6. QED BY <1>1, <3>1, <3>2, <3>3, <3>4, <3>5
    <2>2. ~ Succeeded'
        BY <2>1 DEF LayoutInv, Succeeded
    <2>3. QED BY <2>1, <2>2 DEF ShortInv
<1>2. CASE DefineLabels \/ RelaxBranches \/ RelaxSegment \/ ConvertAndFinalize \/ ApplyTextFixups
    <2>1. phase \notin {"decode", "done"} /\ result' = result
        BY <1>2 DEF DefineLabels, RelaxBranches, RelaxSegment, ConvertAndFinalize,
               ApplyTextFixups, outputs
    <2>2. ~ Succeeded'
        BY <2>1 DEF LayoutInv, Succeeded
    <2>3. CASE DefineLabels
        <3> DEFINE stop == parseErr' \/ secViol \/ dirErr
        <3>1. phase' = (IF stop THEN "report" ELSE "relax")
            BY <2>3, Zenon DEF DefineLabels
        <3>2. secViol' = secViol /\ dirErr' = dirErr
            BY <2>3, Zenon DEF DefineLabels
        <3>3. phase' \notin {"relaxing", "fixups"}
              /\ (phase' = "report" => parseErr' \/ secViol' \/ dirErr')
            BY <3>1, <3>2
        <3>4. QED BY <2>2, <3>3 DEF ShortInv
    <2>4. CASE RelaxBranches
        <3>1. phase = "relax" /\ phase' = "relaxing"
            BY <2>4 DEF RelaxBranches
        <3>2. Shrunk'
            BY <2>4, <3>1, StartTrim DEF LayoutInv, RelocInv
        <3>3. QED BY <2>2, <3>1, <3>2 DEF ShortInv
    <2>5. CASE RelaxSegment
        <3>1. phase = "relaxing" /\ phase' = "relaxing"
            BY <2>5 DEF RelaxSegment
        <3>2. Shrunk'
            BY <2>5, <3>1, GrowTrim DEF LayoutInv, RelocInv, ShortInv
        <3>3. QED BY <2>2, <3>1, <3>2 DEF ShortInv
    <2>6. CASE ConvertAndFinalize
        <3>1. phase = "relaxing" /\ phase' = "fixups"
            BY <2>6, ConvertIs
        <3>2. Shrunk'
            BY <2>6, <3>1, ConvertTrim DEF LayoutInv, ShortInv
        <3>3. QED BY <2>2, <3>1, <3>2 DEF ShortInv
    <2>7. CASE ApplyTextFixups
        <3>1. phase = "fixups" /\ phase' = "report"
            BY <2>7 DEF ApplyTextFixups
        <3>2. Shrunk'
            BY <2>7, <3>1, ApplyTrim DEF LayoutInv, ShortInv
        <3>3. QED BY <2>2, <3>1, <3>2 DEF ShortInv
    <2>8. QED BY <1>2, <2>3, <2>4, <2>5, <2>6, <2>7
<1>3. CASE Report
    BY <1>3, ReportTrim
<1>4. CASE DecodeOne \/ Decoded
    <2>1. /\ phase' \in {"decode", "done"}
          /\ UNCHANGED <<items, frags, syms, result, errors>>
        BY <1>4 DEF DecodeOne, Decoded, section, outputs, flags
    <2>2. Shrunk => Shrunk'
        BY <2>1, TrimSame
    <2>3. phase \in {"decode", "done"}
        BY <1>4 DEF DecodeOne, Decoded
    <2>4. QED BY <2>1, <2>2, <2>3 DEF ShortInv, Succeeded
<1>5. CASE UNCHANGED vars
    <2>1. UNCHANGED <<items, frags, syms, result>>
          /\ UNCHANGED <<phase, parseErr, secViol, dirErr, errors>>
        BY <1>5 DEF vars, section, flags, outputs
    <2>2. Shrunk => Shrunk'
        BY <2>1, TrimSame
    <2>3. QED BY <2>1, <2>2 DEF ShortInv, Succeeded
<1>6. QED BY <1>1, <1>2, <1>3, <1>4, <1>5 DEF Next, Returned

LEMMA ShortHolds == Spec => []ShortInv
<1>1. Init => ShortInv
    BY DEF Init, ShortInv, Succeeded, NoResult
<1>2. Types /\ LayoutInv(FALSE) /\ RelocInv /\ Located /\ ShortInv /\ [Next]_vars => ShortInv'
    BY NextShort
<1>3. QED BY <1>1, <1>2, TypesHold, LayoutHolds, RelocHolds, LocatedHolds, PTL DEF Spec

\* No branch to a symbol of the text is of the chain that begins at index 0 of
\* md_relax_table.
HeadsFound == HeadsIn(items, syms)

(* Every branch has the shortest form that reaches: a branch to a label of *)
(* the source would not reach it in the next shorter form, wherever the    *)
(* growth of other branches has moved the two, and a branch to any other   *)
(* symbol has the longest form (nyxstone_glue.c:491-506, 540-546).  The    *)
(* walk back to the first state does not see the chain that begins at      *)
(* index 0, so its branches are the exception.                             *)
THEOREM ShortestForms == Spec => [](HeadsFound => Shortest)
<1>1. Types /\ HitInv /\ ShortInv => (HeadsFound => Shortest)
    <2> SUFFICES ASSUME Types, HitInv, ShortInv, HeadsFound, Succeeded PROVE Shortest
        BY DEF Shortest
    <2>1. Tight(items, syms, frags)
        BY DEF HitInv, ShortInv, Shrunk, HeadsFound
    <2>2. DOMAIN items = 1..Len(items) /\ Symbolic \subseteq DOMAIN items
        BY DEF Types, ItemsOK, Symbolic
    <2>3. TrueAddress = AddressIn(items, frags)
        BY TrueAddressIs
    <2>4. ASSUME NEW k \in Symbolic, items[k].kind = "insn", items[k].op \in Branches
          PROVE  LET it == items[k]  s == frags[it.frag].sub
                 IN /\ ~ IsLocal(it.term.sym) => RlxMore[s] = 0
                    /\ \A j \in DOMAIN items, p \in States :
                         /\ items[j].kind = "label" /\ items[j].sym = it.term.sym
                         /\ it.term.add = {} /\ Unpadded(j, k)
                         /\ p # s /\ RlxMore[p] = s
                         => ~ InRange(p, TrueAddress[j] - TrueAddress[k])
        <3>1. k \in 1..Len(items) /\ IsBranch(items[k])
            BY <2>2, <2>4 DEF IsBranch
        <3>2. TightAt(items, syms, frags, k)
            BY <2>1, <3>1 DEF Tight
        <3>3. QED BY <2>2, <2>3, <3>2 DEF TightAt, StateOf, TextIn, IsLocal, Targets, Unpadded, Far
    <2>5. QED BY <2>4 DEF Shortest
<1>2. QED BY <1>1, TypesHold, HitHolds, ShortHolds, PTL

=============================================================================
