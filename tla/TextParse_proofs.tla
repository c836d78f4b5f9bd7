-------------------------- MODULE TextParse_proofs --------------------------
(***************************************************************************)
(* One call, for any text, any table of instructions and any relax states: *)
(* what the loops of Scan hold, and words; the types of the state, pass by *)
(* pass, with the fixups inside their frags and the offsets inside the     *)
(* bytes; the decoding, whose pieces are consecutive and whose texts are   *)
(* the same whatever came before; and where the parse puts every item.     *)
(***************************************************************************)
EXTENDS AssembleText, Sequences, SequencesExt, SequenceTheorems,
        FiniteSetTheorems, WellFoundedInduction, TLAPS

-----------------------------------------------------------------------------
(* Induction: a set of naturals with 0 and every successor has them all.   *)
(* What is to hold of n is written as membership of n in a set.            *)

LEMMA LeastNat ==
    ASSUME NEW T \in SUBSET Nat, T # {}
    PROVE  \E x \in T : \A y \in T : x <= y
<1> DEFINE R == OpToRel(<, Nat)
<1>1. IsWellFoundedOn(R, Nat)
    BY NatLessThanWellFounded
<1>2. \A x, y \in Nat : x < y => <<x, y>> \in R
    BY DEF OpToRel
<1> HIDE DEF R
<1>3. PICK x \in T : \A y \in T : ~ (<<y, x>> \in R)
    BY <1>1, WFMin
<1>4. \A y \in T : y \in Nat /\ x \in Nat /\ ~ (y < x)
    BY <1>2, <1>3
<1>5. \A y \in T : x <= y
    BY <1>4
<1>6. QED BY <1>5

LEMMA SetInduction ==
    ASSUME NEW S, 0 \in S, \A n \in Nat : n \in S => n + 1 \in S
    PROVE  Nat \subseteq S
<1> DEFINE T == Nat \ S
<1>1. SUFFICES ASSUME T # {} PROVE FALSE
    OBVIOUS
<1>2. T \in SUBSET Nat
    OBVIOUS
<1> HIDE DEF T
<1>3. PICK x \in T : \A y \in T : x <= y
    BY <1>1, <1>2, LeastNat
<1>4. x \in Nat /\ x \notin S /\ x # 0
    BY <1>3 DEF T
<1>5. x - 1 \in Nat /\ x - 1 \notin T
    BY <1>2, <1>3, <1>4
<1>6. x - 1 \in S
    BY <1>5 DEF T
<1>7. QED BY <1>4, <1>5, <1>6

-----------------------------------------------------------------------------
(* What a loop holds: n steps from x, each within A.                       *)

Stepped(x, step, i, below) == IF i = 1 THEN x ELSE step[i - 1][below]
Held(x, step, m, g) ==
    g = [i \in 1..(m + 1) |-> Stepped(x, step, i, g[i - 1])]
Runs(n, A, x, step, g) ==
    /\ g \in [1..(n + 1) -> A] /\ g[1] = x
    /\ \A i \in 1..n : g[i + 1] = step[i][g[i]]

LEMMA HeldAt ==
    ASSUME NEW x, NEW step, NEW m \in Nat, NEW g, Held(x, step, m, g),
           NEW i \in 1..(m + 1)
    PROVE  g[i] = Stepped(x, step, i, g[i - 1])
BY Zenon DEF Held

LEMMA HeldGrows ==
    ASSUME NEW x, NEW step, NEW m \in Nat, NEW g, Held(x, step, m, g)
    PROVE  \E h : Held(x, step, m + 1, h)
<1> DEFINE last == step[m + 1][g[m + 1]]
           h == [i \in 1..((m + 1) + 1) |-> IF i = m + 2 THEN last ELSE g[i]]
<1>1. ASSUME NEW i \in 1..((m + 1) + 1)
      PROVE  h[i] = Stepped(x, step, i, h[i - 1])
    <2>1. CASE i = m + 2
        <3>1. h[i] = step[m + 1][g[m + 1]] /\ i # 1 /\ i - 1 = m + 1
            BY <2>1
        <3>2. m + 1 \in 1..((m + 1) + 1) /\ m + 1 # m + 2
            OBVIOUS
        <3>3. h[i - 1] = g[m + 1]
            BY <3>1, <3>2
        <3>4. QED BY <3>1, <3>3 DEF Stepped
    <2>2. CASE i # m + 2
        <3>0. i \in 1..(m + 1)
            BY <2>2
        <3>1. i \in 1..(m + 1) /\ h[i] = g[i]
            BY <2>2
        <3>2. g[i] = Stepped(x, step, i, g[i - 1])
            BY <3>0, HeldAt, ZenonT(30)
        <3>3. CASE i = 1
            BY <3>1, <3>2, <3>3 DEF Stepped
        <3>4. CASE i # 1
            <4>1. i - 1 \in 1..((m + 1) + 1) /\ i - 1 # m + 2
                BY <2>2, <3>4
            <4>2. h[i - 1] = g[i - 1]
                BY <4>1
            <4>3. QED BY <3>1, <3>2, <3>4, <4>2
        <3>5. QED BY <3>3, <3>4
    <2>3. QED BY <2>1, <2>2
<1>2. h = [i \in 1..((m + 1) + 1) |-> h[i]]
    OBVIOUS
<1> HIDE DEF h
<1>3. h = [i \in 1..((m + 1) + 1) |-> Stepped(x, step, i, h[i - 1])]
    BY <1>1, <1>2, Zenon
<1>4. Held(x, step, m + 1, h)
    BY <1>3 DEF Held
<1>5. QED BY <1>4

LEMMA HeldExists ==
    ASSUME NEW n \in Nat, NEW x, NEW step
    PROVE  \E g : Held(x, step, n, g)
<1> DEFINE S == {m \in Nat : \E g : Held(x, step, m, g)}
<1>1. 0 \in S
    <2>1. Held(x, step, 0, [i \in 1..(0 + 1) |-> x])
        <3> DEFINE g == [i \in 1..(0 + 1) |-> x]
        <3>1. \A i \in 1..(0 + 1) : i = 1
            OBVIOUS
        <3>2. g = [i \in 1..(0 + 1) |-> Stepped(x, step, i, g[i - 1])]
            BY <3>1 DEF Stepped
        <3>3. QED BY <3>2 DEF Held
    <2>2. QED BY <2>1
<1>2. \A m \in Nat : m \in S => m + 1 \in S
    BY HeldGrows
<1> HIDE DEF S
<1>3. n \in S
    BY <1>1, <1>2, SetInduction
<1>4. QED BY <1>3 DEF S

LEMMA BeforeSteps ==
    ASSUME NEW n \in Nat, NEW x, NEW step
    PROVE  /\ Held(x, step, n, Before(n, x, step))
           /\ \A i \in 1..(n + 1) :
                Before(n, x, step)[i] = Stepped(x, step, i, Before(n, x, step)[i - 1])
<1> DEFINE g == Before(n, x, step)
<1>1. Held(x, step, n, g)
    <2>1. \E h : Held(x, step, n, h)
        BY HeldExists
    <2>2. Held(x, step, n, CHOOSE h : Held(x, step, n, h))
        BY <2>1, Zenon
    <2>3. QED BY <2>2, Zenon DEF Held, Stepped, Before
<1> HIDE DEF g
<1>2. \A i \in 1..(n + 1) : g[i] = Stepped(x, step, i, g[i - 1])
    BY <1>1, HeldAt, ZenonT(30)
<1>3. QED BY <1>1, <1>2 DEF g

(* The loop of Scan is a run of its steps.                                 *)
LEMMA BeforeIs ==
    ASSUME NEW n \in Nat, NEW A, NEW x \in A, NEW step,
           \A i \in 1..n : \A a \in A : step[i][a] \in A
    PROVE  Runs(n, A, x, step, Before(n, x, step))
<1> DEFINE g == Before(n, x, step)
<1>1. /\ Held(x, step, n, g)
      /\ \A i \in 1..(n + 1) : g[i] = Stepped(x, step, i, g[i - 1])
    BY BeforeSteps
<1> HIDE DEF g
<1>2. g[1] = x
    BY <1>1 DEF Stepped
<1>3. ASSUME NEW i \in 1..n PROVE g[i + 1] = step[i][g[i]]
    <2>1. i + 1 \in 1..(n + 1) /\ i + 1 # 1 /\ (i + 1) - 1 = i
        OBVIOUS
    <2>2. QED BY <1>1, <2>1 DEF Stepped
<1> DEFINE S == {j \in Nat : j <= n => g[j + 1] \in A}
<1>4. 0 \in S
    BY <1>2
<1>5. ASSUME NEW j \in Nat, j \in S PROVE j + 1 \in S
    <2>1. CASE j + 1 <= n
        <3>1. j + 1 \in 1..n /\ g[j + 1] \in A
            BY <1>5, <2>1
        <3>2. step[j + 1][g[j + 1]] \in A
            BY <3>1
        <3>4. g[(j + 1) + 1] \in A
            BY <1>3, <3>1, <3>2
        <3>5. QED BY <3>4
    <2>2. CASE ~ (j + 1 <= n)
        BY <2>2
    <2>3. QED BY <2>1, <2>2
<1> HIDE DEF S
<1>6. Nat \subseteq S
    BY <1>4, <1>5, SetInduction
<1>7. ASSUME NEW i \in 1..(n + 1) PROVE g[i] \in A
    <2>1. i - 1 \in Nat /\ i - 1 \in S /\ i - 1 <= n /\ (i - 1) + 1 = i
        BY <1>6
    <2>2. QED BY <2>1 DEF S
<1>8. g = [i \in 1..(n + 1) |-> g[i]]
    BY <1>1, Zenon DEF Held
<1>9. g \in [1..(n + 1) -> A]
    BY <1>7, <1>8
<1>10. Runs(n, A, x, step, g)
    BY <1>2, <1>3, <1>9 DEF Runs
<1>11. QED BY <1>10 DEF g

LEMMA RunAt ==
    ASSUME NEW n \in Nat, NEW A, NEW x, NEW step, NEW g, Runs(n, A, x, step, g),
           NEW i \in 1..n
    PROVE  g[i + 1] = step[i][g[i]] /\ g[i] \in A /\ g[i + 1] \in A
<1>1. g[i + 1] = step[i][g[i]]
    BY Zenon DEF Runs
<1>2. g \in [1..(n + 1) -> A] /\ i \in 1..(n + 1) /\ i + 1 \in 1..(n + 1)
    BY DEF Runs
<1>3. QED BY <1>1, <1>2

LEMMA AfterIs ==
    ASSUME NEW n \in Nat, NEW A, NEW x \in A, NEW step,
           \A i \in 1..n : \A a \in A : step[i][a] \in A
    PROVE  After(n, x, step) \in A
<1>1. Runs(n, A, x, step, Before(n, x, step))
    BY BeforeIs
<1>2. n + 1 \in 1..(n + 1)
    OBVIOUS
<1>3. QED BY <1>1, <1>2 DEF Runs, After

(* Two runs are the same as far as their steps are.                        *)
LEMMA RunsAgree ==
    ASSUME NEW n \in Nat, NEW m \in Nat, NEW k \in Nat, k <= n, k <= m,
           NEW A, NEW B, NEW x, NEW s, NEW t, NEW g, NEW h,
           Runs(n, A, x, s, g), Runs(m, B, x, t, h),
           \A i \in 1..k : \A a \in A : s[i][a] = t[i][a],
           NEW i \in 1..(k + 1)
    PROVE  g[i] = h[i]
<1> DEFINE S == {j \in Nat : j <= k => g[j + 1] = h[j + 1]}
<1>1. 0 \in S
    BY DEF Runs
<1>2. ASSUME NEW j \in Nat, j \in S PROVE j + 1 \in S
    <2>1. CASE j + 1 <= k
        <3>1. g[j + 1] = h[j + 1] /\ j + 1 \in 1..n /\ j + 1 \in 1..m /\ j + 1 \in 1..k
            BY <1>2, <2>1
        <3>2. /\ g[(j + 1) + 1] = s[j + 1][g[j + 1]] /\ g[j + 1] \in A
            BY <3>1, RunAt
        <3>3. h[(j + 1) + 1] = t[j + 1][h[j + 1]]
            BY <3>1, RunAt
        <3>4. g[(j + 1) + 1] = h[(j + 1) + 1]
            BY <3>1, <3>2, <3>3
        <3>5. QED BY <3>4
    <2>2. CASE ~ (j + 1 <= k)
        BY <2>2
    <2>3. QED BY <2>1, <2>2
<1> HIDE DEF S
<1>3. i - 1 \in Nat /\ i - 1 \in S /\ i - 1 <= k /\ (i - 1) + 1 = i
    BY <1>1, <1>2, SetInduction
<1>4. QED BY <1>3 DEF S

LEMMA Pow2Is ==
    ASSUME NEW n \in Nat
    PROVE  Pow2(n) \in Nat /\ Pow2(n) > 0
<1> DEFINE P == Nat \ {0}
           s == [i \in 1..n |-> [x \in Nat |-> 2 * x]]
<1>1. 1 \in P /\ \A i \in 1..n : \A a \in P : s[i][a] \in P
    OBVIOUS
<1>2. Pow2(n) = After(n, 1, s)
    BY DEF Pow2
<1> HIDE DEF P, s
<1>3. After(n, 1, s) \in P
    BY <1>1, AfterIs
<1>4. QED BY <1>2, <1>3 DEF P

-----------------------------------------------------------------------------
(* The pieces of a flattened sequence, one after the other: f[i] is what   *)
(* the first i of them make.                                               *)
Pile(A, ps, n, f) ==
    /\ f \in [0 .. n -> Seq(A)]
    /\ f[0] = <<>> /\ f[n] = FlattenSeq(ps)
    /\ \A i \in 0 .. n - 1 : f[i + 1] = f[i] \o ps[i + 1]

Onto(ps, i, below) == IF i = 1 THEN ps[i] ELSE below \o ps[i]
Rising(ps, k, g) == g = [i \in 1 .. k |-> Onto(ps, i, g[i - 1])]

LEMMA RisingAt ==
    ASSUME NEW ps, NEW k \in Nat, NEW g, Rising(ps, k, g), NEW i \in 1 .. k
    PROVE  g[i] = Onto(ps, i, g[i - 1])
BY Zenon DEF Rising

LEMMA RisingGrows ==
    ASSUME NEW ps, NEW j \in Nat, NEW g, Rising(ps, j, g)
    PROVE  \E h : Rising(ps, j + 1, h)
<1> DEFINE last == Onto(ps, j + 1, g[j])
           h == [i \in 1 .. j + 1 |-> IF i = j + 1 THEN last ELSE g[i]]
<1>1. ASSUME NEW i \in 1 .. j + 1 PROVE h[i] = Onto(ps, i, h[i - 1])
    <2>1. CASE i = j + 1
        <3>1. h[i] = Onto(ps, i, g[j])
            BY <2>1
        <3>2. CASE j = 0
            BY <2>1, <3>1, <3>2 DEF Onto
        <3>3. CASE j # 0
            <4>1. j \in 1 .. j + 1 /\ j # j + 1 /\ i - 1 = j
                BY <2>1, <3>3
            <4>2. h[i - 1] = g[j]
                BY <4>1
            <4>3. QED BY <3>1, <4>2
        <3>4. QED BY <3>2, <3>3
    <2>2. CASE i # j + 1
        <3>1. i \in 1 .. j /\ h[i] = g[i]
            BY <2>2
        <3>2. g[i] = Onto(ps, i, g[i - 1])
            BY <3>1, RisingAt
        <3>3. CASE i = 1
            BY <3>1, <3>2, <3>3 DEF Onto
        <3>4. CASE i # 1
            <4>1. i - 1 \in 1 .. j + 1 /\ i - 1 # j + 1
                BY <2>2, <3>4
            <4>2. h[i - 1] = g[i - 1]
                BY <4>1
            <4>3. QED BY <3>1, <3>2, <4>2
        <3>5. QED BY <3>3, <3>4
    <2>3. QED BY <2>1, <2>2
<1>2. h = [i \in 1 .. j + 1 |-> h[i]]
    OBVIOUS
<1> HIDE DEF h
<1>3. h = [i \in 1 .. j + 1 |-> Onto(ps, i, h[i - 1])]
    BY <1>1, <1>2, Zenon
<1>4. Rising(ps, j + 1, h)
    BY <1>3 DEF Rising
<1>5. QED BY <1>4
LEMMA RisingExists ==
    ASSUME NEW A, NEW n \in Nat, NEW ps \in [1 .. n -> Seq(A)], NEW k \in Nat, k <= n
    PROVE  \E g : Rising(ps, k, g)
<1> DEFINE S == {j \in Nat : \E g : Rising(ps, j, g)}
<1>1. 0 \in S
    <2>1. Rising(ps, 0, [i \in 1..0 |-> <<>>])
        BY DEF Rising
    <2>2. QED BY <2>1
<1>2. ASSUME NEW j \in Nat, j \in S PROVE j + 1 \in S
    <2>1. PICK g : Rising(ps, j, g)
        BY <1>2
    <2>2. QED BY <2>1, RisingGrows
<1> HIDE DEF S
<1>3. k \in S
    BY <1>1, <1>2, SetInduction
<1>4. QED BY <1>3 DEF S

LEMMA RisingTyped ==
    ASSUME NEW A, NEW n \in Nat, NEW ps \in [1 .. n -> Seq(A)], NEW g, Rising(ps, n, g),
           NEW k \in 1 .. n
    PROVE  g[k] \in Seq(A)
<1> DEFINE S == {j \in Nat : j \in 1 .. n => g[j] \in Seq(A)}
<1>0. \A i \in 1 .. n : ps[i] \in Seq(A)
    OBVIOUS
<1>1. 0 \in S
    OBVIOUS
<1>2. ASSUME NEW j \in Nat, j \in S, j + 1 \in 1 .. n PROVE g[j + 1] \in Seq(A)
    <2>0. g[j + 1] = Onto(ps, j + 1, g[(j + 1) - 1])
        BY <1>2, RisingAt
    <2>1. g[j + 1] = Onto(ps, j + 1, g[j])
        <3>1. (j + 1) - 1 = j
            OBVIOUS
        <3>2. QED BY <2>0, <3>1
    <2>2. ps[j + 1] \in Seq(A)
        BY <1>0, <1>2
    <2>3. CASE j = 0
        BY <2>1, <2>2, <2>3 DEF Onto
    <2>4. CASE j # 0
        <3>1. g[j] \in Seq(A)
            BY <1>2, <2>4
        <3>2. g[j + 1] = g[j] \o ps[j + 1]
            <4>1. j + 1 # 1
                BY <2>4
            <4>2. QED BY <2>1, <4>1, Zenon DEF Onto
        <3>3. QED BY <2>2, <3>1, <3>2, ConcatProperties
    <2>5. QED BY <2>3, <2>4
<1>3. \A j \in Nat : j \in S => j + 1 \in S
    BY <1>2
<1> HIDE DEF S
<1>4. k \in Nat /\ k \in S
    <2>1. Nat \subseteq S
        BY <1>1, <1>3, SetInduction
    <2>2. QED BY <2>1
<1>5. QED BY <1>4 DEF S

LEMMA FlattenIsPile ==
    ASSUME NEW A, NEW n \in Nat, NEW ps \in [1 .. n -> Seq(A)]
    PROVE  \E f : Pile(A, ps, n, f)
<1>0. \A i \in 1 .. n : ps[i] \in Seq(A)
    OBVIOUS
<1>1. CASE n = 0
    <2> DEFINE f == [i \in 0 .. 0 |-> <<>>]
    <2>0. ps = <<>> /\ Len(ps) = 0
        BY <1>1
    <2>1. FlattenSeq(ps) = <<>>
        BY <2>0 DEF FlattenSeq
    <2>2. Pile(A, ps, n, f)
        BY <1>1, <2>1 DEF Pile
    <2>3. QED BY <2>2
<1>2. CASE n # 0
    <2> DEFINE g == CHOOSE h : h = [i \in 1 .. n |-> IF i = 1 THEN ps[i] ELSE h[i - 1] \o ps[i]]
               f == [i \in 0 .. n |-> IF i = 0 THEN <<>> ELSE g[i]]
    <2>1. Rising(ps, n, g)
        <3>0. n \in Nat /\ n <= n
            OBVIOUS
        <3>1. \E h : Rising(ps, n, h)
            BY <3>0, RisingExists, ZenonT(30)
        <3>2. Rising(ps, n, CHOOSE h : Rising(ps, n, h))
            BY <3>1, Zenon
        <3>3. QED BY <3>2, Zenon DEF Rising, Onto
    <2>2. Len(ps) = n
        OBVIOUS
    <2>2a. FlattenSeq(ps) = g[n]
        BY <1>2, <2>2 DEF FlattenSeq
    <2> HIDE DEF g
    <2>3. \A i \in 1 .. n : g[i] \in Seq(A)
        BY <2>1, RisingTyped
    <2>5. ASSUME NEW i \in 0 .. n - 1 PROVE f[i + 1] = f[i] \o ps[i + 1]
        <3>1. f[i + 1] = g[i + 1] /\ ps[i + 1] \in Seq(A)
            BY <1>0
        <3>1a. g[i + 1] = Onto(ps, i + 1, g[i])
            <4>1. i + 1 \in 1 .. n /\ (i + 1) - 1 = i
                OBVIOUS
            <4>2. QED BY <2>1, <4>1, RisingAt, ZenonT(30)
        <3>2. CASE i = 0
            <4>1. f[i] = <<>> /\ g[i + 1] = ps[i + 1]
                BY <3>1a, <3>2 DEF Onto
            <4>2. QED BY <3>1, <4>1, ConcatEmptySeq
        <3>3. CASE i # 0
            <4>1. f[i] = g[i] /\ i + 1 # 1
                BY <3>3
            <4>2. g[i + 1] = g[i] \o ps[i + 1]
                BY <3>1a, <4>1, Zenon DEF Onto
            <4>3. QED BY <3>1, <4>1, <4>2
        <3>4. QED BY <3>2, <3>3
    <2>6. f \in [0 .. n -> Seq(A)]
        BY <1>0, <2>3
    <2>7. Pile(A, ps, n, f)
        <3>1. f[0] = <<>> /\ f[n] = FlattenSeq(ps)
            BY <1>2, <2>2a
        <3> HIDE DEF f
        <3>2. QED BY <2>5, <2>6, <3>1, Zenon DEF Pile
    <2>8. QED BY <2>7
<1>3. QED BY <1>1, <1>2

LEMMA PileAt ==
    ASSUME NEW A, NEW n \in Nat, NEW ps \in [1 .. n -> Seq(A)], NEW f, Pile(A, ps, n, f),
           NEW i \in 0 .. n - 1
    PROVE  /\ f[i + 1] = f[i] \o ps[i + 1]
           /\ f[i] \in Seq(A) /\ ps[i + 1] \in Seq(A)
<1>1. f[i + 1] = f[i] \o ps[i + 1]
    BY Zenon DEF Pile
<1>2. f \in [0 .. n -> Seq(A)]
    BY DEF Pile
<1>3. f[i] \in Seq(A)
    BY <1>2
<1>4. ps[i + 1] \in Seq(A)
    OBVIOUS
<1>5. QED BY <1>1, <1>3, <1>4

(* The pieces of a list make a list; each lies behind those before it.     *)
LEMMA FlattenTyped ==
    ASSUME NEW A, NEW n \in Nat, NEW ps \in [1 .. n -> Seq(A)]
    PROVE  FlattenSeq(ps) \in Seq(A)
<1>1. PICK f : Pile(A, ps, n, f)
    BY FlattenIsPile
<1>2. QED BY <1>1 DEF Pile

\* Where the pieces begin, counted from 0.
Starts(ps, n, at) ==
    /\ at \in [1..(n + 1) -> Nat] /\ at[1] = 0
    /\ \A i \in 1..n : at[i + 1] = at[i] + Len(ps[i])

LEMMA FlattenLength ==
    ASSUME NEW A, NEW n \in Nat, NEW ps \in [1..n -> Seq(A)], NEW f, Pile(A, ps, n, f),
           NEW at, Starts(ps, n, at), NEW i \in 0..n
    PROVE  f[i] \in Seq(A) /\ Len(f[i]) = at[i + 1]
<1> DEFINE S == {j \in Nat : j <= n => Len(f[j]) = at[j + 1]}
<1>1. 0 \in S
    BY DEF Pile, Starts
<1>2. ASSUME NEW j \in Nat, j \in S PROVE j + 1 \in S
    <2>1. CASE j + 1 <= n
        <3>1. j \in 0..n - 1 /\ j + 1 \in 1..n /\ Len(f[j]) = at[j + 1]
            BY <1>2, <2>1
        <3>2. /\ f[j + 1] = f[j] \o ps[j + 1]
              /\ f[j] \in Seq(A) /\ ps[j + 1] \in Seq(A)
            BY <3>1, PileAt
        <3>3. Len(f[j + 1]) = Len(f[j]) + Len(ps[j + 1])
            BY <3>2, ConcatProperties
        <3>4. at[(j + 1) + 1] = at[j + 1] + Len(ps[j + 1])
            BY <3>1 DEF Starts
        <3>5. QED BY <3>1, <3>3, <3>4
    <2>2. CASE ~ (j + 1 <= n)
        BY <2>2
    <2>3. QED BY <2>1, <2>2
<1> HIDE DEF S
<1>3. Nat \subseteq S
    BY <1>1, <1>2, SetInduction
<1>4. i \in S /\ i <= n
    BY <1>3
<1>5. f[i] \in Seq(A)
    BY DEF Pile
<1>6. QED BY <1>4, <1>5 DEF S

\* f is the first part of g.
Begins(f, g) == Len(f) <= Len(g) /\ \A j \in 1..Len(f) : g[j] = f[j]

LEMMA PileBegins ==
    ASSUME NEW A, NEW n \in Nat, NEW ps \in [1..n -> Seq(A)], NEW f, Pile(A, ps, n, f),
           NEW i \in 0..n
    PROVE  Begins(f[i], FlattenSeq(ps))
<1> DEFINE S == {d \in Nat : i + d <= n => Begins(f[i], f[i + d])}
<1>1. 0 \in S
    BY DEF Begins, Pile
<1>2. ASSUME NEW d \in Nat, d \in S PROVE d + 1 \in S
    <2>1. CASE i + (d + 1) <= n
        <3>0. i + d \in 0..n - 1 /\ (i + d) + 1 = i + (d + 1)
            BY <2>1
        <3>1. Begins(f[i], f[i + d])
            BY <1>2, <3>0
        <3>2. /\ f[(i + d) + 1] = f[i + d] \o ps[(i + d) + 1]
              /\ f[i + d] \in Seq(A) /\ ps[(i + d) + 1] \in Seq(A)
            BY <3>0, PileAt
        <3>3. f[i] \in Seq(A)
            BY DEF Pile
        <3> DEFINE p == f[i]  q == f[i + d]  r == ps[(i + d) + 1]
        <3>4. p \in Seq(A) /\ q \in Seq(A) /\ r \in Seq(A) /\ Begins(p, q)
            BY <3>1, <3>2, <3>3
        <3> HIDE DEF p, q, r
        <3>5. Begins(p, q \o r)
            BY <3>4, ConcatProperties DEF Begins
        <3>6. Begins(f[i], f[(i + d) + 1])
            BY <3>2, <3>5 DEF p, q, r
        <3>7. QED BY <3>0, <3>6
    <2>2. CASE ~ (i + (d + 1) <= n)
        BY <2>2
    <2>3. QED BY <2>1, <2>2
<1> HIDE DEF S
<1>3. n - i \in Nat /\ i + (n - i) = n /\ Nat \subseteq S
    BY SMTT(30), <1>1, <1>2, SetInduction
<1>4. Begins(f[i], f[n])
    <2>1. n - i \in S
        BY <1>3
    <2>2. i + (n - i) <= n
        BY <1>3
    <2>3. Begins(f[i], f[i + (n - i)])
        BY <2>1, <2>2 DEF S
    <2>4. QED BY <1>3, <2>3
<1>5. QED BY <1>4 DEF Pile

\* All of them end to end.
Laid(A, all, ps, n, at) ==
    /\ all \in Seq(A) /\ Len(all) = at[n + 1]
    /\ \A i \in 1..n : at[i + 1] <= at[n + 1]
    /\ \A i \in 1..n : \A j \in 1..Len(ps[i]) : all[at[i] + j] = ps[i][j]

LEMMA FlattenSegment ==
    ASSUME NEW A, NEW n \in Nat, NEW ps \in [1..n -> Seq(A)], NEW at, Starts(ps, n, at)
    PROVE  Laid(A, FlattenSeq(ps), ps, n, at)
<1> DEFINE F == FlattenSeq(ps)
<1>1. PICK f : Pile(A, ps, n, f)
    BY FlattenIsPile
<1>2. F = f[n] /\ n \in 0..n
    BY <1>1 DEF Pile
<1>3. F \in Seq(A) /\ Len(F) = at[n + 1]
    BY <1>1, <1>2, FlattenLength
<1> HIDE DEF F
<1>4. ASSUME NEW i \in 1..n
      PROVE  /\ at[i + 1] <= at[n + 1]
             /\ \A j \in 1..Len(ps[i]) : F[at[i] + j] = ps[i][j]
    <2>0. i \in 0..n /\ i - 1 \in 0..n /\ i - 1 \in 0..n - 1 /\ (i - 1) + 1 = i
        OBVIOUS
    <2>1. f[i] \in Seq(A) /\ Len(f[i]) = at[i + 1]
        BY <1>1, <2>0, FlattenLength
    <2>2. f[i - 1] \in Seq(A) /\ Len(f[i - 1]) = at[i]
        <3>1. f[i - 1] \in Seq(A) /\ Len(f[i - 1]) = at[(i - 1) + 1]
            BY <1>1, <2>0, FlattenLength
        <3>2. QED BY <2>0, <3>1
    <2>3. Begins(f[i], F)
        BY <1>1, <2>0, PileBegins DEF F
    <2>4. f[i] = f[i - 1] \o ps[i] /\ ps[i] \in Seq(A)
        <3>1. PICK k \in 0..n - 1 : k = i - 1
            BY <2>0
        <3>2. f[k + 1] = f[k] \o ps[k + 1]
            BY <1>1, Zenon DEF Pile
        <3>3. ps[i] \in Seq(A)
            OBVIOUS
        <3>4. QED BY <2>0, <3>1, <3>2, <3>3
    <2> DEFINE p == f[i - 1]  q == f[i]  r == ps[i]
    <2>5. /\ p \in Seq(A) /\ q \in Seq(A) /\ r \in Seq(A) /\ q = p \o r
          /\ Len(q) = at[i + 1] /\ Len(p) = at[i] /\ Begins(q, F)
        BY <2>1, <2>2, <2>3, <2>4
    <2> HIDE DEF p, q, r
    <2>6. at[i + 1] <= at[n + 1]
        BY <1>3, <2>5 DEF Begins
    <2>7. ASSUME NEW j \in 1..Len(r) PROVE F[at[i] + j] = r[j]
        <3>0. p \in Seq(A) /\ r \in Seq(A)
            BY <2>5
        <3>a. Len(p \o r) = Len(p) + Len(r) /\ (p \o r)[Len(p) + j] = r[j]
            BY <3>0
        <3>1. Len(q) = Len(p) + Len(r) /\ q[Len(p) + j] = r[j]
            BY <2>5, <3>a
        <3>2. Len(p) + j \in 1..Len(q) /\ Len(p) \in Nat
            BY <2>5, <3>1
        <3>3. F[Len(p) + j] = q[Len(p) + j]
            BY <2>5, <3>2 DEF Begins
        <3>4. QED BY <2>5, <3>1, <3>3
    <2>8. QED BY <2>6, <2>7 DEF r
<1>5. QED BY <1>3, <1>4 DEF F, Laid

-----------------------------------------------------------------------------
(* The least and the greatest of a set of integers.                        *)

LEMMA MinIs ==
    ASSUME NEW T \in SUBSET Nat, T # {}
    PROVE  Min(T) \in T /\ \A y \in T : Min(T) <= y
<1>1. \E x \in T : \A y \in T : x <= y
    BY LeastNat
<1>2. QED BY <1>1 DEF Min

LEMMA MaxIs ==
    ASSUME NEW n \in Nat, NEW T \in SUBSET (0..n), T # {}
    PROVE  Max(T) \in T /\ \A y \in T : Max(T) >= y
<1> DEFINE U == {n - y : y \in T}
<1>0. \A y \in T : n - y \in Nat /\ y \in Int
    OBVIOUS
<1>1. U \in SUBSET Nat /\ U # {}
    BY <1>0
<1>2. PICK u \in U : \A y \in U : u <= y
    BY <1>1, LeastNat
<1>3. PICK x \in T : u = n - x
    BY <1>2
<1>4. \A y \in T : n - y \in U /\ y \in Nat /\ x \in Nat
    OBVIOUS
<1>5. \A y \in T : x >= y
    BY <1>2, <1>3, <1>4
<1>6. QED BY <1>5 DEF Max

-----------------------------------------------------------------------------
(* Remainders.                                                             *)

LEMMA Remainder ==
    ASSUME NEW n \in Nat \ {0}, NEW q \in Int, NEW r \in 0..(n - 1)
    PROVE  (n * q + r) % n = r
OBVIOUS

-----------------------------------------------------------------------------
(* Integers and words.  A word is an integer modulo 2^64, bit by bit: what  *)
(* halving leaves of it, and whether that is odd.                          *)

LEMMA Doubling ==
    ASSUME NEW n \in Nat
    PROVE  Pow2(n + 1) = 2 * Pow2(n) /\ Pow2(0) = 1
<1> DEFINE s == [i \in 1..n |-> [x \in Nat |-> 2 * x]]
           t == [i \in 1..n + 1 |-> [x \in Nat |-> 2 * x]]
           o == [i \in 1..0 |-> [x \in Nat |-> 2 * x]]
<1>1. Runs(n, Nat, 1, s, Before(n, 1, s)) /\ Runs(n + 1, Nat, 1, t, Before(n + 1, 1, t))
    <2>1. 1 \in Nat /\ \A i \in 1..n : \A a \in Nat : s[i][a] \in Nat
        OBVIOUS
    <2>2. \A i \in 1..n + 1 : \A a \in Nat : t[i][a] \in Nat
        OBVIOUS
    <2> HIDE DEF s, t
    <2>3. Runs(n, Nat, 1, s, Before(n, 1, s))
        BY <2>1, BeforeIs
    <2>4. n + 1 \in Nat /\ 1 \in Nat
        OBVIOUS
    <2>5. Runs(n + 1, Nat, 1, t, Before(n + 1, 1, t))
        BY <2>2, <2>4, BeforeIs
    <2>6. QED BY <2>3, <2>5
<1>2. \A i \in 1..n : \A a \in Nat : s[i][a] = t[i][a]
    OBVIOUS
<1>3. n + 1 \in 1..n + 1 /\ t[n + 1] = [x \in Nat |-> 2 * x]
    OBVIOUS
<1>4. Pow2(n) = Before(n, 1, s)[n + 1] /\ Pow2(n + 1) = Before(n + 1, 1, t)[n + 2]
    BY DEF Pow2, After
<1>5. Pow2(0) = Before(0, 1, o)[1] /\ Runs(0, Nat, 1, o, Before(0, 1, o))
    <2>1. Pow2(0) = Before(0, 1, o)[1]
        BY DEF Pow2, After
    <2>2. 1 \in Nat /\ \A i \in 1..0 : \A a \in Nat : o[i][a] \in Nat
        OBVIOUS
    <2> HIDE DEF o
    <2>3. Runs(0, Nat, 1, o, Before(0, 1, o))
        BY <2>2, BeforeIs
    <2>4. QED BY <2>1, <2>3
<1> DEFINE g == Before(n, 1, s)  h == Before(n + 1, 1, t)
<1> HIDE DEF s, t, o, g, h
<1>6. g[n + 1] = h[n + 1]
    <2>1. Runs(n, Nat, 1, s, g) /\ Runs(n + 1, Nat, 1, t, h)
        BY <1>1 DEF g, h
    <2>2. n + 1 \in Nat /\ n <= n /\ n <= n + 1 /\ n + 1 \in 1..n + 1
        OBVIOUS
    <2>3. \A i \in 1..n : \A a \in Nat : s[i][a] = t[i][a]
        BY <1>2 DEF s, t
    <2>4. \A i \in 1..n + 1 : g[i] = h[i]
        BY <2>1, <2>2, <2>3, RunsAgree
    <2>5. QED BY <2>2, <2>4
<1>7. h[n + 2] = t[n + 1][h[n + 1]] /\ h[n + 1] \in Nat
    <2>1. Runs(n + 1, Nat, 1, t, h)
        BY <1>1 DEF h
    <2>2. (n + 1) + 1 = n + 2
        OBVIOUS
    <2>3. QED BY <1>3, <2>1, <2>2, RunAt
<1>8. Pow2(n + 1) = 2 * Pow2(n)
    BY <1>3, <1>4, <1>6, <1>7 DEF g, h
<1>9. QED BY <1>5, <1>8 DEF Runs

\* Dividing twice.
LEMMA HalfOf ==
    ASSUME NEW n \in Int, NEW p \in Nat \ {0}
    PROVE  n \div (2 * p) = (n \div p) \div 2
<1> DEFINE q == n \div p  r == n % p  s == q \div 2  t == q % 2
<1>1. q \in Int /\ r \in 0..p - 1 /\ n = p * q + r
    OBVIOUS
<1>2. s \in Int /\ t \in 0..1 /\ q = 2 * s + t
    BY <1>1
<1> HIDE DEF q, r, s, t
<1>3. p * q = (2 * p) * s + p * t
    BY <1>1, <1>2
<1>4. p * t \in 0..p
    <2>1. CASE t = 0
        BY <2>1
    <2>2. CASE t = 1
        BY <2>2
    <2>3. QED BY <1>2, <2>1, <2>2
<1>5. n = (2 * p) * s + (p * t + r)
    <2> DEFINE a == p * q  b == (2 * p) * s  c == p * t
    <2>1. a \in Int /\ b \in Int /\ c \in Int /\ a = b + c /\ n = a + r
        BY <1>1, <1>2, <1>3
    <2> HIDE DEF a, b, c
    <2>2. n = b + (c + r)
        BY <1>1, <2>1
    <2>3. QED BY <2>2 DEF b, c
<1>6. p * t + r \in 0..(2 * p) - 1
    BY <1>1, <1>2
<1> DEFINE m == 2 * p  u == p * t + r
<1>7. m \in Nat \ {0} /\ u \in 0..m - 1 /\ n = m * s + u
    BY <1>5, <1>6
<1> HIDE DEF m, u
<1>8. n \div m = s
    BY <1>2, <1>7
<1>9. QED BY <1>8 DEF m, s, q

Halves(n) == Before(64, n, [i \in 1..64 |-> [x \in Int |-> x \div 2]])

LEMMA HalvesAre ==
    ASSUME NEW n \in Int
    PROVE  /\ Halves(n) \in [1..65 -> Int] /\ Halves(n)[1] = n
           /\ \A i \in 1..64 : Halves(n)[i + 1] = Halves(n)[i] \div 2
<1> DEFINE s == [i \in 1..64 |-> [x \in Int |-> x \div 2]]
<1>1. \A i \in 1..64 : \A a \in Int : s[i][a] = a \div 2 /\ s[i][a] \in Int
    OBVIOUS
<1> HIDE DEF s
<1>2. Runs(64, Int, n, s, Before(64, n, s)) /\ Halves(n) = Before(64, n, s)
    BY <1>1, BeforeIs DEF Halves, s
<1> DEFINE h == Before(64, n, s)
<1> HIDE DEF h
<1>3. h \in [1..65 -> Int] /\ h[1] = n /\ \A i \in 1..64 : h[i + 1] = s[i][h[i]]
    <2>1. 64 + 1 = 65
        OBVIOUS
    <2>2. QED BY <1>2, <2>1 DEF Runs, h
<1>4. ASSUME NEW i \in 1..64 PROVE h[i + 1] = h[i] \div 2
    <2>1. h[i] \in Int
        BY <1>3
    <2>2. QED BY <1>1, <1>3, <2>1
<1>5. QED BY <1>2, <1>3, <1>4 DEF h

LEMMA PowersAre ==
    /\ Powers[0] = 1 /\ \A b \in 0..30 : Powers[b] \in Nat \ {0}
    /\ \A b \in 0..29 : Powers[b + 1] = 2 * Powers[b]
    /\ Powers[30] = Giga
<1>1. \A b \in 0..30 : Powers[b] = Pow2(b) /\ b \in Nat
    BY DEF Powers
<1>2. \A b \in 0..30 : Powers[b] \in Nat \ {0}
    <2> TAKE b \in 0..30
    <2>1. Pow2(b) \in Nat /\ Pow2(b) > 0
        BY <1>1, Pow2Is
    <2>2. QED BY <1>1, <2>1
<1>3. Powers[0] = 1
    BY <1>1, Doubling
<1>4. ASSUME NEW b \in 0..29 PROVE Powers[b + 1] = 2 * Powers[b]
    <2>1. b \in 0..30 /\ b + 1 \in 0..30 /\ b \in Nat
        OBVIOUS
    <2>2. Pow2(b + 1) = 2 * Pow2(b)
        BY <2>1, Doubling
    <2>3. QED BY <1>1, <2>1, <2>2
<1>5. Powers[30] = Giga
    <2>1. Powers[6] = 64
        <3>1. Powers[3] = 8
            BY <1>3, <1>4
        <3>2. QED BY <1>4, <3>1
    <2>2. Powers[12] = 4096
        <3>1. Powers[9] = 512
            BY <1>4, <2>1
        <3>2. QED BY <1>4, <3>1
    <2>3. Powers[18] = 262144
        <3>1. Powers[15] = 32768
            BY <1>4, <2>2
        <3>2. QED BY <1>4, <3>1
    <2>4. Powers[24] = 16777216
        <3>1. Powers[21] = 2097152
            BY <1>4, <2>3
        <3>2. QED BY <1>4, <3>1
    <2>5. Powers[27] = 134217728
        BY <1>4, <2>4
    <2>6. Powers[30] = 1073741824
        BY <1>4, <2>5
    <2>7. QED BY <2>6 DEF Giga
<1>6. QED BY <1>2, <1>3, <1>4, <1>5

LEMMA WordBit ==
    ASSUME NEW n \in Int, NEW b \in 0..63
    PROVE  b \in ToWord(n) <=> Halves(n)[b + 1] % 2 = 1
<1> DEFINE high == n \div Giga
           part == <<n, high, high \div Giga>>
           q(i) == part[i \div 30 + 1] \div Powers[i % 30]
           h == Halves(n)
<1>1. ToWord(n) = {i \in 0..63 : q(i) % 2 = 1}
    BY DEF ToWord, WordBits
<1>2. /\ part[1] = n /\ \A k \in 1..3 : part[k] \in Int
      /\ \A k \in 1..2 : part[k + 1] = part[k] \div Giga
    <2>1. Giga \in Nat \ {0}
        BY DEF Giga
    <2>2. high \in Int /\ high \div Giga \in Int
        BY <2>1
    <2>3. part[1] = n /\ part[2] = high /\ part[3] = high \div Giga
        OBVIOUS
    <2> HIDE DEF part
    <2>4. \A k \in 1..3 : part[k] \in Int
        <3> TAKE k \in 1..3
        <3>1. k = 1 \/ k = 2 \/ k = 3
            OBVIOUS
        <3>2. QED BY <2>2, <2>3, <3>1
    <2>5. part[2] = part[1] \div Giga /\ part[3] = part[2] \div Giga
        BY <2>3
    <2>6. \A k \in 1..2 : part[k + 1] = part[k] \div Giga
        <3> TAKE k \in 1..2
        <3>1. k = 1 \/ k = 2
            OBVIOUS
        <3>2. 1 + 1 = 2 /\ 2 + 1 = 3
            OBVIOUS
        <3>3. QED BY <2>5, <3>1, <3>2
    <2>7. QED BY <2>3, <2>4, <2>6
<1> HIDE DEF part, high
<1>3. q(0) = n
    <2>1. 0 \div 30 + 1 = 1 /\ 0 % 30 = 0
        OBVIOUS
    <2>2. n \div 1 = n
        OBVIOUS
    <2>3. QED BY <1>2, <2>1, <2>2, PowersAre
<1>4. ASSUME NEW i \in 0..62 PROVE q(i + 1) = q(i) \div 2
    <2> DEFINE k == i \div 30 + 1  m == i % 30
    <2>1. k \in 1..3 /\ m \in 0..29 /\ m \in 0..30 /\ part[k] \in Int
        BY <1>2
    <2>2. Powers[m] \in Nat \ {0} /\ Powers[m + 1] = 2 * Powers[m]
        BY <2>1, PowersAre
    <2>3. part[k] \div Powers[m + 1] = (part[k] \div Powers[m]) \div 2
        <3> DEFINE p == Powers[m]  x == part[k]
        <3> HIDE DEF p, x
        <3>1. x \in Int /\ p \in Nat \ {0}
            BY <2>1, <2>2 DEF p, x
        <3>2. x \div (2 * p) = (x \div p) \div 2
            BY <3>1, HalfOf
        <3>3. QED BY <2>2, <3>2 DEF p, x
    <2>4. CASE m # 29
        <3>1. (i + 1) \div 30 + 1 = k /\ (i + 1) % 30 = m + 1
            BY <2>4
        <3>2. QED BY <2>3, <3>1
    <2>5. CASE m = 29
        <3>1. (i + 1) \div 30 + 1 = k + 1 /\ (i + 1) % 30 = 0 /\ k \in 1..2
            BY <2>5
        <3>2. part[k + 1] = part[k] \div Giga /\ part[k + 1] \in Int
            <4>1. k + 1 \in 1..3
                BY <3>1
            <4>2. QED BY <1>2, <3>1, <4>1
        <3>3. part[k + 1] \div 1 = part[k + 1]
            BY <3>2
        <3>4. Powers[0] = 1 /\ Powers[m + 1] = Giga
            BY <2>5, PowersAre
        <3>5. QED BY <2>3, <3>1, <3>2, <3>3, <3>4
    <2>6. QED BY <2>4, <2>5
<1> HIDE DEF q
<1> DEFINE S == {i \in Nat : i <= 63 => h[i + 1] = q(i)}
<1>5. h[1] = n /\ \A i \in 1..64 : h[i + 1] = h[i] \div 2
    BY HalvesAre
<1> HIDE DEF h
<1>6. 0 \in S
    BY <1>3, <1>5
<1>7. ASSUME NEW i \in Nat, i \in S PROVE i + 1 \in S
    <2>1. CASE i + 1 <= 63
        <3>1. i \in 0..62 /\ i + 1 \in 1..64 /\ h[i + 1] = q(i)
            BY <1>7, <2>1
        <3>2. q(i + 1) = q(i) \div 2
            BY <1>4, <3>1
        <3>3. h[(i + 1) + 1] = h[i + 1] \div 2
            BY <1>5, <3>1
        <3>4. QED BY <3>1, <3>2, <3>3
    <2>2. CASE ~ (i + 1 <= 63)
        BY <2>2
    <2>3. QED BY <2>1, <2>2
<1>8. b \in S
    <2> HIDE DEF S
    <2>1. Nat \subseteq S
        BY <1>6, <1>7, SetInduction
    <2>2. QED BY <2>1
<1>9. h[b + 1] = q(b)
    BY <1>8
<1>10. QED BY <1>1, <1>9 DEF h

\* What is below 2^k has no bit from k on.
LEMMA SmallWord ==
    ASSUME NEW k \in 0..64, NEW n \in Nat, n < Pow2(k), NEW b \in k..63
    PROVE  b \notin ToWord(n)
<1> DEFINE h == Halves(n)
           S == {i \in Nat : i <= k => h[i + 1] \in Nat /\ h[i + 1] < Pow2(k - i)}
           T == {i \in Nat : k <= i /\ i <= 63 => h[i + 1] = 0}
<1>1. h[1] = n /\ \A i \in 1..64 : h[i + 1] = h[i] \div 2
    BY HalvesAre
<1> HIDE DEF h
<1>2. 0 \in S
    BY <1>1
<1>3. ASSUME NEW i \in Nat, i \in S PROVE i + 1 \in S
    <2>1. CASE i + 1 <= k
        <3>1. h[i + 1] \in Nat /\ h[i + 1] < Pow2(k - i) /\ i + 1 \in 1..64
            BY <1>3, <2>1
        <3>2. h[(i + 1) + 1] = h[i + 1] \div 2
            BY <1>1, <3>1
        <3>3. k - (i + 1) \in Nat /\ (k - (i + 1)) + 1 = k - i
            BY <2>1
        <3>4. Pow2(k - i) = 2 * Pow2(k - (i + 1)) /\ Pow2(k - (i + 1)) \in Nat
            BY <3>3, Doubling, Pow2Is
        <3>5. h[(i + 1) + 1] \in Nat /\ h[(i + 1) + 1] < Pow2(k - (i + 1))
            BY <3>1, <3>2, <3>4
        <3>6. QED BY <3>5
    <2>2. CASE ~ (i + 1 <= k)
        BY <2>2
    <2>3. QED BY <2>1, <2>2
<1>4. h[k + 1] = 0
    <2>1. k \in S
        <3> HIDE DEF S
        <3>1. Nat \subseteq S
            BY <1>2, <1>3, SetInduction
        <3>2. QED BY <3>1
    <2>2. h[k + 1] \in Nat /\ h[k + 1] < Pow2(0)
        BY <2>1
    <2>3. Pow2(0) = 1
        BY Doubling
    <2>4. QED BY <2>2, <2>3
<1>5. 0 \in T
    BY <1>4
<1>6. ASSUME NEW i \in Nat, i \in T PROVE i + 1 \in T
    <2>1. CASE k <= i /\ i + 1 <= 63
        <3>1. i + 1 \in 1..64 /\ h[i + 1] = 0
            BY <1>6, <2>1
        <3>2. h[(i + 1) + 1] = h[i + 1] \div 2
            BY <1>1, <3>1
        <3>3. QED BY <3>1, <3>2
    <2>2. CASE i + 1 = k
        BY <1>4, <2>2
    <2>3. CASE i + 1 < k \/ 63 < i + 1
        BY <2>3
    <2>4. QED BY <2>1, <2>2, <2>3
<1>7. b \in T
    <2> HIDE DEF T
    <2>1. Nat \subseteq T
        BY <1>5, <1>6, SetInduction
    <2>2. QED BY <2>1
<1>8. h[b + 1] = 0 /\ b \in 0..63
    BY <1>7
<1>9. QED BY <1>8, WordBit DEF h

\* Up to an exponent of 30, no sign.
LEMMA SmallPositive ==
    ASSUME NEW n \in 0..30
    PROVE  63 \notin ToWord(n)
<1>1. Pow2(5) = 32
    <2>1. Pow2(0) = 1 /\ Pow2(0 + 1) = 2 * Pow2(0) /\ Pow2(1 + 1) = 2 * Pow2(1)
          /\ Pow2(2 + 1) = 2 * Pow2(2) /\ Pow2(3 + 1) = 2 * Pow2(3) /\ Pow2(4 + 1) = 2 * Pow2(4)
        BY Doubling
    <2>2. 0 + 1 = 1 /\ 1 + 1 = 2 /\ 2 + 1 = 3 /\ 3 + 1 = 4 /\ 4 + 1 = 5
        OBVIOUS
    <2>3. QED BY <2>1, <2>2
<1>2. n \in Nat /\ n < Pow2(5) /\ 5 \in 0..64 /\ 63 \in 5..63
    BY <1>1
<1>3. QED BY <1>2, SmallWord

\* Less than 2^64 apart, two integers are the same if their words are.
LEMMA SameInt ==
    ASSUME NEW x \in Int, NEW y \in Int, x - y < Pow2(64), y - x < Pow2(64),
           ToWord(x) = ToWord(y)
    PROVE  x = y
<1> DEFINE g == Halves(x)  h == Halves(y)
           S == {i \in Nat : i <= 64 => /\ g[i + 1] - h[i + 1] < Pow2(64 - i)
                                        /\ h[i + 1] - g[i + 1] < Pow2(64 - i)}
           T == {i \in Nat : i <= 64 => g[65 - i] = h[65 - i]}
<1>1. /\ g \in [1..65 -> Int] /\ h \in [1..65 -> Int] /\ g[1] = x /\ h[1] = y
      /\ \A i \in 1..64 : g[i + 1] = g[i] \div 2 /\ h[i + 1] = h[i] \div 2
    BY HalvesAre
<1>2. ASSUME NEW i \in 1..64
      PROVE  /\ g[i] \in Int /\ h[i] \in Int /\ g[i + 1] \in Int /\ h[i + 1] \in Int
             /\ g[i] - h[i] = 2 * (g[i + 1] - h[i + 1])
    <2>1. i - 1 \in 0..63 /\ (i - 1) + 1 = i
        OBVIOUS
    <2>2. g[i] % 2 = 1 <=> h[i] % 2 = 1
        BY <2>1, WordBit
    <2> HIDE DEF g, h
    <2>3. g[i] \in Int /\ h[i] \in Int /\ g[i + 1] = g[i] \div 2 /\ h[i + 1] = h[i] \div 2
        BY <1>1
    <2> DEFINE a == g[i]  b == h[i]
    <2> HIDE DEF a, b
    <2>4. a \in Int /\ b \in Int /\ (a % 2 = 1 <=> b % 2 = 1)
        BY <2>2, <2>3 DEF a, b
    <2>5. a - b = 2 * ((a \div 2) - (b \div 2))
        BY <2>4
    <2>6. QED BY <2>3, <2>5 DEF a, b
<1> HIDE DEF g, h
<1>3. 0 \in S
    BY <1>1
<1>4. ASSUME NEW i \in Nat, i \in S PROVE i + 1 \in S
    <2>1. CASE i + 1 <= 64
        <3>1. i + 1 \in 1..64 /\ 64 - (i + 1) \in Nat /\ (64 - (i + 1)) + 1 = 64 - i
            BY <2>1
        <3>2. Pow2(64 - i) = 2 * Pow2(64 - (i + 1)) /\ Pow2(64 - (i + 1)) \in Nat
            BY <3>1, Doubling, Pow2Is
        <3> DEFINE p == Pow2(64 - (i + 1))  d == g[i + 1] - h[i + 1]
                   e == g[(i + 1) + 1] - h[(i + 1) + 1]
        <3>3. d < 2 * p /\ -d < 2 * p /\ d = 2 * e /\ e \in Int /\ p \in Nat
            <4>1. g[i + 1] - h[i + 1] < Pow2(64 - i) /\ h[i + 1] - g[i + 1] < Pow2(64 - i)
                BY <1>4, <2>1
            <4>2. /\ g[i + 1] \in Int /\ h[i + 1] \in Int
                  /\ g[(i + 1) + 1] \in Int /\ h[(i + 1) + 1] \in Int /\ d = 2 * e
                BY <1>2, <3>1
            <4>3. QED BY <3>2, <4>1, <4>2
        <3> HIDE DEF p, d, e
        <3>4. e < p /\ -e < p
            BY <3>3
        <3>5. g[(i + 1) + 1] \in Int /\ h[(i + 1) + 1] \in Int
            BY <1>2, <3>1
        <3>6. QED BY <3>4, <3>5 DEF p, e
    <2>2. CASE ~ (i + 1 <= 64)
        BY <2>2
    <2>3. QED BY <2>1, <2>2
<1>5. 0 \in T
    <2>1. 64 \in S
        <3> HIDE DEF S
        <3>1. Nat \subseteq S
            BY <1>3, <1>4, SetInduction
        <3>2. QED BY <3>1
    <2>2. g[65] - h[65] < Pow2(0) /\ h[65] - g[65] < Pow2(0)
        BY <2>1
    <2>3. Pow2(0) = 1 /\ g[65] \in Int /\ h[65] \in Int
        BY <1>1, Doubling
    <2>4. QED BY <2>2, <2>3
<1>6. ASSUME NEW i \in Nat, i \in T PROVE i + 1 \in T
    <2>1. CASE i + 1 <= 64
        <3>1. 65 - (i + 1) \in 1..64 /\ (65 - (i + 1)) + 1 = 65 - i /\ g[65 - i] = h[65 - i]
            BY <1>6, <2>1
        <3>2. /\ g[65 - (i + 1)] \in Int /\ h[65 - (i + 1)] \in Int /\ g[65 - i] \in Int
              /\ g[65 - (i + 1)] - h[65 - (i + 1)] = 2 * (g[65 - i] - h[65 - i])
            BY <1>2, <3>1
        <3>3. QED BY <3>1, <3>2
    <2>2. CASE ~ (i + 1 <= 64)
        BY <2>2
    <2>3. QED BY <2>1, <2>2
<1>7. 64 \in T
    <2> HIDE DEF T
    <2>1. Nat \subseteq T
        BY <1>5, <1>6, SetInduction
    <2>2. QED BY <2>1
<1>8. QED BY <1>1, <1>7

-----------------------------------------------------------------------------
(* Sums.                                                                   *)

LEMMA CarryNext ==
    ASSUME NEW a \in Word, NEW b \in Word
    PROVE  /\ 0 \notin Carries(a, b)
           /\ \A k \in 0..62 : k + 1 \in Carries(a, b) <=>
                 \/ k \in a /\ k \in b
                 \/ (k \in a \/ k \in b) /\ k \in Carries(a, b)
<1>1. 0 \notin Carries(a, b)
    BY DEF Carries, Word, WordBits
<1>2. ASSUME NEW k \in 0..62
      PROVE  k + 1 \in Carries(a, b) <=> \/ k \in a /\ k \in b
                                         \/ (k \in a \/ k \in b) /\ k \in Carries(a, b)
    <2> DEFINE c(n) == \E j \in a \cap b : j < n /\ \A i \in (j + 1)..(n - 1) : i \in a \cup b
    <2>1. (k + 1 \in Carries(a, b) <=> c(k + 1)) /\ (k \in Carries(a, b) <=> c(k))
        BY DEF Carries, WordBits
    <2>2. ASSUME c(k + 1) PROVE (k \in a /\ k \in b) \/ ((k \in a \/ k \in b) /\ c(k))
        <3>1. PICK j \in a \cap b : j < k + 1 /\ \A i \in (j + 1)..k : i \in a \cup b
            BY <2>2
        <3>2. j \in Int
            BY DEF Word, WordBits
        <3>3. CASE j = k
            BY <3>3
        <3>4. CASE j < k
            <4>1. k \in (j + 1)..k
                BY <3>2, <3>4
            <4>2. \A i \in (j + 1)..(k - 1) : i \in (j + 1)..k
                BY <3>2
            <4>3. QED BY <3>1, <3>4, <4>1, <4>2
        <3>5. QED BY <3>1, <3>2, <3>3, <3>4
    <2>3. ASSUME k \in a, k \in b PROVE c(k + 1)
        <3>1. k \in a \cap b /\ k < k + 1 /\ (k + 1)..((k + 1) - 1) = {}
            BY <2>3
        <3>2. QED BY <3>1
    <2>4. ASSUME k \in a \/ k \in b, c(k) PROVE c(k + 1)
        <3>1. PICK j \in a \cap b : j < k /\ \A i \in (j + 1)..(k - 1) : i \in a \cup b
            BY <2>4
        <3>2. j \in Int
            BY DEF Word, WordBits
        <3>3. ASSUME NEW i \in (j + 1)..((k + 1) - 1) PROVE i \in a \cup b
            <4>1. i = k \/ i \in (j + 1)..(k - 1)
                BY <3>2
            <4>2. QED BY <2>4, <3>1, <4>1
        <3>4. j < k + 1
            BY <3>1, <3>2
        <3>5. QED BY <3>3, <3>4
    <2> HIDE DEF c
    <2>5. QED BY <2>1, <2>2, <2>3, <2>4
<1>3. QED BY <1>1, <1>2

LEMMA PlusBit ==
    ASSUME NEW a \in Word, NEW b \in Word, NEW k \in 0..63
    PROVE  k \in Plus(a, b) <=> ((k \in a <=> k \in b) <=> k \in Carries(a, b))
BY DEF Plus, Xor

\* The word of a sum.
LEMMA SumOfWords ==
    ASSUME NEW x \in Int, NEW y \in Int
    PROVE  ToWord(x + y) = Plus(ToWord(x), ToWord(y))
<1> DEFINE f == Halves(x)  g == Halves(y)  h == Halves(x + y)
           a == ToWord(x)  b == ToWord(y)
           c == [i \in 0..63 |-> IF i \in Carries(a, b) THEN 1 ELSE 0]
           S == {i \in Nat : i <= 63 => h[i + 1] = f[i + 1] + g[i + 1] + c[i]}
<1>1. a \in Word /\ b \in Word /\ ToWord(x + y) \in Word /\ Plus(a, b) \in Word
    BY DEF ToWord, Word, Plus, Xor, Carries
<1>2. /\ f \in [1..65 -> Int] /\ g \in [1..65 -> Int] /\ h \in [1..65 -> Int]
      /\ f[1] = x /\ g[1] = y /\ h[1] = x + y
      /\ \A i \in 1..64 : f[i + 1] = f[i] \div 2 /\ g[i + 1] = g[i] \div 2 /\ h[i + 1] = h[i] \div 2
    <2>1. x + y \in Int
        OBVIOUS
    <2>2. QED BY <2>1, HalvesAre
<1>3. ASSUME NEW i \in 0..63
      PROVE  /\ i \in a <=> f[i + 1] % 2 = 1
             /\ i \in b <=> g[i + 1] % 2 = 1
             /\ i \in ToWord(x + y) <=> h[i + 1] % 2 = 1
             /\ f[i + 1] \in Int /\ g[i + 1] \in Int /\ h[i + 1] \in Int
             /\ c[i] \in 0..1 /\ (c[i] = 1 <=> i \in Carries(a, b))
    <2>1. x + y \in Int /\ i + 1 \in 1..65
        OBVIOUS
    <2>2. c[i] \in 0..1 /\ (c[i] = 1 <=> i \in Carries(a, b))
        OBVIOUS
    <2>3. f[i + 1] \in Int /\ g[i + 1] \in Int /\ h[i + 1] \in Int
        BY <1>2, <2>1
    <2>4. QED BY <2>1, <2>2, <2>3, WordBit
<1> HIDE DEF f, g, h, a, b, c
<1>4. ASSUME NEW i \in 0..62 PROVE c[i + 1] = ((f[i + 1] % 2) + (g[i + 1] % 2) + c[i]) \div 2
    <2>1. i \in 0..63 /\ i + 1 \in 0..63
        OBVIOUS
    <2>2. i + 1 \in Carries(a, b) <=> \/ i \in a /\ i \in b
                                      \/ (i \in a \/ i \in b) /\ i \in Carries(a, b)
        BY <1>1, CarryNext
    <2> DEFINE p == f[i + 1] % 2  q == g[i + 1] % 2  d == c[i]  e == c[i + 1]
    <2>3. /\ p \in 0..1 /\ q \in 0..1 /\ d \in 0..1 /\ e \in 0..1
          /\ e = 1 <=> (p = 1 /\ q = 1) \/ ((p = 1 \/ q = 1) /\ d = 1)
        <3>1. (i \in a <=> p = 1) /\ (i \in b <=> q = 1) /\ (i \in Carries(a, b) <=> d = 1)
              /\ (i + 1 \in Carries(a, b) <=> e = 1)
            BY <1>3, <2>1, Zenon
        <3>2. f[i + 1] \in Int /\ g[i + 1] \in Int /\ d \in 0..1 /\ e \in 0..1
            BY <1>3, <2>1, Zenon
        <3>3. p \in 0..1 /\ q \in 0..1
            BY <3>2
        <3> HIDE DEF p, q, d, e
        <3>4. QED BY <2>2, <3>1, <3>2, <3>3
    <2> HIDE DEF p, q, d, e
    <2>4. e = (p + q + d) \div 2
        BY <2>3
    <2> USE DEF p, q, d, e
    <2>5. QED BY <2>4
<1>5. 0 \in S
    <2>1. c[0] \in 0..1 /\ c[0] # 1
        BY <1>1, <1>3, CarryNext
    <2>2. QED BY <1>2, <2>1
<1>6. ASSUME NEW i \in Nat, i \in S PROVE i + 1 \in S
    <2>1. CASE i + 1 <= 63
        <3>1. i \in 0..62 /\ i \in 0..63 /\ i + 1 \in 1..64 /\ i + 1 \in 0..63
            BY <2>1
        <3> DEFINE p == f[i + 1]  q == g[i + 1]  d == c[i]
        <3>2. p \in Int /\ q \in Int /\ d \in 0..1 /\ h[i + 1] = p + q + d
            BY <1>3, <1>6, <3>1
        <3>3. /\ f[(i + 1) + 1] = p \div 2 /\ g[(i + 1) + 1] = q \div 2
              /\ h[(i + 1) + 1] = h[i + 1] \div 2 /\ c[i + 1] = ((p % 2) + (q % 2) + d) \div 2
            BY <1>2, <1>4, <3>1
        <3> HIDE DEF p, q, d
        <3>4. (p + q + d) \div 2 = (p \div 2) + (q \div 2) + (((p % 2) + (q % 2) + d) \div 2)
            <4> DEFINE u == p \div 2  v == q \div 2  r == (p % 2) + (q % 2) + d
            <4>0. p = 2 * (p \div 2) + (p % 2) /\ q = 2 * (q \div 2) + (q % 2)
                  /\ p \div 2 \in Int /\ q \div 2 \in Int /\ p % 2 \in Int /\ q % 2 \in Int
                BY <3>2
            <4>1. u \in Int /\ v \in Int /\ r \in Int /\ p + q + d = 2 * (u + v) + r
                <5> DEFINE bit == p % 2  z == q % 2
                <5>1. /\ u \in Int /\ v \in Int /\ bit \in Int /\ z \in Int /\ d \in Int
                      /\ p = 2 * u + bit /\ q = 2 * v + z /\ r = bit + z + d
                    BY <3>2, <4>0
                <5> HIDE DEF u, v, bit, z, r
                <5>2. QED BY <5>1
            <4> HIDE DEF u, v, r
            <4>2. (2 * (u + v) + r) \div 2 = u + v + (r \div 2)
                BY <4>1
            <4>3. QED BY <4>1, <4>2 DEF u, v, r
        <3>5. h[(i + 1) + 1] = f[(i + 1) + 1] + g[(i + 1) + 1] + c[i + 1]
            BY <3>2, <3>3, <3>4
        <3>6. QED BY <3>5
    <2>2. CASE ~ (i + 1 <= 63)
        BY <2>2
    <2>3. QED BY <2>1, <2>2
<1>7. ASSUME NEW i \in 0..63 PROVE i \in ToWord(x + y) <=> i \in Plus(a, b)
    <2>1. i \in S
        <3> HIDE DEF S
        <3>1. Nat \subseteq S
            BY <1>5, <1>6, SetInduction
        <3>2. QED BY <3>1
    <2>2. h[i + 1] = f[i + 1] + g[i + 1] + c[i]
        BY <2>1
    <2>3. i \in Plus(a, b) <=> ((i \in a <=> i \in b) <=> i \in Carries(a, b))
        BY <1>1, PlusBit
    <2> DEFINE p == f[i + 1]  q == g[i + 1]  d == c[i]
    <2>4. /\ p \in Int /\ q \in Int /\ d \in 0..1 /\ h[i + 1] = p + q + d
          /\ i \in a <=> p % 2 = 1
          /\ i \in b <=> q % 2 = 1
          /\ i \in Carries(a, b) <=> d = 1
          /\ i \in ToWord(x + y) <=> h[i + 1] % 2 = 1
        BY <1>3, <2>2
    <2> HIDE DEF p, q, d
    <2>5. (p + q + d) % 2 = 1 <=> ((p % 2 = 1 <=> q % 2 = 1) <=> d = 1)
        BY <2>4
    <2>6. QED BY <2>3, <2>4, <2>5
<1>8. QED BY <1>1, <1>7 DEF a, b, Word, WordBits

\* What is added can be told from the sum.
LEMMA PlusCancels ==
    ASSUME NEW a \in Word, NEW x \in Word, NEW y \in Word, Plus(a, x) = Plus(a, y)
    PROVE  x = y
<1> DEFINE c == Carries(a, x)  d == Carries(a, y)
           S == {i \in Nat : i <= 63 => (i \in x <=> i \in y) /\ (i \in c <=> i \in d)}
<1>1. /\ 0 \notin c /\ 0 \notin d
      /\ \A k \in 0..62 : /\ k + 1 \in c <=> (k \in a /\ k \in x) \/ ((k \in a \/ k \in x) /\ k \in c)
                          /\ k + 1 \in d <=> (k \in a /\ k \in y) \/ ((k \in a \/ k \in y) /\ k \in d)
    BY CarryNext
<1>2. ASSUME NEW k \in 0..63, k \in c <=> k \in d PROVE k \in x <=> k \in y
    <2>1. k \in Plus(a, x) <=> ((k \in a <=> k \in x) <=> k \in c)
        BY PlusBit
    <2>2. k \in Plus(a, y) <=> ((k \in a <=> k \in y) <=> k \in d)
        BY PlusBit
    <2>3. QED BY <1>2, <2>1, <2>2
<1> HIDE DEF c, d
<1>3. 0 \in S
    BY <1>1, <1>2
<1>4. ASSUME NEW i \in Nat, i \in S PROVE i + 1 \in S
    <2>1. CASE i + 1 <= 63
        <3>1. i \in 0..62 /\ i + 1 \in 0..63 /\ (i \in x <=> i \in y) /\ (i \in c <=> i \in d)
            BY <1>4, <2>1
        <3>2. i + 1 \in c <=> i + 1 \in d
            BY <1>1, <3>1
        <3>3. QED BY <1>2, <3>1, <3>2
    <2>2. CASE ~ (i + 1 <= 63)
        BY <2>2
    <2>3. QED BY <2>1, <2>2
<1>5. Nat \subseteq S
    <2> HIDE DEF S
    <2>1. QED BY <1>3, <1>4, SetInduction
<1>6. \A k \in 0..63 : k \in x <=> k \in y
    <2> TAKE k \in 0..63
    <2>1. k \in S
        BY <1>5
    <2>2. QED BY <2>1
<1>7. QED BY <1>6 DEF Word, WordBits

\* The unsigned number of a word has that word.
LEMMA MagnitudeOf ==
    ASSUME NEW w \in Word
    PROVE  Magnitude(w) \in Nat /\ ToWord(Magnitude(w)) = w
<1> DEFINE bit(i) == IF 64 - i \in w THEN 1 ELSE 0
           s == [i \in 1..64 |-> [n \in Nat |-> 2 * n + bit(i)]]
           m == Before(64, 0, s)
           n == m[65]
           h == Halves(n)
           S == {i \in Nat : i <= 64 => h[i + 1] = m[65 - i]}
<1>1. m \in [1..65 -> Nat] /\ \A i \in 1..64 : m[i + 1] = 2 * m[i] + bit(i)
    <2>1. 0 \in Nat /\ \A i \in 1..64 : \A a \in Nat : s[i][a] = 2 * a + bit(i) /\ s[i][a] \in Nat
        OBVIOUS
    <2> HIDE DEF s
    <2>2. Runs(64, Nat, 0, s, m)
        BY <2>1, BeforeIs
    <2> HIDE DEF m
    <2>3. 64 + 1 = 65
        OBVIOUS
    <2>4. m \in [1..65 -> Nat] /\ \A i \in 1..64 : m[i + 1] = s[i][m[i]]
        BY <2>2, <2>3 DEF Runs
    <2>5. \A i \in 1..64 : m[i] \in Nat
        BY <2>4
    <2>6. QED BY <2>1, <2>4, <2>5
<1>2. Magnitude(w) = n
    BY DEF Magnitude, After
<1> HIDE DEF m
<1>3. n \in Nat
    BY <1>1
<1> HIDE DEF n
<1>4. h[1] = n /\ \A i \in 1..64 : h[i + 1] = h[i] \div 2
    <2>1. n \in Int
        BY <1>3
    <2>2. QED BY <2>1, HalvesAre
<1> HIDE DEF h
<1>5. ASSUME NEW i \in 0..63
      PROVE  /\ m[65 - i] \div 2 = m[65 - (i + 1)]
             /\ m[65 - i] % 2 = 1 <=> i \in w
    <2>1. 64 - i \in 1..64 /\ (64 - i) + 1 = 65 - i /\ 64 - i = 65 - (i + 1) /\ 64 - (64 - i) = i
        OBVIOUS
    <2>2. m[65 - i] = 2 * m[64 - i] + bit(64 - i) /\ m[64 - i] \in Nat
        BY <1>1, <2>1
    <2>3. bit(64 - i) \in 0..1 /\ (bit(64 - i) = 1 <=> i \in w)
        BY <2>1
    <2> HIDE DEF bit
    <2>4. QED BY <2>1, <2>2, <2>3
<1>6. 0 \in S
    BY <1>4 DEF n
<1>7. ASSUME NEW i \in Nat, i \in S PROVE i + 1 \in S
    <2>1. CASE i + 1 <= 64
        <3>1. i \in 0..63 /\ i + 1 \in 1..64 /\ h[i + 1] = m[65 - i]
            BY <1>7, <2>1
        <3>2. h[(i + 1) + 1] = h[i + 1] \div 2 /\ m[65 - i] \div 2 = m[65 - (i + 1)]
            BY <1>4, <1>5, <3>1
        <3>3. QED BY <3>1, <3>2
    <2>2. CASE ~ (i + 1 <= 64)
        BY <2>2
    <2>3. QED BY <2>1, <2>2
<1>8. ASSUME NEW i \in 0..63 PROVE i \in ToWord(n) <=> i \in w
    <2>1. i \in S
        <3> HIDE DEF S
        <3>1. Nat \subseteq S
            BY <1>6, <1>7, SetInduction
        <3>2. QED BY <3>1
    <2>2. h[i + 1] = m[65 - i] /\ n \in Int
        BY <1>3, <2>1
    <2>3. i \in ToWord(n) <=> h[i + 1] % 2 = 1
        BY <2>2, WordBit DEF h
    <2>4. QED BY <1>5, <2>2, <2>3
<1>9. ToWord(n) \subseteq WordBits
    BY DEF ToWord
<1>10. QED BY <1>2, <1>3, <1>8, <1>9 DEF Word, WordBits

\* The number one below the negative has the other bits.
LEMMA Complement ==
    ASSUME NEW n \in Int
    PROVE  ToWord(-n - 1) = WordBits \ ToWord(n)
<1> DEFINE m == -n - 1  g == Halves(m)  h == Halves(n)
           S == {i \in Nat : i <= 64 => g[i + 1] = -h[i + 1] - 1}
<1>1. m \in Int
    OBVIOUS
<1>2. /\ g[1] = m /\ h[1] = n /\ h \in [1..65 -> Int]
      /\ \A i \in 1..64 : g[i + 1] = g[i] \div 2 /\ h[i + 1] = h[i] \div 2
    BY <1>1, HalvesAre
<1> HIDE DEF g, h
<1>3. 0 \in S
    BY <1>2
<1>4. ASSUME NEW i \in Nat, i \in S PROVE i + 1 \in S
    <2>1. CASE i + 1 <= 64
        <3>1. i + 1 \in 1..64 /\ g[i + 1] = -h[i + 1] - 1 /\ h[i + 1] \in Int
            BY <1>2, <1>4, <2>1
        <3>2. g[(i + 1) + 1] = g[i + 1] \div 2 /\ h[(i + 1) + 1] = h[i + 1] \div 2
            BY <1>2, <3>1
        <3> DEFINE x == h[i + 1]
        <3> HIDE DEF x
        <3>3. x \in Int /\ g[i + 1] = -x - 1
            BY <3>1 DEF x
        <3>4. (-x - 1) \div 2 = -(x \div 2) - 1
            BY <3>3
        <3>5. QED BY <3>2, <3>3, <3>4 DEF x
    <2>2. CASE ~ (i + 1 <= 64)
        BY <2>2
    <2>3. QED BY <2>1, <2>2
<1>5. ASSUME NEW i \in 0..63 PROVE i \in ToWord(m) <=> i \notin ToWord(n)
    <2>1. i \in S
        <3> HIDE DEF S
        <3>1. Nat \subseteq S
            BY <1>3, <1>4, SetInduction
        <3>2. QED BY <3>1
    <2>2. g[i + 1] = -h[i + 1] - 1 /\ h[i + 1] \in Int
        BY <1>2, <2>1
    <2>3. (i \in ToWord(m) <=> g[i + 1] % 2 = 1) /\ (i \in ToWord(n) <=> h[i + 1] % 2 = 1)
        BY <1>1, WordBit DEF g, h
    <2>4. (-h[i + 1] - 1) % 2 = 1 <=> h[i + 1] % 2 # 1
        BY <2>2
    <2>5. QED BY <2>2, <2>3, <2>4
<1>6. ToWord(m) \subseteq WordBits /\ ToWord(n) \subseteq WordBits
    BY DEF ToWord
<1> HIDE DEF m
<1>7. ToWord(m) = WordBits \ ToWord(n)
    BY <1>5, <1>6 DEF WordBits
<1>8. QED BY <1>7 DEF m

LEMMA ZeroAndOne == ToWord(0) = {} /\ ToWord(1) = {0}
<1>1. Pow2(0) = 1 /\ Pow2(0 + 1) = 2 * Pow2(0)
    BY Doubling
<1>2. Pow2(1) = 2
    BY <1>1
<1>3. \A b \in 0..63 : b \notin ToWord(0)
    BY <1>1, SmallWord
<1>4. \A b \in 1..63 : b \notin ToWord(1)
    BY <1>2, SmallWord
<1>5. 0 \in ToWord(1)
    <2>1. Halves(1)[0 + 1] = 1
        BY HalvesAre
    <2>2. QED BY <2>1, WordBit
<1>6. ToWord(0) \subseteq 0..63 /\ ToWord(1) \subseteq 0..63
    BY DEF ToWord, WordBits
<1>7. QED BY <1>3, <1>4, <1>5, <1>6

LEMMA DifferenceOfWords ==
    ASSUME NEW x \in Int, NEW y \in Int
    PROVE  /\ ToWord(-y) = Negative(ToWord(y))
           /\ ToWord(x - y) = Minus(ToWord(x), ToWord(y))
<1>1. ToWord((-y - 1) + 1) = Plus(ToWord(-y - 1), ToWord(1))
    <2>1. -y - 1 \in Int /\ 1 \in Int
        OBVIOUS
    <2>2. QED BY <2>1, SumOfWords
<1>2. (-y - 1) + 1 = -y
    OBVIOUS
<1>3. ToWord(-y) = Negative(ToWord(y))
    BY <1>1, <1>2, Complement, ZeroAndOne DEF Negative
<1>4. ToWord(x + (-y)) = Plus(ToWord(x), ToWord(-y))
    <2>1. -y \in Int
        OBVIOUS
    <2>2. QED BY <2>1, SumOfWords
<1>5. x + (-y) = x - y
    OBVIOUS
<1>6. QED BY <1>3, <1>4, <1>5 DEF Minus

\* The signed number of a word has that word.
LEMMA WordOfInt ==
    ASSUME NEW w \in Word
    PROVE  IntOf(w) \in Int /\ ToWord(IntOf(w)) = w
<1>1. CASE 63 \notin w
    BY <1>1, MagnitudeOf DEF IntOf
<1>2. CASE 63 \in w
    <2> DEFINE m == Magnitude(w)  v == Negative(w)  k == Magnitude(v)
    <2>1. m \in Int /\ ToWord(m) = w
        BY MagnitudeOf
    <2> HIDE DEF m
    <2>2. v = ToWord(-m) /\ v \in Word
        <3>1. ToWord(-m) = Negative(ToWord(m))
            BY <2>1, DifferenceOfWords
        <3>2. ToWord(-m) \in Word
            BY DEF ToWord, Word
        <3>3. QED BY <2>1, <3>1, <3>2
    <2>3. k \in Int /\ ToWord(k) = v
        BY <2>2, MagnitudeOf
    <2> HIDE DEF v, k
    <2>4. ToWord(-k) = Negative(ToWord(-m)) /\ -m \in Int
        BY <2>1, <2>2, <2>3, DifferenceOfWords
    <2>5. ToWord(-(-m)) = Negative(ToWord(-m)) /\ -(-m) = m
        BY <2>1, <2>4, DifferenceOfWords
    <2>6. IntOf(w) = -k
        BY <1>2 DEF IntOf, k, v
    <2>7. QED BY <2>1, <2>3, <2>4, <2>5, <2>6
<1>3. QED BY <1>1, <1>2

-----------------------------------------------------------------------------
(* Words.                                                                  *)

LEMMA WordOps ==
    ASSUME NEW a \in Word, NEW b \in Word
    PROVE  /\ Plus(a, b) \in Word /\ Negative(a) \in Word /\ Minus(a, b) \in Word
           /\ {} \in Word
<1>1. \A x, y \in Word : Plus(x, y) \in Word
    BY DEF Plus, Xor, Carries, Word
<1>2. \A x \in Word : WordBits \ x \in Word /\ {0} \in Word
    BY DEF Word, WordBits
<1>3. \A x \in Word : Negative(x) \in Word
    BY <1>1, <1>2 DEF Negative
<1>4. {} \in Word
    BY DEF Word
<1>5. QED BY <1>1, <1>3, <1>4 DEF Minus

LEMMA WordParts ==
    /\ \A n : ToWord(n) \in Word
    /\ \A w : Low(w, 8) \in Byte
    /\ \A w, i : ByteOf(w, i) \in Byte
    /\ \A o \in DOMAIN Number : Exact(Number[o]) \in Word /\ Saturated(Number[o]) \in Word
<1>1. \A n : ToWord(n) \in Word
    BY DEF ToWord, Word
<1>2. ASSUME NEW w PROVE Low(w, 8) \in Byte
    <2>1. 8 - 1 = 7
        OBVIOUS
    <2>2. QED BY <2>1 DEF Low, Byte
<1>3. \A w, i : ByteOf(w, i) \in Byte
    BY DEF ByteOf, Byte
<1>4. ASSUME NEW n PROVE Exact(n) \in Word
    <2>1. n.bits \cap WordBits \in Word
        BY DEF Word
    <2>2. QED BY <2>1, WordOps DEF Exact
<1>5. ASSUME NEW n PROVE Saturated(n) \in Word
    <2>1. {63} \in Word /\ 0..62 \in Word
        BY DEF Word, WordBits
    <2>2. QED BY <1>4, <2>1 DEF Saturated
<1>6. QED BY <1>1, <1>2, <1>3, <1>4, <1>5

LEMMA LittleEndianIs ==
    ASSUME NEW w, NEW n \in Nat
    PROVE  LittleEndian(w, n) \in Seq(Byte) /\ Len(LittleEndian(w, n)) = n
<1>1. \A i \in 1..n : ByteOf(w, i - 1) \in Byte
    BY WordParts
<1>2. LittleEndian(w, n) \in [1..n -> Byte]
    BY <1>1 DEF LittleEndian
<1>3. QED BY <1>2

LEMMA IntOfIs ==
    ASSUME NEW w
    PROVE  Magnitude(w) \in Nat /\ IntOf(w) \in Int /\ (63 \notin w => IntOf(w) \in Nat)
<1>1. ASSUME NEW v PROVE Magnitude(v) \in Nat
    <2> DEFINE s == [i \in 1..64 |-> [n \in Nat |-> 2 * n + (IF 64 - i \in v THEN 1 ELSE 0)]]
    <2>1. ASSUME NEW i \in 1..64, NEW n \in Nat PROVE s[i][n] \in Nat
        <3>1. s[i][n] = 2 * n + (IF 64 - i \in v THEN 1 ELSE 0)
            OBVIOUS
        <3>2. 2 * n + 1 \in Nat /\ 2 * n + 0 \in Nat
            OBVIOUS
        <3>3. QED BY <3>1, <3>2
    <2>2. Magnitude(v) = After(64, 0, s)
        BY DEF Magnitude
    <2> HIDE DEF s
    <2>3. 64 \in Nat /\ 0 \in Nat
        OBVIOUS
    <2>4. After(64, 0, s) \in Nat
        BY <2>1, <2>3, AfterIs
    <2>5. QED BY <2>2, <2>4
<1>2. IntOf(w) \in Int
    BY <1>1 DEF IntOf
<1>3. QED BY <1>1, <1>2 DEF IntOf

-----------------------------------------------------------------------------
(* Pieces of texts.                                                        *)

LEMMA Part ==
    ASSUME NEW A, NEW t \in Seq(A), NEW m \in Int, NEW n \in Int, 1 <= m, n <= Len(t)
    PROVE  SubSeq(t, m, n) \in Seq(A)
<1>1. \A i \in m..n : t[i] \in A
    OBVIOUS
<1>2. QED BY <1>1, SubSeqProperties

\* A list whose pieces hold at most a token each.
LEMMA SelectTyped ==
    ASSUME NEW A, NEW n \in Nat, NEW ps, ps = [i \in 1..n |-> ps[i]],
           \A i \in 1..n : ps[i] \in Seq(A)
    PROVE  FlattenSeq(ps) \in Seq(A)
<1>1. ps \in [1..n -> Seq(A)]
    OBVIOUS
<1>2. QED BY <1>1, FlattenTyped

LEMMA FunctionIsList ==
    ASSUME NEW A, NEW n \in Nat, NEW f \in [1..n -> A]
    PROVE  f \in Seq(A) /\ Len(f) = n /\ DOMAIN f = 1..n /\ \A i \in 1..n : f[i] \in A
OBVIOUS

LEMMA SingleTyped ==
    ASSUME NEW A, NEW a \in A
    PROVE  <<a>> \in Seq(A) /\ Len(<<a>>) = 1 /\ <<a>>[1] = a
OBVIOUS

LEMMA EmptyTyped ==
    ASSUME NEW A
    PROVE  <<>> \in Seq(A) /\ Len(<<>>) = 0
OBVIOUS

LEMMA StripTyped ==
    ASSUME NEW t \in Seq(Tokens), NEW from
    PROVE  Strip(t, from) \in Seq(Tokens)
<1> DEFINE state == Before(Len(t), "out",
                      [i \in DOMAIN t |-> [s \in QuoteStates \cup CommentStates |->
                         IF s \in CommentStates THEN NextInBlock(s, t, i)
                         ELSE IF s \in from /\ Opens(t, i) THEN "opened"
                         ELSE NextQuote(s, t[i])]])
           piece(i) == IF state[i] \in CommentStates THEN <<>>
                       ELSE IF state[i] \in from /\ Opens(t, i) THEN <<" ">>
                       ELSE <<t[i]>>
<1> HIDE DEF state
<1>1. ASSUME NEW i \in 1..Len(t) PROVE piece(i) \in Seq(Tokens)
    <2>1. t[i] \in Tokens
        OBVIOUS
    <2>2. " " \in Tokens
        BY NameTypes
    <2>3. <<>> \in Seq(Tokens) /\ <<t[i]>> \in Seq(Tokens) /\ <<" ">> \in Seq(Tokens)
        BY <2>1, <2>2, SingleTyped, EmptyTyped
    <2>4. QED BY <2>3
<1>2. Strip(t, from) = FlattenSeq([i \in 1..Len(t) |-> piece(i)])
    <2>1. DOMAIN t = 1..Len(t)
        OBVIOUS
    <2>2. QED BY <2>1 DEF Strip, state
<1> HIDE DEF piece
<1>3. [i \in 1..Len(t) |-> piece(i)] \in [1..Len(t) -> Seq(Tokens)] /\ Len(t) \in Nat
    BY <1>1
<1>4. QED BY <1>2, <1>3, FlattenTyped

LEMMA TrimTyped ==
    ASSUME NEW t \in Seq(Tokens)
    PROVE  Trim(t) \in Seq(Tokens)
<1> DEFINE ink == {i \in DOMAIN t : t[i] \notin Space}
<1>1. CASE ink = {}
    BY <1>1 DEF Trim
<1>2. CASE ink # {}
    <2>1. ink \in SUBSET Nat /\ ink \in SUBSET (0..Len(t)) /\ Len(t) \in Nat
        OBVIOUS
    <2>2. ink \subseteq 1..Len(t)
        OBVIOUS
    <2>2a. Trim(t) = SubSeq(t, Min(ink), Max(ink))
        BY <1>2, Zenon DEF Trim
    <2> HIDE DEF ink
    <2>3. Min(ink) \in ink /\ Max(ink) \in ink
        BY <1>2, <2>1, MinIs, MaxIs
    <2>4. Min(ink) \in Int /\ Max(ink) \in Int /\ 1 <= Min(ink) /\ Max(ink) <= Len(t)
        <3>1. Min(ink) \in 1..Len(t) /\ Max(ink) \in 1..Len(t) /\ Len(t) \in Nat
            BY <2>1, <2>2, <2>3
        <3>2. QED BY <3>1
    <2>5. QED BY <2>2a, <2>4, Part
<1>3. QED BY <1>1, <1>2

LEMMA StripCommentTyped ==
    ASSUME NEW t \in Seq(Tokens)
    PROVE  StripComment(t) \in Seq(Tokens)
<1> DEFINE starts == {i \in DOMAIN t : Quoting(t)[i] = "out" /\ StartsLineComment(t, i)}
<1>1. CASE starts = {}
    BY <1>1 DEF StripComment
<1>2. CASE starts # {}
    <2>1. starts \in SUBSET Nat /\ starts \subseteq 1..Len(t)
        OBVIOUS
    <2>2. StripComment(t) = SubSeq(t, 1, Min(starts) - 1)
        BY <1>2 DEF StripComment
    <2> HIDE DEF starts
    <2>3. Min(starts) \in starts
        BY <1>2, <2>1, MinIs
    <2>4. 1 \in Int /\ Min(starts) - 1 \in Int /\ 1 <= 1 /\ Min(starts) - 1 <= Len(t)
        <3>1. Min(starts) \in 1..Len(t)
            BY <2>1, <2>3, Zenon
        <3>2. Len(t) \in Nat
            OBVIOUS
        <3>3. QED BY <3>1, <3>2
    <2>5. QED BY <2>2, <2>4, Part
<1>3. QED BY <1>1, <1>2

LEMMA PiecesTyped ==
    ASSUME NEW t \in Seq(Tokens), NEW cuts \in SUBSET (1..Len(t))
    PROVE  Pieces(t, cuts) \in Seq(Seq(Tokens))
<1> DEFINE prior(end) == {0} \cup {c \in cuts : c < end}
           piece(end) == IF end \in cuts \cup {Len(t) + 1}
                         THEN <<SubSeq(t, Max(prior(end)) + 1, end - 1)>> ELSE <<>>
<1>1. ASSUME NEW end \in 1..(Len(t) + 1) PROVE piece(end) \in Seq(Seq(Tokens))
    <2>0. Len(t) \in Nat /\ 0 \in 0..Len(t) /\ \A c \in cuts : c \in 0..Len(t)
        OBVIOUS
    <2>1. prior(end) \in SUBSET (0..Len(t)) /\ prior(end) # {} /\ Len(t) \in Nat
        <3>1. \A c \in prior(end) : c = 0 \/ c \in cuts
            OBVIOUS
        <3>2. 0 \in prior(end)
            OBVIOUS
        <3> HIDE DEF prior
        <3>3. QED BY <2>0, <3>1, <3>2
    <2>2. Max(prior(end)) \in 0..Len(t)
        <3> HIDE DEF prior
        <3>1. Max(prior(end)) \in prior(end)
            BY <2>1, MaxIs
        <3>2. QED BY <2>1, <3>1
    <2> HIDE DEF prior
    <2>3. SubSeq(t, Max(prior(end)) + 1, end - 1) \in Seq(Tokens)
        BY <2>2, Part
    <2>4. QED BY <2>3, SingleTyped, EmptyTyped
<1>2. Pieces(t, cuts) = FlattenSeq([end \in 1..(Len(t) + 1) |-> piece(end)])
    BY DEF Pieces
<1> HIDE DEF piece
<1>3. [end \in 1..(Len(t) + 1) |-> piece(end)] \in [1..(Len(t) + 1) -> Seq(Seq(Tokens))]
      /\ Len(t) + 1 \in Nat
    BY <1>1
<1>4. QED BY <1>2, <1>3, FlattenTyped

LEMMA CommasTyped ==
    ASSUME NEW t \in Seq(Tokens)
    PROVE  Commas(t) \in Seq(Seq(Tokens)) /\ SplitOperands(t) \in Seq(Seq(Tokens))
<1> DEFINE p == Pieces(t, {i \in DOMAIN t : t[i] = ","})
<1>1. p \in Seq(Seq(Tokens))
    <2>1. DOMAIN t = 1..Len(t)
        OBVIOUS
    <2>2. {i \in DOMAIN t : t[i] = ","} \in SUBSET (1..Len(t))
        BY <2>1
    <2>3. QED BY <2>2, PiecesTyped
<1>2. Commas(t) = [k \in DOMAIN p |-> Trim(p[k])]
    BY DEF Commas
<1> HIDE DEF p
<1>3. \A k \in DOMAIN p : Trim(p[k]) \in Seq(Tokens)
    BY <1>1, TrimTyped
<1>4. Commas(t) \in Seq(Seq(Tokens))
    <2>1. Commas(t) \in [1..Len(p) -> Seq(Tokens)] /\ Len(p) \in Nat
        BY <1>1, <1>2, <1>3
    <2>2. QED BY <2>1
<1>5. Front(Commas(t)) \in Seq(Seq(Tokens))
    <2> DEFINE c == Commas(t)
    <2>1. c \in Seq(Seq(Tokens))
        BY <1>4
    <2> HIDE DEF c
    <2>2. 1 \in Int /\ Len(c) - 1 \in Int /\ 1 <= 1 /\ Len(c) - 1 <= Len(c)
        BY <2>1
    <2>3. SubSeq(c, 1, Len(c) - 1) \in Seq(Seq(Tokens))
        BY <2>1, <2>2, Part
    <2>4. QED BY <2>3 DEF Front, c
<1>6. QED BY <1>4, <1>5 DEF SplitOperands

LEMMA StatementsTyped ==
    ASSUME NEW t \in Seq(Tokens)
    PROVE  SplitStatements(StripBlockComments(t)) \in Seq(Seq(Tokens))
<1>1. StripBlockComments(t) \in Seq(Tokens)
    BY StripTyped DEF StripBlockComments
<1>2. \A s \in Seq(Tokens) : SplitStatements(s) \in Seq(Seq(Tokens))
    <2> SUFFICES ASSUME NEW s \in Seq(Tokens)
                 PROVE  SplitStatements(s) \in Seq(Seq(Tokens))
        OBVIOUS
    <2>0. DOMAIN s = 1..Len(s)
        OBVIOUS
    <2>1. {i \in DOMAIN s : Quoting(s)[i] = "out" /\ s[i] \in {Newline, ";"}}
             \in SUBSET (1..Len(s))
        BY <2>0
    <2>2. QED BY <2>1, PiecesTyped DEF SplitStatements
<1>3. QED BY <1>1, <1>2

LEMMA InkedTyped ==
    ASSUME NEW A, NEW s \in Seq(Seq(A))
    PROVE  Inked(s) \in Seq(Seq(A))
<1> DEFINE piece(k) == IF s[k] = <<>> THEN <<>> ELSE <<s[k]>>
<1>1. ASSUME NEW k \in 1..Len(s) PROVE piece(k) \in Seq(Seq(A))
    BY SingleTyped, EmptyTyped
<1>2. Inked(s) = FlattenSeq([k \in 1..Len(s) |-> piece(k)])
    <2>1. DOMAIN s = 1..Len(s)
        OBVIOUS
    <2>2. QED BY <2>1 DEF Inked
<1> HIDE DEF piece
<1>3. [k \in 1..Len(s) |-> piece(k)] \in [1..Len(s) -> Seq(Seq(A))] /\ Len(s) \in Nat
    BY <1>1
<1>4. QED BY <1>2, <1>3, FlattenTyped

-----------------------------------------------------------------------------
(* The types of the variables.                                             *)

SymVals == Symbols \cup {NoSym}
Terms   == [sym : SymVals, sub : SymVals, add : Word]
FixForms == InsnForms \cup DataForms \cup {"64"}
Fixups == [frag : Nat, where : Nat, form : FixForms, sym : SymVals, sub : SymVals, add : Word]
SymbolRecords == [seg : {"text", "absolute", "alias"}, frag : Nat, off : Int, val : Word,
                  of : SymVals, set : BOOLEAN]
FragRecords == [type : FragTypes, lit : Seq(Byte), fill : Byte, var : {0, 1}, off : Int,
                sub : Nat, sym : SymVals, op : Tokens \cup {""}]
Widths == {1, 2, 4, 8}
Items ==
    [kind : {"bytes"}, bytes : Seq(Byte)] \cup [kind : {"data"}, width : Widths, term : Terms]
    \cup [kind : {"insn"}, op : DOMAIN Insns \ Simple, term : Terms, frag : Nat]
    \cup [kind : {"org"}, to : Nat, fill : Byte]
    \cup [kind : {"align"}, p2 : Nat, fill : Byte, max : Nat]
    \cup [kind : {"label"}, sym : Symbols]
    \cup [kind : {"fault"}, class : {"gas", "directive", "section"}]
    \cup [kind : {"equ"}, sym : Symbols, term : Terms]

SymsTyped == /\ DOMAIN syms \in SUBSET Symbols /\ IsFiniteSet(DOMAIN syms)
             /\ syms \in [DOMAIN syms -> SymbolRecords]
             /\ locals \in [Locals -> Nat]

-----------------------------------------------------------------------------
(* Symbols and expressions.                                                *)

LEMMA SymbolsTyped ==
    /\ \A t \in Tokens : Sym(t) \in Symbols
    /\ NoSym \notin Symbols /\ NoSym \in SymVals
    /\ locals \in [Locals -> Nat] => \A t \in NameTokens : SymOf(t) \in Symbols
<1>1. \A t \in Tokens : Sym(t) \in Symbols
    BY DEF Sym, Symbols
<1>2. NoSym \notin Symbols /\ NoSym \in SymVals
    BY NameTypes DEF NoSym, Symbols, SymVals
<1>3. ASSUME locals \in [Locals -> Nat], NEW t \in NameTokens PROVE SymOf(t) \in Symbols
    <2>1. CASE t \in DOMAIN LocalRef
        <3>1. LocalRef[t] \in Locals \X Nat
            BY <2>1, NameTypes
        <3>2. LocalRef[t][1] \in Locals /\ LocalRef[t][2] \in Nat
            BY <3>1
        <3>3. locals[LocalRef[t][1]] + LocalRef[t][2] \in Nat
            BY <1>3, <3>2
        <3>4. QED BY <2>1, <3>2, <3>3 DEF SymOf, Symbols
    <2>2. CASE t \notin DOMAIN LocalRef
        <3>1. t \in Tokens
            BY <2>2, NameTypes DEF NameTokens
        <3>2. QED BY <1>1, <2>2, <3>1 DEF SymOf
    <2>3. QED BY <2>1, <2>2
<1>4. QED BY <1>1, <1>2, <1>3

LEMMA AddendTyped ==
    ASSUME NEW o, IsRef(o)
    PROVE  Addend(o) \in Word
<1>1. CASE Len(o) # 3
    BY <1>1 DEF Addend, Word
<1>2. CASE Len(o) = 3
    <2>1. o[2] \in {"+", "-"} /\ o[3] \in DOMAIN Number
        BY <1>2 DEF IsRef
    <2>2. Exact(Number[o[3]]) \in Word /\ Negative(Exact(Number[o[3]])) \in Word
        BY <2>1, WordParts, WordOps
    <2>3. QED BY <1>2, <2>1, <2>2 DEF Addend
<1>3. QED BY <1>1, <1>2

LEMMA ConstantTyped ==
    ASSUME NEW w \in Word
    PROVE  Constant(w) \in Terms /\ Constant(w).sym = NoSym /\ Constant(w).add = w
BY SymbolsTyped DEF Constant, Term, Terms

LEMMA ExpressionTyped ==
    ASSUME SymsTyped, NEW o \in Seq(Tokens), IsExpression(o)
    PROVE  Expression(o) \in Terms
<1>1. CASE o = <<>>
    <2>1. {} \in Word
        BY DEF Word
    <2>2. ~ IsNumber(o) /\ ~ IsRef(o) /\ ~ IsDifference(o)
        BY <1>1 DEF IsNumber, IsRef, IsDifference, IsName
    <2>3. Expression(o) = Constant({})
        BY <1>1, <2>2 DEF Expression
    <2>4. QED BY <2>1, <2>3, ConstantTyped
<1>2. ASSUME o # <<>>, IsNumber(o)
      PROVE  Constant(Exact(Number[o[1]])) \in Terms
    <2>1. Exact(Number[o[1]]) \in Word
        BY <1>2, WordParts DEF IsNumber
    <2>2. QED BY <2>1, ConstantTyped
<1>3. ASSUME IsRef(o)
      PROVE  (IF IsAbsolute(SymOf(o[1]))
              THEN Constant(Plus(syms[SymOf(o[1])].val, Addend(o)))
              ELSE Term(SymOf(o[1]), NoSym, Addend(o))) \in Terms
    <2>1. SymOf(o[1]) \in Symbols /\ Addend(o) \in Word
        BY <1>3, SymbolsTyped, AddendTyped DEF IsRef, IsName, SymsTyped
    <2>2. CASE IsAbsolute(SymOf(o[1]))
        <3>1. syms[SymOf(o[1])] \in SymbolRecords
            BY <2>2 DEF IsAbsolute, SymsTyped
        <3>2. syms[SymOf(o[1])].val \in Word
            BY <3>1 DEF SymbolRecords
        <3>3. Plus(syms[SymOf(o[1])].val, Addend(o)) \in Word
            BY <2>1, <3>2, WordOps
        <3>4. QED BY <2>2, <3>3, ConstantTyped
    <2>3. CASE ~ IsAbsolute(SymOf(o[1]))
        BY <2>1, <2>3, SymbolsTyped DEF Term, Terms, SymVals
    <2>4. QED BY <2>2, <2>3
<1>4. ASSUME IsDifference(o)
      PROVE  (IF Folds(SymOf(o[1]), SymOf(o[3]))
              THEN Constant(ToWord(syms[SymOf(o[1])].off - syms[SymOf(o[3])].off))
              ELSE Term(SymOf(o[1]), SymOf(o[3]), {})) \in Terms
    <2>1. SymOf(o[1]) \in Symbols /\ SymOf(o[3]) \in Symbols
        BY <1>4, SymbolsTyped DEF IsDifference, IsName, SymsTyped
    <2>2. ToWord(syms[SymOf(o[1])].off - syms[SymOf(o[3])].off) \in Word /\ {} \in Word
        BY WordParts DEF Word
    <2>3. Constant(ToWord(syms[SymOf(o[1])].off - syms[SymOf(o[3])].off)) \in Terms
        BY <2>2, ConstantTyped
    <2>4. Term(SymOf(o[1]), SymOf(o[3]), {}) \in Terms
        BY <2>1, <2>2 DEF Term, Terms, SymVals
    <2>5. QED BY <2>3, <2>4
<1>5. CASE o # <<>>
    BY <1>2, <1>3, <1>4, <1>5 DEF Expression, IsExpression
<1>6. QED BY <1>1, <1>5

-----------------------------------------------------------------------------
(* The frags while the text is read.                                       *)

\* A machine frag: its opcode bytes, and a state of its branch.
MachineOK(f) == f.type = "machine" => /\ f.op \in Branches /\ Len(f.lit) >= OpcodeBytes
                                      /\ f.sub \in DOMAIN Insns[f.op].opcode
PaddingOK(f) == f.type \in {"align", "org"} => f.off \in Nat
FragOK(f) == f \in FragRecords /\ MachineOK(f) /\ PaddingOK(f)

LEMMA NewFragTyped ==
    \A type \in FragTypes \ {"machine", "align", "org"} : FragOK(NewFrag(type))
<1> SUFFICES ASSUME NEW type \in FragTypes \ {"machine", "align", "org"}
             PROVE  FragOK(NewFrag(type))
    OBVIOUS
<1>1. <<>> \in Seq(Byte) /\ {} \in Byte
    BY DEF Byte
<1>2. <<"", 0>> \in SymVals
    BY SymbolsTyped DEF NoSym
<1>3. NewFrag(type) \in FragRecords
    <2> DEFINE e == <<>>  z == {}  s == <<"", 0>>
    <2>1. e \in Seq(Byte) /\ z \in Byte /\ s \in SymVals /\ type \in FragTypes
        BY <1>1, <1>2
    <2> HIDE DEF e, z, s
    <2>2. [type |-> type, lit |-> e, fill |-> z, var |-> 0, off |-> 0, sub |-> 0,
           sym |-> s, op |-> ""] \in FragRecords
        BY <2>1 DEF FragRecords
    <2>3. QED BY <2>2 DEF NewFrag, e, z, s
<1>4. NewFrag(type).type = type
    BY DEF NewFrag
<1>5. QED BY <1>3, <1>4 DEF FragOK, MachineOK, PaddingOK

FragsOK(fs) == fs \in Seq(FragRecords) /\ Len(fs) > 0 /\ \A i \in 1..Len(fs) : FragOK(fs[i])

LEMMA LastFrag ==
    ASSUME NEW fs, FragsOK(fs)
    PROVE  Last(fs) = fs[Len(fs)] /\ FragOK(Last(fs)) /\ Len(fs) \in 1..Len(fs)
BY DEF FragsOK, Last

LEMMA FragMoreTyped ==
    ASSUME NEW fs, FragsOK(fs), NEW b \in Seq(Byte), Last(fs).type # "machine"
    PROVE  /\ FragsOK(FragMore(fs, b)) /\ Len(FragMore(fs, b)) = Len(fs)
           /\ \A i \in 1..Len(fs) - 1 : FragMore(fs, b)[i] = fs[i]
           /\ Last(FragMore(fs, b)) = [Last(fs) EXCEPT !.lit = @ \o b]
<1> DEFINE f == Last(fs)  g == [f EXCEPT !.lit = @ \o b]  n == Len(fs)
<1>1. f = fs[n] /\ FragOK(f) /\ n \in 1..n /\ n \in Nat /\ fs \in Seq(FragRecords)
    BY LastFrag DEF FragsOK
<1>2. FragOK(g)
    <2>1. f \in FragRecords /\ f.lit \in Seq(Byte)
        BY <1>1 DEF FragOK, FragRecords
    <2>2. f.lit \o b \in Seq(Byte)
        BY <2>1, ConcatProperties
    <2>3. g \in FragRecords /\ g.type = f.type /\ g.off = f.off
        BY <2>1, <2>2 DEF FragRecords
    <2>4. QED BY <1>1, <2>3 DEF FragOK, MachineOK, PaddingOK
<1>3. FragMore(fs, b) = [fs EXCEPT ![n] = g]
    BY <1>1 DEF FragMore
<1> HIDE DEF f, g, n
<1>4. [fs EXCEPT ![n] = g] \in Seq(FragRecords) /\ Len([fs EXCEPT ![n] = g]) = n
    BY <1>1, <1>2 DEF n, FragOK
<1>5. /\ [fs EXCEPT ![n] = g][n] = g
      /\ \A i \in 1..n - 1 : [fs EXCEPT ![n] = g][i] = fs[i]
    BY <1>1 DEF n
<1>6. FragsOK([fs EXCEPT ![n] = g])
    BY <1>1, <1>2, <1>4, <1>5 DEF FragsOK, n
<1>7. Last([fs EXCEPT ![n] = g]) = g
    BY <1>4, <1>5 DEF Last
<1>8. QED BY <1>3, <1>4, <1>5, <1>6, <1>7 DEF f, g, n

LEMMA FragVarTyped ==
    ASSUME NEW fs, FragsOK(fs), NEW closed, FragOK(closed)
    PROVE  /\ FragsOK(FragVar(fs, closed)) /\ Len(FragVar(fs, closed)) = Len(fs) + 1
           /\ \A i \in 1..Len(fs) - 1 : FragVar(fs, closed)[i] = fs[i]
           /\ FragVar(fs, closed)[Len(fs)] = closed
           /\ FragVar(fs, closed)[Len(fs) + 1] = NewFrag("unset")
           /\ Last(FragVar(fs, closed)) = NewFrag("unset")
<1> DEFINE n == Len(fs)  g == [fs EXCEPT ![n] = closed]  u == NewFrag("unset")
<1>1. n \in 1..n /\ n \in Nat /\ fs \in Seq(FragRecords) /\ \A i \in 1..n : FragOK(fs[i])
    BY DEF FragsOK
<1>2. FragOK(u) /\ u \in FragRecords
    BY NewFragTyped DEF FragTypes, FragOK
<1>3. g \in Seq(FragRecords) /\ Len(g) = n
    BY <1>1 DEF FragOK
<1>4. g[n] = closed /\ \A i \in 1..n - 1 : g[i] = fs[i]
    BY <1>1
<1>5. FragVar(fs, closed) = Append(g, u)
    BY DEF FragVar
<1> HIDE DEF n, g, u
<1>6. /\ Append(g, u) \in Seq(FragRecords) /\ Len(Append(g, u)) = n + 1
      /\ Append(g, u)[n + 1] = u /\ \A i \in 1..n : Append(g, u)[i] = g[i]
    BY <1>1, <1>2, <1>3, AppendProperties
<1>7. \A i \in 1..n + 1 : FragOK(Append(g, u)[i])
    BY <1>1, <1>2, <1>4, <1>6
<1>8. FragsOK(Append(g, u))
    BY <1>1, <1>6, <1>7 DEF FragsOK
<1>9. Last(Append(g, u)) = u
    BY <1>6 DEF Last
<1>10. QED BY <1>1, <1>4, <1>5, <1>6, <1>8, <1>9 DEF n, u

-----------------------------------------------------------------------------
(* The inductive invariant of the types.                                   *)

Phases == {"reset", "parse", "relax", "relaxing", "fixups", "report", "decode", "done"}
Parsing == phase \in {"reset", "parse"}
SourceOK == /\ todo \in Seq(Seq(Tokens)) /\ line \in Seq(Tokens)
            /\ seen \in Seq(Seq(Tokens))
SymbolsOK == /\ SymsTyped
             /\ \A s \in DOMAIN syms : /\ syms[s].frag \in 0..Len(frags)
                                       /\ syms[s].seg = "text" => syms[s].frag > 0
ChainOK == /\ FragsOK(frags)
           /\ \A i \in 1..Len(frags) - 1 : frags[i].type # "unset"
           /\ Parsing => Last(frags).type \in {"fill", "unset"}
           /\ Parsing \/ phase \in {"relax", "relaxing"} =>
                \A i \in 1..Len(frags) : frags[i].var = 0
FixIn(fx, fs) == fx.frag \in 1..Len(fs) /\ fx.where < FixSize(fs[fx.frag])
FixesOK == /\ fixes \in Seq(Fixups)
           /\ \A k \in 1..Len(fixes) : FixIn(fixes[k], frags)
FlagsOK == /\ errors \in Nat /\ parseErr \in BOOLEAN /\ dirErr \in BOOLEAN
           /\ secViol \in BOOLEAN /\ unsup \in BOOLEAN /\ unresolved \in 0..Len(fixes)
ItemsOK == items \in Seq(Items)
OutputOK == /\ result.bytes \in Seq(Byte) /\ off \in 0..Len(result.bytes)
            /\ phase \notin {"decode", "done"} => off = 0
Types == /\ job \in Jobs /\ phase \in Phases
         /\ SourceOK /\ SymbolsOK /\ ChainOK /\ FixesOK /\ FlagsOK /\ ItemsOK /\ OutputOK

Grows(fs, gs) == /\ Len(gs) >= Len(fs)
                 /\ \A i \in 1..Len(fs) : Len(gs[i].lit) >= Len(fs[i].lit)

LEMMA FixesKept ==
    ASSUME NEW fs, FragsOK(fs), NEW gs, FragsOK(gs), Grows(fs, gs), NEW fx \in Fixups,
           FixIn(fx, fs)
    PROVE  FixIn(fx, gs)
<1>1. fx.frag \in 1..Len(fs) /\ fx.where \in Nat /\ fx.where < Len(fs[fx.frag].lit)
    BY DEF FixIn, FixSize, Fixups
<1>2. fx.frag \in 1..Len(gs) /\ Len(gs[fx.frag].lit) >= Len(fs[fx.frag].lit)
    BY <1>1 DEF Grows, FragsOK
<1>3. Len(gs[fx.frag].lit) \in Nat /\ Len(fs[fx.frag].lit) \in Nat
    <2>1. fs[fx.frag] \in FragRecords /\ gs[fx.frag] \in FragRecords
        BY <1>1, <1>2 DEF FragsOK, FragOK
    <2>2. fs[fx.frag].lit \in Seq(Byte) /\ gs[fx.frag].lit \in Seq(Byte)
        BY <2>1 DEF FragRecords
    <2>3. QED BY <2>2
<1>4. QED BY <1>1, <1>2, <1>3, SMTT(30) DEF FixIn, FixSize

LEMMA SymsKept ==
    ASSUME SymbolsOK, NEW n \in Nat, n >= Len(frags), Len(frags) \in Nat
    PROVE  \A s \in DOMAIN syms : /\ syms[s].frag \in 0..n
                                  /\ syms[s].seg = "text" => syms[s].frag > 0
BY DEF SymbolsOK

-----------------------------------------------------------------------------
(* The operands of the directives.                                         *)

LEMMA ArgsTyped ==
    ASSUME line \in Seq(Tokens)
    PROVE  /\ Args \in Seq(Tokens)
           /\ line # <<>> => line[1] \in Tokens
           /\ \A o \in Seq(Tokens) : o # <<>> => o[1] \in Tokens
<1>1. CASE Len(line) < 3
    BY <1>1, EmptyTyped DEF Args
<1>2. CASE ~ (Len(line) < 3)
    <2>1. SubSeq(line, 3, Len(line)) \in Seq(Tokens)
        BY <1>2, Part
    <2>2. Args = Trim(SubSeq(line, 3, Len(line)))
        BY <1>2 DEF Args
    <2>3. Args \in Seq(Tokens)
        BY <2>1, <2>2, TrimTyped
    <2>4. QED BY <2>3
<1>3. QED BY <1>1, <1>2

LEMMA DatumTyped ==
    ASSUME NEW w \in Widths, NEW e \in Terms
    PROVE  Datum(w, e) \in Items
BY DEF Datum, Items

LEMMA DataTyped ==
    ASSUME SymsTyped, NEW w \in Widths, NEW os \in Seq(Seq(Tokens)),
           \A k \in 1..Len(os) : IsExpression(os[k])
    PROVE  /\ Data(w, os) \in Seq(Items) /\ Len(Data(w, os)) = Len(os)
           /\ \A k \in 1..Len(os) : /\ Data(w, os)[k] = Datum(w, Expression(os[k]))
                                    /\ Expression(os[k]) \in Terms
<1>1. \A k \in 1..Len(os) : Expression(os[k]) \in Terms
    BY ExpressionTyped
<1>2. \A k \in 1..Len(os) : Datum(w, Expression(os[k])) \in Items
    BY <1>1, DatumTyped
<1>3. Data(w, os) = [k \in 1..Len(os) |-> Datum(w, Expression(os[k]))]
    BY DEF Data
<1>4. Data(w, os) \in [1..Len(os) -> Items] /\ Len(os) \in Nat
    BY <1>2, <1>3
<1>5. Data(w, os) \in Seq(Items) /\ Len(Data(w, os)) = Len(os)
    BY <1>4, FunctionIsList
<1>6. \A k \in 1..Len(os) : Data(w, os)[k] = Datum(w, Expression(os[k]))
    BY <1>3
<1>7. QED BY <1>1, <1>5, <1>6

LEMMA DirectiveWidth ==
    ASSUME NEW d \in DataDirectives
    PROVE  DataWidth(d) \in Widths /\ DataWidth(d) \in Nat
BY DEF DataDirectives, DataWidth, Widths

LEMMA IntListTyped ==
    ASSUME NEW args \in Seq(Tokens), AllIntLiterals(args), NEW w \in Widths, SymsTyped
    PROVE  /\ EmitIntList(args, w) \in Seq(Byte)
           /\ Data(w, SplitOperands(args)) \in Seq(Items)
<1>1. SplitOperands(args) \in Seq(Seq(Tokens))
    BY CommasTyped
<1>2. \A k \in 1..Len(SplitOperands(args)) : IsNumber(SplitOperands(args)[k])
    BY <1>1 DEF AllIntLiterals
<1>3. Data(w, SplitOperands(args)) \in Seq(Items)
    BY <1>1, <1>2, DataTyped DEF IsExpression
<1> DEFINE piece(k) == LittleEndian(ParseInt(SplitOperands(args)[k]), w)
           n == Len(SplitOperands(args))
<1>4. n \in Nat /\ w \in Nat
    BY <1>1 DEF Widths
<1>5. \A k \in 1..n : piece(k) \in Seq(Byte)
    BY <1>4, LittleEndianIs
<1>6. EmitIntList(args, w) = FlattenSeq([k \in 1..n |-> piece(k)])
    <2>1. DOMAIN SplitOperands(args) = 1..n
        BY <1>1
    <2>2. QED BY <2>1 DEF EmitIntList
<1> HIDE DEF piece, n
<1>7. [k \in 1..n |-> piece(k)] \in [1..n -> Seq(Byte)]
    BY <1>5
<1>8. QED BY <1>3, <1>4, <1>6, <1>7, FlattenTyped

LEMMA ConsTyped ==
    ASSUME NEW w \in Widths, NEW e
    PROVE  Cons1(w, e) \in Seq(Byte) /\ Len(Cons1(w, e)) = w
<1>1. w \in Nat
    BY DEF Widths
<1>2. QED BY <1>1, LittleEndianIs DEF Cons1

LEMMA AsciiTyped ==
    ASSUME NEW args \in Seq(Tokens), NEW zero
    PROVE  EmitAscii(args, zero).bytes \in Seq(Byte)
<1> DEFINE q == Quoting(args)
           closes(i) == args[i] = Quote /\ q[i] = "in"
           char(i) == IF q[i] = "escaped" THEN <<Unescaped(args[i])>>
                      ELSE IF closes(i)   THEN IF zero THEN <<{}>> ELSE <<>>
                      ELSE IF q[i] = "in" /\ args[i] # Backslash THEN <<Low(Code[args[i]], 8)>>
                      ELSE <<>>
<1>1. EmitAscii(args, zero).bytes = FlattenSeq([i \in DOMAIN args |-> char(i)])
    BY DEF EmitAscii
<1>2. DOMAIN args = 1..Len(args) /\ Len(args) \in Nat
    OBVIOUS
<1>3. ASSUME NEW i \in 1..Len(args) PROVE char(i) \in Seq(Byte)
    <2>1. Unescaped(args[i]) \in Byte
        <3>1. {1, 3} \in Byte /\ {0, 3} \in Byte /\ {0, 2, 3} \in Byte /\ {} \in Byte
            BY DEF Byte
        <3>2. Low(Code[args[i]], 8) \in Byte
            BY WordParts
        <3>3. QED BY <3>1, <3>2 DEF Unescaped
    <2>2. {} \in Byte /\ Low(Code[args[i]], 8) \in Byte
        BY WordParts DEF Byte
    <2> HIDE DEF q
    <2>3. <<Unescaped(args[i])>> \in Seq(Byte) /\ <<{}>> \in Seq(Byte) /\ <<>> \in Seq(Byte)
          /\ <<Low(Code[args[i]], 8)>> \in Seq(Byte)
        BY <2>1, <2>2, SingleTyped, EmptyTyped
    <2>4. QED BY <2>3
<1> HIDE DEF char
<1>4. [i \in 1..Len(args) |-> char(i)] \in [1..Len(args) -> Seq(Byte)]
    BY <1>3
<1>5. QED BY <1>1, <1>2, <1>4, FlattenTyped

LEMMA IntArgsTyped ==
    ASSUME NEW args \in Seq(Tokens), NEW max \in Nat, ParseIntArgs(args, max).ok
    PROVE  /\ ParseIntArgs(args, max).args \in Seq(Word)
           /\ Len(ParseIntArgs(args, max).args) > 0
           /\ ParseIntArgs(args, max).args[1] \in Word
           /\ \A k \in Nat : Arg(ParseIntArgs(args, max).args, k) \in Word
<1> DEFINE o == SplitOperands(args)
           a == [k \in DOMAIN o |-> ParseInt(o[k])]
<1>1. AllIntLiterals(args) /\ Len(o) \in 1..max /\ ParseIntArgs(args, max).args = a
    BY DEF ParseIntArgs, Malformed
<1>2. o \in Seq(Seq(Tokens))
    BY CommasTyped
<1>3. \A k \in DOMAIN o : ParseInt(o[k]) \in Word
    BY <1>1, WordParts DEF AllIntLiterals, IsNumber, ParseInt
<1>4. a \in Seq(Word) /\ Len(a) = Len(o)
    <2>1. a \in [1..Len(o) -> Word] /\ Len(o) \in Nat
        BY <1>2, <1>3
    <2>2. QED BY <2>1
<1>5. {} \in Word
    BY DEF Word
<1> HIDE DEF a, o
<1>6. \A k \in Nat : Arg(a, k) \in Word
    BY <1>4, <1>5 DEF Arg
<1>7. a[1] \in Word /\ Len(a) > 0
    BY <1>1, <1>4
<1>8. QED BY <1>1, <1>4, <1>6, <1>7

-----------------------------------------------------------------------------
(* The statements.                                                         *)

LEMMA ChainStays ==
    ASSUME SymbolsOK, ChainOK, UNCHANGED <<phase, syms, locals, frags>>
    PROVE  SymbolsOK' /\ ChainOK'
<1>1. SymbolsOK'
    BY DEF SymbolsOK, SymsTyped
<1>2. ChainOK'
    BY DEF ChainOK, Parsing
<1>3. QED BY <1>1, <1>2

LEMMA FixesStay ==
    ASSUME FixesOK, UNCHANGED <<frags, fixes>>
    PROVE  FixesOK'
BY DEF FixesOK

LEMMA StatementDone ==
    ASSUME Types, phase = "parse", NEW what \in Seq(Items), Handled(what),
           SymbolsOK', ChainOK', FixesOK', Len(fixes') >= Len(fixes),
           errors' \in Nat, dirErr' \in BOOLEAN, secViol' \in BOOLEAN
    PROVE  Types'
<1>1. /\ line' = <<>> /\ items' = items \o what
      /\ UNCHANGED <<job, phase, todo, seen, parseErr, unsup, unresolved, result, off>>
    BY DEF Handled, outputs
<1>2. SourceOK'
    BY <1>1, EmptyTyped DEF Types, SourceOK
<1>3. ItemsOK'
    BY <1>1, ConcatProperties DEF Types, ItemsOK
<1>4. FlagsOK'
    <2>1. fixes \in Seq(Fixups) /\ fixes' \in Seq(Fixups)
        BY DEF Types, FixesOK
    <2>2. Len(fixes) \in Nat /\ Len(fixes') \in Nat
        BY <2>1
    <2>3. unresolved' \in 0..Len(fixes')
        BY <1>1, <2>2 DEF Types, FlagsOK
    <2>4. QED BY <1>1, <2>3 DEF Types, FlagsOK
<1>5. OutputOK'
    BY <1>1 DEF Types, OutputOK
<1>6. job' \in Jobs /\ phase' \in Phases
    BY <1>1 DEF Types
<1>7. QED BY <1>2, <1>3, <1>4, <1>5, <1>6 DEF Types

LEMMA EmptyItems ==
    /\ <<>> \in Seq(Items)
    /\ \A c \in {"gas", "directive", "section"} :
         <<[kind |-> "fault", class |-> c]>> \in Seq(Items)
    /\ \A b \in Seq(Byte) : <<Bytes(b)>> \in Seq(Items)
<1>1. \A c \in {"gas", "directive", "section"} : [kind |-> "fault", class |-> c] \in Items
    BY DEF Items
<1>2. \A b \in Seq(Byte) : Bytes(b) \in Items
    BY DEF Items, Bytes
<1>3. QED BY <1>1, <1>2, SingleTyped, EmptyTyped

\* A statement that leaves the chain and the symbols alone.
LEMMA PlainTyped ==
    ASSUME Types, phase = "parse", NEW what \in Seq(Items), Handled(what),
           UNCHANGED <<syms, frags, fixes>>,
           errors' \in Nat, dirErr' \in BOOLEAN, secViol' \in BOOLEAN
    PROVE  Types'
<1>1. UNCHANGED <<phase, locals>>
    BY DEF Handled
<1>2. SymbolsOK' /\ ChainOK' /\ FixesOK'
    BY <1>1, ChainStays, FixesStay DEF Types
<1>3. Len(fixes') >= Len(fixes)
    <2>1. Len(fixes) \in Nat
        BY DEF Types, FixesOK
    <2>2. QED BY <2>1
<1>4. QED BY <1>2, <1>3, StatementDone

LEMMA FaultsTyped ==
    ASSUME Types, phase = "parse"
    PROVE  /\ GasError => Types'
           /\ Rejected => Types'
<1>0. errors \in Nat /\ dirErr \in BOOLEAN /\ secViol \in BOOLEAN
    BY DEF Types, FlagsOK
<1>1. ASSUME GasError PROVE Types'
    <2>1. errors' \in Nat /\ dirErr' \in BOOLEAN /\ secViol' \in BOOLEAN
        BY <1>0, <1>1 DEF GasError
    <2>2. <<[kind |-> "fault", class |-> "gas"]>> \in Seq(Items)
        BY EmptyItems
    <2>3. Handled(<<[kind |-> "fault", class |-> "gas"]>>) /\ UNCHANGED <<syms, frags, fixes>>
        BY <1>1 DEF GasError
    <2>4. QED BY <2>1, <2>2, <2>3, PlainTyped
<1>2. ASSUME Rejected PROVE Types'
    <2>1. errors' \in Nat /\ dirErr' \in BOOLEAN /\ secViol' \in BOOLEAN
        BY <1>0, <1>2 DEF Rejected
    <2>2. <<[kind |-> "fault", class |-> "directive"]>> \in Seq(Items)
        BY EmptyItems
    <2>3. /\ Handled(<<[kind |-> "fault", class |-> "directive"]>>)
          /\ UNCHANGED <<syms, frags, fixes>>
        BY <1>2 DEF Rejected
    <2>4. QED BY <2>1, <2>2, <2>3, PlainTyped
<1>3. QED BY <1>1, <1>2

\* Bytes at the end of the open frag.
LEMMA EmitsTyped ==
    ASSUME Types, phase = "parse", NEW b \in Seq(Byte), NEW what \in Seq(Items),
           Emits(b, what)
    PROVE  /\ SymbolsOK' /\ ChainOK' /\ Grows(frags, frags') /\ FragsOK(frags')
           /\ Len(frags') = Len(frags) /\ Last(frags').lit = Last(frags).lit \o b
           /\ errors' \in Nat /\ dirErr' \in BOOLEAN /\ secViol' \in BOOLEAN /\ Handled(what)
<1> DEFINE n == Len(frags)  gs == FragMore(frags, b)
<1>1. /\ FragsOK(frags) /\ Last(frags).type \in {"fill", "unset"}
      /\ \A i \in 1..n : frags[i].var = 0
      /\ \A i \in 1..n - 1 : frags[i].type # "unset"
    BY DEF Types, ChainOK, Parsing
<1>2. frags' = gs /\ Handled(what) /\ UNCHANGED <<syms, errors, dirErr, secViol>>
    BY DEF Emits
<1>3. UNCHANGED <<phase, locals>>
    BY <1>2 DEF Handled
<1>4. /\ FragsOK(gs) /\ Len(gs) = n /\ \A i \in 1..n - 1 : gs[i] = frags[i]
      /\ Last(gs) = [Last(frags) EXCEPT !.lit = @ \o b]
    BY <1>1, FragMoreTyped
<1>5. /\ Last(frags) = frags[n] /\ FragOK(Last(frags)) /\ n \in 1..n /\ n \in Nat
      /\ Last(gs) = gs[n]
    <2>1. Last(frags) = frags[n] /\ FragOK(Last(frags)) /\ n \in 1..n
        BY <1>1, LastFrag
    <2>2. Last(gs) = gs[Len(gs)]
        BY <1>4, LastFrag
    <2>3. n \in Nat
        BY <1>1 DEF FragsOK
    <2> HIDE DEF n, gs
    <2>4. QED BY <1>4, <2>1, <2>2, <2>3
<1> HIDE DEF n, gs
<1>6. Last(frags) \in FragRecords /\ Last(frags).lit \in Seq(Byte)
    BY <1>5 DEF FragOK, FragRecords
<1>7. /\ Last(gs).type = Last(frags).type /\ Last(gs).var = Last(frags).var
      /\ Last(gs).lit = Last(frags).lit \o b
    BY <1>4, <1>6 DEF FragRecords
<1>8. ChainOK'
    <2>1. \A i \in 1..n : gs[i].var = 0 /\ (i # n => gs[i].type # "unset")
        <3> SUFFICES ASSUME NEW i \in 1..n
                     PROVE  gs[i].var = 0 /\ (i # n => gs[i].type # "unset")
            OBVIOUS
        <3>1. CASE i = n
            BY <1>1, <1>5, <1>7, <3>1
        <3>2. CASE i # n
            <4>1. i \in 1..n - 1 /\ gs[i] = frags[i]
                BY <1>4, <1>5, <3>2
            <4>2. QED BY <1>1, <4>1
        <3>3. QED BY <3>1, <3>2
    <2>2. QED BY <1>1, <1>2, <1>3, <1>4, <1>5, <1>7, <2>1 DEF ChainOK, Parsing
<1>9. Grows(frags, gs)
    <2>1. Len(Last(gs).lit) >= Len(Last(frags).lit)
        BY <1>6, <1>7, ConcatProperties
    <2>4. ASSUME NEW i \in 1..n PROVE Len(gs[i].lit) >= Len(frags[i].lit)
        <3>1. frags[i] \in FragRecords
            BY <1>1 DEF FragsOK, FragOK, n
        <3>2. frags[i].lit \in Seq(Byte)
            BY <3>1 DEF FragRecords
        <3>3. Len(frags[i].lit) \in Nat
            BY <3>2
        <3>4. CASE i = n
            BY <1>5, <2>1, <3>4
        <3>5. CASE i # n
            <4>1. i \in 1..n - 1 /\ gs[i] = frags[i]
                BY <1>4, <1>5, <3>5
            <4>2. QED BY <3>3, <4>1
        <3>6. QED BY <3>4, <3>5
    <2>5. QED BY <1>4, <1>5, <2>4 DEF Grows, n
<1>10. SymbolsOK'
    <2>1. Len(frags') = Len(frags)
        BY <1>2, <1>4 DEF n
    <2>2. QED BY <1>2, <1>3, <2>1 DEF Types, SymbolsOK, SymsTyped
<1>11. errors' \in Nat /\ dirErr' \in BOOLEAN /\ secViol' \in BOOLEAN
    BY <1>2 DEF Types, FlagsOK
<1>12. QED BY <1>2, <1>4, <1>7, <1>8, <1>9, <1>10, <1>11 DEF n

LEMMA EmitsOnly ==
    ASSUME Types, phase = "parse", NEW b \in Seq(Byte), NEW what \in Seq(Items),
           Emits(b, what), UNCHANGED fixes
    PROVE  Types'
<1>1. /\ SymbolsOK' /\ ChainOK' /\ Grows(frags, frags') /\ FragsOK(frags')
      /\ errors' \in Nat /\ dirErr' \in BOOLEAN /\ secViol' \in BOOLEAN /\ Handled(what)
    BY EmitsTyped
<1>2. FragsOK(frags) /\ fixes \in Seq(Fixups) /\ \A k \in 1..Len(fixes) : FixIn(fixes[k], frags)
    BY DEF Types, ChainOK, FixesOK
<1>3. \A k \in 1..Len(fixes) : fixes[k] \in Fixups
    BY <1>2
<1>4. \A k \in 1..Len(fixes) : FixIn(fixes[k], frags')
    BY <1>1, <1>2, <1>3, FixesKept
<1>5. FixesOK' /\ Len(fixes') >= Len(fixes)
    <2>1. Len(fixes) \in Nat
        BY <1>2
    <2>2. QED BY <1>2, <1>4, <2>1 DEF FixesOK
<1>6. QED BY <1>1, <1>5, StatementDone

LEMMA Reading ==
    ASSUME Types, phase = "parse"
    PROVE  /\ line \in Seq(Tokens) /\ Args \in Seq(Tokens)
           /\ SymsTyped /\ FragsOK(frags) /\ Last(frags).type \in {"fill", "unset"}
           /\ \A i \in 1..Len(frags) : frags[i].var = 0
           /\ fixes \in Seq(Fixups) /\ Len(fixes) \in Nat /\ Len(frags) \in Nat
<1>1. line \in Seq(Tokens)
    BY DEF Types, SourceOK
<1>2. Args \in Seq(Tokens)
    BY <1>1, ArgsTyped
<1>3. SymsTyped
    BY DEF Types, SymbolsOK
<1>4. FragsOK(frags) /\ Last(frags).type \in {"fill", "unset"}
      /\ \A i \in 1..Len(frags) : frags[i].var = 0
    BY DEF Types, ChainOK, Parsing
<1>5. fixes \in Seq(Fixups) /\ Len(frags) \in Nat
    BY <1>4 DEF Types, FixesOK, FragsOK
<1>6. QED BY <1>1, <1>2, <1>3, <1>4, <1>5

LEMMA IntListStep ==
    ASSUME Types, IntList
    PROVE  Types'
<1> DEFINE w == DataWidth(Directive)
<1>1. /\ phase = "parse" /\ Directive \in DataDirectives /\ AllIntLiterals(Args)
      /\ Emits(EmitIntList(Args, w), Data(w, SplitOperands(Args))) /\ UNCHANGED fixes
    BY DEF IntList, At
<1>2. w \in Widths
    BY <1>1, DirectiveWidth
<1>3. Args \in Seq(Tokens) /\ SymsTyped
    BY <1>1, Reading
<1> HIDE DEF w
<1>4. EmitIntList(Args, w) \in Seq(Byte) /\ Data(w, SplitOperands(Args)) \in Seq(Items)
    BY <1>1, <1>2, <1>3, IntListTyped
<1>5. QED BY <1>1, <1>4, EmitsOnly

LEMMA AsciiStep ==
    ASSUME Types, Ascii
    PROVE  Types'
<1> DEFINE e == EmitAscii(Args, Directive = ".asciz")
<1>1. phase = "parse" /\ (Rejected \/ (Emits(e.bytes, <<Bytes(e.bytes)>>) /\ UNCHANGED fixes))
    BY DEF Ascii, At
<1>2. Args \in Seq(Tokens)
    BY <1>1, Reading
<1>3. e.bytes \in Seq(Byte)
    BY <1>2, AsciiTyped
<1> HIDE DEF e
<1>4. <<Bytes(e.bytes)>> \in Seq(Items)
    BY <1>3, EmptyItems
<1>5. QED BY <1>1, <1>3, <1>4, EmitsOnly, FaultsTyped

LEMMA FillBytes ==
    ASSUME NEW n \in Nat, NEW w
    PROVE  [k \in 1..n |-> Low(w, 8)] \in Seq(Byte) /\ Len([k \in 1..n |-> Low(w, 8)]) = n
<1>1. Low(w, 8) \in Byte
    BY WordParts
<1>2. [k \in 1..n |-> Low(w, 8)] \in [1..n -> Byte]
    BY <1>1
<1>3. QED BY <1>2, FunctionIsList

LEMMA SkipStep ==
    ASSUME Types, Skip
    PROVE  Types'
<1> DEFINE p == ParseIntArgs(Args, IF Directive = ".zero" THEN 1 ELSE 2)
           b == [k \in 1..IntOf(p.args[1]) |-> Low(Arg(p.args, 2), 8)]
<1>1. /\ phase = "parse"
      /\ \/ Rejected
         \/ p.ok /\ 63 \notin p.args[1] /\ Emits(b, <<Bytes(b)>>) /\ UNCHANGED fixes
    BY DEF Skip, At
<1>2. CASE Rejected
    BY <1>1, <1>2, FaultsTyped
<1>3. CASE 63 \notin p.args[1] /\ Emits(b, <<Bytes(b)>>) /\ UNCHANGED fixes
    <2>1. IntOf(p.args[1]) \in Nat
        BY <1>3, IntOfIs
    <2>2. b \in Seq(Byte)
        BY <2>1, FillBytes
    <2> HIDE DEF b
    <2>3. <<Bytes(b)>> \in Seq(Items)
        BY <2>2, EmptyItems
    <2>4. QED BY <1>1, <1>3, <2>2, <2>3, EmitsOnly
<1>4. QED BY <1>1, <1>2, <1>3

LEMMA DataFormTyped ==
    ASSUME NEW w \in Widths
    PROVE  DataForm(w) \in FixForms /\ (DataForm(w) = "64" <=> w = 8)
BY DEF Widths, DataForm, FixForms, DataForms

LEMMA FixTyped ==
    ASSUME NEW e \in Terms, NEW f \in Nat, NEW w \in Nat, NEW form \in FixForms
    PROVE  /\ Fix(f, w, form, e) \in Fixups
           /\ Fix(f, w, form, e).frag = f /\ Fix(f, w, form, e).where = w
BY DEF Fix, Fixups, Terms

\* A list of symbolic data of one width: its zeros and its fixups.
LEMMA ConsBytes ==
    ASSUME NEW w \in Widths, NEW n \in Nat, NEW es
    PROVE  LET b == FlattenSeq([k \in 1..n |-> Cons1(w, es[k])])
           IN /\ b \in Seq(Byte) /\ Len(b) = w * n
              /\ \A k \in 1..n : \A j \in 1..w : b[w * (k - 1) + j] = Cons1(w, es[k])[j]
              /\ \A k \in 1..n : w * (k - 1) \in Nat /\ w * (k - 1) + w <= w * n
<1> DEFINE ps == [k \in 1..n |-> Cons1(w, es[k])]
           at == [k \in 1..(n + 1) |-> w * (k - 1)]
<1>0. /\ \A k \in 1..(n + 1) : w * (k - 1) \in Nat /\ w * (k - 1) <= w * n
      /\ \A k \in 1..n : w * ((k + 1) - 1) = w * (k - 1) + w /\ w * (k - 1) + w <= w * n
      /\ w * (1 - 1) = 0 /\ w * ((n + 1) - 1) = w * n
    <2>1. CASE w = 1
        BY <2>1
    <2>2. CASE w = 2
        BY <2>2
    <2>3. CASE w = 4
        BY <2>3
    <2>4. CASE w = 8
        BY <2>4
    <2>5. QED BY <2>1, <2>2, <2>3, <2>4 DEF Widths
<1>1. \A k \in 1..n : Cons1(w, es[k]) \in Seq(Byte) /\ Len(Cons1(w, es[k])) = w
    BY ConsTyped
<1>2. ps \in [1..n -> Seq(Byte)] /\ \A k \in 1..n : ps[k] = Cons1(w, es[k])
    BY <1>1
<1>3. /\ at \in [1..(n + 1) -> Nat] /\ at[1] = 0 /\ at[n + 1] = w * n
      /\ \A k \in 1..n : at[k] = w * (k - 1) /\ at[k + 1] = w * (k - 1) + w
    BY <1>0
<1> HIDE DEF ps, at
<1>4. Starts(ps, n, at)
    BY <1>1, <1>2, <1>3 DEF Starts
<1>5. /\ FlattenSeq(ps) \in Seq(Byte) /\ Len(FlattenSeq(ps)) = at[n + 1]
      /\ \A i \in 1..n : \A j \in 1..Len(ps[i]) : FlattenSeq(ps)[at[i] + j] = ps[i][j]
    <2>1. ps \in [1..n -> Seq(Byte)]
        BY <1>2
    <2>2. /\ FlattenSeq(ps) \in Seq(Byte) /\ Len(FlattenSeq(ps)) = at[n + 1]
          /\ \A i \in 1..n : at[i + 1] <= at[n + 1]
          /\ \A i \in 1..n : \A j \in 1..Len(ps[i]) : FlattenSeq(ps)[at[i] + j] = ps[i][j]
        <3>1. Laid(Byte, FlattenSeq(ps), ps, n, at)
            BY <2>1, <1>4, FlattenSegment
        <3>2. QED BY <3>1 DEF Laid
    <2>3. QED BY <2>2
<1>6. \A i \in 1..n : \A j \in 1..w : FlattenSeq(ps)[w * (i - 1) + j] = Cons1(w, es[i])[j]
    BY <1>1, <1>2, <1>3, <1>5
<1>7. \A k \in 1..n : w * (k - 1) \in Nat /\ w * (k - 1) + w <= w * n
    BY <1>0
<1>8. QED BY <1>3, <1>5, <1>6, <1>7 DEF ps

FixesIn(fs) == {fx \in Fixups : FixIn(fx, fs)}

LEMMA FixesAreIn ==
    /\ FixesOK <=> fixes \in Seq(FixesIn(frags))
    /\ FixesOK' <=> fixes' \in Seq(FixesIn(frags'))
BY DEF FixesOK, FixesIn

LEMMA FixesStayIn ==
    ASSUME Types, FragsOK(frags'), Grows(frags, frags')
    PROVE  fixes \in Seq(FixesIn(frags'))
<1>1. FragsOK(frags) /\ fixes \in Seq(Fixups) /\ \A k \in 1..Len(fixes) : FixIn(fixes[k], frags)
    BY DEF Types, ChainOK, FixesOK
<1>2. \A k \in 1..Len(fixes) : fixes[k] \in Fixups
    BY <1>1
<1>3. \A k \in 1..Len(fixes) : FixIn(fixes[k], frags')
    BY <1>1, <1>2, FixesKept
<1>4. QED BY <1>1, <1>3 DEF FixesIn

LEMMA ConsListStep ==
    ASSUME Types, ConsList
    PROVE  Types'
<1> DEFINE w  == DataWidth(Directive)
           os == Commas(Args)
           es == [k \in DOMAIN os |-> Expression(os[k])]
           at(k) == FragNowFix(frags) + w * (k - 1)
           b  == FlattenSeq([k \in DOMAIN os |-> Cons1(w, es[k])])
           one(k) == IF es[k].sym = NoSym THEN <<>>
                     ELSE <<Fix(FragNow(frags), at(k), DataForm(w), es[k])>>
           n == Len(os)
<1>1. phase = "parse" /\ Directive \in DataDirectives
    BY DEF ConsList, At
<1>2. \/ GasError
      \/ /\ \A k \in DOMAIN os : IsExpression(os[k])
         /\ Emits(b, Data(w, os))
         /\ fixes' = fixes \o FlattenSeq([k \in DOMAIN os |-> one(k)])
    BY DEF ConsList
<1>3. CASE GasError
    BY <1>1, <1>3, FaultsTyped
<1>4. CASE /\ \A k \in DOMAIN os : IsExpression(os[k])
           /\ Emits(b, Data(w, os))
           /\ fixes' = fixes \o FlattenSeq([k \in DOMAIN os |-> one(k)])
    <2>1. w \in Widths /\ Args \in Seq(Tokens) /\ SymsTyped
        BY <1>1, DirectiveWidth, Reading
    <2>2. os \in Seq(Seq(Tokens))
        BY <2>1, CommasTyped
    <2>3. DOMAIN os = 1..n /\ n \in Nat
        BY <2>2
    <2>4. Data(w, os) \in Seq(Items) /\ \A k \in 1..n : Expression(os[k]) \in Terms
        BY <1>4, <2>1, <2>2, <2>3, DataTyped
    <2>5. \A k \in 1..n : es[k] \in Terms
        BY <2>3, <2>4
    <2> HIDE DEF w, os, es
    <2>6. b \in Seq(Byte) /\ Len(b) = w * n
          /\ \A k \in 1..n : w * (k - 1) \in Nat /\ w * (k - 1) + w <= w * n
        BY <2>1, <2>3, ConsBytes, ZenonT(30)
    <2> HIDE DEF b, n
    <2>7. /\ SymbolsOK' /\ ChainOK' /\ Grows(frags, frags') /\ FragsOK(frags')
          /\ Len(frags') = Len(frags) /\ Last(frags').lit = Last(frags).lit \o b
          /\ errors' \in Nat /\ dirErr' \in BOOLEAN /\ secViol' \in BOOLEAN
          /\ Handled(Data(w, os))
        BY <1>1, <1>4, <2>4, <2>6, EmitsTyped
    <2>8. /\ FragsOK(frags) /\ FragOK(Last(frags)) /\ Last(frags).lit \in Seq(Byte)
          /\ Len(frags) \in 1..Len(frags') /\ Last(frags') = frags'[Len(frags)]
        <3>1. FragsOK(frags)
            BY <1>1, Reading
        <3>2. FragOK(Last(frags)) /\ Len(frags) \in 1..Len(frags)
            BY <3>1, LastFrag
        <3>3. Last(frags') = frags'[Len(frags')]
            BY <2>7, LastFrag
        <3>4. QED BY <2>7, <3>1, <3>2, <3>3 DEF FragOK, FragRecords
    <2>9. ASSUME NEW k \in 1..n PROVE one(k) \in Seq(FixesIn(frags'))
        <3>1. w \in 1..8 /\ w * (k - 1) \in Nat /\ w * (k - 1) + w <= w * n /\ w * n \in Nat
            <4>1. w \in {1, 2, 4, 8}
                BY <2>1 DEF Widths
            <4>2. Len(b) \in Nat
                BY <2>6
            <4>3. QED BY <2>6, <4>1, <4>2
        <3>2. Len(Last(frags).lit) \in Nat
            BY <2>8
        <3>3. Len(Last(frags').lit) = Len(Last(frags).lit) + w * n
            <4> DEFINE x == Last(frags).lit  y == Last(frags').lit
            <4>1. x \in Seq(Byte) /\ y = x \o b /\ b \in Seq(Byte)
                BY <2>6, <2>7, <2>8
            <4> HIDE DEF x, y
            <4>2. Len(y) = Len(x) + Len(b)
                BY <4>1, ConcatProperties
            <4>3. QED BY <2>6, <4>2 DEF x, y
        <3>4. at(k) \in Nat /\ at(k) < Len(Last(frags').lit)
            <4> DEFINE p == w * (k - 1)  q == w * n  x == Len(Last(frags).lit)
                       y == Len(Last(frags').lit)
            <4>1. p \in Nat /\ p + w <= q /\ w \in 1..8 /\ x \in Nat /\ y = x + q /\ q \in Nat
                BY <3>1, <3>2, <3>3
            <4>2. at(k) = x + p
                BY DEF FragNowFix
            <4> HIDE DEF p, q, x, y, at
            <4>3. at(k) \in Nat /\ at(k) < y
                BY <4>1, <4>2
            <4>4. QED BY <4>3 DEF y
        <3>5. DataForm(w) \in FixForms /\ es[k] \in Terms /\ Len(frags) \in Nat
            BY <2>1, <2>5, <2>8, DataFormTyped
        <3>6. Fix(FragNow(frags), at(k), DataForm(w), es[k]) \in FixesIn(frags')
            <4> DEFINE fx == Fix(FragNow(frags), at(k), DataForm(w), es[k])
            <4>1. fx \in Fixups /\ fx.frag = Len(frags) /\ fx.where = at(k)
                BY <3>4, <3>5, FixTyped DEF FragNow
            <4> HIDE DEF fx, at
            <4>2. FixIn(fx, frags')
                BY <2>8, <3>4, <4>1 DEF FixIn, FixSize
            <4>3. QED BY <4>1, <4>2 DEF FixesIn, fx, at
        <3> DEFINE fx == Fix(FragNow(frags), at(k), DataForm(w), es[k])
        <3>7. <<fx>> \in Seq(FixesIn(frags')) /\ <<>> \in Seq(FixesIn(frags'))
            BY <3>6, SingleTyped, EmptyTyped
        <3> HIDE DEF fx
        <3>8. QED BY <3>7 DEF fx
    <2> HIDE DEF one
    <2>10. FlattenSeq([k \in 1..n |-> one(k)]) \in Seq(FixesIn(frags'))
        <3>1. [k \in 1..n |-> one(k)] \in [1..n -> Seq(FixesIn(frags'))]
            BY <2>9
        <3>2. QED BY <2>3, <3>1, FlattenTyped
    <2>11. fixes \in Seq(FixesIn(frags'))
        BY <2>7, FixesStayIn
    <2>12. fixes' \in Seq(FixesIn(frags')) /\ Len(fixes') >= Len(fixes)
        <3> DEFINE more == FlattenSeq([k \in 1..n |-> one(k)])
        <3>1. fixes' = fixes \o more /\ more \in Seq(FixesIn(frags'))
            BY <1>4, <2>3, <2>10
        <3> HIDE DEF more
        <3>2. QED BY <2>11, <3>1, ConcatProperties
    <2>13. FixesOK'
        BY <2>12, FixesAreIn
    <2>14. QED BY <1>1, <2>4, <2>7, <2>12, <2>13, StatementDone
<1>5. QED BY <1>2, <1>3, <1>4

\* The open frag becomes closed, and an empty one follows it.
LEMMA FragVarGrows ==
    ASSUME NEW fs, FragsOK(fs), NEW closed, FragOK(closed),
           Len(closed.lit) >= Len(Last(fs).lit)
    PROVE  Grows(fs, FragVar(fs, closed))
<1> DEFINE n == Len(fs)  gs == FragVar(fs, closed)
<1>1. Len(gs) = n + 1 /\ (\A i \in 1..n - 1 : gs[i] = fs[i]) /\ gs[n] = closed
    BY FragVarTyped
<1>2. n \in 1..n /\ n \in Nat /\ Last(fs) = fs[n]
    BY LastFrag DEF FragsOK
<1> HIDE DEF gs
<1>3. ASSUME NEW i \in 1..n PROVE Len(gs[i].lit) >= Len(fs[i].lit)
    <2>1. CASE i = n
        BY <1>1, <1>2, <2>1
    <2>2. CASE i # n
        <3>1. i \in 1..n - 1 /\ gs[i] = fs[i]
            BY <1>1, <1>2, <2>2
        <3>2. fs[i] \in FragRecords
            BY DEF FragsOK, FragOK
        <3>3. fs[i].lit \in Seq(Byte)
            BY <3>2 DEF FragRecords
        <3>4. Len(fs[i].lit) \in Nat
            BY <3>3
        <3>5. QED BY <3>1, <3>4
    <2>3. QED BY <2>1, <2>2
<1>4. QED BY <1>1, <1>2, <1>3 DEF Grows, gs

LEMMA FragVarChain ==
    ASSUME Types, phase = "parse", phase' = phase, UNCHANGED <<syms, locals>>,
           NEW closed, FragOK(closed), closed.type # "unset", closed.var = 0,
           Len(closed.lit) >= Len(Last(frags).lit), frags' = FragVar(frags, closed)
    PROVE  SymbolsOK' /\ ChainOK' /\ Grows(frags, frags') /\ FragsOK(frags')
           /\ Len(frags') = Len(frags) + 1 /\ frags'[Len(frags)] = closed
<1> DEFINE n == Len(frags)  gs == FragVar(frags, closed)
<1>1. /\ FragsOK(frags) /\ n \in Nat
      /\ \A i \in 1..n : frags[i].var = 0
      /\ \A i \in 1..n - 1 : frags[i].type # "unset"
    BY DEF Types, ChainOK, Parsing, FragsOK
<1>2. /\ FragsOK(gs) /\ Len(gs) = n + 1 /\ (\A i \in 1..n - 1 : gs[i] = frags[i])
      /\ gs[n] = closed /\ gs[n + 1] = NewFrag("unset") /\ Last(gs) = NewFrag("unset")
    BY <1>1, FragVarTyped
<1>3. Grows(frags, gs)
    BY <1>1, FragVarGrows
<1>4. NewFrag("unset").var = 0 /\ NewFrag("unset").type = "unset"
    BY DEF NewFrag
<1>5. frags' = gs
    OBVIOUS
<1> HIDE DEF gs, n
<1>6. ASSUME NEW i \in 1..n + 1
      PROVE  gs[i].var = 0 /\ (i # n + 1 => gs[i].type # "unset")
    <2>1. CASE i \in 1..n - 1
        BY <1>1, <1>2, <2>1
    <2>2. CASE i = n \/ i = n + 1
        BY <1>2, <1>4, <2>2
    <2>3. QED BY <1>1, <2>1, <2>2
<1>7. ChainOK'
    BY <1>2, <1>4, <1>5, <1>6 DEF ChainOK, Parsing
<1>8. SymbolsOK'
    <2>1. SymbolsOK /\ n + 1 \in Nat /\ n + 1 >= Len(frags) /\ Len(frags) \in Nat
        BY <1>1 DEF Types, n
    <2>2. \A s \in DOMAIN syms : /\ syms[s].frag \in 0..n + 1
                                  /\ syms[s].seg = "text" => syms[s].frag > 0
        BY <2>1, SymsKept
    <2>3. QED BY <1>2, <1>5, <2>1, <2>2 DEF SymbolsOK, SymsTyped
<1>9. QED BY <1>2, <1>3, <1>5, <1>7, <1>8 DEF n

LEMMA ClosesTyped ==
    ASSUME Types, phase = "parse", NEW closed, FragOK(closed), closed.type # "unset",
           closed.var = 0, closed.lit = Last(frags).lit, NEW what \in Items,
           Closes(closed, what)
    PROVE  Types'
<1>1. frags' = FragVar(frags, closed) /\ Handled(<<what>>)
      /\ UNCHANGED <<syms, fixes, errors, dirErr, secViol>>
    BY DEF Closes
<1>2. UNCHANGED <<phase, locals>>
    BY <1>1 DEF Handled
<1>3. closed.lit \in Seq(Byte)
    BY DEF FragOK, FragRecords
<1>4. Len(closed.lit) >= Len(Last(frags).lit)
    BY <1>3
<1>5. SymbolsOK' /\ ChainOK' /\ Grows(frags, frags') /\ FragsOK(frags')
    BY <1>1, <1>2, <1>4, FragVarChain
<1>6. FixesOK' /\ Len(fixes') >= Len(fixes)
    <2>1. fixes \in Seq(FixesIn(frags'))
        BY <1>5, FixesStayIn
    <2>2. fixes' = fixes /\ Len(fixes) \in Nat
        BY <1>1, <2>1
    <2>3. QED BY <2>1, <2>2, FixesAreIn
<1>7. <<what>> \in Seq(Items)
    BY SingleTyped
<1>8. errors' \in Nat /\ dirErr' \in BOOLEAN /\ secViol' \in BOOLEAN
    BY <1>1 DEF Types, FlagsOK
<1>9. QED BY <1>1, <1>5, <1>6, <1>7, <1>8, StatementDone

LEMMA OpenFrag ==
    ASSUME Types, phase = "parse"
    PROVE  /\ FragOK(Last(frags)) /\ Last(frags).lit \in Seq(Byte) /\ Last(frags).var = 0
           /\ Last(frags).type \in {"fill", "unset"} /\ Last(frags) \in FragRecords
           /\ Last(frags) = frags[Len(frags)] /\ Len(frags) \in 1..Len(frags)
<1>1. FragsOK(frags) /\ Last(frags).type \in {"fill", "unset"}
      /\ \A i \in 1..Len(frags) : frags[i].var = 0
    BY Reading
<1>2. Last(frags) = frags[Len(frags)] /\ FragOK(Last(frags)) /\ Len(frags) \in 1..Len(frags)
    BY <1>1, LastFrag
<1>3. Last(frags) \in FragRecords /\ Last(frags).lit \in Seq(Byte)
    BY <1>2 DEF FragOK, FragRecords
<1>4. QED BY <1>1, <1>2, <1>3

LEMMA OrgStep ==
    ASSUME Types, Org
    PROVE  Types'
<1> DEFINE p == ParseIntArgs(Args, 2)  to == IntOf(p.args[1])  fill == Low(Arg(p.args, 2), 8)
           closed == [Last(frags) EXCEPT !.type = "org", !.fill = fill, !.off = to]
           what == [kind |-> "org", to |-> to, fill |-> fill]
<1>1. /\ phase = "parse"
      /\ Rejected \/ (p.ok /\ 63 \notin p.args[1] /\ Closes(closed, what))
    BY DEF Org, At
<1>2. CASE Rejected
    BY <1>1, <1>2, FaultsTyped
<1>3. CASE 63 \notin p.args[1] /\ Closes(closed, what)
    <2>1. to \in Nat /\ fill \in Byte
        BY <1>3, IntOfIs, WordParts
    <2> HIDE DEF to, fill
    <2>2. what \in Items
        BY <2>1 DEF Items
    <2>3. /\ Last(frags) \in FragRecords /\ Last(frags).var = 0
        BY <1>1, OpenFrag
    <2>4. closed \in FragRecords
        <3>1. "org" \in FragTypes /\ to \in Int
            BY <2>1 DEF FragTypes
        <3>2. QED BY <2>1, <2>3, <3>1 DEF FragRecords
    <2>5. /\ closed.type = "org" /\ closed.off = to /\ closed.var = 0
          /\ closed.lit = Last(frags).lit
        BY <2>3 DEF FragRecords
    <2>6. FragOK(closed)
        BY <2>1, <2>4, <2>5 DEF FragOK, MachineOK, PaddingOK
    <2> HIDE DEF closed, what
    <2>7. closed.type # "unset"
        BY <2>5
    <2>8. QED BY <1>1, <1>3, <2>2, <2>5, <2>6, <2>7, ClosesTyped
<1>4. QED BY <1>1, <1>2, <1>3

LEMMA AlignStep ==
    ASSUME Types, Align
    PROVE  Types'
<1> DEFINE p == ParseIntArgs(Args, 3)
           legal == p.args[1] \in (IF Directive = ".align" THEN Exponents ELSE PowersOfTwo)
           p2   == IF Directive = ".align" THEN IntOf(p.args[1]) ELSE Min(p.args[1])
           fill == Low(Arg(p.args, 2), 8)
           most == IF 63 \in Arg(p.args, 3) THEN 0 ELSE IntOf(Arg(p.args, 3))
           closed == [Last(frags) EXCEPT !.type = "align", !.fill = fill, !.off = p2,
                                         !.sub = most]
           what == [kind |-> "align", p2 |-> p2, fill |-> fill, max |-> most]
<1>1. /\ phase = "parse"
      /\ Rejected \/ (p.ok /\ legal /\ Closes(closed, what))
    BY DEF Align, At
<1>2. CASE Rejected
    BY <1>1, <1>2, FaultsTyped
<1>3. CASE legal /\ Closes(closed, what)
    <2>1. p2 \in Nat
        <3>1. CASE Directive = ".align"
            <4>1. PICK n \in 0..30 : p.args[1] = ToWord(n)
                BY <1>3, <3>1 DEF Exponents
            <4>2. 63 \notin ToWord(n)
                BY SmallPositive
            <4>3. IntOf(p.args[1]) \in Nat
                BY <4>1, <4>2, IntOfIs
            <4>4. QED BY <3>1, <4>3
        <3>2. CASE Directive # ".align"
            <4>1. PICK b \in 0..62 : p.args[1] = {b}
                BY <1>3, <3>2 DEF PowersOfTwo
            <4>2. Min({b}) \in {b}
                <5>1. {b} \in SUBSET Nat /\ {b} # {}
                    OBVIOUS
                <5>2. QED BY <5>1, MinIs
            <4>3. p2 = Min({b})
                BY <3>2, <4>1
            <4>4. QED BY <4>2, <4>3
        <3>3. QED BY <3>1, <3>2
    <2>2. most \in Nat /\ fill \in Byte
        BY IntOfIs, WordParts
    <2> HIDE DEF p2, most, fill
    <2>3. what \in Items
        BY <2>1, <2>2 DEF Items
    <2>4. /\ Last(frags) \in FragRecords /\ Last(frags).var = 0
        BY <1>1, OpenFrag
    <2>5. closed \in FragRecords
        <3>1. "align" \in FragTypes /\ p2 \in Int
            BY <2>1 DEF FragTypes
        <3>2. QED BY <2>1, <2>2, <2>4, <3>1 DEF FragRecords
    <2>6. /\ closed.type = "align" /\ closed.off = p2 /\ closed.var = 0
          /\ closed.lit = Last(frags).lit
        BY <2>4 DEF FragRecords
    <2>7. FragOK(closed)
        BY <2>1, <2>5, <2>6 DEF FragOK, MachineOK, PaddingOK
    <2> HIDE DEF closed, what
    <2>8. closed.type # "unset"
        BY <2>6
    <2>9. QED BY <1>1, <1>3, <2>3, <2>6, <2>7, <2>8, ClosesTyped
<1>4. QED BY <1>1, <1>2, <1>3

\* A symbol gets a definition within the chain.
LEMMA DefinedTyped ==
    ASSUME Types, NEW s \in Symbols, NEW d \in SymbolRecords, d.frag \in 0..Len(frags),
           d.seg = "text" => d.frag > 0, syms' = Defined(s, d), frags' = frags,
           locals' \in [Locals -> Nat]
    PROVE  SymbolsOK'
<1>1. /\ DOMAIN syms \in SUBSET Symbols /\ IsFiniteSet(DOMAIN syms)
      /\ syms \in [DOMAIN syms -> SymbolRecords]
      /\ \A x \in DOMAIN syms : /\ syms[x].frag \in 0..Len(frags)
                                /\ syms[x].seg = "text" => syms[x].frag > 0
    BY DEF Types, SymbolsOK, SymsTyped
<1>2. syms' = [x \in DOMAIN syms \cup {s} |-> IF x = s THEN d ELSE syms[x]]
    BY DEF Defined
<1>3. DOMAIN syms' = DOMAIN syms \cup {s}
    BY <1>2
<1>4. IsFiniteSet(DOMAIN syms')
    BY <1>1, <1>3, FS_AddElement
<1>5. \A x \in DOMAIN syms' : /\ syms'[x] \in SymbolRecords /\ syms'[x].frag \in 0..Len(frags)
                              /\ syms'[x].seg = "text" => syms'[x].frag > 0
    BY <1>1, <1>2
<1>6. syms' \in [DOMAIN syms' -> SymbolRecords]
    BY <1>2, <1>5
<1>7. QED BY <1>1, <1>3, <1>4, <1>5, <1>6 DEF SymbolsOK, SymsTyped

LEMMA SymbolRecordsIs ==
    /\ \A w \in Word : Absolute(w) \in SymbolRecords
    /\ \A s \in SymVals, w \in Word : AliasOf(s, w) \in SymbolRecords
    /\ \A f, o \in Nat : InText(f, o) \in SymbolRecords
    /\ \A w : Absolute(w).frag = 0 /\ Absolute(w).seg = "absolute"
    /\ \A s, w : AliasOf(s, w).frag = 0 /\ AliasOf(s, w).seg = "alias"
    /\ \A f, o : InText(f, o).frag = f /\ InText(f, o).seg = "text"
<1>1. {} \in Word /\ NoSym \in SymVals
    BY SymbolsTyped DEF Word
<1>2. \A f, o \in Nat : InText(f, o) \in SymbolRecords
    BY <1>1 DEF InText, SymbolRecords
<1>3. InText(0, 0) \in SymbolRecords
    BY <1>2
<1>4. /\ \A w \in Word : Absolute(w) \in SymbolRecords
      /\ \A s \in SymVals, w \in Word : AliasOf(s, w) \in SymbolRecords
    BY <1>3 DEF Absolute, AliasOf, SymbolRecords
<1>5. /\ \A w : Absolute(w).frag = 0 /\ Absolute(w).seg = "absolute"
      /\ \A s, w : AliasOf(s, w).frag = 0 /\ AliasOf(s, w).seg = "alias"
      /\ \A f, o : InText(f, o).frag = f /\ InText(f, o).seg = "text"
    BY DEF Absolute, AliasOf, InText
<1>6. QED BY <1>2, <1>4, <1>5

LEMMA EquStep ==
    ASSUME Types, Equ
    PROVE  Types'
<1> DEFINE o == Commas(Args)
           ok == Len(o) > 1 /\ o[1] # <<>> /\ o[2] # <<>>
           clear == ~ IsLabel(Sym(o[1][1])) /\ IsExpression(o[2])
           s == Sym(o[1][1])
           e == Expression(o[2])
           d == [EquValue(e) EXCEPT !.set = TRUE]
           what == [kind |-> "equ", sym |-> s, term |-> e]
<1>1. /\ phase = "parse"
      /\ \/ Rejected
         \/ GasError
         \/ ok /\ clear /\ syms' = Defined(s, d) /\ Handled(<<what>>)
            /\ UNCHANGED <<frags, fixes, errors, dirErr, secViol>>
    BY DEF Equ, At
<1>2. CASE Rejected \/ GasError
    BY <1>1, <1>2, FaultsTyped
<1>3. CASE /\ ok /\ clear /\ syms' = Defined(s, d) /\ Handled(<<what>>)
           /\ UNCHANGED <<frags, fixes, errors, dirErr, secViol>>
    <2>1. Args \in Seq(Tokens) /\ SymsTyped
        BY <1>1, Reading
    <2>2. o \in Seq(Seq(Tokens))
        BY <2>1, CommasTyped
    <2>3. o[1] \in Seq(Tokens) /\ o[2] \in Seq(Tokens) /\ o[1] # <<>> /\ IsExpression(o[2])
        BY <1>3, <2>2
    <2>4. o[1][1] \in Tokens
        BY <2>3
    <2>5. s \in Symbols /\ e \in Terms
        BY <2>1, <2>3, <2>4, SymbolsTyped, ExpressionTyped
    <2> HIDE DEF o, ok, clear, s, e
    <2>6. e.sym \in SymVals /\ e.add \in Word
        BY <2>5 DEF Terms
    <2>7. EquValue(e) \in SymbolRecords /\ EquValue(e).frag \in 0..Len(frags)
          /\ (EquValue(e).seg = "text" => EquValue(e).frag > 0)
        <3>0. Len(frags) \in Nat
            BY <1>1, Reading
        <3>1. CASE e.sym = NoSym
            <4>1. NoSym \notin DOMAIN syms
                BY <2>1, SymbolsTyped DEF SymsTyped
            <4>2. EquValue(e) = Absolute(e.add)
                BY <3>1, <4>1 DEF EquValue, IsLocal
            <4>3. QED BY <2>6, <3>0, <4>2, SymbolRecordsIs
        <3>2. CASE e.sym # NoSym /\ IsLocal(e.sym)
            <4>1. /\ syms[e.sym] \in SymbolRecords /\ syms[e.sym].frag \in 0..Len(frags)
                  /\ syms[e.sym].frag > 0
                BY <3>2 DEF Types, SymbolsOK, SymsTyped, IsLocal
            <4>2. EquValue(e) = [syms[e.sym] EXCEPT !.off = @ + IntOf(e.add)]
                BY <3>2 DEF EquValue
            <4>3. IntOf(e.add) \in Int
                BY IntOfIs
            <4>4. EquValue(e) \in SymbolRecords /\ EquValue(e).frag = syms[e.sym].frag
                BY <4>1, <4>2, <4>3 DEF SymbolRecords
            <4>5. QED BY <4>1, <4>4
        <3>3. CASE e.sym # NoSym /\ ~ IsLocal(e.sym)
            <4>1. EquValue(e) = AliasOf(e.sym, e.add)
                BY <3>3 DEF EquValue
            <4>2. AliasOf(e.sym, e.add) \in SymbolRecords /\ AliasOf(e.sym, e.add).frag = 0
                  /\ AliasOf(e.sym, e.add).seg = "alias"
                BY <2>6, SymbolRecordsIs
            <4>3. QED BY <3>0, <4>1, <4>2
        <3>4. QED BY <3>1, <3>2, <3>3
    <2>8. d \in SymbolRecords /\ d.frag = EquValue(e).frag /\ d.seg = EquValue(e).seg
        BY <2>7 DEF SymbolRecords
    <2> HIDE DEF d
    <2>9. locals' = locals /\ phase' = phase
        BY <1>3 DEF Handled
    <2>10. locals' \in [Locals -> Nat]
        BY <2>1, <2>9 DEF SymsTyped
    <2>11. SymbolsOK'
        BY <1>3, <2>5, <2>7, <2>8, <2>10, DefinedTyped
    <2>12. ChainOK' /\ FixesOK'
        BY <1>3, <2>9, FixesStay DEF Types, ChainOK, Parsing
    <2>13. Len(fixes') >= Len(fixes)
        <3>1. Len(fixes) \in Nat
            BY <1>1, Reading
        <3>2. QED BY <1>3, <3>1
    <2>14. <<what>> \in Seq(Items)
        <3>1. what \in Items
            BY <2>5 DEF Items
        <3> HIDE DEF what
        <3>2. QED BY <3>1, SingleTyped
    <2>15. errors' \in Nat /\ dirErr' \in BOOLEAN /\ secViol' \in BOOLEAN
        BY <1>3 DEF Types, FlagsOK
    <2>16. QED BY <1>1, <1>3, <2>11, <2>12, <2>13, <2>14, <2>15, StatementDone
<1>4. QED BY <1>1, <1>2, <1>3

LEMMA SectionSteps ==
    ASSUME Types, Accepted \/ SwitchesSection \/ Unsupported
    PROVE  Types'
<1>0. errors \in Nat /\ dirErr \in BOOLEAN /\ secViol \in BOOLEAN
    BY DEF Types, FlagsOK
<1>1. ASSUME Accepted PROVE Types'
    <2>1. phase = "parse" /\ Handled(<<>>) /\ UNCHANGED <<syms, frags, fixes, errors, dirErr, secViol>>
        BY <1>1 DEF Accepted, At
    <2>2. QED BY <1>0, <2>1, EmptyItems, PlainTyped
<1>2. ASSUME SwitchesSection PROVE Types'
    <2>1. /\ phase = "parse" /\ Handled(<<[kind |-> "fault", class |-> "section"]>>)
          /\ secViol' = TRUE /\ UNCHANGED <<syms, frags, fixes, errors, dirErr>>
        BY <1>2 DEF SwitchesSection, At
    <2>2. <<[kind |-> "fault", class |-> "section"]>> \in Seq(Items)
        BY EmptyItems
    <2>3. QED BY <1>0, <2>1, <2>2, PlainTyped
<1>3. ASSUME Unsupported PROVE Types'
    <2>1. phase = "parse" /\ Rejected
        BY <1>3 DEF Unsupported
    <2>2. QED BY <2>1, FaultsTyped
<1>4. QED BY <1>1, <1>2, <1>3

\* What the tables say of an instruction.
LEMMA InsnIs ==
    /\ \A m \in Branches :
         LET i == Insns[m]  states == DOMAIN i.opcode
         IN /\ states \in SUBSET States /\ states \in SUBSET Nat /\ i.sub \in states
            /\ \A s \in states : /\ Longer(s) \in states /\ Shorter(s) \in states
                                /\ i.opcode[s] \in Seq(Byte)
                                /\ Len(i.opcode[s]) = Shape[s].size
                                /\ Shape[s].size \in Nat /\ Shape[s].size >= OpcodeBytes
                                /\ Shape[s].at \in Nat
                                /\ Shape[s].form \in FixForms
                                /\ Shape[s].at + InsnLength(i.opcode[s][Shape[s].at + 1])
                                     <= Shape[s].size
    /\ \A m \in DOMAIN Insns \ Branches :
         /\ Insns[m].bytes \in Seq(Byte) /\ Len(Insns[m].bytes) > 0
         /\ m \notin Simple => /\ Insns[m].form \in InsnForms /\ Insns[m].form \in FixForms
                               /\ Len(Insns[m].bytes) = InsnLength(Insns[m].bytes[1])
    /\ \A m \in Simple : m \in DOMAIN Insns \ Branches
<1>1. ASSUME NEW m \in Branches
      PROVE  LET i == Insns[m]  states == DOMAIN i.opcode
             IN /\ states \in SUBSET States /\ states \in SUBSET Nat /\ i.sub \in states
                /\ \A s \in states : /\ Longer(s) \in states /\ Shorter(s) \in states
                                    /\ i.opcode[s] \in Seq(Byte)
                                    /\ Len(i.opcode[s]) = Shape[s].size
                                    /\ Shape[s].size \in Nat /\ Shape[s].size >= OpcodeBytes
                                    /\ Shape[s].at \in Nat
                                    /\ Shape[s].form \in FixForms
                                    /\ Shape[s].at + InsnLength(i.opcode[s][Shape[s].at + 1])
                                         <= Shape[s].size
    <2>1. RelForms \ DataForms \subseteq FixForms
        BY DEF FixForms, InsnForms
    <2>2. DOMAIN Insns[m].opcode \subseteq States /\ States \subseteq Nat
        BY InsnTable, RelaxTable
    <2>3. \A s \in States : /\ Shape[s].size \in Nat /\ Shape[s].size >= OpcodeBytes
                            /\ Shape[s].at \in Nat /\ Shape[s].form \in FixForms
        BY <2>1, RelaxTable
    <2>4. QED BY <2>2, <2>3, InsnTable
<1>2. ASSUME NEW m \in DOMAIN Insns \ Branches
      PROVE  /\ Insns[m].bytes \in Seq(Byte) /\ Len(Insns[m].bytes) > 0
             /\ m \notin Simple => /\ Insns[m].form \in InsnForms /\ Insns[m].form \in FixForms
                                   /\ Len(Insns[m].bytes) = InsnLength(Insns[m].bytes[1])
    <2>1. Insns[m].bytes \in Seq(Byte) /\ Insns[m].bytes # <<>>
        BY InsnTable
    <2>2. m \notin Simple => /\ Insns[m].form \in InsnForms
                             /\ Len(Insns[m].bytes) = InsnLength(Insns[m].bytes[1])
        BY InsnTable
    <2>3. QED BY <2>1, <2>2 DEF FixForms
<1>3. \A m \in Simple : m \in DOMAIN Insns \ Branches
    BY DEF Simple, Branches
<1>4. QED BY <1>1, <1>2, <1>3

LEMMA FragVarAfterMore ==
    ASSUME NEW fs, FragsOK(fs), NEW b, NEW closed
    PROVE  FragVar(FragMore(fs, b), closed) = FragVar(fs, closed)
<1> DEFINE n == Len(fs)  g == [fs[n] EXCEPT !.lit = @ \o b]
<1>1. fs \in Seq(FragRecords) /\ n \in 1..n /\ n \in Nat
    BY LastFrag DEF FragsOK
<1>2. FragMore(fs, b) = [fs EXCEPT ![n] = g]
    BY <1>1 DEF FragMore
<1> HIDE DEF g
<1>3. Len([fs EXCEPT ![n] = g]) = n
    BY <1>1
<1>4. [[fs EXCEPT ![n] = g] EXCEPT ![n] = closed] = [fs EXCEPT ![n] = closed]
    BY <1>1
<1>5. QED BY <1>2, <1>3, <1>4 DEF FragVar

LEMMA OperandTyped ==
    ASSUME Types, phase = "parse", line # <<>>, Readable(line[1]), line[1] \notin Simple
    PROVE  IsRef(Operand) /\ Expression(Operand) \in Terms /\ line[1] \in Tokens
<1>1. line \in Seq(Tokens) /\ SymsTyped
    BY Reading
<1>2. Tail(line) \in Seq(Tokens)
    BY <1>1, HeadTailProperties
<1>3. Operand \in Seq(Tokens)
    BY <1>2, TrimTyped DEF Operand
<1>4. IsRef(Operand)
    BY DEF Readable
<1>5. QED BY <1>1, <1>3, <1>4, ExpressionTyped DEF IsExpression

LEMMA BranchStep ==
    ASSUME Types, phase = "parse", NEW m \in Branches, m \in Tokens, NEW e \in Terms,
           LET i == Insns[m]
               opened == FragMore(frags, SubSeq(i.opcode[i.sub], 1, OpcodeBytes))
           IN frags' = FragVar(opened, [Last(opened) EXCEPT
                         !.type = "machine", !.sub = i.sub, !.op = m, !.sym = e.sym,
                         !.off = IntOf(e.add)]),
           Handled(<<[kind |-> "insn", op |-> m, term |-> e, frag |-> FragNow(frags)]>>),
           UNCHANGED <<syms, fixes, errors, dirErr, secViol>>
    PROVE  Types'
<1> DEFINE i == Insns[m]  two == SubSeq(i.opcode[i.sub], 1, OpcodeBytes)
           opened == FragMore(frags, two)
           closed == [Last(opened) EXCEPT !.type = "machine", !.sub = i.sub, !.op = m,
                                          !.sym = e.sym, !.off = IntOf(e.add)]
           what == [kind |-> "insn", op |-> m, term |-> e, frag |-> FragNow(frags)]
<1>1. /\ i.sub \in DOMAIN i.opcode /\ i.sub \in Nat /\ i.opcode[i.sub] \in Seq(Byte)
      /\ Len(i.opcode[i.sub]) >= 2
    BY InsnIs DEF OpcodeBytes
<1>2. two \in Seq(Byte) /\ Len(two) = 2
    <2> DEFINE op == i.opcode[i.sub]
    <2>1. op \in Seq(Byte) /\ Len(op) >= 2
        BY <1>1
    <2> HIDE DEF op
    <2>2. SubSeq(op, 1, 2) \in Seq(Byte) /\ Len(SubSeq(op, 1, 2)) = 2
        BY <2>1
    <2>3. QED BY <2>2 DEF op, OpcodeBytes
<1>3. /\ FragsOK(frags) /\ FragOK(Last(frags)) /\ Last(frags).lit \in Seq(Byte)
      /\ Last(frags) \in FragRecords /\ Last(frags).type # "machine" /\ Last(frags).var = 0
      /\ Len(frags) \in Nat
    BY Reading, OpenFrag
<1> HIDE DEF two
<1>4. Last(opened) = [Last(frags) EXCEPT !.lit = @ \o two] /\ FragsOK(opened)
    BY <1>2, <1>3, FragMoreTyped
<1>5. FragOK(Last(opened))
    BY <1>4, LastFrag
<1>6. /\ Last(opened) \in FragRecords /\ Last(opened).lit = Last(frags).lit \o two
      /\ Last(opened).var = 0
    <2>1. Last(opened) \in FragRecords
        BY <1>5 DEF FragOK
    <2> HIDE DEF opened
    <2>2. QED BY <1>3, <1>4, <2>1 DEF FragRecords
<1>7. Len(Last(opened).lit) = Len(Last(frags).lit) + 2 /\ Len(Last(frags).lit) \in Nat
    <2> DEFINE x == Last(frags).lit  y == Last(opened).lit
    <2>1. x \in Seq(Byte) /\ y = x \o two
        BY <1>3, <1>6
    <2> HIDE DEF x, y
    <2>2. Len(x \o two) = Len(x) + Len(two)
        BY <1>2, <2>1, ConcatProperties
    <2>3. Len(y) = Len(x) + 2 /\ Len(x) \in Nat
        <3>1. Len(x) \in Nat
            BY <2>1
        <3>2. Len(two) = 2
            BY <1>2
        <3>3. QED BY <2>1, <2>2, <3>1, <3>2
    <2>4. QED BY <2>3 DEF x, y
<1> HIDE DEF opened
<1>8. closed \in FragRecords /\ closed.type = "machine" /\ closed.op = m /\ closed.sub = i.sub
      /\ closed.lit = Last(opened).lit /\ closed.var = 0
    <2>1. "machine" \in FragTypes /\ IntOf(e.add) \in Int /\ e.sym \in SymVals
        BY IntOfIs DEF FragTypes, Terms
    <2>2. QED BY <1>1, <1>6, <2>1 DEF FragRecords
<1> HIDE DEF closed
<1>9. FragOK(closed) /\ closed.type # "unset"
    BY <1>1, <1>7, <1>8 DEF FragOK, MachineOK, PaddingOK, OpcodeBytes
<1>10. Len(closed.lit) >= Len(Last(frags).lit)
    BY <1>7, <1>8
<1>11. frags' = FragVar(frags, closed)
    <2>1. frags' = FragVar(opened, closed)
        BY DEF opened, closed, two
    <2>2. FragVar(FragMore(frags, two), closed) = FragVar(frags, closed)
        BY <1>3, FragVarAfterMore
    <2>3. QED BY <2>1, <2>2 DEF opened
<1>12. phase' = phase /\ locals' = locals /\ Handled(<<what>>)
    BY DEF Handled
<1>13. SymbolsOK' /\ ChainOK' /\ Grows(frags, frags') /\ FragsOK(frags')
    BY <1>8, <1>9, <1>10, <1>11, <1>12, FragVarChain
<1>14. FixesOK' /\ Len(fixes') >= Len(fixes)
    <2>1. fixes \in Seq(FixesIn(frags'))
        BY <1>13, FixesStayIn
    <2>2. fixes' = fixes /\ Len(fixes) \in Nat
        BY <2>1
    <2>3. QED BY <2>1, <2>2, FixesAreIn
<1>15. <<what>> \in Seq(Items)
    <2>1. m \in DOMAIN Insns \ Simple /\ FragNow(frags) \in Nat
        BY <1>3 DEF Branches, Simple, FragNow
    <2>2. what \in Items
        BY <2>1 DEF Items
    <2> HIDE DEF what
    <2>3. QED BY <2>2, SingleTyped
<1>16. errors' \in Nat /\ dirErr' \in BOOLEAN /\ secViol' \in BOOLEAN
    BY DEF Types, FlagsOK
<1> HIDE DEF what
<1>17. QED BY <1>12, <1>13, <1>14, <1>15, <1>16, StatementDone

LEMMA FieldStep ==
    ASSUME Types, phase = "parse", NEW m \in DOMAIN Insns \ (Simple \cup Branches), NEW e \in Terms,
           NEW what \in Items,
           fixes' = Append(fixes, Fix(FragNow(frags), FragNowFix(frags), Insns[m].form, e)),
           Emits(Insns[m].bytes, <<what>>)
    PROVE  Types'
<1> DEFINE b == Insns[m].bytes  fx == Fix(Len(frags), Len(Last(frags).lit), Insns[m].form, e)
<1>1. b \in Seq(Byte) /\ Len(b) > 0 /\ Insns[m].form \in FixForms
    BY InsnIs
<1>2. <<what>> \in Seq(Items)
    BY SingleTyped
<1> HIDE DEF b
<1>3. /\ SymbolsOK' /\ ChainOK' /\ Grows(frags, frags') /\ FragsOK(frags')
      /\ Len(frags') = Len(frags) /\ Last(frags').lit = Last(frags).lit \o b
      /\ errors' \in Nat /\ dirErr' \in BOOLEAN /\ secViol' \in BOOLEAN /\ Handled(<<what>>)
    BY <1>1, <1>2, EmitsTyped DEF b
<1>4. /\ Last(frags).lit \in Seq(Byte) /\ Len(frags) \in 1..Len(frags')
      /\ Last(frags') = frags'[Len(frags)] /\ Len(frags) \in Nat
    <2>1. Last(frags).lit \in Seq(Byte) /\ Len(frags) \in 1..Len(frags)
        BY OpenFrag
    <2>2. Last(frags') = frags'[Len(frags')]
        BY <1>3, LastFrag
    <2>3. QED BY <1>3, <2>1, <2>2
<1>5. Len(Last(frags).lit) \in Nat /\ Len(Last(frags').lit) > Len(Last(frags).lit)
    <2> DEFINE x == Last(frags).lit  y == Last(frags').lit
    <2>1. x \in Seq(Byte) /\ y = x \o b
        BY <1>3, <1>4
    <2> HIDE DEF x, y
    <2>2. Len(y) = Len(x) + Len(b) /\ Len(x) \in Nat
        BY <1>1, <2>1, ConcatProperties
    <2>3. QED BY <1>1, <2>2 DEF x, y
<1>6. fx \in Fixups /\ fx.frag = Len(frags) /\ fx.where = Len(Last(frags).lit)
    BY <1>1, <1>4, <1>5, FixTyped
<1>7. fixes' = Append(fixes, fx)
    BY DEF FragNow, FragNowFix
<1> HIDE DEF fx
<1>8. fx \in FixesIn(frags')
    BY <1>4, <1>5, <1>6 DEF FixesIn, FixIn, FixSize
<1>9. fixes \in Seq(FixesIn(frags'))
    BY <1>3, FixesStayIn
<1>10. fixes' \in Seq(FixesIn(frags')) /\ Len(fixes') >= Len(fixes)
    BY <1>7, <1>8, <1>9, AppendProperties
<1>11. FixesOK'
    BY <1>10, FixesAreIn
<1>12. QED BY <1>2, <1>3, <1>10, <1>11, StatementDone

LEMMA InstructionStep ==
    ASSUME Types, Instruction
    PROVE  Types'
<1> DEFINE m == line[1]  i == Insns[m]  e == Expression(Operand)
           what == [kind |-> "insn", op |-> m, term |-> e, frag |-> FragNow(frags)]
           opened == FragMore(frags, SubSeq(i.opcode[i.sub], 1, OpcodeBytes))
<1>1. phase = "parse" /\ line # <<>>
    BY DEF Instruction
<1>2. line \in Seq(Tokens) /\ m \in Tokens
    BY <1>1, Reading, ArgsTyped
<1>3. CASE GasError
    BY <1>1, <1>3, FaultsTyped
<1>4. CASE m \in Simple /\ Emits(i.bytes, <<Bytes(i.bytes)>>) /\ UNCHANGED fixes
    <2>1. i.bytes \in Seq(Byte)
        BY <1>4, InsnIs
    <2>2. <<Bytes(i.bytes)>> \in Seq(Items)
        BY <2>1, EmptyItems
    <2>3. QED BY <1>1, <1>4, <2>1, <2>2, EmitsOnly
<1>5. CASE /\ Readable(m) /\ m \notin Simple \cup Branches
           /\ fixes' = Append(fixes, Fix(FragNow(frags), FragNowFix(frags), i.form, e))
           /\ Emits(i.bytes, <<[what EXCEPT !.term = e]>>)
    <2>1. e \in Terms
        BY <1>1, <1>5, OperandTyped
    <2>2. m \in DOMAIN Insns \ (Simple \cup Branches)
        BY <1>5 DEF Readable
    <2>3. [what EXCEPT !.term = e] = what
        OBVIOUS
    <2>4. what \in Items
        <3>1. FragNow(frags) \in Nat
            BY <1>1, Reading DEF FragNow
        <3> HIDE DEF e, m
        <3>2. QED BY <2>1, <2>2, <3>1 DEF Items
    <2> HIDE DEF m, e, what
    <2>5. QED BY <1>1, <1>5, <2>1, <2>2, <2>3, <2>4, FieldStep
<1>6. CASE /\ Readable(m) /\ m \in Branches
           /\ frags' = FragVar(opened, [Last(opened) EXCEPT
                    !.type = "machine", !.sub = i.sub, !.op = m, !.sym = e.sym,
                    !.off = IntOf(e.add)])
           /\ Handled(<<what>>)
           /\ UNCHANGED <<syms, fixes, errors, dirErr, secViol>>
    <2>1. m \notin Simple
        BY <1>6, InsnIs
    <2>2. e \in Terms
        BY <1>1, <1>6, <2>1, OperandTyped
    <2> HIDE DEF m, e
    <2>3. QED BY <1>1, <1>2, <1>6, <2>2, BranchStep
<1>7. QED BY <1>3, <1>4, <1>5, <1>6 DEF Instruction

LEMMA LabelStep ==
    ASSUME Types, Label
    PROVE  Types'
<1>1. /\ phase = "parse" /\ HasLabel(line)
      /\ line' = Trim(SubSeq(line, 3, Len(line)))
      /\ UNCHANGED <<job, phase, todo, seen, frags, fixes, parseErr, dirErr, secViol,
                     unsup, unresolved, result, off>>
    BY DEF Label, outputs
<1>2. line \in Seq(Tokens) /\ Len(line) > 1
    BY <1>1, Reading DEF HasLabel
<1>3. line' \in Seq(Tokens)
    <2>1. SubSeq(line, 3, Len(line)) \in Seq(Tokens)
        BY <1>2, Part
    <2>2. QED BY <1>1, <2>1, TrimTyped
<1>4. PICK s \in Symbols : ColonDefines(s) /\ locals' \in [Locals -> Nat]
    <2> DEFINE n == line[1]
    <2>0. locals \in [Locals -> Nat]
        BY DEF Types, SymbolsOK, SymsTyped
    <2>1. CASE n \in Names /\ ColonDefines(Sym(n)) /\ UNCHANGED locals
        <3>1. n \in Tokens
            BY <2>1, NameTypes
        <3>2. Sym(n) \in Symbols
            BY <3>1, SymbolsTyped
        <3>3. QED BY <2>0, <2>1, <3>2
    <2>2. CASE /\ n \in Locals /\ locals' = [locals EXCEPT ![n] = @ + 1]
               /\ ColonDefines(<<n, locals'[n]>>)
        <3>1. locals' \in [Locals -> Nat] /\ locals'[n] \in Nat
            BY <2>0, <2>2
        <3>2. <<n, locals'[n]>> \in Symbols
            BY <2>2, <3>1 DEF Symbols
        <3>3. QED BY <2>2, <3>1, <3>2
    <2>3. QED BY <2>1, <2>2 DEF Label
<1>5. items' \in Seq(Items)
    <2>1. [kind |-> "label", sym |-> s] \in Items
        BY DEF Items
    <2>2. items \in Seq(Items) /\ items' = Append(items, [kind |-> "label", sym |-> s])
        BY <1>4 DEF Types, ItemsOK, ColonDefines
    <2>3. QED BY <2>1, <2>2, AppendProperties
<1>6. /\ FragOK(Last(frags)) /\ Last(frags).lit \in Seq(Byte) /\ Len(frags) \in 1..Len(frags)
    BY <1>1, OpenFrag
<1>7. SymbolsOK' /\ errors' \in Nat
    <2>0. errors \in Nat
        BY DEF Types, FlagsOK
    <2>1. CASE syms' = Defined(s, Here) /\ UNCHANGED errors
        <3>1. Len(frags) \in Nat /\ Len(Last(frags).lit) \in Nat /\ Len(frags) > 0
            BY <1>6
        <3>2. Here = InText(Len(frags), Len(Last(frags).lit))
            BY DEF Here, FragNow, FragNowFix
        <3>3. Here \in SymbolRecords /\ Here.frag = Len(frags)
            BY <3>1, <3>2, SymbolRecordsIs
        <3>4. Here.frag \in 0..Len(frags) /\ Here.frag > 0
            BY <3>1, <3>3
        <3>5. SymbolsOK'
            BY <1>1, <1>4, <2>1, <3>3, <3>4, DefinedTyped
        <3>6. QED BY <2>0, <2>1, <3>5
    <2>2. CASE errors' = errors + (IF syms[s] = Here THEN 0 ELSE 1) /\ UNCHANGED syms
        <3>1. errors' \in Nat
            BY <2>0, <2>2
        <3>2. SymbolsOK'
            BY <1>1, <1>4, <2>2 DEF Types, SymbolsOK, SymsTyped
        <3>3. QED BY <3>1, <3>2
    <2>3. QED BY <1>4, <2>1, <2>2 DEF ColonDefines
<1>8. SourceOK'
    BY <1>1, <1>3 DEF Types, SourceOK
<1>9. ChainOK' /\ FixesOK'
    BY <1>1, FixesStay DEF Types, ChainOK, Parsing
<1>10. FlagsOK' /\ OutputOK'
    BY <1>1, <1>7 DEF Types, FlagsOK, OutputOK
<1>11. QED BY <1>1, <1>5, <1>7, <1>8, <1>9, <1>10 DEF Types, ItemsOK

LEMMA TextSteps ==
    ASSUME Types, Reset \/ NextStatement
    PROVE  Types'
<1>1. ASSUME UNCHANGED <<job, syms, locals, frags, fixes, items, flags, outputs>>,
             phase' = phase \/ (phase = "reset" /\ phase' = "parse"), SourceOK'
      PROVE  Types'
    <2>1. SymbolsOK' /\ FixesOK' /\ ItemsOK'
        BY <1>1 DEF Types, SymbolsOK, SymsTyped, FixesOK, ItemsOK
    <2>2. ChainOK'
        BY <1>1 DEF Types, ChainOK, Parsing
    <2>3. FlagsOK' /\ OutputOK'
        BY <1>1 DEF Types, FlagsOK, OutputOK, flags, outputs
    <2>4. job' \in Jobs /\ phase' \in Phases
        BY <1>1 DEF Types, Phases
    <2>5. QED BY <1>1, <2>1, <2>2, <2>3, <2>4 DEF Types
<1>2. ASSUME Reset PROVE Types'
    <2>1. /\ phase = "reset" /\ phase' = "parse"
          /\ todo' = SplitStatements(StripBlockComments(job.text))
          /\ UNCHANGED <<job, line, seen, syms, locals, frags, fixes, items, flags, outputs>>
        BY <1>2 DEF Reset, section
    <2>2. job.text \in Seq(Tokens)
        BY JobTypes DEF Types
    <2>3. todo' \in Seq(Seq(Tokens))
        BY <2>1, <2>2, StatementsTyped
    <2>4. SourceOK'
        BY <2>1, <2>3 DEF Types, SourceOK
    <2>5. QED BY <1>1, <2>1, <2>4
<1>3. ASSUME NextStatement PROVE Types'
    <2>1. /\ phase = "parse" /\ todo # <<>>
          /\ line' = Trim(StripComment(Head(todo))) /\ todo' = Tail(todo)
          /\ seen' = seen \o Inked(<<line'>>)
          /\ UNCHANGED <<job, phase, syms, locals, frags, fixes, items, flags, outputs>>
        BY <1>3 DEF NextStatement, section
    <2>2. todo \in Seq(Seq(Tokens)) /\ seen \in Seq(Seq(Tokens))
        BY DEF Types, SourceOK
    <2>3. Head(todo) \in Seq(Tokens) /\ todo' \in Seq(Seq(Tokens))
        BY <2>1, <2>2, HeadTailProperties
    <2>4. line' \in Seq(Tokens)
        BY <2>1, <2>3, StripCommentTyped, TrimTyped
    <2>5. <<line'>> \in Seq(Seq(Tokens))
        BY <2>4, SingleTyped
    <2>6. Inked(<<line'>>) \in Seq(Seq(Tokens))
        BY <2>5, InkedTyped
    <2>7. seen' \in Seq(Seq(Tokens))
        BY <2>1, <2>2, <2>6, ConcatProperties
    <2>8. SourceOK'
        BY <2>3, <2>4, <2>7 DEF SourceOK
    <2>9. QED BY <1>1, <2>1, <2>8
<1>4. QED BY <1>2, <1>3

-----------------------------------------------------------------------------
(* The passes.                                                             *)

LEMMA Positions ==
    ASSUME NEW n \in Nat, NEW T \in SUBSET (1..n)
    PROVE  IsFiniteSet(T) /\ Cardinality(T) \in Nat /\ Cardinality(T) <= n
<1>1. IsFiniteSet(1..n) /\ Cardinality(1..n) = n
    BY FS_Interval
<1>2. IsFiniteSet(T) /\ Cardinality(T) <= n
    BY <1>1, FS_Subset
<1>3. QED BY <1>2, FS_CardinalityType

LEMMA GivenIs ==
    ASSUME job \in Jobs
    PROVE  /\ Given \in Seq([name : Names, address : Word])
           /\ \A k \in DOMAIN Given : /\ Given[k].name \in Names /\ Given[k].address \in Word
                                      /\ Sym(Given[k].name) \in Symbols
           /\ DOMAIN Given = 1..Len(Given) /\ Len(Given) \in Nat
<1>1. Given \in Seq([name : Names, address : Word])
    BY JobTypes, EmptyTyped DEF Given
<1> DEFINE g == Given  R == [name : Names, address : Word]
<1>2. DOMAIN Given = 1..Len(Given) /\ Len(Given) \in Nat
    BY <1>1
<1>3. \A k \in DOMAIN Given : Given[k] \in R
    <2>1. g \in Seq(R)
        BY <1>1
    <2> HIDE DEF g, R
    <2>2. \A k \in DOMAIN g : g[k] \in R
        BY <2>1
    <2>3. QED BY <2>2 DEF g
<1>4. \A k \in DOMAIN Given : Given[k].name \in Names /\ Given[k].address \in Word
    BY <1>3
<1>5. \A k \in DOMAIN Given : Sym(Given[k].name) \in Symbols
    BY <1>4, NameTypes, SymbolsTyped
<1>6. QED BY <1>1, <1>2, <1>4, <1>5

LEMMA DefineLabelsStep ==
    ASSUME Types, DefineLabels
    PROVE  Types'
<1> DEFINE new == {k \in DOMAIN Given : ~ Taken(k)}
           bad == DOMAIN Given \ new
           at(n) == CHOOSE k \in new : Given[k].name = n
           names == {Sym(Given[k].name) : k \in new}
<1>1. /\ phase = "parse"
      /\ syms' = [s \in DOMAIN syms \cup names |->
                        IF s \in names THEN Absolute(Given[at(s[1])].address) ELSE syms[s]]
      /\ errors' = errors + Cardinality(bad) /\ parseErr' = (errors' > 0)
      /\ phase' \in {"report", "relax"}
      /\ UNCHANGED <<job, source, locals, frags, fixes, items, dirErr, secViol, unsup,
                   unresolved, outputs>>
    BY DEF DefineLabels
<1>2. job \in Jobs /\ Types
    BY DEF Types
<1>3. new \in SUBSET DOMAIN Given /\ bad \in SUBSET DOMAIN Given
    OBVIOUS
<1>4. Cardinality(bad) \in Nat /\ IsFiniteSet(new)
    BY <1>2, <1>3, GivenIs, Positions
<1>5. names \in SUBSET Symbols /\ IsFiniteSet(names)
    <2>1. names \in SUBSET Symbols
        BY <1>2, <1>3, GivenIs
    <2> DEFINE f == [k \in new |-> Sym(Given[k].name)]
    <2>2. f \in Surjection(new, names)
        BY DEF Surjection
    <2>3. IsFiniteSet(names)
        BY <1>4, <2>2, FS_Surjection
    <2>4. QED BY <2>1, <2>3
<1>6. \A s \in names : Absolute(Given[at(s[1])].address) \in SymbolRecords
                       /\ Absolute(Given[at(s[1])].address).frag = 0
                       /\ Absolute(Given[at(s[1])].address).seg = "absolute"
    <2> TAKE s \in names
    <2>1. PICK k \in new : s = Sym(Given[k].name)
        OBVIOUS
    <2>2. s[1] = Given[k].name
        BY <2>1 DEF Sym
    <2>3. at(s[1]) \in new
        BY <2>2
    <2>4. Given[at(s[1])].address \in Word
        BY <1>2, <1>3, <2>3, GivenIs
    <2> HIDE DEF at
    <2>5. QED BY <2>4, SymbolRecordsIs
<1> HIDE DEF new, bad, at, names
<1>7. SymbolsOK'
    <2>1. /\ DOMAIN syms \in SUBSET Symbols /\ IsFiniteSet(DOMAIN syms)
          /\ syms \in [DOMAIN syms -> SymbolRecords] /\ locals \in [Locals -> Nat]
          /\ \A x \in DOMAIN syms : /\ syms[x].frag \in 0..Len(frags)
                                    /\ syms[x].seg = "text" => syms[x].frag > 0
          /\ Len(frags) \in Nat
        BY DEF Types, SymbolsOK, SymsTyped, ChainOK, FragsOK
    <2>2. DOMAIN syms' = DOMAIN syms \cup names /\ locals' = locals /\ frags' = frags
        BY <1>1
    <2>3. IsFiniteSet(DOMAIN syms') /\ DOMAIN syms' \in SUBSET Symbols
        BY <1>5, <2>1, <2>2, FS_Union
    <2>4. \A x \in DOMAIN syms' : /\ syms'[x] \in SymbolRecords /\ syms'[x].frag \in 0..Len(frags)
                                  /\ syms'[x].seg = "text" => syms'[x].frag > 0
        <3> TAKE x \in DOMAIN syms'
        <3>1. CASE x \notin names
            <4>1. syms'[x] = syms[x] /\ x \in DOMAIN syms
                BY <1>1, <2>2, <3>1
            <4>2. QED BY <2>1, <4>1
        <3>2. CASE x \in names
            <4>1. syms'[x] = Absolute(Given[at(x[1])].address)
                BY <1>1, <2>2, <3>2
            <4>2. QED BY <1>6, <2>1, <3>2, <4>1
        <3>3. QED BY <3>1, <3>2
    <2>5. syms' \in [DOMAIN syms' -> SymbolRecords]
        BY <1>1, <2>4
    <2>6. QED BY <2>1, <2>2, <2>3, <2>4, <2>5 DEF SymbolsOK, SymsTyped
<1>8. ChainOK'
    <2>1. frags' = frags /\ (Parsing => ChainOK) /\ Parsing /\ ~ Parsing'
        BY <1>1 DEF Parsing, Types
    <2>2. QED BY <1>1, <2>1 DEF Types, ChainOK
<1>9. FixesOK' /\ ItemsOK' /\ SourceOK'
    BY <1>1 DEF Types, FixesOK, ItemsOK, SourceOK, source
<1>10. FlagsOK'
    <2>1. errors' \in Nat /\ parseErr' \in BOOLEAN
        BY <1>1, <1>4 DEF Types, FlagsOK
    <2>2. QED BY <1>1, <2>1 DEF Types, FlagsOK
<1>11. OutputOK'
    BY <1>1 DEF Types, OutputOK, outputs
<1>12. QED BY <1>1, <1>7, <1>8, <1>9, <1>10, <1>11 DEF Types, Phases

LEMMA TableSizeIs == TableSize \in Nat
BY RelaxTable, FS_CardinalityType DEF TableSize

\* A walk along a chain stays in the states of its branch.
LEMMA WalkTyped ==
    ASSUME NEW m \in Branches, NEW s \in DOMAIN Insns[m].opcode
    PROVE  ChainHead(s) \in DOMAIN Insns[m].opcode /\ ChainTerminal(s) \in DOMAIN Insns[m].opcode
<1> DEFINE A == DOMAIN Insns[m].opcode
           down == [k \in 1..TableSize |-> [x \in States |-> Shorter(x)]]
           up == [k \in 1..TableSize |-> [x \in States |-> Longer(x)]]
<1>1. A \in SUBSET States /\ \A x \in A : Longer(x) \in A /\ Shorter(x) \in A
    BY InsnIs
<1>2. \A k \in 1..TableSize : \A x \in A : down[k][x] \in A /\ up[k][x] \in A
    BY <1>1
<1>3. ChainHead(s) = After(TableSize, s, down) /\ ChainTerminal(s) = After(TableSize, s, up)
    BY DEF ChainHead, ChainTerminal
<1>4. s \in A
    OBVIOUS
<1> HIDE DEF A, down, up
<1>5. After(TableSize, s, down) \in A
    BY <1>2, <1>4, TableSizeIs, AfterIs
<1>6. After(TableSize, s, up) \in A
    BY <1>2, <1>4, TableSizeIs, AfterIs
<1>7. QED BY <1>3, <1>5, <1>6 DEF A

\* The frags are changed one by one, none gets shorter.
LEMMA ChainMapped ==
    ASSUME Types, ~ Parsing', NEW new, frags' = [i \in DOMAIN frags |-> new[i]],
           \A i \in 1..Len(frags) :
               /\ FragOK(new[i]) /\ Len(new[i].lit) >= Len(frags[i].lit)
               /\ i < Len(frags) => new[i].type # "unset"
               /\ phase' \in {"relax", "relaxing"} => new[i].var = 0
    PROVE  /\ ChainOK' /\ Grows(frags, frags') /\ FragsOK(frags) /\ FragsOK(frags')
           /\ Len(frags') = Len(frags)
<1>1. FragsOK(frags) /\ Len(frags) \in Nat /\ DOMAIN frags = 1..Len(frags)
    BY DEF Types, ChainOK, FragsOK
<1>2. frags' = [i \in 1..Len(frags) |-> new[i]]
    BY <1>1
<1>3. \A i \in 1..Len(frags) : new[i] \in FragRecords
    BY DEF FragOK
<1>4. frags' \in [1..Len(frags) -> FragRecords]
    BY <1>2, <1>3
<1>5. frags' \in Seq(FragRecords) /\ Len(frags') = Len(frags)
    BY <1>1, <1>4, FunctionIsList
<1>6. \A i \in 1..Len(frags) : frags'[i] = new[i]
    BY <1>2
<1>7. FragsOK(frags')
    <2>1. Len(frags) > 0
        BY <1>1 DEF FragsOK
    <2>2. QED BY <1>5, <1>6, <2>1 DEF FragsOK
<1>8. \A i \in 1..Len(frags) - 1 : frags'[i].type # "unset"
    BY <1>1, <1>6
<1>9. ChainOK'
    BY <1>5, <1>6, <1>7, <1>8 DEF ChainOK, Parsing
<1>10. Grows(frags, frags')
    <2>1. Len(frags') >= Len(frags)
        BY <1>1, <1>5
    <2>2. QED BY <1>6, <2>1 DEF Grows
<1>11. QED BY <1>1, <1>5, <1>7, <1>9, <1>10

\* What the passes before apply_text_fixups leave alone.
LEMMA PassDone ==
    ASSUME Types, UNCHANGED <<job, source, syms, locals, items, parseErr, dirErr, secViol,
                              unsup, unresolved, outputs>>,
           phase' \in Phases, phase \notin {"decode", "done"}, ~ Parsing',
           errors' \in Nat, ChainOK', Len(frags') = Len(frags), FixesOK',
           Len(fixes') >= Len(fixes)
    PROVE  Types'
<1>1. SymbolsOK'
    BY DEF Types, SymbolsOK, SymsTyped
<1>2. SourceOK' /\ ItemsOK'
    BY DEF Types, SourceOK, ItemsOK, source
<1>3. OutputOK'
    BY DEF Types, OutputOK, outputs
<1>4. FlagsOK'
    <2>1. Len(fixes) \in Nat /\ Len(fixes') \in Nat
        BY DEF Types, FixesOK
    <2>2. unresolved' \in 0..Len(fixes')
        BY <2>1 DEF Types, FlagsOK
    <2>3. QED BY <2>2 DEF Types, FlagsOK
<1>5. QED BY <1>1, <1>2, <1>3, <1>4 DEF Types

LEMMA FragIs ==
    ASSUME Types, NEW i \in 1..Len(frags)
    PROVE  /\ FragOK(frags[i]) /\ frags[i] \in FragRecords /\ frags[i].lit \in Seq(Byte)
           /\ Len(frags[i].lit) \in Nat
           /\ frags[i].type = "machine" =>
                /\ frags[i].op \in Branches /\ Len(frags[i].lit) >= 2
                /\ frags[i].sub \in DOMAIN Insns[frags[i].op].opcode
           /\ i < Len(frags) => frags[i].type # "unset"
           /\ phase \in {"relax", "relaxing"} => frags[i].var = 0
<1>1. FragOK(frags[i])
    BY DEF Types, ChainOK, FragsOK
<1>2. frags[i] \in FragRecords
    BY <1>1 DEF FragOK
<1>3. frags[i].lit \in Seq(Byte)
    BY <1>2 DEF FragRecords
<1>4. Len(frags) \in Nat
    BY DEF Types, ChainOK, FragsOK
<1>5. QED BY <1>1, <1>2, <1>3, <1>4 DEF Types, ChainOK, FragOK, MachineOK, OpcodeBytes

LEMMA RelaxBranchesStep ==
    ASSUME Types, RelaxBranches
    PROVE  Types'
<1> DEFINE new == [i \in DOMAIN frags |-> Prepared(frags[i])]
<1>1. /\ phase = "relax" /\ phase' = "relaxing" /\ frags' = [i \in DOMAIN frags |-> new[i]]
      /\ UNCHANGED <<job, source, syms, locals, fixes, items, flags, outputs>>
    BY DEF RelaxBranches
<1>2. DOMAIN frags = 1..Len(frags)
    BY DEF Types, ChainOK, FragsOK
<1>3. ASSUME NEW i \in 1..Len(frags)
      PROVE  /\ FragOK(new[i]) /\ Len(new[i].lit) >= Len(frags[i].lit)
             /\ i < Len(frags) => new[i].type # "unset"
             /\ new[i].var = 0
    <2> DEFINE f == frags[i]
    <2>1. /\ FragOK(f) /\ f \in FragRecords /\ f.var = 0 /\ Len(f.lit) \in Nat
          /\ f.type = "machine" => f.op \in Branches /\ f.sub \in DOMAIN Insns[f.op].opcode
                                   /\ Len(f.lit) >= OpcodeBytes
          /\ i < Len(frags) => f.type # "unset"
        BY <1>1, FragIs DEF OpcodeBytes
    <2>2. new[i] = Prepared(f) /\ frags[i] = f
        BY <1>2
    <2> HIDE DEF new, f
    <2>3. CASE f.type = "unset"
        <3>1. "fill" \in FragTypes
            BY DEF FragTypes
        <3>2. Prepared(f) = [f EXCEPT !.type = "fill", !.var = 0]
            BY <2>3 DEF Prepared
        <3>3. Prepared(f) \in FragRecords /\ Prepared(f).type = "fill" /\ Prepared(f).var = 0
              /\ Prepared(f).lit = f.lit
            BY <2>1, <3>1, <3>2 DEF FragRecords
        <3>4. QED BY <2>1, <2>2, <2>3, <3>3 DEF FragOK, MachineOK, PaddingOK
    <2>4. CASE f.type = "machine"
        <3>1. StartState(f) \in DOMAIN Insns[f.op].opcode
            BY <2>1, <2>4, WalkTyped DEF StartState
        <3>2. StartState(f) \in Nat
            BY <2>1, <2>4, <3>1, InsnIs
        <3>3. Prepared(f) = [f EXCEPT !.sub = StartState(f)]
            BY <2>4 DEF Prepared
        <3>4. Prepared(f) \in FragRecords /\ Prepared(f).type = "machine" /\ Prepared(f).var = 0
              /\ Prepared(f).lit = f.lit /\ Prepared(f).sub = StartState(f)
              /\ Prepared(f).op = f.op
            BY <2>1, <2>4, <3>2, <3>3 DEF FragRecords
        <3>5. QED BY <2>1, <2>2, <2>4, <3>1, <3>4 DEF FragOK, MachineOK, PaddingOK
    <2>5. CASE f.type \notin {"unset", "machine"}
        <3>1. Prepared(f) = f
            BY <2>5 DEF Prepared
        <3>2. QED BY <2>1, <2>2, <3>1
    <2>6. QED BY <2>3, <2>4, <2>5
<1>4. ~ Parsing' /\ ~ Parsing
    BY <1>1 DEF Parsing
<1> HIDE DEF new
<1>5. /\ ChainOK' /\ Grows(frags, frags') /\ FragsOK(frags) /\ FragsOK(frags')
      /\ Len(frags') = Len(frags)
    BY <1>1, <1>3, <1>4, ChainMapped
<1>6. FixesOK' /\ Len(fixes') >= Len(fixes)
    <2>1. fixes \in Seq(FixesIn(frags'))
        BY <1>5, FixesStayIn
    <2>2. fixes' = fixes /\ Len(fixes) \in Nat
        BY <1>1, <2>1
    <2>3. QED BY <2>1, <2>2, FixesAreIn
<1>7. errors' \in Nat /\ UNCHANGED <<parseErr, dirErr, secViol, unsup, unresolved>>
    BY <1>1 DEF Types, FlagsOK, flags
<1>8. QED BY <1>1, <1>4, <1>5, <1>6, <1>7, PassDone DEF Phases

LEMMA RelaxSegmentStep ==
    ASSUME Types, RelaxSegment
    PROVE  Types'
<1>1. /\ phase = "relaxing" /\ phase' = phase
      /\ UNCHANGED <<job, source, syms, locals, fixes, items, flags, outputs>>
    BY DEF RelaxSegment
<1>2. PICK g \in Growing : frags' = [frags EXCEPT ![g].sub = RlxMore[@]]
    BY DEF RelaxSegment
<1>3. DOMAIN frags = 1..Len(frags)
    BY DEF Types, ChainOK, FragsOK
<1>4. g \in 1..Len(frags) /\ frags[g].type = "machine" /\ RlxMore[frags[g].sub] # 0
    BY <1>2, <1>3 DEF Growing
<1> DEFINE new == [i \in DOMAIN frags |->
                     IF i = g THEN [frags[i] EXCEPT !.sub = RlxMore[@]] ELSE frags[i]]
<1>5. frags' = [i \in DOMAIN frags |-> new[i]]
    BY <1>2
<1>6. ASSUME NEW i \in 1..Len(frags)
      PROVE  /\ FragOK(new[i]) /\ Len(new[i].lit) >= Len(frags[i].lit)
             /\ i < Len(frags) => new[i].type # "unset"
             /\ new[i].var = 0
    <2> DEFINE f == frags[i]
    <2>1. /\ FragOK(f) /\ f \in FragRecords /\ f.var = 0 /\ Len(f.lit) \in Nat
          /\ f.type = "machine" => f.op \in Branches /\ f.sub \in DOMAIN Insns[f.op].opcode
                                   /\ Len(f.lit) >= OpcodeBytes
          /\ i < Len(frags) => f.type # "unset"
        BY <1>1, FragIs DEF OpcodeBytes
    <2>2. new[i] = IF i = g THEN [f EXCEPT !.sub = RlxMore[f.sub]] ELSE f
        BY <1>3
    <2>3. CASE i = g
        <3>1. f.type = "machine" /\ RlxMore[f.sub] # 0
            BY <1>4, <2>3
        <3>2. RlxMore[f.sub] = Longer(f.sub)
            BY <3>1 DEF Longer
        <3>3. RlxMore[f.sub] \in DOMAIN Insns[f.op].opcode
            BY <2>1, <3>1, <3>2, InsnIs
        <3>4. RlxMore[f.sub] \in Nat
            BY <2>1, <3>1, <3>3, InsnIs
        <3> DEFINE n == [f EXCEPT !.sub = RlxMore[f.sub]]
        <3>5. n \in FragRecords /\ n.type = "machine" /\ n.var = 0
              /\ n.lit = f.lit /\ n.sub = RlxMore[f.sub] /\ n.op = f.op
            BY <2>1, <3>1, <3>4 DEF FragRecords
        <3>6. FragOK(n)
            BY <2>1, <3>1, <3>3, <3>5 DEF FragOK, MachineOK, PaddingOK
        <3>7. new[i] = n
            BY <2>2, <2>3
        <3>8. QED BY <2>1, <3>5, <3>6, <3>7
    <2>4. CASE i # g
        BY <2>1, <2>2, <2>4
    <2>5. QED BY <2>3, <2>4
<1>7. ~ Parsing' /\ ~ Parsing
    BY <1>1 DEF Parsing
<1> HIDE DEF new
<1>8. /\ ChainOK' /\ Grows(frags, frags') /\ FragsOK(frags) /\ FragsOK(frags')
      /\ Len(frags') = Len(frags)
    BY <1>5, <1>6, <1>7, ChainMapped
<1>9. FixesOK' /\ Len(fixes') >= Len(fixes)
    <2>1. fixes \in Seq(FixesIn(frags'))
        BY <1>8, FixesStayIn
    <2>2. fixes' = fixes /\ Len(fixes) \in Nat
        BY <1>1, <2>1
    <2>3. QED BY <2>1, <2>2, FixesAreIn
<1>10. errors' \in Nat /\ UNCHANGED <<parseErr, dirErr, secViol, unsup, unresolved>>
    BY <1>1 DEF Types, FlagsOK, flags
<1>11. QED BY <1>1, <1>7, <1>8, <1>9, <1>10, PassDone DEF Phases

LEMMA PadTyped ==
    ASSUME NEW f \in FragRecords, PaddingOK(f), NEW a \in Int
    PROVE  Pad(f, a) \in Nat /\ FillSize(f) \in Nat /\ FixSize(f) \in Nat
<1>1. f.off \in Int /\ f.var \in {0, 1} /\ f.sub \in Nat /\ f.lit \in Seq(Byte)
    BY DEF FragRecords
<1>2. FillSize(f) \in Nat
    <2>1. CASE f.type = "fill" /\ f.var > 0 /\ f.off > 0
        <3>1. f.var = 1
            BY <1>1, <2>1
        <3>2. FillSize(f) = f.off * 1
            BY <2>1, <3>1 DEF FillSize
        <3>3. QED BY <1>1, <2>1, <3>2
    <2>2. CASE ~ (f.type = "fill" /\ f.var > 0 /\ f.off > 0)
        BY <2>2 DEF FillSize
    <2>3. QED BY <2>1, <2>2
<1>3. ASSUME f.type = "align" PROVE PadTo(a, f.off, f.sub) \in Nat
    <2>1. f.off \in Nat
        BY <1>3 DEF PaddingOK
    <2>2. Pow2(f.off) \in Nat /\ Pow2(f.off) > 0
        BY <2>1, Pow2Is
    <2> DEFINE p == Pow2(f.off)  r == a % p
    <2>3. r \in 0..p - 1
        BY <2>2
    <2> HIDE DEF r
    <2>4. (p - r) % p \in Nat
        BY <2>2, <2>3
    <2>5. ToBoundary(a, f.off) \in Nat
        BY <2>4 DEF ToBoundary, r
    <2>6. QED BY <2>5 DEF PadTo
<1>4. ASSUME f.type = "org", ~ Backwards(f, a) PROVE f.off - a \in Nat
    BY <1>1, <1>4 DEF Backwards
<1>5. Pad(f, a) \in Nat
    <2>1. CASE f.type = "align"
        BY <1>3, <2>1 DEF Pad
    <2>2. CASE f.type = "org" /\ ~ Backwards(f, a)
        BY <1>4, <2>2 DEF Pad
    <2>3. CASE f.type = "org" /\ Backwards(f, a)
        BY <2>3 DEF Pad
    <2>4. CASE f.type \notin {"align", "org"}
        BY <1>2, <2>4 DEF Pad
    <2>5. QED BY <2>1, <2>2, <2>3, <2>4
<1>6. FixSize(f) \in Nat
    BY <1>1 DEF FixSize
<1>7. QED BY <1>2, <1>5, <1>6

LEMMA FinalRun ==
    ASSUME NEW fs, FragsOK(fs)
    PROVE  Runs(Len(fs), Nat, 0, [i \in 1..Len(fs) |-> [a \in Int |->
                  a + FixSize(fs[i]) + Pad(fs[i], a + FixSize(fs[i]))]], FinalAddresses(fs))
<1> DEFINE s == [i \in 1..Len(fs) |-> [a \in Int |->
                  a + FixSize(fs[i]) + Pad(fs[i], a + FixSize(fs[i]))]]
<1>1. Len(fs) \in Nat /\ DOMAIN fs = 1..Len(fs) /\ 0 \in Nat
    BY DEF FragsOK
<1>2. FinalAddresses(fs) = Before(Len(fs), 0, s)
    BY <1>1 DEF FinalAddresses
<1>3. ASSUME NEW i \in 1..Len(fs), NEW a \in Nat PROVE s[i][a] \in Nat
    <2>1. fs[i] \in FragRecords /\ PaddingOK(fs[i])
        BY DEF FragsOK, FragOK
    <2>2. FixSize(fs[i]) \in Nat
        BY <2>1, PadTyped, 0 \in Int
    <2>3. a + FixSize(fs[i]) \in Int
        BY <2>2
    <2>4. Pad(fs[i], a + FixSize(fs[i])) \in Nat
        BY <2>1, <2>3, PadTyped
    <2> DEFINE p == Pad(fs[i], a + FixSize(fs[i]))
    <2>5. s[i][a] = a + FixSize(fs[i]) + p
        OBVIOUS
    <2> HIDE DEF p, s
    <2>6. QED BY <2>2, <2>4, <2>5 DEF p
<1> HIDE DEF s
<1>4. Runs(Len(fs), Nat, 0, s, Before(Len(fs), 0, s))
    BY <1>1, <1>3, BeforeIs
<1>5. QED BY <1>2, <1>4 DEF s

LEMMA FinalTyped ==
    ASSUME NEW fs, FragsOK(fs)
    PROVE  FinalAddresses(fs) \in [1..Len(fs) + 1 -> Nat]
BY FinalRun DEF Runs

\* The frags with their padding sized.
LEMMA FinalizedTyped ==
    ASSUME NEW fs, FragsOK(fs), NEW i \in 1..Len(fs)
    PROVE  LET f == Finalized(fs)[i]
           IN /\ f \in FragRecords /\ f.lit = fs[i].lit /\ f.fill = fs[i].fill
              /\ f.type = IF fs[i].type \in {"align", "org"} THEN "fill" ELSE fs[i].type
              /\ fs[i].type \in {"align", "org"} =>
                   f.var = 1 /\ f.off = Pad(fs[i], FinalAddresses(fs)[i] + FixSize(fs[i]))
              /\ fs[i].type \notin {"align", "org"} => f = fs[i]
<1> DEFINE a == FinalAddresses(fs)[i]  pad == Pad(fs[i], a + FixSize(fs[i]))
<1>1. Len(fs) \in Nat /\ DOMAIN fs = 1..Len(fs) /\ i \in 1..Len(fs) + 1
    BY DEF FragsOK
<1>2. fs[i] \in FragRecords /\ PaddingOK(fs[i])
    BY DEF FragsOK, FragOK
<1>3. a \in Nat
    BY <1>1, FinalTyped
<1>4. FixSize(fs[i]) \in Nat
    BY <1>2, PadTyped, 0 \in Int
<1>5. a + FixSize(fs[i]) \in Int
    BY <1>3, <1>4
<1>6. pad \in Nat
    BY <1>2, <1>5, PadTyped
<1>7. Finalized(fs)[i] = IF fs[i].type \in {"align", "org"}
                         THEN [fs[i] EXCEPT !.type = "fill", !.var = 1, !.off = pad]
                         ELSE fs[i]
    BY <1>1 DEF Finalized
<1> HIDE DEF pad
<1>8. CASE fs[i].type \in {"align", "org"}
    <2> DEFINE g == [fs[i] EXCEPT !.type = "fill", !.var = 1, !.off = pad]
    <2>1. "fill" \in FragTypes /\ pad \in Int
        BY <1>6 DEF FragTypes
    <2>2. g \in FragRecords /\ g.lit = fs[i].lit /\ g.type = "fill" /\ g.var = 1 /\ g.off = pad
          /\ g.fill = fs[i].fill
        BY <1>2, <2>1 DEF FragRecords
    <2>3. Finalized(fs)[i] = g
        BY <1>7, <1>8
    <2>4. QED BY <1>8, <2>2, <2>3 DEF pad
<1>9. CASE fs[i].type \notin {"align", "org"}
    BY <1>2, <1>7, <1>9
<1>10. QED BY <1>8, <1>9

\* md_convert_frag on any frag.
Convert(f) == IF f.type = "machine" THEN Converted(f, Opcode(f)) ELSE f

LEMMA ConvertTyped ==
    ASSUME NEW f, FragOK(f), Len(f.lit) \in Nat
    PROVE  /\ FragOK(Convert(f)) /\ Convert(f).type # "machine"
           /\ Convert(f).fill = f.fill /\ Convert(f).var = f.var /\ Convert(f).off = f.off
           /\ f.type # "machine" => Convert(f) = f
           /\ f.type = "machine" =>
                /\ Convert(f).type = "fill"
                /\ Convert(f).lit = SubSeq(f.lit, 1, Len(f.lit) - 2) \o Opcode(f)
                /\ SubSeq(f.lit, 1, Len(f.lit) - 2) \in Seq(Byte)
                /\ Len(SubSeq(f.lit, 1, Len(f.lit) - 2)) = Len(f.lit) - 2
                /\ Opcode(f) \in Seq(Byte) /\ Len(Opcode(f)) = Shape[f.sub].size
                /\ Len(Convert(f).lit) = Len(f.lit) - 2 + Shape[f.sub].size
                /\ Shape[f.sub].size \in Nat /\ Shape[f.sub].size >= 2
                /\ Len(f.lit) >= 2 /\ f.op \in Branches /\ f.sub \in DOMAIN Insns[f.op].opcode
<1>1. f \in FragRecords /\ f.lit \in Seq(Byte)
    BY DEF FragOK, FragRecords
<1>2. CASE f.type # "machine"
    BY <1>1, <1>2 DEF Convert, FragOK
<1>3. CASE f.type = "machine"
    <2>1. f.op \in Branches /\ Len(f.lit) >= 2 /\ f.sub \in DOMAIN Insns[f.op].opcode
        BY <1>3 DEF FragOK, MachineOK, OpcodeBytes
    <2>2. /\ Opcode(f) \in Seq(Byte) /\ Len(Opcode(f)) = Shape[f.sub].size
          /\ Shape[f.sub].size \in Nat /\ Shape[f.sub].size >= 2
        BY <2>1, InsnIs DEF Opcode, OpcodeBytes
    <2> DEFINE lit == f.lit  head == SubSeq(lit, 1, Len(lit) - 2)  op == Opcode(f)
               g == [f EXCEPT !.type = "fill", !.lit = head \o op]
    <2>3. lit \in Seq(Byte) /\ Len(lit) \in Nat /\ Len(lit) >= 2
        BY <1>1, <2>1
    <2>4. op \in Seq(Byte) /\ Len(op) = Shape[f.sub].size
        BY <2>2
    <2>5. Convert(f) = g
        BY <1>3 DEF Convert, Converted, OpcodeBytes
    <2> HIDE DEF lit, op
    <2>6. head \in Seq(Byte) /\ Len(head) = Len(lit) - 2
        <3>1. Len(lit) - 2 \in Int /\ Len(lit) - 2 <= Len(lit) /\ Len(lit) - 2 >= 0
            BY <2>3
        <3>2. head \in Seq(Byte)
            BY <2>3, <3>1, Part, 1 \in Int, 1 <= 1
        <3>3. 1 \in 1..Len(lit) + 1 /\ Len(lit) - 2 \in 1 - 1..Len(lit)
            BY <2>3
        <3>4. Len(head) = IF 1 <= Len(lit) - 2 THEN Len(lit) - 2 - 1 + 1 ELSE 0
            BY <2>3, <3>3, SubSeqProperties
        <3> HIDE DEF head
        <3>5. Len(head) = Len(lit) - 2
            <4> DEFINE k == Len(lit)
            <4>1. k \in Nat /\ k >= 2 /\ Len(head) = IF 1 <= k - 2 THEN k - 2 - 1 + 1 ELSE 0
                BY <2>3, <3>4
            <4> HIDE DEF k
            <4>2. Len(head) = k - 2
                BY <4>1
            <4>3. QED BY <4>2 DEF k
        <3>6. QED BY <3>2, <3>5
    <2> HIDE DEF head
    <2>7. head \o op \in Seq(Byte) /\ Len(head \o op) = Len(head) + Len(op)
        BY <2>4, <2>6, ConcatProperties
    <2> DEFINE new == head \o op
    <2>8. new \in Seq(Byte) /\ "fill" \in FragTypes
        BY <2>7 DEF FragTypes
    <2> HIDE DEF new
    <2>9. /\ g \in FragRecords /\ g.type = "fill" /\ g.lit = new /\ g.fill = f.fill
          /\ g.var = f.var /\ g.off = f.off
        BY <1>1, <2>8 DEF FragRecords, new
    <2> HIDE DEF g
    <2>10. FragOK(g)
        BY <2>9 DEF FragOK, MachineOK, PaddingOK
    <2>11. Len(g.lit) = Len(f.lit) - 2 + Shape[f.sub].size
        BY <2>4, <2>6, <2>7, <2>9 DEF lit, new
    <2>12. QED BY <1>3, <2>1, <2>2, <2>5, <2>6, <2>9, <2>10, <2>11 DEF lit, head, op, new
<1>4. QED BY <1>2, <1>3

\* The chain between md_convert_frag and finalize_align_org.
ConvertedChain == [i \in DOMAIN frags |-> Convert(frags[i])]
NewFixes == [i \in DOMAIN frags |-> IF frags[i].type = "machine" THEN <<BranchFix(i)>> ELSE <<>>]

LEMMA ConvertIs ==
    ASSUME ConvertAndFinalize
    PROVE  /\ phase = "relaxing" /\ Growing = {} /\ phase' = "fixups"
           /\ frags' = Finalized(ConvertedChain)
           /\ fixes' = fixes \o FlattenSeq(NewFixes)
           /\ errors' = errors + Cardinality(OrgErrors(ConvertedChain))
           /\ UNCHANGED <<job, source, syms, locals, items, parseErr, dirErr, secViol, unsup,
                          unresolved, outputs>>
BY DEF ConvertAndFinalize, ConvertedChain, Convert, NewFixes

LEMMA ConvertedChainTyped ==
    ASSUME Types
    PROVE  /\ FragsOK(ConvertedChain) /\ Len(ConvertedChain) = Len(frags)
           /\ \A i \in 1..Len(frags) : ConvertedChain[i] = Convert(frags[i])
<1>1. Len(frags) \in Nat /\ Len(frags) > 0 /\ DOMAIN frags = 1..Len(frags)
    BY DEF Types, ChainOK, FragsOK
<1>2. \A i \in 1..Len(frags) : FragOK(Convert(frags[i]))
    BY FragIs, ConvertTyped
<1>3. ConvertedChain = [i \in 1..Len(frags) |-> Convert(frags[i])]
    BY <1>1 DEF ConvertedChain
<1>4. \A i \in 1..Len(frags) : Convert(frags[i]) \in FragRecords
    BY <1>2 DEF FragOK
<1>5. ConvertedChain \in [1..Len(frags) -> FragRecords]
    BY <1>3, <1>4
<1>6. ConvertedChain \in Seq(FragRecords) /\ Len(ConvertedChain) = Len(frags)
    BY <1>1, <1>5, FunctionIsList
<1>7. \A i \in 1..Len(frags) : ConvertedChain[i] = Convert(frags[i])
    BY <1>3
<1>8. QED BY <1>1, <1>2, <1>6, <1>7 DEF FragsOK

LEMMA ConvertStep ==
    ASSUME Types, ConvertAndFinalize
    PROVE  Types'
<1> DEFINE c == ConvertedChain  new == Finalized(c)
<1>1. /\ phase = "relaxing" /\ phase' = "fixups" /\ frags' = new
      /\ fixes' = fixes \o FlattenSeq(NewFixes)
      /\ errors' = errors + Cardinality(OrgErrors(c))
      /\ UNCHANGED <<job, source, syms, locals, items, parseErr, dirErr, secViol, unsup,
                     unresolved, outputs>>
    BY ConvertIs
<1>2. /\ FragsOK(c) /\ Len(c) = Len(frags) /\ Len(frags) \in Nat
      /\ \A i \in 1..Len(frags) : c[i] = Convert(frags[i])
      /\ DOMAIN frags = 1..Len(frags) /\ DOMAIN c = 1..Len(frags)
    BY ConvertedChainTyped DEF Types, ChainOK, FragsOK
<1>3. ASSUME NEW i \in 1..Len(frags)
      PROVE  /\ FragOK(new[i]) /\ Len(new[i].lit) >= Len(frags[i].lit)
             /\ i < Len(frags) => new[i].type # "unset"
             /\ frags[i].type = "machine" =>
                  Len(new[i].lit) = Len(frags[i].lit) - 2 + Shape[frags[i].sub].size
    <2> DEFINE f == frags[i]  g == new[i]
    <2>1. FragOK(f) /\ Len(f.lit) \in Nat /\ (i < Len(frags) => f.type # "unset")
        BY FragIs
    <2>2. /\ g \in FragRecords /\ g.lit = c[i].lit
          /\ g.type = IF c[i].type \in {"align", "org"} THEN "fill" ELSE c[i].type
          /\ c[i] = Convert(f)
        BY <1>2, FinalizedTyped
    <2> HIDE DEF new, f, g, c
    <2>3. /\ Convert(f).type # "machine" /\ (f.type # "machine" => Convert(f) = f)
          /\ f.type = "machine" =>
               /\ Len(Convert(f).lit) = Len(f.lit) - 2 + Shape[f.sub].size
               /\ Convert(f).type = "fill"
               /\ Shape[f.sub].size \in Nat /\ Shape[f.sub].size >= 2
        BY <2>1, ConvertTyped
    <2>4. g.type \notin {"machine", "align", "org"}
        BY <2>2, <2>3
    <2>5. FragOK(g)
        BY <2>2, <2>4 DEF FragOK, MachineOK, PaddingOK
    <2>6. CASE f.type = "machine"
        BY <2>1, <2>2, <2>3, <2>5, <2>6 DEF f, g
    <2>7. CASE f.type # "machine"
        BY <2>1, <2>2, <2>3, <2>5, <2>7 DEF f, g
    <2>8. QED BY <2>6, <2>7
<1>4. new = [i \in DOMAIN frags |-> new[i]]
    BY <1>2 DEF Finalized
<1>5. Cardinality(OrgErrors(c)) \in Nat
    <2>1. OrgErrors(c) \in SUBSET (1..Len(frags))
        BY <1>2 DEF OrgErrors
    <2>2. QED BY <1>2, <2>1, Positions
<1>6. ~ Parsing' /\ phase' \notin {"relax", "relaxing"}
    BY <1>1 DEF Parsing
<1> HIDE DEF c, new
<1>7. /\ ChainOK' /\ Grows(frags, frags') /\ FragsOK(frags) /\ FragsOK(frags')
      /\ Len(frags') = Len(frags)
    <2>1. frags' = [i \in DOMAIN frags |-> new[i]]
        BY <1>1, <1>4
    <2>2. QED BY <1>3, <1>6, <2>1, ChainMapped
<1>8. ASSUME NEW i \in 1..Len(frags), frags[i].type = "machine"
      PROVE  BranchFix(i) \in FixesIn(frags')
    <2> DEFINE f == frags[i]  s == Shape[f.sub]  k == Len(f.lit)
               where == FixSize(f) - OpcodeBytes + s.at
    <2>1. f \in FragRecords /\ k \in Nat /\ k >= 2 /\ f.op \in Branches
          /\ f.sub \in DOMAIN Insns[f.op].opcode
        BY <1>8, FragIs
    <2>2. /\ s.size \in Nat /\ s.at \in Nat /\ s.form \in FixForms
          /\ s.at + InsnLength(Insns[f.op].opcode[f.sub][s.at + 1]) <= s.size
        BY <2>1, InsnIs
    <2>3. s.at < s.size
        <3> DEFINE x == InsnLength(Insns[f.op].opcode[f.sub][s.at + 1])
        <3>1. x \in {2, 4}
            BY DEF InsnLength
        <3>2. s.at + x <= s.size
            BY <2>2
        <3> HIDE DEF x
        <3>3. QED BY <2>2, <3>1, <3>2
    <2>4. where = k - 2 + s.at /\ where \in Nat
        BY <2>1, <2>2 DEF FixSize, OpcodeBytes
    <2>5. FixSize(frags'[i]) = k - 2 + s.size
        BY <1>1, <1>3, <1>8 DEF FixSize
    <2>6. i \in 1..Len(frags') /\ i \in Nat
        BY <1>2, <1>7
    <2>7. ToWord(f.off) \in Word /\ f.sym \in SymVals /\ NoSym \in SymVals
        BY <2>1, WordParts, SymbolsTyped DEF FragRecords
    <2>8. BranchFix(i) = [frag |-> i, where |-> where, form |-> s.form, sym |-> f.sym,
                          sub |-> NoSym, add |-> ToWord(f.off)]
        BY DEF BranchFix, Fix, Term
    <2> HIDE DEF where, s, f, k
    <2>9. BranchFix(i) \in Fixups /\ BranchFix(i).frag = i /\ BranchFix(i).where = where
        BY <2>2, <2>4, <2>6, <2>7, <2>8 DEF Fixups
    <2>10. where < FixSize(frags'[i])
        BY <2>1, <2>2, <2>3, <2>4, <2>5
    <2>11. QED BY <2>6, <2>9, <2>10 DEF FixesIn, FixIn
<1>9. FlattenSeq(NewFixes) \in Seq(FixesIn(frags'))
    <2>1. \A i \in 1..Len(frags) : frags[i].type = "machine" => <<BranchFix(i)>> \in Seq(FixesIn(frags'))
        BY <1>8, SingleTyped
    <2>2. <<>> \in Seq(FixesIn(frags'))
        BY EmptyTyped
    <2>3. NewFixes = [i \in 1..Len(frags) |-> NewFixes[i]]
        BY <1>2 DEF NewFixes
    <2>4. \A i \in 1..Len(frags) : NewFixes[i] = IF frags[i].type = "machine" THEN <<BranchFix(i)>> ELSE <<>>
        BY <1>2 DEF NewFixes
    <2>5. \A i \in 1..Len(frags) : NewFixes[i] \in Seq(FixesIn(frags'))
        BY <2>1, <2>2, <2>4
    <2>6. QED BY <1>2, <2>3, <2>5, SelectTyped
<1>10. fixes \in Seq(FixesIn(frags'))
    BY <1>7, FixesStayIn
<1>11. fixes' \in Seq(FixesIn(frags')) /\ Len(fixes') >= Len(fixes)
    <2> DEFINE x == fixes  y == FlattenSeq(NewFixes)
    <2>1. x \in Seq(FixesIn(frags')) /\ y \in Seq(FixesIn(frags')) /\ fixes' = x \o y
        BY <1>1, <1>9, <1>10
    <2> HIDE DEF x, y
    <2>2. x \o y \in Seq(FixesIn(frags')) /\ Len(x \o y) = Len(x) + Len(y)
        BY <2>1, ConcatProperties
    <2>3. Len(x) \in Nat /\ Len(y) \in Nat
        BY <2>1
    <2>4. Len(x \o y) >= Len(x)
        BY <2>2, <2>3
    <2>5. QED BY <2>1, <2>2, <2>4 DEF x
<1>12. FixesOK'
    BY <1>11, FixesAreIn
<1>13. errors' \in Nat
    BY <1>1, <1>5 DEF Types, FlagsOK
<1>14. phase' \in Phases /\ phase \notin {"decode", "done"}
    BY <1>1 DEF Phases
<1>15. QED BY <1>1, <1>6, <1>7, <1>11, <1>12, <1>13, <1>14, PassDone

LEMMA SizesTyped ==
    ASSUME NEW f \in FragRecords
    PROVE  FixSize(f) \in Nat /\ FillSize(f) \in Nat /\ f.lit \in Seq(Byte) /\ f.fill \in Byte
<1>1. f.off \in Int /\ f.var \in {0, 1} /\ f.lit \in Seq(Byte) /\ f.fill \in Byte
    BY DEF FragRecords
<1>2. FillSize(f) \in Nat
    <2>1. CASE f.type = "fill" /\ f.var > 0 /\ f.off > 0
        <3>1. f.var = 1
            BY <1>1, <2>1
        <3>2. FillSize(f) = f.off * 1
            BY <2>1, <3>1 DEF FillSize
        <3>3. QED BY <1>1, <2>1, <3>2
    <2>2. CASE ~ (f.type = "fill" /\ f.var > 0 /\ f.off > 0)
        BY <2>2 DEF FillSize
    <2>3. QED BY <2>1, <2>2
<1>3. FixSize(f) \in Nat
    BY <1>1 DEF FixSize
<1>4. QED BY <1>1, <1>2, <1>3

\* The part of the image that a frag makes up.
Piece(f) == f.lit \o Fill(f)
PiecesOf(fs) == [i \in 1..Len(fs) |-> Piece(fs[i])]

LEMMA PieceIs ==
    ASSUME NEW f \in FragRecords
    PROVE  /\ Piece(f) \in Seq(Byte) /\ Len(Piece(f)) = FixSize(f) + FillSize(f)
           /\ \A j \in 1..FixSize(f) : Piece(f)[j] = f.lit[j]
           /\ \A j \in 1..FillSize(f) : Piece(f)[FixSize(f) + j] = f.fill
<1> DEFINE x == f.lit  y == Fill(f)  n == FillSize(f)
<1>1. x \in Seq(Byte) /\ n \in Nat /\ f.fill \in Byte /\ Len(x) \in Nat
    BY SizesTyped
<1>2. y = [k \in 1..n |-> f.fill]
    BY DEF Fill
<1> HIDE DEF y, n, x
<1>3. y \in [1..n -> Byte]
    BY <1>1, <1>2
<1>4. y \in Seq(Byte) /\ Len(y) = n /\ \A j \in 1..n : y[j] = f.fill
    BY <1>1, <1>2, <1>3
<1>5. /\ x \o y \in Seq(Byte) /\ Len(x \o y) = Len(x) + Len(y)
      /\ \A i \in 1..Len(x) + Len(y) : (x \o y)[i] = IF i <= Len(x) THEN x[i] ELSE y[i - Len(x)]
    BY <1>1, <1>4, ConcatProperties
<1> DEFINE z == x \o y
<1>6. z \in Seq(Byte) /\ Len(z) = Len(x) + Len(y)
      /\ \A i \in 1..Len(x) + Len(y) : z[i] = IF i <= Len(x) THEN x[i] ELSE y[i - Len(x)]
    BY <1>5
<1>7. Piece(f) = z
    BY DEF Piece, x, y
<1> HIDE DEF z
<1>8. \A j \in 1..Len(x) : z[j] = x[j]
    BY <1>1, <1>4, <1>6
<1>9. ASSUME NEW j \in 1..n PROVE z[Len(x) + j] = f.fill
    <2>1. Len(x) + j \in 1..Len(x) + Len(y) /\ ~ (Len(x) + j <= Len(x)) /\ Len(x) + j - Len(x) = j
        BY <1>1, <1>4
    <2>2. z[Len(x) + j] = y[Len(x) + j - Len(x)]
        BY <1>6, <2>1
    <2>3. QED BY <1>4, <2>1, <2>2
<1>10. Len(x) = FixSize(f) /\ n = FillSize(f) /\ x = f.lit
    BY DEF FixSize, x, n
<1>11. QED BY <1>4, <1>6, <1>7, <1>8, <1>9, <1>10

LEMMA LayoutRun ==
    ASSUME NEW fs \in Seq(FragRecords)
    PROVE  /\ Layout(fs) \in [1..Len(fs) + 1 -> Nat] /\ Layout(fs)[1] = 0
           /\ \A i \in 1..Len(fs) : Layout(fs)[i + 1] = Layout(fs)[i] + FixSize(fs[i]) + FillSize(fs[i])
<1> DEFINE s == [i \in DOMAIN fs |-> [a \in Int |-> a + FixSize(fs[i]) + FillSize(fs[i])]]
<1>1. Len(fs) \in Nat /\ DOMAIN fs = 1..Len(fs) /\ \A i \in 1..Len(fs) : fs[i] \in FragRecords
    OBVIOUS
<1>2. \A i \in 1..Len(fs) : \A a \in Nat : s[i][a] = a + FixSize(fs[i]) + FillSize(fs[i])
    BY <1>1
<1>3. \A i \in 1..Len(fs) : \A a \in Nat : s[i][a] \in Nat
    BY <1>1, <1>2, SizesTyped
<1>4. Layout(fs) = Before(Len(fs), 0, s)
    BY DEF Layout
<1> HIDE DEF s
<1>5. Runs(Len(fs), Nat, 0, s, Layout(fs))
    BY <1>1, <1>3, <1>4, BeforeIs, 0 \in Nat
<1>6. ASSUME NEW i \in 1..Len(fs)
      PROVE  Layout(fs)[i + 1] = Layout(fs)[i] + FixSize(fs[i]) + FillSize(fs[i])
    <2>1. Layout(fs)[i + 1] = s[i][Layout(fs)[i]] /\ Layout(fs)[i] \in Nat
        BY <1>1, <1>5, RunAt
    <2>2. QED BY <1>2, <2>1
<1>7. QED BY <1>5, <1>6 DEF Runs

\* The image holds the frags one after the other.
LEMMA ImageIs ==
    ASSUME NEW fs \in Seq(FragRecords)
    PROVE  /\ Image(fs) \in Seq(Byte) /\ Len(Image(fs)) = Layout(fs)[Len(fs) + 1]
           /\ Layout(fs) \in [1..Len(fs) + 1 -> Nat]
           /\ \A i \in 1..Len(fs) : Layout(fs)[i] + FixSize(fs[i]) + FillSize(fs[i]) <= Len(Image(fs))
           /\ \A i \in 1..Len(fs) : \A j \in 1..FixSize(fs[i]) :
                Image(fs)[Layout(fs)[i] + j] = fs[i].lit[j]
           /\ \A i \in 1..Len(fs) : \A j \in 1..FillSize(fs[i]) :
                Image(fs)[Layout(fs)[i] + FixSize(fs[i]) + j] = fs[i].fill
<1> DEFINE n == Len(fs)  ps == PiecesOf(fs)  at == Layout(fs)
<1>1. n \in Nat /\ DOMAIN fs = 1..n /\ \A i \in 1..n : fs[i] \in FragRecords
    OBVIOUS
<1>2. \A i \in 1..n : ps[i] = Piece(fs[i])
    BY DEF PiecesOf
<1>3. ps \in [1..n -> Seq(Byte)]
    BY <1>1, PieceIs DEF PiecesOf
<1>4. /\ at \in [1..n + 1 -> Nat] /\ at[1] = 0
      /\ \A i \in 1..n : at[i + 1] = at[i] + FixSize(fs[i]) + FillSize(fs[i])
    BY LayoutRun
<1>5. \A i \in 1..n : Len(ps[i]) = FixSize(fs[i]) + FillSize(fs[i]) /\ FixSize(fs[i]) \in Nat
                      /\ FillSize(fs[i]) \in Nat
    BY <1>1, <1>2, PieceIs, SizesTyped
<1>6. Image(fs) = FlattenSeq(ps)
    BY <1>1 DEF Image, PiecesOf, Piece
<1> HIDE DEF n, ps, at
<1>7. ASSUME NEW i \in 1..n PROVE at[i] \in Nat /\ at[i + 1] = at[i] + Len(ps[i])
    <2>1. i \in 1..n + 1
        BY <1>1
    <2>2. at[i] \in Nat /\ at[i + 1] = at[i] + FixSize(fs[i]) + FillSize(fs[i])
        BY <1>4, <2>1
    <2>3. /\ Len(ps[i]) = FixSize(fs[i]) + FillSize(fs[i])
          /\ FixSize(fs[i]) \in Nat /\ FillSize(fs[i]) \in Nat
        BY <1>5
    <2>4. QED BY <2>2, <2>3
<1>8. Starts(ps, n, at)
    BY <1>4, <1>7 DEF Starts
<1>9. Laid(Byte, Image(fs), ps, n, at)
    BY <1>1, <1>3, <1>6, <1>8, FlattenSegment
<1>10. /\ Image(fs) \in Seq(Byte) /\ Len(Image(fs)) = at[n + 1]
       /\ \A i \in 1..n : at[i + 1] <= at[n + 1]
       /\ \A i \in 1..n : \A j \in 1..Len(ps[i]) : Image(fs)[at[i] + j] = ps[i][j]
    BY <1>9 DEF Laid
<1>11. ASSUME NEW i \in 1..n
       PROVE  /\ at[i] + FixSize(fs[i]) + FillSize(fs[i]) <= Len(Image(fs))
              /\ \A j \in 1..FixSize(fs[i]) : Image(fs)[at[i] + j] = fs[i].lit[j]
              /\ \A j \in 1..FillSize(fs[i]) : Image(fs)[at[i] + FixSize(fs[i]) + j] = fs[i].fill
    <2> DEFINE a == FixSize(fs[i])  b == FillSize(fs[i])
    <2>1. /\ \A j \in 1..a : ps[i][j] = fs[i].lit[j]
          /\ \A j \in 1..b : ps[i][a + j] = fs[i].fill
          /\ Len(ps[i]) = a + b /\ a \in Nat /\ b \in Nat /\ at[i] \in Nat
        BY <1>1, <1>2, <1>5, <1>7, PieceIs
    <2>2. at[i] + a + b <= Len(Image(fs))
        BY <1>4, <1>10
    <2> HIDE DEF a, b
    <2>3. ASSUME NEW j \in 1..a PROVE Image(fs)[at[i] + j] = fs[i].lit[j]
        <3>1. j \in 1..Len(ps[i])
            BY <2>1
        <3>2. QED BY <1>10, <2>1, <3>1
    <2>4. ASSUME NEW j \in 1..b PROVE Image(fs)[at[i] + a + j] = fs[i].fill
        <3>1. a + j \in 1..Len(ps[i]) /\ at[i] + (a + j) = at[i] + a + j
            BY <2>1
        <3>2. QED BY <1>10, <2>1, <3>1
    <2>5. QED BY <2>2, <2>3, <2>4 DEF a, b
<1>12. QED BY <1>4, <1>10, <1>11 DEF n, at

\* Encoding a field changes no length.
LEMMA EncodeTyped ==
    ASSUME NEW buf \in Seq(Byte), NEW at, NEW form, NEW v
    PROVE  /\ EncodeAt(buf, at, form, v) \in Seq(Byte)
           /\ Len(EncodeAt(buf, at, form, v)) = Len(buf)
<1>1. Len(buf) \in Nat /\ DOMAIN buf = 1..Len(buf) /\ \A k \in 1..Len(buf) : buf[k] \in Byte
    OBVIOUS
<1>2. ASSUME NEW n, NEW w
      PROVE  WrLe(buf, at, n, w) \in Seq(Byte) /\ Len(WrLe(buf, at, n, w)) = Len(buf)
    <2> DEFINE g == WrLe(buf, at, n, w)
    <2>1. g \in [1..Len(buf) -> Byte]
        <3>1. \A k : ByteOf(w, k) \in Byte
            BY WordParts
        <3>2. QED BY <1>1, <3>1 DEF WrLe
    <2> HIDE DEF g
    <2>2. g \in Seq(Byte) /\ Len(g) = Len(buf)
        BY <1>1, <2>1, FunctionIsList
    <2>3. QED BY <2>2 DEF g
<1>3. QED BY <1>2 DEF EncodeAt

LEMMA EncodedTyped ==
    ASSUME Types
    PROVE  EncodedImage \in Seq(Byte) /\ Len(EncodedImage) = Len(Image(frags))
<1> DEFINE L == Len(Image(frags))
           A == {buf \in Seq(Byte) : Len(buf) = L}
           s == [k \in DOMAIN fixes |-> [buf \in Seq(Byte) |->
                   IF k \in Encodable \ OutOfRange
                   THEN EncodeAt(buf, Site(fixes[k]), fixes[k].form, FieldValue(fixes[k]))
                   ELSE buf]]
<1>1. frags \in Seq(FragRecords)
    BY DEF Types, ChainOK, FragsOK
<1>2. Image(frags) \in A
    BY <1>1, ImageIs
<1>3. DOMAIN fixes = 1..Len(fixes) /\ Len(fixes) \in Nat
    BY DEF Types, FixesOK
<1>4. ASSUME NEW k \in 1..Len(fixes), NEW a \in A PROVE s[k][a] \in A
    <2>1. a \in Seq(Byte) /\ Len(a) = L
        OBVIOUS
    <2> DEFINE e == EncodeAt(a, Site(fixes[k]), fixes[k].form, FieldValue(fixes[k]))
    <2>2. s[k][a] = e \/ s[k][a] = a
        BY <1>3, <2>1
    <2>3. e \in Seq(Byte) /\ Len(e) = L
        BY <2>1, EncodeTyped
    <2> HIDE DEF e, s, L
    <2>4. QED BY <2>1, <2>2, <2>3
<1>5. EncodedImage = After(Len(fixes), Image(frags), s)
    BY DEF EncodedImage
<1> HIDE DEF A, s
<1>6. After(Len(fixes), Image(frags), s) \in A
    BY <1>2, <1>3, <1>4, AfterIs
<1>7. QED BY <1>5, <1>6 DEF A

LEMMA CopiedTyped ==
    ASSUME NEW fs \in Seq(FragRecords), NEW buf \in Seq(Byte), Len(buf) = Len(Image(fs)),
           NEW i \in 1..Len(fs)
    PROVE  LET f == CopiedBack(fs, buf)[i]
           IN /\ f \in FragRecords /\ Len(f.lit) = Len(fs[i].lit)
              /\ f.lit = SubSeq(buf, Layout(fs)[i] + 1, Layout(fs)[i] + Len(fs[i].lit))
              /\ \A j \in 1..Len(fs[i].lit) : f.lit[j] = buf[Layout(fs)[i] + j]
              /\ f.type = fs[i].type /\ f.fill = fs[i].fill /\ f.var = fs[i].var
              /\ f.off = fs[i].off /\ f.sub = fs[i].sub /\ f.op = fs[i].op
<1> DEFINE a == Layout(fs)[i]  n == Len(fs[i].lit)  x == SubSeq(buf, a + 1, a + n)
           f == [fs[i] EXCEPT !.lit = x]
<1>1. fs[i] \in FragRecords /\ i \in 1..Len(fs) + 1 /\ DOMAIN fs = 1..Len(fs)
    OBVIOUS
<1>2. /\ a \in Nat /\ n \in Nat /\ a + FixSize(fs[i]) + FillSize(fs[i]) <= Len(buf)
      /\ FixSize(fs[i]) = n /\ FillSize(fs[i]) \in Nat
    BY <1>1, ImageIs, SizesTyped DEF FixSize
<1>3. CopiedBack(fs, buf)[i] = f
    BY <1>1 DEF CopiedBack
<1> HIDE DEF a, n
<1>4. \A k \in (a + 1)..(a + n) : buf[k] \in Byte
    BY <1>2
<1>5. a + 1 \in Int /\ a + n \in Int
    BY <1>2
<1>6. /\ x \in Seq(Byte) /\ Len(x) = (IF a + 1 <= a + n THEN (a + n) - (a + 1) + 1 ELSE 0)
      /\ \A j \in 1..((a + n) - (a + 1) + 1) : x[j] = buf[(a + 1) + j - 1]
    BY <1>4, <1>5, SubSeqProperties
<1> DEFINE y == x
<1>7. y = SubSeq(buf, a + 1, a + n)
    OBVIOUS
<1>8. /\ y \in Seq(Byte) /\ Len(y) = (IF a + 1 <= a + n THEN (a + n) - (a + 1) + 1 ELSE 0)
      /\ \A j \in 1..((a + n) - (a + 1) + 1) : y[j] = buf[(a + 1) + j - 1]
    BY <1>6
<1>9. f = [fs[i] EXCEPT !.lit = y]
    OBVIOUS
<1> HIDE DEF x, y, f
<1>10. Len(y) = n
    BY <1>2, <1>8
<1>11. ASSUME NEW j \in 1..n PROVE y[j] = buf[a + j]
    <2>1. j \in 1..((a + n) - (a + 1) + 1) /\ (a + 1) + j - 1 = a + j
        BY <1>2
    <2>2. y[j] = buf[(a + 1) + j - 1]
        BY <1>8, <2>1
    <2>3. QED BY <2>1, <2>2
<1>12. /\ f \in FragRecords /\ f.lit = y /\ f.type = fs[i].type /\ f.fill = fs[i].fill
       /\ f.var = fs[i].var /\ f.off = fs[i].off /\ f.sub = fs[i].sub /\ f.op = fs[i].op
    BY <1>1, <1>8, <1>9 DEF FragRecords
<1>13. QED BY <1>3, <1>7, <1>10, <1>11, <1>12 DEF a, n

LEMMA ApplyStep ==
    ASSUME Types, ApplyTextFixups
    PROVE  Types'
<1> DEFINE new == CopiedBack(frags, EncodedImage)
<1>1. /\ phase = "fixups" /\ phase' = "report" /\ frags' = new
      /\ errors' = errors + Cardinality(OutOfRange)
      /\ unsup' \in BOOLEAN /\ unresolved' = Cardinality(Pending)
      /\ UNCHANGED <<job, source, syms, locals, fixes, items, parseErr, dirErr, secViol,
                     outputs>>
    BY DEF ApplyTextFixups
<1>2. frags \in Seq(FragRecords) /\ DOMAIN frags = 1..Len(frags)
    BY DEF Types, ChainOK, FragsOK
<1>3. ASSUME NEW i \in 1..Len(frags)
      PROVE  /\ FragOK(new[i]) /\ Len(new[i].lit) >= Len(frags[i].lit)
             /\ i < Len(frags) => new[i].type # "unset"
    <2>1. FragOK(frags[i]) /\ Len(frags[i].lit) \in Nat /\ (i < Len(frags) => frags[i].type # "unset")
        BY FragIs
    <2>2. /\ new[i] \in FragRecords /\ Len(new[i].lit) = Len(frags[i].lit)
          /\ new[i].type = frags[i].type /\ new[i].off = frags[i].off
          /\ new[i].sub = frags[i].sub /\ new[i].op = frags[i].op
        BY <1>2, EncodedTyped, CopiedTyped
    <2> HIDE DEF new
    <2>3. FragOK(new[i])
        BY <2>1, <2>2 DEF FragOK, MachineOK, PaddingOK
    <2>4. QED BY <2>1, <2>2, <2>3
<1>4. new = [i \in DOMAIN frags |-> new[i]]
    BY DEF CopiedBack
<1>5. ~ Parsing' /\ phase' \notin {"relax", "relaxing"}
    BY <1>1 DEF Parsing
<1> HIDE DEF new
<1>6. /\ ChainOK' /\ Grows(frags, frags') /\ FragsOK(frags) /\ FragsOK(frags')
      /\ Len(frags') = Len(frags)
    <2>1. frags' = [i \in DOMAIN frags |-> new[i]]
        BY <1>1, <1>4
    <2>2. QED BY <1>3, <1>5, <2>1, ChainMapped
<1>7. DOMAIN fixes = 1..Len(fixes) /\ Len(fixes) \in Nat
    BY DEF Types, FixesOK
<1>8. FixesOK' /\ Len(fixes') = Len(fixes)
    <2>1. fixes \in Seq(FixesIn(frags'))
        BY <1>6, FixesStayIn
    <2>2. QED BY <1>1, <2>1, FixesAreIn
<1>9. Cardinality(OutOfRange) \in Nat /\ Cardinality(Pending) \in 0..Len(fixes)
    <2>1. OutOfRange \in SUBSET (1..Len(fixes)) /\ Pending \in SUBSET (1..Len(fixes))
        BY <1>7 DEF OutOfRange, Encodable, Known, Pending
    <2>2. QED BY <1>7, <2>1, Positions
<1>10. FlagsOK'
    BY <1>1, <1>8, <1>9 DEF Types, FlagsOK
<1>11. SymbolsOK'
    BY <1>1, <1>6 DEF Types, SymbolsOK, SymsTyped
<1>12. SourceOK' /\ ItemsOK' /\ OutputOK' /\ phase' \in Phases
    BY <1>1 DEF Types, SourceOK, ItemsOK, OutputOK, source, outputs, Phases
<1>13. QED BY <1>1, <1>6, <1>8, <1>10, <1>11, <1>12 DEF Types

-----------------------------------------------------------------------------
(* The answer.                                                             *)

LEMMA ReportStep ==
    ASSUME Types, Report
    PROVE  Types'
<1>1. /\ phase = "report" /\ phase' \in {"decode", "done"}
      /\ result'.bytes \in {<<>>, Image(frags)}
      /\ UNCHANGED <<job, source, section, flags, insns, off>>
    BY DEF Report, NoResult
<1>2. Image(frags) \in Seq(Byte)
    <2>1. frags \in Seq(FragRecords)
        BY DEF Types, ChainOK, FragsOK
    <2>2. QED BY <2>1, ImageIs
<1>3. result'.bytes \in Seq(Byte) /\ Len(result'.bytes) \in Nat
    <2> DEFINE x == result'.bytes  y == Image(frags)
    <2>1. x \in {<<>>, y} /\ y \in Seq(Byte) /\ <<>> \in Seq(Byte)
        BY <1>1, <1>2, EmptyTyped
    <2> HIDE DEF x, y
    <2>2. x \in Seq(Byte)
        BY <2>1
    <2>3. Len(x) \in Nat
        BY <2>2
    <2>4. QED BY <2>2, <2>3 DEF x
<1>4. off' = 0
    BY <1>1 DEF Types, OutputOK
<1>5. OutputOK'
    BY <1>1, <1>3, <1>4 DEF OutputOK
<1>6. ~ Parsing' /\ phase' \notin {"relax", "relaxing"} /\ ~ Parsing
    BY <1>1 DEF Parsing
<1>7. SymbolsOK' /\ ChainOK' /\ FixesOK' /\ ItemsOK' /\ SourceOK' /\ FlagsOK'
    <2>1. SymbolsOK' /\ FixesOK' /\ ItemsOK' /\ SourceOK' /\ FlagsOK'
        BY <1>1 DEF Types, SymbolsOK, SymsTyped, FixesOK, ItemsOK, SourceOK, FlagsOK,
                    source, section, flags
    <2>2. ChainOK'
        BY <1>1, <1>6 DEF Types, ChainOK, Parsing, section
    <2>3. QED BY <2>1, <2>2
<1>8. QED BY <1>1, <1>5, <1>7 DEF Types, Phases

\* One instruction takes bytes that are there.
LEMMA DisasmIs ==
    ASSUME NEW rest \in Seq(Byte), Len(rest) > 0, NEW one \in DisasmOne(rest)
    PROVE  \E n \in 1..Len(rest) : \E note \in Notes(SubSeq(rest, 1, n)) :
             /\ one.bytes = SubSeq(rest, 1, n) /\ Len(one.bytes) = n
             /\ one.text = StripAddrAnnotation(Text(one.bytes, note))
             /\ one.bytes \in Seq(Byte)
<1>1. Len(rest) \in Nat
    OBVIOUS
<1>2. PICK n \in InsnSizes(rest) :
        \E note \in Notes(SubSeq(rest, 1, n)) :
           one = [bytes |-> SubSeq(rest, 1, n),
                  text |-> StripAddrAnnotation(Text(SubSeq(rest, 1, n), note))]
    BY DEF DisasmOne
<1>3. n \in 1..Len(rest)
    <2>1. CASE Len(rest) = 1
        BY <1>2, <2>1 DEF InsnSizes
    <2>2. CASE Len(rest) > 1 /\ (0 \notin rest[1] \/ Len(rest) < 4)
        BY <1>1, <1>2, <2>2 DEF InsnSizes
    <2>3. CASE Len(rest) > 1 /\ ~ (0 \notin rest[1] \/ Len(rest) < 4)
        <3>1. InsnSizes(rest) = {2, 4}
            BY <1>1, <2>3 DEF InsnSizes
        <3>2. Len(rest) >= 4
            BY <1>1, <2>3
        <3>3. QED BY <1>1, <1>2, <3>1, <3>2
    <2>4. QED BY <1>1, <2>1, <2>2, <2>3
<1>4. SubSeq(rest, 1, n) \in Seq(Byte) /\ Len(SubSeq(rest, 1, n)) = n
    BY <1>3
<1>5. QED BY <1>2, <1>3, <1>4

LEMMA DecodeStep ==
    ASSUME Types, DecodeOne
    PROVE  Types'
<1> DEFINE rest == SubSeq(result.bytes, off + 1, Len(result.bytes))
<1>1. phase = "decode" /\ off < Len(result.bytes)
      /\ UNCHANGED <<job, phase, source, section, flags, result>>
    BY DEF DecodeOne, More
<1>2. PICK one \in DisasmOne(rest) : off' = off + Len(one.bytes)
    BY DEF DecodeOne
<1>3. result.bytes \in Seq(Byte) /\ off \in Nat /\ Len(result.bytes) \in Nat
    BY DEF Types, OutputOK
<1>4. rest \in Seq(Byte) /\ Len(rest) = Len(result.bytes) - off
    <2> DEFINE b == result.bytes
    <2>1. b \in Seq(Byte) /\ off \in Nat /\ Len(b) \in Nat /\ off < Len(b)
        BY <1>1, <1>3
    <2> HIDE DEF b
    <2>2. SubSeq(b, off + 1, Len(b)) \in Seq(Byte) /\ Len(SubSeq(b, off + 1, Len(b))) = Len(b) - off
        BY <2>1
    <2>3. QED BY <2>2 DEF b
<1> HIDE DEF rest
<1>5. Len(one.bytes) \in 1..Len(rest)
    <2>1. Len(rest) > 0
        BY <1>1, <1>3, <1>4
    <2>2. QED BY <1>2, <1>4, <2>1, DisasmIs
<1>6. off' \in 0..Len(result.bytes)
    BY <1>2, <1>3, <1>4, <1>5
<1>7. OutputOK'
    BY <1>1, <1>3, <1>6 DEF OutputOK
<1>8. SymbolsOK' /\ ChainOK' /\ FixesOK' /\ ItemsOK' /\ SourceOK' /\ FlagsOK'
    <2>1. SymbolsOK' /\ FixesOK' /\ ItemsOK' /\ SourceOK' /\ FlagsOK'
        BY <1>1 DEF Types, SymbolsOK, SymsTyped, FixesOK, ItemsOK, SourceOK, FlagsOK,
                    source, section, flags
    <2>2. ChainOK'
        BY <1>1 DEF Types, ChainOK, Parsing, section
    <2>3. QED BY <2>1, <2>2
<1>9. QED BY <1>1, <1>7, <1>8 DEF Types

LEMMA QuietSteps ==
    ASSUME Types, Decoded \/ UNCHANGED vars
    PROVE  Types'
<1>1. \/ phase' = phase
      \/ phase = "decode" /\ phase' = "done"
    BY DEF Decoded, vars
<1>2. UNCHANGED <<job, source, section, flags, outputs>>
    BY DEF Decoded, vars
<1>3. SymbolsOK' /\ FixesOK' /\ ItemsOK' /\ SourceOK' /\ FlagsOK'
    BY <1>2 DEF Types, SymbolsOK, SymsTyped, FixesOK, ItemsOK, SourceOK, FlagsOK,
                source, section, flags
<1>4. ChainOK' /\ OutputOK'
    BY <1>1, <1>2 DEF Types, ChainOK, OutputOK, Parsing, section, outputs
<1>5. QED BY <1>1, <1>2, <1>3, <1>4 DEF Types, Phases

LEMMA InitTypes == Init => Types
<1> SUFFICES ASSUME Init PROVE Types
    OBVIOUS
<1>1. job \in Jobs /\ phase \in {"decode", "reset"}
    BY DEF Init
<1>2. SourceOK
    BY EmptyTyped DEF Init, SourceOK
<1>3. FragOK(NewFrag("fill")) /\ NewFrag("fill").type = "fill" /\ NewFrag("fill").var = 0
    BY NewFragTyped DEF FragTypes, NewFrag
<1>4. FragsOK(frags) /\ Len(frags) = 1 /\ frags[1] = NewFrag("fill")
    <2> DEFINE f == NewFrag("fill")
    <2>1. frags = <<f>> /\ f \in FragRecords
        BY <1>3 DEF Init, FreshChain, FragOK
    <2> HIDE DEF f
    <2>2. frags \in Seq(FragRecords) /\ Len(frags) = 1 /\ frags[1] = f
        BY <2>1
    <2>3. QED BY <1>3, <2>2 DEF FragsOK, f
<1>5. ChainOK
    <2>1. Last(frags).type = "fill"
        BY <1>3, <1>4 DEF Last
    <2>2. \A i \in 1..Len(frags) : frags[i].var = 0
        BY <1>3, <1>4
    <2>3. QED BY <1>4, <2>1, <2>2 DEF ChainOK
<1>6. SymbolsOK
    <2>1. syms = <<>> /\ locals = [l \in Locals |-> 0]
        BY DEF Init
    <2>2. DOMAIN syms = {}
        BY <2>1
    <2>3. IsFiniteSet(DOMAIN syms)
        BY <2>2, FS_EmptySet
    <2>4. syms \in [DOMAIN syms -> SymbolRecords]
        BY <2>1, <2>2
    <2>5. QED BY <2>1, <2>2, <2>3, <2>4 DEF SymbolsOK, SymsTyped
<1>7. FixesOK /\ Len(fixes) = 0
    BY EmptyTyped DEF Init, FixesOK
<1>8. FlagsOK /\ ItemsOK
    <2>1. items = <<>> /\ <<>> \in Seq(Items)
        BY EmptyTyped DEF Init
    <2>2. ItemsOK
        BY <2>1 DEF ItemsOK
    <2>3. FlagsOK
        <3>1. /\ errors = 0 /\ parseErr = FALSE /\ dirErr = FALSE /\ secViol = FALSE
              /\ unsup = FALSE /\ unresolved = 0
            BY DEF Init
        <3>2. unresolved \in 0..Len(fixes) /\ errors \in Nat
            BY <1>7, <3>1
        <3>3. QED BY <3>1, <3>2 DEF FlagsOK
    <2>4. QED BY <2>2, <2>3
<1>9. OutputOK
    <2>1. result.bytes = job.bytes /\ off = 0
        BY DEF Init, NoResult
    <2>2. job.bytes \in Seq(Byte)
        BY <1>1, JobTypes
    <2>3. QED BY <2>1, <2>2 DEF OutputOK
<1>10. QED BY <1>1, <1>2, <1>5, <1>6, <1>7, <1>8, <1>9 DEF Types, Phases

LEMMA NextTypes == Types /\ [Next]_vars => Types'
<1> SUFFICES ASSUME Types, [Next]_vars PROVE Types'
    OBVIOUS
<1>1. CASE Reset \/ NextStatement
    BY <1>1, TextSteps
<1>2. CASE Label
    BY <1>2, LabelStep
<1>3. CASE IntList
    BY <1>3, IntListStep
<1>4. CASE ConsList
    BY <1>4, ConsListStep
<1>5. CASE Ascii
    BY <1>5, AsciiStep
<1>6. CASE Skip
    BY <1>6, SkipStep
<1>7. CASE Org
    BY <1>7, OrgStep
<1>8. CASE Align
    BY <1>8, AlignStep
<1>9. CASE Equ
    BY <1>9, EquStep
<1>10. CASE Accepted \/ SwitchesSection \/ Unsupported
    BY <1>10, SectionSteps
<1>11. CASE Instruction
    BY <1>11, InstructionStep
<1>12. CASE DefineLabels
    BY <1>12, DefineLabelsStep
<1>13. CASE RelaxBranches
    BY <1>13, RelaxBranchesStep
<1>14. CASE RelaxSegment
    BY <1>14, RelaxSegmentStep
<1>15. CASE ConvertAndFinalize
    BY <1>15, ConvertStep
<1>16. CASE ApplyTextFixups
    BY <1>16, ApplyStep
<1>17. CASE Report
    BY <1>17, ReportStep
<1>18. CASE DecodeOne
    BY <1>18, DecodeStep
<1>19. CASE Decoded \/ Returned \/ UNCHANGED vars
    BY <1>19, QuietSteps DEF Returned
<1>20. QED BY <1>1, <1>2, <1>3, <1>4, <1>5, <1>6, <1>7, <1>8, <1>9, <1>10, <1>11, <1>12,
              <1>13, <1>14, <1>15, <1>16, <1>17, <1>18, <1>19 DEF Next

LEMMA TypesHold == Spec => []Types
BY InitTypes, NextTypes, PTL DEF Spec

(* The variables of a call keep their types in every pass, every fixup     *)
(* lies within its frag and no offset leaves the bytes, for any table of   *)
(* instructions and relax states and any call.                             *)
THEOREM CallTypes == Spec => []TextTypeOK
<1>1. Types => TextTypeOK
    <2> SUFFICES ASSUME Types PROVE TextTypeOK
        OBVIOUS
    <2>1. phase \in Phases /\ errors \in Nat /\ {parseErr, dirErr, secViol, unsup} \subseteq BOOLEAN
          /\ unresolved \in 0..Len(fixes) /\ off \in 0..Len(result.bytes)
        BY DEF Types, FlagsOK, OutputOK
    <2>2. \A s \in DOMAIN syms : /\ s \in Symbols
                                 /\ syms[s].seg \in {"text", "absolute", "alias"}
                                 /\ syms[s].frag \in 0..Len(frags) /\ syms[s].val \in Word
        BY DEF Types, SymbolsOK, SymsTyped, SymbolRecords
    <2>3. DOMAIN frags = 1..Len(frags) /\ Len(frags) \in Nat
        BY DEF Types, ChainOK, FragsOK
    <2>4. ASSUME NEW i \in DOMAIN frags
          PROVE  IsFrag(frags[i]) /\ (i > 1 => frags[i - 1].type # "unset")
        <3>1. frags[i] \in FragRecords
            BY <2>3, FragIs
        <3>2. IsFrag(frags[i])
            <4> DEFINE lit == frags[i].lit
            <4>1. lit \in Seq(Byte)
                BY <3>1 DEF FragRecords
            <4> HIDE DEF lit
            <4>2. \A k \in DOMAIN lit : lit[k] \in Byte
                BY <4>1
            <4>3. QED BY <3>1, <4>2 DEF FragRecords, IsFrag, lit
        <3>3. i > 1 => i - 1 \in 1..Len(frags) - 1
            BY <2>3
        <3>4. QED BY <3>2, <3>3 DEF Types, ChainOK
    <2>5. ASSUME NEW k \in DOMAIN fixes
          PROVE  /\ fixes[k].frag \in DOMAIN frags /\ fixes[k].add \in Word
                 /\ fixes[k].where < FixSize(frags[fixes[k].frag])
        <3>1. fixes[k] \in Fixups /\ FixIn(fixes[k], frags)
            BY DEF Types, FixesOK
        <3>2. QED BY <2>3, <3>1 DEF Fixups, FixIn
    <2>6. QED BY <2>1, <2>2, <2>4, <2>5 DEF TextTypeOK, Phases
<1>2. QED BY <1>1, TypesHold, PTL

-----------------------------------------------------------------------------
(* The decoding.                                                           *)

\* Every text is the same to the model, whatever was noted at its end.
InsnRecords == [address : Word, bytes : Seq(Byte), text : {Text(<<>>, <<>>)}]

Ends(s) == Before(Len(s), 0, [k \in DOMAIN s |-> [n \in Nat |-> n + Len(s[k].bytes)]])

LEMMA EndsRun ==
    ASSUME NEW s \in Seq(InsnRecords)
    PROVE  /\ Runs(Len(s), Nat, 0,
                   [k \in DOMAIN s |-> [n \in Nat |-> n + Len(s[k].bytes)]], Ends(s))
           /\ Ends(s) \in [1..Len(s) + 1 -> Nat] /\ Ends(s)[1] = 0
           /\ \A k \in 1..Len(s) : Ends(s)[k + 1] = Ends(s)[k] + Len(s[k].bytes)
<1> DEFINE t == [k \in DOMAIN s |-> [n \in Nat |-> n + Len(s[k].bytes)]]
<1>1. Len(s) \in Nat /\ DOMAIN s = 1..Len(s) /\ \A k \in 1..Len(s) : s[k] \in InsnRecords
    OBVIOUS
<1>2. ASSUME NEW k \in 1..Len(s) PROVE Len(s[k].bytes) \in Nat
    <2>1. s[k].bytes \in Seq(Byte)
        BY <1>1 DEF InsnRecords
    <2>2. QED BY <2>1
<1>3. \A k \in 1..Len(s) : \A n \in Nat : t[k][n] = n + Len(s[k].bytes)
    BY <1>1
<1>4. \A k \in 1..Len(s) : \A n \in Nat : t[k][n] \in Nat
    BY <1>2, <1>3
<1>5. Ends(s) = Before(Len(s), 0, t)
    BY DEF Ends
<1> HIDE DEF t
<1>6. Runs(Len(s), Nat, 0, t, Ends(s))
    BY <1>1, <1>4, <1>5, BeforeIs, 0 \in Nat
<1>7. ASSUME NEW k \in 1..Len(s) PROVE Ends(s)[k + 1] = Ends(s)[k] + Len(s[k].bytes)
    <2>1. Ends(s)[k + 1] = t[k][Ends(s)[k]] /\ Ends(s)[k] \in Nat
        BY <1>1, <1>6, RunAt
    <2>2. QED BY <1>3, <2>1
<1>8. QED BY <1>6, <1>7 DEF Runs, t

LEMMA MoreRuns ==
    ASSUME NEW n \in Nat, NEW A, NEW x, NEW s, NEW t, NEW g, NEW h,
           Runs(n, A, x, s, g), Runs(n + 1, A, x, t, h),
           \A i \in 1..n : \A a \in A : s[i][a] = t[i][a], NEW i \in 1..(n + 1)
    PROVE  g[i] = h[i]
<1>1. n \in Nat /\ n + 1 \in Nat /\ n <= n /\ n <= n + 1
    OBVIOUS
<1>2. QED BY <1>1, RunsAgree

\* One more instruction moves none of the others.
LEMMA EndsAppend ==
    ASSUME NEW s \in Seq(InsnRecords), NEW x \in InsnRecords
    PROVE  /\ Append(s, x) \in Seq(InsnRecords) /\ Len(Append(s, x)) = Len(s) + 1
           /\ \A k \in 1..Len(s) : Append(s, x)[k] = s[k]
           /\ Append(s, x)[Len(s) + 1] = x
           /\ \A k \in 1..Len(s) + 1 : Ends(Append(s, x))[k] = Ends(s)[k]
           /\ Ends(Append(s, x))[Len(s) + 2] = Ends(s)[Len(s) + 1] + Len(x.bytes)
<1> DEFINE n == Len(s)  r == Append(s, x)
           t == [k \in DOMAIN s |-> [m \in Nat |-> m + Len(s[k].bytes)]]
           u == [k \in DOMAIN r |-> [m \in Nat |-> m + Len(r[k].bytes)]]
<1>1. /\ r \in Seq(InsnRecords) /\ Len(r) = n + 1 /\ n \in Nat /\ r[n + 1] = x
      /\ \A k \in 1..n : r[k] = s[k]
    BY AppendProperties
<1>2. DOMAIN s = 1..n /\ DOMAIN r = 1..n + 1
    BY <1>1
<1>3. Runs(n, Nat, 0, t, Ends(s)) /\ Runs(n + 1, Nat, 0, u, Ends(r))
    <2> HIDE DEF r
    <2>1. Runs(n, Nat, 0, t, Ends(s))
        BY EndsRun
    <2>2. Runs(Len(r), Nat, 0, [k \in DOMAIN r |-> [m \in Nat |-> m + Len(r[k].bytes)]], Ends(r))
        BY <1>1, EndsRun
    <2>3. QED BY <1>1, <2>1, <2>2
<1> HIDE DEF r
<1>4. ASSUME NEW k \in 1..n, NEW m \in Nat PROVE t[k][m] = u[k][m]
    <2>1. k \in DOMAIN s /\ k \in DOMAIN r /\ r[k] = s[k]
        BY <1>1, <1>2
    <2>2. t[k][m] = m + Len(s[k].bytes)
        BY <2>1
    <2>3. u[k][m] = m + Len(r[k].bytes)
        BY <2>1
    <2>4. QED BY <2>1, <2>2, <2>3
<1> HIDE DEF t, u, n
<1>5. \A k \in 1..n + 1 : Ends(s)[k] = Ends(r)[k]
    <2>1. n <= n /\ n <= n + 1 /\ n + 1 \in Nat /\ n \in Nat
        BY <1>1
    <2>2. \A i \in 1..n : \A a \in Nat : t[i][a] = u[i][a]
        BY <1>4
    <2> DEFINE g == Ends(s)  h == Ends(r)
    <2>3. Runs(n, Nat, 0, t, g) /\ Runs(n + 1, Nat, 0, u, h)
        BY <1>3
    <2> HIDE DEF g, h
    <2>4. ASSUME NEW k \in 1..n + 1 PROVE g[k] = h[k]
        BY <2>1, <2>2, <2>3, <2>4, MoreRuns
    <2>5. QED BY <2>4 DEF g, h
<1>6. Ends(r)[n + 2] = Ends(r)[n + 1] + Len(x.bytes)
    <2>1. n + 1 \in 1..Len(r) /\ n + 1 + 1 = n + 2
        BY <1>1
    <2>2. Ends(r)[n + 1 + 1] = Ends(r)[n + 1] + Len(r[n + 1].bytes)
        BY <1>1, <2>1, EndsRun
    <2>3. QED BY <1>1, <2>1, <2>2
<1>7. n + 1 \in 1..n + 1
    BY <1>1
<1>8. QED BY <1>1, <1>5, <1>6, <1>7 DEF r, n

\* A piece of a piece.
LEMMA PartOfRest ==
    ASSUME NEW b \in Seq(Byte), NEW o \in Nat, NEW n \in Nat, o + n <= Len(b)
    PROVE  SubSeq(SubSeq(b, o + 1, Len(b)), 1, n) = SubSeq(b, o + 1, o + n)
<1> DEFINE rest == SubSeq(b, o + 1, Len(b))  x == SubSeq(rest, 1, n)  y == SubSeq(b, o + 1, o + n)
<1>1. Len(b) \in Nat /\ \A i \in 1..Len(b) : b[i] \in Byte
    OBVIOUS
<1>2. rest \in Seq(Byte) /\ Len(rest) = Len(b) - o
      /\ \A j \in 1..Len(b) - o : rest[j] = b[o + j]
    BY <1>1
<1>3. /\ y \in Seq(Byte) /\ Len(y) = n
      /\ \A j \in 1..n : y[j] = b[o + j]
    BY <1>1
<1> HIDE DEF rest, y
<1>4. n <= Len(rest)
    BY <1>1, <1>2
<1>5. x \in Seq(Byte) /\ Len(x) = n /\ \A j \in 1..n : x[j] = rest[j]
    BY <1>2, <1>4
<1> HIDE DEF x
<1>6. ASSUME NEW j \in 1..n PROVE x[j] = y[j]
    <2>1. j \in 1..Len(b) - o
        BY <1>1
    <2>2. QED BY <1>2, <1>3, <1>5, <2>1
<1>7. x = y
    BY <1>3, <1>5, <1>6
<1>8. QED BY <1>7 DEF x, y, rest

DecodeInv ==
    /\ insns \in Seq(InsnRecords)
    /\ off = Ends(insns)[Len(insns) + 1]
    /\ \A k \in 1..Len(insns) :
         /\ insns[k].address = Plus(job.base, ToWord(Ends(insns)[k]))
         /\ insns[k].bytes = SubSeq(result.bytes, Ends(insns)[k] + 1, Ends(insns)[k + 1])
    /\ Counted => Len(insns) <= job.count
    /\ phase \notin {"decode", "done"} => insns = <<>>
    /\ job.call = "disassemble" => phase \in {"decode", "done"}
    /\ phase = "done" /\ job.call # "assemble" =>
         off = Len(result.bytes) \/ (Counted /\ Len(insns) = job.count)

LEMMA InitDecode == Init => DecodeInv
<1> SUFFICES ASSUME Init PROVE DecodeInv
    OBVIOUS
<1>1. insns = <<>> /\ off = 0 /\ phase = (IF job.call = "disassemble" THEN "decode" ELSE "reset")
    BY DEF Init
<1>2. job.count \in Nat
    BY JobTypes DEF Init
<1>3. insns \in Seq(InsnRecords) /\ Len(insns) = 0
    BY <1>1, EmptyTyped
<1>4. Ends(insns)[1] = 0
    BY <1>3, EndsRun
<1>5. QED BY <1>1, <1>2, <1>3, <1>4 DEF DecodeInv, Counted

\* Before the answer nothing is decoded.
LEMMA DecodeWaits ==
    ASSUME DecodeInv, UNCHANGED <<job, outputs>>,
           phase \notin {"decode", "done"}, phase' \notin {"decode", "done"}
    PROVE  DecodeInv'
<1>1. UNCHANGED <<job, result, insns, off>>
    BY DEF outputs
<1>2. Counted' <=> Counted
    BY <1>1 DEF Counted
<1>3. job.call # "disassemble"
    BY DEF DecodeInv
<1>4. QED BY <1>1, <1>2, <1>3 DEF DecodeInv

LEMMA DecodeReport ==
    ASSUME DecodeInv, Report, job \in Jobs
    PROVE  DecodeInv'
<1>1. /\ phase = "report" /\ UNCHANGED <<job, insns, off>>
      /\ phase' = IF Status = "OK" /\ job.call = "instructions" THEN "decode" ELSE "done"
      /\ Status # "OK" => result'.bytes = <<>>
    BY DEF Report, NoResult
<1>2. insns = <<>> /\ job.call # "disassemble" /\ ~ Counted /\ ~ Counted'
    BY <1>1 DEF DecodeInv, Counted
<1>3. insns \in Seq(InsnRecords) /\ Len(insns) = 0 /\ off = 0
    <2>1. Ends(insns)[1] = 0
        BY EndsRun DEF DecodeInv
    <2>2. QED BY <1>2, <2>1 DEF DecodeInv
<1>4. ASSUME phase' = "done", job'.call # "assemble" PROVE off' = Len(result'.bytes)
    <2>1. CASE Status # "OK"
        <3>1. result'.bytes = <<>>
            BY <1>1, <2>1
        <3>2. QED BY <1>1, <1>3, <3>1
    <2>2. CASE Status = "OK"
        <3>1. job.call \in Calls
            BY JobTypes
        <3>2. job.call \notin {"instructions", "assemble", "disassemble"}
            BY <1>1, <1>2, <1>4, <2>2
        <3>3. QED BY <3>1, <3>2 DEF Calls
    <2>3. QED BY <2>1, <2>2
<1>5. QED BY <1>1, <1>2, <1>3, <1>4 DEF DecodeInv

\* The characters a text is made of.
Marks == {"op", "%a2", " ", "<", "0xdead", ">"}

LEMMA TwoTyped ==
    ASSUME NEW A, NEW a \in A, NEW b \in A
    PROVE  /\ <<a, b>> \in Seq(A) /\ Len(<<a, b>>) = 2
           /\ <<a, b>>[1] = a /\ <<a, b>>[2] = b
OBVIOUS

LEMMA FourTyped ==
    ASSUME NEW A, NEW a \in A, NEW b \in A, NEW c \in A, NEW d \in A
    PROVE  /\ <<a, b, c, d>> \in Seq(A) /\ Len(<<a, b, c, d>>) = 4
           /\ <<a, b, c, d>>[1] = a /\ <<a, b, c, d>>[2] = b
           /\ <<a, b, c, d>>[3] = c /\ <<a, b, c, d>>[4] = d
OBVIOUS

LEMMA MarkTyped ==
    /\ "op" \in Marks /\ "%a2" \in Marks /\ " " \in Marks
    /\ "<" \in Marks /\ "0xdead" \in Marks /\ ">" \in Marks
BY DEF Marks

LEMMA MarksDiffer == "op" # " " /\ "%a2" # " " /\ "<" # ">" /\ "0xdead" # ">"
OBVIOUS

LEMMA Joined ==
    ASSUME NEW A, NEW u \in Seq(A), NEW v \in Seq(A), Len(u) = 2, Len(v) = 4
    PROVE  /\ u \o v \in Seq(A) /\ Len(u \o v) = 6
           /\ (u \o v)[1] = u[1] /\ (u \o v)[2] = u[2] /\ (u \o v)[3] = v[1]
           /\ (u \o v)[4] = v[2] /\ (u \o v)[5] = v[3] /\ (u \o v)[6] = v[4]
<1> DEFINE t == u \o v
<1>1. /\ t \in Seq(A) /\ Len(t) = Len(u) + Len(v)
      /\ \A i \in 1..Len(u) + Len(v) : t[i] = IF i <= Len(u) THEN u[i] ELSE v[i - Len(u)]
    BY ConcatProperties
<1> HIDE DEF t
<1>2. t[1] = u[1] /\ t[2] = u[2] /\ t[3] = v[1] /\ t[4] = v[2] /\ t[5] = v[3] /\ t[6] = v[4]
    BY <1>1
<1>3. QED BY <1>1, <1>2 DEF t

\* A text: two pieces, and perhaps a note of four.
Noted(A, sp, lt, gt, t) ==
    /\ t \in Seq(A) /\ t[1] # sp /\ t[2] # sp /\ lt # gt
    /\ \/ Len(t) = 2
       \/ Len(t) = 6 /\ t[3] = sp /\ t[4] = lt /\ t[5] # gt /\ t[6] = gt

LEMMA TextAt ==
    ASSUME NEW b, NEW note \in Notes(b)
    PROVE  /\ Noted(Marks, " ", "<", ">", Text(b, note))
           /\ Text(<<>>, <<>>) = <<Text(b, note)[1], Text(b, note)[2]>>
<1> DEFINE u == <<"op", "%a2">>  v == <<" ", "<", "0xdead", ">">>
<1>1. u \in Seq(Marks) /\ Len(u) = 2 /\ u[1] = "op" /\ u[2] = "%a2"
    BY MarkTyped, TwoTyped, Zenon
<1>2. v \in Seq(Marks) /\ Len(v) = 4 /\ v[1] = " " /\ v[2] = "<" /\ v[3] = "0xdead" /\ v[4] = ">"
    BY MarkTyped, FourTyped, Zenon
<1>3. note = <<>> \/ note = v
    BY DEF Notes
<1>4. Text(b, note) = u \o note /\ Text(<<>>, <<>>) = u \o <<>>
    BY DEF Text
<1>5. u = <<u[1], u[2]>>
    BY <1>1, Zenon
<1> HIDE DEF u, v
<1>6. u \o <<>> = u
    BY <1>1, ConcatEmptySeq
<1>7. CASE note = <<>>
    <2>1. Text(b, note) = u
        BY <1>4, <1>6, <1>7
    <2>2. Noted(Marks, " ", "<", ">", u)
        BY <1>1, MarksDiffer, Zenon DEF Noted
    <2>3. QED BY <1>4, <1>5, <1>6, <2>1, <2>2, Zenon
<1>8. CASE note = v
    <2>1. /\ u \o v \in Seq(Marks) /\ Len(u \o v) = 6
          /\ (u \o v)[1] = u[1] /\ (u \o v)[2] = u[2] /\ (u \o v)[3] = v[1]
          /\ (u \o v)[4] = v[2] /\ (u \o v)[5] = v[3] /\ (u \o v)[6] = v[4]
        BY <1>1, <1>2, Joined, Zenon
    <2>2. Text(b, note) = u \o v
        BY <1>4, <1>8
    <2>3. Noted(Marks, " ", "<", ">", u \o v)
        BY <1>1, <1>2, <2>1, MarksDiffer, Zenon DEF Noted
    <2>4. QED BY <1>4, <1>5, <1>6, <2>1, <2>2, <2>3, Zenon
<1>9. QED BY <1>3, <1>7, <1>8

\* What is left of a text without the pieces behind the second.
LEMMA FirstTwo ==
    ASSUME NEW A, NEW n \in Nat, n >= 2, NEW t \in Seq(A), Len(t) = n, NEW ps,
           ps = [i \in 1..n |-> IF i <= 2 THEN <<t[i]>> ELSE <<>>]
    PROVE  FlattenSeq(ps) = <<t[1], t[2]>>
<1> DEFINE at == [i \in 1..n + 1 |-> IF i <= 3 THEN i - 1 ELSE 2]  all == FlattenSeq(ps)
           u == <<t[1], t[2]>>
<1>1. \A i \in 1..n : t[i] \in A
    OBVIOUS
<1>2. ASSUME NEW i \in 1..n PROVE ps[i] \in Seq(A) /\ Len(ps[i]) = (IF i <= 2 THEN 1 ELSE 0)
                                  /\ (i <= 2 => ps[i][1] = t[i])
    <2>1. t[i] \in A
        BY <1>1
    <2>2. CASE i <= 2
        BY <2>1, <2>2, SingleTyped
    <2>3. CASE ~ (i <= 2)
        BY <2>3, EmptyTyped
    <2>4. QED BY <2>2, <2>3
<1>3. ps \in [1..n -> Seq(A)]
    BY <1>2
<1>4. Starts(ps, n, at)
    <2>1. at \in [1..n + 1 -> Nat] /\ at[1] = 0
        OBVIOUS
    <2>2. ASSUME NEW i \in 1..n PROVE at[i + 1] = at[i] + Len(ps[i])
        <3>1. at[i] = (IF i <= 3 THEN i - 1 ELSE 2) /\ at[i + 1] = (IF i + 1 <= 3 THEN i + 1 - 1 ELSE 2)
            OBVIOUS
        <3>2. Len(ps[i]) = (IF i <= 2 THEN 1 ELSE 0)
            BY <1>2
        <3> DEFINE x == at[i]  y == at[i + 1]  z == Len(ps[i])
        <3>3. y = x + z
            <4>1. x = (IF i <= 3 THEN i - 1 ELSE 2) /\ y = (IF i + 1 <= 3 THEN i + 1 - 1 ELSE 2)
                  /\ z = (IF i <= 2 THEN 1 ELSE 0)
                BY <3>1, <3>2
            <4> HIDE DEF x, y, z
            <4>2. QED BY <4>1
        <3>4. QED BY <3>3
    <2>3. QED BY <2>1, <2>2 DEF Starts
<1>5. at[1] = 0 /\ at[2] = 1 /\ at[n + 1] = 2
    OBVIOUS
<1>6. 1 \in 1..n /\ 2 \in 1..n /\ 1 <= 2 /\ 2 <= 2
    OBVIOUS
<1>7. Len(ps[1]) = 1 /\ Len(ps[2]) = 1 /\ ps[1][1] = t[1] /\ ps[2][1] = t[2]
    BY <1>2, <1>6
<1> HIDE DEF at
<1>8. Laid(A, all, ps, n, at)
    BY <1>3, <1>4, FlattenSegment
<1>9. /\ all \in Seq(A) /\ Len(all) = 2
      /\ \A i \in 1..n : \A j \in 1..Len(ps[i]) : all[at[i] + j] = ps[i][j]
    BY <1>5, <1>8 DEF Laid
<1>10. 1 \in 1..Len(ps[1]) /\ 1 \in 1..Len(ps[2])
    BY <1>7
<1>11. all[at[1] + 1] = ps[1][1] /\ all[at[2] + 1] = ps[2][1]
    BY <1>6, <1>9, <1>10
<1>12. all[1] = t[1] /\ all[2] = t[2]
    <2>1. at[1] + 1 = 1 /\ at[2] + 1 = 2
        BY <1>5
    <2>2. QED BY <1>7, <1>11, <2>1
<1>13. u \in Seq(A) /\ Len(u) = 2 /\ u[1] = t[1] /\ u[2] = t[2]
    BY <1>1, <1>6
<1> HIDE DEF all, u
<1>14. \A i \in 1..Len(all) : all[i] = u[i]
    BY <1>9, <1>12, <1>13
<1>15. all = u
    BY <1>9, <1>13, <1>14, SeqEqual
<1>16. QED BY <1>15 DEF all, u

LEMMA PairAt ==
    ASSUME NEW A, NEW t \in Seq(A), NEW i \in 1..Len(t)
    PROVE  /\ Pair(t, i)[1] = t[i]
           /\ i < Len(t) => Pair(t, i) = <<t[i], t[i + 1]>>
<1> DEFINE n == Len(t)  m == Min({i + 1, n})
<1>1. n \in Nat /\ i \in Nat /\ 1 <= i /\ i <= n /\ \A k \in 1..n : t[k] \in A
    OBVIOUS
<1>2. Pair(t, i) = SubSeq(t, i, m)
    BY DEF Pair
<1> HIDE DEF n
<1>3. m \in Nat /\ m >= i /\ m <= n /\ (i < n => m = i + 1)
    <2>1. {i + 1, n} \in SUBSET Nat /\ {i + 1, n} # {}
        BY <1>1
    <2>2. m \in {i + 1, n} /\ m <= i + 1 /\ m <= n
        BY <2>1, MinIs
    <2> HIDE DEF m
    <2>3. QED BY <1>1, <2>2
<1> HIDE DEF m
<1> DEFINE x == SubSeq(t, i, m)  y == <<t[i], t[i + 1]>>
<1>4. /\ x \in Seq(A) /\ Len(x) = m - i + 1
      /\ \A k \in 1..m - i + 1 : x[k] = t[i + k - 1]
    <2>1. \A k \in i..m : t[k] \in A
        BY <1>1, <1>3
    <2>2. t \in Seq(A) /\ i \in Int /\ m \in Int /\ i <= m
        BY <1>1, <1>3
    <2>3. QED BY <2>1, <2>2, SubSeqProperties
<1> HIDE DEF x
<1>5. x[1] = t[i]
    <2>1. 1 \in 1..m - i + 1 /\ i + 1 - 1 = i
        BY <1>1, <1>3
    <2>2. QED BY <1>4, <2>1
<1>6. ASSUME i < n PROVE x = y
    <2>1. t[i] \in A /\ t[i + 1] \in A
        BY <1>1, <1>6
    <2>2. y \in Seq(A) /\ Len(y) = 2 /\ y[1] = t[i] /\ y[2] = t[i + 1]
        BY <2>1, TwoTyped
    <2>3. Len(x) = 2 /\ x[1] = t[i] /\ x[2] = t[i + 1]
        <3>1. m - i + 1 = 2 /\ 2 \in 1..m - i + 1 /\ i + 2 - 1 = i + 1
            BY <1>1, <1>3, <1>6
        <3>2. QED BY <1>4, <1>5, <3>1
    <2> HIDE DEF y
    <2>4. \A k \in 1..Len(x) : x[k] = y[k]
        BY <2>2, <2>3
    <2>5. QED BY <1>4, <2>2, <2>3, <2>4, SeqEqual
<1>7. QED BY <1>2, <1>5, <1>6 DEF x, y, n

\* StripAddrAnnotation, of any characters.
Opening(sp, lt, gt, t, i) == Pair(t, i) = <<sp, lt>> /\ \E j \in (i + 2)..Len(t) : t[j] = gt
Noting(sp, lt, gt, t) ==
    Before(Len(t), FALSE, [i \in DOMAIN t |-> [in \in BOOLEAN |->
                             IF in THEN t[i] # gt ELSE Opening(sp, lt, gt, t, i)]])
Stripped(sp, lt, gt, t) ==
    FlattenSeq([i \in DOMAIN t |-> IF Noting(sp, lt, gt, t)[i] \/ Opening(sp, lt, gt, t, i)
                                   THEN <<>> ELSE <<t[i]>>])

LEMMA NotingIs ==
    ASSUME NEW A, NEW sp, NEW lt, NEW gt, NEW t \in Seq(A), NEW i \in 1..Len(t)
    PROVE  /\ Noting(sp, lt, gt, t)[1] = FALSE
           /\ Noting(sp, lt, gt, t)[i] \in BOOLEAN /\ Noting(sp, lt, gt, t)[i + 1] \in BOOLEAN
           /\ Noting(sp, lt, gt, t)[i + 1] <=>
                IF Noting(sp, lt, gt, t)[i] THEN t[i] # gt ELSE Opening(sp, lt, gt, t, i)
<1> DEFINE n == Len(t)  g == Noting(sp, lt, gt, t)
           s == [k \in DOMAIN t |-> [in \in BOOLEAN |->
                   IF in THEN t[k] # gt ELSE Opening(sp, lt, gt, t, k)]]
<1>1. n \in Nat /\ DOMAIN t = 1..n
    OBVIOUS
<1>2. g = Before(n, FALSE, s)
    BY DEF Noting
<1> HIDE DEF g, n
<1>3. ASSUME NEW k \in 1..n
      PROVE  /\ s[k][TRUE] = (t[k] # gt) /\ s[k][TRUE] \in BOOLEAN
             /\ s[k][FALSE] = Opening(sp, lt, gt, t, k) /\ s[k][FALSE] \in BOOLEAN
    <2>1. k \in DOMAIN t /\ Opening(sp, lt, gt, t, k) \in BOOLEAN
        BY <1>1 DEF Opening
    <2>2. QED BY <2>1
<1> HIDE DEF s
<1>4. ASSUME NEW k \in 1..n, NEW in \in BOOLEAN PROVE s[k][in] \in BOOLEAN
    <2>1. in = TRUE \/ in = FALSE
        OBVIOUS
    <2>2. QED BY <1>3, <2>1
<1>5. Runs(n, BOOLEAN, FALSE, s, g)
    <2>1. Runs(n, BOOLEAN, FALSE, s, Before(n, FALSE, s))
        BY <1>1, <1>4, BeforeIs, FALSE \in BOOLEAN
    <2>2. QED BY <1>2, <2>1
<1>6. i \in 1..n
    BY DEF n
<1>7. g[i + 1] = s[i][g[i]] /\ g[i] \in BOOLEAN /\ g[i + 1] \in BOOLEAN
    BY <1>1, <1>5, <1>6, RunAt
<1>8. g[1] = FALSE
    BY <1>5 DEF Runs
<1>9. g[i + 1] <=> IF g[i] THEN t[i] # gt ELSE Opening(sp, lt, gt, t, i)
    <2>1. CASE g[i] = TRUE
        <3>1. g[i + 1] = (t[i] # gt)
            BY <1>3, <1>6, <1>7, <2>1
        <3>2. QED BY <2>1, <3>1
    <2>2. CASE g[i] = FALSE
        <3>1. g[i + 1] = Opening(sp, lt, gt, t, i)
            BY <1>3, <1>6, <1>7, <2>2
        <3>2. QED BY <2>2, <3>1
    <2>3. QED BY <1>7, <2>1, <2>2
<1>10. QED BY <1>7, <1>8, <1>9 DEF g

LEMMA StrippedIs ==
    ASSUME NEW A, NEW sp, NEW lt, NEW gt, NEW t, Noted(A, sp, lt, gt, t)
    PROVE  Stripped(sp, lt, gt, t) = <<t[1], t[2]>>
<1> DEFINE n == Len(t)  o(i) == Opening(sp, lt, gt, t, i)  g == Noting(sp, lt, gt, t)
           ps == [i \in DOMAIN t |-> IF g[i] \/ o(i) THEN <<>> ELSE <<t[i]>>]
<1>1. /\ t \in Seq(A) /\ DOMAIN t = 1..n /\ n = Len(t) /\ n \in Nat /\ (n = 2 \/ n = 6)
      /\ t[1] # sp /\ t[2] # sp
    BY DEF Noted
<1>2. 1 \in 1..n /\ 2 \in 1..n /\ n >= 2
    BY <1>1
<1>3. ASSUME NEW i \in 1..n, t[i] # sp PROVE ~ o(i)
    <2>1. Pair(t, i)[1] = t[i]
        BY <1>1, PairAt
    <2>2. <<sp, lt>>[1] = sp
        OBVIOUS
    <2>3. QED BY <1>3, <2>1, <2>2 DEF Opening
<1>4. ~ o(1) /\ ~ o(2)
    BY <1>1, <1>2, <1>3
<1>5. ASSUME NEW i \in 1..n
      PROVE  g[i] \in BOOLEAN /\ g[i + 1] \in BOOLEAN
             /\ (g[i + 1] <=> IF g[i] THEN t[i] # gt ELSE o(i))
    BY <1>1, NotingIs, Zenon
<1>6. g[1] = FALSE
    <2>1. t \in Seq(A) /\ 1 \in 1..Len(t)
        BY <1>1, <1>2
    <2>2. Noting(sp, lt, gt, t)[1] = FALSE
        BY <2>1, NotingIs
    <2>3. QED BY <2>2
<1>7. ASSUME n = 6 PROVE o(3) /\ t[4] # gt /\ t[5] # gt
    <2>1. t[3] = sp /\ t[4] = lt /\ t[5] # gt /\ t[6] = gt /\ lt # gt
        BY <1>1, <1>7 DEF Noted
    <2>2. 3 \in 1..n /\ 3 < n /\ 3 + 1 = 4 /\ 6 \in (3 + 2)..n
        BY <1>7
    <2>3. Pair(t, 3) = <<t[3], t[3 + 1]>>
        BY <1>1, <2>2, PairAt
    <2>4. o(3)
        BY <1>1, <2>1, <2>2, <2>3 DEF Opening
    <2>5. QED BY <2>1, <2>4
<1> HIDE DEF o, g
<1>8. ~ g[2]
    <2>1. 1 + 1 = 2
        OBVIOUS
    <2>2. g[1 + 1] <=> IF g[1] THEN t[1] # gt ELSE o(1)
        BY <1>2, <1>5
    <2>3. QED BY <1>4, <1>6, <2>1, <2>2
<1>9. ASSUME NEW i \in 1..n, i > 2 PROVE g[i] \/ o(i)
    <2>1. n = 6 /\ i \in {3, 4, 5, 6} /\ 2 \in 1..n /\ 3 \in 1..n /\ 4 \in 1..n /\ 5 \in 1..n
        BY <1>1, <1>9
    <2>2. o(3) /\ t[4] # gt /\ t[5] # gt
        BY <1>7, <2>1
    <2>3. g[4]
        <3>1. ~ g[3]
            <4>1. g[2 + 1] <=> IF g[2] THEN t[2] # gt ELSE o(2)
                BY <1>5, <2>1
            <4>2. QED BY <1>4, <1>8, <4>1
        <3>2. g[3 + 1] <=> IF g[3] THEN t[3] # gt ELSE o(3)
            BY <1>5, <2>1
        <3>3. QED BY <2>2, <3>1, <3>2
    <2>4. g[5]
        <3>1. g[4 + 1] <=> IF g[4] THEN t[4] # gt ELSE o(4)
            BY <1>5, <2>1
        <3>2. QED BY <2>2, <2>3, <3>1
    <2>5. g[6]
        <3>1. g[5 + 1] <=> IF g[5] THEN t[5] # gt ELSE o(5)
            BY <1>5, <2>1
        <3>2. QED BY <2>2, <2>4, <3>1
    <2>6. QED BY <2>1, <2>2, <2>3, <2>4, <2>5
<1>10. ps = [i \in 1..n |-> IF i <= 2 THEN <<t[i]>> ELSE <<>>]
    <2>1. ASSUME NEW i \in 1..n PROVE (g[i] \/ o(i)) <=> ~ (i <= 2)
        <3>1. CASE i <= 2
            <4>1. i = 1 \/ i = 2
                BY <3>1
            <4>2. QED BY <1>4, <1>6, <1>8, <3>1, <4>1
        <3>2. CASE i > 2
            BY <1>9, <3>2
        <3>3. QED BY <1>1, <3>1, <3>2
    <2>2. QED BY <1>1, <2>1
<1>11. Stripped(sp, lt, gt, t) = FlattenSeq(ps)
    BY DEF Stripped, g, o
<1> HIDE DEF ps, n
<1>12. QED BY <1>1, <1>2, <1>10, <1>11, FirstTwo

LEMMA TextIs ==
    ASSUME NEW b, NEW note \in Notes(b)
    PROVE  StripAddrAnnotation(Text(b, note)) = Text(<<>>, <<>>)
<1>1. StripAddrAnnotation(Text(b, note)) = Stripped(" ", "<", ">", Text(b, note))
    BY DEF StripAddrAnnotation, Stripped, Noting, Opening
<1> DEFINE sp == " "  lt == "<"  gt == ">"  t == Text(b, note)
<1>2. Noted(Marks, sp, lt, gt, t)
    BY TextAt, Zenon
<1> HIDE DEF sp, lt, gt, t
<1>3. Stripped(sp, lt, gt, t) = <<t[1], t[2]>>
    BY <1>2, StrippedIs
<1>4. Text(<<>>, <<>>) = <<t[1], t[2]>>
    BY TextAt DEF t
<1>5. QED BY <1>1, <1>3, <1>4 DEF sp, lt, gt, t

LEMMA DecodeMore ==
    ASSUME Types, DecodeInv, DecodeOne
    PROVE  DecodeInv'
<1> DEFINE b == result.bytes  rest == SubSeq(b, off + 1, Len(b))
<1>1. /\ phase = "decode" /\ More /\ off < Len(b) /\ UNCHANGED <<job, phase, result>>
    BY DEF DecodeOne, More
<1>2. PICK one \in DisasmOne(rest) :
        /\ insns' = Append(insns, [address |-> Plus(job.base, ToWord(off)),
                                  bytes |-> one.bytes, text |-> one.text])
        /\ off' = off + Len(one.bytes)
    BY DEF DecodeOne
<1>3. b \in Seq(Byte) /\ off \in Nat /\ Len(b) \in Nat /\ job \in Jobs
    BY DEF Types, OutputOK
<1> HIDE DEF b
<1>4. rest \in Seq(Byte) /\ Len(rest) = Len(b) - off
    BY <1>1, <1>3
<1>5. PICK n \in 1..Len(rest) : \E note \in Notes(SubSeq(rest, 1, n)) :
        /\ one.bytes = SubSeq(rest, 1, n) /\ Len(one.bytes) = n
        /\ one.text = StripAddrAnnotation(Text(one.bytes, note))
        /\ one.bytes \in Seq(Byte)
    <2>1. Len(rest) > 0
        BY <1>1, <1>3, <1>4
    <2> HIDE DEF rest
    <2>2. QED BY <1>2, <1>4, <2>1, DisasmIs
<1> DEFINE x == [address |-> Plus(job.base, ToWord(off)), bytes |-> one.bytes, text |-> one.text]
<1>6. x \in InsnRecords
    <2>1. one.text = Text(<<>>, <<>>)
        BY <1>5, TextIs
    <2>2. job.base \in Word
        BY <1>3, JobTypes
    <2>3. Plus(job.base, ToWord(off)) \in Word
        BY <2>2, WordParts, WordOps
    <2>4. QED BY <1>5, <2>1, <2>3 DEF InsnRecords
<1>7. one.bytes = SubSeq(b, off + 1, off + n) /\ n \in Nat /\ off + n <= Len(b)
    <2>1. n \in Nat /\ off + n <= Len(b)
        BY <1>3, <1>4
    <2>2. SubSeq(rest, 1, n) = SubSeq(b, off + 1, off + n)
        BY <1>3, <2>1, PartOfRest
    <2>3. QED BY <1>5, <2>1, <2>2
<1> DEFINE s == insns  m == Len(insns)  r == insns'
<1>8. /\ s \in Seq(InsnRecords) /\ m \in Nat /\ off = Ends(s)[m + 1]
      /\ \A k \in 1..m :
         /\ s[k].address = Plus(job.base, ToWord(Ends(s)[k]))
         /\ s[k].bytes = SubSeq(b, Ends(s)[k] + 1, Ends(s)[k + 1])
    BY DEF DecodeInv, b
<1>9. x.address = Plus(job.base, ToWord(off)) /\ x.bytes = one.bytes
    OBVIOUS
<1> HIDE DEF x
<1>10. r = Append(s, x)
    BY <1>2 DEF x
<1>11. /\ r \in Seq(InsnRecords) /\ Len(r) = m + 1
       /\ \A k \in 1..m : r[k] = s[k]
       /\ r[m + 1] = x
       /\ \A k \in 1..m + 1 : Ends(r)[k] = Ends(s)[k]
       /\ Ends(r)[m + 2] = Ends(s)[m + 1] + Len(x.bytes)
    <2> HIDE DEF s
    <2>1. QED BY <1>6, <1>8, <1>10, EndsAppend DEF s
<1> HIDE DEF s, r, m
<1>12. off' = Ends(r)[Len(r) + 1]
    <2>1. Len(r) + 1 = m + 2
        BY <1>8, <1>11
    <2>2. QED BY <1>2, <1>8, <1>9, <1>11, <2>1
<1>13. ASSUME NEW k \in 1..Len(r)
       PROVE  /\ r[k].address = Plus(job.base, ToWord(Ends(r)[k]))
              /\ r[k].bytes = SubSeq(b, Ends(r)[k] + 1, Ends(r)[k + 1])
    <2>1. CASE k \in 1..m
        <3>1. k \in 1..m + 1 /\ k + 1 \in 1..m + 1
            BY <1>8, <2>1
        <3>2. r[k] = s[k] /\ Ends(r)[k] = Ends(s)[k] /\ Ends(r)[k + 1] = Ends(s)[k + 1]
            BY <1>11, <2>1, <3>1
        <3>3. QED BY <1>8, <2>1, <3>2
    <2>2. CASE k = m + 1
        <3>1. m + 1 \in 1..m + 1 /\ m + 1 + 1 = m + 2
            BY <1>8
        <3>2. Ends(r)[k] = off /\ Ends(r)[k + 1] = off + n
            BY <1>5, <1>8, <1>9, <1>11, <2>2, <3>1
        <3>3. QED BY <1>7, <1>9, <1>11, <2>2, <3>2
    <2>3. QED BY <1>8, <1>11, <2>1, <2>2
<1>14. Counted' => Len(r) <= job.count
    <2>1. Counted' <=> Counted
        BY <1>1 DEF Counted
    <2>2. Counted => m < job.count
        BY <1>1 DEF Counted, More, m
    <2>3. job.count \in Nat
        BY <1>3, JobTypes
    <2>4. QED BY <1>8, <1>11, <2>1, <2>2, <2>3
<1>15. phase' = "decode"
    BY <1>1
<1>16. QED BY <1>1, <1>11, <1>12, <1>13, <1>14, <1>15 DEF DecodeInv, r, b

LEMMA DecodeEnds ==
    ASSUME Types, DecodeInv, Decoded
    PROVE  DecodeInv'
<1>1. /\ phase = "decode" /\ phase' = "done" /\ ~ More
      /\ UNCHANGED <<job, result, insns, off>>
    BY DEF Decoded, outputs
<1>2. off \in 0..Len(result.bytes) /\ Len(result.bytes) \in Nat /\ job.count \in Nat
      /\ Len(insns) \in Nat
    BY JobTypes DEF Types, OutputOK, DecodeInv
<1>3. off = Len(result.bytes) \/ (Counted /\ Len(insns) = job.count)
    <2>1. off >= Len(result.bytes) \/ (Counted /\ Len(insns) >= job.count)
        BY <1>1, <1>2 DEF More, Counted
    <2>2. Counted => Len(insns) <= job.count
        BY DEF DecodeInv
    <2>3. QED BY <1>2, <2>1, <2>2
<1>4. Counted' <=> Counted
    BY <1>1 DEF Counted
<1>5. QED BY <1>1, <1>3, <1>4 DEF DecodeInv

LEMMA NextDecode ==
    ASSUME Types, DecodeInv, [Next]_vars
    PROVE  DecodeInv'
<1>1. CASE DecodeOne
    BY <1>1, DecodeMore
<1>2. CASE Decoded
    BY <1>2, DecodeEnds
<1>3. CASE Report
    BY <1>3, DecodeReport DEF Types
<1>4. CASE UNCHANGED vars
    BY <1>4 DEF vars, outputs, DecodeInv, Counted
<1>5. CASE ~ (DecodeOne \/ Decoded \/ Report \/ UNCHANGED vars)
    <2>1. /\ UNCHANGED <<job, outputs>>
          /\ phase \notin {"decode", "done"} /\ phase' \notin {"decode", "done"}
        <3>1. CASE Reset \/ NextStatement \/ Label
            BY <3>1 DEF Reset, NextStatement, Label
        <3>2. CASE IntList \/ ConsList \/ Ascii \/ Skip
            BY <3>2 DEF IntList, ConsList, Ascii, Skip, At, Emits, Handled, GasError, Rejected
        <3>3. CASE Org \/ Align \/ Equ
            BY <3>3 DEF Org, Align, Equ, At, Closes, Handled, GasError, Rejected
        <3>4. CASE Accepted \/ SwitchesSection \/ Unsupported
            BY <3>4 DEF Accepted, SwitchesSection, Unsupported, At, Handled, Rejected
        <3>5. CASE Instruction
            BY <3>5 DEF Instruction, Emits, Handled, GasError
        <3>6. CASE DefineLabels \/ RelaxBranches \/ RelaxSegment
            BY <3>6 DEF DefineLabels, RelaxBranches, RelaxSegment
        <3>7. CASE ConvertAndFinalize \/ ApplyTextFixups
            BY <3>7 DEF ConvertAndFinalize, ApplyTextFixups
        <3>8. QED BY <1>5, <3>1, <3>2, <3>3, <3>4, <3>5, <3>6, <3>7 DEF Next, Returned
    <2>2. QED BY <2>1, DecodeWaits
<1>6. QED BY <1>1, <1>2, <1>3, <1>4, <1>5

LEMMA DecodeHolds == Spec => []DecodeInv
<1>1. Types /\ DecodeInv /\ [Next]_vars => DecodeInv'
    BY NextDecode
<1>2. QED BY <1>1, InitDecode, TypesHold, PTL DEF Spec

(* The decoded instructions are consecutive pieces of the bytes, each at   *)
(* its address, and only the count ends the decoding before the last byte  *)
(* (nyxstone.cpp:630-657).                                                 *)
THEOREM PiecesOfTheBytes == Spec => []Decodes
<1>1. DecodeInv => Decodes
    <2> SUFFICES ASSUME DecodeInv PROVE Decodes
        OBVIOUS
    <2>1. DOMAIN insns = 1..Len(insns)
        BY DEF DecodeInv
    <2>2. QED BY <2>1 DEF DecodeInv, Decodes, Ends
<1>2. QED BY <1>1, DecodeHolds, PTL

(* The text of an instruction does not depend on the ones decoded before.  *)
THEOREM TextsAreStateless == Spec => []HistoryFree
<1>1. DecodeInv => HistoryFree
    <2> SUFFICES ASSUME DecodeInv, NEW k \in DOMAIN insns
                 PROVE  insns[k].text = Text(insns[k].bytes, <<>>)
        BY DEF HistoryFree
    <2>1. insns[k] \in InsnRecords
        BY DEF DecodeInv
    <2>2. QED BY <2>1 DEF InsnRecords, Text
<1>2. QED BY <1>1, DecodeHolds, PTL

-----------------------------------------------------------------------------
(* The layout.  An item has a spot: the frag it is in, and its offset in   *)
(* the fixed part of that frag.  Where a frag ends an item closes it.      *)

IsBranch(it) == it.kind = "insn" /\ it.op \in Branches
Shuts(it) == it.kind \in {"org", "align"} \/ IsBranch(it)
Fixed(it) == IF it.kind = "bytes" THEN Len(it.bytes)
             ELSE IF it.kind = "data" THEN it.width
             ELSE IF it.kind = "insn" /\ it.op \notin Branches THEN Len(Insns[it.op].bytes)
             ELSE 0

\* What needs no fixup is stored as it is, and an instruction until then.  The
\* numbers of the data lists are only looked at if d is true.
Plain(it, d)  == it.kind = "bytes" \/ (d /\ it.kind = "data" /\ it.term.sym = NoSym)
Written(it, d) == Plain(it, d) \/ (it.kind = "insn" /\ it.op \notin Branches)
Stored(it) == IF it.kind = "bytes" THEN it.bytes
              ELSE IF it.kind = "insn" THEN Insns[it.op].bytes
              ELSE LittleEndian(it.term.add, it.width)

FragSteps(its)  == [k \in DOMAIN its |-> [n \in Nat |-> IF Shuts(its[k]) THEN n + 1 ELSE n]]
PlaceSteps(its) == [k \in DOMAIN its |->
                      [n \in Nat |-> IF Shuts(its[k]) THEN 0 ELSE n + Fixed(its[k])]]
FragOf(its)  == Before(Len(its), 1, FragSteps(its))
PlaceOf(its) == Before(Len(its), 0, PlaceSteps(its))

LEMMA KindOf ==
    ASSUME NEW it \in Items
    PROVE  /\ it.kind = "bytes" => it.bytes \in Seq(Byte)
           /\ it.kind = "data" => it.width \in Widths /\ it.term \in Terms
           /\ it.kind = "insn" => /\ it.op \in DOMAIN Insns \ Simple /\ it.op \in DOMAIN Insns
                                /\ it.term \in Terms /\ it.frag \in Nat
           /\ it.kind = "org" => it.to \in Nat /\ it.fill \in Byte
           /\ it.kind = "align" => it.p2 \in Nat /\ it.fill \in Byte /\ it.max \in Nat
           /\ it.kind \in {"bytes", "data", "insn", "org", "align", "label", "fault", "equ"}
BY DEF Items

LEMMA FixedTyped ==
    ASSUME NEW d, NEW it \in Items
    PROVE  /\ Fixed(it) \in Nat
           /\ Shuts(it) => Fixed(it) = 0 /\ ~ Written(it, d)
           /\ Written(it, d) => Stored(it) \in Seq(Byte) /\ Len(Stored(it)) = Fixed(it)
           /\ Plain(it, d) => Written(it, d)
<1>1. CASE it.kind = "bytes"
    <2>1. it.bytes \in Seq(Byte) /\ Len(it.bytes) \in Nat
        BY <1>1, KindOf
    <2>2. Fixed(it) = Len(it.bytes) /\ Stored(it) = it.bytes /\ ~ Shuts(it) /\ Written(it, d)
        BY <1>1 DEF Fixed, Stored, Shuts, IsBranch, Plain, Written
    <2>3. QED BY <2>1, <2>2
<1>2. CASE it.kind = "data"
    <2>1. it.width \in Widths /\ it.width \in Nat
        BY <1>2, KindOf DEF Widths
    <2>2. Fixed(it) = it.width /\ Stored(it) = LittleEndian(it.term.add, it.width) /\ ~ Shuts(it)
        BY <1>2 DEF Fixed, Stored, Shuts, IsBranch
    <2>3. Stored(it) \in Seq(Byte) /\ Len(Stored(it)) = it.width
        BY <2>1, <2>2, LittleEndianIs
    <2>4. QED BY <2>1, <2>2, <2>3 DEF Written
<1>3. CASE it.kind = "insn"
    <2>1. ~ Plain(it, d)
        BY <1>3 DEF Plain
    <2>2. CASE it.op \in Branches
        <3>1. Fixed(it) = 0 /\ ~ Written(it, d)
            BY <1>3, <2>1, <2>2 DEF Fixed, Written
        <3>2. QED BY <2>1, <3>1
    <2>3. CASE it.op \notin Branches
        <3>1. it.op \in DOMAIN Insns \ Branches
            BY <1>3, <2>3, KindOf
        <3>2. Insns[it.op].bytes \in Seq(Byte) /\ Len(Insns[it.op].bytes) \in Nat
            BY <3>1, InsnIs
        <3>3. /\ Fixed(it) = Len(Insns[it.op].bytes) /\ ~ Shuts(it)
              /\ Stored(it) = Insns[it.op].bytes
            BY <1>3, <2>3 DEF Fixed, Shuts, IsBranch, Stored
        <3>4. QED BY <2>1, <3>2, <3>3
    <2>4. QED BY <2>2, <2>3
<1>4. CASE it.kind \notin {"bytes", "data", "insn"}
    BY <1>4 DEF Fixed, Shuts, IsBranch, Plain, Written
<1>5. QED BY <1>1, <1>2, <1>3, <1>4

LEMMA FixedNat ==
    ASSUME NEW it \in Items
    PROVE  Fixed(it) \in Nat
BY FixedTyped

LEMMA SpotSteps ==
    ASSUME NEW its \in Seq(Items), NEW k \in 1..Len(its), NEW n \in Nat
    PROVE  /\ FragSteps(its)[k][n] = (IF Shuts(its[k]) THEN n + 1 ELSE n)
           /\ PlaceSteps(its)[k][n] = (IF Shuts(its[k]) THEN 0 ELSE n + Fixed(its[k]))
           /\ FragSteps(its)[k][n] \in Nat /\ PlaceSteps(its)[k][n] \in Nat
<1>1. k \in DOMAIN its /\ its[k] \in Items
    OBVIOUS
<1>2. Fixed(its[k]) \in Nat
    BY <1>1, FixedNat
<1>3. FragSteps(its)[k][n] = (IF Shuts(its[k]) THEN n + 1 ELSE n)
    BY <1>1 DEF FragSteps
<1>4. PlaceSteps(its)[k][n] = (IF Shuts(its[k]) THEN 0 ELSE n + Fixed(its[k]))
    BY <1>1 DEF PlaceSteps
<1>5. QED BY <1>2, <1>3, <1>4

LEMMA RunsExtend ==
    ASSUME NEW n \in Nat, NEW m \in Nat, n <= m, NEW A, NEW x, NEW s, NEW t, NEW g, NEW h,
           Runs(n, A, x, s, g), Runs(m, A, x, t, h),
           \A i \in 1..n : \A a \in A : s[i][a] = t[i][a], NEW i \in 1..(n + 1)
    PROVE  g[i] = h[i]
<1>1. n \in Nat /\ m \in Nat /\ n <= n /\ n <= m
    OBVIOUS
<1>2. QED BY <1>1, RunsAgree

LEMMA SpotRuns ==
    ASSUME NEW its \in Seq(Items)
    PROVE  /\ Runs(Len(its), Nat, 1, FragSteps(its), FragOf(its))
           /\ Runs(Len(its), Nat, 0, PlaceSteps(its), PlaceOf(its))
<1>1. Len(its) \in Nat /\ 0 \in Nat /\ 1 \in Nat
    OBVIOUS
<1>2. \A k \in 1..Len(its) : \A n \in Nat :
         FragSteps(its)[k][n] \in Nat /\ PlaceSteps(its)[k][n] \in Nat
    BY SpotSteps
<1>3. Runs(Len(its), Nat, 1, FragSteps(its), FragOf(its))
    BY <1>1, <1>2, BeforeIs DEF FragOf
<1>4. Runs(Len(its), Nat, 0, PlaceSteps(its), PlaceOf(its))
    BY <1>1, <1>2, BeforeIs DEF PlaceOf
<1>5. QED BY <1>3, <1>4

LEMMA SpotsTyped ==
    ASSUME NEW its \in Seq(Items)
    PROVE  /\ FragOf(its)[1] = 1 /\ PlaceOf(its)[1] = 0
           /\ \A k \in 1..Len(its) + 1 : FragOf(its)[k] \in Nat /\ PlaceOf(its)[k] \in Nat
<1>1. FragOf(its)[1] = 1 /\ PlaceOf(its)[1] = 0
    BY SpotRuns DEF Runs
<1>2. FragOf(its) \in [1..Len(its) + 1 -> Nat] /\ PlaceOf(its) \in [1..Len(its) + 1 -> Nat]
    BY SpotRuns DEF Runs
<1>3. QED BY <1>1, <1>2

LEMMA SpotNext ==
    ASSUME NEW its \in Seq(Items), NEW k \in 1..Len(its)
    PROVE  /\ FragOf(its)[k + 1] = (IF Shuts(its[k]) THEN FragOf(its)[k] + 1 ELSE FragOf(its)[k])
           /\ PlaceOf(its)[k + 1] = (IF Shuts(its[k]) THEN 0
                                     ELSE PlaceOf(its)[k] + Fixed(its[k]))
<1> DEFINE f == FragOf(its)  p == PlaceOf(its)  s == FragSteps(its)  t == PlaceSteps(its)
<1>1. Runs(Len(its), Nat, 1, s, f) /\ Runs(Len(its), Nat, 0, t, p) /\ Len(its) \in Nat
    BY SpotRuns
<1> HIDE DEF f, p, s, t
<1>2. f[k + 1] = s[k][f[k]] /\ f[k] \in Nat
    BY <1>1, RunAt
<1>3. p[k + 1] = t[k][p[k]] /\ p[k] \in Nat
    BY <1>1, RunAt
<1>4. s[k][f[k]] = (IF Shuts(its[k]) THEN f[k] + 1 ELSE f[k])
    BY <1>2, SpotSteps DEF s
<1>5. t[k][p[k]] = (IF Shuts(its[k]) THEN 0 ELSE p[k] + Fixed(its[k]))
    BY <1>3, SpotSteps DEF t
<1>6. QED BY <1>2, <1>3, <1>4, <1>5 DEF f, p

\* What follows an item does not move it.
LEMMA SpotsKept ==
    ASSUME NEW its \in Seq(Items), NEW what \in Seq(Items), NEW k \in 1..Len(its) + 1
    PROVE  /\ FragOf(its \o what)[k] = FragOf(its)[k]
           /\ PlaceOf(its \o what)[k] = PlaceOf(its)[k]
<1> DEFINE n == Len(its)  all == its \o what  m == Len(all)
<1>1. /\ all \in Seq(Items) /\ m = n + Len(what) /\ n \in Nat /\ m \in Nat /\ n <= n /\ n <= m
      /\ \A i \in 1..n : all[i] = its[i]
    <2>1. /\ all \in Seq(Items) /\ Len(all) = Len(its) + Len(what)
          /\ \A i \in 1..Len(its) : all[i] = its[i]
        BY ConcatProperties
    <2>2. Len(its) \in Nat /\ Len(what) \in Nat
        OBVIOUS
    <2> HIDE DEF all
    <2>3. QED BY <2>1, <2>2
<1> HIDE DEF all
<1>2. ASSUME NEW i \in 1..n, NEW a \in Nat
      PROVE  /\ FragSteps(its)[i][a] = FragSteps(all)[i][a]
             /\ PlaceSteps(its)[i][a] = PlaceSteps(all)[i][a]
    <2>1. i \in 1..m /\ all[i] = its[i]
        BY <1>1
    <2>2. /\ FragSteps(its)[i][a] = (IF Shuts(its[i]) THEN a + 1 ELSE a)
          /\ PlaceSteps(its)[i][a] = (IF Shuts(its[i]) THEN 0 ELSE a + Fixed(its[i]))
        BY SpotSteps
    <2>3. /\ FragSteps(all)[i][a] = (IF Shuts(all[i]) THEN a + 1 ELSE a)
          /\ PlaceSteps(all)[i][a] = (IF Shuts(all[i]) THEN 0 ELSE a + Fixed(all[i]))
        BY <1>1, <2>1, SpotSteps
    <2>4. QED BY <2>1, <2>2, <2>3
<1> DEFINE s == FragSteps(its)  t == FragSteps(all)  g == FragOf(its)  h == FragOf(all)
           u == PlaceSteps(its)  v == PlaceSteps(all)  p == PlaceOf(its)  q == PlaceOf(all)
<1>3. /\ Runs(n, Nat, 1, s, g) /\ Runs(m, Nat, 1, t, h)
      /\ Runs(n, Nat, 0, u, p) /\ Runs(m, Nat, 0, v, q)
    BY <1>1, SpotRuns
<1>4. /\ \A i \in 1..n : \A a \in Nat : s[i][a] = t[i][a]
      /\ \A i \in 1..n : \A a \in Nat : u[i][a] = v[i][a]
    BY <1>2
<1>5. k \in 1..n + 1
    OBVIOUS
<1> HIDE DEF s, t, g, h, u, v, p, q, n, m
<1>6. g[k] = h[k]
    BY <1>1, <1>3, <1>4, <1>5, RunsExtend, SMTT(30)
<1>7. p[k] = q[k]
    BY <1>1, <1>3, <1>4, <1>5, RunsExtend, SMTT(30)
<1>8. QED BY <1>6, <1>7 DEF g, h, p, q, all

-----------------------------------------------------------------------------
(* Items in place, and bytes at the end of the chain.                      *)

\* A branch owns the opcode bytes at the end of its frag, what is before them is in place.
Own(f) == FixSize(f) - (IF f.type = "machine" THEN OpcodeBytes ELSE 0)

InFrag(it, f, o, d) ==
    /\ o + Fixed(it) <= Own(f)
    /\ Written(it, d) => \A j \in 1..Fixed(it) : f.lit[o + j] = Stored(it)[j]
    /\ IsBranch(it) => f.type = "machine" /\ Own(f) = o
    /\ it.kind = "org" => /\ f.type = "org" /\ f.off = it.to /\ f.fill = it.fill
                          /\ FixSize(f) = o
    /\ it.kind = "align" => /\ f.type = "align" /\ f.off = it.p2 /\ f.sub = it.max
                            /\ f.fill = it.fill /\ FixSize(f) = o

HasBranch(its, i) == \E k \in 1..Len(its) : IsBranch(its[k]) /\ FragOf(its)[k] = i

InPlace(its, frs, d) ==
    /\ FragOf(its)[Len(its) + 1] = Len(frs)
    /\ PlaceOf(its)[Len(its) + 1] = FixSize(frs[Len(frs)])
    /\ \A k \in 1..Len(its) :
         /\ FragOf(its)[k] \in 1..Len(frs)
         /\ InFrag(its[k], frs[FragOf(its)[k]], PlaceOf(its)[k], d)
         /\ IsBranch(its[k]) => its[k].frag = FragOf(its)[k]
    /\ \A i \in 1..Len(frs) : frs[i].type = "machine" => HasBranch(its, i)

\* Items one after the other in the bytes b.
Tiles(what, b, at, d) ==
    /\ at \in [1..Len(what) + 1 -> Nat] /\ at[1] = 0 /\ at[Len(what) + 1] = Len(b)
    /\ \A j \in 1..Len(what) :
         /\ ~ Shuts(what[j]) /\ at[j + 1] = at[j] + Fixed(what[j]) /\ at[j + 1] <= Len(b)
         /\ Written(what[j], d) => \A i \in 1..Fixed(what[j]) : b[at[j] + i] = Stored(what[j])[i]

LEMMA TileSpots ==
    ASSUME NEW its \in Seq(Items), NEW what \in Seq(Items), NEW b, NEW at,
           NEW d, Tiles(what, b, at, d), NEW i \in 1..Len(what) + 1
    PROVE  /\ FragOf(its \o what)[Len(its) + i] = FragOf(its)[Len(its) + 1]
           /\ PlaceOf(its \o what)[Len(its) + i] = PlaceOf(its)[Len(its) + 1] + at[i]
<1> DEFINE n == Len(its)  m == Len(what)  all == its \o what
           f == FragOf(all)  p == PlaceOf(all)  f0 == FragOf(its)[n + 1]  p0 == PlaceOf(its)[n + 1]
           S == {j \in Nat : j <= m => f[n + (j + 1)] = f0 /\ p[n + (j + 1)] = p0 + at[j + 1]}
<1>1. n \in Nat /\ m \in Nat
    OBVIOUS
<1>2. /\ all \in Seq(Items) /\ Len(all) = n + m
      /\ \A j \in 1..m : all[n + j] = what[j]
    <2>1. /\ all \in Seq(Items) /\ Len(all) = Len(its) + Len(what)
          /\ \A j \in 1..Len(what) : all[Len(its) + j] = what[j]
        OBVIOUS
    <2>2. QED BY <2>1
<1>3. f0 \in Nat /\ p0 \in Nat
    <2>1. n + 1 \in 1..Len(its) + 1
        BY <1>1
    <2>2. QED BY <2>1, SpotsTyped
<1>4. /\ at[1] = 0 /\ \A j \in 1..m + 1 : at[j] \in Nat
      /\ \A j \in 1..m : ~ Shuts(what[j]) /\ at[j + 1] = at[j] + Fixed(what[j])
    BY DEF Tiles
<1>5. 0 \in S
    <2>1. n + 1 \in 1..Len(its) + 1
        BY <1>1
    <2>2. f[n + 1] = f0 /\ p[n + 1] = p0
        BY <2>1, SpotsKept
    <2> HIDE DEF f, p, f0, p0, n
    <2>3. n + (0 + 1) = n + 1 /\ 0 + 1 = 1
        BY <1>1
    <2>4. QED BY <1>3, <1>4, <2>2, <2>3
<1>6. \A j \in 1..m : what[j] \in Items
    OBVIOUS
<1>7. i \in 1..m + 1
    OBVIOUS
<1> HIDE DEF n, m, all
<1>8. ASSUME NEW j \in Nat, j \in S PROVE j + 1 \in S
    <2>1. CASE j + 1 <= m
        <3>1. f[n + (j + 1)] = f0 /\ p[n + (j + 1)] = p0 + at[j + 1] /\ j + 1 \in 1..m
            BY <1>1, <1>8, <2>1
        <3>2. all[n + (j + 1)] = what[j + 1] /\ n + (j + 1) \in 1..Len(all)
            BY <1>1, <1>2, <3>1
        <3>3. /\ f[(n + (j + 1)) + 1] = (IF Shuts(all[n + (j + 1)]) THEN f[n + (j + 1)] + 1
                                         ELSE f[n + (j + 1)])
              /\ p[(n + (j + 1)) + 1] = (IF Shuts(all[n + (j + 1)]) THEN 0
                                         ELSE p[n + (j + 1)] + Fixed(all[n + (j + 1)]))
            BY <1>2, <3>2, SpotNext
        <3>4. ~ Shuts(what[j + 1]) /\ at[(j + 1) + 1] = at[j + 1] + Fixed(what[j + 1])
            BY <1>4, <3>1
        <3>5. Fixed(what[j + 1]) \in Nat /\ at[j + 1] \in Nat
            <4>1. what[j + 1] \in Items
                BY <1>6, <3>1
            <4>2. Fixed(what[j + 1]) \in Nat
                BY <4>1, FixedNat
            <4>3. j + 1 \in 1..m + 1
                BY <1>1, <3>1
            <4>4. at[j + 1] \in Nat
                BY <1>4, <4>3
            <4>5. QED BY <4>2, <4>4
        <3> HIDE DEF f, p, f0, p0
        <3>6. f[(n + (j + 1)) + 1] = f0 /\ p[(n + (j + 1)) + 1] = p0 + at[(j + 1) + 1]
            BY <1>3, <3>1, <3>2, <3>3, <3>4, <3>5
        <3>7. (n + (j + 1)) + 1 = n + ((j + 1) + 1)
            BY <1>1
        <3>8. QED BY <3>6, <3>7
    <2>2. CASE ~ (j + 1 <= m)
        BY <2>2
    <2>3. QED BY <2>1, <2>2
<1> HIDE DEF S
<1>9. i - 1 \in Nat /\ i - 1 \in S /\ i - 1 <= m /\ (i - 1) + 1 = i
    BY <1>1, <1>5, <1>7, <1>8, SetInduction
<1>10. QED BY <1>9 DEF S, all, n

\* An item stays where it is when its frag grows.
LEMMA InFragGrows ==
    ASSUME NEW d, NEW it \in Items, NEW f \in FragRecords, f.type \in {"fill", "unset"},
           NEW b \in Seq(Byte), NEW o \in Nat, InFrag(it, f, o, d)
    PROVE  InFrag(it, [f EXCEPT !.lit = @ \o b], o, d)
<1> DEFINE g == [f EXCEPT !.lit = @ \o b]
<1>1. f.lit \in Seq(Byte) /\ g.lit = f.lit \o b /\ g.type = f.type
    BY DEF FragRecords
<1> HIDE DEF g
<1>2. /\ Len(g.lit) = Len(f.lit) + Len(b) /\ Len(f.lit) \in Nat /\ Len(b) \in Nat
      /\ \A i \in 1..Len(f.lit) : g.lit[i] = f.lit[i]
    <2> DEFINE x == f.lit  y == g.lit
    <2>1. x \in Seq(Byte) /\ y = x \o b
        BY <1>1
    <2> HIDE DEF x, y
    <2>2. Len(y) = Len(x) + Len(b) /\ \A i \in 1..Len(x) : y[i] = x[i]
        BY <2>1
    <2>3. Len(x) \in Nat /\ Len(b) \in Nat
        BY <2>1
    <2>4. QED BY <2>2, <2>3 DEF x, y
<1>3. f.type \notin {"machine", "org", "align"}
    OBVIOUS
<1>4. Own(f) = Len(f.lit) /\ Own(g) = Len(g.lit)
    BY <1>1, <1>2, <1>3 DEF Own, FixSize
<1>5. Fixed(it) \in Nat
    BY FixedNat
<1>6. o + Fixed(it) <= Own(g)
    BY <1>2, <1>4, <1>5 DEF InFrag
<1>7. ASSUME Written(it, d), NEW j \in 1..Fixed(it) PROVE g.lit[o + j] = Stored(it)[j]
    <2>1. f.lit[o + j] = Stored(it)[j] /\ o + Fixed(it) <= Len(f.lit)
        BY <1>4, <1>7 DEF InFrag
    <2>2. o + j \in 1..Len(f.lit)
        BY <1>2, <1>5, <2>1
    <2>3. QED BY <1>2, <2>1, <2>2
<1>8. QED BY <1>3, <1>6, <1>7 DEF InFrag, g

\* The chain before its last frag, and that frag with more bytes.
LEMMA MoreIs ==
    ASSUME NEW frs, FragsOK(frs), Last(frs).type \in {"fill", "unset"}, NEW b \in Seq(Byte)
    PROVE  LET n == Len(frs)  gs == FragMore(frs, b)
           IN /\ n \in Nat /\ n > 0 /\ FragsOK(gs) /\ Len(gs) = n
              /\ \A i \in 1..n - 1 : gs[i] = frs[i]
              /\ gs[n] = [frs[n] EXCEPT !.lit = @ \o b]
              /\ frs[n] \in FragRecords /\ gs[n] \in FragRecords
              /\ frs[n].type \in {"fill", "unset"}
              /\ frs[n].lit \in Seq(Byte) /\ gs[n].lit = frs[n].lit \o b
              /\ gs[n].type = frs[n].type
              /\ FixSize(frs[n]) \in Nat /\ FixSize(gs[n]) = FixSize(frs[n]) + Len(b)
              /\ Own(frs[n]) = FixSize(frs[n]) /\ Own(gs[n]) = FixSize(gs[n])
<1> DEFINE n == Len(frs)  gs == FragMore(frs, b)
<1>1. /\ FragsOK(gs) /\ Len(gs) = n /\ \A i \in 1..n - 1 : gs[i] = frs[i]
      /\ Last(gs) = [Last(frs) EXCEPT !.lit = @ \o b]
    BY FragMoreTyped
<1>2. Last(frs) = frs[n] /\ FragOK(Last(frs)) /\ n \in Nat /\ n > 0
    BY LastFrag DEF FragsOK
<1>3. Last(gs) = gs[Len(gs)]
    BY <1>1, LastFrag
<1> HIDE DEF n, gs
<1>4. gs[n] = [frs[n] EXCEPT !.lit = @ \o b] /\ frs[n] \in FragRecords
      /\ frs[n].type \in {"fill", "unset"}
    BY <1>1, <1>2, <1>3 DEF FragOK
<1>5. frs[n].lit \in Seq(Byte) /\ gs[n].lit = frs[n].lit \o b /\ gs[n].type = frs[n].type
    BY <1>4 DEF FragRecords
<1>6. gs[n] \in FragRecords
    BY <1>1, <1>2 DEF FragsOK, FragOK
<1>7. FixSize(frs[n]) \in Nat /\ FixSize(gs[n]) = FixSize(frs[n]) + Len(b)
    <2> DEFINE x == frs[n].lit  y == gs[n].lit
    <2>1. x \in Seq(Byte) /\ y = x \o b
        BY <1>5
    <2> HIDE DEF x, y
    <2>2. Len(y) = Len(x) + Len(b) /\ Len(x) \in Nat
        BY <2>1, ConcatProperties
    <2>3. QED BY <2>2 DEF x, y, FixSize
<1>8. Len(b) \in Nat
    OBVIOUS
<1>9. Own(frs[n]) = FixSize(frs[n]) /\ Own(gs[n]) = FixSize(gs[n])
    BY <1>4, <1>5, <1>7, <1>8 DEF Own
<1>10. QED BY <1>1, <1>2, <1>4, <1>5, <1>6, <1>7, <1>9 DEF n, gs

LEMMA HasBranchKept ==
    ASSUME NEW its \in Seq(Items), NEW what \in Seq(Items), NEW i, HasBranch(its, i)
    PROVE  HasBranch(its \o what, i)
<1>1. PICK k \in 1..Len(its) : IsBranch(its[k]) /\ FragOf(its)[k] = i
    BY DEF HasBranch
<1> DEFINE all == its \o what
<1>2. Len(all) = Len(its) + Len(what) /\ all[k] = its[k]
    BY ConcatProperties
<1>3. Len(what) \in Nat /\ Len(its) \in Nat /\ k \in 1..Len(its) + 1
    OBVIOUS
<1>4. FragOf(all)[k] = FragOf(its)[k]
    BY <1>3, SpotsKept
<1> HIDE DEF all
<1>5. k \in 1..Len(all)
    BY <1>2, <1>3
<1>6. QED BY <1>1, <1>2, <1>4, <1>5 DEF HasBranch, all

LEMMA MoreInPlace ==
    ASSUME NEW d, NEW its \in Seq(Items), NEW what \in Seq(Items), NEW b \in Seq(Byte), NEW at,
           Tiles(what, b, at, d), NEW frs, FragsOK(frs), Last(frs).type \in {"fill", "unset"},
           InPlace(its, frs, d)
    PROVE  InPlace(its \o what, FragMore(frs, b), d)
<1> DEFINE n == Len(its)  m == Len(what)  all == its \o what  gs == FragMore(frs, b)
           z == Len(frs)  f == FragOf(all)  p == PlaceOf(all)
<1>1. n \in Nat /\ m \in Nat
    OBVIOUS
<1>2. /\ all \in Seq(Items) /\ Len(all) = n + m
      /\ \A j \in 1..m : all[n + j] = what[j] /\ what[j] \in Items
      /\ \A k \in 1..n : all[k] = its[k] /\ its[k] \in Items
    <2>1. /\ all \in Seq(Items) /\ Len(all) = Len(its) + Len(what)
          /\ \A j \in 1..Len(what) : all[Len(its) + j] = what[j]
          /\ \A k \in 1..Len(its) : all[k] = its[k]
        OBVIOUS
    <2>2. (\A j \in 1..Len(what) : what[j] \in Items) /\ \A k \in 1..Len(its) : its[k] \in Items
        OBVIOUS
    <2>3. QED BY <2>1, <2>2
<1>3. /\ z \in Nat /\ z > 0 /\ Len(gs) = z /\ \A i \in 1..z - 1 : gs[i] = frs[i]
      /\ gs[z] = [frs[z] EXCEPT !.lit = @ \o b] /\ frs[z] \in FragRecords
      /\ frs[z].type \in {"fill", "unset"} /\ gs[z].type = frs[z].type
      /\ frs[z].lit \in Seq(Byte) /\ gs[z].lit = frs[z].lit \o b
      /\ FixSize(frs[z]) \in Nat /\ FixSize(gs[z]) = FixSize(frs[z]) + Len(b)
      /\ Own(gs[z]) = FixSize(gs[z])
    BY MoreIs
<1>4. FragOf(its)[n + 1] = z /\ PlaceOf(its)[n + 1] = FixSize(frs[z])
    BY DEF InPlace
<1>5. \A i \in 1..m + 1 : f[n + i] = z /\ p[n + i] = FixSize(frs[z]) + at[i]
    <2>1. ASSUME NEW i \in 1..Len(what) + 1
          PROVE  /\ FragOf(its \o what)[Len(its) + i] = FragOf(its)[Len(its) + 1]
                 /\ PlaceOf(its \o what)[Len(its) + i] = PlaceOf(its)[Len(its) + 1] + at[i]
        <3>1. FragOf(its \o what)[Len(its) + i] = FragOf(its)[Len(its) + 1]
            BY TileSpots, ZenonT(30)
        <3>2. PlaceOf(its \o what)[Len(its) + i] = PlaceOf(its)[Len(its) + 1] + at[i]
            BY TileSpots
        <3>3. QED BY <3>1, <3>2
    <2>2. QED BY <1>4, <2>1
<1>6. \A k \in 1..n + 1 : f[k] = FragOf(its)[k] /\ p[k] = PlaceOf(its)[k]
    BY SpotsKept
<1>7. /\ at \in [1..m + 1 -> Nat] /\ at[m + 1] = Len(b)
      /\ \A j \in 1..m :
           /\ ~ Shuts(what[j]) /\ at[j + 1] = at[j] + Fixed(what[j]) /\ at[j + 1] <= Len(b)
           /\ Written(what[j], d) => \A i \in 1..Fixed(what[j]) : b[at[j] + i] = Stored(what[j])[i]
    BY DEF Tiles
<1>8. \A k \in 1..n :
         /\ FragOf(its)[k] \in 1..z /\ InFrag(its[k], frs[FragOf(its)[k]], PlaceOf(its)[k], d)
         /\ IsBranch(its[k]) => its[k].frag = FragOf(its)[k]
         /\ PlaceOf(its)[k] \in Nat
    <2>1. \A k \in 1..n : PlaceOf(its)[k] \in Nat
        BY <1>1, SpotsTyped
    <2>2. QED BY <2>1 DEF InPlace
<1>9. Len(b) \in Nat
    OBVIOUS
<1> HIDE DEF n, m, all, gs, z, f, p
<1>10. f[n + m + 1] = z /\ p[n + m + 1] = FixSize(gs[z])
    <2>1. m + 1 \in 1..m + 1 /\ n + (m + 1) = n + m + 1
        BY <1>1
    <2>2. f[n + (m + 1)] = z /\ p[n + (m + 1)] = FixSize(frs[z]) + at[m + 1]
        BY <1>5, <2>1
    <2>3. QED BY <1>3, <1>7, <2>1, <2>2
<1>11. ASSUME NEW k \in 1..n
       PROVE  /\ f[k] \in 1..z /\ InFrag(all[k], gs[f[k]], p[k], d)
              /\ IsBranch(all[k]) => all[k].frag = f[k]
    <2>0. k \in 1..n + 1
        BY <1>1
    <2>1. k \in 1..n + 1 /\ all[k] = its[k] /\ its[k] \in Items
        BY <1>2, <2>0
    <2>2. f[k] = FragOf(its)[k] /\ p[k] = PlaceOf(its)[k]
        BY <1>6, <2>1
    <2>3. /\ f[k] \in 1..z /\ InFrag(its[k], frs[f[k]], p[k], d) /\ p[k] \in Nat
          /\ IsBranch(its[k]) => its[k].frag = f[k]
        BY <1>8, <2>2
    <2>4. CASE f[k] = z
        <3>1. InFrag(its[k], frs[z], p[k], d)
            BY <2>3, <2>4
        <3>2. InFrag(its[k], [frs[z] EXCEPT !.lit = @ \o b], p[k], d)
            BY <1>3, <2>1, <2>3, <3>1, InFragGrows
        <3>3. QED BY <1>3, <2>1, <2>3, <2>4, <3>2
    <2>5. CASE f[k] # z
        <3>1. f[k] \in 1..z - 1
            BY <1>3, <2>3, <2>5
        <3>2. gs[f[k]] = frs[f[k]]
            BY <1>3, <3>1
        <3>3. QED BY <2>1, <2>3, <3>2
    <2>6. QED BY <2>4, <2>5
<1>12. ASSUME NEW j \in 1..m
       PROVE  /\ f[n + j] \in 1..z /\ InFrag(all[n + j], gs[f[n + j]], p[n + j], d)
              /\ IsBranch(all[n + j]) => all[n + j].frag = f[n + j]
    <2>1. all[n + j] = what[j] /\ what[j] \in Items /\ j \in 1..m + 1
        BY <1>1, <1>2
    <2>2. f[n + j] = z /\ p[n + j] = FixSize(frs[z]) + at[j] /\ at[j] \in Nat
        BY <1>5, <1>7, <2>1
    <2>3. /\ ~ Shuts(what[j]) /\ at[j] + Fixed(what[j]) <= Len(b) /\ Fixed(what[j]) \in Nat
          /\ Written(what[j], d) => \A i \in 1..Fixed(what[j]) : b[at[j] + i] = Stored(what[j])[i]
        BY <1>7, <2>1, FixedNat
    <2>4. InFrag(what[j], gs[z], FixSize(frs[z]) + at[j], d)
        <3> DEFINE s == FixSize(frs[z])  o == s + at[j]
        <3>1. o + Fixed(what[j]) <= Own(gs[z])
            <4>1. s \in Nat /\ Own(gs[z]) = s + Len(b)
                BY <1>3
            <4> HIDE DEF s
            <4>2. QED BY <1>9, <2>2, <2>3, <4>1
        <3>2. ASSUME Written(what[j], d), NEW i \in 1..Fixed(what[j])
              PROVE  gs[z].lit[o + i] = Stored(what[j])[i]
            <4>1. b[at[j] + i] = Stored(what[j])[i]
                BY <2>3, <3>2
            <4>2. at[j] + i \in 1..Len(b)
                BY <1>9, <2>2, <2>3
            <4> DEFINE x == frs[z].lit  y == gs[z].lit  c == at[j] + i
            <4>3. x \in Seq(Byte) /\ y = x \o b /\ b \in Seq(Byte) /\ c \in 1..Len(b)
                BY <1>3, <4>2
            <4>4. s = Len(x) /\ s \in Nat /\ o + i = s + c
                BY SMTT(30), <1>3, <2>2 DEF FixSize
            <4> HIDE DEF x, y, c, s, o
            <4>5. y[Len(x) + c] = b[c]
                BY <4>3
            <4>6. QED BY <4>1, <4>4, <4>5 DEF y, c
        <3>3. ~ IsBranch(what[j]) /\ what[j].kind # "org"
              /\ what[j].kind # "align"
            BY <2>3 DEF Shuts
        <3>4. QED BY <3>1, <3>2, <3>3 DEF InFrag
    <2>5. z \in 1..z
        BY <1>3
    <2>6. QED BY <2>1, <2>2, <2>3, <2>4, <2>5 DEF Shuts
<1>13. ASSUME NEW k \in 1..n + m
       PROVE  /\ f[k] \in 1..z /\ InFrag(all[k], gs[f[k]], p[k], d)
              /\ IsBranch(all[k]) => all[k].frag = f[k]
    <2>1. CASE k \in 1..n
        BY <1>11, <2>1
    <2>2. CASE k \notin 1..n
        <3>1. k - n \in 1..m /\ n + (k - n) = k
            BY <1>1, <2>2
        <3>2. QED BY <1>12, <3>1
    <2>3. QED BY <2>1, <2>2
<1>14. ASSUME NEW i \in 1..z, gs[i].type = "machine" PROVE HasBranch(all, i)
    <2>1. i # z
        BY <1>3, <1>14
    <2>2. i \in 1..z - 1
        BY <1>3, <2>1
    <2>3. frs[i].type = "machine"
        BY <1>3, <1>14, <2>2
    <2>4. HasBranch(its, i)
        BY <2>3 DEF InPlace, z
    <2>5. QED BY <2>4, HasBranchKept DEF all
<1>15. InPlace(all, gs, d)
    BY <1>2, <1>3, <1>10, <1>13, <1>14 DEF InPlace, f, p
<1>16. QED BY <1>15 DEF all, gs

LEMMA OneMore ==
    ASSUME NEW A, NEW s \in Seq(A), NEW a \in A
    PROVE  /\ s \o <<a>> \in Seq(A) /\ Len(s \o <<a>>) = Len(s) + 1
           /\ (s \o <<a>>)[Len(s) + 1] = a /\ \A k \in 1..Len(s) : (s \o <<a>>)[k] = s[k]
<1> DEFINE w == <<a>>  x == s \o w
<1>1. w \in Seq(A) /\ Len(w) = 1 /\ w[1] = a /\ Len(s) \in Nat
    BY SingleTyped
<1> HIDE DEF w
<1>2. /\ x \in Seq(A) /\ Len(x) = Len(s) + 1
      /\ \A i \in 1..Len(s) + 1 : x[i] = IF i <= Len(s) THEN s[i] ELSE w[i - Len(s)]
    <2>1. /\ x \in Seq(A) /\ Len(x) = Len(s) + Len(w)
          /\ \A i \in 1..Len(s) + Len(w) : x[i] = IF i <= Len(s) THEN s[i] ELSE w[i - Len(s)]
        BY <1>1, ConcatProperties, Zenon
    <2> HIDE DEF x
    <2>2. QED BY <1>1, <2>1
<1> HIDE DEF x
<1>3. x[Len(s) + 1] = a
    <2>1. Len(s) + 1 \in 1..Len(s) + 1 /\ ~ (Len(s) + 1 <= Len(s)) /\ (Len(s) + 1) - Len(s) = 1
        BY <1>1
    <2>2. QED BY <1>1, <1>2, <2>1
<1>4. \A k \in 1..Len(s) : x[k] = s[k]
    BY <1>1, <1>2
<1>5. QED BY <1>2, <1>3, <1>4 DEF x, w

LEMMA LitOf ==
    ASSUME NEW f \in FragRecords
    PROVE  f.lit \in Seq(Byte) /\ Len(f.lit) \in Nat /\ FixSize(f) = Len(f.lit) /\ Own(f) \in Int
<1>1. f.lit \in Seq(Byte) /\ FixSize(f) = Len(f.lit)
    BY DEF FragRecords, FixSize
<1>2. Len(f.lit) \in Nat
    BY <1>1
<1>3. Own(f) \in Int
    BY <1>1, <1>2 DEF Own, OpcodeBytes
<1>4. QED BY <1>1, <1>2, <1>3

\* What is in place in an open frag is in place in one that begins with the same bytes.
LEMMA InFragKept ==
    ASSUME NEW d, NEW it \in Items, NEW f \in FragRecords, f.type \in {"fill", "unset"},
           NEW g \in FragRecords, Own(g) >= Len(f.lit),
           \A i \in 1..Len(f.lit) : g.lit[i] = f.lit[i], NEW o \in Nat, InFrag(it, f, o, d)
    PROVE  InFrag(it, g, o, d)
<1>1. f.lit \in Seq(Byte) /\ Len(f.lit) \in Nat
    BY LitOf
<1>2. f.type \notin {"machine", "org", "align"}
    OBVIOUS
<1>3. Own(f) = Len(f.lit)
    BY <1>1, <1>2 DEF Own, FixSize
<1>4. Fixed(it) \in Nat
    BY FixedNat
<1>5. o + Fixed(it) <= Len(f.lit)
    BY <1>3 DEF InFrag
<1>6. Own(g) \in Int
    BY LitOf
<1>7. o + Fixed(it) <= Own(g)
    BY <1>1, <1>4, <1>5, <1>6
<1>8. ASSUME Written(it, d), NEW j \in 1..Fixed(it) PROVE g.lit[o + j] = Stored(it)[j]
    <2>1. f.lit[o + j] = Stored(it)[j]
        BY <1>8 DEF InFrag
    <2>2. o + j \in 1..Len(f.lit)
        BY <1>1, <1>4, <1>5
    <2>3. QED BY <2>1, <2>2
<1>9. QED BY <1>2, <1>7, <1>8 DEF InFrag

\* The open frag is closed.
LEMMA ShutInPlace ==
    ASSUME NEW d, NEW its \in Seq(Items), NEW it \in Items, Shuts(it), NEW frs, FragsOK(frs),
           Last(frs).type \in {"fill", "unset"}, InPlace(its, frs, d),
           NEW closed, FragOK(closed), Own(closed) = Len(Last(frs).lit),
           \A i \in 1..Len(Last(frs).lit) : closed.lit[i] = Last(frs).lit[i],
           InFrag(it, closed, Len(Last(frs).lit), d),
           IsBranch(it) => it.frag = Len(frs), closed.type = "machine" => IsBranch(it)
    PROVE  InPlace(its \o <<it>>, FragVar(frs, closed), d)
<1> DEFINE n == Len(its)  all == its \o <<it>>  gs == FragVar(frs, closed)
           z == Len(frs)  f == FragOf(all)  p == PlaceOf(all)
<1>1. n \in Nat /\ <<it>> \in Seq(Items)
    BY SingleTyped
<1>2. /\ all \in Seq(Items) /\ Len(all) = n + 1 /\ all[n + 1] = it
      /\ \A k \in 1..n : all[k] = its[k] /\ its[k] \in Items
    <2>1. \A k \in 1..Len(its) : its[k] \in Items
        OBVIOUS
    <2>2. QED BY <2>1, OneMore
<1>3. /\ FragsOK(gs) /\ Len(gs) = z + 1 /\ \A i \in 1..z - 1 : gs[i] = frs[i]
      /\ gs[z] = closed /\ gs[z + 1] = NewFrag("unset")
    BY FragVarTyped
<1>4. /\ Last(frs) = frs[z] /\ z \in Nat /\ z > 0 /\ frs[z] \in FragRecords
      /\ closed \in FragRecords /\ frs[z].type \in {"fill", "unset"}
    BY LastFrag DEF FragsOK, FragOK
<1>5. FragOf(its)[n + 1] = z /\ PlaceOf(its)[n + 1] = FixSize(frs[z])
    BY DEF InPlace
<1>6. \A k \in 1..n + 1 : f[k] = FragOf(its)[k] /\ p[k] = PlaceOf(its)[k]
    BY <1>1, SpotsKept
<1>7. \A k \in 1..n :
         /\ FragOf(its)[k] \in 1..z /\ InFrag(its[k], frs[FragOf(its)[k]], PlaceOf(its)[k], d)
         /\ IsBranch(its[k]) => its[k].frag = FragOf(its)[k]
         /\ PlaceOf(its)[k] \in Nat
    <2>1. \A k \in 1..n : PlaceOf(its)[k] \in Nat
        BY <1>1, SpotsTyped
    <2>2. QED BY <2>1 DEF InPlace
<1>8. f[(n + 1) + 1] = f[n + 1] + 1 /\ p[(n + 1) + 1] = 0
    <2>1. n + 1 \in 1..Len(all) /\ Shuts(all[n + 1])
        BY <1>1, <1>2
    <2> DEFINE k == n + 1
    <2>2. k \in 1..Len(all) /\ Shuts(all[k])
        BY <2>1
    <2> HIDE DEF k, all
    <2>3. f[k + 1] = f[k] + 1 /\ p[k + 1] = 0
        BY <1>2, <2>2, SpotNext
    <2>4. QED BY <2>3 DEF k
<1>9. FixSize(NewFrag("unset")) = 0 /\ NewFrag("unset").type = "unset"
    <2>1. NewFrag("unset").lit = <<>> /\ NewFrag("unset").type = "unset"
        BY DEF NewFrag
    <2>2. QED BY <2>1, EmptyTyped DEF FixSize
<1>10. FixSize(frs[z]) = Len(Last(frs).lit)
    BY <1>4 DEF FixSize
<1> HIDE DEF n, all, gs, z, f, p
<1>11. n + 1 \in 1..n + 1 /\ z \in 1..z + 1
    BY <1>1, <1>4
<1>12. f[n + 1] = z /\ p[n + 1] = FixSize(frs[z])
    BY <1>5, <1>6, <1>11
<1>13. ASSUME NEW k \in 1..n
       PROVE  /\ f[k] \in 1..z + 1 /\ InFrag(all[k], gs[f[k]], p[k], d)
              /\ IsBranch(all[k]) => all[k].frag = f[k]
    <2>1. k \in 1..n + 1 /\ all[k] = its[k] /\ its[k] \in Items
        BY <1>1, <1>2
    <2>2. f[k] = FragOf(its)[k] /\ p[k] = PlaceOf(its)[k]
        BY <1>6, <2>1
    <2>3. /\ f[k] \in 1..z /\ InFrag(its[k], frs[f[k]], p[k], d) /\ p[k] \in Nat
          /\ IsBranch(its[k]) => its[k].frag = f[k]
        BY <1>7, <2>2
    <2>4. f[k] \in 1..z + 1
        BY <1>4, <2>3
    <2>5. CASE f[k] = z
        <3>1. InFrag(its[k], frs[z], p[k], d)
            BY <2>3, <2>5
        <3>2. Own(closed) >= Len(frs[z].lit)
            <4>1. Len(frs[z].lit) \in Nat /\ Own(closed) = Len(frs[z].lit)
                BY <1>4, LitOf
            <4>2. QED BY <4>1
        <3>3. \A i \in 1..Len(frs[z].lit) : closed.lit[i] = frs[z].lit[i]
            BY <1>4
        <3>4. InFrag(its[k], closed, p[k], d)
            BY <1>4, <2>1, <2>3, <3>1, <3>2, <3>3, InFragKept
        <3>5. QED BY <1>3, <2>1, <2>3, <2>4, <2>5, <3>4
    <2>6. CASE f[k] # z
        <3>1. f[k] \in 1..z - 1
            BY <1>4, <2>3, <2>6
        <3>2. gs[f[k]] = frs[f[k]]
            BY <1>3, <3>1
        <3>3. QED BY <2>1, <2>3, <2>4, <3>2
    <2>7. QED BY <2>5, <2>6
<1>14. ASSUME NEW k \in 1..n + 1
       PROVE  /\ f[k] \in 1..z + 1 /\ InFrag(all[k], gs[f[k]], p[k], d)
              /\ IsBranch(all[k]) => all[k].frag = f[k]
    <2>1. CASE k = n + 1
        BY <1>2, <1>3, <1>10, <1>11, <1>12, <2>1 DEF z
    <2>2. CASE k # n + 1
        <3>1. k \in 1..n
            BY <1>1, <2>2
        <3>2. QED BY <1>13, <3>1
    <2>3. QED BY <2>1, <2>2
<1>15. ASSUME NEW i \in 1..z + 1, gs[i].type = "machine" PROVE HasBranch(all, i)
    <2>1. CASE i = z
        <3>1. IsBranch(it)
            BY <1>3, <1>15, <2>1
        <3>2. n + 1 \in 1..Len(all) /\ IsBranch(all[n + 1]) /\ f[n + 1] = i
            BY <1>2, <1>11, <1>12, <2>1, <3>1
        <3>3. QED BY <3>2 DEF HasBranch, f
    <2>2. CASE i # z
        <3>1. i # z + 1
            BY <1>3, <1>9, <1>15
        <3>2. i \in 1..z - 1 /\ i \in 1..z
            BY <1>4, <2>2, <3>1
        <3>3. frs[i].type = "machine"
            BY <1>3, <1>15, <3>2
        <3>4. HasBranch(its, i)
            BY <3>2, <3>3 DEF InPlace, z
        <3>5. QED BY <1>1, <3>4, HasBranchKept DEF all
    <2>3. QED BY <2>1, <2>2
<1>16. f[(n + 1) + 1] = z + 1 /\ p[(n + 1) + 1] = FixSize(gs[z + 1])
    BY <1>3, <1>8, <1>9, <1>12
<1>17. InPlace(all, gs, d)
    BY <1>2, <1>3, <1>14, <1>15, <1>16 DEF InPlace, f, p
<1>18. QED BY <1>17 DEF all, gs

-----------------------------------------------------------------------------
(* The fields, and what the parse keeps.                                   *)

\* The items that ask for a fixup while the text is read, and the fixup they get.
Fielded(it) == \/ it.kind = "data" /\ it.term.sym # NoSym
               \/ it.kind = "insn" /\ it.op \notin Branches \cup Simple
FormOf(it)  == IF it.kind = "data" THEN DataForm(it.width) ELSE Insns[it.op].form
Fits(fx, its, k) == /\ Fielded(its[k]) /\ fx.form = FormOf(its[k])
                    /\ fx.frag = FragOf(its)[k] /\ fx.where = PlaceOf(its)[k]
FieldSet(its) == {fx \in Fixups : \E k \in 1..Len(its) : Fits(fx, its, k)}

Sited(its, frs, fxs, d) == InPlace(its, frs, d) /\ fxs \in Seq(FieldSet(its))

\* A longer list has the fields of its first part.
LEMMA FieldsGrow ==
    ASSUME NEW its \in Seq(Items), NEW what \in Seq(Items), NEW fxs \in Seq(FieldSet(its))
    PROVE  fxs \in Seq(FieldSet(its \o what))
<1> DEFINE all == its \o what
<1>1. /\ Len(all) = Len(its) + Len(what) /\ Len(its) \in Nat /\ Len(what) \in Nat
      /\ \A k \in 1..Len(its) : all[k] = its[k]
    BY ConcatProperties
<1>2. \A k \in 1..Len(its) + 1 : FragOf(all)[k] = FragOf(its)[k] /\ PlaceOf(all)[k] = PlaceOf(its)[k]
    BY SpotsKept
<1> HIDE DEF all
<1>3. ASSUME NEW fx \in Fixups, NEW k \in 1..Len(its), Fits(fx, its, k)
      PROVE  k \in 1..Len(all) /\ Fits(fx, all, k)
    <2>1. k \in 1..Len(all) /\ k \in 1..Len(its) + 1
        BY <1>1
    <2>2. all[k] = its[k] /\ FragOf(all)[k] = FragOf(its)[k] /\ PlaceOf(all)[k] = PlaceOf(its)[k]
        BY <1>1, <1>2, <2>1
    <2>3. QED BY <1>3, <2>1, <2>2 DEF Fits
<1>4. FieldSet(its) \subseteq FieldSet(all)
    BY <1>3 DEF FieldSet
<1>5. fxs \in Seq(FieldSet(all))
    BY <1>4
<1>6. QED BY <1>5 DEF all

\* A field of a tile.
LEMMA TileField ==
    ASSUME NEW d, NEW its \in Seq(Items), NEW what \in Seq(Items), NEW b, NEW at,
           Tiles(what, b, at, d), NEW frs, InPlace(its, frs, d), NEW fx \in Fixups,
           NEW j \in 1..Len(what), Fielded(what[j]), fx.form = FormOf(what[j]),
           fx.frag = Len(frs), fx.where = FixSize(frs[Len(frs)]) + at[j]
    PROVE  fx \in FieldSet(its \o what)
<1> DEFINE all == its \o what  k == Len(its) + j
<1>1. FragOf(all)[k] = FragOf(its)[Len(its) + 1] /\ PlaceOf(all)[k] = PlaceOf(its)[Len(its) + 1] + at[j]
    <2>1. j \in 1..Len(what) + 1
        OBVIOUS
    <2>2. FragOf(its \o what)[Len(its) + j] = FragOf(its)[Len(its) + 1]
        BY <2>1, TileSpots, ZenonT(30)
    <2>3. PlaceOf(its \o what)[Len(its) + j] = PlaceOf(its)[Len(its) + 1] + at[j]
        BY <2>1, TileSpots
    <2>4. QED BY <2>2, <2>3
<1>2. FragOf(its)[Len(its) + 1] = Len(frs) /\ PlaceOf(its)[Len(its) + 1] = FixSize(frs[Len(frs)])
    BY DEF InPlace
<1>3. all[k] = what[j] /\ k \in 1..Len(all)
    <2>1. Len(all) = Len(its) + Len(what) /\ all[k] = what[j]
        OBVIOUS
    <2>2. Len(its) \in Nat /\ Len(what) \in Nat
        OBVIOUS
    <2> HIDE DEF all
    <2>3. QED BY <2>1, <2>2
<1> HIDE DEF all, k
<1>4. Fits(fx, all, k)
    BY <1>1, <1>2, <1>3 DEF Fits
<1>5. QED BY <1>3, <1>4 DEF FieldSet, all

\* What the parse leaves in place, in terms of the state.
Reads(d) == Sited(items, frags, fixes, d)

LEMMA EmitsSited ==
    ASSUME NEW d, Types, phase = "parse", Reads(d), NEW b \in Seq(Byte), NEW what \in Seq(Items),
           NEW at, Tiles(what, b, at, d), Emits(b, what), NEW nf \in Seq(FieldSet(items \o what)),
           fixes' = fixes \o nf
    PROVE  Reads(d)'
<1>1. items \in Seq(Items) /\ FragsOK(frags) /\ Last(frags).type \in {"fill", "unset"}
    BY Reading DEF Types, ItemsOK
<1>2. InPlace(items, frags, d) /\ fixes \in Seq(FieldSet(items))
    BY DEF Reads, Sited
<1>3. frags' = FragMore(frags, b) /\ items' = items \o what
    BY DEF Emits, Handled
<1>4. InPlace(items \o what, FragMore(frags, b), d)
    BY <1>1, <1>2, MoreInPlace
<1>5. fixes \in Seq(FieldSet(items \o what))
    BY <1>1, <1>2, FieldsGrow
<1>6. fixes \o nf \in Seq(FieldSet(items \o what))
    BY <1>5
<1>7. QED BY <1>3, <1>4, <1>6 DEF Reads, Sited

LEMMA EmitsPlain ==
    ASSUME NEW d, Types, phase = "parse", Reads(d), NEW b \in Seq(Byte), NEW what \in Seq(Items),
           NEW at, Tiles(what, b, at, d), Emits(b, what), UNCHANGED fixes
    PROVE  Reads(d)'
<1>1. items \in Seq(Items) /\ FragsOK(frags) /\ Last(frags).type \in {"fill", "unset"}
    BY Reading DEF Types, ItemsOK
<1>2. InPlace(items, frags, d) /\ fixes \in Seq(FieldSet(items))
    BY DEF Reads, Sited
<1>3. frags' = FragMore(frags, b) /\ items' = items \o what
    BY DEF Emits, Handled
<1>4. InPlace(items \o what, FragMore(frags, b), d)
    BY <1>1, <1>2, MoreInPlace
<1>5. fixes \in Seq(FieldSet(items \o what))
    BY <1>1, <1>2, FieldsGrow
<1>6. QED BY <1>3, <1>4, <1>5 DEF Reads, Sited

\* Nothing more in the open frag changes nothing.
LEMMA NoMore ==
    ASSUME NEW frs, FragsOK(frs)
    PROVE  FragMore(frs, <<>>) = frs
<1> DEFINE n == Len(frs)  f == frs[n]
<1>1. frs \in Seq(FragRecords) /\ n \in 1..n /\ f \in FragRecords /\ DOMAIN frs = 1..n
    BY LastFrag DEF FragsOK, FragOK
<1>2. f.lit \o <<>> = f.lit
    <2> DEFINE x == f.lit  e == <<>>
    <2>1. x \in Seq(Byte)
        BY <1>1, LitOf
    <2> HIDE DEF x, f
    <2>2. x \o <<>> = x
        BY <2>1
    <2>3. QED BY <2>2 DEF x
<1>3. [f EXCEPT !.lit = f.lit] = f
    BY <1>1 DEF FragRecords
<1>4. [frs EXCEPT ![n] = f] = frs
    <2> HIDE DEF n
    <2>1. QED BY <1>1
<1>5. FragMore(frs, <<>>) = [frs EXCEPT ![n] = [f EXCEPT !.lit = f.lit \o <<>>]]
    BY DEF FragMore
<1>6. QED BY <1>2, <1>3, <1>4, <1>5

\* Items without bytes.
Weightless(it) == ~ Shuts(it) /\ Fixed(it) = 0

LEMMA QuietSited ==
    ASSUME NEW d, Types, phase = "parse", Reads(d), NEW what \in Seq(Items),
           \A j \in 1..Len(what) : Weightless(what[j]),
           items' = items \o what, UNCHANGED <<frags, fixes>>
    PROVE  Reads(d)'
<1>1. items \in Seq(Items) /\ FragsOK(frags) /\ Last(frags).type \in {"fill", "unset"}
    BY Reading DEF Types, ItemsOK
<1>2. InPlace(items, frags, d) /\ fixes \in Seq(FieldSet(items))
    BY DEF Reads, Sited
<1> DEFINE n == Len(what)  at == [j \in 1..n + 1 |-> 0]  e == <<>>
<1>3. n \in Nat /\ e \in Seq(Byte) /\ Len(e) = 0
    BY EmptyTyped
<1>4. FragMore(frags, e) = frags
    BY <1>1, NoMore
<1> HIDE DEF e
<1>5. Tiles(what, e, at, d)
    <2>1. at \in [1..n + 1 -> Nat] /\ at[1] = 0 /\ at[n + 1] = 0
        BY <1>3
    <2>2. ASSUME NEW j \in 1..n
          PROVE  /\ ~ Shuts(what[j]) /\ at[j + 1] = at[j] + Fixed(what[j]) /\ at[j + 1] <= Len(e)
                 /\ \A i \in 1..Fixed(what[j]) : e[at[j] + i] = Stored(what[j])[i]
        <3>1. Fixed(what[j]) = 0 /\ ~ Shuts(what[j]) /\ at[j] = 0 /\ at[j + 1] = 0
            BY <1>3 DEF Weightless
        <3>2. QED BY <1>3, <3>1
    <2>3. QED BY <1>3, <2>1, <2>2 DEF Tiles
<1>6. InPlace(items \o what, frags, d)
    BY <1>1, <1>2, <1>3, <1>4, <1>5, MoreInPlace
<1>7. fixes \in Seq(FieldSet(items \o what))
    BY <1>1, <1>2, FieldsGrow
<1>8. QED BY <1>6, <1>7 DEF Reads, Sited

\* One item with its bytes.
LEMMA TileOne ==
    ASSUME NEW d, NEW it \in Items, ~ Shuts(it), NEW b \in Seq(Byte), Len(b) = Fixed(it),
           Written(it, d) => b = Stored(it)
    PROVE  /\ <<it>> \in Seq(Items) /\ Len(<<it>>) = 1 /\ <<it>>[1] = it
           /\ \E at : Tiles(<<it>>, b, at, d) /\ at[1] = 0
<1> DEFINE w == <<it>>  at == [j \in 1..1 + 1 |-> IF j = 1 THEN 0 ELSE Len(b)]
<1>1. w \in Seq(Items) /\ Len(w) = 1 /\ w[1] = it
    BY SingleTyped
<1>2. Len(b) \in Nat
    OBVIOUS
<1>3. at \in [1..1 + 1 -> Nat] /\ at[1] = 0 /\ at[1 + 1] = Len(b)
    BY <1>2
<1> HIDE DEF w, at
<1>4. ASSUME NEW j \in 1..1
      PROVE  /\ ~ Shuts(w[j]) /\ at[j + 1] = at[j] + Fixed(w[j]) /\ at[j + 1] <= Len(b)
             /\ Written(w[j], d) => \A i \in 1..Fixed(w[j]) : b[at[j] + i] = Stored(w[j])[i]
    <2>1. j = 1
        OBVIOUS
    <2>2. /\ ~ Shuts(w[1]) /\ at[1 + 1] = at[1] + Fixed(w[1]) /\ at[1 + 1] <= Len(b)
          /\ Written(w[1], d) => \A i \in 1..Fixed(w[1]) : b[at[1] + i] = Stored(w[1])[i]
        BY <1>1, <1>2, <1>3
    <2>3. QED BY <2>1, <2>2
<1>5. Tiles(w, b, at, d)
    BY <1>1, <1>3, <1>4 DEF Tiles
<1>6. QED BY <1>1, <1>3, <1>5 DEF w

\* Data of one width.
LEMMA EvenTiles ==
    ASSUME NEW d, NEW w \in Widths, NEW what \in Seq(Items),
           NEW ps \in [1..Len(what) -> Seq(Byte)],
           \A k \in 1..Len(what) : /\ ~ Shuts(what[k]) /\ Fixed(what[k]) = w /\ Len(ps[k]) = w
                                   /\ Written(what[k], d) => ps[k] = Stored(what[k])
    PROVE  /\ Tiles(what, FlattenSeq(ps), [j \in 1..Len(what) + 1 |-> w * (j - 1)], d)
           /\ FlattenSeq(ps) \in Seq(Byte)
           /\ \A j \in 1..Len(what) : w * (j - 1) \in Nat
<1> DEFINE n == Len(what)  at == [j \in 1..(n + 1) |-> w * (j - 1)]  b == FlattenSeq(ps)
<1>0. n \in Nat
    OBVIOUS
<1>1. /\ \A k \in 1..(n + 1) : w * (k - 1) \in Nat
      /\ \A k \in 1..n : w * ((k + 1) - 1) = w * (k - 1) + w
      /\ w * (1 - 1) = 0
    <2> HIDE DEF n
    <2>1. CASE w = 1
        BY <1>0, <2>1
    <2>2. CASE w = 2
        BY <1>0, <2>2
    <2>3. CASE w = 4
        BY <1>0, <2>3
    <2>4. CASE w = 8
        BY <1>0, <2>4
    <2>5. QED BY <2>1, <2>2, <2>3, <2>4 DEF Widths
<1>2. /\ at \in [1..(n + 1) -> Nat] /\ at[1] = 0
      /\ \A k \in 1..n : at[k] = w * (k - 1) /\ at[k + 1] = at[k] + w
    <2> HIDE DEF n
    <2>1. QED BY <1>0, <1>1
<1>3. ps \in [1..n -> Seq(Byte)]
    OBVIOUS
<1>4. \A k \in 1..n : /\ ~ Shuts(what[k]) /\ Fixed(what[k]) = w /\ Len(ps[k]) = w
                      /\ Written(what[k], d) => ps[k] = Stored(what[k])
    OBVIOUS
<1> HIDE DEF n, at, b
<1>5. Starts(ps, n, at)
    BY <1>2, <1>4 DEF Starts
<1>6. Laid(Byte, FlattenSeq(ps), ps, n, at)
    BY <1>0, <1>3, <1>5, FlattenSegment
<1>7. /\ b \in Seq(Byte) /\ Len(b) = at[n + 1] /\ \A i \in 1..n : at[i + 1] <= at[n + 1]
      /\ \A i \in 1..n : \A j \in 1..Len(ps[i]) : b[at[i] + j] = ps[i][j]
    BY <1>6 DEF Laid, b
<1>8. Tiles(what, b, at, d)
    <2>1. ASSUME NEW j \in 1..n
          PROVE  /\ ~ Shuts(what[j]) /\ at[j + 1] = at[j] + Fixed(what[j]) /\ at[j + 1] <= Len(b)
                 /\ Written(what[j], d) =>
                      \A i \in 1..Fixed(what[j]) : b[at[j] + i] = Stored(what[j])[i]
        <3>1. /\ ~ Shuts(what[j]) /\ Fixed(what[j]) = w /\ Len(ps[j]) = w
              /\ Written(what[j], d) => ps[j] = Stored(what[j])
            BY <1>4
        <3>2. at[j + 1] = at[j] + w /\ at[j + 1] <= Len(b)
            BY <1>2, <1>7
        <3>3. \A i \in 1..w : b[at[j] + i] = ps[j][i]
            BY <1>7, <3>1
        <3>4. QED BY <3>1, <3>2, <3>3
    <2>2. QED BY <1>2, <1>7, <2>1 DEF Tiles, n
<1>9. \A j \in 1..n : w * (j - 1) \in Nat
    BY <1>0, <1>1
<1>10. QED BY <1>7, <1>8, <1>9 DEF b, at, n

\* One item without bytes.
LEMMA QuietItem ==
    ASSUME NEW d, Types, phase = "parse", Reads(d), NEW it \in Items,
           it.kind \in {"label", "fault", "equ"}, items' = items \o <<it>>,
           UNCHANGED <<frags, fixes>>
    PROVE  Reads(d)'
<1> DEFINE w == <<it>>
<1>1. w \in Seq(Items) /\ Len(w) = 1 /\ w[1] = it
    BY SingleTyped
<1>2. Weightless(it)
    BY DEF Weightless, Shuts, IsBranch, Fixed
<1> HIDE DEF w
<1>3. \A j \in 1..Len(w) : Weightless(w[j])
    BY <1>1, <1>2
<1>4. items' = items \o w
    BY DEF w
<1>5. QED BY <1>1, <1>3, <1>4, QuietSited

LEMMA FaultsSited ==
    ASSUME NEW d, Types, phase = "parse", Reads(d),
           GasError \/ Rejected
    PROVE  Reads(d)'
<1>1. PICK c \in {"gas", "directive", "section"} :
         items' = items \o <<[kind |-> "fault", class |-> c]>> /\ UNCHANGED <<frags, fixes>>
    BY DEF GasError, Rejected, Handled
<1> DEFINE it == [kind |-> "fault", class |-> c]
<1>2. it \in Items /\ it.kind = "fault"
    BY DEF Items
<1>3. items' = items \o <<it>> /\ UNCHANGED <<frags, fixes>>
    BY <1>1
<1> HIDE DEF it
<1>4. QED BY <1>2, <1>3, QuietItem

\* Bytes as they are.
LEMMA BytesSited ==
    ASSUME NEW d, Types, phase = "parse", Reads(d), NEW b \in Seq(Byte),
           Emits(b, <<Bytes(b)>>), UNCHANGED fixes
    PROVE  Reads(d)'
<1> DEFINE it == Bytes(b)  w == <<it>>
<1>1. it \in Items /\ it.kind = "bytes" /\ it.bytes = b
    BY DEF Bytes, Items
<1> HIDE DEF it
<1>2. ~ Shuts(it) /\ Fixed(it) = Len(b) /\ Stored(it) = b
    BY <1>1 DEF Shuts, IsBranch, Fixed, Stored
<1>3. <<it>> \in Seq(Items) /\ \E at : Tiles(<<it>>, b, at, d)
    BY <1>1, <1>2, TileOne
<1>4. PICK at : Tiles(w, b, at, d)
    BY <1>3
<1>5. w \in Seq(Items)
    BY <1>3
<1>6. Emits(b, w)
    BY DEF w, it
<1> HIDE DEF w
<1>7. QED BY <1>4, <1>5, <1>6, EmitsPlain

\* strtoll and gas's own reader agree on the numbers of the list being read.
LiteralsFit ==
    At(DataDirectives) /\ AllIntLiterals(Args) =>
        \A k \in DOMAIN SplitOperands(Args) :
            ParseInt(SplitOperands(Args)[k]) = Exact(Number[SplitOperands(Args)[k][1]])

LEMMA NumberIs ==
    ASSUME NEW o \in Seq(Tokens), IsNumber(o)
    PROVE  Expression(o) = Constant(Exact(Number[o[1]]))
<1>1. Len(o) = 1 /\ o[1] \in DOMAIN Number /\ o # <<>>
    BY DEF IsNumber
<1>2. o[1] \notin NameTokens
    BY <1>1, NameTypes DEF NameTokens
<1>3. ~ IsRef(o) /\ ~ IsDifference(o)
    BY <1>2 DEF IsRef, IsDifference, IsName
<1>4. QED BY <1>1, <1>3 DEF Expression

\* The items of a data list.
LEMMA DatumIs ==
    ASSUME NEW w \in Widths, NEW e \in Terms, NEW d
    PROVE  LET it == Datum(w, e)
           IN /\ it \in Items /\ ~ Shuts(it) /\ Fixed(it) = w
              /\ Written(it, d) <=> d /\ e.sym = NoSym
              /\ Stored(it) = LittleEndian(e.add, w)
              /\ Fielded(it) <=> e.sym # NoSym
              /\ FormOf(it) = DataForm(w)
<1> DEFINE it == Datum(w, e)
<1>1. it \in Items
    BY DatumTyped
<1>2. it.kind = "data" /\ it.width = w /\ it.term = e
    BY DEF Datum
<1> HIDE DEF it
<1>3. ~ Shuts(it) /\ Fixed(it) = w /\ Stored(it) = LittleEndian(e.add, w)
    BY <1>2 DEF Shuts, IsBranch, Fixed, Stored
<1>4. Written(it, d) <=> d /\ e.sym = NoSym
    BY <1>2 DEF Written, Plain
<1>5. Fielded(it) <=> e.sym # NoSym
    BY <1>2 DEF Fielded
<1>6. FormOf(it) = DataForm(w)
    BY <1>2 DEF FormOf
<1>7. QED BY <1>1, <1>3, <1>4, <1>5, <1>6 DEF it

LEMMA IntListSited ==
    ASSUME NEW d, Types, Reads(d), IntList, d => LiteralsFit
    PROVE  Reads(d)'
<1> DEFINE w == DataWidth(Directive)  os == SplitOperands(Args)  n == Len(os)  what == Data(w, os)
           piece(k) == LittleEndian(ParseInt(os[k]), w)  ps == [k \in 1..n |-> piece(k)]
<1>1. /\ phase = "parse" /\ Directive \in DataDirectives /\ AllIntLiterals(Args)
      /\ Emits(EmitIntList(Args, w), what) /\ UNCHANGED fixes /\ At(DataDirectives)
    BY DEF IntList, At
<1>2. w \in Widths /\ Args \in Seq(Tokens) /\ SymsTyped
    BY <1>1, DirectiveWidth, Reading
<1>3. os \in Seq(Seq(Tokens)) /\ n \in Nat /\ DOMAIN os = 1..n
    BY <1>2, CommasTyped
<1>4. \A k \in 1..n : IsNumber(os[k]) /\ os[k] \in Seq(Tokens)
    BY <1>1, <1>3, SMTT(30) DEF AllIntLiterals
<1>5. /\ what \in Seq(Items) /\ Len(what) = n
      /\ \A k \in 1..n : what[k] = Datum(w, Expression(os[k])) /\ Expression(os[k]) \in Terms
    BY <1>2, <1>3, <1>4, DataTyped DEF IsExpression
<1>6. EmitIntList(Args, w) = FlattenSeq(ps)
    BY <1>3 DEF EmitIntList
<1>7. \A k \in 1..n : d => ParseInt(os[k]) = Exact(Number[os[k][1]])
    BY <1>1, <1>3 DEF LiteralsFit
<1>8. w \in Nat
    BY <1>2 DEF Widths
<1>9. \A k \in 1..n : piece(k) \in Seq(Byte) /\ Len(piece(k)) = w
    BY <1>8, LittleEndianIs
<1>10. ps \in [1..n -> Seq(Byte)] /\ \A k \in 1..n : ps[k] = piece(k)
    <2> HIDE DEF piece
    <2>1. QED BY <1>9
<1> HIDE DEF w, os, n, what, ps
<1>11. ASSUME NEW k \in 1..n
       PROVE  /\ ~ Shuts(what[k]) /\ Fixed(what[k]) = w /\ Len(ps[k]) = w
              /\ Written(what[k], d) => ps[k] = Stored(what[k])
    <2> DEFINE e == Expression(os[k])
    <2>1. e \in Terms /\ what[k] = Datum(w, e)
        BY <1>5
    <2>2. e = Constant(Exact(Number[os[k][1]]))
        BY <1>4, NumberIs
    <2>3. Exact(Number[os[k][1]]) \in Word
        BY <1>4, WordParts DEF IsNumber
    <2>4. e.sym = NoSym /\ e.add = Exact(Number[os[k][1]])
        BY <2>2, <2>3, ConstantTyped
    <2> HIDE DEF e
    <2>5. /\ ~ Shuts(what[k]) /\ Fixed(what[k]) = w
          /\ Written(what[k], d) => d
          /\ Stored(what[k]) = LittleEndian(e.add, w)
        BY <1>2, <2>1, DatumIs
    <2>6. d => ps[k] = LittleEndian(e.add, w)
        BY <1>7, <1>10, <2>4
    <2>7. Len(ps[k]) = w
        BY <1>9, <1>10
    <2>8. QED BY <2>5, <2>6, <2>7
<1> DEFINE at == [j \in 1..n + 1 |-> w * (j - 1)]  b == FlattenSeq(ps)
<1>12. Tiles(what, b, at, d) /\ b \in Seq(Byte)
    <2>1. ps \in [1..Len(what) -> Seq(Byte)]
        BY <1>5, <1>10
    <2>2. \A k \in 1..Len(what) : /\ ~ Shuts(what[k]) /\ Fixed(what[k]) = w /\ Len(ps[k]) = w
                                  /\ Written(what[k], d) => ps[k] = Stored(what[k])
        BY <1>5, <1>11
    <2>3. /\ Tiles(what, FlattenSeq(ps), [j \in 1..Len(what) + 1 |-> w * (j - 1)], d)
          /\ FlattenSeq(ps) \in Seq(Byte)
        BY <1>2, <1>5, <2>1, <2>2, EvenTiles
    <2>4. QED BY <1>5, <2>3
<1>13. Emits(b, what)
    BY <1>1, <1>6 DEF w, what
<1> HIDE DEF at, b
<1>14. QED BY <1>1, <1>5, <1>12, <1>13, EmitsPlain

LEMMA ConsListSited ==
    ASSUME NEW d, Types, Reads(d), ConsList
    PROVE  Reads(d)'
<1> DEFINE w  == DataWidth(Directive)
           os == Commas(Args)
           es == [k \in DOMAIN os |-> Expression(os[k])]
           at(k) == FragNowFix(frags) + w * (k - 1)
           ps == [k \in DOMAIN os |-> Cons1(w, es[k])]
           fx(k) == Fix(FragNow(frags), at(k), DataForm(w), es[k])
           one(k) == IF es[k].sym = NoSym THEN <<>> ELSE <<fx(k)>>
           n == Len(os)
           what == Data(w, os)
<1>1. phase = "parse" /\ Directive \in DataDirectives
    BY DEF ConsList, At
<1>2. \/ GasError
      \/ /\ \A k \in DOMAIN os : IsExpression(os[k])
         /\ Emits(FlattenSeq(ps), what)
         /\ fixes' = fixes \o FlattenSeq([k \in DOMAIN os |-> one(k)])
    BY DEF ConsList
<1>3. CASE GasError
    BY <1>1, <1>3, FaultsSited
<1>4. CASE /\ \A k \in DOMAIN os : IsExpression(os[k])
           /\ Emits(FlattenSeq(ps), what)
           /\ fixes' = fixes \o FlattenSeq([k \in DOMAIN os |-> one(k)])
    <2>1. w \in Widths /\ Args \in Seq(Tokens) /\ SymsTyped
        BY <1>1, DirectiveWidth, Reading
    <2>2. os \in Seq(Seq(Tokens))
        BY <2>1, CommasTyped
    <2>3. DOMAIN os = 1..n /\ n \in Nat
        BY <2>2
    <2>4. /\ what \in Seq(Items) /\ Len(what) = n
          /\ \A k \in 1..n : what[k] = Datum(w, Expression(os[k])) /\ Expression(os[k]) \in Terms
        BY <1>4, <2>1, <2>2, <2>3, DataTyped
    <2>5. \A k \in 1..n : es[k] \in Terms /\ what[k] = Datum(w, es[k]) /\ ps[k] = Cons1(w, es[k])
        BY <2>3, <2>4
    <2>6. ps \in [1..n -> Seq(Byte)] /\ \A k \in 1..n : Len(ps[k]) = w
        <3> HIDE DEF w, os, es
        <3>1. \A k \in 1..n : Cons1(w, es[k]) \in Seq(Byte) /\ Len(Cons1(w, es[k])) = w
            BY <2>1, ConsTyped
        <3>2. QED BY <2>3, <3>1
    <2> DEFINE b == FlattenSeq(ps)  t == [j \in 1..n + 1 |-> w * (j - 1)]
    <2>7. Emits(b, what)
        BY <1>4
    <2>8. fixes' = fixes \o FlattenSeq([k \in 1..n |-> one(k)])
        BY <1>4, <2>3
    <2> HIDE DEF w, os, es, n, what, ps
    <2>9. ASSUME NEW k \in 1..n
          PROVE  /\ ~ Shuts(what[k]) /\ Fixed(what[k]) = w /\ Len(ps[k]) = w
                 /\ Written(what[k], d) => ps[k] = Stored(what[k])
        <3>1. es[k] \in Terms /\ what[k] = Datum(w, es[k]) /\ ps[k] = Cons1(w, es[k])
            BY <2>5
        <3> DEFINE e == es[k]
        <3> HIDE DEF e
        <3>2. /\ ~ Shuts(what[k]) /\ Fixed(what[k]) = w
              /\ Written(what[k], d) => e.sym = NoSym
              /\ Stored(what[k]) = LittleEndian(e.add, w)
            BY <2>1, <3>1, DatumIs DEF e
        <3>3. e.sym = NoSym => ps[k] = LittleEndian(e.add, w)
            BY <3>1 DEF Cons1, e
        <3>4. QED BY <2>6, <3>2, <3>3
    <2>10. /\ Tiles(what, b, t, d) /\ b \in Seq(Byte) /\ \A j \in 1..n : w * (j - 1) \in Nat
        <3>1. ps \in [1..Len(what) -> Seq(Byte)]
            BY <2>4, <2>6
        <3>2. \A k \in 1..Len(what) : /\ ~ Shuts(what[k]) /\ Fixed(what[k]) = w /\ Len(ps[k]) = w
                                      /\ Written(what[k], d) => ps[k] = Stored(what[k])
            BY <2>4, <2>9
        <3>3. /\ Tiles(what, FlattenSeq(ps), [j \in 1..Len(what) + 1 |-> w * (j - 1)], d)
              /\ FlattenSeq(ps) \in Seq(Byte) /\ \A j \in 1..Len(what) : w * (j - 1) \in Nat
            BY <2>1, <2>4, <3>1, <3>2, EvenTiles
        <3>4. QED BY <2>4, <3>3
    <2>11. items \in Seq(Items) /\ FragsOK(frags) /\ InPlace(items, frags, d)
        BY <1>1, Reading DEF Types, ItemsOK, Reads, Sited
    <2>12. /\ Last(frags) = frags[Len(frags)] /\ Len(frags) \in Nat
           /\ FragNowFix(frags) = FixSize(frags[Len(frags)]) /\ FragNowFix(frags) \in Nat
        <3>1. Last(frags) = frags[Len(frags)] /\ FragOK(Last(frags)) /\ Len(frags) \in 1..Len(frags)
            BY <2>11, LastFrag
        <3>2. FixSize(Last(frags)) \in Nat /\ FixSize(Last(frags)) = Len(Last(frags).lit)
            BY <3>1, LitOf DEF FragOK
        <3>3. QED BY <3>1, <3>2 DEF FragNowFix
    <2>13. ASSUME NEW k \in 1..n PROVE one(k) \in Seq(FieldSet(items \o what))
        <3>1. CASE es[k].sym = NoSym
            <4>1. one(k) = <<>>
                BY <3>1
            <4>2. QED BY <4>1, EmptyTyped
        <3>2. CASE es[k].sym # NoSym
            <4> DEFINE f == fx(k)  e == es[k]
            <4>1. e \in Terms /\ what[k] = Datum(w, e)
                BY <2>5
            <4>2. w * (k - 1) \in Nat
                BY <2>10
            <4>3. at(k) \in Nat
                <5> DEFINE p == w * (k - 1)
                <5>1. p \in Nat
                    BY <4>2
                <5> HIDE DEF p
                <5>2. FragNowFix(frags) + p \in Nat
                    BY <2>12, <5>1
                <5>3. QED BY <5>2 DEF p
            <4>4. DataForm(w) \in FixForms
                BY <2>1, DataFormTyped
            <4> HIDE DEF at
            <4>5. f \in Fixups /\ f.frag = Len(frags) /\ f.where = at(k) /\ f.form = DataForm(w)
                <5>1. f = Fix(Len(frags), at(k), DataForm(w), e)
                    BY DEF FragNow
                <5>2. f.form = DataForm(w)
                    BY <5>1 DEF Fix
                <5> HIDE DEF f, e
                <5>3. f \in Fixups /\ f.frag = Len(frags) /\ f.where = at(k)
                    BY <2>12, <4>1, <4>3, <4>4, <5>1, FixTyped DEF e
                <5>4. QED BY <5>2, <5>3
            <4> HIDE DEF f, e
            <4>6. Fielded(what[k]) /\ FormOf(what[k]) = DataForm(w)
                <5>1. e.sym # NoSym
                    BY <3>2 DEF e
                <5>2. QED BY <2>1, <4>1, <5>1, DatumIs
            <4>7. f.where = FixSize(frags[Len(frags)]) + t[k]
                <5>1. k \in 1..n + 1
                    BY <2>3
                <5>2. t[k] = w * (k - 1)
                    BY <5>1
                <5>3. at(k) = FragNowFix(frags) + w * (k - 1)
                    BY DEF at
                <5> HIDE DEF t
                <5>4. QED BY <2>12, <4>5, <5>2, <5>3
            <4> HIDE DEF t, b
            <4>8. f \in FieldSet(items \o what)
                <5>1. k \in 1..Len(what)
                    BY <2>4
                <5>2. QED BY <2>4, <2>10, <2>11, <4>5, <4>6, <4>7, <5>1, TileField
            <4>9. one(k) = <<f>>
                BY <3>2 DEF f
            <4>10. QED BY <4>8, <4>9, SingleTyped
        <3>3. QED BY <3>1, <3>2
    <2> HIDE DEF one
    <2> DEFINE nf == FlattenSeq([k \in 1..n |-> one(k)])
    <2>14. nf \in Seq(FieldSet(items \o what))
        <3>1. [k \in 1..n |-> one(k)] \in [1..n -> Seq(FieldSet(items \o what))]
            BY <2>13
        <3>2. QED BY <2>3, <3>1, FlattenTyped
    <2>15. fixes' = fixes \o nf
        BY <2>8
    <2> HIDE DEF nf, b, t
    <2>16. QED BY <1>1, <2>4, <2>7, <2>10, <2>14, <2>15, EmitsSited
<1>5. QED BY <1>2, <1>3, <1>4

\* The statements without bytes.
LEMMA QuietStatements ==
    ASSUME NEW d, Types, Reads(d),
           Reset \/ NextStatement \/ Label \/ Equ \/ Accepted \/ SwitchesSection \/ Unsupported
    PROVE  Reads(d)'
<1>1. ASSUME UNCHANGED <<items, frags, fixes>> PROVE Reads(d)'
    BY <1>1 DEF Reads
<1>2. CASE Reset
    <2>1. UNCHANGED <<items, frags, fixes>>
        BY <1>2 DEF Reset, section
    <2>2. QED BY <1>1, <2>1
<1>3. CASE NextStatement
    <2>1. UNCHANGED <<items, frags, fixes>>
        BY <1>3 DEF NextStatement, section
    <2>2. QED BY <1>1, <2>1
<1>4. CASE Label
    <2>1. phase = "parse" /\ UNCHANGED <<frags, fixes>> /\ HasLabel(line)
        BY <1>4 DEF Label
    <2>2. PICK s \in Symbols : ColonDefines(s)
        <3> DEFINE n == line[1]
        <3>1. CASE n \in Names /\ ColonDefines(Sym(n))
            <4>1. Sym(n) \in Symbols
                BY <3>1, NameTypes, SymbolsTyped
            <4>2. QED BY <3>1, <4>1
        <3>2. CASE /\ n \in Locals /\ locals' = [locals EXCEPT ![n] = @ + 1]
                   /\ ColonDefines(<<n, locals'[n]>>)
            <4>1. locals \in [Locals -> Nat]
                BY DEF Types, SymbolsOK, SymsTyped
            <4>2. locals'[n] \in Nat
                BY <3>2, <4>1
            <4>3. <<n, locals'[n]>> \in Symbols
                BY <3>2, <4>2 DEF Symbols
            <4>4. QED BY <3>2, <4>3
        <3>3. QED BY <1>4, <3>1, <3>2 DEF Label
    <2> DEFINE it == [kind |-> "label", sym |-> s]
    <2>3. it \in Items /\ it.kind = "label"
        BY DEF Items
    <2>4. items' = Append(items, it) /\ items \in Seq(Items)
        BY <2>2 DEF ColonDefines, Types, ItemsOK
    <2> HIDE DEF it
    <2>5. items' = items \o <<it>>
        <3>1. Append(items, it) = items \o <<it>>
            BY <2>3, <2>4
        <3>2. QED BY <2>4, <3>1
    <2>6. QED BY <2>1, <2>3, <2>5, QuietItem
<1>5. CASE Equ
    <2> DEFINE o == Commas(Args)
               s == Sym(o[1][1])
               e == Expression(o[2])
               what == [kind |-> "equ", sym |-> s, term |-> e]
    <2>1. /\ phase = "parse"
          /\ \/ Rejected
             \/ GasError
             \/ /\ Len(o) > 1 /\ o[1] # <<>> /\ IsExpression(o[2]) /\ Handled(<<what>>)
                /\ UNCHANGED <<frags, fixes>>
        BY <1>5 DEF Equ, At
    <2>2. CASE Rejected \/ GasError
        BY <2>1, <2>2, FaultsSited
    <2>3. CASE /\ Len(o) > 1 /\ o[1] # <<>> /\ IsExpression(o[2]) /\ Handled(<<what>>)
               /\ UNCHANGED <<frags, fixes>>
        <3>1. Args \in Seq(Tokens) /\ SymsTyped
            BY <2>1, Reading
        <3>2. o \in Seq(Seq(Tokens))
            BY <3>1, CommasTyped
        <3>3. o[1] \in Seq(Tokens) /\ o[2] \in Seq(Tokens) /\ o[1] # <<>> /\ IsExpression(o[2])
            BY <2>3, <3>2
        <3>4. o[1][1] \in Tokens
            BY <3>3
        <3>5. s \in Symbols /\ e \in Terms
            BY <3>1, <3>3, <3>4, SymbolsTyped, ExpressionTyped
        <3> HIDE DEF s, e
        <3>6. what \in Items /\ what.kind = "equ"
            BY <3>5 DEF Items
        <3>7. items' = items \o <<what>>
            BY <2>3 DEF Handled
        <3> HIDE DEF what
        <3>8. QED BY <2>1, <2>3, <3>6, <3>7, QuietItem
    <2>4. QED BY <2>1, <2>2, <2>3
<1>6. CASE Accepted
    <2>1. phase = "parse" /\ items' = items \o <<>> /\ UNCHANGED <<frags, fixes>>
        BY <1>6 DEF Accepted, At, Handled
    <2> DEFINE w == <<>>
    <2>2. w \in Seq(Items) /\ Len(w) = 0
        BY EmptyTyped
    <2>3. items' = items \o w
        BY <2>1
    <2> HIDE DEF w
    <2>4. \A j \in 1..Len(w) : Weightless(w[j])
        BY <2>2
    <2>5. QED BY <2>1, <2>2, <2>3, <2>4, QuietSited
<1>7. CASE SwitchesSection
    <2> DEFINE it == [kind |-> "fault", class |-> "section"]
    <2>1. phase = "parse" /\ items' = items \o <<it>> /\ UNCHANGED <<frags, fixes>>
        BY <1>7 DEF SwitchesSection, At, Handled
    <2>2. it \in Items /\ it.kind = "fault"
        BY DEF Items
    <2> HIDE DEF it
    <2>3. QED BY <2>1, <2>2, QuietItem
<1>8. CASE Unsupported
    <2>1. phase = "parse" /\ Rejected
        BY <1>8 DEF Unsupported
    <2>2. QED BY <2>1, FaultsSited
<1>9. QED BY <1>2, <1>3, <1>4, <1>5, <1>6, <1>7, <1>8

LEMMA BytesStatements ==
    ASSUME NEW d, Types, Reads(d), Ascii \/ Skip
    PROVE  Reads(d)'
<1>1. CASE Ascii
    <2> DEFINE e == EmitAscii(Args, Directive = ".asciz")
    <2>1. phase = "parse" /\ (Rejected \/ (Emits(e.bytes, <<Bytes(e.bytes)>>) /\ UNCHANGED fixes))
        BY <1>1 DEF Ascii, At
    <2>2. e.bytes \in Seq(Byte)
        BY <2>1, Reading, AsciiTyped
    <2> HIDE DEF e
    <2>3. QED BY <2>1, <2>2, BytesSited, FaultsSited
<1>2. CASE Skip
    <2> DEFINE p == ParseIntArgs(Args, IF Directive = ".zero" THEN 1 ELSE 2)
               b == [k \in 1..IntOf(p.args[1]) |-> Low(Arg(p.args, 2), 8)]
    <2>1. /\ phase = "parse"
          /\ \/ Rejected
             \/ p.ok /\ 63 \notin p.args[1] /\ Emits(b, <<Bytes(b)>>) /\ UNCHANGED fixes
        BY <1>2 DEF Skip, At
    <2>2. CASE Rejected
        BY <2>1, <2>2, FaultsSited
    <2>3. CASE 63 \notin p.args[1] /\ Emits(b, <<Bytes(b)>>) /\ UNCHANGED fixes
        <3>1. IntOf(p.args[1]) \in Nat
            BY <2>3, IntOfIs
        <3>2. b \in Seq(Byte)
            BY <3>1, FillBytes
        <3> HIDE DEF b
        <3>3. QED BY <2>1, <2>3, <3>2, BytesSited
    <2>4. QED BY <2>1, <2>2, <2>3
<1>3. QED BY <1>1, <1>2

\* An alignment or an origin closes the open frag.
LEMMA ClosesSited ==
    ASSUME NEW d, Types, phase = "parse", Reads(d), NEW closed, FragOK(closed),
           closed.type \in {"org", "align"}, closed.lit = Last(frags).lit,
           NEW what \in Items, what.kind = closed.type,
           closed.fill = what.fill,
           what.kind = "org" => closed.off = what.to,
           what.kind = "align" => closed.off = what.p2 /\ closed.sub = what.max,
           Closes(closed, what)
    PROVE  Reads(d)'
<1>1. items \in Seq(Items) /\ FragsOK(frags) /\ Last(frags).type \in {"fill", "unset"}
    BY Reading DEF Types, ItemsOK
<1>2. InPlace(items, frags, d) /\ fixes \in Seq(FieldSet(items))
    BY DEF Reads, Sited
<1>3. frags' = FragVar(frags, closed) /\ items' = items \o <<what>> /\ fixes' = fixes
    BY DEF Closes, Handled
<1>4. closed \in FragRecords /\ Last(frags).lit \in Seq(Byte) /\ Len(Last(frags).lit) \in Nat
    BY OpenFrag DEF FragOK
<1>5. Own(closed) = Len(Last(frags).lit) /\ FixSize(closed) = Len(Last(frags).lit)
    BY <1>4 DEF Own, FixSize
<1>6. Shuts(what) /\ ~ IsBranch(what) /\ Fixed(what) = 0 /\ ~ Written(what, d)
    BY DEF Shuts, IsBranch, Fixed, Written, Plain
<1>7. InFrag(what, closed, Len(Last(frags).lit), d)
    BY <1>4, <1>5, <1>6 DEF InFrag
<1>8. InPlace(items \o <<what>>, FragVar(frags, closed), d)
    BY <1>1, <1>2, <1>4, <1>5, <1>6, <1>7, ShutInPlace
<1>9. <<what>> \in Seq(Items)
    BY SingleTyped
<1>10. fixes \in Seq(FieldSet(items \o <<what>>))
    BY <1>1, <1>2, <1>9, FieldsGrow
<1>11. QED BY <1>3, <1>8, <1>10 DEF Reads, Sited

LEMMA ClosingStatements ==
    ASSUME NEW d, Types, Reads(d), Org \/ Align
    PROVE  Reads(d)'
<1>1. CASE Org
    <2> DEFINE p == ParseIntArgs(Args, 2)  to == IntOf(p.args[1])  fill == Low(Arg(p.args, 2), 8)
               closed == [Last(frags) EXCEPT !.type = "org", !.fill = fill, !.off = to]
               what == [kind |-> "org", to |-> to, fill |-> fill]
    <2>1. /\ phase = "parse"
          /\ Rejected \/ (p.ok /\ 63 \notin p.args[1] /\ Closes(closed, what))
        BY <1>1 DEF Org, At
    <2>2. CASE Rejected
        BY <2>1, <2>2, FaultsSited
    <2>3. CASE 63 \notin p.args[1] /\ Closes(closed, what)
        <3>1. to \in Nat /\ fill \in Byte
            BY <2>3, IntOfIs, WordParts
        <3> HIDE DEF to, fill
        <3>2. what \in Items /\ what.kind = "org" /\ what.to = to /\ what.fill = fill
            BY <3>1 DEF Items
        <3>3. Last(frags) \in FragRecords
            BY <2>1, OpenFrag
        <3>4. closed \in FragRecords
            <4>1. "org" \in FragTypes /\ to \in Int
                BY <3>1 DEF FragTypes
            <4>2. QED BY <3>1, <3>3, <4>1 DEF FragRecords
        <3>5. /\ closed.type = "org" /\ closed.off = to /\ closed.fill = fill
              /\ closed.lit = Last(frags).lit
            BY <3>3 DEF FragRecords
        <3>6. FragOK(closed)
            BY <3>1, <3>4, <3>5 DEF FragOK, MachineOK, PaddingOK
        <3> HIDE DEF closed, what
        <3>7. QED BY <2>1, <2>3, <3>2, <3>5, <3>6, ClosesSited
    <2>4. QED BY <2>1, <2>2, <2>3
<1>2. CASE Align
    <2> DEFINE p == ParseIntArgs(Args, 3)
               legal == p.args[1] \in (IF Directive = ".align" THEN Exponents ELSE PowersOfTwo)
               p2   == IF Directive = ".align" THEN IntOf(p.args[1]) ELSE Min(p.args[1])
               fill == Low(Arg(p.args, 2), 8)
               most == IF 63 \in Arg(p.args, 3) THEN 0 ELSE IntOf(Arg(p.args, 3))
               closed == [Last(frags) EXCEPT !.type = "align", !.fill = fill, !.off = p2,
                                             !.sub = most]
               what == [kind |-> "align", p2 |-> p2, fill |-> fill, max |-> most]
    <2>1. /\ phase = "parse"
          /\ Rejected \/ (p.ok /\ legal /\ Closes(closed, what))
        BY <1>2 DEF Align, At
    <2>2. CASE Rejected
        BY <2>1, <2>2, FaultsSited
    <2>3. CASE legal /\ Closes(closed, what)
        <3>1. p2 \in Nat
            <4>1. CASE Directive = ".align"
                <5>1. PICK n \in 0..30 : p.args[1] = ToWord(n)
                    BY <2>3, <4>1 DEF Exponents
                <5>2. 63 \notin ToWord(n)
                    BY SmallPositive
                <5>3. IntOf(p.args[1]) \in Nat
                    BY <5>1, <5>2, IntOfIs
                <5>4. QED BY <4>1, <5>3
            <4>2. CASE Directive # ".align"
                <5>1. PICK b \in 0..62 : p.args[1] = {b}
                    BY <2>3, <4>2 DEF PowersOfTwo
                <5>2. Min({b}) \in {b}
                    <6>1. {b} \in SUBSET Nat /\ {b} # {}
                        OBVIOUS
                    <6>2. QED BY <6>1, MinIs
                <5>3. p2 = Min({b})
                    BY <4>2, <5>1
                <5>4. QED BY <5>2, <5>3
            <4>3. QED BY <4>1, <4>2
        <3>2. most \in Nat /\ fill \in Byte
            BY IntOfIs, WordParts
        <3> HIDE DEF p2, most, fill
        <3>3. what \in Items /\ what.kind = "align" /\ what.p2 = p2 /\ what.fill = fill /\ what.max = most
            BY <3>1, <3>2 DEF Items
        <3>4. Last(frags) \in FragRecords
            BY <2>1, OpenFrag
        <3>5. closed \in FragRecords
            <4>1. "align" \in FragTypes /\ p2 \in Int
                BY <3>1 DEF FragTypes
            <4>2. QED BY <3>1, <3>2, <3>4, <4>1 DEF FragRecords
        <3>6. /\ closed.type = "align" /\ closed.off = p2 /\ closed.fill = fill /\ closed.sub = most
              /\ closed.lit = Last(frags).lit
            BY <3>4 DEF FragRecords
        <3>7. FragOK(closed)
            BY <3>1, <3>5, <3>6 DEF FragOK, MachineOK, PaddingOK
        <3> HIDE DEF closed, what
        <3>8. QED BY <2>1, <2>3, <3>3, <3>6, <3>7, ClosesSited
    <2>4. QED BY <2>1, <2>2, <2>3
<1>3. QED BY <1>1, <1>2

\* An instruction with a field: its bytes and the fixup at their start.
LEMMA FieldSited ==
    ASSUME NEW d, Types, phase = "parse", Reads(d), NEW m \in DOMAIN Insns \ (Simple \cup Branches),
           NEW e \in Terms, NEW what \in Items, what.kind = "insn", what.op = m,
           fixes' = Append(fixes, Fix(FragNow(frags), FragNowFix(frags), Insns[m].form, e)),
           Emits(Insns[m].bytes, <<what>>)
    PROVE  Reads(d)'
<1> DEFINE b == Insns[m].bytes  w == <<what>>
           fx == Fix(Len(frags), Len(Last(frags).lit), Insns[m].form, e)
<1>1. b \in Seq(Byte) /\ Insns[m].form \in FixForms
    BY InsnIs
<1>2. /\ ~ Shuts(what) /\ Fixed(what) = Len(b) /\ Stored(what) = b /\ Fielded(what)
      /\ FormOf(what) = Insns[m].form
    BY DEF Shuts, IsBranch, Fixed, Stored, Fielded, FormOf
<1> HIDE DEF b
<1>3. w \in Seq(Items) /\ Len(w) = 1 /\ w[1] = what /\ \E at : Tiles(w, b, at, d) /\ at[1] = 0
    BY ZenonT(60), <1>1, <1>2, TileOne
<1>4. PICK at : Tiles(w, b, at, d) /\ at[1] = 0
    BY <1>3
<1>5. /\ Len(Last(frags).lit) \in Nat /\ Len(frags) \in Nat
      /\ FixSize(frags[Len(frags)]) = Len(Last(frags).lit)
    BY OpenFrag DEF FixSize
<1>6. fx \in Fixups /\ fx.frag = Len(frags) /\ fx.where = Len(Last(frags).lit)
    BY <1>1, <1>5, FixTyped
<1>7. fx.form = Insns[m].form
    BY DEF Fix
<1>8. fixes' = Append(fixes, fx) /\ Emits(b, w)
    BY DEF FragNow, FragNowFix, b
<1> HIDE DEF fx, w
<1>9. items \in Seq(Items) /\ InPlace(items, frags, d) /\ fixes \in Seq(FieldSet(items))
    BY DEF Types, ItemsOK, Reads, Sited
<1>10. fx \in FieldSet(items \o w)
    <2>1. 1 \in 1..Len(w) /\ Fielded(w[1]) /\ fx.form = FormOf(w[1])
        BY <1>2, <1>3, <1>7
    <2>2. fx.where = FixSize(frags[Len(frags)]) + at[1]
        BY <1>4, <1>5, <1>6
    <2>3. QED BY <1>3, <1>4, <1>6, <1>9, <2>1, <2>2, TileField
<1>11. <<fx>> \in Seq(FieldSet(items \o w))
    BY <1>10, SingleTyped
<1>12. fixes' = fixes \o <<fx>>
    <2>1. Append(fixes, fx) = fixes \o <<fx>>
        <3>1. fixes \in Seq(Fixups) /\ fx \in Fixups
            BY <1>6 DEF Types, FixesOK
        <3>2. QED BY <3>1
    <2>2. QED BY <1>8, <2>1
<1> DEFINE nf == <<fx>>
<1>13. nf \in Seq(FieldSet(items \o w)) /\ fixes' = fixes \o nf
    BY <1>11, <1>12
<1> HIDE DEF nf
<1>14. QED BY <1>1, <1>3, <1>4, <1>8, <1>13, EmitsSited

\* A branch ends the open frag with its first bytes.
LEMMA BranchSited ==
    ASSUME NEW d, Types, phase = "parse", Reads(d), NEW m \in Branches, m \in Tokens, NEW e \in Terms,
           LET i == Insns[m]
               opened == FragMore(frags, SubSeq(i.opcode[i.sub], 1, OpcodeBytes))
           IN frags' = FragVar(opened, [Last(opened) EXCEPT
                         !.type = "machine", !.sub = i.sub, !.op = m, !.sym = e.sym,
                         !.off = IntOf(e.add)]),
           Handled(<<[kind |-> "insn", op |-> m, term |-> e, frag |-> FragNow(frags)]>>),
           UNCHANGED <<syms, fixes, errors, dirErr, secViol>>
    PROVE  Reads(d)'
<1> DEFINE i == Insns[m]  two == SubSeq(i.opcode[i.sub], 1, OpcodeBytes)
           opened == FragMore(frags, two)
           closed == [Last(opened) EXCEPT !.type = "machine", !.sub = i.sub, !.op = m,
                                          !.sym = e.sym, !.off = IntOf(e.add)]
           what == [kind |-> "insn", op |-> m, term |-> e, frag |-> FragNow(frags)]
<1>1. /\ i.sub \in DOMAIN i.opcode /\ i.sub \in Nat /\ i.opcode[i.sub] \in Seq(Byte)
      /\ Len(i.opcode[i.sub]) >= 2
    BY InsnIs DEF OpcodeBytes
<1>2. two \in Seq(Byte) /\ Len(two) = 2
    <2> DEFINE op == i.opcode[i.sub]
    <2>1. op \in Seq(Byte) /\ Len(op) >= 2
        BY <1>1
    <2> HIDE DEF op
    <2>2. SubSeq(op, 1, 2) \in Seq(Byte) /\ Len(SubSeq(op, 1, 2)) = 2
        BY <2>1
    <2>3. QED BY <2>2 DEF op, OpcodeBytes
<1>3. /\ FragsOK(frags) /\ FragOK(Last(frags)) /\ Last(frags).lit \in Seq(Byte)
      /\ Last(frags) \in FragRecords /\ Last(frags).type \in {"fill", "unset"} /\ Last(frags).var = 0
      /\ Last(frags).type # "machine" /\ Len(frags) \in Nat
    BY Reading, OpenFrag
<1> HIDE DEF two
<1>4. Last(opened) = [Last(frags) EXCEPT !.lit = @ \o two] /\ FragsOK(opened)
    BY <1>2, <1>3, FragMoreTyped
<1>5. FragOK(Last(opened))
    BY <1>4, LastFrag
<1>6. Last(opened) \in FragRecords /\ Last(opened).lit = Last(frags).lit \o two
    <2>1. Last(opened) \in FragRecords
        BY <1>5 DEF FragOK
    <2> HIDE DEF opened
    <2>2. QED BY <1>3, <1>4, <2>1 DEF FragRecords
<1>7. /\ Len(Last(opened).lit) = Len(Last(frags).lit) + 2 /\ Len(Last(frags).lit) \in Nat
      /\ \A k \in 1..Len(Last(frags).lit) : Last(opened).lit[k] = Last(frags).lit[k]
    <2> DEFINE x == Last(frags).lit  y == Last(opened).lit
    <2>1. x \in Seq(Byte) /\ y = x \o two
        BY <1>3, <1>6
    <2> HIDE DEF x, y
    <2>2. Len(x \o two) = Len(x) + Len(two) /\ \A k \in 1..Len(x) : (x \o two)[k] = x[k]
        <3>1. two \in Seq(Byte)
            BY <1>2
        <3>2. QED BY <2>1, <3>1
    <2>3. Len(y) = Len(x) + 2 /\ Len(x) \in Nat
        <3>1. Len(x) \in Nat
            BY <2>1
        <3>2. Len(two) = 2
            BY <1>2
        <3>3. QED BY <2>1, <2>2, <3>1, <3>2
    <2>4. \A k \in 1..Len(x) : y[k] = x[k]
        BY <2>1, <2>2
    <2>5. QED BY <2>3, <2>4 DEF x, y
<1> HIDE DEF opened
<1>8. closed \in FragRecords /\ closed.type = "machine" /\ closed.op = m /\ closed.sub = i.sub
      /\ closed.lit = Last(opened).lit
    <2>1. "machine" \in FragTypes /\ IntOf(e.add) \in Int /\ e.sym \in SymVals
        BY IntOfIs DEF FragTypes, Terms
    <2>2. QED BY <1>1, <1>6, <2>1 DEF FragRecords
<1> HIDE DEF closed
<1>9. FragOK(closed)
    BY <1>1, <1>7, <1>8 DEF FragOK, MachineOK, PaddingOK, OpcodeBytes
<1>10. frags' = FragVar(frags, closed)
    <2>1. frags' = FragVar(opened, closed)
        BY DEF opened, closed, two
    <2>2. FragVar(FragMore(frags, two), closed) = FragVar(frags, closed)
        BY <1>3, FragVarAfterMore
    <2>3. QED BY <2>1, <2>2 DEF opened
<1>11. what \in Items /\ what.kind = "insn" /\ what.op = m /\ what.frag = Len(frags)
    <2>1. m \in DOMAIN Insns \ Simple /\ FragNow(frags) \in Nat
        BY <1>3 DEF Branches, Simple, FragNow
    <2>2. QED BY <2>1 DEF Items, FragNow
<1>12. items' = items \o <<what>> /\ fixes' = fixes
    BY DEF Handled
<1> HIDE DEF what
<1>13. IsBranch(what) /\ Shuts(what) /\ Fixed(what) = 0 /\ ~ Written(what, d)
    BY <1>11 DEF Shuts, IsBranch, Fixed, Written, Plain
<1>14. Own(closed) = Len(Last(frags).lit)
    BY <1>7, <1>8 DEF Own, FixSize, OpcodeBytes
<1>15. InFrag(what, closed, Len(Last(frags).lit), d)
    BY <1>7, <1>8, <1>11, <1>13, <1>14 DEF InFrag
<1>16. \A k \in 1..Len(Last(frags).lit) : closed.lit[k] = Last(frags).lit[k]
    BY <1>7, <1>8
<1>17. items \in Seq(Items) /\ InPlace(items, frags, d) /\ fixes \in Seq(FieldSet(items))
    BY DEF Types, ItemsOK, Reads, Sited
<1>18. InPlace(items \o <<what>>, FragVar(frags, closed), d)
    BY <1>3, <1>9, <1>11, <1>13, <1>14, <1>15, <1>16, <1>17, ShutInPlace
<1>19. <<what>> \in Seq(Items)
    BY <1>11, SingleTyped
<1>20. fixes \in Seq(FieldSet(items \o <<what>>))
    BY <1>17, <1>19, FieldsGrow
<1>21. QED BY <1>10, <1>12, <1>18, <1>20 DEF Reads, Sited

LEMMA InstructionSited ==
    ASSUME NEW d, Types, Reads(d), Instruction
    PROVE  Reads(d)'
<1> DEFINE m == line[1]  i == Insns[m]  e == Expression(Operand)
           what == [kind |-> "insn", op |-> m, term |-> e, frag |-> FragNow(frags)]
           opened == FragMore(frags, SubSeq(i.opcode[i.sub], 1, OpcodeBytes))
<1>1. phase = "parse" /\ line # <<>>
    BY DEF Instruction
<1>2. line \in Seq(Tokens) /\ m \in Tokens
    BY <1>1, Reading, ArgsTyped
<1>3. CASE GasError
    BY <1>1, <1>3, FaultsSited
<1>4. CASE m \in Simple /\ Emits(i.bytes, <<Bytes(i.bytes)>>) /\ UNCHANGED fixes
    <2>1. i.bytes \in Seq(Byte)
        BY <1>4, InsnIs
    <2>2. QED BY <1>1, <1>4, <2>1, BytesSited
<1>5. CASE /\ Readable(m) /\ m \notin Simple \cup Branches
           /\ fixes' = Append(fixes, Fix(FragNow(frags), FragNowFix(frags), i.form, e))
           /\ Emits(i.bytes, <<[what EXCEPT !.term = e]>>)
    <2>1. e \in Terms
        BY <1>1, <1>5, OperandTyped
    <2>2. m \in DOMAIN Insns \ (Simple \cup Branches)
        BY <1>5 DEF Readable
    <2>3. [what EXCEPT !.term = e] = what
        OBVIOUS
    <2>4. what \in Items /\ what.kind = "insn" /\ what.op = m
        <3>1. FragNow(frags) \in Nat
            BY <1>1, Reading DEF FragNow
        <3> HIDE DEF e, m
        <3>2. QED BY <2>1, <2>2, <3>1 DEF Items
    <2> HIDE DEF m, e, what
    <2>5. QED BY <1>1, <1>5, <2>1, <2>2, <2>3, <2>4, FieldSited
<1>6. CASE /\ Readable(m) /\ m \in Branches
           /\ frags' = FragVar(opened, [Last(opened) EXCEPT
                    !.type = "machine", !.sub = i.sub, !.op = m, !.sym = e.sym,
                    !.off = IntOf(e.add)])
           /\ Handled(<<what>>)
           /\ UNCHANGED <<syms, fixes, errors, dirErr, secViol>>
    <2>1. m \notin Simple
        BY <1>6, InsnIs
    <2>2. e \in Terms
        BY <1>1, <1>6, <2>1, OperandTyped
    <2> HIDE DEF m, e
    <2>3. QED BY <1>1, <1>2, <1>6, <2>2, BranchSited
<1>7. QED BY <1>3, <1>4, <1>5, <1>6 DEF Instruction

\* The passes before md_convert_frag change the types and states of frags only.
SameFrag(f, g) == /\ FixSize(g) = FixSize(f) /\ g.lit = f.lit /\ g.fill = f.fill
                  /\ g.off = f.off /\ (g.type = "machine" <=> f.type = "machine")
                  /\ f.type \in {"org", "align"} => g = f

LEMMA SameInFrag ==
    ASSUME NEW d, NEW it, NEW f, NEW g, SameFrag(f, g), NEW o, InFrag(it, f, o, d)
    PROVE  InFrag(it, g, o, d)
<1>1. Own(g) = Own(f)
    BY DEF Own, SameFrag
<1>2. QED BY <1>1 DEF InFrag, SameFrag

LEMMA SameSited ==
    ASSUME NEW d, Types, Reads(d), UNCHANGED <<items, fixes>>, NEW new,
           frags' = [i \in DOMAIN frags |-> new[i]],
           \A i \in 1..Len(frags) : SameFrag(frags[i], new[i])
    PROVE  Reads(d)'
<1>1. InPlace(items, frags, d) /\ fixes \in Seq(FieldSet(items)) /\ items \in Seq(Items)
    BY DEF Reads, Sited, Types, ItemsOK
<1>2. frags \in Seq(FragRecords) /\ Len(frags) \in 1..Len(frags) /\ DOMAIN frags = 1..Len(frags)
    BY LastFrag DEF Types, ChainOK, FragsOK
<1> DEFINE gs == [i \in DOMAIN frags |-> new[i]]  n == Len(frags)
<1>3. Len(gs) = n /\ \A i \in 1..n : gs[i] = new[i]
    BY <1>2
<1> HIDE DEF gs, n
<1>4. \A i \in 1..n : SameFrag(frags[i], gs[i])
    BY <1>3 DEF n
<1>5. n \in 1..n
    BY <1>2 DEF n
<1>6. FixSize(gs[n]) = FixSize(frags[n])
    BY <1>4, <1>5 DEF SameFrag
<1>7. ASSUME NEW k \in 1..Len(items)
      PROVE  /\ FragOf(items)[k] \in 1..n
             /\ InFrag(items[k], gs[FragOf(items)[k]], PlaceOf(items)[k], d)
             /\ IsBranch(items[k]) => items[k].frag = FragOf(items)[k]
    <2>1. /\ FragOf(items)[k] \in 1..n
          /\ InFrag(items[k], frags[FragOf(items)[k]], PlaceOf(items)[k], d)
          /\ IsBranch(items[k]) => items[k].frag = FragOf(items)[k]
        BY <1>1 DEF InPlace, n
    <2>2. QED BY <1>4, <2>1, SameInFrag
<1>8. ASSUME NEW i \in 1..n, gs[i].type = "machine" PROVE HasBranch(items, i)
    <2>1. frags[i].type = "machine"
        BY <1>4, <1>8 DEF SameFrag
    <2>2. QED BY <1>1, <2>1 DEF InPlace, n
<1>9. InPlace(items, gs, d)
    BY <1>1, <1>3, <1>6, <1>7, <1>8 DEF InPlace, n
<1>10. frags' = gs
    BY DEF gs
<1>11. QED BY <1>1, <1>9, <1>10 DEF Reads, Sited

LEMMA RelaxSited ==
    ASSUME NEW d, Types, Reads(d), RelaxBranches \/ RelaxSegment
    PROVE  Reads(d)'
<1>1. CASE RelaxBranches
    <2> DEFINE new == [i \in DOMAIN frags |-> Prepared(frags[i])]
    <2>1. frags' = [i \in DOMAIN frags |-> new[i]] /\ UNCHANGED <<items, fixes>>
        BY <1>1 DEF RelaxBranches
    <2>2. ASSUME NEW i \in 1..Len(frags) PROVE SameFrag(frags[i], new[i])
        <3>1. frags[i] \in FragRecords /\ i \in DOMAIN frags
            BY FragIs DEF Types, ChainOK, FragsOK
        <3> DEFINE f == frags[i]
        <3>2. new[i] = Prepared(f)
            BY <3>1
        <3> HIDE DEF f, new
        <3>3. f \in FragRecords
            BY <3>1 DEF f
        <3>4. CASE f.type = "unset"
            <4>1. Prepared(f) = [f EXCEPT !.type = "fill", !.var = 0]
                BY <3>4 DEF Prepared
            <4>2. QED BY <3>2, <3>3, <3>4, <4>1 DEF SameFrag, FragRecords, FixSize, f
        <3>5. CASE f.type = "machine"
            <4>1. Prepared(f) = [f EXCEPT !.sub = StartState(f)]
                BY <3>5 DEF Prepared
            <4>2. QED BY <3>2, <3>3, <3>5, <4>1 DEF SameFrag, FragRecords, FixSize, f
        <3>6. CASE f.type \notin {"unset", "machine"}
            <4>1. Prepared(f) = f
                BY <3>6 DEF Prepared
            <4>2. QED BY <3>2, <4>1 DEF SameFrag, f
        <3>7. QED BY <3>4, <3>5, <3>6
    <2> HIDE DEF new
    <2>3. QED BY <2>1, <2>2, SameSited
<1>2. CASE RelaxSegment
    <2>1. PICK j \in Growing : frags' = [frags EXCEPT ![j].sub = RlxMore[@]]
        BY <1>2 DEF RelaxSegment
    <2>2. frags[j].type = "machine" /\ j \in DOMAIN frags
        BY <2>1 DEF Growing
    <2> DEFINE new == [i \in DOMAIN frags |->
                         IF i = j THEN [frags[j] EXCEPT !.sub = RlxMore[frags[j].sub]] ELSE frags[i]]
    <2>3. frags' = [i \in DOMAIN frags |-> new[i]] /\ UNCHANGED <<items, fixes>>
        <3>1. frags' = [frags EXCEPT ![j] = [frags[j] EXCEPT !.sub = RlxMore[frags[j].sub]]]
            BY <2>1
        <3>2. frags \in Seq(FragRecords)
            BY DEF Types, ChainOK, FragsOK
        <3>3. QED BY <1>2, <2>2, <3>1, <3>2 DEF RelaxSegment
    <2>4. ASSUME NEW i \in 1..Len(frags) PROVE SameFrag(frags[i], new[i])
        <3>1. frags[i] \in FragRecords /\ i \in DOMAIN frags
            BY FragIs DEF Types, ChainOK, FragsOK
        <3>2. CASE i = j
            <4>1. new[i] = [frags[i] EXCEPT !.sub = RlxMore[frags[i].sub]]
                BY <3>1, <3>2
            <4> DEFINE f == frags[i]
            <4> HIDE DEF f, new
            <4>2. f \in FragRecords /\ f.type = "machine" /\ new[i] = [f EXCEPT !.sub = RlxMore[f.sub]]
                BY <2>2, <3>1, <3>2, <4>1 DEF f
            <4>3. SameFrag(f, new[i])
                BY <4>2 DEF SameFrag, FragRecords, FixSize
            <4>4. QED BY <4>3 DEF f
        <3>3. CASE i # j
            <4>1. new[i] = frags[i]
                BY <3>1, <3>3
            <4>2. QED BY <4>1 DEF SameFrag
        <3>4. QED BY <3>2, <3>3
    <2> HIDE DEF new
    <2>5. QED BY <2>3, <2>4, SameSited
<1>3. QED BY <1>1, <1>2

LEMMA LabelsSited ==
    ASSUME NEW d, Types, Reads(d), DefineLabels
    PROVE  Reads(d)'
BY DEF DefineLabels, Reads

=============================================================================
