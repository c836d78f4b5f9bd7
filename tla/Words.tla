-------------------------------- MODULE Words --------------------------------
(* The 64-bit integers of the driver and the glue (uint64_t, long, valueT) as *)
(* the set of their one bits, in two's complement.  Shifts, masks and field    *)
(* moves are then set operations, at the width the code has.                   *)
EXTENDS Scan

WordBits == 0..63
Word == SUBSET WordBits
Byte == SUBSET (0..7)

\* An integer modulo 2^64: n \div 2^b in steps that fit in 32 bits.
Powers == [b \in 0..30 |-> Pow2(b)]
Giga == 1073741824   \* Pow2(30)
ToWord(n) ==
  LET high == n \div Giga  part == <<n, high, high \div Giga>>
  IN {b \in WordBits : (part[b \div 30 + 1] \div Powers[b % 30]) % 2 = 1}

\* `w << k`, or `w >> -k` on an unsigned word.
Shift(w, k) == {b + k : b \in w} \cap WordBits

Low(w, n) == w \cap (0..(n - 1))

\* A bit receives a carry when a lower one generates it and all between pass it.
Carries(a, b) ==
  {k \in WordBits : \E j \in a \cap b :
      j < k /\ \A i \in (j + 1)..(k - 1) : i \in a \cup b}

Xor(a, b) == (a \ b) \cup (b \ a)
Plus(a, b) == Xor(Xor(a, b), Carries(a, b))
Negative(w) == Plus(WordBits \ w, {0})
Minus(a, b) == Plus(a, Negative(b))

\* -2^k <= w < 2^k, and 0 <= w < 2^k.
FitsSigned(w, k) == w \ (0..(k - 1)) \in {{}, k..63}
FitsUnsigned(w, k) == w \subseteq 0..(k - 1)

SignExtend(w, n) == IF n - 1 \in w THEN w \cup (n..63) ELSE w

\* The i-th byte of a word, and its first n bytes in little-endian order.
ByteOf(w, i) == Shift(w, -8 * i) \cap (0..7)
LittleEndian(w, n) == [i \in 1..n |-> ByteOf(w, i - 1)]
==============================================================================
