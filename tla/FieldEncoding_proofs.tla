------------------------- MODULE FieldEncoding_proofs -------------------------
(* Proofs about encode_pcrel_field: for every relocation form, opcode and      *)
(* 64-bit value, the field reads back as the value exactly when the encoder     *)
(* accepts it, and no bit outside the field changes.  The argument is about one *)
(* bit at a time: a bit of the number read back is a bit of the value.         *)
EXTENDS FieldEncoding, WellFoundedInduction, TLAPS

\* A bit of a shifted word is the bit of the word that far below it.
LEMMA ShiftBit ==
  ASSUME NEW w \in SUBSET Int, NEW k \in Int, NEW b \in Int
  PROVE  b \in Shift(w, k) <=> b \in WordBits /\ b - k \in w
  <1>1. ASSUME b \in WordBits, b - k \in w PROVE b \in Shift(w, k)
    <2>1. b = (b - k) + k
      OBVIOUS
    <2> QED BY <1>1, <2>1 DEF Shift
  <1>2. ASSUME b \in Shift(w, k) PROVE b \in WordBits /\ b - k \in w
    BY <1>2 DEF Shift
  <1> QED BY <1>1, <1>2

\* Moves and pieces of a format are triples of numbers.
Triples == Int \X Int \X Int

\* What Moves and Format list.
LEMMA PiecesAreTriples ==
  ASSUME NEW form \in Forms
  PROVE  Moves(form) \subseteq Triples /\ Format(form) \subseteq Triples
  BY DEF Forms, DataForms, InsnForms, RelForms, RefusedForms, Moves, Format, Triples

\* Bit b of w goes to bit b + m[3] - m[1] when it is one of the m[2] bits from m[1].
Goes(m, w, b) == /\ b \in WordBits /\ b + m[1] - m[3] \in w
                 /\ m[3] <= b /\ b < m[3] + m[2]

\* A bit of a moved piece: the shift of a part of a word, bit by bit.
LEMMA MovedBit ==
  ASSUME NEW m \in Triples, NEW w \in SUBSET Int, NEW b \in Int
  PROVE  b \in Shift(w \cap (m[1]..(m[1] + m[2] - 1)), m[3] - m[1]) <=> Goes(m, w, b)
  <1> DEFINE piece == w \cap (m[1]..(m[1] + m[2] - 1))
  <1>1. piece \in SUBSET Int /\ m[1] \in Int /\ m[2] \in Int /\ m[3] \in Int
    BY DEF Triples
  <1>2. b \in Shift(piece, m[3] - m[1]) <=> b \in WordBits /\ b - (m[3] - m[1]) \in piece
    BY <1>1, ShiftBit
  <1> QED BY <1>1, <1>2 DEF Goes

\* The gathered number has a bit exactly when one piece of the format brings it.
LEMMA GatheredBit ==
  ASSUME NEW form \in Forms, NEW op \in SUBSET Int, NEW b \in Int
  PROVE  b \in Gathered(form, op) <=> \E p \in Format(form) : Goes(p, op, b)
  <1>1. b \in Gathered(form, op) <=>
          \E p \in Format(form) : b \in Shift(op \cap (p[1]..(p[1] + p[2] - 1)), p[3] - p[1])
    BY DEF Gathered
  <1> QED BY <1>1, PiecesAreTriples, MovedBit

\* The placed bits are the ones some move brings.
LEMMA PlacedBit ==
  ASSUME NEW form \in Forms, NEW v \in SUBSET Int, NEW b \in Int
  PROVE  b \in Placed(form, v) <=> \E m \in Moves(form) : Goes(m, v, b)
  <1>1. b \in Placed(form, v) <=>
          \E m \in Moves(form) : b \in Shift(v \cap (m[1]..(m[1] + m[2] - 1)), m[3] - m[1])
    BY DEF Placed
  <1> QED BY <1>1, PiecesAreTriples, MovedBit

\* Bit b of the word belongs to the target of move m.
Covers(m, b) == m[3] <= b /\ b < m[3] + m[2]
\* The field is where the moves go.
LEMMA FieldBit ==
  ASSUME NEW form \in Forms, NEW b \in Int
  PROVE  b \in Field(form) <=> \E m \in Moves(form) : Covers(m, b)
  <1>1. b \in Field(form) <=> \E m \in Moves(form) : b \in m[3]..(m[3] + m[2] - 1)
    BY DEF Field
  <1> QED BY <1>1, PiecesAreTriples DEF Triples, Covers

\* The word with v in its field.
Filled(form, op, v) == (op \ Field(form)) \cup Placed(form, v)

\* A filled word is a set of integers.
LEMMA FilledType ==
  ASSUME NEW form \in Forms, NEW op \in Word, NEW v \in Word
  PROVE  Filled(form, op, v) \in SUBSET Int
  <1>1. Placed(form, v) \subseteq WordBits
    BY DEF Placed, Shift
  <1>2. \A b \in Filled(form, op, v) : b \in WordBits
    BY <1>1 DEF Filled, Word
  <1> QED BY <1>2 DEF WordBits

\* Form 24REL: which bits of the value its gathered field holds.
LEMMA Read_24REL ==
  ASSUME NEW op \in Word, NEW v \in Word, NEW d \in Int
  PROVE  d \in Gathered("24REL", Filled("24REL", op, v)) <=> d \in 0..23 /\ d + 1 \in v
  <1> DEFINE e == Filled("24REL", op, v)
  <1>1. "24REL" \in Forms
    BY DEF Forms, DataForms, InsnForms, RelForms, RefusedForms
  <1>2. /\ Moves("24REL") = {<<1, 16, 16>>, <<17, 8, 8>>}
        /\ Format("24REL") = {<<16, 16, 0>>, <<8, 8, 16>>}
    BY DEF Moves, Format, DataForms, RefusedForms
  <1>3. v \in SUBSET Int
    BY DEF Word, WordBits
  <1>4. ASSUME NEW b \in Int
        PROVE  b \in e <=>
                 \/ (b \in 16..31 /\ b - 15 \in v)
                 \/ (b \in 8..15 /\ b + 9 \in v)
                 \/ (b \in op /\ ~ (b \in 16..31 \/ b \in 8..15))
    <2>1. /\ Goes(<<1, 16, 16>>, v, b) <=> b \in 16..31 /\ b - 15 \in v
          /\ Covers(<<1, 16, 16>>, b) <=> b \in 16..31
      BY DEF Goes, Covers, WordBits
    <2>2. /\ Goes(<<17, 8, 8>>, v, b) <=> b \in 8..15 /\ b + 9 \in v
          /\ Covers(<<17, 8, 8>>, b) <=> b \in 8..15
      BY DEF Goes, Covers, WordBits
    <2>3. b \in Placed("24REL", v) <=> Goes(<<1, 16, 16>>, v, b) \/ Goes(<<17, 8, 8>>, v, b)
      BY <1>1, <1>2, <1>3, PlacedBit
    <2>4. b \in Field("24REL") <=> Covers(<<1, 16, 16>>, b) \/ Covers(<<17, 8, 8>>, b)
      BY <1>1, <1>2, FieldBit
    <2> QED BY <2>1, <2>2, <2>3, <2>4 DEF Filled
  <1>5. d \in Gathered("24REL", e) <=>
          \/ (d \in 0..15 /\ d + 16 \in e)
          \/ (d \in 16..23 /\ d - 8 \in e)
    <2>1. Goes(<<16, 16, 0>>, e, d) <=> d \in 0..15 /\ d + 16 \in e
      BY DEF Goes, WordBits
    <2>2. Goes(<<8, 8, 16>>, e, d) <=> d \in 16..23 /\ d - 8 \in e
      BY DEF Goes, WordBits
    <2>3. d \in Gathered("24REL", e) <=> Goes(<<16, 16, 0>>, e, d) \/ Goes(<<8, 8, 16>>, e, d)
      BY <1>1, <1>2, FilledType, GatheredBit
    <2> QED BY <2>1, <2>2, <2>3
  <1> QED BY <1>4, <1>5

\* Form 24ABS: which bits of the value its gathered field holds.
LEMMA Read_24ABS ==
  ASSUME NEW op \in Word, NEW v \in Word, NEW d \in Int
  PROVE  d \in Gathered("24ABS", Filled("24ABS", op, v)) <=> ((d \in 0..19 /\ d + 1 \in v) \/ (d \in 20..23 /\ d + 8 \in v))
  <1> DEFINE e == Filled("24ABS", op, v)
  <1>1. "24ABS" \in Forms
    BY DEF Forms, DataForms, InsnForms, RelForms, RefusedForms
  <1>2. /\ Moves("24ABS") = {<<1, 16, 16>>, <<17, 4, 8>>, <<28, 4, 12>>}
        /\ Format("24ABS") = {<<16, 16, 0>>, <<8, 8, 16>>}
    BY DEF Moves, Format, DataForms, RefusedForms
  <1>3. v \in SUBSET Int
    BY DEF Word, WordBits
  <1>4. ASSUME NEW b \in Int
        PROVE  b \in e <=>
                 \/ (b \in 16..31 /\ b - 15 \in v)
                 \/ (b \in 8..11 /\ b + 9 \in v)
                 \/ (b \in 12..15 /\ b + 16 \in v)
                 \/ (b \in op /\ ~ (b \in 16..31 \/ b \in 8..11 \/ b \in 12..15))
    <2>1. /\ Goes(<<1, 16, 16>>, v, b) <=> b \in 16..31 /\ b - 15 \in v
          /\ Covers(<<1, 16, 16>>, b) <=> b \in 16..31
      BY DEF Goes, Covers, WordBits
    <2>2. /\ Goes(<<17, 4, 8>>, v, b) <=> b \in 8..11 /\ b + 9 \in v
          /\ Covers(<<17, 4, 8>>, b) <=> b \in 8..11
      BY DEF Goes, Covers, WordBits
    <2>3. /\ Goes(<<28, 4, 12>>, v, b) <=> b \in 12..15 /\ b + 16 \in v
          /\ Covers(<<28, 4, 12>>, b) <=> b \in 12..15
      BY DEF Goes, Covers, WordBits
    <2>4. b \in Placed("24ABS", v) <=> Goes(<<1, 16, 16>>, v, b) \/ Goes(<<17, 4, 8>>, v, b) \/ Goes(<<28, 4, 12>>, v, b)
      BY <1>1, <1>2, <1>3, PlacedBit
    <2>5. b \in Field("24ABS") <=> Covers(<<1, 16, 16>>, b) \/ Covers(<<17, 4, 8>>, b) \/ Covers(<<28, 4, 12>>, b)
      BY <1>1, <1>2, FieldBit
    <2> QED BY <2>1, <2>2, <2>3, <2>4, <2>5 DEF Filled
  <1>5. d \in Gathered("24ABS", e) <=>
          \/ (d \in 0..15 /\ d + 16 \in e)
          \/ (d \in 16..23 /\ d - 8 \in e)
    <2>1. Goes(<<16, 16, 0>>, e, d) <=> d \in 0..15 /\ d + 16 \in e
      BY DEF Goes, WordBits
    <2>2. Goes(<<8, 8, 16>>, e, d) <=> d \in 16..23 /\ d - 8 \in e
      BY DEF Goes, WordBits
    <2>3. d \in Gathered("24ABS", e) <=> Goes(<<16, 16, 0>>, e, d) \/ Goes(<<8, 8, 16>>, e, d)
      BY <1>1, <1>2, FilledType, GatheredBit
    <2> QED BY <2>1, <2>2, <2>3
  <1> QED BY <1>4, <1>5

\* Form 18ABS: which bits of the value its gathered field holds.
LEMMA Read_18ABS ==
  ASSUME NEW op \in Word, NEW v \in Word, NEW d \in Int
  PROVE  d \in Gathered("18ABS", Filled("18ABS", op, v)) <=> ((d \in 0..13 /\ d \in v) \/ (d \in 14..17 /\ d + 14 \in v))
  <1> DEFINE e == Filled("18ABS", op, v)
  <1>1. "18ABS" \in Forms
    BY DEF Forms, DataForms, InsnForms, RelForms, RefusedForms
  <1>2. /\ Moves("18ABS") = {<<0, 6, 16>>, <<6, 4, 28>>, <<10, 4, 22>>, <<28, 4, 12>>}
        /\ Format("18ABS") = {<<16, 6, 0>>, <<28, 4, 6>>, <<22, 4, 10>>, <<12, 4, 14>>}
    BY DEF Moves, Format, DataForms, RefusedForms
  <1>3. v \in SUBSET Int
    BY DEF Word, WordBits
  <1>4. ASSUME NEW b \in Int
        PROVE  b \in e <=>
                 \/ (b \in 16..21 /\ b - 16 \in v)
                 \/ (b \in 28..31 /\ b - 22 \in v)
                 \/ (b \in 22..25 /\ b - 12 \in v)
                 \/ (b \in 12..15 /\ b + 16 \in v)
                 \/ (b \in op /\ ~ (b \in 16..21 \/ b \in 28..31 \/ b \in 22..25 \/ b \in 12..15))
    <2>1. /\ Goes(<<0, 6, 16>>, v, b) <=> b \in 16..21 /\ b - 16 \in v
          /\ Covers(<<0, 6, 16>>, b) <=> b \in 16..21
      BY DEF Goes, Covers, WordBits
    <2>2. /\ Goes(<<6, 4, 28>>, v, b) <=> b \in 28..31 /\ b - 22 \in v
          /\ Covers(<<6, 4, 28>>, b) <=> b \in 28..31
      BY DEF Goes, Covers, WordBits
    <2>3. /\ Goes(<<10, 4, 22>>, v, b) <=> b \in 22..25 /\ b - 12 \in v
          /\ Covers(<<10, 4, 22>>, b) <=> b \in 22..25
      BY DEF Goes, Covers, WordBits
    <2>4. /\ Goes(<<28, 4, 12>>, v, b) <=> b \in 12..15 /\ b + 16 \in v
          /\ Covers(<<28, 4, 12>>, b) <=> b \in 12..15
      BY DEF Goes, Covers, WordBits
    <2>5. b \in Placed("18ABS", v) <=> Goes(<<0, 6, 16>>, v, b) \/ Goes(<<6, 4, 28>>, v, b) \/ Goes(<<10, 4, 22>>, v, b) \/ Goes(<<28, 4, 12>>, v, b)
      BY <1>1, <1>2, <1>3, PlacedBit
    <2>6. b \in Field("18ABS") <=> Covers(<<0, 6, 16>>, b) \/ Covers(<<6, 4, 28>>, b) \/ Covers(<<10, 4, 22>>, b) \/ Covers(<<28, 4, 12>>, b)
      BY <1>1, <1>2, FieldBit
    <2> QED BY <2>1, <2>2, <2>3, <2>4, <2>5, <2>6 DEF Filled
  <1>5. d \in Gathered("18ABS", e) <=>
          \/ (d \in 0..5 /\ d + 16 \in e)
          \/ (d \in 6..9 /\ d + 22 \in e)
          \/ (d \in 10..13 /\ d + 12 \in e)
          \/ (d \in 14..17 /\ d - 2 \in e)
    <2>1. Goes(<<16, 6, 0>>, e, d) <=> d \in 0..5 /\ d + 16 \in e
      BY DEF Goes, WordBits
    <2>2. Goes(<<28, 4, 6>>, e, d) <=> d \in 6..9 /\ d + 22 \in e
      BY DEF Goes, WordBits
    <2>3. Goes(<<22, 4, 10>>, e, d) <=> d \in 10..13 /\ d + 12 \in e
      BY DEF Goes, WordBits
    <2>4. Goes(<<12, 4, 14>>, e, d) <=> d \in 14..17 /\ d - 2 \in e
      BY DEF Goes, WordBits
    <2>5. d \in Gathered("18ABS", e) <=> Goes(<<16, 6, 0>>, e, d) \/ Goes(<<28, 4, 6>>, e, d) \/ Goes(<<22, 4, 10>>, e, d) \/ Goes(<<12, 4, 14>>, e, d)
      BY <1>1, <1>2, FilledType, GatheredBit
    <2> QED BY <2>1, <2>2, <2>3, <2>4, <2>5
  <1> QED BY <1>4, <1>5

\* Form 18ABS_14: which bits of the value its gathered field holds.
LEMMA Read_18ABS_14 ==
  ASSUME NEW op \in Word, NEW v \in Word, NEW d \in Int
  PROVE  d \in Gathered("18ABS_14", Filled("18ABS_14", op, v)) <=> d \in 0..17 /\ d + 14 \in v
  <1> DEFINE e == Filled("18ABS_14", op, v)
  <1>1. "18ABS_14" \in Forms
    BY DEF Forms, DataForms, InsnForms, RelForms, RefusedForms
  <1>2. /\ Moves("18ABS_14") = {<<14, 6, 16>>, <<20, 4, 28>>, <<24, 4, 22>>, <<28, 4, 12>>}
        /\ Format("18ABS_14") = {<<16, 6, 0>>, <<28, 4, 6>>, <<22, 4, 10>>, <<12, 4, 14>>}
    BY DEF Moves, Format, DataForms, RefusedForms
  <1>3. v \in SUBSET Int
    BY DEF Word, WordBits
  <1>4. ASSUME NEW b \in Int
        PROVE  b \in e <=>
                 \/ (b \in 16..21 /\ b - 2 \in v)
                 \/ (b \in 28..31 /\ b - 8 \in v)
                 \/ (b \in 22..25 /\ b + 2 \in v)
                 \/ (b \in 12..15 /\ b + 16 \in v)
                 \/ (b \in op /\ ~ (b \in 16..21 \/ b \in 28..31 \/ b \in 22..25 \/ b \in 12..15))
    <2>1. /\ Goes(<<14, 6, 16>>, v, b) <=> b \in 16..21 /\ b - 2 \in v
          /\ Covers(<<14, 6, 16>>, b) <=> b \in 16..21
      BY DEF Goes, Covers, WordBits
    <2>2. /\ Goes(<<20, 4, 28>>, v, b) <=> b \in 28..31 /\ b - 8 \in v
          /\ Covers(<<20, 4, 28>>, b) <=> b \in 28..31
      BY DEF Goes, Covers, WordBits
    <2>3. /\ Goes(<<24, 4, 22>>, v, b) <=> b \in 22..25 /\ b + 2 \in v
          /\ Covers(<<24, 4, 22>>, b) <=> b \in 22..25
      BY DEF Goes, Covers, WordBits
    <2>4. /\ Goes(<<28, 4, 12>>, v, b) <=> b \in 12..15 /\ b + 16 \in v
          /\ Covers(<<28, 4, 12>>, b) <=> b \in 12..15
      BY DEF Goes, Covers, WordBits
    <2>5. b \in Placed("18ABS_14", v) <=> Goes(<<14, 6, 16>>, v, b) \/ Goes(<<20, 4, 28>>, v, b) \/ Goes(<<24, 4, 22>>, v, b) \/ Goes(<<28, 4, 12>>, v, b)
      BY <1>1, <1>2, <1>3, PlacedBit
    <2>6. b \in Field("18ABS_14") <=> Covers(<<14, 6, 16>>, b) \/ Covers(<<20, 4, 28>>, b) \/ Covers(<<24, 4, 22>>, b) \/ Covers(<<28, 4, 12>>, b)
      BY <1>1, <1>2, FieldBit
    <2> QED BY <2>1, <2>2, <2>3, <2>4, <2>5, <2>6 DEF Filled
  <1>5. d \in Gathered("18ABS_14", e) <=>
          \/ (d \in 0..5 /\ d + 16 \in e)
          \/ (d \in 6..9 /\ d + 22 \in e)
          \/ (d \in 10..13 /\ d + 12 \in e)
          \/ (d \in 14..17 /\ d - 2 \in e)
    <2>1. Goes(<<16, 6, 0>>, e, d) <=> d \in 0..5 /\ d + 16 \in e
      BY DEF Goes, WordBits
    <2>2. Goes(<<28, 4, 6>>, e, d) <=> d \in 6..9 /\ d + 22 \in e
      BY DEF Goes, WordBits
    <2>3. Goes(<<22, 4, 10>>, e, d) <=> d \in 10..13 /\ d + 12 \in e
      BY DEF Goes, WordBits
    <2>4. Goes(<<12, 4, 14>>, e, d) <=> d \in 14..17 /\ d - 2 \in e
      BY DEF Goes, WordBits
    <2>5. d \in Gathered("18ABS_14", e) <=> Goes(<<16, 6, 0>>, e, d) \/ Goes(<<28, 4, 6>>, e, d) \/ Goes(<<22, 4, 10>>, e, d) \/ Goes(<<12, 4, 14>>, e, d)
      BY <1>1, <1>2, FilledType, GatheredBit
    <2> QED BY <2>1, <2>2, <2>3, <2>4, <2>5
  <1> QED BY <1>4, <1>5

\* Form LO2: which bits of the value its gathered field holds.
LEMMA Read_LO2 ==
  ASSUME NEW op \in Word, NEW v \in Word, NEW d \in Int
  PROVE  d \in Gathered("LO2", Filled("LO2", op, v)) <=> d \in 0..15 /\ d \in v
  <1> DEFINE e == Filled("LO2", op, v)
  <1>1. "LO2" \in Forms
    BY DEF Forms, DataForms, InsnForms, RelForms, RefusedForms
  <1>2. /\ Moves("LO2") = {<<0, 6, 16>>, <<6, 4, 28>>, <<10, 6, 22>>}
        /\ Format("LO2") = {<<16, 6, 0>>, <<28, 4, 6>>, <<22, 6, 10>>}
    BY DEF Moves, Format, DataForms, RefusedForms
  <1>3. v \in SUBSET Int
    BY DEF Word, WordBits
  <1>4. ASSUME NEW b \in Int
        PROVE  b \in e <=>
                 \/ (b \in 16..21 /\ b - 16 \in v)
                 \/ (b \in 28..31 /\ b - 22 \in v)
                 \/ (b \in 22..27 /\ b - 12 \in v)
                 \/ (b \in op /\ ~ (b \in 16..21 \/ b \in 28..31 \/ b \in 22..27))
    <2>1. /\ Goes(<<0, 6, 16>>, v, b) <=> b \in 16..21 /\ b - 16 \in v
          /\ Covers(<<0, 6, 16>>, b) <=> b \in 16..21
      BY DEF Goes, Covers, WordBits
    <2>2. /\ Goes(<<6, 4, 28>>, v, b) <=> b \in 28..31 /\ b - 22 \in v
          /\ Covers(<<6, 4, 28>>, b) <=> b \in 28..31
      BY DEF Goes, Covers, WordBits
    <2>3. /\ Goes(<<10, 6, 22>>, v, b) <=> b \in 22..27 /\ b - 12 \in v
          /\ Covers(<<10, 6, 22>>, b) <=> b \in 22..27
      BY DEF Goes, Covers, WordBits
    <2>4. b \in Placed("LO2", v) <=> Goes(<<0, 6, 16>>, v, b) \/ Goes(<<6, 4, 28>>, v, b) \/ Goes(<<10, 6, 22>>, v, b)
      BY <1>1, <1>2, <1>3, PlacedBit
    <2>5. b \in Field("LO2") <=> Covers(<<0, 6, 16>>, b) \/ Covers(<<6, 4, 28>>, b) \/ Covers(<<10, 6, 22>>, b)
      BY <1>1, <1>2, FieldBit
    <2> QED BY <2>1, <2>2, <2>3, <2>4, <2>5 DEF Filled
  <1>5. d \in Gathered("LO2", e) <=>
          \/ (d \in 0..5 /\ d + 16 \in e)
          \/ (d \in 6..9 /\ d + 22 \in e)
          \/ (d \in 10..15 /\ d + 12 \in e)
    <2>1. Goes(<<16, 6, 0>>, e, d) <=> d \in 0..5 /\ d + 16 \in e
      BY DEF Goes, WordBits
    <2>2. Goes(<<28, 4, 6>>, e, d) <=> d \in 6..9 /\ d + 22 \in e
      BY DEF Goes, WordBits
    <2>3. Goes(<<22, 6, 10>>, e, d) <=> d \in 10..15 /\ d + 12 \in e
      BY DEF Goes, WordBits
    <2>4. d \in Gathered("LO2", e) <=> Goes(<<16, 6, 0>>, e, d) \/ Goes(<<28, 4, 6>>, e, d) \/ Goes(<<22, 6, 10>>, e, d)
      BY <1>1, <1>2, FilledType, GatheredBit
    <2> QED BY <2>1, <2>2, <2>3, <2>4
  <1> QED BY <1>4, <1>5

\* Form 16OFF: which bits of the value its gathered field holds.
LEMMA Read_16OFF ==
  ASSUME NEW op \in Word, NEW v \in Word, NEW d \in Int
  PROVE  d \in Gathered("16OFF", Filled("16OFF", op, v)) <=> d \in 0..15 /\ d \in v
  <1> DEFINE e == Filled("16OFF", op, v)
  <1>1. "16OFF" \in Forms
    BY DEF Forms, DataForms, InsnForms, RelForms, RefusedForms
  <1>2. /\ Moves("16OFF") = {<<0, 6, 16>>, <<6, 4, 28>>, <<10, 6, 22>>}
        /\ Format("16OFF") = {<<16, 6, 0>>, <<28, 4, 6>>, <<22, 6, 10>>}
    BY DEF Moves, Format, DataForms, RefusedForms
  <1>3. v \in SUBSET Int
    BY DEF Word, WordBits
  <1>4. ASSUME NEW b \in Int
        PROVE  b \in e <=>
                 \/ (b \in 16..21 /\ b - 16 \in v)
                 \/ (b \in 28..31 /\ b - 22 \in v)
                 \/ (b \in 22..27 /\ b - 12 \in v)
                 \/ (b \in op /\ ~ (b \in 16..21 \/ b \in 28..31 \/ b \in 22..27))
    <2>1. /\ Goes(<<0, 6, 16>>, v, b) <=> b \in 16..21 /\ b - 16 \in v
          /\ Covers(<<0, 6, 16>>, b) <=> b \in 16..21
      BY DEF Goes, Covers, WordBits
    <2>2. /\ Goes(<<6, 4, 28>>, v, b) <=> b \in 28..31 /\ b - 22 \in v
          /\ Covers(<<6, 4, 28>>, b) <=> b \in 28..31
      BY DEF Goes, Covers, WordBits
    <2>3. /\ Goes(<<10, 6, 22>>, v, b) <=> b \in 22..27 /\ b - 12 \in v
          /\ Covers(<<10, 6, 22>>, b) <=> b \in 22..27
      BY DEF Goes, Covers, WordBits
    <2>4. b \in Placed("16OFF", v) <=> Goes(<<0, 6, 16>>, v, b) \/ Goes(<<6, 4, 28>>, v, b) \/ Goes(<<10, 6, 22>>, v, b)
      BY <1>1, <1>2, <1>3, PlacedBit
    <2>5. b \in Field("16OFF") <=> Covers(<<0, 6, 16>>, b) \/ Covers(<<6, 4, 28>>, b) \/ Covers(<<10, 6, 22>>, b)
      BY <1>1, <1>2, FieldBit
    <2> QED BY <2>1, <2>2, <2>3, <2>4, <2>5 DEF Filled
  <1>5. d \in Gathered("16OFF", e) <=>
          \/ (d \in 0..5 /\ d + 16 \in e)
          \/ (d \in 6..9 /\ d + 22 \in e)
          \/ (d \in 10..15 /\ d + 12 \in e)
    <2>1. Goes(<<16, 6, 0>>, e, d) <=> d \in 0..5 /\ d + 16 \in e
      BY DEF Goes, WordBits
    <2>2. Goes(<<28, 4, 6>>, e, d) <=> d \in 6..9 /\ d + 22 \in e
      BY DEF Goes, WordBits
    <2>3. Goes(<<22, 6, 10>>, e, d) <=> d \in 10..15 /\ d + 12 \in e
      BY DEF Goes, WordBits
    <2>4. d \in Gathered("16OFF", e) <=> Goes(<<16, 6, 0>>, e, d) \/ Goes(<<28, 4, 6>>, e, d) \/ Goes(<<22, 6, 10>>, e, d)
      BY <1>1, <1>2, FilledType, GatheredBit
    <2> QED BY <2>1, <2>2, <2>3, <2>4
  <1> QED BY <1>4, <1>5

\* Form 10OFF: which bits of the value its gathered field holds.
LEMMA Read_10OFF ==
  ASSUME NEW op \in Word, NEW v \in Word, NEW d \in Int
  PROVE  d \in Gathered("10OFF", Filled("10OFF", op, v)) <=> d \in 0..9 /\ d \in v
  <1> DEFINE e == Filled("10OFF", op, v)
  <1>1. "10OFF" \in Forms
    BY DEF Forms, DataForms, InsnForms, RelForms, RefusedForms
  <1>2. /\ Moves("10OFF") = {<<0, 6, 16>>, <<6, 4, 28>>}
        /\ Format("10OFF") = {<<16, 6, 0>>, <<28, 4, 6>>}
    BY DEF Moves, Format, DataForms, RefusedForms
  <1>3. v \in SUBSET Int
    BY DEF Word, WordBits
  <1>4. ASSUME NEW b \in Int
        PROVE  b \in e <=>
                 \/ (b \in 16..21 /\ b - 16 \in v)
                 \/ (b \in 28..31 /\ b - 22 \in v)
                 \/ (b \in op /\ ~ (b \in 16..21 \/ b \in 28..31))
    <2>1. /\ Goes(<<0, 6, 16>>, v, b) <=> b \in 16..21 /\ b - 16 \in v
          /\ Covers(<<0, 6, 16>>, b) <=> b \in 16..21
      BY DEF Goes, Covers, WordBits
    <2>2. /\ Goes(<<6, 4, 28>>, v, b) <=> b \in 28..31 /\ b - 22 \in v
          /\ Covers(<<6, 4, 28>>, b) <=> b \in 28..31
      BY DEF Goes, Covers, WordBits
    <2>3. b \in Placed("10OFF", v) <=> Goes(<<0, 6, 16>>, v, b) \/ Goes(<<6, 4, 28>>, v, b)
      BY <1>1, <1>2, <1>3, PlacedBit
    <2>4. b \in Field("10OFF") <=> Covers(<<0, 6, 16>>, b) \/ Covers(<<6, 4, 28>>, b)
      BY <1>1, <1>2, FieldBit
    <2> QED BY <2>1, <2>2, <2>3, <2>4 DEF Filled
  <1>5. d \in Gathered("10OFF", e) <=>
          \/ (d \in 0..5 /\ d + 16 \in e)
          \/ (d \in 6..9 /\ d + 22 \in e)
    <2>1. Goes(<<16, 6, 0>>, e, d) <=> d \in 0..5 /\ d + 16 \in e
      BY DEF Goes, WordBits
    <2>2. Goes(<<28, 4, 6>>, e, d) <=> d \in 6..9 /\ d + 22 \in e
      BY DEF Goes, WordBits
    <2>3. d \in Gathered("10OFF", e) <=> Goes(<<16, 6, 0>>, e, d) \/ Goes(<<28, 4, 6>>, e, d)
      BY <1>1, <1>2, FilledType, GatheredBit
    <2> QED BY <2>1, <2>2, <2>3
  <1> QED BY <1>4, <1>5

\* Form 5REL: which bits of the value its gathered field holds.
LEMMA Read_5REL ==
  ASSUME NEW op \in Word, NEW v \in Word, NEW d \in Int
  PROVE  d \in Gathered("5REL", Filled("5REL", op, v)) <=> d \in 0..4 /\ d + 1 \in v
  <1> DEFINE e == Filled("5REL", op, v)
  <1>1. "5REL" \in Forms
    BY DEF Forms, DataForms, InsnForms, RelForms, RefusedForms
  <1>2. /\ Moves("5REL") = {<<1, 4, 8>>, <<5, 1, 7>>}
        /\ Format("5REL") = {<<8, 4, 0>>, <<7, 1, 4>>}
    BY DEF Moves, Format, DataForms, RefusedForms
  <1>3. v \in SUBSET Int
    BY DEF Word, WordBits
  <1>4. ASSUME NEW b \in Int
        PROVE  b \in e <=>
                 \/ (b \in 8..11 /\ b - 7 \in v)
                 \/ (b \in 7..7 /\ b - 2 \in v)
                 \/ (b \in op /\ ~ (b \in 8..11 \/ b \in 7..7))
    <2>1. /\ Goes(<<1, 4, 8>>, v, b) <=> b \in 8..11 /\ b - 7 \in v
          /\ Covers(<<1, 4, 8>>, b) <=> b \in 8..11
      BY DEF Goes, Covers, WordBits
    <2>2. /\ Goes(<<5, 1, 7>>, v, b) <=> b \in 7..7 /\ b - 2 \in v
          /\ Covers(<<5, 1, 7>>, b) <=> b \in 7..7
      BY DEF Goes, Covers, WordBits
    <2>3. b \in Placed("5REL", v) <=> Goes(<<1, 4, 8>>, v, b) \/ Goes(<<5, 1, 7>>, v, b)
      BY <1>1, <1>2, <1>3, PlacedBit
    <2>4. b \in Field("5REL") <=> Covers(<<1, 4, 8>>, b) \/ Covers(<<5, 1, 7>>, b)
      BY <1>1, <1>2, FieldBit
    <2> QED BY <2>1, <2>2, <2>3, <2>4 DEF Filled
  <1>5. d \in Gathered("5REL", e) <=>
          \/ (d \in 0..3 /\ d + 8 \in e)
          \/ (d \in 4..4 /\ d + 3 \in e)
    <2>1. Goes(<<8, 4, 0>>, e, d) <=> d \in 0..3 /\ d + 8 \in e
      BY DEF Goes, WordBits
    <2>2. Goes(<<7, 1, 4>>, e, d) <=> d \in 4..4 /\ d + 3 \in e
      BY DEF Goes, WordBits
    <2>3. d \in Gathered("5REL", e) <=> Goes(<<8, 4, 0>>, e, d) \/ Goes(<<7, 1, 4>>, e, d)
      BY <1>1, <1>2, FilledType, GatheredBit
    <2> QED BY <2>1, <2>2, <2>3
  <1> QED BY <1>4, <1>5

-------------------------------------------------------------------------------
(* The other forms move one piece: Width(form) bits from bit First(form) of the *)
(* value to bit Place(form) of the word.                                       *)
Singles == {"32ABS", "32REL", "16ABS", "8ABS", "HI", "HIADJ", "LO", "16CONST", "15REL",
            "8REL", "4REL", "4REL2", "9SCONST", "9ZCONST", "8CONST"}
First(form) == CASE form \in {"HI", "HIADJ"}                     -> 16
                 [] form \in {"15REL", "8REL", "4REL", "4REL2"} -> 1
                 [] OTHER                                       -> 0
Place(form) == CASE form \in {"32ABS", "32REL", "16ABS", "8ABS"}      -> 0
                 [] form = "15REL"                                   -> 16
                 [] form \in {"8REL", "4REL", "4REL2", "8CONST"}      -> 8
                 [] OTHER                                            -> 12

\* Moves and Format of those forms.
LEMMA SinglePieces ==
  ASSUME NEW form \in Singles
  PROVE  /\ form \in Forms
         /\ Moves(form) = {<<First(form), Width(form), Place(form)>>}
         /\ Format(form) = {<<Place(form), Width(form), 0>>}
         /\ First(form) \in Nat /\ Width(form) \in Nat /\ Place(form) \in Nat
         /\ Place(form) + Width(form) <= 64
  <1>1. form \in Forms
    BY DEF Singles, Forms, DataForms, InsnForms, RelForms
  <1>2. CASE form \in {"32ABS", "32REL"}
    BY <1>1, <1>2 DEF Moves, Format, Width, First, Place, RefusedForms
  <1>3. CASE form = "16ABS"
    BY <1>1, <1>3 DEF Moves, Format, Width, First, Place, RefusedForms
  <1>4. CASE form = "8ABS"
    BY <1>1, <1>4 DEF Moves, Format, Width, First, Place, RefusedForms
  <1>5. CASE form \in {"HI", "HIADJ"}
    BY <1>1, <1>5 DEF Moves, Format, Width, First, Place, RefusedForms
  <1>6. CASE form \in {"LO", "16CONST"}
    BY <1>1, <1>6 DEF Moves, Format, Width, First, Place, RefusedForms
  <1>7. CASE form = "15REL"
    BY <1>1, <1>7 DEF Moves, Format, Width, First, Place, RefusedForms
  <1>8. CASE form = "8REL"
    BY <1>1, <1>8 DEF Moves, Format, Width, First, Place, RefusedForms
  <1>9. CASE form \in {"4REL", "4REL2"}
    BY <1>1, <1>9 DEF Moves, Format, Width, First, Place, RefusedForms
  <1>10. CASE form \in {"9SCONST", "9ZCONST"}
    BY <1>1, <1>10 DEF Moves, Format, Width, First, Place, RefusedForms
  <1>11. CASE form = "8CONST"
    BY <1>1, <1>11 DEF Moves, Format, Width, First, Place, RefusedForms
  <1> QED BY <1>2, <1>3, <1>4, <1>5, <1>6, <1>7, <1>8, <1>9, <1>10, <1>11 DEF Singles

\* They read back the bits they were given.
LEMMA Read_single ==
  ASSUME NEW form \in Singles, NEW op \in Word, NEW v \in Word, NEW d \in Int
  PROVE  d \in Gathered(form, Filled(form, op, v)) <=>
            0 <= d /\ d < Width(form) /\ d + First(form) \in v
  <1> DEFINE e == Filled(form, op, v)
             a == First(form)
             n == Width(form)
             w == Place(form)
  <1>1. /\ form \in Forms /\ Moves(form) = {<<a, n, w>>} /\ Format(form) = {<<w, n, 0>>}
        /\ a \in Nat /\ n \in Nat /\ w \in Nat /\ w + n <= 64
    BY SinglePieces
  <1>2. v \in SUBSET Int /\ e \in SUBSET Int
    BY <1>1, FilledType DEF Word, WordBits
  <1> HIDE DEF a, n, w, e
  <1>3. d \in Gathered(form, e) <=> Goes(<<w, n, 0>>, e, d)
    BY <1>1, <1>2, GatheredBit
  <1>4. Goes(<<w, n, 0>>, e, d) <=> 0 <= d /\ d < n /\ d + w \in e
    BY <1>1 DEF Goes, WordBits
  <1>5. ASSUME 0 <= d, d < n PROVE d + w \in e <=> d + a \in v
    <2>1. d + w \in Field(form) <=> Covers(<<a, n, w>>, d + w)
      BY <1>1, FieldBit
    <2>2. Covers(<<a, n, w>>, d + w)
      BY <1>1, <1>5 DEF Covers
    <2>3. d + w \in Placed(form, v) <=> Goes(<<a, n, w>>, v, d + w)
      BY <1>1, <1>2, PlacedBit
    <2>4. Goes(<<a, n, w>>, v, d + w) <=> d + a \in v
      BY <1>1, <1>5 DEF Goes, WordBits
    <2> QED BY <2>1, <2>2, <2>3, <2>4 DEF Filled, e
  <1> QED BY <1>3, <1>4, <1>5 DEF a, n, e

-------------------------------------------------------------------------------
(* Ranges and extensions, bit by bit.                                          *)
LEMMA SignedBits ==
  ASSUME NEW v \in Word, NEW k \in 0..63
  PROVE  FitsSigned(v, k) <=> \/ \A b \in k..63 : b \notin v
                             \/ \A b \in k..63 : b \in v
  <1> DEFINE high == v \ (0..(k - 1))
  <1>1. high = {} <=> \A b \in k..63 : b \notin v
    BY DEF Word, WordBits
  <1>2. high = k..63 <=> \A b \in k..63 : b \in v
    <2>1. high \subseteq k..63
      BY DEF Word, WordBits
    <2>2. \A b \in k..63 : b \in high <=> b \in v
      OBVIOUS
    <2> HIDE DEF high
    <2> QED BY <2>1, <2>2
  <1> QED BY <1>1, <1>2 DEF FitsSigned

\* A value fits an unsigned field when its upper bits are all zero.
LEMMA UnsignedBits ==
  ASSUME NEW v \in Word, NEW k \in 0..63
  PROVE  FitsUnsigned(v, k) <=> \A b \in k..63 : b \notin v
  BY DEF FitsUnsigned, Word, WordBits

\* Two words are equal when they have the same bits.
LEMMA SameWord ==
  ASSUME NEW x \in SUBSET WordBits, NEW y \in SUBSET WordBits
  PROVE  x = y <=> \A b \in WordBits : b \in x <=> b \in y
  OBVIOUS

(* The displacements: n bits from bit 1 on, sign-extended.                     *)
LEMMA SignedDisplacement ==
  ASSUME NEW v \in Word, NEW n \in 1..62, NEW g,
         \A d \in Int : d \in g <=> 0 <= d /\ d < n /\ d + 1 \in v, g \in SUBSET Int
  PROVE  Shift(SignExtend(g, n), 1) = v <=> 0 \notin v /\ FitsSigned(v, n)
  <1> DEFINE x == SignExtend(g, n)
  <1>1. \A c \in Int : c \in x <=> (0 <= c /\ c < n /\ c + 1 \in v)
                               \/ (n \in v /\ n <= c /\ c <= 63)
    BY DEF SignExtend
  <1>2. x \in SUBSET Int
    BY DEF SignExtend
  <1>3. Shift(x, 1) \in SUBSET WordBits
    BY DEF Shift
  <1>4. \A b \in WordBits : b \in Shift(x, 1) <=> b - 1 \in x
    BY <1>2, ShiftBit DEF WordBits
  <1>5. \A b \in WordBits : b \in Shift(x, 1) <=> (1 <= b /\ b <= n /\ b \in v)
                                                \/ (n \in v /\ n < b)
    BY <1>1, <1>4 DEF WordBits
  <1> HIDE DEF x
  <1>6. Shift(x, 1) = v <=> \A b \in WordBits : b \in Shift(x, 1) <=> b \in v
    BY <1>3, SameWord DEF Word
  <1>7. Shift(x, 1) = v <=> 0 \notin v /\ \A b \in n..63 : b \in v <=> n \in v
    BY <1>5, <1>6 DEF WordBits
  <1>8. FitsSigned(v, n) <=> \A b \in n..63 : b \in v <=> n \in v
    BY SignedBits
  <1> QED BY <1>7, <1>8 DEF x

(* The constants: n bits from bit 0 on, sign-extended.                         *)
LEMMA SignedConstant ==
  ASSUME NEW v \in Word, NEW n \in 2..62, NEW g \in SUBSET Int,
         \A d \in Int : d \in g <=> 0 <= d /\ d < n /\ d \in v
  PROVE  SignExtend(g, n) = v <=> FitsSigned(v, n - 1)
  <1>1. SignExtend(g, n) \in SUBSET WordBits
    BY DEF SignExtend, WordBits
  <1>2. \A b \in WordBits : b \in SignExtend(g, n) <=> (b < n /\ b \in v)
                                                \/ (n - 1 \in v /\ n <= b)
    BY DEF SignExtend, WordBits
  <1>3. SignExtend(g, n) = v <=> \A b \in WordBits : b \in SignExtend(g, n) <=> b \in v
    BY <1>1, SameWord DEF Word
  <1>4. SignExtend(g, n) = v <=> \A b \in (n - 1)..63 : b \in v <=> n - 1 \in v
    BY <1>2, <1>3 DEF WordBits
  <1>5. FitsSigned(v, n - 1) <=> \A b \in (n - 1)..63 : b \in v <=> n - 1 \in v
    BY SignedBits
  <1> QED BY <1>4, <1>5

(* The branch distances without a sign.                                        *)
LEMMA UnsignedDisplacement ==
  ASSUME NEW v \in Word, NEW n \in 1..62, NEW g \in SUBSET Int,
         \A d \in Int : d \in g <=> 0 <= d /\ d < n /\ d + 1 \in v
  PROVE  Shift(g, 1) = v <=> 0 \notin v /\ FitsUnsigned(v, n + 1)
  <1>1. Shift(g, 1) \in SUBSET WordBits
    BY DEF Shift
  <1>2. \A b \in WordBits : b \in Shift(g, 1) <=> 1 <= b /\ b <= n /\ b \in v
    BY ShiftBit DEF WordBits
  <1>3. Shift(g, 1) = v <=> \A b \in WordBits : b \in Shift(g, 1) <=> b \in v
    BY <1>1, SameWord DEF Word
  <1>4. FitsUnsigned(v, n + 1) <=> \A b \in (n + 1)..63 : b \notin v
    BY UnsignedBits
  <1> QED BY <1>2, <1>3, <1>4 DEF WordBits

-------------------------------------------------------------------------------
(* The forms, group by group: what Holds says of the field just written is      *)
(* what Legal asked of the value.                                              *)
ReadBack(form, op, v) == Gathered(form, Filled(form, op, v))

\* The number read back is a word.
LEMMA WrittenType ==
  ASSUME NEW form \in Forms, NEW op, NEW v
  PROVE  ReadBack(form, op, v) \in SUBSET WordBits
  BY DEF ReadBack, Gathered, Shift

\* The signed branch distances: accepted exactly when they read back.
LEMMA Displacements ==
  ASSUME NEW form \in {"24REL", "15REL", "8REL"}, NEW op \in Word, NEW v \in Word
  PROVE  Shift(SignExtend(ReadBack(form, op, v), Width(form)), 1) = v <=> Legal(form, v)
  <1> DEFINE g == ReadBack(form, op, v)
  <1>1. form \in Forms
    BY DEF Forms, InsnForms, RelForms, DataForms
  <1>2. g \in SUBSET Int
    BY <1>1, WrittenType DEF WordBits
  <1>3. /\ Width(form) \in 1..62
        /\ Legal(form, v) <=> 0 \notin v /\ FitsSigned(v, Width(form))
    BY DEF Width, Legal
  <1>4. \A d \in Int : d \in g <=> 0 <= d /\ d < Width(form) /\ d + 1 \in v
    <2>1. CASE form = "24REL"
      <3>1. Width(form) = 24
        BY <2>1 DEF Width
      <3> QED BY <2>1, <3>1, Read_24REL DEF ReadBack
    <2>2. CASE form \in {"15REL", "8REL"}
      <3>1. form \in Singles /\ First(form) = 1
        BY <2>2 DEF Singles, First
      <3> QED BY <3>1, Read_single DEF ReadBack
    <2> QED BY <2>1, <2>2
  <1> QED BY <1>2, <1>3, <1>4, SignedDisplacement

\* The signed constants and offsets: accepted exactly when they read back.
LEMMA Constants ==
  ASSUME NEW form \in {"16CONST", "16OFF", "10OFF", "9SCONST"},
         NEW op \in Word, NEW v \in Word
  PROVE  SignExtend(ReadBack(form, op, v), Width(form)) = v <=> Legal(form, v)
  <1> DEFINE g == ReadBack(form, op, v)
  <1>1. form \in Forms
    BY DEF Forms, InsnForms, RelForms, DataForms
  <1>2. g \in SUBSET Int
    BY <1>1, WrittenType DEF WordBits
  <1>3. /\ Width(form) \in 2..62
        /\ Legal(form, v) <=> FitsSigned(v, Width(form) - 1)
    BY DEF Width, Legal
  <1>4. \A d \in Int : d \in g <=> 0 <= d /\ d < Width(form) /\ d \in v
    <2>1. CASE form = "16OFF"
      <3>1. Width(form) = 16
        BY <2>1 DEF Width
      <3> QED BY <2>1, <3>1, Read_16OFF DEF ReadBack
    <2>2. CASE form = "10OFF"
      <3>1. Width(form) = 10
        BY <2>2 DEF Width
      <3> QED BY <2>2, <3>1, Read_10OFF DEF ReadBack
    <2>3. CASE form \in {"16CONST", "9SCONST"}
      <3>1. form \in Singles /\ First(form) = 0
        BY <2>3 DEF Singles, First
      <3> QED BY <3>1, Read_single DEF ReadBack
    <2> QED BY <2>1, <2>2, <2>3
  <1> QED BY <1>2, <1>3, <1>4, SignedConstant

\* The unsigned branch distances: accepted exactly when they read back.
LEMMA ShortBranches ==
  ASSUME NEW form \in {"4REL", "5REL"}, NEW op \in Word, NEW v \in Word
  PROVE  Shift(ReadBack(form, op, v), 1) = v <=> Legal(form, v)
  <1> DEFINE g == ReadBack(form, op, v)
  <1>1. form \in Forms
    BY DEF Forms, InsnForms, RelForms, DataForms
  <1>2. g \in SUBSET Int
    BY <1>1, WrittenType DEF WordBits
  <1>3. /\ Width(form) \in 1..62
        /\ Legal(form, v) <=> 0 \notin v /\ FitsUnsigned(v, Width(form) + 1)
    BY DEF Width, Legal
  <1>4. \A d \in Int : d \in g <=> 0 <= d /\ d < Width(form) /\ d + 1 \in v
    <2>1. CASE form = "5REL"
      <3>1. Width(form) = 5
        BY <2>1 DEF Width
      <3> QED BY <2>1, <3>1, Read_5REL DEF ReadBack
    <2>2. CASE form = "4REL"
      <3>1. form \in Singles /\ First(form) = 1
        BY <2>2 DEF Singles, First
      <3> QED BY <3>1, Read_single DEF ReadBack
    <2> QED BY <2>1, <2>2
  <1> QED BY <1>2, <1>3, <1>4, UnsignedDisplacement

\* The loop instruction only branches back: its upper bits are ones.
LEMMA LoopBranch ==
  ASSUME NEW op \in Word, NEW v \in Word
  PROVE  Shift(ReadBack("4REL2", op, v), 1) \cup (5..63) = v <=> Legal("4REL2", v)
  <1> DEFINE g == ReadBack("4REL2", op, v)
             x == Shift(g, 1) \cup (5..63)
  <1>1. "4REL2" \in Forms /\ "4REL2" \in Singles /\ First("4REL2") = 1 /\ Width("4REL2") = 4
    BY DEF Forms, InsnForms, RelForms, DataForms, Singles, First, Width
  <1>2. g \in SUBSET Int
    BY <1>1, WrittenType DEF WordBits
  <1>3. \A d \in Int : d \in g <=> 0 <= d /\ d < 4 /\ d + 1 \in v
    BY <1>1, Read_single DEF ReadBack
  <1>4. x \in SUBSET WordBits
    BY DEF Shift, WordBits
  <1>5. \A b \in WordBits : b \in x <=> (1 <= b /\ b <= 4 /\ b \in v) \/ 5 <= b
    BY <1>2, <1>3, ShiftBit DEF WordBits
  <1>6. x = v <=> \A b \in WordBits : b \in x <=> b \in v
    BY <1>4, SameWord DEF Word
  <1>7. Legal("4REL2", v) <=> 0 \notin v /\ FitsSigned(v, 5) /\ 63 \in v
    BY DEF Legal
  <1>8. FitsSigned(v, 5) <=> \A b \in 5..63 : b \in v <=> 63 \in v
    BY SignedBits
  <1> QED BY <1>5, <1>6, <1>7, <1>8 DEF WordBits

\* The unsigned constants: accepted exactly when they read back.
LEMMA UnsignedConstants ==
  ASSUME NEW form \in {"9ZCONST", "8CONST"}, NEW op \in Word, NEW v \in Word
  PROVE  ReadBack(form, op, v) = v <=> Legal(form, v)
  <1> DEFINE g == ReadBack(form, op, v)
  <1>1. form \in Forms /\ form \in Singles /\ First(form) = 0
    BY DEF Forms, InsnForms, RelForms, DataForms, Singles, First
  <1>2. /\ Width(form) \in 0..63
        /\ Legal(form, v) <=> FitsUnsigned(v, Width(form))
    BY DEF Width, Legal
  <1>3. \A d \in Int : d \in g <=> 0 <= d /\ d < Width(form) /\ d \in v
    BY <1>1, Read_single DEF ReadBack
  <1>4. g = v <=> \A b \in WordBits : b \in g <=> b \in v
    BY <1>1, WrittenType, SameWord DEF Word
  <1>5. Legal(form, v) <=> \A b \in Width(form)..63 : b \notin v
    BY <1>2, UnsignedBits
  <1> QED BY <1>2, <1>3, <1>4, <1>5 DEF WordBits

\* Data and low halves keep the bits that fit; nothing is refused.
LEMMA Truncated ==
  ASSUME NEW form \in {"32ABS", "32REL", "16ABS", "8ABS", "LO", "LO2"},
         NEW op \in Word, NEW v \in Word
  PROVE  ReadBack(form, op, v) = Low(v, Width(form))
  <1> DEFINE g == ReadBack(form, op, v)
  <1>1. form \in Forms
    BY DEF Forms, InsnForms, RelForms, DataForms
  <1>2. Width(form) \in 0..64
    BY DEF Width
  <1>3. \A d \in Int : d \in g <=> 0 <= d /\ d < Width(form) /\ d \in v
    <2>1. CASE form = "LO2"
      <3>1. Width(form) = 16
        BY <2>1 DEF Width
      <3> QED BY <2>1, <3>1, Read_LO2 DEF ReadBack
    <2>2. CASE form \in Singles
      <3>1. First(form) = 0
        BY DEF First
      <3> QED BY <2>2, <3>1, Read_single DEF ReadBack
    <2> QED BY <2>1, <2>2 DEF Singles
  <1>4. g \in SUBSET WordBits
    BY <1>1, WrittenType
  <1> QED BY <1>2, <1>3, <1>4 DEF Low, Word, WordBits


\* Absolute addresses: the bits the field has no room for must be zero.
LEMMA Address24 ==
  ASSUME NEW op \in Word, NEW v \in Word
  PROVE  Shift(Low(ReadBack("24ABS", op, v), 20), 1)
            \cup Shift(ReadBack("24ABS", op, v) \ (0..19), 8) = Low(v, 32) <=> Legal("24ABS", v)
  <1> DEFINE g == ReadBack("24ABS", op, v)
             x == Shift(Low(g, 20), 1) \cup Shift(g \ (0..19), 8)
  <1>1. "24ABS" \in Forms
    BY DEF Forms, InsnForms, RelForms, DataForms
  <1>2. /\ g \in SUBSET Int
        /\ Low(g, 20) \in SUBSET Int /\ g \ (0..19) \in SUBSET Int
    BY <1>1, WrittenType DEF WordBits, Low
  <1>3. \A d \in Int : d \in g <=> (d \in 0..19 /\ d + 1 \in v) \/ (d \in 20..23 /\ d + 8 \in v)
    BY Read_24ABS DEF ReadBack
  <1>4. x \in SUBSET WordBits /\ Low(v, 32) \in SUBSET WordBits
    BY DEF Shift, Low, Word, WordBits
  <1>5. \A b \in WordBits : b \in x <=> (b \in 1..20 \/ b \in 28..31) /\ b \in v
    <2>1. \A b \in WordBits : b \in Shift(Low(g, 20), 1) <=> b - 1 \in Low(g, 20)
      BY <1>2, ShiftBit DEF WordBits
    <2>2. \A b \in WordBits : b \in Shift(g \ (0..19), 8) <=> b - 8 \in g \ (0..19)
      BY <1>2, ShiftBit DEF WordBits
    <2> HIDE DEF g
    <2> QED BY <1>3, <2>1, <2>2 DEF Low, WordBits
  <1>6. x = Low(v, 32) <=> \A b \in WordBits : b \in x <=> b \in Low(v, 32)
    BY <1>4, SameWord
  <1>7. Legal("24ABS", v) <=> v \cap ({0} \cup 21..27) = {}
    BY DEF Legal
  <1> HIDE DEF x
  <1>8. x = Low(v, 32) <=> \A b \in {0} \cup 21..27 : b \notin v
    BY <1>5, <1>6 DEF Low, WordBits
  <1> QED BY <1>7, <1>8 DEF x

\* 18-bit absolute addresses: a segment and its first 16 KB.
LEMMA Address18 ==
  ASSUME NEW op \in Word, NEW v \in Word
  PROVE  Low(ReadBack("18ABS", op, v), 14) \cup Shift(ReadBack("18ABS", op, v) \ (0..13), 14)
            = Low(v, 32) <=> Legal("18ABS", v)
  <1> DEFINE g == ReadBack("18ABS", op, v)
             x == Low(g, 14) \cup Shift(g \ (0..13), 14)
  <1>1. "18ABS" \in Forms
    BY DEF Forms, InsnForms, RelForms, DataForms
  <1>2. g \in SUBSET WordBits /\ g \ (0..13) \in SUBSET Int
    BY <1>1, WrittenType DEF WordBits
  <1>3. \A d \in Int : d \in g <=> (d \in 0..13 /\ d \in v) \/ (d \in 14..17 /\ d + 14 \in v)
    BY Read_18ABS DEF ReadBack
  <1>4. x \in SUBSET WordBits /\ Low(v, 32) \in SUBSET WordBits
    BY <1>2 DEF Shift, Low, Word
  <1>5. \A b \in WordBits : b \in x <=> (b \in 0..13 \/ b \in 28..31) /\ b \in v
    <2>1. \A b \in WordBits : b \in Shift(g \ (0..13), 14) <=> b - 14 \in g \ (0..13)
      BY <1>2, ShiftBit DEF WordBits
    <2> HIDE DEF g
    <2> QED BY <1>3, <2>1 DEF Low, WordBits
  <1>6. x = Low(v, 32) <=> \A b \in WordBits : b \in x <=> b \in Low(v, 32)
    BY <1>4, SameWord
  <1>7. Legal("18ABS", v) <=> v \cap (14..27) = {}
    BY DEF Legal
  <1> HIDE DEF x
  <1>8. x = Low(v, 32) <=> \A b \in 14..27 : b \notin v
    BY <1>5, <1>6 DEF Low, WordBits
  <1> QED BY <1>7, <1>8 DEF x

\* Addresses in steps of 16 KB: the low bits must be zero.
LEMMA Address18High ==
  ASSUME NEW op \in Word, NEW v \in Word
  PROVE  Shift(ReadBack("18ABS_14", op, v), 14) = Low(v, 32) <=> Legal("18ABS_14", v)
  <1> DEFINE g == ReadBack("18ABS_14", op, v)
             x == Shift(g, 14)
  <1>1. "18ABS_14" \in Forms
    BY DEF Forms, InsnForms, RelForms, DataForms
  <1>2. g \in SUBSET Int
    BY <1>1, WrittenType DEF WordBits
  <1>3. \A d \in Int : d \in g <=> d \in 0..17 /\ d + 14 \in v
    BY Read_18ABS_14 DEF ReadBack
  <1>4. x \in SUBSET WordBits /\ Low(v, 32) \in SUBSET WordBits
    BY DEF Shift, Low, Word
  <1>5. \A b \in WordBits : b \in x <=> b \in 14..31 /\ b \in v
    BY <1>2, <1>3, ShiftBit DEF WordBits
  <1>6. x = Low(v, 32) <=> \A b \in WordBits : b \in x <=> b \in Low(v, 32)
    BY <1>4, SameWord
  <1>7. Legal("18ABS_14", v) <=> v \cap (0..13) = {}
    BY DEF Legal
  <1> HIDE DEF x
  <1>8. x = Low(v, 32) <=> \A b \in 0..13 : b \notin v
    BY <1>5, <1>6 DEF Low, WordBits
  <1> QED BY <1>7, <1>8 DEF x

\* The high half of an address is read back as it was.
LEMMA HighHalf ==
  ASSUME NEW form \in {"HI", "HIADJ"}, NEW op \in Word, NEW v \in Word
  PROVE  Shift(ReadBack(form, op, v), 16) = Low(v, 32) \ (0..15)
  <1> DEFINE g == ReadBack(form, op, v)
             x == Shift(g, 16)
  <1>1. form \in Forms /\ form \in Singles /\ First(form) = 16 /\ Width(form) = 16
    BY DEF Forms, InsnForms, RelForms, DataForms, Singles, First, Width
  <1>2. g \in SUBSET Int
    BY <1>1, WrittenType DEF WordBits
  <1>3. \A d \in Int : d \in g <=> 0 <= d /\ d < 16 /\ d + 16 \in v
    BY <1>1, Read_single DEF ReadBack
  <1>4. x \in SUBSET WordBits /\ Low(v, 32) \ (0..15) \in SUBSET WordBits
    BY DEF Shift, Low, Word
  <1>5. \A b \in WordBits : b \in x <=> b \in 16..31 /\ b \in v
    BY <1>2, <1>3, ShiftBit DEF WordBits
  <1> HIDE DEF x
  <1>6. \A b \in WordBits : b \in x <=> b \in Low(v, 32) \ (0..15)
    BY <1>5 DEF Low, WordBits
  <1>7. x = Low(v, 32) \ (0..15)
    BY <1>4, <1>6, SameWord
  <1> QED BY <1>7 DEF x

-------------------------------------------------------------------------------
(* The adjusted high half.  v + 0x8000 carries past bit 15 when bit 15 is set,  *)
(* and the sign extension of the low half takes the carry back.                 *)
LEMMA PlusType ==
  ASSUME NEW a \in Word, NEW b \in Word
  PROVE  Plus(a, b) \in Word
  BY DEF Plus, Xor, Carries, Word

\* A bit of a sum is the parity of the two bits and the carry.
LEMMA SumBit ==
  ASSUME NEW a \in Word, NEW b \in Word, NEW k \in WordBits
  PROVE  k \in Plus(a, b) <=> (k \in a <=> (k \in b <=> k \in Carries(a, b)))
  BY DEF Plus, Xor

\* Numbers without a common bit add up without a carry.
LEMMA NoCarry ==
  ASSUME NEW a \in Word, NEW b \in Word, a \cap b = {}
  PROVE  Plus(a, b) = a \cup b
  <1>1. Carries(a, b) = {}
    BY DEF Carries
  <1> QED BY <1>1 DEF Plus, Xor

\* The carry of an addition of bit 15 goes through the ones above it.
Passes(v, k) == k \in 16..63 /\ \A i \in 16..(k - 1) : i \in v

\* Adding bit 15 to a number that has it carries up to its lowest zero above.
LEMMA CarryUp ==
  ASSUME NEW v \in Word, 15 \in v, NEW k \in WordBits
  PROVE  k \in Carries(v, {15}) <=> Passes(v, k)
  <1>1. k \in Carries(v, {15}) <=> 15 < k /\ \A i \in (15 + 1)..(k - 1) : i \in v \cup {15}
    BY DEF Carries
  <1>2. \A i \in (15 + 1)..(k - 1) : i \in v \cup {15} <=> i \in v
    OBVIOUS
  <1> QED BY <1>1, <1>2 DEF Passes, WordBits

\* Up to k every bit is one exactly when the bits that flip below k are none.
LEMMA FlippedBits ==
  ASSUME NEW v \in Word, NEW k \in 16..31
  PROVE  Passes(v, k) <=> \A j \in 16..(k - 1) : j \in v <=> Passes(v, j)
  <1>1. ASSUME Passes(v, k) PROVE \A j \in 16..(k - 1) : j \in v <=> Passes(v, j)
    BY <1>1 DEF Passes
  <1>2. ASSUME \A j \in 16..(k - 1) : j \in v <=> Passes(v, j), ~ Passes(v, k) PROVE FALSE
    <2> DEFINE zeros == {j \in 16..(k - 1) : j \notin v}
    <2>1. zeros \subseteq Nat /\ zeros # {}
      BY <1>2 DEF Passes
    <2> DEFINE below == {p \in Nat \X Nat : p[1] < p[2]}
    <2>2. IsWellFoundedOn(below, Nat)
      BY NatLessThanWellFounded DEF OpToRel
    <2> HIDE DEF below
    <2>3. PICK z \in zeros : \A y \in zeros : ~ (<<y, z>> \in below)
      BY <2>1, <2>2, WFMin
    <2>4. \A y \in zeros : ~ (y < z)
      BY <2>1, <2>3 DEF below
    <2>5. \A i \in 16..(z - 1) : i \in v
      BY <2>4
    <2>6. Passes(v, z)
      BY <2>5 DEF Passes
    <2> QED BY <1>2, <2>6
  <1> QED BY <1>1, <1>2


\* The adjusted high half and the sign-extended low half add up to the address.
LEMMA AdjustedHalf ==
  ASSUME NEW op \in Word, NEW v \in Word
  PROVE  LET d == Shift(ReadBack("HIADJ", op, Plus(v, {15})), 16)
         IN  Low(Plus(d, SignExtend(Low(v, 16), 16)), 32) = Low(v, 32)
  <1> DEFINE s == Plus(v, {15})
             d == Shift(ReadBack("HIADJ", op, s), 16)
             low == SignExtend(Low(v, 16), 16)
  <1>1. s \in Word /\ {15} \in Word /\ low \in Word
    <2>1. {15} \in Word
      BY DEF Word, WordBits
    <2>2. low \in Word
      BY DEF Word, WordBits, SignExtend, Low
    <2> QED BY <2>1, <2>2, PlusType
  <1>2. d = Low(s, 32) \ (0..15)
    BY <1>1, HighHalf
  <1>3. d \in Word
    BY <1>1, <1>2 DEF Low, Word
  <1>4. CASE 15 \notin v
    <2>1. s = v \cup {15}
      BY <1>1, <1>4, NoCarry
    <2>2. low = Low(v, 16)
      BY <1>4 DEF SignExtend, Low
    <2>3. Plus(d, low) = d \cup low
      <3>1. d \cap low = {}
        BY <1>2, <2>2 DEF Low
      <3> HIDE DEF d, low
      <3> QED BY <1>1, <1>3, <3>1, NoCarry
    <2>4. \A b \in WordBits : b \in Low(d \cup low, 32) <=> b \in Low(v, 32)
      BY <1>2, <2>1, <2>2 DEF Low, WordBits
    <2>5. Low(d \cup low, 32) \in SUBSET WordBits /\ Low(v, 32) \in SUBSET WordBits
      BY DEF Low, WordBits
    <2> HIDE DEF d, low
    <2>6. Low(Plus(d, low), 32) = Low(v, 32)
      BY <2>3, <2>4, <2>5, SameWord
    <2> QED BY <2>6 DEF d, low
  <1>5. CASE 15 \in v
    <2>1. \A b \in WordBits : b \in low <=> (b < 16 /\ b \in v) \/ 16 <= b
      BY <1>5 DEF SignExtend, Low, WordBits
    <2> HIDE DEF low
    <2>2. \A b \in 16..31 : b \in s <=> (b \in v <=> ~ Passes(v, b))
      <3> TAKE b \in 16..31
      <3>1. b \in WordBits /\ b \notin {15}
        BY DEF WordBits
      <3>2. b \in s <=> (b \in v <=> (b \in {15} <=> b \in Carries(v, {15})))
        BY <1>1, <3>1, SumBit
      <3>3. b \in Carries(v, {15}) <=> Passes(v, b)
        BY <1>5, <3>1, CarryUp
      <3> QED BY <3>1, <3>2, <3>3
    <2> HIDE DEF s
    <2>3. \A b \in WordBits : b \in d <=> b \in 16..31 /\ b \in s
      BY <1>2 DEF Low, WordBits
    <2> HIDE DEF d
    <2>4. \A k \in 16..31 : k \in Carries(d, low) <=> ~ Passes(v, k)
      <3> TAKE k \in 16..31
      <3>1. k \in Carries(d, low) <=> \E j \in 16..(k - 1) : j \in d
        BY <1>3, <2>1, <2>3 DEF Carries, WordBits, Word
      <3>2. \A j \in 16..(k - 1) : j \in d <=> (j \in v <=> ~ Passes(v, j))
        <4> TAKE j \in 16..(k - 1)
        <4>1. j \in 16..31 /\ j \in WordBits
          BY DEF WordBits
        <4> QED BY <2>2, <2>3, <4>1
      <3> QED BY <3>1, <3>2, FlippedBits
    <2>5. \A k \in 0..15 : k \notin Carries(d, low)
      <3> SUFFICES ASSUME NEW k \in 0..15, NEW j \in d \cap low, j < k PROVE FALSE
        BY DEF Carries
      <3>1. j \in WordBits
        BY <1>3 DEF Word
      <3> QED BY <2>3, <3>1 DEF WordBits
    <2>6. \A k \in 0..31 : k \in Plus(d, low) <=> k \in v
      <3>1. ASSUME NEW k \in 0..15 PROVE k \in Plus(d, low) <=> k \in v
        BY <1>1, <1>3, <2>1, <2>3, <2>5, SumBit DEF WordBits
      <3>2. ASSUME NEW k \in 16..31 PROVE k \in Plus(d, low) <=> k \in v
        <4>0. k \in WordBits
          BY DEF WordBits
        <4>1. k \in Plus(d, low) <=> (k \in d <=> (k \in low <=> k \in Carries(d, low)))
          BY <1>1, <1>3, <4>0, SumBit
        <4>2. k \in low /\ (k \in d <=> (k \in v <=> ~ Passes(v, k)))
          BY <2>1, <2>2, <2>3, <4>0
        <4> QED BY <2>4, <4>1, <4>2
      <3> QED BY <3>1, <3>2
    <2>7. Low(Plus(d, low), 32) = Low(v, 32)
      BY <2>6 DEF Low
    <2> QED BY <2>7 DEF d, low, s
  <1> QED BY <1>4, <1>5

-------------------------------------------------------------------------------
(* The field of every form reads back as the value it was given, exactly when   *)
(* encode_pcrel_field accepts that value: neither a legal operand is corrupted  *)
(* nor an illegal one let through.                                             *)
THEOREM FieldReadsBack ==
  ASSUME NEW form \in Forms, NEW op \in Word, NEW v \in Word
  PROVE  Legal(form, v) <=> Holds(form, Encode(form, op, v), v)
  <1> DEFINE e == Encode(form, op, v)
             a == Adjusted(form, v)
  <1>1. Gathered(form, e) = ReadBack(form, op, a)
    BY DEF ReadBack, Filled, Encode
  <1>2. form # "HIADJ" => a = v
    BY DEF Adjusted
  <1> SUFFICES Legal(form, v) <=> Holds(form, e, v)
    OBVIOUS
  <1> HIDE DEF e, a
  <1>3. CASE form \in {"24REL", "15REL", "8REL"}
    BY <1>1, <1>2, <1>3, Displacements DEF Holds, Decode, RefusedForms
  <1>4. CASE form \in {"4REL", "5REL"}
    BY <1>1, <1>2, <1>4, ShortBranches DEF Holds, Decode, RefusedForms
  <1>5. CASE form = "4REL2"
    BY <1>1, <1>2, <1>5, LoopBranch DEF Holds, Decode, RefusedForms
  <1>6. CASE form \in {"16CONST", "16OFF", "10OFF", "9SCONST"}
    BY <1>1, <1>2, <1>6, Constants DEF Holds, Decode, RefusedForms
  <1>7. CASE form \in {"9ZCONST", "8CONST"}
    BY <1>1, <1>2, <1>7, UnsignedConstants DEF Holds, Decode, RefusedForms
  <1>8. CASE form \in {"32ABS", "32REL", "16ABS", "8ABS", "LO", "LO2"}
    <2>1. Gathered(form, e) = Low(v, Width(form))
      BY <1>1, <1>2, <1>8, Truncated
    <2>2. Decode(form, e) = Gathered(form, e)
      BY <1>8 DEF Decode
    <2>3. Holds(form, e, v) <=> Decode(form, e) = Low(v, Width(form))
      <3>1. CASE form \in {"32ABS", "32REL"}
        BY <3>1 DEF Holds, Width, RefusedForms
      <3>2. CASE form \in {"16ABS", "8ABS", "LO", "LO2"}
        BY <3>2 DEF Holds, RefusedForms
      <3> QED BY <1>8, <3>1, <3>2
    <2>4. Legal(form, v)
      BY <1>8 DEF Legal, RefusedForms
    <2> QED BY <2>1, <2>2, <2>3, <2>4
  <1>9. CASE form = "24ABS"
    <2>1. Decode(form, e) = Shift(Low(Gathered(form, e), 20), 1)
                             \cup Shift(Gathered(form, e) \ (0..19), 8)
      BY <1>9 DEF Decode
    <2>2. Holds(form, e, v) <=> Decode(form, e) = Low(v, 32)
      BY <1>9 DEF Holds, RefusedForms
    <2>3. Gathered(form, e) = ReadBack("24ABS", op, v)
      BY <1>1, <1>2, <1>9
    <2>4. Decode(form, e) = Low(v, 32) <=> Legal("24ABS", v)
      BY <2>1, <2>3, Address24
    <2> QED BY <1>9, <2>2, <2>4
  <1>10. CASE form = "18ABS"
    <2>1. Decode(form, e) = Low(Gathered(form, e), 14)
                             \cup Shift(Gathered(form, e) \ (0..13), 14)
      BY <1>10 DEF Decode
    <2>2. Holds(form, e, v) <=> Decode(form, e) = Low(v, 32)
      BY <1>10 DEF Holds, RefusedForms
    <2>3. Gathered(form, e) = ReadBack("18ABS", op, v)
      BY <1>1, <1>2, <1>10
    <2>4. Decode(form, e) = Low(v, 32) <=> Legal("18ABS", v)
      BY <2>1, <2>3, Address18
    <2> QED BY <1>10, <2>2, <2>4
  <1>11. CASE form = "18ABS_14"
    <2>1. Decode(form, e) = Shift(Gathered(form, e), 14)
      BY <1>11 DEF Decode
    <2>2. Holds(form, e, v) <=> Decode(form, e) = Low(v, 32)
      BY <1>11 DEF Holds, RefusedForms
    <2>3. Gathered(form, e) = ReadBack("18ABS_14", op, v)
      BY <1>1, <1>2, <1>11
    <2>4. Decode(form, e) = Low(v, 32) <=> Legal("18ABS_14", v)
      BY <2>1, <2>3, Address18High
    <2> QED BY <1>11, <2>2, <2>4
  <1>12. CASE form = "HI"
    BY <1>1, <1>2, <1>12, HighHalf DEF Holds, Decode, Legal, RefusedForms
  <1>13. CASE form = "HIADJ"
    <2>1. a = Plus(v, {15})
      BY <1>13 DEF Adjusted, a
    <2>2. Decode(form, e) = Shift(ReadBack("HIADJ", op, Plus(v, {15})), 16)
      BY <1>1, <1>13, <2>1 DEF Decode
    <2>3. Legal(form, v)
      BY <1>13 DEF Legal, RefusedForms
    <2>4. Holds(form, e, v) <=>
            Low(Plus(Decode(form, e), SignExtend(Low(v, 16), 16)), 32) = Low(v, 32)
      BY <1>13 DEF Holds, RefusedForms
    <2> QED BY <2>2, <2>3, <2>4, AdjustedHalf
  <1>14. CASE form \in RefusedForms
    BY <1>14 DEF Legal, Holds, RefusedForms
  <1> QED
    BY <1>3, <1>4, <1>5, <1>6, <1>7, <1>8, <1>9, <1>10, <1>11, <1>12, <1>13, <1>14
       DEF Forms, InsnForms, RelForms, DataForms

(* Encoding touches the bits of the form's own field and no other bit of the    *)
(* instruction word: opcode and the other operands stay.                       *)
THEOREM OpcodeKept ==
  ASSUME NEW form \in Forms, NEW op \in Word, NEW v \in Word
  PROVE  Encode(form, op, v) \ Field(form) = op \ Field(form)
  <1>1. Adjusted(form, v) \in SUBSET Int
    <2>1. {15} \in Word
      BY DEF Word, WordBits
    <2>2. Adjusted(form, v) \in Word
      BY <2>1, PlusType DEF Adjusted
    <2> QED BY <2>2 DEF Word, WordBits
  <1>2. Placed(form, Adjusted(form, v)) \subseteq Field(form)
    <2>1. \A b \in WordBits : b \in Placed(form, Adjusted(form, v)) => b \in Field(form)
      BY <1>1, PlacedBit, FieldBit DEF Goes, Covers, WordBits
    <2> QED BY <2>1 DEF Placed, Shift
  <1> QED BY <1>2 DEF Encode
===============================================================================
