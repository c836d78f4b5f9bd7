---------------------------- MODULE FieldEncoding ----------------------------
(* encode_pcrel_field of nyxstone_glue.c: where each TriCore relocation form   *)
(* puts the bits of a resolved value in the instruction or data word, and      *)
(* which values it refuses.  Decode, at the end, is the other side: what the   *)
(* instruction formats of the architecture read back from that word.           *)
EXTENDS Words

DataForms == {"32ABS", "32REL", "16ABS", "8ABS"}

RelForms == {"24REL", "15REL", "8REL", "4REL", "4REL2", "5REL", "32REL"}

InsnForms ==
  (RelForms \ DataForms) \cup
  {"24ABS", "18ABS", "18ABS_14", "HI", "HIADJ", "LO", "LO2", "16CONST",
   "16OFF", "10OFF", "9SCONST", "9ZCONST", "8CONST"}

\* Forms the encoder recognises only to refuse them (sm: prefix).
RefusedForms == {"16SM", "10SM", "16SM2"}

Forms == DataForms \cup InsnForms \cup RefusedForms

\* <<first bit of the value, number of bits, first bit in the word>>.
Moves(form) ==
  CASE form \in {"32ABS", "32REL"}    -> {<<0, 32, 0>>}
    [] form = "16ABS"                 -> {<<0, 16, 0>>}
    [] form = "8ABS"                  -> {<<0, 8, 0>>}
    [] form = "24REL"                 -> {<<1, 16, 16>>, <<17, 8, 8>>}
    [] form = "24ABS"                 -> {<<1, 16, 16>>, <<17, 4, 8>>, <<28, 4, 12>>}
    [] form = "18ABS"                 -> {<<0, 6, 16>>, <<6, 4, 28>>, <<10, 4, 22>>,
                                          <<28, 4, 12>>}
    [] form = "18ABS_14"              -> {<<14, 6, 16>>, <<20, 4, 28>>, <<24, 4, 22>>,
                                          <<28, 4, 12>>}
    [] form \in {"HI", "HIADJ"}       -> {<<16, 16, 12>>}
    [] form \in {"LO", "16CONST"}     -> {<<0, 16, 12>>}
    [] form \in {"LO2", "16OFF"}      -> {<<0, 6, 16>>, <<6, 4, 28>>, <<10, 6, 22>>}
    [] form = "10OFF"                 -> {<<0, 6, 16>>, <<6, 4, 28>>}
    [] form = "15REL"                 -> {<<1, 15, 16>>}
    [] form = "8REL"                  -> {<<1, 8, 8>>}
    [] form \in {"4REL", "4REL2"}     -> {<<1, 4, 8>>}
    [] form = "5REL"                  -> {<<1, 4, 8>>, <<5, 1, 7>>}
    [] form \in {"9SCONST", "9ZCONST"} -> {<<0, 9, 12>>}
    [] form = "8CONST"                -> {<<0, 8, 8>>}
    [] form \in RefusedForms          -> {}

\* Alignment and range checks; -1 is returned when they fail.
Legal(form, v) ==
  CASE form = "24REL"   -> 0 \notin v /\ FitsSigned(v, 24)
    [] form = "15REL"   -> 0 \notin v /\ FitsSigned(v, 15)
    [] form = "8REL"    -> 0 \notin v /\ FitsSigned(v, 8)
    [] form = "4REL"    -> 0 \notin v /\ FitsUnsigned(v, 5)
    [] form = "4REL2"   -> 0 \notin v /\ FitsSigned(v, 5) /\ 63 \in v
    [] form = "5REL"    -> 0 \notin v /\ FitsUnsigned(v, 6)
    [] form = "24ABS"   -> v \cap ({0} \cup 21..27) = {}
    [] form = "18ABS"   -> v \cap (14..27) = {}
    [] form = "18ABS_14" -> v \cap (0..13) = {}
    [] form \in {"16CONST", "16OFF"} -> FitsSigned(v, 15)
    [] form = "10OFF"   -> FitsSigned(v, 9)
    [] form = "9SCONST" -> FitsSigned(v, 8)
    [] form = "9ZCONST" -> FitsUnsigned(v, 9)
    [] form = "8CONST"  -> FitsUnsigned(v, 8)
    [] OTHER            -> form \notin RefusedForms

Field(form) == UNION {m[3]..(m[3] + m[2] - 1) : m \in Moves(form)}

Placed(form, v) ==
  UNION {Shift(v \cap (m[1]..(m[1] + m[2] - 1)), m[3] - m[1]) : m \in Moves(form)}

\* HIADJ makes up for the sign extension of the low half added to it later.
Unadjusted(form, v) == v
Adjusted(form, v) == IF form = "HIADJ" THEN Plus(v, {15}) ELSE v

Encode(form, op, v) == (op \ Field(form)) \cup Placed(form, Adjusted(form, v))

------------------------------------------------------------------------------
(* The instruction formats: the pieces of the field, as <<first bit in the      *)
(* word, number of bits, first bit in the number they make up>>.                *)
Format(form) ==
  CASE form \in {"24REL", "24ABS"}          -> {<<16, 16, 0>>, <<8, 8, 16>>}
    [] form \in {"18ABS", "18ABS_14"}       -> {<<16, 6, 0>>, <<28, 4, 6>>, <<22, 4, 10>>,
                                                <<12, 4, 14>>}
    [] form \in {"LO2", "16OFF"}            -> {<<16, 6, 0>>, <<28, 4, 6>>, <<22, 6, 10>>}
    [] form = "10OFF"                       -> {<<16, 6, 0>>, <<28, 4, 6>>}
    [] form \in {"HI", "HIADJ", "LO", "16CONST"} -> {<<12, 16, 0>>}
    [] form = "15REL"                       -> {<<16, 15, 0>>}
    [] form = "5REL"                        -> {<<8, 4, 0>>, <<7, 1, 4>>}
    [] form \in {"4REL", "4REL2"}           -> {<<8, 4, 0>>}
    [] form \in {"9SCONST", "9ZCONST"}      -> {<<12, 9, 0>>}
    [] form \in {"8REL", "8CONST"}          -> {<<8, 8, 0>>}
    [] form \in {"32ABS", "32REL"}          -> {<<0, 32, 0>>}
    [] form = "16ABS"                       -> {<<0, 16, 0>>}
    [] form = "8ABS"                        -> {<<0, 8, 0>>}
    [] form \in RefusedForms                -> {}

Width(form) == CASE form \in {"24REL", "24ABS"} -> 24
                 [] form \in {"18ABS", "18ABS_14"} -> 18
                 [] form \in {"32ABS", "32REL"} -> 32
                 [] form \in {"HI", "HIADJ", "LO", "LO2", "16CONST", "16OFF", "16ABS"} -> 16
                 [] form = "15REL" -> 15
                 [] form = "10OFF" -> 10
                 [] form \in {"9SCONST", "9ZCONST"} -> 9
                 [] form = "5REL" -> 5
                 [] form \in {"4REL", "4REL2"} -> 4
                 [] OTHER -> 8

\* The field of a word as one number.
Gathered(form, op) ==
  UNION {Shift(op \cap (p[1]..(p[1] + p[2] - 1)), p[3] - p[1]) : p \in Format(form)}

\* What the processor, or the reader of the data, makes of the field.
Decode(form, op) ==
  LET d == Gathered(form, op)
  IN CASE form \in {"24REL", "15REL", "8REL"}      -> Shift(SignExtend(d, Width(form)), 1)
       [] form \in {"4REL", "5REL"}                -> Shift(d, 1)
       [] form = "4REL2"                           -> Shift(d, 1) \cup (5..63)
       [] form = "24ABS"   -> Shift(Low(d, 20), 1) \cup Shift(d \ (0..19), 8)
       [] form = "18ABS"   -> Low(d, 14) \cup Shift(d \ (0..13), 14)
       [] form = "18ABS_14" -> Shift(d, 14)
       [] form \in {"16CONST", "16OFF", "10OFF", "9SCONST"} -> SignExtend(d, Width(form))
       [] form \in {"HI", "HIADJ"}                 -> Shift(d, 16)
       [] OTHER                                    -> d

\* The word stands for value v: addresses are 32 bits wide, data fields and
\* halves of an address are truncated, everything else is exact.
Holds(form, op, v) ==
  CASE form \in {"24ABS", "18ABS", "18ABS_14", "32ABS", "32REL"} ->
                              Decode(form, op) = Low(v, 32)
    [] form \in {"16ABS", "8ABS", "LO", "LO2"} -> Decode(form, op) = Low(v, Width(form))
    [] form = "HI"         -> Decode(form, op) = Low(v, 32) \ (0..15)
    [] form = "HIADJ"      -> Low(Plus(Decode(form, op), SignExtend(Low(v, 16), 16)), 32)
                                = Low(v, 32)
    [] form \in RefusedForms -> FALSE
    [] OTHER               -> Decode(form, op) = v
==============================================================================
