--------------------------- MODULE Binding_proofs ---------------------------
(* The C ABI and the bindings over it.                                     *)
EXTENDS Binding, SequenceTheorems, TLAPS

-----------------------------------------------------------------------------
(***************************************************************************)
(* The C ABI's memory discipline for results of any size and any number of *)
(* callers.                                                                *)
(***************************************************************************)

(***************************************************************************)
(* The plan of a call, block by block.                                     *)
(***************************************************************************)
\* The blocks of a set that are freed by the C ABI's free functions.
Mine(blocks) == {b \in blocks : b[2] # "handle"}

LEMMA ArrayBlocks ==
    ASSUME NEW c \in Callers, NEW n \in 0 .. MaxItems
    PROVE  /\ InsnBlocks(c, n) \in Seq(Blocks)
           /\ Len(InsnBlocks(c, n)) = 2 * n + 1
           /\ RelocBlocks(c, n) \in Seq(Blocks)
           /\ Len(RelocBlocks(c, n)) = IF n = 0 THEN 0 ELSE n + 1
  <1> USE CAbiAssumption
  <1>1. InsnBlocks(c, n) \in [1 .. 2 * n + 1 -> Blocks]
    <2> SUFFICES ASSUME NEW j \in 1 .. 2 * n + 1
                 PROVE  InsnBlocks(c, n)[j] \in Blocks
      BY DEF InsnBlocks
    <2>1. CASE j = 1
      BY <2>1 DEF InsnBlocks, Block, Blocks
    <2>2. CASE j > 1
      <3>1. j \div 2 \in 1 .. MaxItems /\ (j % 2 = 0 \/ j % 2 = 1)
        BY <2>2 DEF CAbiAssumption
      <3> QED
        BY <2>2, <3>1 DEF InsnBlocks, Block, Blocks, ItemKinds
    <2> QED
      BY <2>1, <2>2
  <1>2. RelocBlocks(c, n) \in [1 .. (IF n = 0 THEN 0 ELSE n + 1) -> Blocks]
    BY DEF RelocBlocks, Block, Blocks, ItemKinds, CAbiAssumption
  <1>3. 2 * n + 1 \in Nat /\ (IF n = 0 THEN 0 ELSE n + 1) \in Nat
    BY DEF CAbiAssumption
  <1> QED
    BY <1>1, <1>2, <1>3, SeqDef, LenProperties

LEMMA MainShape ==
    ASSUME NEW c \in Callers, NEW f \in Frames
    PROVE  /\ MainBlocks(c, f) \in Seq(Blocks)
           /\ f.api \in InsnApis => MainBlocks(c, f) = InsnBlocks(c, f.insns)
           /\ f.api \notin InsnApis =>
                /\ Len(MainBlocks(c, f)) \in 0 .. 1
                /\ \A i \in 1 .. Len(MainBlocks(c, f)) :
                      MainBlocks(c, f)[i] = IF f.api = "create" THEN HandleBlock(f.handle)
                                            ELSE IF f.api = "disassemble" THEN Block(c, "text", 0)
                                            ELSE Block(c, "buf", 0)
           /\ f.api = "create" => MainBlocks(c, f) = <<HandleBlock(f.handle)>>
           /\ f.api = "disassemble" => MainBlocks(c, f) = <<Block(c, "text", 0)>>
  <1>1. CASE f.api \in InsnApis
    <2>1. MainBlocks(c, f) = InsnBlocks(c, f.insns)
      BY <1>1 DEF MainBlocks, InsnApis, BytesApis
    <2>2. f.insns \in 0 .. MaxItems
      BY DEF Frames
    <2> QED
      BY <1>1, <2>1, <2>2, ArrayBlocks DEF InsnApis
  <1>2. CASE f.api \in BytesApis
    <2>1. CASE f.bytes
      <3>1. MainBlocks(c, f) = <<Block(c, "buf", 0)>>
        BY <1>2, <2>1 DEF MainBlocks, BytesApis, InsnApis
      <3>2. Block(c, "buf", 0) \in Blocks
        BY DEF Block, Blocks
      <3> QED
        BY <1>2, <3>1, <3>2 DEF BytesApis, InsnApis
    <2>2. CASE ~ f.bytes
      <3>1. MainBlocks(c, f) = << >>
        BY <1>2, <2>2 DEF MainBlocks, BytesApis, InsnApis
      <3> QED
        BY <1>2, <3>1, EmptySeq DEF BytesApis, InsnApis
    <2> QED
      BY <2>1, <2>2
  <1>3. CASE f.api = "disassemble"
    BY <1>3, CAbiAssumption DEF MainBlocks, BytesApis, InsnApis, Blocks, Block, CAbiAssumption
  <1>4. CASE f.api = "create"
    <2>1. f.handle \in Handles
      BY DEF Frames
    <2> QED
      BY <1>4, <2>1 DEF MainBlocks, BytesApis, InsnApis, Blocks, Block, HandleBlock
  <1>5. f.api \in AllApis
    BY DEF Frames
  <1> QED
    BY <1>1, <1>2, <1>3, <1>4, <1>5 DEF AllApis, DisasmApis, InsnApis

LEMMA PlanShape ==
    ASSUME NEW c \in Callers, NEW f \in Frames
    PROVE  /\ Plan(c, f) \in Seq(Blocks)
           /\ Len(Plan(c, f)) = Len(MainBlocks(c, f)) + Len(RelocBlocks(c, f.relocs))
           /\ \A i \in 1 .. Len(Plan(c, f)) :
                Plan(c, f)[i] = IF i <= Len(MainBlocks(c, f)) THEN MainBlocks(c, f)[i]
                                ELSE RelocBlocks(c, f.relocs)[i - Len(MainBlocks(c, f))]
  <1>1. f.relocs \in 0 .. MaxItems
    BY DEF Frames
  <1>2. RelocBlocks(c, f.relocs) \in Seq(Blocks)
    BY <1>1, ArrayBlocks
  <1> QED
    BY <1>2, MainShape, ConcatProperties DEF Plan

(***************************************************************************)
(* What stands at a place of the plan, and what free frees of it.          *)
(***************************************************************************)
LEMMA MainPlace ==
    ASSUME NEW c \in Callers, NEW f \in Frames, NEW i \in 1 .. Len(MainBlocks(c, f))
    PROVE  LET b == MainBlocks(c, f)[i] IN
           \/ /\ f.api \in InsnApis
              /\ \/ i = 1 /\ b = Block(c, "insns", 0)
                 \/ i > 1 /\ i % 2 = 0 /\ b = Block(c, "asm", i \div 2) /\ i \div 2 <= f.insns
                 \/ i > 1 /\ i % 2 = 1 /\ b = Block(c, "bytes", i \div 2) /\ i \div 2 <= f.insns
           \/ /\ f.api \notin InsnApis /\ f.api # "create" /\ i = 1
              /\ b \in {Block(c, "buf", 0), Block(c, "text", 0)}
           \/ f.api = "create" /\ i = 1 /\ b = HandleBlock(f.handle)
  <1>1. CASE f.api \in InsnApis
    <2>1. f.insns \in 0 .. MaxItems
      BY DEF Frames
    <2>2. i \in 1 .. 2 * f.insns + 1 /\ MainBlocks(c, f)[i] = InsnBlocks(c, f.insns)[i]
      BY <1>1, <2>1, MainShape, ArrayBlocks
    <2>3. i % 2 = 0 \/ i % 2 = 1
      BY <2>1, <2>2, CAbiAssumption DEF CAbiAssumption
    <2>4. i \div 2 <= f.insns
      BY <2>1, <2>2, CAbiAssumption DEF CAbiAssumption
    <2>5. CASE i = 1
      BY <1>1, <2>2, <2>5 DEF InsnBlocks
    <2>6. CASE i > 1
      BY <1>1, <2>2, <2>3, <2>4, <2>6 DEF InsnBlocks
    <2> QED
      BY <2>2, <2>5, <2>6
  <1>2. CASE f.api \notin InsnApis
    BY <1>2, MainShape
  <1> QED
    BY <1>1, <1>2

LEMMA RelocPlace ==
    ASSUME NEW c \in Callers, NEW f \in Frames, NEW i \in 1 .. Len(RelocBlocks(c, f.relocs))
    PROVE  LET b == RelocBlocks(c, f.relocs)[i] IN
           \/ i = 1 /\ b = Block(c, "relocs", 0)
           \/ i > 1 /\ b = Block(c, "name", i - 1) /\ i - 1 <= f.relocs
  <1>1. f.relocs \in 0 .. MaxItems
    BY DEF Frames
  <1> QED
    BY SMTT(30), <1>1, ArrayBlocks, CAbiAssumption DEF RelocBlocks

\* One place of the plan, without saying where the main blocks end.
LEMMA Place ==
    ASSUME NEW c \in Callers, NEW f \in Frames, NEW i \in 1 .. Len(Plan(c, f))
    PROVE  LET b == Plan(c, f)[i]  m == Len(MainBlocks(c, f)) IN
           /\ m \in Nat
           /\ b \in Blocks
           /\ i <= m => b = MainBlocks(c, f)[i] /\ i \in 1 .. m
           /\ i > m => /\ b = RelocBlocks(c, f.relocs)[i - m]
                       /\ i - m \in 1 .. Len(RelocBlocks(c, f.relocs))
  <1>1. f.relocs \in 0 .. MaxItems
    BY DEF Frames
  <1>2. /\ Len(MainBlocks(c, f)) \in Nat
        /\ Len(RelocBlocks(c, f.relocs)) \in Nat
    BY <1>1, MainShape, ArrayBlocks, LenProperties
  <1>3. Plan(c, f)[i] \in Blocks
    BY PlanShape, ElementOfSeq
  <1> QED
    BY <1>2, <1>3, PlanShape

LEMMA MainFreed ==
    ASSUME NEW c \in Callers, NEW f \in Frames, NEW i \in 1 .. Len(MainBlocks(c, f))
    PROVE  LET b == MainBlocks(c, f)[i] IN
           /\ b[2] \in {"insns", "asm", "bytes", "buf", "text", "handle"}
           /\ b[2] # "handle" => b[1] = c
           /\ b[2] = "handle" <=> f.api = "create"
           /\ b[2] = "handle" => b = HandleBlock(f.handle)
           /\ b \in f.ptrs => (b \in FreeMain(c, f) <=> b[2] # "handle")
  BY MainPlace DEF FreeMain, FreeInsns, Block, HandleBlock, InsnApis

LEMMA RelocFreed ==
    ASSUME NEW c \in Callers, NEW f \in Frames, NEW i \in 1 .. Len(RelocBlocks(c, f.relocs))
    PROVE  LET b == RelocBlocks(c, f.relocs)[i] IN
           /\ b[2] \in {"relocs", "name"} /\ b[1] = c
           /\ b[2] = "relocs" => i = 1
           /\ b[2] = "name" => b[3] = i - 1 /\ i - 1 <= f.relocs
           /\ b \notin FreeMain(c, f)
  <1>1. \A p \in FreeMain(c, f) : p[2] \in {"insns", "asm", "bytes", "buf", "text"}
    BY DEF FreeMain, FreeInsns
  <1>2. CASE i = 1 /\ RelocBlocks(c, f.relocs)[i] = Block(c, "relocs", 0)
    BY <1>1, <1>2 DEF Block
  <1>3. CASE i > 1 /\ RelocBlocks(c, f.relocs)[i] = Block(c, "name", i - 1) /\ i - 1 <= f.relocs
    BY <1>1, <1>3 DEF Block
  <1> QED
    BY <1>2, <1>3, RelocPlace

(***************************************************************************)
(* A failed allocation frees all that the call has allocated.              *)
(***************************************************************************)
LEMMA UnwindIsAll ==
    ASSUME NEW c \in Callers, NEW f \in Frames, NEW s \in 1 .. Len(Plan(c, f)),
           f.ptrs = {Plan(c, f)[i] : i \in 1 .. s - 1}
    PROVE  Unwind(c, f, Plan(c, f)[s]) = Mine(f.ptrs)
  <1> DEFINE P == Plan(c, f)
             m == Len(MainBlocks(c, f))
  <1>0. m \in Nat /\ s \in Nat /\ \A i \in 1 .. s - 1 : i \in 1 .. Len(P)
    BY Place, PlanShape, LenProperties
  <1>1. CASE s <= m /\ f.api \notin InsnApis
    <2>1. s = 1 /\ P[s][2] \in {"buf", "text", "handle"}
      BY <1>1, Place, MainPlace DEF Block, HandleBlock
    <2>2. f.ptrs = {}
      BY <2>1
    <2> QED
      BY <2>1, <2>2 DEF Unwind, Mine
  <1>2. CASE s <= m /\ f.api \in InsnApis
    <2>1. \A i \in 1 .. s - 1 :
            \/ P[i] = Block(c, "insns", 0)
            \/ P[i][2] \in {"asm", "bytes"} /\ P[i][3] = i \div 2
      <3> TAKE i \in 1 .. s - 1
      <3>1. i \in 1 .. m /\ P[i] = MainBlocks(c, f)[i]
        BY <1>0, <1>2, Place
      <3> QED
        BY <1>2, <3>1, MainPlace DEF Block, InsnApis
    <2>2. CASE s = 1
      <3>1. f.ptrs = {} /\ P[s][2] = "insns"
        BY <1>2, <2>2, Place, MainPlace DEF Block, InsnApis
      <3> QED
        BY <3>1 DEF Unwind, Mine
    <2>3. CASE s > 1 /\ s % 2 = 0
      <3>1. P[s][2] = "asm" /\ P[s][3] = s \div 2
        BY <1>2, <2>3, Place, MainPlace DEF Block, InsnApis
      <3>2. \A i \in 1 .. s - 1 : i \div 2 <= s \div 2 - 1
        BY <1>0, <2>3
      <3> QED
        BY <2>1, <3>1, <3>2 DEF Unwind, Mine, FreeInsns, Block
    <2>4. CASE s > 1 /\ s % 2 = 1
      <3>1. P[s][2] = "bytes" /\ P[s][3] = s \div 2
        BY <1>2, <2>4, Place, MainPlace DEF Block, InsnApis
      <3>2. \A i \in 1 .. s - 1 : i \div 2 <= s \div 2
        BY <1>0, <2>4
      <3> QED
        BY <2>1, <3>1, <3>2 DEF Unwind, Mine, FreeInsns, Block
    <2> QED
      BY <1>0, <2>2, <2>3, <2>4
  <1>3. CASE s > m
    <2>1. \A i \in 1 .. s - 1 : i <= m =>
            /\ P[i][2] \in {"insns", "asm", "bytes", "buf", "text", "handle"}
            /\ P[i] \in FreeMain(c, f) <=> P[i][2] # "handle"
      BY <1>0, Place, MainFreed
    <2>2. \A i \in 1 .. s - 1 : i > m =>
            /\ P[i][2] \in {"relocs", "name"} /\ P[i] \notin FreeMain(c, f)
            /\ P[i][2] = "name" => P[i][3] = i - m - 1
      <3> SUFFICES ASSUME NEW i \in 1 .. s - 1, i > m
                   PROVE  /\ P[i][2] \in {"relocs", "name"} /\ P[i] \notin FreeMain(c, f)
                          /\ P[i][2] = "name" => P[i][3] = i - m - 1
        OBVIOUS
      <3>1. P[i] = RelocBlocks(c, f.relocs)[i - m]
            /\ i - m \in 1 .. Len(RelocBlocks(c, f.relocs))
        BY <1>0, Place
      <3> DEFINE k == i - m
      <3>2. P[i] = RelocBlocks(c, f.relocs)[k] /\ k \in 1 .. Len(RelocBlocks(c, f.relocs))
        BY <3>1
      <3> HIDE DEF k
      <3>3. /\ P[i][2] \in {"relocs", "name"} /\ P[i] \notin FreeMain(c, f)
            /\ P[i][2] = "name" => P[i][3] = k - 1
        BY <3>2, RelocFreed
      <3> QED
        BY <3>3 DEF k
    <2>3. FreeMain(c, f) \subseteq f.ptrs
      BY DEF FreeMain, FreeInsns
    <2>4. CASE P[s][2] = "relocs"
      <3>1. s - m = 1
        BY <1>3, <2>4, Place, RelocFreed
      <3>2. \A i \in 1 .. s - 1 : i <= m
        BY <1>0, <3>1
      <3>3. FreeMain(c, f) = Mine(f.ptrs)
        BY <2>1, <2>3, <3>2 DEF Mine
      <3> QED
        BY <2>4, <3>3 DEF Unwind
    <2>5. CASE P[s][2] = "name"
      <3>1. P[s][3] = s - m - 1
        BY <1>3, <2>5, Place, RelocFreed
      <3>2. \A p \in f.ptrs :
              p \in FreeRelocs(c, f.ptrs, P[s][3] - 1) \cup FreeMain(c, f) <=> p[2] # "handle"
        <4> SUFFICES ASSUME NEW i \in 1 .. s - 1
                     PROVE  P[i] \in FreeRelocs(c, f.ptrs, P[s][3] - 1) \cup FreeMain(c, f)
                              <=> P[i][2] # "handle"
          OBVIOUS
        <4>1. CASE i <= m
          BY <2>1, <4>1 DEF FreeRelocs
        <4>2. CASE i > m
          BY <1>0, <2>2, <3>1, <4>2 DEF FreeRelocs
        <4> QED
          BY <1>0, <4>1, <4>2
      <3>3. FreeRelocs(c, f.ptrs, P[s][3] - 1) \subseteq f.ptrs
        BY DEF FreeRelocs
      <3> QED
        BY <2>3, <2>5, <3>2, <3>3 DEF Unwind, Mine
    <2> QED
      BY <1>3, <2>4, <2>5, Place, RelocFreed
  <1> QED
    BY <1>0, <1>1, <1>2, <1>3

(***************************************************************************)
(* What the header tells the caller to free is all a call has handed over. *)
(***************************************************************************)
LEMMA HandedIsAll ==
    ASSUME NEW c \in Callers, NEW f \in Frames, f.ptrs = ToSet(Plan(c, f))
    PROVE  FreeMain(c, f) \cup FreeRelocs(c, f.ptrs, f.relocs) = Mine(f.ptrs)
  <1>1. DOMAIN Plan(c, f) = 1 .. Len(Plan(c, f))
    BY PlanShape, LenProperties
  <1>2. \A p \in f.ptrs :
          p \in FreeMain(c, f) \cup FreeRelocs(c, f.ptrs, f.relocs) <=> p[2] # "handle"
    <2> SUFFICES ASSUME NEW i \in 1 .. Len(Plan(c, f))
                 PROVE  Plan(c, f)[i] \in FreeMain(c, f) \cup FreeRelocs(c, f.ptrs, f.relocs)
                          <=> Plan(c, f)[i][2] # "handle"
      BY <1>1 DEF ToSet
    <2>0. Plan(c, f)[i] \in f.ptrs
      BY <1>1 DEF ToSet
    <2>1. CASE i <= Len(MainBlocks(c, f))
      BY <2>0, <2>1, Place, MainFreed DEF FreeRelocs
    <2>2. CASE i > Len(MainBlocks(c, f))
      BY <2>0, <2>2, Place, RelocFreed DEF FreeRelocs
    <2> QED
      BY <2>1, <2>2, Place
  <1>3. FreeMain(c, f) \subseteq f.ptrs /\ FreeRelocs(c, f.ptrs, f.relocs) \subseteq f.ptrs
    BY DEF FreeMain, FreeInsns, FreeRelocs
  <1> QED
    BY <1>2, <1>3 DEF Mine

(***************************************************************************)
(* The inductive invariant, caller by caller: how far the plan has been    *)
(* carried out, what the call owns at that point, what the caller would    *)
(* see, and whether the handle of a nyxstone_create exists.                *)
(***************************************************************************)
Delivered(f) == f.pc = "returned" /\ f.status = "ok"

Progress(c, f) ==
    /\ f.pc = "driver" => f.ptrs = {} /\ f.step = 1
    /\ f.pc = "alloc" => /\ f.step \in 1 .. Len(Plan(c, f)) + 1
                         /\ f.ptrs = {Plan(c, f)[i] : i \in 1 .. f.step - 1}
    /\ f.pc \in {"driver", "alloc", "message"} => f.status # "ok"
    /\ Delivered(f) => /\ f.ptrs = ToSet(Plan(c, f))
                       /\ f.main = "set" <=> MainBlocks(c, f) # <<>>
                       /\ f.rel = "set" <=> f.relocs > 0
    /\ f.api \notin RelocApis /\ (f.pc = "alloc" \/ Delivered(f)) => f.relocs = 0

Holding(c, f) ==
    IF f.pc = "alloc" \/ Delivered(f) THEN Mine(f.ptrs)
    ELSE IF f.pc = "returned" /\ f.err = "set" THEN {Block(c, "err", 0)} ELSE {}

Outputs(f) ==
    /\ f.err = "set" => f.pc = "returned" /\ f.status # "ok" /\ f.wantErr
    /\ f.wantErr /\ (f.pc \in {"driver", "alloc", "message"} \/ Delivered(f)) => f.err = "null"
    /\ f.pc = "idle" => f.rel # "set"
    /\ \/ f.pc \in {"driver", "alloc"}
       \/ f.pc \in {"message", "returned"} /\ f.status \notin {"ok", "null_arg"}
       => f.main = "null" /\ f.rel # "set"

Creation(f) ==
    f.api = "create" /\ f.pc # "idle" =>
        (Usable(f.handle) <=> (f.pc = "alloc" /\ f.step = 2) \/ Delivered(f))

FrameInv(c) ==
    /\ Progress(c, frame[c]) /\ Own(c) = Holding(c, frame[c])
    /\ Outputs(frame[c]) /\ Creation(frame[c])

OneCreator ==
    \A c \in Callers : \A d \in Callers \ {c} :
        /\ frame[c].pc # "idle" /\ frame[c].api = "create"
        /\ frame[d].pc # "idle" /\ frame[d].api = "create"
        => frame[c].handle # frame[d].handle

CInv == CTypeOK /\ ~badFree /\ (\A c \in Callers : FrameInv(c)) /\ OneCreator

(***************************************************************************)
(* A step of one call changes its own frame, its own blocks and, while it  *)
(* creates, its handle.                                                    *)
(***************************************************************************)
Elsewhere(c) ==
    /\ \A d \in Callers \ {c} : frame'[d] = frame[d]
    /\ \A b \in Blocks : b[1] # c /\ b # HandleBlock(frame[c].handle) =>
           (b \in heap' <=> b \in heap)
    /\ frame[c].api # "create" => (Usable(frame[c].handle)' <=> Usable(frame[c].handle))

LEMMA BlockFacts ==
    ASSUME NEW c \in Callers
    PROVE  /\ Block(c, "err", 0) \in Blocks /\ Block(c, "err", 0)[1] = c
           /\ \A h \in Handles : /\ HandleBlock(h) \in Blocks /\ HandleBlock(h)[1] # c
                                 /\ HandleBlock(h)[2] = "handle"
           /\ \A b \in Blocks : b[2] = "handle" => b[1] # c
  BY CAbiAssumption DEF Blocks, Block, HandleBlock, ItemKinds, CAbiAssumption

LEMMA FreshFrame ==
    ASSUME NEW f \in Frames
    PROVE  /\ Fresh(f) \in Frames
           /\ Fresh(f).pc = "idle" /\ Fresh(f).status = "none" /\ Fresh(f).step = 1
           /\ Fresh(f).ptrs = {} /\ Fresh(f).err = f.err /\ Fresh(f).rel = f.rel
           /\ Fresh(f).main = f.main /\ Fresh(f).wantErr = f.wantErr
           /\ Fresh(f).api = f.api /\ Fresh(f).handle = f.handle
  <1>1. Fresh(f) \in Frames
    <2>1. 0 \in 0 .. MaxItems
      BY CAbiAssumption DEF CAbiAssumption
    <2> QED
      BY <2>1 DEF Fresh, Frames, Statuses
  <1>2. /\ Fresh(f).pc = "idle" /\ Fresh(f).status = "none" /\ Fresh(f).step = 1
        /\ Fresh(f).ptrs = {} /\ Fresh(f).err = f.err /\ Fresh(f).rel = f.rel
    BY DEF Fresh, Frames
  <1>3. /\ Fresh(f).main = f.main /\ Fresh(f).wantErr = f.wantErr
        /\ Fresh(f).api = f.api /\ Fresh(f).handle = f.handle
    BY DEF Fresh, Frames
  <1> QED
    BY <1>1, <1>2, <1>3

LEMMA EnterStep ==
    ASSUME CTypeOK, NEW c \in Callers, NEW api \in AllApis, NEW h \in Handles, NEW w \in BOOLEAN,
           FrameInv(c), Enter(c, api, h, w), api = "create" => ~ Usable(h)
    PROVE  /\ CTypeOK' /\ FrameInv(c)' /\ UNCHANGED <<heap, badFree>>
           /\ \A d \in Callers \ {c} : frame'[d] = frame[d]
           /\ frame'[c].api = api /\ frame'[c].handle = h /\ frame'[c].pc # "idle"
           /\ frame'[c].wantErr = w
  <1> DEFINE f == frame[c]
             g == frame'[c]
  <1>1. f \in Frames /\ f.pc = "idle"
    BY DEF CTypeOK, Enter
  <1>2. /\ g \in Frames /\ g.pc \in {"driver", "message"} /\ g.ptrs = {} /\ g.step = 1
        /\ g.api = api /\ g.handle = h /\ g.wantErr = w
        /\ g.err = IF w THEN "null" ELSE f.err
        /\ \/ g.pc = "driver" /\ g.status = "none" /\ g.main = "null"
              /\ g.rel = IF api \in RelocApis THEN "null" ELSE f.rel
           \/ g.pc = "message" /\ g.status = "null_arg"
        /\ frame' = [frame EXCEPT ![c] = g]
    <2> DEFINE x == [Fresh(f) EXCEPT !.api = api, !.handle = h, !.wantErr = w]
    <2>1. /\ x \in Frames /\ x.ptrs = {} /\ x.step = 1 /\ x.api = api /\ x.handle = h
          /\ x.wantErr = w /\ x.err = f.err /\ x.rel = f.rel /\ x.status = "none"
      BY <1>1, FreshFrame DEF Frames
    <2>2. ErrOnEntry(x) = (IF w THEN "null" ELSE f.err) /\ ErrOnEntry(x) \in Pointers
      BY <1>1, <2>1 DEF ErrOnEntry, Frames, Pointers
    <2> HIDE DEF x
    <2>3. CASE frame' = [frame EXCEPT ![c] =
              [x EXCEPT !.pc = "driver", !.err = ErrOnEntry(x), !.main = "null",
                        !.rel = IF api \in RelocApis THEN "null" ELSE @]]
      <3>1. g = [x EXCEPT !.pc = "driver", !.err = ErrOnEntry(x), !.main = "null",
                        !.rel = IF api \in RelocApis THEN "null" ELSE @]
        BY <2>3 DEF CTypeOK
      <3>2. g \in Frames
        BY <2>1, <2>2, <3>1 DEF Frames, Pointers
      <3>3. /\ g.pc = "driver" /\ g.ptrs = {} /\ g.step = 1 /\ g.api = api /\ g.handle = h
            /\ g.wantErr = w /\ g.err = ErrOnEntry(x) /\ g.status = "none" /\ g.main = "null"
            /\ g.rel = IF api \in RelocApis THEN "null" ELSE f.rel
        BY <2>1, <3>1 DEF Frames
      <3> QED
        BY <2>2, <2>3, <3>1, <3>2, <3>3
    <2>4. CASE frame' = [frame EXCEPT ![c] =
              [x EXCEPT !.pc = "message", !.err = ErrOnEntry(x), !.status = "null_arg"]]
      <3>1. g = [x EXCEPT !.pc = "message", !.err = ErrOnEntry(x), !.status = "null_arg"]
        BY <2>4 DEF CTypeOK
      <3>2. g \in Frames
        BY <2>1, <2>2, <3>1 DEF Frames, Statuses
      <3>3. /\ g.pc = "message" /\ g.ptrs = {} /\ g.step = 1 /\ g.api = api /\ g.handle = h
            /\ g.wantErr = w /\ g.err = ErrOnEntry(x) /\ g.status = "null_arg"
        BY <2>1, <3>1 DEF Frames
      <3> QED
        BY <2>2, <2>4, <3>1, <3>2, <3>3
    <2> QED
      BY <2>3, <2>4 DEF Enter, x
  <1>3. CTypeOK'
    BY <1>2 DEF CTypeOK, Enter
  <1>4. Progress(c, g) /\ Outputs(g)
    BY <1>1, <1>2 DEF Progress, Outputs, Delivered, FrameInv
  <1>5. Own(c)' = Holding(c, g)
    <2>1. Own(c) = {}
      BY <1>1 DEF FrameInv, Holding, Delivered, Outputs
    <2> QED
      BY <1>2, <2>1 DEF Own, Enter, Holding, Delivered
  <1>6. Creation(frame[c])'
    <2>1. heap' = heap
      BY DEF Enter
    <2> QED
      BY <1>2, <2>1 DEF Creation, Delivered, Usable
  <1> QED
    <2>1. UNCHANGED <<heap, badFree>>
      BY DEF Enter
    <2>2. \A d \in Callers \ {c} : frame'[d] = frame[d]
      BY <1>2 DEF CTypeOK
    <2> QED
      BY <1>2, <1>3, <1>4, <1>5, <1>6, <2>1, <2>2 DEF FrameInv

\* What each step of a call has to keep.
Kept(c) ==
    /\ CTypeOK' /\ FrameInv(c)' /\ ~badFree' /\ Elsewhere(c)
    /\ frame'[c].api = frame[c].api /\ frame'[c].handle = frame[c].handle
    /\ frame'[c].wantErr = frame[c].wantErr /\ frame'[c].pc # "idle"

LEMMA PlanDepends ==
    ASSUME NEW c \in Callers, NEW f \in Frames, NEW g \in Frames,
           g.api = f.api, g.handle = f.handle, g.bytes = f.bytes,
           g.insns = f.insns, g.relocs = f.relocs
    PROVE  Plan(c, g) = Plan(c, f)
  BY DEF Plan, MainBlocks

LEMMA PlanBlock ==
    ASSUME NEW c \in Callers, NEW f \in Frames, NEW i \in 1 .. Len(Plan(c, f))
    PROVE  LET b == Plan(c, f)[i] IN
           /\ b \in Blocks
           /\ b[2] # "handle" => b[1] = c
           /\ b[2] = "handle" => b = HandleBlock(f.handle) /\ f.api = "create"
  <1>1. CASE i <= Len(MainBlocks(c, f))
    BY <1>1, Place, MainFreed
  <1>2. CASE i > Len(MainBlocks(c, f))
    BY <1>2, Place, RelocFreed
  <1> QED
    BY <1>1, <1>2, Place

LEMMA CreatePlan ==
    ASSUME NEW c \in Callers, NEW f \in Frames, f.api = "create", f.relocs = 0
    PROVE  Len(Plan(c, f)) = 1 /\ Plan(c, f)[1] = HandleBlock(f.handle)
  <1>1. Len(RelocBlocks(c, 0)) = 0
    BY ArrayBlocks, CAbiAssumption DEF CAbiAssumption
  <1>2. Len(MainBlocks(c, f)) = 1 /\ MainBlocks(c, f)[1] = HandleBlock(f.handle)
    BY MainShape
  <1> QED
    BY <1>1, <1>2, PlanShape

LEMMA DriverStep ==
    ASSUME CTypeOK, ~badFree, NEW c \in Callers, FrameInv(c), Driver(c)
    PROVE  Kept(c)
  <1> DEFINE f == frame[c]
             g == frame'[c]
  <1>1. f \in Frames /\ f.pc = "driver" /\ UNCHANGED <<heap, badFree>>
    BY DEF CTypeOK, Driver
  <1>2. Own(c) = {} /\ Own(c)' = {}
    BY <1>1 DEF FrameInv, Holding, Delivered, Own
  <1>3. ASSUME NEW s \in Statuses, s # "ok", s # "null_arg", Fail(c, s)
        PROVE  Kept(c)
    <2>1. frame' = [frame EXCEPT ![c] = [f EXCEPT !.pc = "message", !.status = s]]
      BY <1>3 DEF Fail
    <2>2. /\ g = [f EXCEPT !.pc = "message", !.status = s]
          /\ \A d \in Callers \ {c} : frame'[d] = frame[d]
      BY <2>1 DEF CTypeOK
    <2>3. g \in Frames
      BY <1>1, <2>2 DEF Frames
    <2>4. /\ g.pc = "message" /\ g.status = s /\ g.api = f.api /\ g.handle = f.handle
          /\ g.wantErr = f.wantErr /\ g.err = f.err /\ g.main = f.main /\ g.rel = f.rel
      BY <1>1, <2>2 DEF Frames
    <2>5. CTypeOK'
      BY <1>1, <2>1, <2>3 DEF CTypeOK
    <2>6. Progress(c, g) /\ Outputs(g) /\ Own(c)' = Holding(c, g)
      BY <1>1, <1>2, <1>3, <2>4 DEF FrameInv, Progress, Outputs, Holding, Delivered
    <2>7. Creation(frame[c])'
      BY <1>1, <2>4 DEF FrameInv, Creation, Delivered, Usable
    <2> QED
      BY <1>1, <2>2, <2>4, <2>5, <2>6, <2>7 DEF Kept, FrameInv, Elsewhere, Usable
  <1>4. ASSUME NEW b \in BOOLEAN, NEW n \in 0 .. MaxItems, NEW r \in 0 .. MaxItems,
               f.api \notin RelocApis => r = 0,
               frame' = [frame EXCEPT ![c].pc = "alloc", ![c].bytes = b,
                                      ![c].insns = n, ![c].relocs = r]
        PROVE  Kept(c)
    <2>1. frame' = [frame EXCEPT ![c] =
              [f EXCEPT !.pc = "alloc", !.bytes = b, !.insns = n, !.relocs = r]]
      BY <1>4
    <2>2. /\ g = [f EXCEPT !.pc = "alloc", !.bytes = b, !.insns = n, !.relocs = r]
          /\ \A d \in Callers \ {c} : frame'[d] = frame[d]
      BY <2>1 DEF CTypeOK
    <2>3. g \in Frames
      BY ZenonT(60), <1>1, <2>2 DEF Frames
    <2>4. /\ g.pc = "alloc" /\ g.status = f.status /\ g.api = f.api /\ g.handle = f.handle
          /\ g.wantErr = f.wantErr /\ g.err = f.err /\ g.main = f.main /\ g.rel = f.rel
      BY <1>1, <2>2 DEF Frames
    <2>5. g.ptrs = f.ptrs /\ g.step = f.step /\ g.relocs = r
      BY <1>1, <2>2 DEF Frames
    <2>6. CTypeOK'
      BY <1>1, <2>1, <2>3 DEF CTypeOK
    <2>7. f.ptrs = {} /\ f.step = 1 /\ f.status # "ok"
      BY <1>1 DEF FrameInv, Progress
    <2>8. Len(Plan(c, g)) \in Nat
      BY <2>3, PlanShape, LenProperties
    <2>9. Progress(c, g)
      <3>1. g.ptrs = {Plan(c, g)[i] : i \in 1 .. g.step - 1}
        BY <2>5, <2>7
      <3>2. g.step \in 1 .. Len(Plan(c, g)) + 1
        BY <2>5, <2>7, <2>8
      <3>3. g.status # "ok" /\ (g.api \notin RelocApis => g.relocs = 0)
        BY <1>4, <2>4, <2>5, <2>7
      <3> QED
        BY <2>4, <3>1, <3>2, <3>3 DEF Progress, Delivered
    <2>10. Outputs(g) /\ Own(c)' = Holding(c, g)
      BY <1>1, <1>2, <2>4, <2>5, <2>7 DEF FrameInv, Outputs, Holding, Delivered, Mine
    <2>11. Creation(frame[c])'
      BY <1>1, <2>4, <2>5, <2>7 DEF FrameInv, Creation, Delivered, Usable
    <2> QED
      BY <1>1, <2>2, <2>4, <2>6, <2>9, <2>10, <2>11 DEF Kept, FrameInv, Elsewhere, Usable
  <1>5. f.api \in AllApis
    BY <1>1 DEF Frames
  <1>6. CASE \E s \in DriverErrors(f.api) : Fail(c, s)
    <2>1. DriverErrors(f.api) \subseteq Statuses \ {"ok", "null_arg"}
      BY DEF DriverErrors, Statuses
    <2> QED
      BY <1>3, <1>6, <2>1
  <1>7. CASE Fail(c, "alloc")
    BY <1>3, <1>7 DEF Statuses
  <1>8. CASE \E b \in IF f.api \in BytesApis THEN BOOLEAN ELSE {FALSE},
                n \in IF f.api \in InsnApis THEN 0 .. MaxItems ELSE {0},
                r \in IF f.api \in RelocApis THEN 0 .. MaxItems ELSE {0} :
                frame' = [frame EXCEPT ![c].pc = "alloc", ![c].bytes = b,
                                       ![c].insns = n, ![c].relocs = r]
    <2>1. PICK b \in IF f.api \in BytesApis THEN BOOLEAN ELSE {FALSE},
               n \in IF f.api \in InsnApis THEN 0 .. MaxItems ELSE {0},
               r \in IF f.api \in RelocApis THEN 0 .. MaxItems ELSE {0} :
               frame' = [frame EXCEPT ![c].pc = "alloc", ![c].bytes = b,
                                      ![c].insns = n, ![c].relocs = r]
      BY <1>8
    <2>2. b \in BOOLEAN
      BY Zenon
    <2>3. n \in 0 .. MaxItems /\ r \in 0 .. MaxItems /\ (f.api \notin RelocApis => r = 0)
      BY CAbiAssumption DEF CAbiAssumption
    <2> QED
      BY <1>4, <2>1, <2>2, <2>3
  <1> QED
    BY <1>6, <1>7, <1>8 DEF Driver

LEMMA MallocStep ==
    ASSUME CTypeOK, ~badFree, NEW c \in Callers, FrameInv(c), Malloc(c)
    PROVE  Kept(c)
  <1> DEFINE f == frame[c]
             g == frame'[c]
             b == Plan(c, f)[f.step]
  <1>0. f \in Frames
    BY DEF CTypeOK
  <1>1. /\ f \in Frames /\ f.pc = "alloc" /\ UNCHANGED badFree /\ heap' = heap \cup {b}
        /\ frame' = [frame EXCEPT ![c] = [f EXCEPT !.step = f.step + 1, !.ptrs = f.ptrs \cup {b}]]
    BY DEF CTypeOK, Malloc, Next_, Advance
  <1>2. f.step \in 1 .. Len(Plan(c, f)) /\ f.ptrs = {Plan(c, f)[i] : i \in 1 .. f.step - 1}
    <2>1. f.step \in Nat /\ f.step <= Len(Plan(c, f))
      BY <1>1 DEF Malloc, Frames
    <2>2. f.step \in 1 .. Len(Plan(c, f)) + 1
      BY <1>1 DEF FrameInv, Progress
    <2> QED
      BY <1>1, <2>1, <2>2 DEF FrameInv, Progress
  <1>3. /\ b \in Blocks
        /\ b[2] # "handle" => b[1] = c
        /\ b[2] = "handle" => b = HandleBlock(f.handle) /\ f.api = "create"
    BY <1>1, <1>2, PlanBlock
  <1>4. /\ g = [f EXCEPT !.step = f.step + 1, !.ptrs = f.ptrs \cup {b}]
        /\ \A d \in Callers \ {c} : frame'[d] = frame[d]
    BY <1>1 DEF CTypeOK
  <1>5. f.step + 1 \in Nat /\ f.ptrs \cup {b} \in SUBSET Blocks
    BY <1>1, <1>3 DEF Frames
  <1>6. g \in Frames
    BY <1>0, <1>4, <1>5 DEF Frames
  <1>7. /\ g.pc = "alloc" /\ g.status = f.status /\ g.api = f.api /\ g.handle = f.handle
        /\ g.wantErr = f.wantErr /\ g.err = f.err /\ g.main = f.main /\ g.rel = f.rel
    BY <1>1, <1>4 DEF Frames
  <1>8. /\ g.ptrs = f.ptrs \cup {b} /\ g.step = f.step + 1 /\ g.relocs = f.relocs
        /\ g.bytes = f.bytes /\ g.insns = f.insns
    BY <1>0, <1>4 DEF Frames
  <1>9. CTypeOK'
    BY <1>1, <1>3, <1>6 DEF CTypeOK
  <1>10. Plan(c, g) = Plan(c, f)
    BY <1>1, <1>6, <1>7, <1>8, PlanDepends
  <1>11. Progress(c, g)
    <2>1. g.step \in 1 .. Len(Plan(c, g)) + 1 /\ 1 .. g.step - 1 = (1 .. f.step - 1) \cup {f.step}
      BY <1>2, <1>8, <1>10
    <2>2. g.ptrs = {Plan(c, g)[i] : i \in 1 .. g.step - 1}
      BY <1>2, <1>8, <1>10, <2>1
    <2> QED
      BY <1>1, <1>7, <1>8, <2>1, <2>2 DEF Progress, Delivered, FrameInv
  <1>12. Own(c)' = Holding(c, g)
    <2>1. Own(c) = Mine(f.ptrs)
      BY <1>1 DEF FrameInv, Holding
    <2>2. Own(c)' = Own(c) \cup {x \in {b} : x[1] = c}
      BY <1>1 DEF Own
    <2>3. b[1] = c <=> b[2] # "handle"
      BY <1>3, BlockFacts
    <2> QED
      BY <1>7, <1>8, <2>1, <2>2, <2>3 DEF Holding, Mine
  <1>13. Outputs(g)
    BY <1>1, <1>7 DEF FrameInv, Outputs, Delivered
  <1>14. Creation(frame[c])'
    <2> SUFFICES ASSUME f.api = "create"
                 PROVE  Usable(f.handle)' /\ g.step = 2
      BY <1>7 DEF Creation, Usable
    <2>1. f.relocs = 0
      BY <1>1 DEF FrameInv, Progress, RelocApis
    <2>2. f.step = 1 /\ b = HandleBlock(f.handle)
      BY <1>1, <1>2, <2>1, CreatePlan
    <2> QED
      BY <1>1, <1>8, <2>2 DEF Usable
  <1>15. Elsewhere(c)
    <2>1. f.api # "create" => (Usable(f.handle)' <=> Usable(f.handle))
      <3>1. f.api # "create" => b # HandleBlock(f.handle)
        BY <1>1, <1>3, BlockFacts DEF Frames
      <3> QED
        BY <1>1, <1>7, <3>1 DEF Usable
    <2> QED
      BY <1>1, <1>3, <1>4, <1>7, <2>1 DEF Elsewhere, Usable
  <1> QED
    BY <1>1, <1>7, <1>9, <1>11, <1>12, <1>13, <1>14, <1>15 DEF Kept, FrameInv

LEMMA MallocFailsStep ==
    ASSUME CTypeOK, ~badFree, NEW c \in Callers, FrameInv(c), MallocFails(c)
    PROVE  Kept(c)
  <1> DEFINE f == frame[c]
             g == frame'[c]
  <1>0. f \in Frames
    BY DEF CTypeOK
  <1>1. /\ f \in Frames /\ f.pc = "alloc" /\ f.step <= Len(Plan(c, f))
        /\ frame' = [frame EXCEPT ![c] = [f EXCEPT !.pc = "message", !.status = "alloc"]]
    BY DEF CTypeOK, MallocFails, Fail
  <1>2. f.step \in 1 .. Len(Plan(c, f)) /\ f.ptrs = {Plan(c, f)[i] : i \in 1 .. f.step - 1}
    <2>1. f.step \in Nat /\ f.step \in 1 .. Len(Plan(c, f)) + 1
      BY <1>1 DEF FrameInv, Progress, Frames
    <2> QED
      BY <1>1, <2>1 DEF FrameInv, Progress
  <1>3. Unwind(c, f, Next_(c)) = Own(c)
    BY <1>1, <1>2, UnwindIsAll DEF FrameInv, Holding, Next_
  <1>4. heap' = heap \ Own(c) /\ ~badFree'
    BY <1>3 DEF MallocFails, Free, Own
  <1>5. /\ g = [f EXCEPT !.pc = "message", !.status = "alloc"]
        /\ \A d \in Callers \ {c} : frame'[d] = frame[d]
    BY <1>1 DEF CTypeOK
  <1>6. g \in Frames
    BY <1>0, <1>5 DEF Frames, Statuses
  <1>7. /\ g.pc = "message" /\ g.status = "alloc" /\ g.api = f.api /\ g.handle = f.handle
        /\ g.wantErr = f.wantErr /\ g.err = f.err /\ g.main = f.main /\ g.rel = f.rel
    BY <1>0, <1>5 DEF Frames
  <1>8. CTypeOK'
    <2>1. heap' \subseteq Blocks
      BY <1>4 DEF CTypeOK
    <2>2. badFree' \in BOOLEAN
      BY DEF MallocFails, Free
    <2> QED
      BY <1>1, <1>6, <2>1, <2>2 DEF CTypeOK
  <1>9. Progress(c, g) /\ Outputs(g)
    BY <1>1, <1>7 DEF FrameInv, Progress, Outputs, Delivered
  <1>10. Own(c)' = Holding(c, g)
    BY <1>1, <1>4, <1>7 DEF Own, Holding, Delivered
  <1>11. Usable(f.handle)' <=> Usable(f.handle)
    BY <1>1, <1>4, BlockFacts DEF Usable, Own, Frames
  <1>12. Creation(frame[c])'
    <2> SUFFICES ASSUME f.api = "create"
                 PROVE  ~ Usable(f.handle)'
      BY <1>7 DEF Creation, Delivered, Usable
    <2>1. f.relocs = 0
      BY <1>1 DEF FrameInv, Progress, RelocApis
    <2>2. f.step = 1
      BY <1>1, <1>2, <2>1, CreatePlan
    <2> QED
      BY <1>1, <1>11, <2>2 DEF FrameInv, Creation, Delivered
  <1>13. Elsewhere(c)
    BY <1>4, <1>5, <1>7, <1>11 DEF Elsewhere, Own, Usable
  <1> QED
    BY <1>4, <1>7, <1>8, <1>9, <1>10, <1>12, <1>13 DEF Kept, FrameInv

LEMMA DeliverStep ==
    ASSUME CTypeOK, ~badFree, NEW c \in Callers, FrameInv(c), Deliver(c)
    PROVE  Kept(c)
  <1> DEFINE f == frame[c]
             g == frame'[c]
             main == IF MainBlocks(c, f) # <<>> THEN "set" ELSE "null"
             rel == IF f.api \notin RelocApis THEN f.rel
                    ELSE IF f.relocs > 0 THEN "set" ELSE "null"
  <1>0. f \in Frames
    BY DEF CTypeOK
  <1>1. /\ f \in Frames /\ f.pc = "alloc" /\ f.step > Len(Plan(c, f))
        /\ UNCHANGED <<heap, badFree>>
        /\ frame' = [frame EXCEPT ![c] =
               [f EXCEPT !.pc = "returned", !.status = "ok", !.main = main, !.rel = rel]]
    BY DEF CTypeOK, Deliver
  <1>2. main \in Pointers /\ rel \in Pointers
    BY <1>1 DEF Pointers, Frames
  <1> HIDE DEF main, rel
  <1>3. /\ g = [f EXCEPT !.pc = "returned", !.status = "ok", !.main = main, !.rel = rel]
        /\ \A d \in Callers \ {c} : frame'[d] = frame[d]
    BY <1>1 DEF CTypeOK
  <1>4. g \in Frames
    BY <1>0, <1>2, <1>3 DEF Frames, Statuses
  <1>5. /\ g.pc = "returned" /\ g.status = "ok" /\ g.api = f.api /\ g.handle = f.handle
        /\ g.wantErr = f.wantErr /\ g.err = f.err
    BY <1>0, <1>3 DEF Frames
  <1>6. /\ g.ptrs = f.ptrs /\ g.relocs = f.relocs /\ g.bytes = f.bytes /\ g.insns = f.insns
    BY <1>1, <1>3 DEF Frames
  <1>7. CTypeOK'
    BY <1>1, <1>4 DEF CTypeOK
  <1>8. Len(Plan(c, f)) \in Nat /\ DOMAIN Plan(c, f) = 1 .. Len(Plan(c, f))
    BY <1>1, PlanShape, LenProperties
  <1>9. f.step - 1 = Len(Plan(c, f)) /\ f.ptrs = {Plan(c, f)[i] : i \in 1 .. f.step - 1}
    BY <1>1, <1>8 DEF FrameInv, Progress
  <1>10. f.ptrs = ToSet(Plan(c, f))
    BY <1>8, <1>9 DEF ToSet
  <1>11. Plan(c, g) = Plan(c, f)
    BY <1>1, <1>4, <1>5, <1>6, PlanDepends
  <1>12. Progress(c, g)
    <2>1. g.main = main /\ g.rel = rel
      BY <1>0, <1>3 DEF Frames
    <2>2. MainBlocks(c, g) = MainBlocks(c, f)
      BY <1>5, <1>6 DEF MainBlocks
    <2>3. f.relocs \in Nat /\ f.rel # "set" /\ (f.api \notin RelocApis => f.relocs = 0)
      BY <1>0, <1>1, CAbiAssumption DEF FrameInv, Outputs, Progress, Frames, CAbiAssumption
    <2>4. /\ g.main = "set" <=> MainBlocks(c, g) # <<>>
          /\ g.rel = "set" <=> g.relocs > 0
      BY <1>6, <2>1, <2>2, <2>3 DEF main, rel
    <2> QED
      BY <1>1, <1>5, <1>6, <1>10, <1>11, <2>4 DEF Progress, FrameInv, Delivered
  <1>13. Outputs(g)
    BY <1>1, <1>5 DEF Outputs, FrameInv
  <1>14. Own(c)' = Holding(c, g)
    BY <1>1, <1>5, <1>6 DEF FrameInv, Holding, Own, Delivered
  <1>15. Creation(frame[c])'
    <2> SUFFICES ASSUME f.api = "create"
                 PROVE  Usable(f.handle)'
      BY <1>5 DEF Creation, Delivered, Usable
    <2>1. f.relocs = 0
      BY <1>1 DEF FrameInv, Progress, RelocApis
    <2>2. f.step = 2
      BY <1>1, <1>9, <2>1, CreatePlan DEF Frames
    <2> QED
      BY <1>1, <2>2 DEF FrameInv, Creation, Usable
  <1>16. Elsewhere(c)
    BY <1>1, <1>3, <1>5 DEF Elsewhere, Usable
  <1> QED
    BY <1>1, <1>5, <1>7, <1>12, <1>13, <1>14, <1>15, <1>16 DEF Kept, FrameInv

LEMMA SetErrStep ==
    ASSUME CTypeOK, ~badFree, NEW c \in Callers, FrameInv(c), SetErr(c)
    PROVE  Kept(c)
  <1> DEFINE f == frame[c]
             g == frame'[c]
             e == Block(c, "err", 0)
  <1>1. f \in Frames /\ f.pc = "message" /\ f.status # "ok" /\ UNCHANGED badFree
    BY DEF CTypeOK, SetErr, FrameInv, Progress
  <1>2. Own(c) = {} /\ f.err # "set"
    BY <1>1 DEF FrameInv, Holding, Delivered, Outputs
  <1>3. \E x \in {"set", "null", f.err} :
          /\ frame' = [frame EXCEPT ![c] = [f EXCEPT !.pc = "returned", !.err = x]]
          /\ x = "set" => f.wantErr
          /\ heap' = IF x = "set" THEN heap \cup {e} ELSE heap
    <2>1. CASE f.wantErr /\ heap' = heap \cup {e}
               /\ frame' = [frame EXCEPT ![c].pc = "returned", ![c].err = "set"]
      BY <2>1
    <2>2. CASE f.wantErr /\ heap' = heap
               /\ frame' = [frame EXCEPT ![c].pc = "returned", ![c].err = "null"]
      BY <2>2
    <2>3. CASE ~ f.wantErr /\ heap' = heap /\ frame' = [frame EXCEPT ![c].pc = "returned"]
      <3>1. [f EXCEPT !.pc = "returned"] = [f EXCEPT !.pc = "returned", !.err = f.err]
        BY <1>1 DEF Frames
      <3>2. frame' = [frame EXCEPT ![c] = [f EXCEPT !.pc = "returned", !.err = f.err]]
        BY <2>3, <3>1
      <3> QED
        BY <1>2, <2>3, <3>2
    <2> QED
      BY <2>1, <2>2, <2>3 DEF SetErr
  <1>4. PICK x \in {"set", "null", f.err} :
          /\ frame' = [frame EXCEPT ![c] = [f EXCEPT !.pc = "returned", !.err = x]]
          /\ x = "set" => f.wantErr
          /\ heap' = IF x = "set" THEN heap \cup {e} ELSE heap
    BY <1>3
  <1>5. x \in Pointers
    BY <1>1 DEF Pointers, Frames
  <1>6. /\ g = [f EXCEPT !.pc = "returned", !.err = x]
        /\ \A d \in Callers \ {c} : frame'[d] = frame[d]
    BY <1>4 DEF CTypeOK
  <1>7. g \in Frames
    BY <1>1, <1>5, <1>6 DEF Frames
  <1>8. /\ g.pc = "returned" /\ g.status = f.status /\ g.api = f.api /\ g.handle = f.handle
        /\ g.wantErr = f.wantErr /\ g.err = x /\ g.main = f.main /\ g.rel = f.rel
    BY <1>1, <1>6 DEF Frames
  <1>9. CTypeOK'
    BY <1>1, <1>4, <1>7, BlockFacts DEF CTypeOK
  <1>10. Progress(c, g) /\ Outputs(g)
    BY <1>1, <1>4, <1>8 DEF FrameInv, Progress, Outputs, Delivered
  <1>11. Own(c)' = Holding(c, g)
    <2>1. CASE x = "set"
      BY <1>1, <1>2, <1>4, <1>8, <2>1, BlockFacts DEF Own, Holding, Delivered
    <2>2. CASE x # "set"
      BY <1>1, <1>2, <1>4, <1>8, <2>2 DEF Own, Holding, Delivered
    <2> QED
      BY <2>1, <2>2
  <1>12. Usable(f.handle)' <=> Usable(f.handle)
    BY <1>1, <1>4, BlockFacts DEF Usable, Frames
  <1>13. Creation(frame[c])'
    BY <1>1, <1>8, <1>12 DEF FrameInv, Creation, Delivered, Usable
  <1>14. Elsewhere(c)
    BY <1>4, <1>6, <1>8, <1>12, BlockFacts DEF Elsewhere, Usable
  <1> QED
    BY <1>1, <1>8, <1>9, <1>10, <1>11, <1>13, <1>14 DEF Kept, FrameInv

LEMMA CallStepKeeps ==
    ASSUME CTypeOK, ~badFree, NEW c \in Callers, FrameInv(c), CallStep(c)
    PROVE  Kept(c)
  BY DriverStep, MallocStep, MallocFailsStep, DeliverStep, SetErrStep DEF CallStep

(***************************************************************************)
(* The other callers are not disturbed.                                    *)
(***************************************************************************)
LEMMA Undisturbed ==
    ASSUME NEW d \in Callers, FrameInv(d), frame'[d] = frame[d], Own(d)' = Own(d),
           frame[d].api = "create" /\ frame[d].pc # "idle" =>
               (Usable(frame[d].handle)' <=> Usable(frame[d].handle))
    PROVE  FrameInv(d)'
  <1>1. Own(d)' = Holding(d, frame[d])
    BY DEF FrameInv
  <1>2. Creation(frame[d])'
    BY DEF FrameInv, Creation, Usable
  <1> QED
    BY <1>1, <1>2 DEF FrameInv

LEMMA OthersKept ==
    ASSUME CInv, NEW c \in Callers, frame[c].pc # "idle", Kept(c)
    PROVE  (\A d \in Callers : FrameInv(d)') /\ OneCreator'
  <1>1. ASSUME NEW d \in Callers \ {c}
        PROVE  FrameInv(d)'
    <2>1. frame[d] \in Frames /\ frame[c] \in Frames /\ heap \subseteq Blocks /\ heap' \subseteq Blocks
      BY DEF CInv, CTypeOK, Kept
    <2>2. frame'[d] = frame[d]
      BY DEF Kept, Elsewhere
    <2>3. Own(d)' = Own(d)
      <3>1. \A b \in Blocks : b[1] = d => b # HandleBlock(frame[c].handle)
        BY <2>1, BlockFacts DEF Frames
      <3> QED
        BY <2>1, <3>1 DEF Own, Kept, Elsewhere
    <2>4. ASSUME frame[d].api = "create", frame[d].pc # "idle"
          PROVE  Usable(frame[d].handle)' <=> Usable(frame[d].handle)
      <3>1. frame[d].handle \in Handles /\ frame[c].handle \in Handles
        BY <2>1 DEF Frames
      <3>2. CASE frame[d].handle = frame[c].handle
        <4>1. frame[c].api # "create"
          BY <2>4, <3>2 DEF CInv, OneCreator
        <4> QED
          BY <2>2, <3>2, <4>1 DEF Kept, Elsewhere, Usable
      <3>3. CASE frame[d].handle # frame[c].handle
        <4>1. HandleBlock(frame[d].handle) # HandleBlock(frame[c].handle)
          BY <3>1, <3>3 DEF HandleBlock, Block
        <4> QED
          BY <2>2, <3>1, <4>1, BlockFacts DEF Kept, Elsewhere, Usable
      <3> QED
        BY <3>2, <3>3
    <2> QED
      BY <2>2, <2>3, <2>4, Undisturbed DEF CInv
  <1>2. OneCreator'
    BY DEF CInv, OneCreator, Kept, Elsewhere
  <1> QED
    BY <1>1, <1>2 DEF Kept

(***************************************************************************)
(* The C program.                                                          *)
(***************************************************************************)
LEMMA BeginKeeps ==
    ASSUME CInv, NEW c \in Callers, Begin(c)
    PROVE  CInv'
  <1>1. PICK api \in Apis, h \in Handles, w \in BOOLEAN :
          ~ Creating(h) /\ (Usable(h) <=> api # "create") /\ Enter(c, api, h, w)
    BY DEF Begin
  <1>2. api \in AllApis
    BY CAbiAssumption DEF CAbiAssumption
  <1>3. /\ CTypeOK' /\ FrameInv(c)' /\ UNCHANGED <<heap, badFree>>
        /\ \A d \in Callers \ {c} : frame'[d] = frame[d]
        /\ frame'[c].api = api /\ frame'[c].handle = h /\ frame'[c].pc # "idle"
    BY <1>1, <1>2, EnterStep DEF CInv
  <1>4. ASSUME NEW d \in Callers \ {c}
        PROVE  FrameInv(d)'
    BY <1>3, Undisturbed DEF CInv, Own, Usable
  <1>5. OneCreator'
    BY <1>1, <1>3 DEF CInv, OneCreator, Creating
  <1> QED
    BY <1>3, <1>4, <1>5 DEF CInv

LEMMA HandedIsOwn ==
    ASSUME NEW c \in Callers, frame[c] \in Frames, FrameInv(c), frame[c].pc = "returned"
    PROVE  Handed(c) = Own(c)
  <1>1. CASE frame[c].status = "ok"
    <2>1. FreeMain(c, frame[c]) \cup FreeRelocs(c, frame[c].ptrs, frame[c].relocs)
            = Mine(frame[c].ptrs)
      BY <1>1, HandedIsAll DEF FrameInv, Progress, Delivered
    <2>2. ~ (frame[c].wantErr /\ frame[c].err = "set")
      BY <1>1 DEF FrameInv, Outputs
    <2>3. Own(c) = Mine(frame[c].ptrs)
      BY <1>1 DEF FrameInv, Holding, Delivered
    <2> QED
      BY <1>1, <2>1, <2>2, <2>3 DEF Handed
  <1>2. CASE frame[c].status # "ok"
    <2>1. Own(c) = IF frame[c].err = "set" THEN {Block(c, "err", 0)} ELSE {}
      BY <1>2 DEF FrameInv, Holding, Delivered
    <2>2. frame[c].err = "set" => frame[c].wantErr
      BY DEF FrameInv, Outputs
    <2> QED
      BY <1>2, <2>1, <2>2 DEF Handed
  <1> QED
    BY <1>1, <1>2

LEMMA EndKeeps ==
    ASSUME CInv, NEW c \in Callers, End(c)
    PROVE  CInv'
  <1> DEFINE f == frame[c]
             g == frame'[c]
  <1>0. f \in Frames
    BY DEF CInv, CTypeOK
  <1>1. f.pc = "returned"
        /\ frame' = [frame EXCEPT ![c] = [Fresh(f) EXCEPT !.main = "stale", !.rel = "stale",
                                                         !.err = "stale"]]
    BY DEF End
  <1>2. Handed(c) = Own(c)
    BY <1>0, <1>1, HandedIsOwn DEF CInv
  <1>3. heap' = heap \ Own(c) /\ ~badFree'
    BY <1>2 DEF End, Free, Own, CInv
  <1>4. /\ g = [Fresh(f) EXCEPT !.main = "stale", !.rel = "stale", !.err = "stale"]
        /\ \A d \in Callers \ {c} : frame'[d] = frame[d]
    BY <1>1 DEF CInv, CTypeOK
  <1>5. g \in Frames
    <2>1. Fresh(f) \in Frames
      BY <1>0, FreshFrame
    <2> QED
      BY <1>4, <2>1 DEF Frames, Pointers
  <1>6. g.pc = "idle" /\ g.rel = "stale" /\ g.err = "stale"
    BY <1>0, <1>4, FreshFrame DEF Frames
  <1>7. CTypeOK'
    <2>1. heap' \subseteq Blocks
      BY <1>3 DEF CInv, CTypeOK
    <2>2. badFree' \in BOOLEAN
      BY DEF End, Free
    <2> QED
      BY <1>1, <1>4, <1>5, <2>1, <2>2 DEF CInv, CTypeOK
  <1>8. FrameInv(c)'
    <2>1. Own(c)' = {}
      BY <1>3 DEF Own
    <2> QED
      BY <1>6, <2>1 DEF FrameInv, Progress, Holding, Outputs, Creation, Delivered
  <1>9. ASSUME NEW d \in Callers \ {c}
        PROVE  FrameInv(d)'
    <2>1. frame[d].handle \in Handles
      BY DEF CInv, CTypeOK, Frames
    <2>2. Own(d)' = Own(d) /\ (Usable(frame[d].handle)' <=> Usable(frame[d].handle))
      BY <1>3, <1>4, <2>1, BlockFacts DEF Own, Usable
    <2> QED
      BY <1>4, <2>2, Undisturbed DEF CInv
  <1>10. OneCreator'
    <2>1. frame'[c].pc = "idle" /\ \A d \in Callers \ {c} : frame'[d] = frame[d]
      BY <1>4, <1>6
    <2> QED
      BY <2>1 DEF CInv, OneCreator
  <1> QED
    BY <1>3, <1>7, <1>8, <1>9, <1>10 DEF CInv

LEMMA DestroyKeeps ==
    ASSUME CInv, NEW c \in Callers, NEW h \in Handles, Destroy(c, h)
    PROVE  CInv'
  <1>1. /\ heap' = heap \ {HandleBlock(h)} /\ ~badFree' /\ frame' = frame
        /\ badFree' \in BOOLEAN /\ ~ Creating(h)
    BY DEF Destroy, Free, Usable, CInv
  <1>2. ASSUME NEW d \in Callers
        PROVE  FrameInv(d)'
    <2>1. frame[d].handle \in Handles
      BY DEF CInv, CTypeOK, Frames
    <2>2. Own(d)' = Own(d)
      BY <1>1, BlockFacts DEF Own
    <2>3. ASSUME frame[d].api = "create", frame[d].pc # "idle"
          PROVE  Usable(frame[d].handle)' <=> Usable(frame[d].handle)
      <3>1. frame[d].handle # h
        BY <1>1, <2>3 DEF Creating
      <3>2. HandleBlock(frame[d].handle) # HandleBlock(h)
        BY <3>1 DEF HandleBlock, Block
      <3> QED
        BY <1>1, <3>2 DEF Usable
    <2> QED
      BY <1>1, <2>2, <2>3, Undisturbed DEF CInv
  <1>3. OneCreator'
    BY <1>1 DEF CInv, OneCreator
  <1>4. CTypeOK'
    BY <1>1 DEF CInv, CTypeOK
  <1> QED
    BY <1>1, <1>2, <1>3, <1>4 DEF CInv

LEMMA CInitInv == CInit => CInv
  <1> SUFFICES ASSUME CInit PROVE CInv
    OBVIOUS
  <1>1. \A c \in Callers :
          /\ frame[c].pc = "idle" /\ frame[c].rel = "stale" /\ frame[c].err = "stale"
          /\ frame[c] \in Frames
    <2> TAKE c \in Callers
    <2>1. frame[c] \in [pc : {"idle"}, api : {"create"}, handle : Handles,
                        wantErr : {TRUE}, bytes : {FALSE}, insns : {0}, relocs : {0},
                        step : {1}, ptrs : {{}}, status : {"none"},
                        main : {"stale"}, rel : {"stale"}, err : {"stale"}]
      BY DEF CInit
    <2>2. frame[c].pc = "idle" /\ frame[c].rel = "stale" /\ frame[c].err = "stale"
      BY <2>1
    <2>3. 0 \in 0 .. MaxItems /\ "create" \in AllApis
      BY CAbiAssumption DEF CAbiAssumption, AllApis
    <2> DEFINE Initial == [pc : {"idle"}, api : {"create"}, handle : Handles,
                             wantErr : {TRUE}, bytes : {FALSE}, insns : {0}, relocs : {0},
                             step : {1}, ptrs : {{}}, status : {"none"},
                             main : {"stale"}, rel : {"stale"}, err : {"stale"}]
    <2>4. ASSUME NEW f \in Initial PROVE f \in Frames
      <3>1. f.bytes = FALSE /\ f.wantErr = TRUE
        BY Zenon
      <3>2. f.bytes \in BOOLEAN /\ f.wantErr \in BOOLEAN
        BY <3>1, Zenon
      <3>3. f.ptrs \in SUBSET Blocks
        OBVIOUS
      <3>4. /\ f.insns \in 0 .. MaxItems /\ f.relocs \in 0 .. MaxItems
            /\ f.api \in AllApis /\ f.handle \in Handles /\ f.step \in Nat
        BY <2>3
      <3>5. /\ f.pc \in {"idle", "driver", "alloc", "message", "returned"}
            /\ f.status \in Statuses /\ f.main \in Pointers
            /\ f.rel \in Pointers /\ f.err \in Pointers
        BY DEF Statuses, Pointers
      <3>6. f = [pc |-> f.pc, api |-> f.api, handle |-> f.handle,
                 wantErr |-> f.wantErr, bytes |-> f.bytes, insns |-> f.insns,
                 relocs |-> f.relocs, step |-> f.step, ptrs |-> f.ptrs,
                 status |-> f.status, main |-> f.main, rel |-> f.rel, err |-> f.err]
        OBVIOUS
      <3> HIDE DEF Initial
      <3> QED
        BY ONLY <3>2, <3>3, <3>4, <3>5, <3>6 DEF Frames
    <2> QED
      BY <2>1, <2>2, <2>4
  <1>2. CTypeOK
    BY <1>1 DEF CInit, CTypeOK
  <1>3. \A c \in Callers : FrameInv(c)
    BY <1>1 DEF CInit, FrameInv, Progress, Own, Holding, Outputs, Creation, Delivered
  <1>4. OneCreator
    BY <1>1 DEF OneCreator
  <1> QED
    BY <1>2, <1>3, <1>4 DEF CInv, CInit

LEMMA CNextInv == CInv /\ [CNext]_cvars => CInv'
  <1> SUFFICES ASSUME CInv, [CNext]_cvars PROVE CInv'
    OBVIOUS
  <1>1. ASSUME NEW c \in Callers, CallStep(c)
        PROVE  CInv'
    <2>1. Kept(c)
      BY <1>1, CallStepKeeps DEF CInv
    <2>2. frame[c].pc # "idle"
      BY <1>1 DEF CallStep, Driver, Malloc, MallocFails, Deliver, SetErr
    <2> QED
      BY <2>1, <2>2, OthersKept DEF CInv, Kept
  <1>2. CASE UNCHANGED cvars
    BY <1>2 DEF cvars, CInv, CTypeOK, FrameInv, OneCreator, Own, Creation, Usable
  <1> QED
    BY <1>1, <1>2, BeginKeeps, EndKeeps, DestroyKeeps DEF CNext

LEMMA CInvariant == CSpec => []CInv
  <1> QED
    BY CInitInv, CNextInv, PTL DEF CSpec

(***************************************************************************)
(* For results of any size and any number of callers: no call and no       *)
(* caller that follows the header frees a block that is not allocated.     *)
(***************************************************************************)
THEOREM FreesSound == CSpec => []FreesAreSound
  <1>1. CInv => FreesAreSound
    BY DEF CInv, FreesAreSound
  <1> QED
    BY <1>1, CInvariant, PTL

(***************************************************************************)
(* A successful call leaves exactly the blocks its outputs lead to and a   *)
(* failed one at most its message, wherever it failed.                     *)
(***************************************************************************)
THEOREM OutputsAllOrNothing == CSpec => []AllOrNothing
  <1>1. CInv => AllOrNothing
    <2> SUFFICES ASSUME CInv, NEW c \in Callers, frame[c].pc = "returned"
                 PROVE  IF frame[c].status = "ok"
                        THEN /\ Own(c) = {b \in ToSet(Plan(c, frame[c])) : b[1] = c}
                             /\ frame[c].wantErr => frame[c].err = "null"
                             /\ frame[c].api = "create" => Usable(frame[c].handle)
                        ELSE /\ Own(c) = IF frame[c].err = "set" THEN {Block(c, "err", 0)} ELSE {}
                             /\ frame[c].api = "create" => ~Usable(frame[c].handle)
                             /\ frame[c].status # "null_arg" =>
                                    frame[c].main = "null" /\ frame[c].rel # "set"
      BY DEF AllOrNothing
    <2>1. FrameInv(c) /\ frame[c] \in Frames
      BY DEF CInv, CTypeOK
    <2>2. CASE frame[c].status = "ok"
      <3>1. frame[c].ptrs = ToSet(Plan(c, frame[c])) /\ Own(c) = Mine(frame[c].ptrs)
        BY <2>1, <2>2 DEF FrameInv, Progress, Delivered, Holding
      <3>2. \A b \in frame[c].ptrs : b[2] # "handle" <=> b[1] = c
        <4>1. DOMAIN Plan(c, frame[c]) = 1 .. Len(Plan(c, frame[c]))
          BY <2>1, PlanShape, LenProperties
        <4> QED
          BY <2>1, <3>1, <4>1, PlanBlock, BlockFacts DEF ToSet
      <3> QED
        BY <2>1, <2>2, <3>1, <3>2 DEF FrameInv, Mine, Outputs, Creation, Delivered
    <2>3. CASE frame[c].status # "ok"
      BY <2>1, <2>3 DEF FrameInv, Holding, Outputs, Creation, Delivered
    <2> QED
      BY <2>2, <2>3
  <1> QED
    BY <1>1, CInvariant, PTL

(***************************************************************************)
(* Between two calls a caller that frees what the header says owns         *)
(* nothing.                                                                *)
(***************************************************************************)
THEOREM NoBlockLeaks == CSpec => []NothingLeaks
  <1>1. CInv => NothingLeaks
    BY DEF CInv, NothingLeaks, FrameInv, Holding, Delivered, Outputs
  <1> QED
    BY <1>1, CInvariant, PTL

-----------------------------------------------------------------------------
(***************************************************************************)
(* The bindings, for any number of threads and instances: one thread in    *)
(* gas at a time, on an instance that exists, and no block left behind.    *)
(***************************************************************************)

(***************************************************************************)
(* The inductive invariant.                                                *)
(***************************************************************************)
Positions == {"idle", "lock", "locked", "call", "take_err", "unpack",
              "lock_free", "free", "relocs", "unlock"}
Later == {"take_err", "unpack", "lock_free", "free", "relocs"}

Types ==
    /\ CTypeOK /\ language \in Languages /\ lock \in Callers \cup {NoOne}
    /\ pc \in [Callers -> Positions]
    /\ object \in [Handles -> {"unborn", "live", "cyclic", "dying"}]
    /\ dying \in [Callers -> Handles \cup {NoOne}]
    /\ dpc \in [Callers -> {"none", "lock", "destroy", "unlock"}]

(* Where a method, and where a finaliser, has the lock.                    *)
Holds(t) ==
    \/ pc[t] \in {"locked", "call", "unlock"}
    \/ /\ pc[t] \in Later \ {"lock_free"}
       /\ ~Python \/ Api(t) = "create" \/ (pc[t] = "free" /\ Plain(t))
Finalises(t) == dpc[t] \in {"destroy", "unlock"}

LockInv(t) ==
    /\ lock = t <=> Holds(t) \/ Finalises(t)
    /\ ~ (Holds(t) /\ Finalises(t))

(* A thread's C frame and what it owns in the C heap.                      *)
Stage(t) ==
    LET f == frame[t] IN
    /\ Progress(t, f) /\ Outputs(f) /\ Creation(f)
    /\ Own(t) = IF pc[t] = "relocs" THEN FreeRelocs(t, f.ptrs, f.relocs) ELSE Holding(t, f)
    /\ f.pc = "idle" <=> pc[t] \in {"idle", "lock", "locked", "unlock"}
    /\ pc[t] \in Later => f.pc = "returned"
    /\ pc[t] \in Later \ {"take_err"} => f.status = "ok" /\ f.api # "create"
    /\ f.pc # "idle" => f.wantErr
    /\ pc[t] = "lock_free" => Python /\ Plain(t)

(* The instance a method works on is alive, or nobody else's.              *)
User(t) ==
    LET h == frame[t].handle IN
    pc[t] # "idle" =>
        IF Api(t) # "create" THEN object[h] = "live"
        ELSE /\ object[h] = "unborn" \/ (pc[t] = "unlock" /\ object[h] = "live")
             /\ \A u \in Callers \ {t} : ~ Uses(u, h)

(* Each dying instance has one finaliser.                                  *)
Kills(t) == dpc[t] \in {"lock", "destroy"}
Finaliser(t) ==
    Kills(t) => /\ dying[t] \in Handles /\ object[dying[t]] = "dying"
                /\ \A u \in Callers \ {t} : Kills(u) => dying[u] # dying[t]

(* The C handle behind an instance.                                        *)
Makes(t, h) == pc[t] \in {"call", "take_err"} /\ frame[t].handle = h
HandleInv(h) ==
    /\ object[h] # "unborn" => Usable(h)
    /\ object[h] = "unborn" /\ (\A t \in Callers : ~ Makes(t, h)) => ~ Usable(h)

Threads(t) == LockInv(t) /\ Stage(t) /\ User(t) /\ Finaliser(t)
BInv == Types /\ ~badFree /\ (\A t \in Callers : Threads(t)) /\ (\A h \in Handles : HandleInv(h))

(***************************************************************************)
(* Steps that touch neither a frame nor the C heap.                        *)
(***************************************************************************)
LEMMA StageSame ==
    ASSUME BInv, NEW t \in Callers, UNCHANGED <<language, cvars>>, pc'[t] = pc[t]
    PROVE  Stage(t)'
  BY DEF BInv, Threads, Stage, cvars, Creation, Usable, Own, Python, Plain, Api

LEMMA LockTaken ==
    ASSUME BInv, NEW t \in Callers, lock = NoOne, lock' = t,
           \A u \in Callers \ {t} : (Holds(u)' <=> Holds(u)) /\ dpc'[u] = dpc[u],
           Holds(t)' \/ Finalises(t)', ~ (Holds(t)' /\ Finalises(t)')
    PROVE  \A u \in Callers : LockInv(u)'
  <1>1. ASSUME NEW u \in Callers \ {t} PROVE LockInv(u)'
    <2>1. lock # u /\ lock' # u
      BY BindingAssumption DEF BindingAssumption
    <2> QED
      BY <2>1 DEF BInv, Threads, LockInv, Finalises
  <1> QED
    BY <1>1 DEF LockInv

LEMMA LockGiven ==
    ASSUME BInv, NEW t \in Callers, lock = t, lock' = NoOne,
           \A u \in Callers \ {t} : (Holds(u)' <=> Holds(u)) /\ dpc'[u] = dpc[u],
           ~ Holds(t)', ~ Finalises(t)'
    PROVE  \A u \in Callers : LockInv(u)'
  <1>1. ASSUME NEW u \in Callers \ {t} PROVE LockInv(u)'
    <2>1. lock # u /\ lock' # u
      BY BindingAssumption DEF BindingAssumption
    <2> QED
      BY <2>1 DEF BInv, Threads, LockInv, Finalises
  <1>2. lock' # t
    BY BindingAssumption DEF BindingAssumption
  <1> QED
    BY <1>1, <1>2 DEF LockInv

LEMMA LockStays ==
    ASSUME BInv, lock' = lock,
           \A u \in Callers : (Holds(u)' <=> Holds(u)) /\ (Finalises(u)' <=> Finalises(u))
    PROVE  \A u \in Callers : LockInv(u)'
  BY DEF BInv, Threads, LockInv

LEMMA UsersSame ==
    ASSUME BInv, NEW t \in Callers, UNCHANGED object,
           \A u \in Callers : frame'[u].handle = frame[u].handle /\ frame'[u].api = frame[u].api,
           \A u \in Callers \ {t} : pc'[u] = pc[u],
           pc'[t] = "idle" \/ (pc[t] # "idle" /\ (pc[t] # "unlock" \/ pc'[t] = "unlock"))
    PROVE  \A u \in Callers : User(u)'
  <1> SUFFICES ASSUME NEW u \in Callers, pc'[u] # "idle"
               PROVE  User(u)'
    BY DEF User
  <1>1. User(u) /\ pc[u] # "idle" /\ (pc[u] = "unlock" => pc'[u] = "unlock")
    BY DEF BInv, Threads
  <1>2. \A v \in Callers : Uses(v, frame[u].handle)' => Uses(v, frame[u].handle)
    BY DEF Uses
  <1> QED
    BY <1>1, <1>2 DEF User, Api, Uses

LEMMA HandlesSame ==
    ASSUME BInv, UNCHANGED object, \A h \in Handles : Usable(h)' <=> Usable(h),
           \A t \in Callers : frame'[t].handle = frame[t].handle,
           \A t \in Callers, h \in Handles :
               object[h] = "unborn" /\ Usable(h) => (Makes(t, h) => Makes(t, h)')
    PROVE  \A h \in Handles : HandleInv(h)'
  <1> TAKE h \in Handles
  <1> QED
    BY DEF BInv, HandleInv, Makes

LEMMA FinalisersSame ==
    ASSUME BInv, UNCHANGED <<dying, dpc>>,
           \A h \in Handles : object[h] = "dying" => object'[h] = "dying"
    PROVE  \A t \in Callers : Finaliser(t)'
  BY DEF BInv, Threads, Finaliser, Kills


(***************************************************************************)
(* The steps of a method that only take, keep or give back the lock.       *)
(***************************************************************************)
LEMMA AcquireKeeps ==
    ASSUME BInv, NEW t \in Callers, Acquire(t)
    PROVE  BInv'
  <1>1. /\ pc[t] \in {"lock", "lock_free"} /\ dpc[t] = "none" /\ lock = NoOne /\ lock' = t
        /\ pc' = [pc EXCEPT ![t] = IF pc[t] = "lock" THEN "locked" ELSE "free"]
        /\ UNCHANGED <<language, cvars, object, dying, dpc>>
    BY DEF Acquire, LockFree, GoTo, Running
  <1>2. /\ pc'[t] = IF pc[t] = "lock" THEN "locked" ELSE "free"
        /\ \A u \in Callers \ {t} : pc'[u] = pc[u]
    BY <1>1 DEF BInv, Types
  <1>3. Types'
    BY <1>1 DEF BInv, Types, CTypeOK, cvars, Positions
  <1>4. \A u \in Callers : LockInv(u)'
    <2>1. Holds(t)' /\ ~ Finalises(t)'
      BY <1>1, <1>2 DEF Holds, Finalises, BInv, Threads, Stage, Later, cvars, Plain, Api, Python
    <2>2. \A u \in Callers \ {t} : (Holds(u)' <=> Holds(u)) /\ dpc'[u] = dpc[u]
      BY <1>1, <1>2 DEF Holds, cvars, Plain, Api, Python
    <2> QED
      BY <1>1, <2>1, <2>2, LockTaken
  <1>5. \A u \in Callers : Stage(u)'
    <2>1. Stage(t)'
      BY <1>1, <1>2 DEF BInv, Threads, Stage, cvars, Creation, Usable, Own, Later
    <2> QED
      BY <1>1, <1>2, <2>1, StageSame
  <1>6. \A u \in Callers : User(u)'
    BY <1>1, <1>2, UsersSame DEF cvars
  <1>7. \A u \in Callers : Finaliser(u)'
    BY <1>1, FinalisersSame
  <1>8. \A h \in Handles : HandleInv(h)'
    BY <1>1, <1>2, HandlesSame DEF cvars, Makes, Usable
  <1> QED
    BY <1>1, <1>3, <1>4, <1>5, <1>6, <1>7, <1>8 DEF BInv, Threads, cvars

LEMMA LeaveCKeeps ==
    ASSUME BInv, NEW t \in Callers, LeaveC(t)
    PROVE  BInv'
  <1>1. /\ pc[t] = "call" /\ dpc[t] = "none" /\ frame[t].pc = "returned"
        /\ lock' = IF Python /\ Api(t) # "create" THEN NoOne ELSE lock
        /\ pc' = [pc EXCEPT ![t] = "take_err"]
        /\ UNCHANGED <<language, cvars, object, dying, dpc>>
    BY DEF LeaveC, GoTo, Running
  <1>2. pc'[t] = "take_err" /\ \A u \in Callers \ {t} : pc'[u] = pc[u]
    BY <1>1 DEF BInv, Types
  <1>3. Types'
    BY <1>1 DEF BInv, Types, CTypeOK, cvars, Positions
  <1>4. \A u \in Callers : LockInv(u)'
    <2>1. Holds(t) /\ lock = t /\ ~ Finalises(t)'
      BY <1>1 DEF Holds, Finalises, BInv, Threads, LockInv
    <2>2. \A u \in Callers \ {t} : (Holds(u)' <=> Holds(u)) /\ dpc'[u] = dpc[u]
      BY <1>1, <1>2 DEF Holds, cvars, Plain, Api, Python
    <2>3. Holds(t)' <=> ~ (Python /\ Api(t) # "create")
      BY <1>1, <1>2 DEF Holds, cvars, Plain, Api, Python, Later
    <2>4. CASE Python /\ Api(t) # "create"
      BY <1>1, <2>1, <2>2, <2>3, <2>4, LockGiven
    <2>5. CASE ~ (Python /\ Api(t) # "create")
      <3>1. \A u \in Callers : Finalises(u)' <=> Finalises(u)
        BY <1>1 DEF Finalises
      <3> QED
        BY <1>1, <2>1, <2>2, <2>3, <2>5, <3>1, LockStays
    <2> QED
      BY <2>4, <2>5
  <1>5. \A u \in Callers : Stage(u)'
    <2>1. Stage(t)'
      BY <1>1, <1>2 DEF BInv, Threads, Stage, cvars, Creation, Usable, Own, Later
    <2> QED
      BY <1>1, <1>2, <2>1, StageSame
  <1>6. \A u \in Callers : User(u)'
    BY <1>1, <1>2, UsersSame DEF cvars
  <1>7. \A u \in Callers : Finaliser(u)'
    BY <1>1, FinalisersSame
  <1>8. \A h \in Handles : HandleInv(h)'
    BY <1>1, <1>2, HandlesSame DEF cvars, Makes, Usable
  <1> QED
    BY <1>1, <1>3, <1>4, <1>5, <1>6, <1>7, <1>8 DEF BInv, Threads, cvars

LEMMA ReleaseKeeps ==
    ASSUME BInv, NEW t \in Callers, Release(t)
    PROVE  BInv'
  <1>1. /\ pc[t] = "unlock" /\ dpc[t] = "none" /\ lock' = NoOne
        /\ pc' = [pc EXCEPT ![t] = "idle"]
        /\ UNCHANGED <<language, cvars, object, dying, dpc>>
    BY DEF Release, GoTo, Running
  <1>2. pc'[t] = "idle" /\ \A u \in Callers \ {t} : pc'[u] = pc[u]
    BY <1>1 DEF BInv, Types
  <1>3. Types'
    BY <1>1 DEF BInv, Types, CTypeOK, cvars, Positions
  <1>4. \A u \in Callers : LockInv(u)'
    <2>1. lock = t /\ ~ Finalises(t)' /\ ~ Holds(t)'
      BY <1>1, <1>2 DEF Holds, Finalises, BInv, Threads, LockInv, Later
    <2>2. \A u \in Callers \ {t} : (Holds(u)' <=> Holds(u)) /\ dpc'[u] = dpc[u]
      BY <1>1, <1>2 DEF Holds, cvars, Plain, Api, Python
    <2> QED
      BY <1>1, <2>1, <2>2, LockGiven
  <1>5. \A u \in Callers : Stage(u)'
    <2>1. Stage(t)'
      BY <1>1, <1>2 DEF BInv, Threads, Stage, cvars, Creation, Usable, Own, Later
    <2> QED
      BY <1>1, <1>2, <2>1, StageSame
  <1>6. \A u \in Callers : User(u)'
    BY <1>1, <1>2, UsersSame DEF cvars
  <1>7. \A u \in Callers : Finaliser(u)'
    BY <1>1, FinalisersSame
  <1>8. \A h \in Handles : HandleInv(h)'
    BY <1>1, <1>2, HandlesSame DEF cvars, Makes, Usable
  <1> QED
    BY <1>1, <1>3, <1>4, <1>5, <1>6, <1>7, <1>8 DEF BInv, Threads, cvars


(***************************************************************************)
(* The finaliser's steps around the lock.                                  *)
(***************************************************************************)
LEMMA DelAcquireKeeps ==
    ASSUME BInv, NEW t \in Callers, DelAcquire(t)
    PROVE  BInv'
  <1>1. /\ dpc[t] = "lock" /\ lock = NoOne /\ lock' = t
        /\ dpc' = [dpc EXCEPT ![t] = "destroy"]
        /\ UNCHANGED <<language, cvars, pc, object, dying>>
    BY DEF DelAcquire, LockFree
  <1>2. dpc'[t] = "destroy" /\ \A u \in Callers \ {t} : dpc'[u] = dpc[u]
    BY <1>1 DEF BInv, Types
  <1>3. Types'
    BY <1>1 DEF BInv, Types, CTypeOK, cvars
  <1>4. \A u \in Callers : LockInv(u)'
    <2>1. ~ Holds(t)
      BY <1>1, BindingAssumption DEF BInv, Threads, LockInv, BindingAssumption
    <2>2. \A u \in Callers : Holds(u)' <=> Holds(u)
      BY <1>1 DEF Holds, cvars, Plain, Api, Python
    <2>3. Finalises(t)'
      BY <1>2 DEF Finalises
    <2> QED
      BY <1>1, <1>2, <2>1, <2>2, <2>3, LockTaken
  <1>5. \A u \in Callers : Stage(u)'
    BY <1>1, StageSame
  <1>6. \A u \in Callers : User(u)'
    BY <1>1 DEF BInv, Threads, User, Uses, Api, cvars
  <1>7. \A u \in Callers : Finaliser(u)'
    BY <1>1, <1>2 DEF BInv, Threads, Finaliser, Kills
  <1>8. \A h \in Handles : HandleInv(h)'
    BY <1>1, HandlesSame DEF cvars, Makes, Usable
  <1> QED
    BY <1>1, <1>3, <1>4, <1>5, <1>6, <1>7, <1>8 DEF BInv, Threads, cvars

LEMMA DelReleaseKeeps ==
    ASSUME BInv, NEW t \in Callers, DelRelease(t)
    PROVE  BInv'
  <1>1. /\ dpc[t] = "unlock" /\ lock' = NoOne
        /\ dpc' = [dpc EXCEPT ![t] = "none"] /\ dying' = [dying EXCEPT ![t] = NoOne]
        /\ UNCHANGED <<language, cvars, pc, object>>
    BY DEF DelRelease
  <1>2. /\ dpc'[t] = "none"
        /\ \A u \in Callers \ {t} : dpc'[u] = dpc[u] /\ dying'[u] = dying[u]
    BY <1>1 DEF BInv, Types
  <1>3. Types'
    BY <1>1 DEF BInv, Types, CTypeOK, cvars
  <1>4. \A u \in Callers : LockInv(u)'
    <2>1. lock = t /\ ~ Holds(t) /\ ~ Finalises(t)'
      BY <1>1, <1>2 DEF BInv, Threads, LockInv, Finalises
    <2>2. \A u \in Callers : Holds(u)' <=> Holds(u)
      BY <1>1 DEF Holds, cvars, Plain, Api, Python
    <2> QED
      BY <1>1, <1>2, <2>1, <2>2, LockGiven
  <1>5. \A u \in Callers : Stage(u)'
    BY <1>1, StageSame
  <1>6. \A u \in Callers : User(u)'
    BY <1>1 DEF BInv, Threads, User, Uses, Api, cvars
  <1>7. \A u \in Callers : Finaliser(u)'
    BY <1>1, <1>2 DEF BInv, Threads, Finaliser, Kills
  <1>8. \A h \in Handles : HandleInv(h)'
    BY <1>1, HandlesSame DEF cvars, Makes, Usable
  <1> QED
    BY <1>1, <1>3, <1>4, <1>5, <1>6, <1>7, <1>8 DEF BInv, Threads, cvars

(* An instance begins to die, in a thread that runs no finaliser and while *)
(* no method works on it.                                                  *)
LEMMA FinaliseKeeps ==
    ASSUME BInv, NEW t \in Callers, NEW h \in Handles, Finalise(t, h), dpc[t] = "none",
           object[h] \in {"live", "cyclic"}, Unused(h)
    PROVE  BInv'
  <1>1. /\ object' = [object EXCEPT ![h] = "dying"]
        /\ dying' = [dying EXCEPT ![t] = h] /\ dpc' = [dpc EXCEPT ![t] = "lock"]
        /\ UNCHANGED <<language, cvars, lock, pc>>
    BY DEF Finalise
  <1>2. /\ dpc'[t] = "lock" /\ dying'[t] = h /\ object'[h] = "dying"
        /\ \A u \in Callers \ {t} : dpc'[u] = dpc[u] /\ dying'[u] = dying[u]
        /\ \A g \in Handles \ {h} : object'[g] = object[g]
    BY <1>1 DEF BInv, Types
  <1>3. Types'
    BY <1>1 DEF BInv, Types, CTypeOK, cvars
  <1>4. \A u \in Callers : LockInv(u)'
    <2>1. \A u \in Callers : (Holds(u)' <=> Holds(u)) /\ (Finalises(u)' <=> Finalises(u))
      BY <1>1, <1>2 DEF Holds, cvars, Plain, Api, Python, Finalises
    <2> QED
      BY <1>1, <2>1, LockStays
  <1>5. \A u \in Callers : Stage(u)'
    BY <1>1, StageSame
  <1>6. \A u \in Callers : User(u)'
    <2> TAKE u \in Callers
    <2>1. pc[u] # "idle" => frame[u].handle # h /\ frame[u].handle \in Handles
      BY DEF Unused, Uses, BInv, Types, CTypeOK, Frames
    <2> QED
      BY <1>1, <1>2, <2>1 DEF BInv, Threads, User, Uses, Api, cvars
  <1>7. \A u \in Callers : Finaliser(u)'
    BY <1>1, <1>2 DEF BInv, Threads, Finaliser, Kills
  <1>8. \A g \in Handles : HandleInv(g)'
    BY <1>1, <1>2 DEF BInv, HandleInv, cvars, Makes, Usable
  <1> QED
    BY <1>1, <1>3, <1>4, <1>5, <1>6, <1>7, <1>8 DEF BInv, Threads, cvars

LEMMA DropLastKeeps ==
    ASSUME BInv, NEW t \in Callers, NEW h \in Handles, DropLast(t, h)
    PROVE  BInv'
  BY FinaliseKeeps DEF DropLast, Running

LEMMA CollectKeeps ==
    ASSUME BInv, NEW t \in Callers, NEW h \in Handles, Collect(t, h)
    PROVE  BInv'
  <1>1. Unused(h)
    BY DEF Collect, BInv, Threads, User, Unused, Uses
  <1> QED
    BY <1>1, FinaliseKeeps DEF Collect, RunsPython, Running

LEMMA DropInCycleKeeps ==
    ASSUME BInv, NEW h \in Handles, DropInCycle(h)
    PROVE  BInv'
  <1>1. /\ object[h] = "live" /\ Unused(h) /\ object' = [object EXCEPT ![h] = "cyclic"]
        /\ UNCHANGED <<language, cvars, lock, pc, dying, dpc>>
    BY DEF DropInCycle
  <1>2. object'[h] = "cyclic" /\ \A g \in Handles \ {h} : object'[g] = object[g]
    BY <1>1 DEF BInv, Types
  <1>3. Types'
    BY <1>1 DEF BInv, Types, CTypeOK, cvars
  <1>4. \A u \in Callers : LockInv(u)'
    <2>1. \A u \in Callers : (Holds(u)' <=> Holds(u)) /\ (Finalises(u)' <=> Finalises(u))
      BY <1>1 DEF Holds, cvars, Plain, Api, Python, Finalises
    <2> QED
      BY <1>1, <2>1, LockStays
  <1>5. \A u \in Callers : Stage(u)'
    BY <1>1, StageSame
  <1>6. \A u \in Callers : User(u)'
    <2> TAKE u \in Callers
    <2>1. pc[u] # "idle" => frame[u].handle # h /\ frame[u].handle \in Handles
      BY <1>1 DEF Unused, Uses, BInv, Types, CTypeOK, Frames
    <2> QED
      BY <1>1, <1>2, <2>1 DEF BInv, Threads, User, Uses, Api, cvars
  <1>7. \A u \in Callers : Finaliser(u)'
    BY <1>1, <1>2, FinalisersSame
  <1>8. \A g \in Handles : HandleInv(g)'
    BY <1>1, <1>2 DEF BInv, HandleInv, cvars, Makes, Usable
  <1> QED
    BY <1>1, <1>3, <1>4, <1>5, <1>6, <1>7, <1>8 DEF BInv, Threads, cvars


(***************************************************************************)
(* A method begins.                                                        *)
(***************************************************************************)
LEMMA BeginMethodKeeps ==
    ASSUME BInv, NEW t \in Callers, BeginMethod(t)
    PROVE  BInv'
  <1> DEFINE f == frame[t]
             g == frame'[t]
  <1>1. PICK api \in Apis, h \in Handles :
          /\ object[h] = IF api = "create" THEN "unborn" ELSE "live"
          /\ ~\E u \in Callers : Uses(u, h) /\ Api(u) = "create"
          /\ frame' = [frame EXCEPT ![t].api = api, ![t].handle = h]
    BY DEF BeginMethod
  <1>2. /\ pc[t] = "idle" /\ dpc[t] = "none" /\ pc' = [pc EXCEPT ![t] = "lock"]
        /\ UNCHANGED <<language, heap, badFree, lock, object, dying, dpc>>
    BY DEF BeginMethod, GoTo, Running
  <1>3. pc'[t] = "lock" /\ \A u \in Callers \ {t} : pc'[u] = pc[u] /\ frame'[u] = frame[u]
    BY <1>1, <1>2 DEF BInv, Types, CTypeOK
  <1>0. f \in Frames
    BY DEF BInv, Types, CTypeOK
  <1>4. f.pc = "idle" /\ api \in AllApis
    BY <1>2, CAbiAssumption DEF BInv, Threads, Stage, CAbiAssumption
  <1>5. frame' = [frame EXCEPT ![t] = [f EXCEPT !.api = api, !.handle = h]]
    BY <1>1
  <1>15. g = [f EXCEPT !.api = api, !.handle = h]
    BY <1>5 DEF BInv, Types, CTypeOK
  <1>6. /\ g \in Frames /\ g.pc = f.pc /\ g.api = api /\ g.handle = h
        /\ g.err = f.err /\ g.rel = f.rel
    <2> DEFINE x == [f EXCEPT !.api = api, !.handle = h]
    <2>1. api \in AllApis
      BY <1>4
    <2>2. /\ x \in Frames /\ x.pc = f.pc /\ x.api = api /\ x.handle = h
          /\ x.err = f.err /\ x.rel = f.rel
      <3>1. x \in Frames
        BY <1>0, <2>1 DEF Frames
      <3>2. x.pc = f.pc /\ x.err = f.err /\ x.rel = f.rel
        BY <1>0 DEF Frames
      <3>3. x.api = api
        BY <1>0 DEF Frames
      <3>4. x.handle = h
        BY <1>0 DEF Frames
      <3> QED
        BY <3>1, <3>2, <3>3, <3>4
    <2> QED
      BY <1>15, <2>2
  <1>7. g.pc = "idle"
    BY <1>4, <1>6
  <1>8. Types'
    BY <1>2, <1>5, <1>6 DEF BInv, Types, CTypeOK, Positions
  <1>9. \A u \in Callers : LockInv(u)'
    <2>1. \A u \in Callers : (Holds(u)' <=> Holds(u)) /\ (Finalises(u)' <=> Finalises(u))
      BY <1>2, <1>3 DEF Holds, Plain, Api, Python, Finalises, Later
    <2> QED
      BY <1>2, <2>1, LockStays
  <1>10. Stage(t)'
    <2>1. Outputs(f) /\ Own(t) = {}
      BY <1>2, <1>4 DEF BInv, Threads, Stage, Holding, Delivered, Outputs
    <2>2. Progress(t, g) /\ Outputs(g) /\ Creation(frame[t])'
      BY <1>4, <1>6, <1>7, <2>1 DEF Progress, Outputs, Creation, Delivered
    <2>3. Own(t)' = Holding(t, g)
      BY <1>2, <1>6, <1>7, <2>1 DEF Own, Holding, Delivered
    <2> QED
      BY <1>3, <1>6, <1>7, <2>2, <2>3 DEF Stage, Later
  <1>11. \A u \in Callers \ {t} : Stage(u)'
    BY <1>2, <1>3 DEF BInv, Threads, Stage, Creation, Usable, Own, Python, Plain, Api
  <1>12. \A u \in Callers : User(u)'
    <2>1. User(t)'
      <3>1. ASSUME api = "create", NEW u \in Callers \ {t}
            PROVE  ~ Uses(u, h)'
        <4>1. ~ Uses(u, h)
          <5> SUFFICES ASSUME Uses(u, h) PROVE FALSE
            OBVIOUS
          <5>1. Api(u) # "create" /\ pc[u] # "idle" /\ frame[u].handle = h
            BY <1>1 DEF Uses
          <5>2. object[h] = "live"
            BY <5>1 DEF BInv, Threads, User
          <5> QED
            BY <1>1, <3>1, <5>2
        <4> QED
          BY <1>3, <4>1 DEF Uses
      <3> QED
        BY <1>1, <1>2, <1>6, <3>1 DEF User, Api
    <2>2. ASSUME NEW u \in Callers \ {t}
          PROVE  User(u)'
      <3>1. pc[u] # "idle" /\ Api(u) = "create" => frame[u].handle # h
        BY <1>1 DEF Uses
      <3>2. \A v \in Callers : Uses(v, frame[u].handle)' =>
              Uses(v, frame[u].handle) \/ frame[u].handle = h
        BY <1>3, <1>6 DEF Uses
      <3> QED
        BY <1>2, <1>3, <3>1, <3>2 DEF BInv, Threads, User, Uses, Api
    <2> QED
      BY <2>1, <2>2
  <1>13. \A u \in Callers : Finaliser(u)'
    BY <1>2, FinalisersSame
  <1>14. \A x \in Handles : HandleInv(x)'
    <2>1. \A u \in Callers, x \in Handles : Makes(u, x)' <=> Makes(u, x)
      BY <1>2, <1>3 DEF Makes
    <2> QED
      BY <1>2, <2>1 DEF BInv, HandleInv, Usable
  <1> QED
    BY <1>2, <1>8, <1>9, <1>10, <1>11, <1>12, <1>13, <1>14 DEF BInv, Threads

(***************************************************************************)
(* Steps that change the C heap leave the other threads alone.             *)
(***************************************************************************)
LEMMA StageOther ==
    ASSUME BInv, NEW u \in Callers, pc'[u] = pc[u], frame'[u] = frame[u], language' = language,
           Own(u)' = Own(u),
           Makes(u, frame[u].handle) /\ Api(u) = "create" =>
               (Usable(frame[u].handle)' <=> Usable(frame[u].handle))
    PROVE  Stage(u)'
  <1>1. Stage(u) /\ pc[u] \in Positions
    BY DEF BInv, Threads, Types
  <1>2. Creation(frame[u])'
    <2>1. Api(u) = "create" /\ frame[u].pc # "idle" => Makes(u, frame[u].handle)
      BY <1>1 DEF Stage, Makes, Later, Positions, Api
    <2> QED
      BY <1>1, <2>1 DEF Stage, Creation, Usable, Api
  <1> QED
    BY <1>1, <1>2 DEF Stage, Python, Plain, Api

LEMMA EnterCKeeps ==
    ASSUME BInv, NEW t \in Callers, EnterC(t)
    PROVE  BInv'
  <1> DEFINE f == frame[t]
             g == frame'[t]
  <1>1. /\ pc[t] = "locked" /\ dpc[t] = "none" /\ pc' = [pc EXCEPT ![t] = "call"]
        /\ Enter(t, f.api, f.handle, TRUE)
        /\ UNCHANGED <<language, lock, object, dying, dpc>>
    BY DEF EnterC, Running, GoTo, Api
  <1>2. pc'[t] = "call" /\ \A u \in Callers \ {t} : pc'[u] = pc[u]
    BY <1>1 DEF BInv, Types
  <1>3. f \in Frames /\ f.api \in AllApis /\ f.handle \in Handles /\ CTypeOK
    BY DEF BInv, Types, CTypeOK, Frames
  <1>4. FrameInv(t)
    BY <1>1 DEF BInv, Threads, Stage, FrameInv
  <1>5. f.api = "create" => ~ Usable(f.handle)
    <2> SUFFICES ASSUME f.api = "create" PROVE ~ Usable(f.handle)
      OBVIOUS
    <2>1. object[f.handle] = "unborn" /\ \A u \in Callers \ {t} : ~ Uses(u, f.handle)
      BY <1>1 DEF BInv, Threads, User, Api
    <2>2. \A u \in Callers : ~ Makes(u, f.handle)
      BY <1>1, <2>1 DEF Makes, Uses
    <2> QED
      BY <1>3, <2>1, <2>2 DEF BInv, HandleInv
  <1>6. /\ CTypeOK' /\ FrameInv(t)' /\ UNCHANGED <<heap, badFree>>
        /\ \A u \in Callers \ {t} : frame'[u] = frame[u]
        /\ g.api = f.api /\ g.handle = f.handle /\ g.pc # "idle" /\ g.wantErr = TRUE
    BY <1>1, <1>3, <1>4, <1>5, EnterStep
  <1>7. Types'
    BY <1>1, <1>6 DEF BInv, Types, Positions
  <1>8. \A u \in Callers : LockInv(u)'
    <2>1. \A u \in Callers : (Holds(u)' <=> Holds(u)) /\ (Finalises(u)' <=> Finalises(u))
      BY <1>1, <1>2, <1>6 DEF Holds, Plain, Api, Python, Finalises
    <2> QED
      BY <1>1, <2>1, LockStays
  <1>9. Stage(t)'
    BY <1>2, <1>6 DEF Stage, FrameInv, Later
  <1>10. \A u \in Callers \ {t} : Stage(u)'
    <2> TAKE u \in Callers \ {t}
    <2>1. Own(u)' = Own(u) /\ (Usable(frame[u].handle)' <=> Usable(frame[u].handle))
      BY <1>6 DEF Own, Usable
    <2> QED
      BY <1>1, <1>2, <1>6, <2>1, StageOther
  <1>11. \A u \in Callers : User(u)'
    BY <1>1, <1>2, <1>6, UsersSame
  <1>12. \A u \in Callers : Finaliser(u)'
    BY <1>1, FinalisersSame
  <1>13. \A h \in Handles : HandleInv(h)'
    BY <1>1, <1>2, <1>6, HandlesSame DEF Makes, Usable
  <1> QED
    BY <1>6, <1>7, <1>8, <1>9, <1>10, <1>11, <1>12, <1>13 DEF BInv, Threads

(***************************************************************************)
(* A step inside the C function.                                           *)
(***************************************************************************)
LEMMA InCKeeps ==
    ASSUME BInv, NEW t \in Callers, InC(t)
    PROVE  BInv'
  <1> DEFINE f == frame[t]
             g == frame'[t]
  <1>1. /\ pc[t] = "call" /\ dpc[t] = "none" /\ CallStep(t)
        /\ UNCHANGED <<language, lock, pc, object, dying, dpc>>
    BY DEF InC, Running, bvars
  <1>2. Kept(t)
    <2>1. FrameInv(t) /\ CTypeOK /\ ~ badFree
      BY <1>1 DEF BInv, Types, Threads, Stage, FrameInv
    <2> QED
      BY <1>1, <2>1, CallStepKeeps
  <1>3. /\ g.api = f.api /\ g.handle = f.handle /\ g.wantErr = f.wantErr /\ g.pc # "idle"
        /\ \A u \in Callers \ {t} : frame'[u] = frame[u]
        /\ CTypeOK' /\ FrameInv(t)' /\ ~ badFree'
    BY <1>2 DEF Kept, Elsewhere
  <1>4. f \in Frames /\ heap \subseteq Blocks /\ heap' \subseteq Blocks /\ f.handle \in Handles
        /\ f.pc # "idle" /\ f.wantErr
    BY <1>1, <1>3 DEF BInv, Types, CTypeOK, Frames, Threads, Stage
  <1>5. Types'
    BY <1>1, <1>3 DEF BInv, Types
  <1>6. \A u \in Callers : LockInv(u)'
    <2>1. \A u \in Callers : (Holds(u)' <=> Holds(u)) /\ (Finalises(u)' <=> Finalises(u))
      BY <1>1, <1>3 DEF Holds, Plain, Api, Python, Finalises
    <2> QED
      BY <1>1, <2>1, LockStays
  <1>7. Stage(t)'
    BY <1>1, <1>3, <1>4 DEF Stage, FrameInv, Later
  <1>8. \A h \in Handles : f.api # "create" \/ h # f.handle => (Usable(h)' <=> Usable(h))
    <2> TAKE h \in Handles
    <2>1. CASE h = f.handle
      BY <1>2, <2>1 DEF Kept, Elsewhere
    <2>2. CASE h # f.handle
      <3>1. HandleBlock(h) # HandleBlock(f.handle) /\ HandleBlock(h) \in Blocks
            /\ HandleBlock(h)[1] # t
        BY <2>2, BlockFacts DEF HandleBlock, Block
      <3> QED
        BY <1>2, <2>2, <3>1 DEF Kept, Elsewhere, Usable
    <2> QED
      BY <2>1, <2>2
  <1>9. \A u \in Callers \ {t} : Stage(u)'
    <2> TAKE u \in Callers \ {t}
    <2>1. Own(u)' = Own(u)
      <3>1. \A b \in Blocks : b[1] = u => b # HandleBlock(f.handle)
        BY <1>4, BlockFacts
      <3> QED
        BY <1>2, <1>4, <3>1 DEF Own, Kept, Elsewhere
    <2>2. frame[u].handle \in Handles
      BY DEF BInv, Types, CTypeOK, Frames
    <2>3. ASSUME Makes(u, frame[u].handle), Api(u) = "create"
          PROVE  Usable(frame[u].handle)' <=> Usable(frame[u].handle)
      <3>1. frame[u].handle # f.handle
        BY <1>1, <2>3 DEF BInv, Threads, User, Uses, Makes
      <3> QED
        BY <1>3, <1>8, <2>2, <3>1 DEF Usable
    <2> QED
      BY <1>1, <1>3, <2>1, <2>3, StageOther
  <1>10. \A u \in Callers : User(u)'
    BY <1>1, <1>3, UsersSame
  <1>11. \A u \in Callers : Finaliser(u)'
    BY <1>1, FinalisersSame
  <1>12. \A h \in Handles : HandleInv(h)'
    <2> TAKE h \in Handles
    <2>1. \A u \in Callers : Makes(u, h)' <=> Makes(u, h)
      BY <1>1, <1>3 DEF Makes
    <2>2. CASE f.api # "create" \/ h # f.handle
      BY <1>1, <1>8, <2>1, <2>2 DEF BInv, HandleInv
    <2>3. CASE f.api = "create" /\ h = f.handle
      <3>1. object[h] = "unborn" /\ Makes(t, h)
        BY <1>1, <2>3 DEF BInv, Threads, User, Api, Makes
      <3> QED
        BY <1>1, <2>1, <3>1 DEF HandleInv
    <2> QED
      BY <2>2, <2>3
  <1> QED
    BY <1>3, <1>5, <1>6, <1>7, <1>9, <1>10, <1>11, <1>12 DEF BInv, Threads


(***************************************************************************)
(* The C function has returned: what it left is freed piece by piece.      *)
(***************************************************************************)
LEMMA Pieces ==
    ASSUME NEW c \in Callers, NEW f \in Frames, f.ptrs = ToSet(Plan(c, f))
    PROVE  /\ FreeMain(c, f) \cup FreeRelocs(c, f.ptrs, f.relocs) = Mine(f.ptrs)
           /\ FreeMain(c, f) \cap FreeRelocs(c, f.ptrs, f.relocs) = {}
           /\ MainBlocks(c, f) = <<>> => FreeMain(c, f) = {}
           /\ f.relocs = 0 => FreeRelocs(c, f.ptrs, f.relocs) = {}
           /\ f.api = "create" /\ f.relocs = 0 => Mine(f.ptrs) = {}
  <1>1. FreeMain(c, f) \cup FreeRelocs(c, f.ptrs, f.relocs) = Mine(f.ptrs)
    BY HandedIsAll
  <1>2. FreeMain(c, f) \cap FreeRelocs(c, f.ptrs, f.relocs) = {}
    BY DEF FreeMain, FreeInsns, FreeRelocs
  <1>3. DOMAIN Plan(c, f) = 1 .. Len(Plan(c, f))
    BY PlanShape, LenProperties
  <1>4. ASSUME MainBlocks(c, f) = <<>>
        PROVE  FreeMain(c, f) = {}
    <2>1. \A i \in 1 .. Len(Plan(c, f)) : Plan(c, f)[i] \notin FreeMain(c, f)
      <3> TAKE i \in 1 .. Len(Plan(c, f))
      <3>1. i > Len(MainBlocks(c, f))
        BY <1>4, EmptySeq
      <3> QED
        BY <3>1, Place, RelocFreed
    <2>2. FreeMain(c, f) \subseteq f.ptrs
      BY DEF FreeMain, FreeInsns
    <2> QED
      BY <1>3, <2>1, <2>2 DEF ToSet
  <1>5. ASSUME f.relocs = 0
        PROVE  FreeRelocs(c, f.ptrs, f.relocs) = {}
    <2>1. \A i \in 1 .. Len(Plan(c, f)) : Plan(c, f)[i][2] \notin {"relocs", "name"}
      <3> TAKE i \in 1 .. Len(Plan(c, f))
      <3>1. Len(RelocBlocks(c, 0)) = 0
        BY ArrayBlocks, CAbiAssumption DEF CAbiAssumption
      <3>2. i <= Len(MainBlocks(c, f))
        BY <1>5, <3>1, Place
      <3> QED
        BY <3>2, Place, MainFreed
    <2> QED
      BY <1>3, <2>1 DEF ToSet, FreeRelocs
  <1>6. ASSUME f.api = "create", f.relocs = 0
        PROVE  Mine(f.ptrs) = {}
    <2>1. Len(Plan(c, f)) = 1 /\ Plan(c, f)[1] = HandleBlock(f.handle)
      BY <1>6, CreatePlan
    <2>2. \A b \in f.ptrs : b = HandleBlock(f.handle)
      BY <1>3, <2>1 DEF ToSet
    <2> QED
      BY <2>2 DEF Mine, HandleBlock, Block
  <1> QED
    BY <1>1, <1>2, <1>4, <1>5, <1>6

LEMMA UnpackKeeps ==
    ASSUME BInv, NEW t \in Callers, Unpack(t)
    PROVE  BInv'
  <1> DEFINE f == frame[t]
  <1>1. /\ pc[t] = "unpack" /\ dpc[t] = "none"
        /\ pc' = [pc EXCEPT ![t] = IF f.main # "set" THEN "relocs"
                                   ELSE IF Python /\ Plain(t) THEN "lock_free" ELSE "free"]
        /\ UNCHANGED <<language, cvars, lock, object, dying, dpc>>
    BY DEF Unpack, GoTo, Running
  <1>2. /\ pc'[t] = IF f.main # "set" THEN "relocs"
                    ELSE IF Python /\ Plain(t) THEN "lock_free" ELSE "free"
        /\ \A u \in Callers \ {t} : pc'[u] = pc[u]
    BY <1>1 DEF BInv, Types
  <1>3. Types'
    BY <1>1 DEF BInv, Types, CTypeOK, cvars, Positions
  <1>4. f \in Frames /\ f.pc = "returned" /\ f.status = "ok" /\ f.api # "create" /\ Stage(t)
    BY <1>1 DEF BInv, Types, CTypeOK, Threads, Stage, Later
  <1>5. \A u \in Callers : LockInv(u)'
    <2>1. \A u \in Callers : (Holds(u)' <=> Holds(u)) /\ (Finalises(u)' <=> Finalises(u))
      BY <1>1, <1>2, <1>4 DEF Holds, cvars, Plain, Api, Python, Finalises, Later
    <2> QED
      BY <1>1, <2>1, LockStays
  <1>6. \A u \in Callers : Stage(u)'
    <2>1. Own(t) = Mine(f.ptrs) /\ f.ptrs = ToSet(Plan(t, f))
          /\ (f.main = "set" <=> MainBlocks(t, f) # <<>>)
      BY <1>1, <1>4 DEF Stage, Holding, Delivered, Progress
    <2>2. pc'[t] = "relocs" => Own(t) = FreeRelocs(t, f.ptrs, f.relocs)
      BY <1>2, <1>4, <2>1, Pieces
    <2>3. Stage(t)'
      BY <1>1, <1>2, <1>4, <2>2 DEF Stage, cvars, Creation, Usable, Own, Later, Plain, Api, Python
    <2> QED
      BY <1>1, <1>2, <2>3, StageSame
  <1>7. \A u \in Callers : User(u)'
    BY <1>1, <1>2, UsersSame DEF cvars
  <1>8. \A u \in Callers : Finaliser(u)'
    BY <1>1, FinalisersSame
  <1>9. \A h \in Handles : HandleInv(h)'
    BY <1>1, <1>2, HandlesSame DEF cvars, Makes, Usable
  <1> QED
    BY <1>1, <1>3, <1>5, <1>6, <1>7, <1>8, <1>9 DEF BInv, Threads, cvars

(* Blocks freed by thread t that are its own.                              *)
LEMMA FreesOwn ==
    ASSUME BInv, NEW t \in Callers, NEW S, S \subseteq Own(t), Free(S)
    PROVE  /\ heap' \subseteq Blocks /\ badFree' \in BOOLEAN /\ ~ badFree'
           /\ Own(t)' = Own(t) \ S
           /\ \A u \in Callers \ {t} : Own(u)' = Own(u)
           /\ \A h \in Handles : Usable(h)' <=> Usable(h)
  <1>1. S \subseteq heap /\ heap' = heap \ S /\ ~ badFree'
    BY DEF Own, Free, BInv
  <1>2. badFree' \in BOOLEAN
    BY DEF Free
  <1>3. heap' \subseteq Blocks
    BY <1>1 DEF BInv, Types, CTypeOK
  <1>4. Own(t)' = Own(t) \ S /\ \A u \in Callers \ {t} : Own(u)' = Own(u)
    BY <1>1 DEF Own
  <1>5. \A h \in Handles : Usable(h)' <=> Usable(h)
    BY <1>1, BlockFacts DEF Own, Usable
  <1> QED
    BY <1>1, <1>2, <1>3, <1>4, <1>5

LEMMA FreeOutputKeeps ==
    ASSUME BInv, NEW t \in Callers, FreeOutput(t)
    PROVE  BInv'
  <1> DEFINE f == frame[t]
  <1>1. /\ pc[t] = "free" /\ dpc[t] = "none" /\ Free(FreeMain(t, f))
        /\ lock' = IF Python /\ Plain(t) THEN NoOne ELSE lock
        /\ pc' = [pc EXCEPT ![t] = "relocs"]
        /\ UNCHANGED <<language, frame, object, dying, dpc>>
    BY DEF FreeOutput, GoTo, Running
  <1>2. pc'[t] = "relocs" /\ \A u \in Callers \ {t} : pc'[u] = pc[u]
    BY <1>1 DEF BInv, Types
  <1>3. f \in Frames /\ f.pc = "returned" /\ f.status = "ok" /\ f.api # "create" /\ Stage(t)
    BY <1>1 DEF BInv, Types, CTypeOK, Threads, Stage, Later
  <1>4. Own(t) = Mine(f.ptrs) /\ f.ptrs = ToSet(Plan(t, f))
    BY <1>1, <1>3 DEF Stage, Holding, Delivered, Progress
  <1>5. FreeMain(t, f) \subseteq Own(t)
        /\ Own(t) \ FreeMain(t, f) = FreeRelocs(t, f.ptrs, f.relocs)
    BY <1>3, <1>4, Pieces
  <1>6. /\ heap' \subseteq Blocks /\ badFree' \in BOOLEAN /\ ~ badFree'
        /\ Own(t)' = FreeRelocs(t, f.ptrs, f.relocs)
        /\ \A u \in Callers \ {t} : Own(u)' = Own(u)
        /\ \A h \in Handles : Usable(h)' <=> Usable(h)
    BY <1>1, <1>5, FreesOwn
  <1>7. Types'
    BY <1>1, <1>6 DEF BInv, Types, CTypeOK, Positions
  <1>8. \A u \in Callers : LockInv(u)'
    <2>1. \A u \in Callers \ {t} : (Holds(u)' <=> Holds(u)) /\ dpc'[u] = dpc[u]
      BY <1>1, <1>2 DEF Holds, Plain, Api, Python
    <2>2. CASE Python /\ Plain(t)
      <3>1. lock = t /\ ~ Holds(t)' /\ ~ Finalises(t)'
        BY <1>1, <1>2, <1>3, <2>2 DEF BInv, Threads, LockInv, Holds, Finalises, Later, Python, Api
      <3> QED
        BY <1>1, <2>1, <2>2, <3>1, LockGiven
    <2>3. CASE ~ (Python /\ Plain(t))
      <3>1. \A u \in Callers : (Holds(u)' <=> Holds(u)) /\ (Finalises(u)' <=> Finalises(u))
        BY <1>1, <1>2, <1>3, <2>1, <2>3 DEF Holds, Plain, Api, Python, Finalises, Later
      <3> QED
        BY <1>1, <2>3, <3>1, LockStays
    <2> QED
      BY <2>2, <2>3
  <1>9. Stage(t)'
    <2>1. Creation(f)'
      BY <1>1, <1>3 DEF Creation
    <2> QED
      BY <1>1, <1>2, <1>3, <1>6, <2>1 DEF Stage, Later
  <1>10. \A u \in Callers \ {t} : Stage(u)'
    <2> TAKE u \in Callers \ {t}
    <2>1. frame[u].handle \in Handles
      BY DEF BInv, Types, CTypeOK, Frames
    <2>2. Usable(frame[u].handle)' <=> Usable(frame[u].handle)
      BY <1>1, <1>6, <2>1 DEF Usable
    <2> QED
      BY <1>1, <1>2, <1>6, <2>2, StageOther
  <1>11. \A u \in Callers : User(u)'
    BY <1>1, <1>2, UsersSame
  <1>12. \A u \in Callers : Finaliser(u)'
    BY <1>1, FinalisersSame
  <1>13. \A h \in Handles : HandleInv(h)'
    BY <1>1, <1>2, <1>6, HandlesSame DEF Makes
  <1> QED
    BY <1>6, <1>7, <1>8, <1>9, <1>10, <1>11, <1>12, <1>13 DEF BInv, Threads


(***************************************************************************)
(* The end of a method that has freed all it was given.                    *)
(***************************************************************************)
LEMMA ReturnedFrame ==
    ASSUME BInv, NEW t \in Callers, frame' = Returned(t)
    PROVE  LET f == frame[t]  g == frame'[t] IN
           /\ frame' = [frame EXCEPT ![t] = g] /\ g \in Frames
           /\ \A u \in Callers \ {t} : frame'[u] = frame[u]
           /\ g.pc = "idle" /\ g.api = f.api /\ g.handle = f.handle
           /\ g.err = "null" /\ g.rel = "null"
  <1> DEFINE f == frame[t]
             g == [Fresh(f) EXCEPT !.main = "null", !.rel = "null", !.err = "null"]
  <1>1. f \in Frames
    BY DEF BInv, Types, CTypeOK
  <1>2. frame' = [frame EXCEPT ![t] = g]
    BY DEF Returned
  <1>3. frame'[t] = g /\ \A u \in Callers \ {t} : frame'[u] = frame[u]
    BY <1>2 DEF BInv, Types, CTypeOK
  <1>4. Fresh(f) \in Frames
    BY <1>1, FreshFrame
  <1>5. g \in Frames
    BY <1>4 DEF Frames, Pointers
  <1>6. /\ g.pc = Fresh(f).pc /\ g.api = Fresh(f).api /\ g.handle = Fresh(f).handle
        /\ g.err = "null" /\ g.rel = "null"
    BY <1>4 DEF Frames
  <1>7. Fresh(f).pc = "idle" /\ Fresh(f).api = f.api /\ Fresh(f).handle = f.handle
    BY <1>1, FreshFrame
  <1> HIDE DEF g
  <1> QED
    BY <1>2, <1>3, <1>5, <1>6, <1>7

LEMMA StageReturned ==
    ASSUME NEW t \in Callers, frame'[t].pc = "idle", frame'[t].err = "null",
           frame'[t].rel = "null", Own(t)' = {}, pc'[t] \in {"idle", "unlock"}
    PROVE  Stage(t)'
  BY DEF Stage, Progress, Outputs, Creation, Holding, Delivered, Later

\* A method ends with the lock to give back, or without it.
LEMMA LockAtEnd ==
    ASSUME BInv, NEW t \in Callers, dpc[t] = "none", pc[t] \in Later,
           pc' = [pc EXCEPT ![t] = EndOfMethod(t)],
           \A u \in Callers : frame'[u].api = frame[u].api,
           UNCHANGED <<language, lock, dpc>>
    PROVE  /\ pc'[t] = (IF lock = t THEN "unlock" ELSE "idle")
           /\ \A u \in Callers \ {t} : pc'[u] = pc[u]
           /\ \A u \in Callers : LockInv(u)'
           /\ pc' \in [Callers -> Positions]
  <1>1. /\ pc'[t] = (IF lock = t THEN "unlock" ELSE "idle")
        /\ \A u \in Callers \ {t} : pc'[u] = pc[u]
        /\ pc' \in [Callers -> Positions]
    BY DEF EndOfMethod, BInv, Types, Positions
  <1>2. \A u \in Callers \ {t} : LockInv(u)'
    BY <1>1 DEF BInv, Threads, LockInv, Holds, Finalises, Plain, Api, Python
  <1>3. LockInv(t)'
    BY <1>1 DEF LockInv, Holds, Finalises, Later
  <1> QED
    BY <1>1, <1>2, <1>3

LEMMA UnpackRelocsKeeps ==
    ASSUME BInv, NEW t \in Callers, UnpackRelocs(t)
    PROVE  BInv'
  <1> DEFINE f == frame[t]
             g == frame'[t]
             S == IF f.rel = "set" THEN FreeRelocs(t, f.ptrs, f.relocs) ELSE {}
  <1>1. /\ pc[t] = "relocs" /\ dpc[t] = "none" /\ Free(S) /\ frame' = Returned(t)
        /\ pc' = [pc EXCEPT ![t] = EndOfMethod(t)]
        /\ UNCHANGED <<language, lock, object, dying, dpc>>
    BY DEF UnpackRelocs, GoTo, Running
  <1>2. f \in Frames /\ f.pc = "returned" /\ f.status = "ok" /\ f.api # "create" /\ Stage(t)
    BY <1>1 DEF BInv, Types, CTypeOK, Threads, Stage, Later
  <1>3. S = Own(t)
    <2>1. /\ Own(t) = FreeRelocs(t, f.ptrs, f.relocs) /\ f.ptrs = ToSet(Plan(t, f))
          /\ f.rel = "set" <=> f.relocs > 0
      BY <1>1, <1>2 DEF Stage, Delivered, Progress
    <2>2. f.rel # "set" => f.relocs = 0
      BY <1>2, <2>1, CAbiAssumption DEF Frames, CAbiAssumption
    <2> QED
      BY <1>2, <2>1, <2>2, Pieces
  <1> HIDE DEF S
  <1>4. /\ heap' \subseteq Blocks /\ badFree' \in BOOLEAN /\ ~ badFree'
        /\ Own(t)' = {}
        /\ \A u \in Callers \ {t} : Own(u)' = Own(u)
        /\ \A h \in Handles : Usable(h)' <=> Usable(h)
    BY <1>1, <1>3, FreesOwn
  <1>5. /\ frame' = [frame EXCEPT ![t] = g] /\ g \in Frames
        /\ \A u \in Callers \ {t} : frame'[u] = frame[u]
        /\ g.pc = "idle" /\ g.api = f.api /\ g.handle = f.handle
        /\ g.err = "null" /\ g.rel = "null"
    BY <1>1, ReturnedFrame
  <1>6. /\ pc'[t] = (IF lock = t THEN "unlock" ELSE "idle")
        /\ \A u \in Callers \ {t} : pc'[u] = pc[u]
        /\ \A u \in Callers : LockInv(u)'
        /\ pc' \in [Callers -> Positions]
    BY <1>1, <1>5, LockAtEnd DEF Later
  <1>7. Types'
    BY <1>1, <1>4, <1>5, <1>6 DEF BInv, Types, CTypeOK
  <1>8. Stage(t)'
    BY <1>4, <1>5, <1>6, StageReturned
  <1>9. \A u \in Callers \ {t} : Stage(u)'
    <2> TAKE u \in Callers \ {t}
    <2>1. frame[u].handle \in Handles
      BY DEF BInv, Types, CTypeOK, Frames
    <2>2. Usable(frame[u].handle)' <=> Usable(frame[u].handle)
      BY <1>4, <1>5, <2>1 DEF Usable
    <2> QED
      BY <1>1, <1>4, <1>5, <1>6, <2>2, StageOther
  <1>10. \A u \in Callers : User(u)'
    BY <1>1, <1>5, <1>6, UsersSame
  <1>11. \A u \in Callers : Finaliser(u)'
    BY <1>1, FinalisersSame
  <1>12. \A h \in Handles : HandleInv(h)'
    BY <1>1, <1>4, <1>5, <1>6, HandlesSame DEF Makes
  <1> QED
    BY <1>4, <1>6, <1>7, <1>8, <1>9, <1>10, <1>11, <1>12 DEF BInv, Threads


(***************************************************************************)
(* The error message is taken: a failure, a new instance, or a result.     *)
(***************************************************************************)
LEMMA MessageIsAll ==
    ASSUME BInv, NEW t \in Callers, pc[t] = "take_err"
    PROVE  /\ frame[t].status # "ok" => ErrBlock(t) = Own(t)
           /\ frame[t].status = "ok" => ErrBlock(t) = {} /\ frame[t].err = "null"
           /\ frame[t].status = "ok" /\ Api(t) = "create" => Own(t) = {} /\ Usable(frame[t].handle)
           /\ frame[t].status # "ok" /\ Api(t) = "create" => ~ Usable(frame[t].handle)
           /\ ErrBlock(t) \subseteq Own(t)
  <1> DEFINE f == frame[t]
  <1>1. f \in Frames /\ f.pc = "returned" /\ f.wantErr /\ Stage(t)
    BY DEF BInv, Types, CTypeOK, Threads, Stage, Later
  <1>2. f.status # "ok" => ErrBlock(t) = Own(t)
    BY <1>1 DEF Stage, Holding, Delivered, ErrBlock
  <1>3. f.status = "ok" => ErrBlock(t) = {} /\ f.err = "null"
    BY <1>1 DEF Stage, Outputs, Delivered, ErrBlock
  <1>4. Api(t) = "create" => (Usable(f.handle) <=> f.status = "ok")
    BY <1>1 DEF Stage, Creation, Delivered, Api
  <1>5. f.status = "ok" /\ Api(t) = "create" => Own(t) = {}
    <2> SUFFICES ASSUME f.status = "ok", f.api = "create"
                 PROVE  Own(t) = {}
      BY DEF Api
    <2>1. f.ptrs = ToSet(Plan(t, f)) /\ f.relocs = 0 /\ Own(t) = Mine(f.ptrs)
      BY <1>1 DEF Stage, Progress, Delivered, Holding, RelocApis
    <2> QED
      BY <1>1, <2>1, Pieces
  <1> QED
    BY <1>2, <1>3, <1>4, <1>5

LEMMA RaiseKeeps ==
    ASSUME BInv, NEW t \in Callers, TakeErr(t), frame[t].status # "ok"
    PROVE  BInv'
  <1> DEFINE f == frame[t]
             g == frame'[t]
  <1>1. /\ pc[t] = "take_err" /\ dpc[t] = "none" /\ Free(ErrBlock(t)) /\ frame' = Returned(t)
        /\ pc' = [pc EXCEPT ![t] = EndOfMethod(t)]
        /\ UNCHANGED <<language, lock, object, dying, dpc>>
    BY DEF TakeErr, GoTo, Running
  <1>2. ErrBlock(t) = Own(t) /\ (f.api = "create" => ~ Usable(f.handle))
    BY <1>1, MessageIsAll DEF Api
  <1>3. /\ heap' \subseteq Blocks /\ badFree' \in BOOLEAN /\ ~ badFree'
        /\ Own(t)' = {}
        /\ \A u \in Callers \ {t} : Own(u)' = Own(u)
        /\ \A h \in Handles : Usable(h)' <=> Usable(h)
    BY <1>1, <1>2, FreesOwn
  <1>4. /\ frame' = [frame EXCEPT ![t] = g] /\ g \in Frames
        /\ \A u \in Callers \ {t} : frame'[u] = frame[u]
        /\ g.pc = "idle" /\ g.api = f.api /\ g.handle = f.handle
        /\ g.err = "null" /\ g.rel = "null"
    BY <1>1, ReturnedFrame
  <1>5. /\ pc'[t] = (IF lock = t THEN "unlock" ELSE "idle")
        /\ \A u \in Callers \ {t} : pc'[u] = pc[u]
        /\ \A u \in Callers : LockInv(u)'
        /\ pc' \in [Callers -> Positions]
    BY <1>1, <1>4, LockAtEnd DEF Later
  <1>6. Types'
    BY <1>1, <1>3, <1>4, <1>5 DEF BInv, Types, CTypeOK
  <1>7. Stage(t)'
    BY <1>3, <1>4, <1>5, StageReturned
  <1>8. \A u \in Callers \ {t} : Stage(u)'
    <2> TAKE u \in Callers \ {t}
    <2>1. frame[u].handle \in Handles
      BY DEF BInv, Types, CTypeOK, Frames
    <2>2. Usable(frame[u].handle)' <=> Usable(frame[u].handle)
      BY <1>3, <1>4, <2>1 DEF Usable
    <2> QED
      BY <1>1, <1>3, <1>4, <1>5, <2>2, StageOther
  <1>9. \A u \in Callers : User(u)'
    BY <1>1, <1>4, <1>5, UsersSame
  <1>10. \A u \in Callers : Finaliser(u)'
    BY <1>1, FinalisersSame
  <1>11. \A h \in Handles : HandleInv(h)'
    <2>1. ASSUME NEW u \in Callers, NEW h \in Handles, object[h] = "unborn", Usable(h), Makes(u, h)
          PROVE  Makes(u, h)'
      <3>1. CASE u = t
        <4>1. h = f.handle /\ f.api = "create"
          BY <1>1, <2>1, <3>1 DEF Makes, BInv, Threads, User, Api
        <4> QED
          BY <1>2, <2>1, <4>1
      <3>2. CASE u # t
        BY <1>4, <1>5, <2>1, <3>2 DEF Makes
      <3> QED
        BY <3>1, <3>2
    <2>2. \A u \in Callers : frame'[u].handle = frame[u].handle
      BY <1>4
    <2> QED
      BY <1>1, <1>3, <2>1, <2>2, HandlesSame
  <1> QED
    BY <1>3, <1>5, <1>6, <1>7, <1>8, <1>9, <1>10, <1>11 DEF BInv, Threads

LEMMA BornKeeps ==
    ASSUME BInv, NEW t \in Callers, TakeErr(t), frame[t].status = "ok", Api(t) = "create"
    PROVE  BInv'
  <1> DEFINE f == frame[t]
             g == frame'[t]
             h == f.handle
  <1>1. /\ pc[t] = "take_err" /\ dpc[t] = "none" /\ Free(ErrBlock(t)) /\ frame' = Returned(t)
        /\ pc' = [pc EXCEPT ![t] = EndOfMethod(t)]
        /\ object' = [object EXCEPT ![h] = "live"]
        /\ UNCHANGED <<language, lock, dying, dpc>>
    BY DEF TakeErr, GoTo, Running
  <1>2. ErrBlock(t) = {} /\ Own(t) = {} /\ Usable(h) /\ h \in Handles
    BY <1>1, MessageIsAll DEF BInv, Types, CTypeOK, Frames
  <1>3. /\ heap' \subseteq Blocks /\ badFree' \in BOOLEAN /\ ~ badFree'
        /\ Own(t)' = {}
        /\ \A u \in Callers \ {t} : Own(u)' = Own(u)
        /\ \A x \in Handles : Usable(x)' <=> Usable(x)
    BY <1>1, <1>2, FreesOwn
  <1>4. /\ frame' = [frame EXCEPT ![t] = g] /\ g \in Frames
        /\ \A u \in Callers \ {t} : frame'[u] = frame[u]
        /\ g.pc = "idle" /\ g.api = f.api /\ g.handle = f.handle
        /\ g.err = "null" /\ g.rel = "null"
    BY <1>1, ReturnedFrame
  <1>5. /\ pc'[t] = (IF lock = t THEN "unlock" ELSE "idle")
        /\ \A u \in Callers \ {t} : pc'[u] = pc[u]
        /\ \A u \in Callers : LockInv(u)'
        /\ pc' \in [Callers -> Positions]
    BY <1>1, <1>4, LockAtEnd DEF Later
  <1>6. object'[h] = "live" /\ \A x \in Handles \ {h} : object'[x] = object[x]
    BY <1>1, <1>2 DEF BInv, Types
  <1>7. Types'
    BY <1>1, <1>3, <1>4, <1>5 DEF BInv, Types, CTypeOK
  <1>8. Stage(t)'
    BY <1>3, <1>4, <1>5, StageReturned
  <1>9. \A u \in Callers \ {t} : Stage(u)'
    <2> TAKE u \in Callers \ {t}
    <2>1. frame[u].handle \in Handles
      BY DEF BInv, Types, CTypeOK, Frames
    <2>2. Usable(frame[u].handle)' <=> Usable(frame[u].handle)
      BY <1>3, <1>4, <2>1 DEF Usable
    <2> QED
      BY <1>1, <1>3, <1>4, <1>5, <2>2, StageOther
  <1>10. \A u \in Callers \ {t} : ~ Uses(u, h)
    BY <1>1 DEF BInv, Threads, User
  <1>11. \A u \in Callers : User(u)'
    <2>1. User(t)'
      <3>1. lock = t
        BY <1>1 DEF BInv, Threads, LockInv, Holds, Later
      <3>2. pc'[t] = "unlock" /\ \A u \in Callers \ {t} : ~ Uses(u, h)'
        BY <1>4, <1>5, <1>10, <3>1 DEF Uses
      <3> QED
        BY <1>4, <1>6, <3>2 DEF User, Api
    <2>2. ASSUME NEW u \in Callers \ {t}
          PROVE  User(u)'
      <3>1. pc[u] # "idle" => frame[u].handle # h /\ frame[u].handle \in Handles
        BY <1>10 DEF Uses, BInv, Types, CTypeOK, Frames
      <3>2. \A v \in Callers, x \in Handles : Uses(v, x)' => Uses(v, x)
        BY <1>1, <1>4, <1>5 DEF Uses
      <3> QED
        BY <1>4, <1>5, <1>6, <3>1, <3>2 DEF BInv, Threads, User, Api
    <2> QED
      BY <2>1, <2>2
  <1>12. \A u \in Callers : Finaliser(u)'
    <2>1. object[h] = "unborn"
      BY <1>1 DEF BInv, Threads, User
    <2> QED
      BY <1>1, <1>6, <2>1, FinalisersSame
  <1>13. \A x \in Handles : HandleInv(x)'
    <2> TAKE x \in Handles
    <2>1. CASE x = h
      BY <1>2, <1>3, <1>6, <2>1 DEF HandleInv
    <2>2. CASE x # h
      <3>1. \A u \in Callers : Makes(u, x) => Makes(u, x)'
        BY <1>4, <1>5, <2>2 DEF Makes
      <3> QED
        BY <1>3, <1>6, <2>2, <3>1 DEF BInv, HandleInv
    <2> QED
      BY <2>1, <2>2
  <1> QED
    BY <1>3, <1>5, <1>7, <1>8, <1>9, <1>11, <1>12, <1>13 DEF BInv, Threads

LEMMA ResultKeeps ==
    ASSUME BInv, NEW t \in Callers, TakeErr(t), frame[t].status = "ok", Api(t) # "create"
    PROVE  BInv'
  <1> DEFINE f == frame[t]
  <1>1. /\ pc[t] = "take_err" /\ dpc[t] = "none" /\ Free(ErrBlock(t))
        /\ frame' = [frame EXCEPT ![t].err = "null"]
        /\ pc' = [pc EXCEPT ![t] = "unpack"]
        /\ UNCHANGED <<language, lock, object, dying, dpc>>
    BY DEF TakeErr, GoTo, Running
  <1>2. ErrBlock(t) = {} /\ f.err = "null"
    BY <1>1, MessageIsAll
  <1>3. UNCHANGED cvars
    <2>1. [f EXCEPT !.err = "null"] = f
      BY <1>2 DEF BInv, Types, CTypeOK, Frames
    <2>2. frame' = frame
      BY <1>1, <2>1 DEF BInv, Types, CTypeOK
    <2>3. heap' = heap
      BY <1>1, <1>2 DEF Free
    <2>4. badFree' = badFree
      BY <1>1, <1>2 DEF Free, BInv, Types, CTypeOK
    <2> QED
      BY <2>2, <2>3, <2>4 DEF cvars
  <1>4. pc'[t] = "unpack" /\ \A u \in Callers \ {t} : pc'[u] = pc[u]
    BY <1>1 DEF BInv, Types
  <1>5. Types'
    BY <1>1, <1>3 DEF BInv, Types, CTypeOK, cvars, Positions
  <1>6. \A u \in Callers : LockInv(u)'
    <2>1. \A u \in Callers : (Holds(u)' <=> Holds(u)) /\ (Finalises(u)' <=> Finalises(u))
      BY <1>1, <1>3, <1>4 DEF Holds, cvars, Plain, Api, Python, Finalises, Later
    <2> QED
      BY <1>1, <2>1, LockStays
  <1>7. \A u \in Callers : Stage(u)'
    <2>1. Stage(t)'
      BY <1>1, <1>3, <1>4 DEF BInv, Threads, Stage, cvars, Creation, Usable, Own, Later, Api
    <2> QED
      BY <1>1, <1>3, <1>4, <2>1, StageSame
  <1>8. \A u \in Callers : User(u)'
    BY <1>1, <1>3, <1>4, UsersSame DEF cvars
  <1>9. \A u \in Callers : Finaliser(u)'
    BY <1>1, FinalisersSame
  <1>10. \A h \in Handles : HandleInv(h)'
    <2>1. object[f.handle] = "live"
      BY <1>1 DEF BInv, Threads, User
    <2> QED
      BY <1>1, <1>3, <1>4, <2>1, HandlesSame DEF cvars, Makes, Usable
  <1> QED
    BY <1>3, <1>5, <1>6, <1>7, <1>8, <1>9, <1>10 DEF BInv, Threads, cvars

LEMMA TakeErrKeeps ==
    ASSUME BInv, NEW t \in Callers, TakeErr(t)
    PROVE  BInv'
  BY RaiseKeeps, BornKeeps, ResultKeeps

(***************************************************************************)
(* The C handle is destroyed.                                              *)
(***************************************************************************)
LEMMA DelDestroyKeeps ==
    ASSUME BInv, NEW t \in Callers, DelDestroy(t)
    PROVE  BInv'
  <1> DEFINE h == dying[t]
  <1>1. /\ dpc[t] = "destroy" /\ Free({HandleBlock(h)})
        /\ object' = [object EXCEPT ![h] = "unborn"]
        /\ dpc' = [dpc EXCEPT ![t] = "unlock"]
        /\ UNCHANGED <<language, frame, lock, pc, dying>>
    BY DEF DelDestroy
  <1>2. h \in Handles /\ object[h] = "dying"
    BY <1>1 DEF BInv, Threads, Finaliser, Kills
  <1>3. /\ dpc'[t] = "unlock" /\ \A u \in Callers \ {t} : dpc'[u] = dpc[u]
        /\ object'[h] = "unborn" /\ \A x \in Handles \ {h} : object'[x] = object[x]
    BY <1>1, <1>2 DEF BInv, Types
  <1>4. heap' = heap \ {HandleBlock(h)} /\ ~ badFree' /\ badFree' \in BOOLEAN
    <2>1. HandleBlock(h) \in heap
      BY <1>2 DEF BInv, HandleInv, Usable
    <2>2. badFree' \in BOOLEAN
      BY <1>1 DEF Free
    <2> QED
      BY <1>1, <2>1, <2>2 DEF Free, BInv
  <1>5. \A x \in Handles : Usable(x)' <=> Usable(x) /\ x # h
    BY <1>4 DEF Usable, HandleBlock, Block
  <1>6. \A u \in Callers : Own(u)' = Own(u)
    BY <1>2, <1>4, BlockFacts DEF Own
  <1>7. \A u \in Callers : pc[u] # "idle" => frame[u].handle # h /\ frame[u].handle \in Handles
    BY <1>2 DEF BInv, Threads, User, Types, CTypeOK, Frames
  <1>8. Types'
    BY <1>1, <1>4 DEF BInv, Types, CTypeOK
  <1>9. \A u \in Callers : LockInv(u)'
    <2>1. \A u \in Callers : (Holds(u)' <=> Holds(u)) /\ (Finalises(u)' <=> Finalises(u))
      BY <1>1, <1>3 DEF Holds, Plain, Api, Python, Finalises
    <2> QED
      BY <1>1, <2>1, LockStays
  <1>10. \A u \in Callers : Stage(u)'
    <2> TAKE u \in Callers
    <2>1. Makes(u, frame[u].handle) => (Usable(frame[u].handle)' <=> Usable(frame[u].handle))
      BY <1>1, <1>5, <1>7 DEF Makes, Usable
    <2> QED
      BY <1>1, <1>6, <2>1, StageOther
  <1>11. \A u \in Callers : User(u)'
    BY <1>1, <1>3, <1>7 DEF BInv, Threads, User, Uses, Api
  <1>12. \A u \in Callers : Finaliser(u)'
    BY <1>1, <1>3 DEF BInv, Threads, Finaliser, Kills
  <1>13. \A x \in Handles : HandleInv(x)'
    <2>1. \A u \in Callers, x \in Handles : Makes(u, x)' <=> Makes(u, x)
      BY <1>1 DEF Makes
    <2> QED
      BY <1>3, <1>5, <2>1 DEF BInv, HandleInv
  <1> QED
    BY <1>4, <1>8, <1>9, <1>10, <1>11, <1>12, <1>13 DEF BInv, Threads


(***************************************************************************)
(* The specification.                                                      *)
(***************************************************************************)
LEMMA BInitInv == Init => BInv
  <1> SUFFICES ASSUME Init PROVE BInv
    OBVIOUS
  <1> DEFINE h0 == CHOOSE h \in Handles : TRUE
             f0 == [pc |-> "idle", api |-> "create", handle |-> h0,
                    wantErr |-> TRUE, bytes |-> FALSE, insns |-> 0, relocs |-> 0, step |-> 1,
                    ptrs |-> {}, status |-> "none", main |-> "null", rel |-> "null",
                    err |-> "null"]
  <1>1. frame = [t \in Callers |-> f0]
    BY DEF Init
  <1>2. f0 \in Frames
    <2>1. h0 \in Handles
      BY CAbiAssumption DEF CAbiAssumption
    <2>2. 0 \in 0 .. MaxItems
      BY CAbiAssumption DEF CAbiAssumption
    <2> HIDE DEF h0
    <2> QED
      BY <2>1, <2>2 DEF Frames, AllApis, Statuses, Pointers
  <1>3. f0.pc = "idle" /\ f0.rel = "null" /\ f0.err = "null"
    OBVIOUS
  <1> HIDE DEF f0
  <1>4. Types
    BY <1>1, <1>2 DEF Init, Types, CTypeOK, Positions
  <1>5. ASSUME NEW t \in Callers
        PROVE  Threads(t)
    <2>1. frame[t].pc = "idle" /\ frame[t].rel = "null" /\ frame[t].err = "null"
      BY <1>1, <1>3
    <2>2. /\ pc[t] = "idle" /\ dpc[t] = "none" /\ lock = NoOne /\ heap = {}
          /\ \A u \in Callers : pc[u] = "idle"
      BY DEF Init
    <2>3. LockInv(t)
      BY <2>2, BindingAssumption DEF LockInv, Holds, Finalises, Later, BindingAssumption
    <2>4. Stage(t)
      BY <2>1, <2>2 DEF Stage, Progress, Outputs, Creation, Holding, Delivered, Later, Own
    <2>5. User(t) /\ Finaliser(t)
      BY <2>2 DEF User, Finaliser, Kills
    <2> QED
      BY <2>3, <2>4, <2>5 DEF Threads
  <1>6. \A h \in Handles : HandleInv(h)
    BY DEF Init, HandleInv, Usable
  <1> QED
    BY <1>4, <1>5, <1>6 DEF BInv, Init

LEMMA BNextInv == BInv /\ [Next]_vars => BInv'
  <1> SUFFICES ASSUME BInv, [Next]_vars PROVE BInv'
    OBVIOUS
  <1>1. ASSUME NEW t \in Callers, Continue(t)
        PROVE  BInv'
    BY <1>1, AcquireKeeps, EnterCKeeps, InCKeeps, LeaveCKeeps, TakeErrKeeps, UnpackKeeps,
       FreeOutputKeeps, UnpackRelocsKeeps, ReleaseKeeps, DelAcquireKeeps, DelDestroyKeeps,
       DelReleaseKeeps DEF Continue
  <1>2. CASE UNCHANGED vars
    <2>1. Types' /\ ~ badFree'
      BY <1>2 DEF vars, cvars, bvars, BInv, Types, CTypeOK
    <2>2. \A t \in Callers : Stage(t)'
      BY <1>2, StageSame DEF vars, bvars
    <2>3. \A t \in Callers : LockInv(t)' /\ User(t)' /\ Finaliser(t)'
      BY <1>2 DEF vars, cvars, bvars, BInv, Threads, LockInv, Holds, Finalises, Plain, Api,
                  Python, User, Uses, Finaliser, Kills
    <2>4. \A h \in Handles : HandleInv(h)'
      BY <1>2 DEF vars, cvars, bvars, BInv, HandleInv, Makes, Usable
    <2> QED
      BY <2>1, <2>2, <2>3, <2>4 DEF BInv, Threads
  <1> QED
    BY <1>1, <1>2, BeginMethodKeeps, DropLastKeeps, CollectKeeps, DropInCycleKeeps DEF Next

LEMMA BInvariant == Spec => []BInv
  <1> QED
    BY BInitInv, BNextInv, PTL DEF Spec

(***************************************************************************)
(* Every variable keeps its type, and the lock belongs to a thread exactly *)
(* where the bindings' methods and finalisers hold it.                     *)
(***************************************************************************)
THEOREM BindingTypes == Spec => []BTypeOK
  <1>1. BInv => BTypeOK
    <2> SUFFICES ASSUME BInv PROVE BTypeOK
      OBVIOUS
    <2>1. \A t \in Callers :
            /\ pc[t] \in {"locked", "call", "unlock"} \/ dpc[t] \in {"destroy", "unlock"}
                 => lock = t
            /\ pc[t] = "idle" /\ dpc[t] = "none" => lock # t
      BY DEF BInv, Threads, LockInv, Holds, Finalises, Later
    <2> QED
      BY <2>1 DEF BInv, Types, BTypeOK, Positions
  <1> QED
    BY <1>1, BInvariant, PTL

(***************************************************************************)
(* However many threads and instances there are, one thread at a time is   *)
(* inside a C function that works on gas's globals, and the instance it    *)
(* works on exists.                                                        *)
(***************************************************************************)
THEOREM OneThreadInGas == Spec => []GasExclusive
  <1>1. BInv => GasExclusive
    <2> SUFFICES ASSUME BInv, NEW t \in Callers,
                        frame[t].pc \in {"driver", "alloc", "message"}
                 PROVE  /\ lock = t
                        /\ \A u \in Callers \ {t} :
                              frame[u].pc \notin {"driver", "alloc", "message"}
                        /\ Api(t) # "create" => Usable(frame[t].handle)
      BY DEF GasExclusive
    <2>1. \A u \in Callers : frame[u].pc \in {"driver", "alloc", "message"} =>
              pc[u] = "call" /\ lock = u
      BY DEF BInv, Threads, Types, Positions, Stage, Later, LockInv, Holds
    <2>2. ASSUME Api(t) # "create"
          PROVE  Usable(frame[t].handle)
      <3>1. frame[t].handle \in Handles
        BY DEF BInv, Types, CTypeOK, Frames
      <3>2. object[frame[t].handle] = "live"
        BY <2>1, <2>2 DEF BInv, Threads, User
      <3> QED
        BY <3>1, <3>2 DEF BInv, HandleInv
    <2> QED
      BY <2>1, <2>2
  <1> QED
    BY <1>1, BInvariant, PTL

(***************************************************************************)
(* Whatever a method did, raised or returned, its thread owns no block     *)
(* when it is over; a C handle lives as long as its instance; nothing is   *)
(* freed twice.                                                            *)
(***************************************************************************)
THEOREM BindingsLeakNothing == Spec => []NoLeak
  <1>1. BInv => NoLeak
    <2> SUFFICES ASSUME BInv PROVE NoLeak
      OBVIOUS
    <2>1. \A t \in Callers : pc[t] = "idle" => Own(t) = {}
      BY DEF BInv, Threads, Stage, Holding, Delivered
    <2>2. \A h \in Handles :
            /\ object[h] \in {"live", "cyclic", "dying"} => Usable(h)
            /\ object[h] = "unborn" /\ Unused(h) => ~ Usable(h)
      BY DEF BInv, HandleInv, Makes, Unused, Uses
    <2> QED
      BY <2>1, <2>2 DEF BInv, NoLeak
  <1> QED
    BY <1>1, BInvariant, PTL

=============================================================================
