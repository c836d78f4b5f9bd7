-------------------------------- MODULE CAbi --------------------------------
(***************************************************************************)
(* The C ABI (src/nyxstone_c.cpp, c_api/nyxstone_c.h): every entry point   *)
(* as the sequence of its allocations, any of which may fail, and the      *)
(* ownership of what it hands to the caller.                               *)
(*                                                                         *)
(* The heap is a set of blocks, each named after its owner, its kind and   *)
(* its index in the array it belongs to.  A pointer is "null", "set" (to   *)
(* the block of its kind) or "stale": whatever the caller's variable held  *)
(* before the call.  An array and its length are one pointer.  The driver  *)
(* never returns an instruction without bytes.                             *)
(*                                                                         *)
(* The specification at the end is that of a C program that follows the    *)
(* header's rules for freeing; the bindings replace that program.          *)
(***************************************************************************)
EXTENDS Integers, Sequences, SequencesExt

CONSTANTS
    Callers,     \* threads calling the ABI
    Handles,     \* nyxstone_handle_t objects
    Apis,        \* the entry points called
    MaxItems,    \* bound: instructions and relocations in a result
    NullArgs     \* may a caller pass a NULL it must not pass

BytesApis == {"assemble", "assemble_with_relocs"}
InsnApis  == {"assemble_to_instructions", "assemble_to_instructions_with_relocs",
              "disassemble_to_instructions"}
RelocApis == {"assemble_with_relocs", "assemble_to_instructions_with_relocs"}
DisasmApis == {"disassemble", "disassemble_to_instructions"}
AllApis == BytesApis \cup InsnApis \cup DisasmApis \cup {"create"}

Pointers == {"null", "set", "stale"}
Statuses == {"none", "ok", "null_arg", "init", "assemble", "section", "disasm", "alloc"}

ASSUME CAbiAssumption ==
    /\ Apis \subseteq AllApis /\ MaxItems \in Nat /\ NullArgs \in BOOLEAN
    /\ Handles # {} /\ Callers \cap Handles = {}

VARIABLES
    heap,      \* allocated blocks
    frame,     \* the call each caller is in, or the last one
    badFree    \* has a block been freed that was not allocated
cvars == <<heap, frame, badFree>>

Block(c, kind, i) == <<c, kind, i>>
ItemKinds == {"asm", "bytes", "name"}
Blocks == (Callers \X {"buf", "text", "insns", "relocs", "err"} \X {0})
          \cup (Callers \X ItemKinds \X (1 .. MaxItems))
          \cup (Handles \X {"handle"} \X {0})
HandleBlock(h) == Block(h, "handle", 0)
Own(c) == {b \in heap : b[1] = c}

(* A frame: the arguments, the driver's result (are there bytes, how many  *)
(* instructions and relocations), the next allocation, the local pointers  *)
(* set so far, and what the caller will see.                               *)
Frames == [pc : {"idle", "driver", "alloc", "message", "returned"},
           api : AllApis, handle : Handles, wantErr : BOOLEAN,
           bytes : BOOLEAN, insns : 0 .. MaxItems, relocs : 0 .. MaxItems,
           step : Nat, ptrs : SUBSET Blocks, status : Statuses,
           main : Pointers, rel : Pointers, err : Pointers]
Fresh(f) == [f EXCEPT !.pc = "idle", !.status = "none", !.step = 1, !.ptrs = {},
                      !.bytes = FALSE, !.insns = 0, !.relocs = 0]

-----------------------------------------------------------------------------
(* The allocations of a call in their order.                               *)

\* The array, then the text and the bytes of each instruction.
InsnBlocks(c, n) ==
    [j \in 1 .. 2 * n + 1 |-> CASE j = 1 -> Block(c, "insns", 0)
                                [] j > 1 /\ j % 2 = 0 -> Block(c, "asm", j \div 2)
                                [] j > 1 /\ j % 2 = 1 -> Block(c, "bytes", j \div 2)]

\* The array, then the name of each relocation; nothing if there are none.
RelocBlocks(c, n) ==
    [j \in 1 .. IF n = 0 THEN 0 ELSE n + 1 |->
        IF j = 1 THEN Block(c, "relocs", 0) ELSE Block(c, "name", j - 1)]

MainBlocks(c, f) ==
    CASE f.api \in BytesApis -> IF f.bytes THEN <<Block(c, "buf", 0)>> ELSE <<>>
      [] f.api \in InsnApis  -> InsnBlocks(c, f.insns)
      [] f.api = "disassemble" -> <<Block(c, "text", 0)>>
      [] f.api = "create"      -> <<HandleBlock(f.handle)>>

Plan(c, f) == MainBlocks(c, f) \o RelocBlocks(c, f.relocs)

(* nyxstone_free_instructions, nyxstone_free_relocations: the array and    *)
(* the strings of its first n elements; an element starts out zeroed, and  *)
(* free(NULL) does nothing.                                                *)
\* Slip: malloc instead of calloc, the unset pointers are garbage.
Uninitialised(c, ptrs, n) ==
    {Block(c, "insns", 0)} \cup {Block(c, kind, i) : kind \in {"asm", "bytes"}, i \in 1 .. n}
FreeInsns(c, ptrs, n) ==
    {p \in ptrs : p[2] = "insns" \/ (p[2] \in {"asm", "bytes"} /\ p[3] <= n)}
\* Slip: the names are forgotten.
ArrayOnly(c, ptrs, n) == {p \in ptrs : p[2] = "relocs"}
FreeRelocs(c, ptrs, n) ==
    {p \in ptrs : p[2] = "relocs" \/ (p[2] = "name" /\ p[3] <= n)}
FreeMain(c, f) ==
    IF f.api \in InsnApis THEN FreeInsns(c, f.ptrs, f.insns)
    ELSE {p \in f.ptrs : p[2] \in {"buf", "text"}}

(* What is freed when the allocation of block b fails.                     *)
\* Slip: a failure at element i's bytes leaves its text behind.
OneShort(c, f, b) ==
    CASE b[2] \in {"buf", "text", "insns", "handle"} -> {}
      [] b[2] \in {"asm", "bytes"} -> FreeInsns(c, f.ptrs, b[3] - 1)
      [] b[2] = "relocs" -> FreeMain(c, f)
      [] b[2] = "name"   -> FreeRelocs(c, f.ptrs, b[3] - 1) \cup FreeMain(c, f)
Unwind(c, f, b) ==
    CASE b[2] \in {"buf", "text", "insns", "handle"} -> {}
      [] b[2] = "asm"    -> FreeInsns(c, f.ptrs, b[3] - 1)
      [] b[2] = "bytes"  -> FreeInsns(c, f.ptrs, b[3])
      [] b[2] = "relocs" -> FreeMain(c, f)
      [] b[2] = "name"   -> FreeRelocs(c, f.ptrs, b[3] - 1) \cup FreeMain(c, f)

Free(blocks) ==
    /\ heap' = heap \ blocks
    /\ badFree' = (badFree \/ ~(blocks \subseteq heap))

-----------------------------------------------------------------------------
(* One call.  A NULL argument is refused before the outputs are cleared.   *)

ErrOnEntry(f) == IF f.wantErr THEN "null" ELSE f.err

Enter(c, api, h, wantErr) ==
    LET f == [Fresh(frame[c]) EXCEPT !.api = api, !.handle = h, !.wantErr = wantErr] IN
    /\ frame[c].pc = "idle"
    /\ \/ frame' = [frame EXCEPT ![c] =
              [f EXCEPT !.pc = "driver", !.err = ErrOnEntry(f),
                        !.main = "null", !.rel = IF api \in RelocApis THEN "null" ELSE @]]
       \/ /\ NullArgs /\ api # "create"
          /\ frame' = [frame EXCEPT ![c] =
                 [f EXCEPT !.pc = "message", !.err = ErrOnEntry(f), !.status = "null_arg"]]
    /\ UNCHANGED <<heap, badFree>>

DriverErrors(api) ==
    CASE api = "create"       -> {"init"}
      [] api \in DisasmApis   -> {"disasm"}
      [] OTHER                -> {"assemble", "section"}

Fail(c, status) == frame' = [frame EXCEPT ![c].pc = "message", ![c].status = status]

(* The driver fails, throws, or returns a value.                           *)
Driver(c) ==
    LET api == frame[c].api IN
    /\ frame[c].pc = "driver"
    /\ \/ \E s \in DriverErrors(api) : Fail(c, s)
       \/ Fail(c, "alloc")
       \/ \E b \in IF api \in BytesApis THEN BOOLEAN ELSE {FALSE},
             n \in IF api \in InsnApis THEN 0 .. MaxItems ELSE {0},
             r \in IF api \in RelocApis THEN 0 .. MaxItems ELSE {0} :
             frame' = [frame EXCEPT ![c].pc = "alloc", ![c].bytes = b,
                                    ![c].insns = n, ![c].relocs = r]
    /\ UNCHANGED <<heap, badFree>>

\* Slip: a conversion loop that starts over.
StartsOver(step) == IF step = 1 THEN 2 ELSE 1
Advance(step)    == step + 1
Next_(c) == Plan(c, frame[c])[frame[c].step]

Malloc(c) ==
    /\ frame[c].pc = "alloc" /\ frame[c].step <= Len(Plan(c, frame[c]))
    /\ heap' = heap \cup {Next_(c)}
    /\ frame' = [frame EXCEPT ![c].step = Advance(@), ![c].ptrs = @ \cup {Next_(c)}]
    /\ UNCHANGED badFree

MallocFails(c) ==
    /\ frame[c].pc = "alloc" /\ frame[c].step <= Len(Plan(c, frame[c]))
    /\ Free(Unwind(c, frame[c], Next_(c)))
    /\ Fail(c, "alloc")

(* Everything is allocated: the outputs are assigned.                      *)
Deliver(c) ==
    LET f == frame[c] IN
    /\ f.pc = "alloc" /\ f.step > Len(Plan(c, f))
    /\ frame' = [frame EXCEPT ![c] =
           [f EXCEPT !.pc = "returned", !.status = "ok",
                     !.main = IF MainBlocks(c, f) # <<>> THEN "set" ELSE "null",
                     !.rel  = IF f.api \notin RelocApis THEN @
                              ELSE IF f.relocs > 0 THEN "set" ELSE "null"]]
    /\ UNCHANGED <<heap, badFree>>

(* set_err: a message if the caller wants one and malloc gives room.       *)
SetErr(c) ==
    LET err == Block(c, "err", 0) IN
    /\ frame[c].pc = "message"
    /\ \/ /\ frame[c].wantErr
          /\ heap' = heap \cup {err}
          /\ frame' = [frame EXCEPT ![c].pc = "returned", ![c].err = "set"]
       \/ /\ frame[c].wantErr
          /\ frame' = [frame EXCEPT ![c].pc = "returned", ![c].err = "null"]
          /\ UNCHANGED heap
       \/ /\ ~frame[c].wantErr
          /\ frame' = [frame EXCEPT ![c].pc = "returned"]
          /\ UNCHANGED heap
    /\ UNCHANGED badFree

CallStep(c) == Driver(c) \/ Malloc(c) \/ MallocFails(c) \/ Deliver(c) \/ SetErr(c)

-----------------------------------------------------------------------------
(* A C program: one call at a time per caller; after a call it frees what  *)
(* it was given and may later destroy the handle.  Nobody knows a handle   *)
(* before its nyxstone_create has returned.                                *)

CInit ==
    /\ heap = {} /\ badFree = FALSE
    /\ frame \in [Callers -> [pc : {"idle"}, api : {"create"}, handle : Handles,
                              wantErr : {TRUE}, bytes : {FALSE}, insns : {0}, relocs : {0},
                              step : {1}, ptrs : {{}}, status : {"none"},
                              main : {"stale"}, rel : {"stale"}, err : {"stale"}]]

Usable(h) == HandleBlock(h) \in heap

Creating(h) ==
    \E u \in Callers : frame[u].pc # "idle" /\ frame[u].api = "create" /\ frame[u].handle = h

Begin(c) ==
    \E api \in Apis, h \in Handles, w \in BOOLEAN :
        /\ ~ Creating(h) /\ (Usable(h) <=> api # "create")
        /\ Enter(c, api, h, w)

(* The outputs of a success and the message, if there is one.              *)
Handed(c) ==
    LET f == frame[c] IN
    (IF f.status = "ok" THEN FreeMain(c, f) \cup FreeRelocs(c, f.ptrs, f.relocs) ELSE {})
    \cup (IF f.wantErr /\ f.err = "set" THEN {Block(c, "err", 0)} ELSE {})

End(c) ==
    /\ frame[c].pc = "returned"
    /\ Free(Handed(c))
    /\ frame' = [frame EXCEPT ![c] = [Fresh(@) EXCEPT !.main = "stale", !.rel = "stale",
                                                      !.err = "stale"]]

Destroy(c, h) ==
    /\ frame[c].pc = "idle" /\ Usable(h) /\ ~ Creating(h)
    /\ Free({HandleBlock(h)})
    /\ UNCHANGED frame

CNext == \E c \in Callers :
    Begin(c) \/ CallStep(c) \/ End(c) \/ \E h \in Handles : Destroy(c, h)

CSpec == CInit /\ [][CNext]_cvars

-----------------------------------------------------------------------------
(* All or nothing: a call that succeeds leaves exactly the blocks its      *)
(* outputs lead to, and no message; a call that fails leaves at most the   *)
(* message, at whichever allocation it failed, and NULL outputs unless it  *)
(* was refused for a NULL argument (nyxstone_c.cpp:12-14).                 *)
AllOrNothing ==
    \A c \in Callers : LET f == frame[c] IN
        f.pc = "returned" =>
            IF f.status = "ok"
            THEN /\ Own(c) = {b \in ToSet(Plan(c, f)) : b[1] = c}
                 /\ f.wantErr => f.err = "null"
                 /\ f.api = "create" => Usable(f.handle)
            ELSE /\ Own(c) = IF f.err = "set" THEN {Block(c, "err", 0)} ELSE {}
                 /\ f.api = "create" => ~Usable(f.handle)
                 /\ f.status # "null_arg" => f.main = "null" /\ f.rel # "set"

(* Nothing is freed that is not allocated: no element is visited twice or  *)
(* before it was filled in (nyxstone_c.cpp:109-120, 141-144, 311-317).     *)
FreesAreSound == ~badFree

(* A caller that frees what the header says is left with nothing.          *)
NothingLeaks == \A c \in Callers : frame[c].pc = "idle" => Own(c) = {}

(* Every field of a call frame keeps its type.                             *)
CTypeOK ==
    heap \subseteq Blocks /\ badFree \in BOOLEAN /\ frame \in [Callers -> Frames]
=============================================================================
