---------------------------- MODULE WireProtocol ----------------------------
(***************************************************************************)
(* The bytes between the client of the IPC binding and nyxstone-tcd:       *)
(* bindings/rust-ipc/src/protocol.rs, with the client's encoding methods   *)
(* (connection.rs: assemble .. disassemble_to_instructions) and the        *)
(* daemon's loop and dispatch (nyxstone-tcd.rs: serve, dispatch).          *)
(*                                                                         *)
(* The socket carries units 0 .. Base-1.  An integer of any width is one   *)
(* unit, a string is its length followed by its content, and an integer is *)
(* written modulo Base, as `as u32` does: a length or a count of Base or   *)
(* more is truncated unless something refuses it first.  A frame header is *)
(* the length of the body, the opcode or status, the flags and the two     *)
(* reserved bytes as one unit.                                             *)
(*                                                                         *)
(* Timeouts, respawn and retry are IpcConnection's subject; here a client  *)
(* whose daemon is gone reports the error and gets a new daemon.           *)
(***************************************************************************)
EXTENDS Integers, Sequences, SequencesExt

CONSTANTS
    Base,        \* values of an integer on the wire: 2^32 for a length
    MaxFrame,    \* MAX_FRAME
    MaxReserve,  \* elements that memory can be reserved for at once
    TextUnits,   \* units that make valid UTF-8
    Requests,    \* the calls the client makes
    RawFrames,   \* malformed frames of another peer
    Texts, ByteStrings, InsnLists, RelocLists,  \* what the driver returns
    Errors,      \* its errors
    None

Units == 0 .. Base - 1
HeaderLen == 4

(* Opcodes and status bytes *)
\* Slip: ERR_UNKNOWN does not fit a byte.
WideStatus == [Ok |-> 0, Init |-> 1, NullArg |-> 2, AssembleFailed |-> 3,
               SectionViolation |-> 4, DisassembleFailed |-> 5, Alloc |-> 6,
               Protocol |-> 7, Unknown |-> Base]
Status == [Ok |-> 0, Init |-> 1, NullArg |-> 2, AssembleFailed |-> 3,
           SectionViolation |-> 4, DisassembleFailed |-> 5, Alloc |-> 6,
           Protocol |-> 7, Unknown |-> Base - 1]
ErrorTags == {"Init", "NullArg", "AssembleFailed", "SectionViolation",
              "DisassembleFailed", "Alloc", "Unknown"}

(* What a call and an answer are made of.  Integers are whole units: only  *)
(* lengths and counts can be too large for the wire.                       *)
LabelType  == [name : Seq(TextUnits), address : Units]
InsnType   == [address : Units, assembly : Seq(TextUnits), bytes : Seq(Units)]
RelocType  == [offset : Units, addend : Units \cup {None}, type : Units,
               name : Seq(TextUnits), addr : Units]
AssembleType ==
    [op : {"Assemble"}, src : Seq(TextUnits), address : Units,
     labels : Seq(LabelType), relocs : BOOLEAN, insns : BOOLEAN]
DisasmType ==
    [op : {"Disassemble"}, bytes : Seq(Units), address : Units, count : Nat,
     relocs : {FALSE}, insns : BOOLEAN]
ErrorType  == [tag : ErrorTags, msg : Seq(TextUnits)]

ASSUME WireAssumption ==
    /\ Base \in Nat /\ Base > 9 /\ MaxFrame \in Nat /\ MaxFrame < Base
    /\ MaxFrame > 1   \* room for the daemon's own notice
    /\ MaxReserve \in Nat /\ MaxFrame <= MaxReserve   \* for any list in a frame
    /\ TextUnits \subseteq Units /\ TextUnits # {} /\ None \notin Units
    /\ Requests \subseteq AssembleType \cup DisasmType /\ None \notin Requests
    /\ Texts \subseteq Seq(TextUnits) /\ ByteStrings \subseteq Seq(Units)
    /\ InsnLists \subseteq Seq(InsnType) /\ RelocLists \subseteq Seq(RelocType)
    /\ Errors \subseteq ErrorType

VARIABLES
    phase,     \* "idle", "waiting" for the response, or "done"
    asked,     \* the call being made, or the raw frame sent
    c2d, d2c,  \* units on their way to the daemon and to the client
    daemon,    \* "serving" or "exited"
    seen,      \* the request as the daemon parsed it
    answer,    \* what the driver answered
    got        \* what the client's caller got
vars == <<phase, asked, c2d, d2c, daemon, seen, answer, got>>

-----------------------------------------------------------------------------
(* Writers.  A string longer than MaxFrame is refused by write_bytes.      *)

Num(v)       == <<v % Base>>
Bytes(b)     == Num(Len(b)) \o b
Fits(b)      == Len(b) <= MaxFrame
Each(Put(_), list) == Num(Len(list)) \o FlattenSeq([i \in 1 .. Len(list) |-> Put(list[i])])

Label(l)     == Bytes(l.name) \o Num(l.address)
Insn(i)      == Num(i.address) \o Bytes(i.assembly) \o Bytes(i.bytes)
Reloc(r)     == Num(r.offset)
                \o (IF r.addend = None THEN <<0, 0>> ELSE <<1, r.addend>>)
                \o Num(r.type) \o Bytes(r.name) \o Num(r.addr)

IsAssemble(req) == req.op = "Assemble"

RequestBody(req) ==
    IF IsAssemble(req)
    THEN Num(req.address) \o Each(Label, req.labels) \o Bytes(req.src)
    ELSE Num(req.address) \o Num(req.count) \o Bytes(req.bytes)

RequestFits(req) ==
    IF IsAssemble(req)
    THEN Fits(req.src) /\ \A i \in 1 .. Len(req.labels) : Fits(req.labels[i].name)
    ELSE Fits(req.bytes)

Opcode(req) ==
    CASE IsAssemble(req) /\ ~req.relocs /\ ~req.insns -> 1
      [] IsAssemble(req) /\ ~req.relocs /\ req.insns  -> 2
      [] ~IsAssemble(req) /\ ~req.insns               -> 3
      [] ~IsAssemble(req) /\ req.insns                -> 4
      [] IsAssemble(req) /\ req.relocs /\ ~req.insns  -> 5
      [] IsAssemble(req) /\ req.relocs /\ req.insns   -> 6

(* FrameHeader::write followed by the body; Sendable is its check.         *)
\* Slip: the length is written `as u32` unchecked.
Unchecked(body) == TRUE
Sendable(body) == Len(body) <= MaxFrame
Frame(kind, flags, body) == Num(Len(body)) \o <<kind, flags, 0>> \o body

-----------------------------------------------------------------------------
(* Readers.  A parse of a stretch of units is the value read and what is   *)
(* left after it, or nothing when the units do not fit.                    *)

Parsed(v, rest) == <<v, rest>>
NoParse == <<>>
Then(parse, Reader(_, _)) ==
    IF parse = NoParse THEN NoParse ELSE Reader(parse[1], parse[2])

ReadInt(s) == IF s = <<>> THEN NoParse ELSE Parsed(Head(s), Tail(s))

ReadBytes(s) ==
    Then(ReadInt(s), LAMBDA n, r :
        IF n > MaxFrame \/ n > Len(r) THEN NoParse
        ELSE Parsed(SubSeq(r, 1, n), SubSeq(r, n + 1, Len(r))))

IsText(b) == \A i \in 1 .. Len(b) : b[i] \in TextUnits
ReadText(s) ==
    Then(ReadBytes(s), LAMBDA b, r : IF IsText(b) THEN Parsed(b, r) ELSE NoParse)

ReadOneMore(Get(_), parse) ==
    Then(parse, LAMBDA list, r :
        Then(Get(r), LAMBDA v, left : Parsed(Append(list, v), left)))
ReadCount(Get(_), n, r) ==
    LET read[i \in 0 .. n] ==
            IF i = 0 THEN Parsed(<<>>, r) ELSE ReadOneMore(Get, read[i - 1])
    IN  read[n]
ReadEach(Get(_), s) == Then(ReadInt(s), LAMBDA n, r : ReadCount(Get, n, r))

ReadLabel(s) ==
    Then(ReadText(s), LAMBDA nm, r : Then(ReadInt(r), LAMBDA a, q :
        Parsed([name |-> nm, address |-> a], q)))

ReadInsn(s) ==
    Then(ReadInt(s), LAMBDA a, r : Then(ReadText(r), LAMBDA t, q :
        Then(ReadBytes(q), LAMBDA b, left :
            Parsed([address |-> a, assembly |-> t, bytes |-> b], left))))

ReadReloc(s) ==
    Then(ReadInt(s), LAMBDA off, r1 : Then(ReadInt(r1), LAMBDA has, r2 :
    Then(ReadInt(r2), LAMBDA add, r3 : Then(ReadInt(r3), LAMBDA ty, r4 :
    Then(ReadText(r4), LAMBDA nm, r5 : Then(ReadInt(r5), LAMBDA at, r6 :
        Parsed([offset |-> off, addend |-> IF has # 0 THEN add ELSE None,
                type |-> ty, name |-> nm, addr |-> at], r6)))))))

ParseAssemble(s, relocs, insns) ==
    Then(ReadInt(s), LAMBDA a, r : Then(ReadEach(ReadLabel, r), LAMBDA ls, q :
        Then(ReadText(q), LAMBDA src, left :
            Parsed([op |-> "Assemble", src |-> src, address |-> a, labels |-> ls,
                    relocs |-> relocs, insns |-> insns], left))))

Disassemble(b, a, n, insns) ==
    [op |-> "Disassemble", bytes |-> b, address |-> a, count |-> n,
     relocs |-> FALSE, insns |-> insns]
ParseDisasm(s, insns) ==
    Then(ReadInt(s), LAMBDA a, r : Then(ReadInt(r), LAMBDA n, q :
        Then(ReadBytes(q), LAMBDA b, left : Parsed(Disassemble(b, a, n, insns), left))))

ParseRequest(kind, body) ==
    CASE kind = 1 -> ParseAssemble(body, FALSE, FALSE)
      [] kind = 2 -> ParseAssemble(body, FALSE, TRUE)
      [] kind = 3 -> ParseDisasm(body, FALSE)
      [] kind = 4 -> ParseDisasm(body, TRUE)
      [] kind = 5 -> ParseAssemble(body, TRUE, FALSE)
      [] kind = 6 -> ParseAssemble(body, TRUE, TRUE)
      [] OTHER    -> NoParse

(* parse_assemble reserves room for as many labels as the count says,      *)
(* before it reads one and whatever the length of the body.  The allocator *)
(* that cannot give it aborts the process.  (The client's                  *)
(* read_instructions and read_relocations do the same, with counts of      *)
(* lists that fit a frame.)                                                *)
Overcommits(kind, body) ==
    kind \in {1, 2, 5, 6} /\ Len(body) > 1 /\ body[2] > MaxReserve

(* The frame at the head of a stream, once all of it is there.             *)
HasHeader(s) == Len(s) >= HeaderLen
Oversized(s) == HasHeader(s) /\ s[1] > MaxFrame
HasFrame(s)  == HasHeader(s) /\ ~Oversized(s) /\ Len(s) >= HeaderLen + s[1]
Kind(s)      == s[2]
Body(s)      == SubSeq(s, HeaderLen + 1, HeaderLen + s[1])
AfterFrame(s) == SubSeq(s, HeaderLen + s[1] + 1, Len(s))
Fatal(f)     == Oversized(f) \/ Overcommits(Kind(f), Body(f))

(* Malformed frames: a header out of bounds, or a frame nobody can parse.  *)
ASSUME RawAssumption ==
    \A f \in RawFrames :
        /\ f \in Seq(Units) /\ HasHeader(f)
        /\ ~ Oversized(f) => /\ Len(f) = HeaderLen + f[1]
                             /\ ParseRequest(Kind(f), Body(f)) = NoParse

-----------------------------------------------------------------------------
(* The daemon's responses and the client's reading of them.                *)

Response(status, flags, body) == [status |-> status, flags |-> flags, body |-> body]

(* write_err_body drops a message that does not fit.                       *)
\* Slip: the message without its length prefix, which the client skips.
Unprefixed(msg) == IF Fits(msg) THEN msg ELSE <<>>
ErrBody(msg) == IF Fits(msg) THEN Bytes(msg) ELSE <<>>
Notice == <<CHOOSE u \in TextUnits : TRUE>>   \* the daemon's own, short messages
ProtocolError == Response(Status.Protocol, 0, ErrBody(Notice))

(* err_response: Alloc and NullArg lose their message, Unknown carries the *)
(* code in it.                                                             *)
ErrResponse(e) ==
    Response(Status[e.tag], 0,
             ErrBody(CASE e.tag \in {"Alloc", "NullArg"} -> <<>>
                       [] e.tag = "Unknown" -> Notice \o e.msg
                       [] OTHER -> e.msg))

InsnsFit(list)  == \A i \in 1 .. Len(list) : Fits(list[i].assembly) /\ Fits(list[i].bytes)
RelocsFit(list) == \A i \in 1 .. Len(list) : Fits(list[i].name)
MainFits(req, a) == IF req.insns THEN InsnsFit(a.main) ELSE Fits(a.main)
MainBody(req, a) == IF req.insns THEN Each(Insn, a.main) ELSE Bytes(a.main)

OkResponse(req, a) ==
    IF ~MainFits(req, a) \/ ~RelocsFit(a.relocs) THEN ProtocolError
    ELSE IF req.relocs
         THEN Response(Status.Ok, 1, MainBody(req, a) \o Each(Reloc, a.relocs))
         ELSE Response(Status.Ok, 0, MainBody(req, a))

Answered(req, a) == IF a.tag = "Ok" THEN OkResponse(req, a) ELSE ErrResponse(a)

(* What serve does with a response no client would accept.                 *)
\* Slip: the response goes out as it is.
AsIs(resp) == resp
Downgraded(resp) == IF Sendable(resp.body) THEN resp ELSE ProtocolError

(* The driver: any answer of the right kind, or any error.                 *)
Answers(req) ==
    Errors \cup
    [tag : {"Ok"},
     main : IF req.insns THEN InsnLists
            ELSE IF IsAssemble(req) THEN ByteStrings ELSE Texts,
     relocs : IF req.relocs THEN RelocLists ELSE {<<>>}]

Ok(main, relocs) == [tag |-> "Ok", main |-> main, relocs |-> relocs]
Failure(tag, msg) == [tag |-> tag, msg |-> msg]
IpcError == Failure("Init", Notice)

DecodeErr(status, body) ==
    LET msg == IF body = <<>> THEN <<>> ELSE Tail(body)
    IN  IF status = Status.Protocol THEN Failure("Init", Notice \o msg)
        ELSE IF \E t \in ErrorTags : Status[t] = status
             THEN Failure(CHOOSE t \in ErrorTags : Status[t] = status, msg)
             ELSE Failure("Unknown", msg)

ReadMain(req, s)   == IF req.insns THEN ReadEach(ReadInsn, s) ELSE ReadBytes(s)
ReadRelocs(req, s) == IF req.relocs THEN ReadEach(ReadReloc, s) ELSE Parsed(<<>>, s)

DecodeOk(req, body) ==
    LET all == Then(ReadMain(req, body), LAMBDA m, r :
                   Then(ReadRelocs(req, r), LAMBDA rs, left : Parsed(Ok(m, rs), left)))
    IN  IF all = NoParse THEN IpcError
        ELSE IF ~IsAssemble(req) /\ ~req.insns /\ ~IsText(all[1].main)
             THEN Failure("DisassembleFailed", Notice)
             ELSE all[1]

Decoded(req, status, body) ==
    IF status = Status.Ok THEN DecodeOk(req, body) ELSE DecodeErr(status, body)

-----------------------------------------------------------------------------
Init ==
    /\ phase = "idle" /\ asked = None /\ c2d = <<>> /\ d2c = <<>>
    /\ daemon = "serving" /\ seen = None /\ answer = None /\ got = None

(* wire_count refuses a count of more than 32 bits; Request::write refuses *)
(* a field or a body above MaxFrame before anything is written.            *)
\* Slip: `count as u32`.
Truncates(req) == FALSE
CountTooLarge(req) == ~IsAssemble(req) /\ req.count >= Base

Call(req) ==
    /\ phase # "waiting"
    /\ asked' = req /\ seen' = None /\ answer' = None
    /\ \/ /\ CountTooLarge(req)
          /\ phase' = "done" /\ got' = Failure("DisassembleFailed", Notice)
          /\ UNCHANGED c2d
       \/ /\ ~CountTooLarge(req)
          /\ ~(RequestFits(req) /\ Sendable(RequestBody(req)))
          /\ phase' = "done" /\ got' = IpcError
          /\ UNCHANGED c2d
       \/ /\ ~CountTooLarge(req)
          /\ RequestFits(req) /\ Sendable(RequestBody(req))
          /\ phase' = "waiting" /\ got' = None
          /\ c2d' = c2d \o Frame(Opcode(req), 0, RequestBody(req))
    /\ UNCHANGED <<d2c, daemon>>

(* A peer that does not use Request::write.                                *)
SendRaw(frame) ==
    /\ phase # "waiting"
    /\ asked' = [op |-> "raw", frame |-> frame]
    /\ phase' = "waiting" /\ got' = None /\ seen' = None /\ answer' = None
    /\ c2d' = c2d \o frame
    /\ UNCHANGED <<d2c, daemon>>

(* The end of an iteration of serve.  A header that cannot be written      *)
(* would end the loop.                                                     *)
Respond(resp) ==
    IF Sendable(resp.body)
    THEN /\ d2c' = d2c \o Frame(resp.status, resp.flags, resp.body)
         /\ UNCHANGED daemon
    ELSE daemon' = "exited" /\ UNCHANGED d2c

Serve ==
    /\ daemon = "serving" /\ HasFrame(c2d)
    /\ ~Overcommits(Kind(c2d), Body(c2d))
    /\ c2d' = AfterFrame(c2d)
    /\ LET parse == ParseRequest(Kind(c2d), Body(c2d)) IN
       \/ /\ parse = NoParse
          /\ Respond(Downgraded(ProtocolError))
          /\ UNCHANGED <<seen, answer>>
       \/ /\ parse # NoParse
          /\ \E a \in Answers(parse[1]) :
                /\ seen' = parse[1] /\ answer' = a
                /\ Respond(Downgraded(Answered(parse[1], a)))
    /\ UNCHANGED <<phase, asked, got>>

(* read_frame fails in the daemon: the stream is lost.                     *)
ServeFails ==
    /\ daemon = "serving" /\ Oversized(c2d)
    /\ daemon' = "exited"
    /\ UNCHANGED <<phase, asked, c2d, d2c, seen, answer, got>>

(* with_capacity fails while the request is parsed: the process aborts.    *)
ServeAborts ==
    /\ daemon = "serving" /\ HasFrame(c2d)
    /\ Overcommits(Kind(c2d), Body(c2d))
    /\ c2d' = AfterFrame(c2d) /\ daemon' = "exited"
    /\ UNCHANGED <<phase, asked, d2c, seen, answer, got>>

Receive ==
    /\ phase = "waiting" /\ HasFrame(d2c)
    /\ phase' = "done"
    /\ got' = IF asked.op = "raw" THEN [tag |-> "raw", status |-> Kind(d2c)]
              ELSE Decoded(asked, Kind(d2c), Body(d2c))
    /\ d2c' = AfterFrame(d2c)
    /\ UNCHANGED <<asked, c2d, daemon, seen, answer>>

(* End of file, or a header the client refuses.                            *)
ReceiveFails ==
    /\ phase = "waiting"
    /\ Oversized(d2c) \/ (daemon = "exited" /\ ~HasFrame(d2c))
    /\ phase' = "done" /\ got' = IpcError
    /\ daemon' = "serving" /\ c2d' = <<>> /\ d2c' = <<>>
    /\ UNCHANGED <<asked, seen, answer>>

Next ==
    \/ \E req \in Requests : Call(req)
    \/ \E f \in RawFrames : SendRaw(f)
    \/ Serve \/ ServeFails \/ ServeAborts \/ Receive \/ ReceiveFails

Spec == Init /\ [][Next]_vars

-----------------------------------------------------------------------------
(* The daemon works on exactly the request that was made: no count,        *)
(* length or flag is lost on the way, whatever the sizes, because what     *)
(* would be truncated is refused (protocol.rs: write_bytes,                *)
(* FrameHeader::write; connection.rs: wire_count).                         *)
RequestArrives == seen # None => seen = asked

(* The caller gets the driver's answer: the very value, or an error of the *)
(* same variant with its message.  Only a response above MaxFrame becomes  *)
(* Error::Init or loses its message (nyxstone-tcd.rs: ok_or_protocol,      *)
(* err_response, serve; connection.rs: decode_err).                        *)
Same(a, g) == /\ g.tag = a.tag
              /\ a.tag = "Ok" => g = a
              /\ a.tag \notin {"Ok", "Alloc", "NullArg", "Unknown"} => g.msg = a.msg
TooLarge(req, a) ==
    IF a.tag = "Ok"
    THEN ~MainFits(req, a) \/ ~RelocsFit(a.relocs)
         \/ Len(MainBody(req, a) \o Each(Reloc, a.relocs)) > MaxFrame
    ELSE Len(a.msg) + 2 > MaxFrame
Arrives(req, a, g) ==
    Same(a, g) \/ (TooLarge(req, a) /\ g.tag \in {"Init", a.tag} \ {"Ok"})
AnswerArrives == phase = "done" /\ answer # None => Arrives(asked, answer, got)

(* Between calls both directions of the stream are empty, so the next      *)
(* response belongs to the next request; refused and malformed requests    *)
(* included (connection.rs:112-115; nyxstone-tcd.rs:80-86).                *)
StreamInSync == phase # "waiting" => c2d = <<>> /\ d2c = <<>>

(* Two things stop the daemon, and their sender sees end of file: a length *)
(* out of bounds, and a label count that no memory can be reserved for.    *)
(* Every other malformed frame gets ERR_PROTOCOL, and no answer of the     *)
(* driver can end the loop (nyxstone-tcd.rs:13-15, 77-94;                  *)
(* protocol.rs:255-258).                                                   *)
DaemonServes ==
    /\ daemon = "exited" => asked.op = "raw" /\ Fatal(asked.frame)
    /\ phase = "done" /\ asked.op = "raw"
           => got = IF Fatal(asked.frame) THEN IpcError
                    ELSE [tag |-> "raw", status |-> Status.Protocol]

-----------------------------------------------------------------------------
(* Only whole units travel: every status, count and length fits its field. *)
TypeOK ==
    /\ phase \in {"idle", "waiting", "done"} /\ daemon \in {"serving", "exited"}
    /\ c2d \in Seq(Units) /\ d2c \in Seq(Units)
    /\ asked \in Requests \cup [op : {"raw"}, frame : RawFrames] \cup {None}
=============================================================================
