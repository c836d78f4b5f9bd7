--------------------------- MODULE AssembleSession ---------------------------
(***************************************************************************)
(* Calls of assemble / assemble_with_relocs by the threads of one process, *)
(* from the Rust binding (bindings/rust/src/lib.rs) through the C ABI      *)
(* (src/nyxstone_c.cpp) and the driver (src/nyxstone.cpp: do_assemble) to  *)
(* the glue (src/nyxstone_glue.c), which works on gas's global state.      *)
(*                                                                         *)
(* Everything below the lock is process-global and survives a call: the    *)
(* symbol table, the .text frags with their fixups, gas's error counter,   *)
(* the driver's two flags, the name of an unsupported relocation and the   *)
(* redirection of stderr.  The question is whether a call can see what     *)
(* another one left behind.                                                *)
(*                                                                         *)
(* Abstractions.  A source is the sequence of its statements, each reduced *)
(* to what it does to that state.  Every instruction is one unit long and  *)
(* in its final form, so that the address of a label is the number of      *)
(* units before it.  A message is named after what raised it.              *)
(***************************************************************************)
EXTENDS Integers, Sequences, FiniteSets

CONSTANTS
    Threads,       \* threads calling the library
    NoOne,         \* no thread
    Names,         \* symbol names
    Inputs,        \* the calls they may make
    Reach,         \* displacement a short reference can hold
    MaxCalls,      \* bound: calls made in all
    AllocMayFail   \* may malloc fail in apply_text_fixups

(* insn: an instruction without symbol.  ref, near, word, odd: code that   *)
(* refers to a name, by a displacement that always fits, by one within     *)
(* Reach, by its absolute address, or in a form the encoder does not know. *)
(* def: a label.  bad: gas reports an error.  org: .org backwards, an      *)
(* error found during layout.  reject, quoting: the driver refuses a       *)
(* directive; quoting's message contains "only .text is allowed".          *)
(* section: .data and the like.  huge: a .skip whose buffer cannot be      *)
(* allocated.  fatal: gas exits the process.                               *)
References == {"ref", "near", "word", "odd"}
Units      == References \cup {"insn"}
Placed     == Units \cup {"org"}     \* what takes a place in .text
Rejections == {"reject", "quoting"}
Ops == Units \cup Rejections \cup {"def", "bad", "org", "section", "huge", "fatal"}

Statements == [op : Ops, name : Names]

InputType == [source : Seq(Statements),
              labels : Seq([name : Names, address : Nat]),
              address : Nat, relocs : BOOLEAN]

ASSUME SessionAssumption ==
    /\ NoOne \notin Threads /\ MaxCalls \in Nat /\ Reach \in Nat
    /\ AllocMayFail \in BOOLEAN
    /\ Inputs \subseteq InputType

VARIABLES
    lock,         \* GLOBAL_LOCK of the Rust binding
    pc,           \* where each thread is in its call
    input,        \* the arguments of its current or last call
    result,       \* what its last call returned
    local,        \* do_assemble's locals
    symbols,      \* gas's symbol table
    text,         \* the units of .text with the fields encoded so far
    errors,       \* gas's error counter, never reset
    section,      \* g_section_violation
    directive,    \* g_directive_error: the first rejection, or ""
    unsupported,  \* g_unsupported_reloc is set
    capturing,    \* stderr is redirected into the capture buffer
    caplog,       \* messages in the capture buffer
    hostlog,      \* messages of gas on the host's own stderr
    process,      \* running, or exited by as_fatal
    made          \* calls made so far

gas     == <<symbols, text, errors, unsupported>>
flags   == <<section, directive>>
streams == <<capturing, caplog, hostlog>>
caller  == <<lock, input, result, made>>
vars    == <<caller, pc, local, gas, flags, streams, process>>

Undefined  == [seg |-> "undefined", val |-> 0]
InText(v)  == [seg |-> "text", val |-> v]
Absolute(v) == [seg |-> "absolute", val |-> v]
IsDefined(n) == symbols[n].seg # "undefined"

Unit(st, field) == [op |-> st.op, name |-> st.name, field |-> field]

(* The C ABI's status for an error text.  quoting repeats the phrase that  *)
(* classify_assemble_error looks for.                                      *)
Classify(why) == IF why \in {"section", "quoting"} THEN "SECTION_VIOLATION"
                 ELSE IF why = "huge" THEN "ALLOC"
                 ELSE "ASSEMBLE_FAILED"

Failure(why, diag) == [status |-> Classify(why), why |-> why, diag |-> diag,
                       bytes |-> <<>>, relocs |-> <<>>]
Success(bytes, relocs) == [status |-> "OK", why |-> "", diag |-> {},
                           bytes |-> bytes, relocs |-> relocs]
Nothing == [status |-> "none", why |-> "", diag |-> {},
            bytes |-> <<>>, relocs |-> <<>>]
NoInput == [source |-> <<>>, labels |-> <<>>, address |-> 0, relocs |-> FALSE]

Start == [pos |-> 1, before |-> 0, parse_err |-> FALSE, unresolved |-> 0,
          starved |-> FALSE]

Init ==
    /\ lock = NoOne /\ made = 0 /\ process = "running"
    /\ pc      = [t \in Threads |-> "idle"]
    /\ input   = [t \in Threads |-> NoInput]
    /\ result  = [t \in Threads |-> Nothing]
    /\ local   = [t \in Threads |-> Start]
    /\ symbols = [n \in Names |-> Undefined]
    /\ text = <<>> /\ errors = 0 /\ unsupported = FALSE
    /\ section = FALSE /\ directive = ""
    /\ capturing = FALSE /\ caplog = {} /\ hostlog = {}

(* as_bad: counts, and prints to whatever stderr is.                       *)
Report(msgs) ==
    IF capturing THEN caplog' = caplog \cup msgs /\ UNCHANGED hostlog
                 ELSE hostlog' = hostlog \cup msgs /\ UNCHANGED caplog

Bad(msg) == errors' = errors + 1 /\ Report({msg}) /\ UNCHANGED capturing

-----------------------------------------------------------------------------
(* Entering a call.                                                        *)

(* Label names are packed before the lock is taken.                        *)
Call(t) ==
    /\ process = "running" /\ pc[t] = "idle" /\ made < MaxCalls
    /\ \E in \in Inputs : input' = [input EXCEPT ![t] = in]
    /\ pc'     = [pc EXCEPT ![t] = "waiting"]
    /\ result' = [result EXCEPT ![t] = Nothing]
    /\ made'   = made + 1
    /\ UNCHANGED <<lock, local, gas, flags, streams, process>>

LockIgnored == TRUE
LockFree    == lock = NoOne

Acquire(t) ==
    /\ process = "running" /\ pc[t] = "waiting" /\ LockFree
    /\ lock' = t
    /\ pc'   = [pc EXCEPT ![t] = "begin"]
    /\ UNCHANGED <<input, result, made, local, gas, flags, streams, process>>

(* nyxstone_glue_reset.  It leaves the error counter and                   *)
(* g_unsupported_reloc alone.                                              *)
SymbolsKept == text' = <<>> /\ UNCHANGED <<symbols, errors, unsupported>>
GlueReset ==
    /\ symbols' = [n \in Names |-> Undefined]
    /\ text' = <<>>
    /\ UNCHANGED <<errors, unsupported>>

NoRedirection == caplog' = {} /\ UNCHANGED <<capturing, hostlog>>
BeginCapture  == capturing' = TRUE /\ caplog' = {} /\ UNCHANGED hostlog

Begin(t) ==
    /\ process = "running" /\ pc[t] = "begin"
    /\ GlueReset /\ BeginCapture
    /\ section' = FALSE /\ directive' = ""
    /\ local' = [local EXCEPT ![t] = [Start EXCEPT !.before = errors]]
    /\ pc'    = [pc EXCEPT ![t] = "parse"]
    /\ UNCHANGED <<caller, process>>

-----------------------------------------------------------------------------
(* Parsing: one action per kind of statement, in the order of the source.  *)

At(t, ops) ==
    /\ process = "running" /\ pc[t] = "parse"
    /\ local[t].pos <= Len(input[t].source)
    /\ input[t].source[local[t].pos].op \in ops
Here(t) == input[t].source[local[t].pos]
Advance(t) ==
    /\ local' = [local EXCEPT ![t].pos = @ + 1]
    /\ UNCHANGED <<caller, pc, process>>

(* md_assemble, cons: a unit, with a fixup if it refers to a name.         *)
Emits(t) ==
    /\ At(t, Units)
    /\ text' = Append(text, Unit(Here(t), {}))
    /\ Advance(t)
    /\ UNCHANGED <<symbols, errors, unsupported, flags, streams>>

(* colon: a label is defined once.                                         *)
DefinesLabel(t) ==
    /\ At(t, {"def"})
    /\ LET n == Here(t).name IN
       \/ /\ ~ IsDefined(n)
          /\ symbols' = [symbols EXCEPT ![n] = InText(Len(text))]
          /\ UNCHANGED <<errors, streams>>
       \/ IsDefined(n) /\ Bad("redefined") /\ UNCHANGED symbols
    /\ Advance(t)
    /\ UNCHANGED <<text, unsupported, flags>>

GasRejects(t) ==
    /\ At(t, {"bad"}) /\ Bad("bad") /\ Advance(t)
    /\ UNCHANGED <<symbols, text, unsupported, flags>>

(* A backward .org is a frag of its own, given the place of one unit; the   *)
(* error comes with the layout.                                            *)
MovesBackwards(t) ==
    /\ At(t, {"org"})
    /\ text' = Append(text, Unit(Here(t), {}))
    /\ Advance(t)
    /\ UNCHANGED <<symbols, errors, unsupported, flags, streams>>

(* directive_error: the first one wins.                                    *)
DriverRejects(t) ==
    /\ At(t, Rejections)
    /\ directive' = IF directive = "" THEN Here(t).op ELSE directive
    /\ Advance(t)
    /\ UNCHANGED <<gas, section, streams>>

SwitchesSection(t) ==
    /\ At(t, {"section"}) /\ section' = TRUE /\ Advance(t)
    /\ UNCHANGED <<gas, directive, streams>>

(* The guard of GLOBAL_LOCK goes out of scope.                             *)
LockKept == UNCHANGED lock
Release  == lock' = NoOne

(* The vector behind .skip throws.  NYXSTONE_CATCH_ALL turns the exception *)
(* into a status; do_assemble never reaches nyxstone_glue_end_capture.     *)
Throws(t) ==
    /\ At(t, {"huge"})
    /\ result' = [result EXCEPT ![t] = Failure("huge", {})]
    /\ Release
    /\ pc' = [pc EXCEPT ![t] = "idle"]
    /\ UNCHANGED <<input, made, local, gas, flags, streams, process>>

(* as_fatal: exit(), whatever the other threads are doing.                 *)
GasExits(t) ==
    /\ At(t, {"fatal"}) /\ process' = "exited"
    /\ UNCHANGED <<caller, pc, local, gas, flags, streams>>

Parsed(t) ==
    /\ process = "running" /\ pc[t] = "parse"
    /\ local[t].pos > Len(input[t].source)
    /\ local' = [local EXCEPT ![t].pos = 1]
    /\ pc'    = [pc EXCEPT ![t] = "labels"]
    /\ UNCHANGED <<caller, gas, flags, streams, process>>

-----------------------------------------------------------------------------
(* After the parse.                                                        *)

LabelsToDefine(t) == IF input[t].relocs THEN <<>> ELSE input[t].labels

(* nyxstone_glue_define_abs, one LabelDefinition at a time.                *)
DefineAbs(t) ==
    /\ process = "running" /\ pc[t] = "labels"
    /\ local[t].pos <= Len(LabelsToDefine(t))
    /\ LET l == LabelsToDefine(t)[local[t].pos] IN
       \/ /\ ~ IsDefined(l.name)
          /\ symbols' = [symbols EXCEPT ![l.name] = Absolute(l.address)]
          /\ UNCHANGED <<errors, streams>>
       \/ IsDefined(l.name) /\ Bad("twice") /\ UNCHANGED symbols
    /\ Advance(t)
    /\ UNCHANGED <<text, unsupported, flags>>

(* parse_err.  With any error so far the fixups are left alone.            *)
LabelsDone(t) ==
    /\ process = "running" /\ pc[t] = "labels"
    /\ local[t].pos > Len(LabelsToDefine(t))
    /\ LET failed == errors # local[t].before IN
       /\ local' = [local EXCEPT ![t].parse_err = failed]
       /\ pc' = [pc EXCEPT ![t] = IF failed \/ section \/ directive # ""
                                  THEN "finish" ELSE "resolve"]
    /\ UNCHANGED <<caller, gas, flags, streams, process>>

(* The address of unit i, and of a defined symbol.                         *)
SiteOf(i, base)   == base + i - 1
SymAbs(n, base)   == IF symbols[n].seg = "text" THEN base + symbols[n].val
                                                ELSE symbols[n].val
(* The value to encode: absolute, or relative to the site.                 *)
ForgetsBase(i, base) ==
    IF text[i].op = "word" THEN SymAbs(text[i].name, base)
    ELSE SymAbs(text[i].name, base) - (i - 1)
FieldValue(i, base) ==
    IF text[i].op = "word" THEN SymAbs(text[i].name, base)
    ELSE SymAbs(text[i].name, base) - SiteOf(i, base)

Fixups         == {i \in DOMAIN text : text[i].op \in References}
DefinedFixups  == {i \in Fixups : IsDefined(text[i].name)}
PendingFixups  == Fixups \ DefinedFixups
BackwardOrgs   == {i \in DOMAIN text : text[i].op = "org"}
TooFar(base)   == {i \in DefinedFixups :
                      /\ text[i].op = "near"
                      /\ FieldValue(i, base) \notin (-Reach)..Reach}
UnknownForms   == {i \in DefinedFixups : text[i].op = "odd"}

(* Layout, then apply_text_fixups.  The image buffer may not be allocated: *)
(* it returns without encoding anything; only properties read `starved`.   *)
Resolve(t) ==
    /\ process = "running" /\ pc[t] = "resolve"
    /\ LET base == input[t].address IN
       \/ /\ text' = [i \in DOMAIN text |->
                IF i \in DefinedFixups \ (TooFar(base) \cup UnknownForms)
                THEN Unit(text[i], {FieldValue(i, base)}) ELSE text[i]]
          /\ errors' = errors + Cardinality(BackwardOrgs \cup TooFar(base))
          /\ Report({text[i].op : i \in BackwardOrgs \cup TooFar(base)})
          /\ unsupported' = (UnknownForms # {})
          /\ local' = [local EXCEPT ![t].unresolved = Cardinality(PendingFixups)]
       \/ /\ AllocMayFail /\ text # <<>>
          /\ errors' = errors + Cardinality(BackwardOrgs)
          /\ Report({text[i].op : i \in BackwardOrgs})
          /\ unsupported' = FALSE /\ UNCHANGED text
          /\ local' = [local EXCEPT ![t].unresolved = Cardinality(PendingFixups),
                                    ![t].starved = TRUE]
    /\ pc'    = [pc EXCEPT ![t] = "finish"]
    /\ UNCHANGED <<caller, symbols, flags, capturing, process>>

(* nyxstone_glue_collect_relocs and the driver's loop over its result: in  *)
(* the order of the fixups, absolute offsets, the address of the first     *)
(* matching LabelDefinition as a hint.                                     *)
InOrder(sites) ==
    [k \in 1..Cardinality(sites) |->
        CHOOSE i \in sites : Cardinality({j \in sites : j < i}) = k - 1]

Hint(labels, n) ==
    LET at == {k \in DOMAIN labels : labels[k].name = n} IN
    {labels[k].address : k \in {i \in at : \A j \in at : i <= j}}

SectionOffset(i, base) == i - 1
RelocOffset(i, base)   == SiteOf(i, base)

Relocations(in) ==
    LET sites == InOrder(PendingFixups) IN
    [k \in DOMAIN sites |->
        [offset |-> RelocOffset(sites[k], in.address),
         symbol |-> text[sites[k]].name,
         hint   |-> Hint(in.labels, text[sites[k]].name)]]

(* Which error is reported when there are several.                         *)
Outcome(t) ==
    LET in == input[t] IN
    IF directive # "" THEN Failure(directive, {})
    ELSE IF section THEN Failure("section", {})
    ELSE IF local[t].parse_err THEN Failure("gas", caplog)
    ELSE IF unsupported THEN Failure("unsupported", {})
    ELSE IF errors # local[t].before THEN Failure("gas", caplog)
    ELSE IF ~ in.relocs /\ local[t].unresolved > 0
         THEN Failure("undefined", {text[i].name : i \in PendingFixups})
    ELSE Success(text, IF in.relocs THEN Relocations(in) ELSE <<>>)

Finish(t) ==
    /\ process = "running" /\ pc[t] = "finish"
    /\ result' = [result EXCEPT ![t] = Outcome(t)]
    /\ capturing' = FALSE
    /\ Release
    /\ pc' = [pc EXCEPT ![t] = "idle"]
    /\ UNCHANGED <<input, made, local, gas, flags, caplog, hostlog, process>>

-----------------------------------------------------------------------------
Statement(t) ==
    \/ Emits(t) \/ DefinesLabel(t) \/ GasRejects(t) \/ MovesBackwards(t)
    \/ DriverRejects(t) \/ SwitchesSection(t) \/ Throws(t) \/ GasExits(t)

Step(t) == \/ Acquire(t) \/ Begin(t) \/ Statement(t) \/ Parsed(t)
           \/ DefineAbs(t) \/ LabelsDone(t) \/ Resolve(t) \/ Finish(t)

(* Nobody is inside the library and nobody is about to call it.  Whether a *)
(* thread is still waiting then is CallsEnd's question.                    *)
Inside == {"begin", "parse", "labels", "resolve", "finish"}
Quiescent == /\ \/ process = "exited"
                \/ made = MaxCalls /\ \A t \in Threads : pc[t] \notin Inside
             /\ UNCHANGED vars

Next == (\E t \in Threads : Call(t) \/ Step(t)) \/ Quiescent

Spec == Init /\ [][Next]_vars /\ \A t \in Threads : WF_vars(Step(t))

-----------------------------------------------------------------------------
(* The types, and GLOBAL_LOCK being held by the one thread inside.         *)
TypeOK ==
    /\ lock \in Threads \cup {NoOne}
    /\ pc \in [Threads -> Inside \cup {"idle", "waiting"}]
    /\ \A t \in Threads : process = "running" =>
           (pc[t] \in Inside <=> lock = t)
    /\ input \in [Threads -> Inputs \cup {NoInput}]
    /\ symbols \in [Names -> [seg : {"undefined", "text", "absolute"}, val : Nat]]
    /\ \A i \in DOMAIN text : text[i].op \in Placed
    /\ errors \in Nat /\ made \in 0..MaxCalls
    /\ unsupported \in BOOLEAN /\ section \in BOOLEAN
    /\ directive \in Rejections \cup {""}
    /\ capturing \in BOOLEAN /\ process \in {"running", "exited"}

(* What a call returns, as a function of its arguments alone: no lock, no  *)
(* counters, no passes.                                                    *)
Has(src, ops)      == \E i \in DOMAIN src : src[i].op \in ops
Count(src, ops, i) == Cardinality({j \in 1..i : src[j].op \in ops})
Places(src, op, n) == {i \in DOMAIN src : src[i].op = op /\ src[i].name = n}
Given(in, n) == {k \in DOMAIN in.labels : ~ in.relocs /\ in.labels[k].name = n}
Target(in, n) ==
    {in.address + Count(in.source, Placed, i) : i \in Places(in.source, "def", n)}
    \cup {in.labels[k].address : k \in Given(in, n)}

Redefined(src, n) == \E i, j \in Places(src, "def", n) : i # j
TwiceGiven(in, n) == \E k \in Given(in, n) :
    Places(in.source, "def", n) # {} \/ \E m \in Given(in, n) : m # k
Complaints(in) ==
    {m \in {"bad"} : Has(in.source, {"bad"})}
    \cup {m \in {"redefined"} : \E n \in Names : Redefined(in.source, n)}
    \cup {m \in {"twice"} : \E n \in Names : TwiceGiven(in, n)}

(* The statements that take a place, those that refer to a name, the ones  *)
(* whose name nobody defines, and what each of the others encodes.         *)
Body(src) ==
    LET at == InOrder({i \in DOMAIN src : src[i].op \in Placed})
    IN  [k \in DOMAIN at |-> src[at[k]]]
Sites(in) == {i \in DOMAIN Body(in.source) : Body(in.source)[i].op \in References}
Open(in)  == {i \in Sites(in) : Target(in, Body(in.source)[i].name) = {}}
Value(in, i) ==
    {v - (IF Body(in.source)[i].op = "word" THEN 0 ELSE in.address + i - 1) :
         v \in Target(in, Body(in.source)[i].name)}
Far(in) == {i \in Sites(in) \ Open(in) :
                /\ Body(in.source)[i].op = "near"
                /\ \E v \in Value(in, i) : v > Reach \/ v < -Reach}
Late(in) == {op \in {"org"} : Has(in.source, {"org"})}
            \cup {op \in {"near"} : Far(in) # {}}

FirstRejection(src) ==
    src[CHOOSE i \in DOMAIN src : /\ src[i].op \in Rejections
                                 /\ Count(src, Rejections, i) = 1].op

Assembled(in) ==
    LET body == Body(in.source) IN
    Success([i \in DOMAIN body |->
                Unit(body[i], IF i \in Sites(in) THEN Value(in, i) ELSE {})],
            IF ~ in.relocs THEN <<>> ELSE
            [k \in DOMAIN InOrder(Open(in)) |->
                LET i == InOrder(Open(in))[k] IN
                [offset |-> in.address + i - 1, symbol |-> body[i].name,
                 hint |-> Hint(in.labels, body[i].name)]])

Expected(in) ==
    LET src == in.source IN
    IF Has(src, {"huge"}) THEN Failure("huge", {})
    ELSE IF Has(src, Rejections) THEN Failure(FirstRejection(src), {})
    ELSE IF Has(src, {"section"}) THEN Failure("section", {})
    ELSE IF Complaints(in) # {} THEN Failure("gas", Complaints(in))
    ELSE IF \E i \in Sites(in) \ Open(in) : Body(src)[i].op = "odd"
         THEN Failure("unsupported", {})
    ELSE IF Late(in) # {} THEN Failure("gas", Late(in))
    ELSE IF ~ in.relocs /\ Open(in) # {}
         THEN Failure("undefined", {Body(src)[i].name : i \in Open(in)})
    ELSE Assembled(in)

Returned(t) == pc[t] = "idle" /\ result[t] # Nothing
Succeeded(t) == Returned(t) /\ result[t].status = "OK"

(* A call's result depends on its arguments only, whatever earlier or      *)
(* concurrent calls did to gas's globals: nyxstone_glue_reset, the two     *)
(* flags, the error counter, g_unsupported_reloc and the capture buffer    *)
(* (do_assemble, nyxstone.cpp:456-464), unless memory ran out in this very *)
(* call.                                                                   *)
Isolated == \A t \in Threads :
    Returned(t) /\ ~ local[t].starved => result[t] = Expected(input[t])

(* No message of gas reaches the stderr of the host process                *)
(* (nyxstone.cpp:461-463).                                                 *)
GasSilent == hostlog = {}

(* Assembling with the labels given, and linking the relocatable result    *)
(* against the hints it carries, produce the same bytes                    *)
(* (nyxstone.cpp:430-446).                                                 *)
Linked(in, r) ==
    [i \in DOMAIN r.bytes |->
        LET site == SiteOf(i, in.address)
            at == {k \in DOMAIN r.relocs : r.relocs[k].offset = site}
            base == IF r.bytes[i].op = "word" THEN 0 ELSE site
        IN  IF at = {} THEN r.bytes[i]
            ELSE [r.bytes[i] EXCEPT
                    !.field = UNION {{h - base : h \in r.relocs[k].hint} : k \in at}]]
ModesAgree ==
    \A t, u \in Threads :
        /\ ~ local[t].starved /\ ~ local[u].starved
        /\ Succeeded(t) /\ ~ input[t].relocs
        /\ Succeeded(u) /\ input[u] = [input[t] EXCEPT !.relocs = TRUE]
        => Linked(input[u], result[u]) = result[t].bytes

(* Code that refers to its own labels by displacement assembles to the     *)
(* same bytes at every address (nyxstone.cpp:530-536).                     *)
OwnLabelsOnly(src) ==
    \A i \in DOMAIN src :
        /\ src[i].op # "word"
        /\ src[i].op \in References => Places(src, "def", src[i].name) # {}
PositionIndependent ==
    \A t, u \in Threads :
        /\ ~ local[t].starved /\ ~ local[u].starved
        /\ Returned(t) /\ Returned(u) /\ OwnLabelsOnly(input[t].source)
        /\ input[u] = [input[t] EXCEPT !.address = input[u].address]
        /\ ~ input[t].relocs
        => result[u] = result[t]

(* A call ends, unless gas takes the process down (as_fatal).              *)
CallsEnd == \A t \in Threads :
                pc[t] # "idle" ~> (pc[t] = "idle" \/ process = "exited")

-----------------------------------------------------------------------------
(* What comments and declarations of the code say.                         *)

(* nyxstone.cpp:461: stderr is captured "for the whole parse + fixup       *)
(* window": outside a call it is the host's again.                         *)
StderrRestored == lock = NoOne => ~ capturing
=============================================================================
