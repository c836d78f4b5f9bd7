----------------------- MODULE AssembleSession_proofs -----------------------
(***************************************************************************)
(* For any threads, any names and any inputs: GLOBAL_LOCK is held by the   *)
(* one thread inside the library, gas's state keeps its types, and no      *)
(* message of gas reaches the host's stderr.                               *)
(*                                                                         *)
(* The lock is what makes the capture work.  A thread in a step that may   *)
(* print holds the lock, so no other thread's finish can have ended the    *)
(* redirection its own begin made: Window says so, and is not inductive    *)
(* without Exclusive.                                                      *)
(***************************************************************************)
EXTENDS AssembleSession, FiniteSetTheorems, FunctionTheorems, TLAPS

(* The units of .text, in full.                                            *)
TextUnits == [op : Placed, name : Names, field : SUBSET Int]

Locals == [pos : Nat \ {0}, before : Nat, parse_err : BOOLEAN,
           unresolved : Nat, starved : BOOLEAN]

SymbolValues == [seg : {"undefined", "text", "absolute"}, val : Nat]

CallTypes ==
    /\ lock \in Threads \cup {NoOne}
    /\ pc \in [Threads -> Inside \cup {"idle", "waiting"}]
    /\ input \in [Threads -> Inputs \cup {NoInput}]
    /\ local \in [Threads -> Locals]
    /\ made \in 0..MaxCalls
    /\ process \in {"running", "exited"}

GasTypes ==
    /\ symbols \in [Names -> SymbolValues]
    /\ text \in Seq(TextUnits)
    /\ errors \in Nat
    /\ unsupported \in BOOLEAN

FlagTypes ==
    /\ section \in BOOLEAN
    /\ directive \in Rejections \cup {""}
    /\ capturing \in BOOLEAN

Exclusive == \A t \in Threads :
    process = "running" => (pc[t] \in Inside <=> lock = t)

(* Between its begin and its finish a call has stderr redirected.          *)
Printing == Inside \ {"begin"}
Window == \A t \in Threads :
    process = "running" /\ pc[t] \in Printing => capturing

SInv == /\ CallTypes /\ GasTypes /\ FlagTypes
        /\ Exclusive /\ Window /\ GasSilent

-----------------------------------------------------------------------------
(* The arguments of a call have their types, also before the first call.   *)
LEMMA InputTyped ==
    ASSUME CallTypes, NEW t \in Threads
    PROVE  /\ input[t] \in InputType
           /\ input[t].source \in Seq(Statements)
           /\ input[t].labels \in Seq([name : Names, address : Nat])
           /\ input[t].address \in Nat
           /\ input[t].relocs \in BOOLEAN
<1>1. input[t] \in Inputs \cup {NoInput}
    BY DEF CallTypes
<1>2. NoInput \in InputType
    <2>1. <<>> \in Seq(Statements)
        OBVIOUS
    <2>2. <<>> \in Seq([name : Names, address : Nat])
        OBVIOUS
    <2>3. QED BY <2>1, <2>2 DEF NoInput, InputType
<1>3. input[t] \in InputType
    BY <1>1, <1>2, SessionAssumption
<1>4. QED BY <1>3 DEF InputType

(* The statement a thread is at is one of its source.                      *)
LEMMA HereTyped ==
    ASSUME CallTypes, NEW t \in Threads, NEW ops, At(t, ops)
    PROVE  Here(t) \in Statements /\ Here(t).op \in ops
<1>1. local[t] \in Locals
    BY DEF CallTypes
<1>2. local[t].pos \in Nat \ {0}
    BY <1>1 DEF Locals
<1>3. input[t].source \in Seq(Statements)
    BY InputTyped
<1>4. local[t].pos \in 1..Len(input[t].source)
    BY <1>2, <1>3 DEF At
<1>5. QED BY <1>3, <1>4 DEF At, Here

(* Each set of units the layout counts is finite.                          *)
LEMMA Counted ==
    ASSUME GasTypes, NEW sites \in SUBSET (DOMAIN text)
    PROVE  IsFiniteSet(sites) /\ Cardinality(sites) \in Nat
<1>1. Len(text) \in Nat /\ DOMAIN text = 1..Len(text)
    BY DEF GasTypes
<1>2. IsFiniteSet(1..Len(text))
    BY <1>1, FS_Interval
<1>3. IsFiniteSet(sites)
    BY <1>1, <1>2, FS_Subset
<1>4. QED BY <1>3, FS_CardinalityType

(* A fixup whose symbol is defined has an integer to encode.               *)
LEMMA FieldTyped ==
    ASSUME GasTypes, NEW i \in DOMAIN text, NEW base \in Nat
    PROVE  FieldValue(i, base) \in Int
<1>1. Len(text) \in Nat /\ DOMAIN text = 1..Len(text) /\ text[i] \in TextUnits
    BY DEF GasTypes
<1>2. text[i].name \in Names
    BY <1>1 DEF TextUnits
<1>3. symbols[text[i].name] \in SymbolValues
    BY <1>2 DEF GasTypes
<1>4. symbols[text[i].name].val \in Nat
    BY <1>3 DEF SymbolValues
<1>5. SymAbs(text[i].name, base) \in Int
    BY <1>4 DEF SymAbs
<1>6. SiteOf(i, base) \in Int
    BY <1>1 DEF SiteOf
<1>7. QED BY <1>5, <1>6 DEF FieldValue

-----------------------------------------------------------------------------
(* The state of the caller.                                                *)

LEMMA StartTyped == Start \in Locals
BY DEF Start, Locals

LEMMA UndefinedTyped == Undefined \in SymbolValues
BY DEF Undefined, SymbolValues

LEMMA EmptyText == <<>> \in Seq(TextUnits)
OBVIOUS

LEMMA InitSInv == Init => SInv
<1> SUFFICES ASSUME Init PROVE SInv
    OBVIOUS
<1>1. local \in [Threads -> Locals]
    BY StartTyped DEF Init
<1>2. CallTypes
    <2>1. made \in 0..MaxCalls
        <3>1. made = 0
            BY DEF Init
        <3>2. MaxCalls \in Nat
            BY SessionAssumption
        <3>3. QED BY <3>1, <3>2
    <2>2. /\ lock \in Threads \cup {NoOne}
          /\ pc \in [Threads -> Inside \cup {"idle", "waiting"}]
          /\ input \in [Threads -> Inputs \cup {NoInput}]
          /\ process \in {"running", "exited"}
        BY DEF Init
    <2>3. QED BY <1>1, <2>1, <2>2 DEF CallTypes
<1>3. GasTypes
    <2>1. symbols \in [Names -> SymbolValues]
        BY UndefinedTyped DEF Init
    <2>2. text \in Seq(TextUnits)
        <3>1. text = <<>>
            BY DEF Init
        <3>2. QED BY <3>1, EmptyText
    <2>3. errors \in Nat /\ unsupported \in BOOLEAN
        BY DEF Init
    <2>4. QED BY <2>1, <2>2, <2>3 DEF GasTypes
<1>4. FlagTypes
    BY DEF Init, FlagTypes
<1>5. Exclusive
    BY SessionAssumption DEF Init, Exclusive, Inside
<1>6. Window
    BY DEF Init, Window, Printing, Inside
<1>7. GasSilent
    BY DEF Init, GasSilent
<1>8. QED BY <1>2, <1>3, <1>4, <1>5, <1>6, <1>7 DEF SInv

(* A thread inside holds the lock, and every other thread is outside.      *)
LEMMA OthersOutside ==
    ASSUME SInv, process = "running", NEW t \in Threads, pc[t] \in Inside
    PROVE  lock = t /\ \A u \in Threads \ {t} : pc[u] \notin Inside
BY DEF SInv, Exclusive

(* A thread that reports anything has stderr redirected.                   *)
LEMMA ReportIsSilent ==
    ASSUME SInv, process = "running", NEW t \in Threads, pc[t] \in Printing,
           NEW msgs, Report(msgs)
    PROVE  UNCHANGED hostlog
BY DEF SInv, Window, Report

(* A step of a thread inside that stays inside, or moves on among the      *)
(* places where it may print, keeps the lock and the window.               *)
LEMMA StaysInside ==
    ASSUME SInv, process = "running", NEW t \in Threads,
           pc[t] \in Printing, NEW next \in Printing,
           pc' = [pc EXCEPT ![t] = next], UNCHANGED <<lock, capturing>>
    PROVE  Exclusive' /\ Window'
<1>1. pc[t] \in Inside /\ next \in Inside
    BY DEF Printing
<1>2. lock = t /\ capturing
    BY <1>1, OthersOutside DEF SInv, Window
<1>3. \A u \in Threads : pc'[u] = IF u = t THEN next ELSE pc[u]
    BY DEF SInv, CallTypes
<1>4. Exclusive'
    BY <1>1, <1>2, <1>3 DEF SInv, Exclusive
<1>5. Window'
    BY <1>2 DEF Window
<1>6. QED BY <1>4, <1>5

(* Leaving: the lock is free and nobody is inside.                         *)
LEMMA Leaves ==
    ASSUME SInv, process = "running", NEW t \in Threads, pc[t] \in Inside,
           pc' = [pc EXCEPT ![t] = "idle"], Release
    PROVE  Exclusive' /\ Window'
<1>1. lock = t /\ \A u \in Threads \ {t} : pc[u] \notin Inside
    BY OthersOutside
<1>2. \A u \in Threads : pc'[u] = IF u = t THEN "idle" ELSE pc[u]
    BY DEF SInv, CallTypes
<1>3. \A u \in Threads : pc'[u] \notin Inside
    BY <1>1, <1>2 DEF Inside
<1>4. Exclusive'
    BY <1>3, SessionAssumption DEF Exclusive, Release
<1>5. Window'
    BY <1>3 DEF Window, Printing
<1>6. QED BY <1>4, <1>5

(* Advance keeps the types of the call.                                    *)
LEMMA AdvanceTypes ==
    ASSUME SInv, NEW t \in Threads, Advance(t)
    PROVE  CallTypes'
<1>1. local[t] \in Locals /\ local[t].pos \in Nat \ {0}
    BY DEF SInv, CallTypes, Locals
<1>2. [local[t] EXCEPT !.pos = @ + 1] \in Locals
    BY <1>1 DEF Locals
<1>3. local' \in [Threads -> Locals]
    BY <1>2 DEF Advance, SInv, CallTypes
<1>4. QED BY <1>3 DEF Advance, SInv, CallTypes, caller

(* A statement, or one given label: nothing of the call but the position   *)
(* changes, and what it prints goes where the window says.                 *)
LEMMA AdvanceKeeps ==
    ASSUME SInv, process = "running", NEW t \in Threads, pc[t] \in Printing,
           Advance(t), UNCHANGED capturing
    PROVE  CallTypes' /\ Exclusive' /\ Window'
<1>1. CallTypes'
    BY AdvanceTypes
<1>2. Exclusive' /\ Window'
    BY DEF SInv, Exclusive, Window, Advance, caller
<1>3. QED BY <1>1, <1>2

(* gas counts an error and prints it into the capture buffer.              *)
LEMMA BadKeeps ==
    ASSUME SInv, process = "running", NEW t \in Threads, pc[t] \in Printing,
           NEW msg, Bad(msg)
    PROVE  /\ errors' \in Nat
           /\ UNCHANGED <<hostlog, capturing>>
<1>1. UNCHANGED hostlog
    BY ReportIsSilent DEF Bad
<1>2. QED BY <1>1 DEF SInv, GasTypes, Bad

-----------------------------------------------------------------------------
(* One lemma per action.                                                   *)

LEMMA CallSInv ==
    ASSUME SInv, NEW t \in Threads, Call(t)
    PROVE  SInv'
<1>1. PICK in \in Inputs : input' = [input EXCEPT ![t] = in]
    BY DEF Call
<1>2. CallTypes'
    <2>1. input' \in [Threads -> Inputs \cup {NoInput}]
        BY <1>1 DEF SInv, CallTypes
    <2>2. made' \in 0..MaxCalls
        BY SessionAssumption DEF Call, SInv, CallTypes
    <2>3. QED BY <2>1, <2>2 DEF Call, SInv, CallTypes
<1>3. \A u \in Threads : pc'[u] = IF u = t THEN "waiting" ELSE pc[u]
    BY DEF Call, SInv, CallTypes
<1>4. Exclusive'
    BY <1>3 DEF Call, SInv, Exclusive, Inside
<1>5. Window'
    BY <1>3 DEF Call, SInv, Window, Printing, Inside, streams
<1>6. GasTypes' /\ FlagTypes' /\ GasSilent'
    BY DEF Call, SInv, GasTypes, FlagTypes, GasSilent, gas, flags, streams
<1>7. QED BY <1>2, <1>4, <1>5, <1>6 DEF SInv

LEMMA AcquireSInv ==
    ASSUME SInv, NEW t \in Threads, Acquire(t)
    PROVE  SInv'
<1>1. CallTypes'
    BY DEF Acquire, SInv, CallTypes, Inside
<1>2. \A u \in Threads : pc'[u] = IF u = t THEN "begin" ELSE pc[u]
    BY DEF Acquire, SInv, CallTypes
<1>3. \A u \in Threads : pc[u] \notin Inside
    BY SessionAssumption DEF Acquire, LockFree, SInv, Exclusive
<1>4. Exclusive'
    BY <1>2, <1>3 DEF Acquire, Exclusive, Inside
<1>5. Window'
    BY <1>2, <1>3 DEF Window, Printing
<1>6. GasTypes' /\ FlagTypes' /\ GasSilent'
    BY DEF Acquire, SInv, GasTypes, FlagTypes, GasSilent, gas, flags, streams
<1>7. QED BY <1>1, <1>4, <1>5, <1>6 DEF SInv

LEMMA BeginSInv ==
    ASSUME SInv, NEW t \in Threads, Begin(t)
    PROVE  SInv'
<1>0. process = "running" /\ pc[t] = "begin" /\ process' = "running"
    BY DEF Begin
<1>1. CallTypes'
    <2>1. [Start EXCEPT !.before = errors] \in Locals
        BY StartTyped DEF SInv, GasTypes, Locals
    <2>2. local' \in [Threads -> Locals]
        BY <2>1 DEF Begin, SInv, CallTypes
    <2>3. QED BY <2>2 DEF Begin, SInv, CallTypes, Inside, caller
<1>2. GasTypes'
    <2>1. symbols' \in [Names -> SymbolValues]
        BY UndefinedTyped DEF Begin, GlueReset
    <2>2. text' \in Seq(TextUnits)
        <3>1. text' = <<>>
            BY DEF Begin, GlueReset
        <3>2. QED BY <3>1, EmptyText
    <2>3. QED BY <2>1, <2>2 DEF Begin, GlueReset, SInv, GasTypes
<1>3. FlagTypes'
    BY DEF Begin, BeginCapture, FlagTypes
<1>4. lock = t /\ lock' = t
    BY <1>0, OthersOutside DEF Begin, caller, Inside
<1>5. \A u \in Threads : pc'[u] = IF u = t THEN "parse" ELSE pc[u]
    BY DEF Begin, SInv, CallTypes
<1>6. Exclusive'
    BY <1>0, <1>4, <1>5 DEF SInv, Exclusive, Inside
<1>7. Window'
    BY DEF Begin, BeginCapture, Window
<1>8. GasSilent'
    BY DEF Begin, BeginCapture, SInv, GasSilent
<1>9. QED BY <1>1, <1>2, <1>3, <1>6, <1>7, <1>8 DEF SInv

LEMMA AppendTyped ==
    ASSUME SInv, NEW t \in Threads, NEW ops \in SUBSET Placed,
           At(t, ops), text' = Append(text, Unit(Here(t), {})),
           UNCHANGED <<symbols, errors, unsupported>>
    PROVE  GasTypes'
<1>1. Here(t) \in Statements /\ Here(t).op \in ops
    BY HereTyped DEF SInv
<1>2. Unit(Here(t), {}) \in TextUnits
    BY <1>1 DEF Unit, TextUnits, Statements
<1>3. QED BY <1>2 DEF SInv, GasTypes

LEMMA StatementSInv ==
    ASSUME SInv, NEW t \in Threads, Statement(t)
    PROVE  SInv'
<1>0. process = "running" /\ pc[t] = "parse" /\ pc[t] \in Printing
    BY DEF Statement, Emits, DefinesLabel, GasRejects, MovesBackwards,
           DriverRejects, SwitchesSection, Throws, GasExits, At, Printing, Inside
<1>1. CASE Emits(t)
    <2>1. CallTypes' /\ Exclusive' /\ Window'
        BY <1>0, <1>1, AdvanceKeeps DEF Emits, streams
    <2>2. GasTypes'
        BY <1>1, AppendTyped DEF Emits, Placed
    <2>3. FlagTypes' /\ GasSilent'
        BY <1>1 DEF Emits, SInv, FlagTypes, GasSilent, flags, streams
    <2>4. QED BY <2>1, <2>2, <2>3 DEF SInv
<1>2. CASE DefinesLabel(t)
    <2>1. errors' \in Nat /\ UNCHANGED <<hostlog, capturing>>
        BY <1>0, <1>2, BadKeeps DEF DefinesLabel, streams, SInv, GasTypes
    <2>2. symbols' \in [Names -> SymbolValues]
        <3>1. Len(text) \in Nat
            BY DEF SInv, GasTypes
        <3>2. InText(Len(text)) \in SymbolValues
            BY <3>1 DEF InText, SymbolValues
        <3>3. QED BY <1>2, <3>2 DEF DefinesLabel, SInv, GasTypes
    <2>3. GasTypes'
        BY <1>2, <2>1, <2>2 DEF DefinesLabel, SInv, GasTypes
    <2>4. CallTypes' /\ Exclusive' /\ Window'
        BY <1>0, <1>2, <2>1, AdvanceKeeps DEF DefinesLabel
    <2>5. FlagTypes' /\ GasSilent'
        BY <1>2, <2>1 DEF DefinesLabel, SInv, FlagTypes, GasSilent, flags
    <2>6. QED BY <2>3, <2>4, <2>5 DEF SInv
<1>3. CASE GasRejects(t)
    <2>1. errors' \in Nat /\ UNCHANGED <<hostlog, capturing>>
        BY <1>0, <1>3, BadKeeps DEF GasRejects
    <2>2. CallTypes' /\ Exclusive' /\ Window'
        BY <1>0, <1>3, <2>1, AdvanceKeeps DEF GasRejects
    <2>3. GasTypes' /\ FlagTypes' /\ GasSilent'
        BY <1>3, <2>1 DEF GasRejects, SInv, GasTypes, FlagTypes, GasSilent, flags
    <2>4. QED BY <2>2, <2>3 DEF SInv
<1>4. CASE MovesBackwards(t)
    <2>1. CallTypes' /\ Exclusive' /\ Window'
        BY <1>0, <1>4, AdvanceKeeps DEF MovesBackwards, streams
    <2>2. GasTypes'
        BY <1>4, AppendTyped DEF MovesBackwards, Placed
    <2>3. FlagTypes' /\ GasSilent'
        BY <1>4 DEF MovesBackwards, SInv, FlagTypes, GasSilent, flags, streams
    <2>4. QED BY <2>1, <2>2, <2>3 DEF SInv
<1>5. CASE DriverRejects(t)
    <2>1. CallTypes' /\ Exclusive' /\ Window'
        BY <1>0, <1>5, AdvanceKeeps DEF DriverRejects, streams
    <2>2. Here(t).op \in Rejections
        BY <1>5, HereTyped DEF DriverRejects, SInv
    <2>3. GasTypes' /\ FlagTypes' /\ GasSilent'
        BY <1>5, <2>2 DEF DriverRejects, SInv, GasTypes, FlagTypes, GasSilent,
                         gas, streams
    <2>4. QED BY <2>1, <2>3 DEF SInv
<1>6. CASE SwitchesSection(t)
    <2>1. CallTypes' /\ Exclusive' /\ Window'
        BY <1>0, <1>6, AdvanceKeeps DEF SwitchesSection, streams
    <2>2. GasTypes' /\ FlagTypes' /\ GasSilent'
        BY <1>6 DEF SwitchesSection, SInv, GasTypes, FlagTypes, GasSilent,
                   gas, streams
    <2>3. QED BY <2>1, <2>2 DEF SInv
<1>7. CASE Throws(t)
    <2>1. CallTypes'
        BY <1>7 DEF Throws, Release, SInv, CallTypes
    <2>2. Exclusive' /\ Window'
        BY <1>0, <1>7, Leaves DEF Throws, Printing
    <2>3. GasTypes' /\ FlagTypes' /\ GasSilent'
        BY <1>7 DEF Throws, SInv, GasTypes, FlagTypes, GasSilent,
                   gas, flags, streams
    <2>4. QED BY <2>1, <2>2, <2>3 DEF SInv
<1>8. CASE GasExits(t)
    <2>1. CallTypes' /\ Exclusive' /\ Window'
        BY <1>8 DEF GasExits, SInv, CallTypes, Exclusive, Window, caller
    <2>2. GasTypes' /\ FlagTypes' /\ GasSilent'
        BY <1>8 DEF GasExits, SInv, GasTypes, FlagTypes, GasSilent,
                   gas, flags, streams
    <2>3. QED BY <2>1, <2>2 DEF SInv
<1>9. QED
    BY <1>1, <1>2, <1>3, <1>4, <1>5, <1>6, <1>7, <1>8 DEF Statement

LEMMA ParsedSInv ==
    ASSUME SInv, NEW t \in Threads, Parsed(t)
    PROVE  SInv'
<1>0. process = "running" /\ pc[t] \in Printing /\ "labels" \in Printing
    BY DEF Parsed, Printing, Inside
<1>1. CallTypes'
    <2>1. [local[t] EXCEPT !.pos = 1] \in Locals
        BY DEF SInv, CallTypes, Locals
    <2>2. local' \in [Threads -> Locals]
        BY <2>1 DEF Parsed, SInv, CallTypes
    <2>3. QED BY <2>2 DEF Parsed, SInv, CallTypes, Inside, caller
<1>2. Exclusive' /\ Window'
    BY <1>0, StaysInside DEF Parsed, caller, streams
<1>3. GasTypes' /\ FlagTypes' /\ GasSilent'
    BY DEF Parsed, SInv, GasTypes, FlagTypes, GasSilent, gas, flags, streams
<1>4. QED BY <1>1, <1>2, <1>3 DEF SInv

LEMMA DefineAbsSInv ==
    ASSUME SInv, NEW t \in Threads, DefineAbs(t)
    PROVE  SInv'
<1> DEFINE l == LabelsToDefine(t)[local[t].pos]
<1>0. process = "running" /\ pc[t] \in Printing
    BY DEF DefineAbs, Printing, Inside
<1>1. l.address \in Nat
    <2> DEFINE given == LabelsToDefine(t)
               Label == [name : Names, address : Nat]
    <2>1. given \in Seq(Label)
        <3>1. input[t].labels \in Seq(Label)
            BY InputTyped DEF SInv
        <3>2. <<>> \in Seq(Label)
            OBVIOUS
        <3>3. QED BY <3>1, <3>2 DEF LabelsToDefine
    <2>2. local[t].pos \in Nat \ {0}
        BY DEF SInv, CallTypes, Locals
    <2>3. local[t].pos <= Len(given)
        BY DEF DefineAbs
    <2>4. given[local[t].pos] \in Label
        <3> HIDE DEF given, Label
        <3>1. QED BY <2>1, <2>2, <2>3
    <2>5. QED BY <2>4
<1>2. Absolute(l.address) \in SymbolValues
    BY <1>1 DEF Absolute, SymbolValues
<1>3. \/ /\ symbols' = [symbols EXCEPT ![l.name] = Absolute(l.address)]
         /\ UNCHANGED <<errors, streams>>
      \/ Bad("twice") /\ UNCHANGED symbols
    BY DEF DefineAbs
<1> HIDE DEF l
<1>4. errors' \in Nat /\ UNCHANGED <<hostlog, capturing>>
    BY <1>0, <1>3, BadKeeps DEF streams, SInv, GasTypes
<1>5. symbols' \in [Names -> SymbolValues]
    BY <1>2, <1>3 DEF SInv, GasTypes
<1>6. CallTypes' /\ Exclusive' /\ Window'
    BY <1>0, <1>4, AdvanceKeeps DEF DefineAbs
<1>7. GasTypes' /\ FlagTypes' /\ GasSilent'
    BY <1>4, <1>5 DEF DefineAbs, SInv, GasTypes, FlagTypes, GasSilent, flags
<1>8. QED BY <1>6, <1>7 DEF SInv

LEMMA LabelsDoneSInv ==
    ASSUME SInv, NEW t \in Threads, LabelsDone(t)
    PROVE  SInv'
<1>0. process = "running" /\ pc[t] \in Printing
    BY DEF LabelsDone, Printing, Inside
<1>1. PICK next \in {"finish", "resolve"} : pc' = [pc EXCEPT ![t] = next]
    BY DEF LabelsDone
<1>2. next \in Printing
    BY DEF Printing, Inside
<1>3. CallTypes'
    <2>1. [local[t] EXCEPT !.parse_err = errors # local[t].before] \in Locals
        BY DEF SInv, CallTypes, Locals
    <2>2. local' \in [Threads -> Locals]
        BY <2>1 DEF LabelsDone, SInv, CallTypes
    <2>3. pc' \in [Threads -> Inside \cup {"idle", "waiting"}]
        BY <1>1, <1>2 DEF SInv, CallTypes, Printing
    <2>4. QED BY <2>2, <2>3 DEF LabelsDone, SInv, CallTypes, caller
<1>4. Exclusive' /\ Window'
    BY <1>0, <1>1, <1>2, StaysInside DEF LabelsDone, caller, streams
<1>5. GasTypes' /\ FlagTypes' /\ GasSilent'
    BY DEF LabelsDone, SInv, GasTypes, FlagTypes, GasSilent, gas, flags, streams
<1>6. QED BY <1>3, <1>4, <1>5 DEF SInv

(* Encoding the fields keeps the units.                                    *)
LEMMA ResolveText ==
    ASSUME SInv, NEW base \in Nat, NEW sites \in SUBSET (DOMAIN text),
           text' = [i \in DOMAIN text |->
                        IF i \in sites
                        THEN Unit(text[i], {FieldValue(i, base)}) ELSE text[i]]
    PROVE  text' \in Seq(TextUnits)
<1>1. Len(text) \in Nat /\ DOMAIN text = 1..Len(text)
    BY DEF SInv, GasTypes
<1>2. ASSUME NEW i \in DOMAIN text
      PROVE  text[i] \in TextUnits /\ Unit(text[i], {FieldValue(i, base)}) \in TextUnits
    <2>1. text[i] \in TextUnits
        BY <1>1 DEF SInv, GasTypes
    <2>2. {FieldValue(i, base)} \in SUBSET Int
        BY FieldTyped DEF SInv
    <2>3. QED BY <2>1, <2>2 DEF Unit, TextUnits
<1>3. text' \in [1..Len(text) -> TextUnits]
    BY <1>1, <1>2
<1>4. QED BY <1>1, <1>3

LEMMA ResolveSInv ==
    ASSUME SInv, NEW t \in Threads, Resolve(t)
    PROVE  SInv'
<1> DEFINE base == input[t].address
           far  == BackwardOrgs \cup TooFar(base)
           known == DefinedFixups \ (TooFar(base) \cup UnknownForms)
<1>0. process = "running" /\ pc[t] \in Printing /\ "finish" \in Printing
    BY DEF Resolve, Printing, Inside
<1>1. base \in Nat
    BY InputTyped DEF SInv
<1>2. /\ Cardinality(BackwardOrgs) \in Nat
      /\ Cardinality(far) \in Nat
      /\ Cardinality(PendingFixups) \in Nat
    <2>1. BackwardOrgs \in SUBSET (DOMAIN text)
        BY DEF BackwardOrgs
    <2>2. far \in SUBSET (DOMAIN text)
        BY DEF BackwardOrgs, TooFar, DefinedFixups, Fixups
    <2>3. PendingFixups \in SUBSET (DOMAIN text)
        BY DEF PendingFixups, Fixups
    <2>4. GasTypes
        BY DEF SInv
    <2>5. QED BY <2>1, <2>2, <2>3, <2>4, Counted
<1>3. known \in SUBSET (DOMAIN text)
    BY DEF DefinedFixups, Fixups
<1>4. \/ /\ text' = [i \in DOMAIN text |->
                        IF i \in known
                        THEN Unit(text[i], {FieldValue(i, base)}) ELSE text[i]]
         /\ errors' = errors + Cardinality(far)
         /\ \E msgs : Report(msgs)
         /\ unsupported' = (UnknownForms # {})
         /\ local' = [local EXCEPT ![t].unresolved = Cardinality(PendingFixups)]
      \/ /\ text' = text
         /\ errors' = errors + Cardinality(BackwardOrgs)
         /\ \E msgs : Report(msgs)
         /\ unsupported' = FALSE
         /\ local' = [local EXCEPT ![t].unresolved = Cardinality(PendingFixups),
                                   ![t].starved = TRUE]
    BY DEF Resolve
<1>5. /\ pc' = [pc EXCEPT ![t] = "finish"]
      /\ UNCHANGED <<lock, input, made, process, symbols, section, directive, capturing>>
    BY DEF Resolve, caller, flags
<1> HIDE DEF base, far, known
<1>6. UNCHANGED hostlog
    BY <1>0, <1>4, ReportIsSilent
<1>7. text' \in Seq(TextUnits)
    BY <1>1, <1>3, <1>4, ResolveText DEF SInv, GasTypes
<1>8. GasTypes'
    <2>1. symbols' \in [Names -> SymbolValues]
        BY <1>5 DEF SInv, GasTypes
    <2>2. errors' \in Nat
        BY <1>2, <1>4 DEF SInv, GasTypes
    <2>3. unsupported' \in BOOLEAN
        BY <1>4
    <2>4. QED BY <1>7, <2>1, <2>2, <2>3 DEF GasTypes
<1>9. CallTypes'
    <2>1. /\ [local[t] EXCEPT !.unresolved = Cardinality(PendingFixups)] \in Locals
          /\ [local[t] EXCEPT !.unresolved = Cardinality(PendingFixups),
                              !.starved = TRUE] \in Locals
        BY <1>2 DEF SInv, CallTypes, Locals
    <2>2. local' \in [Threads -> Locals]
        BY <1>4, <2>1 DEF SInv, CallTypes
    <2>3. QED BY <1>5, <2>2 DEF SInv, CallTypes, Inside
<1>10. Exclusive' /\ Window'
    BY <1>0, <1>5, StaysInside
<1>11. FlagTypes' /\ GasSilent'
    BY <1>5, <1>6 DEF SInv, FlagTypes, GasSilent
<1>12. QED BY <1>8, <1>9, <1>10, <1>11 DEF SInv

LEMMA FinishSInv ==
    ASSUME SInv, NEW t \in Threads, Finish(t)
    PROVE  SInv'
<1>1. CallTypes'
    BY DEF Finish, Release, SInv, CallTypes
<1>2. Exclusive' /\ Window'
    BY Leaves DEF Finish, Inside
<1>3. GasTypes' /\ FlagTypes' /\ GasSilent'
    BY DEF Finish, SInv, GasTypes, FlagTypes, GasSilent, gas, flags
<1>4. QED BY <1>1, <1>2, <1>3 DEF SInv

(* Every step preserves the invariant.                                     *)
LEMMA NextSInv == SInv /\ [Next]_vars => SInv'
<1> SUFFICES ASSUME SInv, [Next]_vars PROVE SInv'
    OBVIOUS
<1>1. ASSUME NEW t \in Threads, Call(t) PROVE SInv'
    BY <1>1, CallSInv
<1>2. ASSUME NEW t \in Threads, Step(t) PROVE SInv'
    BY <1>2, AcquireSInv, BeginSInv, StatementSInv, ParsedSInv, DefineAbsSInv,
       LabelsDoneSInv, ResolveSInv, FinishSInv DEF Step
<1>3. CASE UNCHANGED vars
    BY <1>3 DEF vars, caller, gas, flags, streams, SInv, CallTypes, GasTypes,
                FlagTypes, Exclusive, Window, GasSilent
<1>4. QED BY <1>1, <1>2, <1>3 DEF Next, Quiescent

-----------------------------------------------------------------------------
THEOREM SessionInvariant == Spec => []SInv
BY InitSInv, NextSInv, PTL DEF Spec

(* While the process runs, GLOBAL_LOCK is held by a thread exactly while   *)
(* it is between the lock and the end of its call (bindings/rust/src/      *)
(* lib.rs), and gas's symbols, .text, counters and flags keep their types, *)
(* for any number of threads and calls and any inputs.                     *)
THEOREM SessionTypes == Spec => []TypeOK
<1>1. SInv => TypeOK
    <2> SUFFICES ASSUME SInv PROVE TypeOK
        OBVIOUS
    <2>1. \A i \in DOMAIN text : text[i].op \in Placed
        <3>1. text \in Seq(TextUnits)
            BY DEF SInv, GasTypes
        <3>2. \A i \in DOMAIN text : text[i] \in TextUnits
            BY <3>1
        <3>3. QED BY <3>2 DEF TextUnits
    <2>2. symbols \in [Names -> [seg : {"undefined", "text", "absolute"}, val : Nat]]
        BY DEF SInv, GasTypes, SymbolValues
    <2>3. QED BY <2>1, <2>2 DEF SInv, TypeOK, CallTypes, GasTypes, FlagTypes, Exclusive
<1>2. QED BY <1>1, SessionInvariant, PTL

(* No message of gas reaches the stderr of the host, however the calls of  *)
(* the threads interleave and wherever a call fails or throws              *)
(* (nyxstone.cpp:461-463).                                                 *)
THEOREM HostStderrClean == Spec => []GasSilent
<1>1. SInv => GasSilent
    BY DEF SInv
<1>2. QED BY <1>1, SessionInvariant, PTL

-----------------------------------------------------------------------------
(***************************************************************************)
(* For any threads and any inputs, what a call returns is the function     *)
(* Expected of its arguments: nothing that an earlier call left in gas's   *)
(* globals, and nothing a concurrent call does, shows in a result.         *)
(*                                                                         *)
(* The argument follows one call.  While it parses, the flags, the capture *)
(* buffer, the symbols and .text are those of the statements read so far   *)
(* (Seen); while the given labels are defined, those of the whole source   *)
(* and the labels so far (Labelled); when no error was found, layout and   *)
(* encoding compute what Expected says (Resolving); and from then on the   *)
(* outcome is fixed (Deciding).  Begin establishes the first for any state *)
(* an earlier call left, and SInv keeps the other threads out.             *)
(***************************************************************************)

-----------------------------------------------------------------------------
(* Counting statements.                                                    *)

LEMMA CountNat ==
    ASSUME NEW src, NEW ops, NEW n \in Nat
    PROVE  /\ IsFiniteSet({j \in 1..n : src[j].op \in ops})
           /\ Count(src, ops, n) \in Nat
<1>1. IsFiniteSet(1..n)
    BY FS_Interval
<1>2. {j \in 1..n : src[j].op \in ops} \in SUBSET (1..n)
    OBVIOUS
<1>3. IsFiniteSet({j \in 1..n : src[j].op \in ops})
    BY <1>1, <1>2, FS_Subset
<1>4. QED BY <1>3, FS_CardinalityType DEF Count

LEMMA CountZero ==
    ASSUME NEW src, NEW ops
    PROVE  Count(src, ops, 0) = 0
<1>1. {j \in 1..0 : src[j].op \in ops} = {}
    OBVIOUS
<1>2. QED BY <1>1, FS_EmptySet DEF Count

(* Each statement counts at most once.                                     *)
LEMMA CountStep ==
    ASSUME NEW src, NEW ops, NEW n \in Nat
    PROVE  Count(src, ops, n+1) =
               Count(src, ops, n) + (IF src[n+1].op \in ops THEN 1 ELSE 0)
<1> DEFINE C(k) == {j \in 1..k : src[j].op \in ops}
<1>1. IsFiniteSet(C(n)) /\ Cardinality(C(n)) \in Nat
    BY CountNat DEF Count
<1>2. CASE src[n+1].op \in ops
    <2>1. C(n+1) = C(n) \cup {n+1} /\ (n+1) \notin C(n)
        BY <1>2
    <2>2. Cardinality(C(n+1)) = Cardinality(C(n)) + 1
        BY <1>1, <2>1, FS_AddElement
    <2>3. QED BY <1>2, <2>2 DEF Count
<1>3. CASE src[n+1].op \notin ops
    <2>1. C(n+1) = C(n)
        BY <1>3
    <2>2. Count(src, ops, n+1) = Count(src, ops, n)
        BY <2>1 DEF Count
    <2>3. Count(src, ops, n) \in Nat
        BY CountNat
    <2>4. QED BY <1>3, <2>2, <2>3
<1>4. QED BY <1>2, <1>3

(* The count tells the statements it counts apart.                         *)
LEMMA CountGrows ==
    ASSUME NEW src, NEW ops, NEW i \in Nat, NEW j \in Nat, i < j,
           src[j].op \in ops
    PROVE  Count(src, ops, i) < Count(src, ops, j)
<1> DEFINE C(k) == {m \in 1..k : src[m].op \in ops}
<1>1. IsFiniteSet(C(j)) /\ Cardinality(C(j)) \in Nat
    BY CountNat DEF Count
<1>2. C(i) \in SUBSET C(j) /\ j \in C(j) /\ j \notin C(i)
    OBVIOUS
<1>3. C(i) # C(j)
    BY <1>2
<1> HIDE DEF C
<1>4. Cardinality(C(i)) <= Cardinality(C(j)) /\ Cardinality(C(i)) # Cardinality(C(j))
    BY <1>1, <1>2, <1>3, FS_Subset
<1>5. Cardinality(C(i)) \in Nat
    BY CountNat DEF Count, C
<1>6. QED BY <1>1, <1>4, <1>5 DEF Count, C

(* The first rejection is the one that is counted first.                   *)
LEMMA FirstRejectionIs ==
    ASSUME NEW src \in Seq(Statements), NEW i \in DOMAIN src,
           src[i].op \in Rejections,
           \A j \in DOMAIN src : src[j].op \in Rejections => i <= j
    PROVE  FirstRejection(src) = src[i].op
<1>0. DOMAIN src = 1..Len(src) /\ Len(src) \in Nat
    OBVIOUS
<1>1. {j \in 1..i : src[j].op \in Rejections} = {i}
    BY <1>0
<1>2. Count(src, Rejections, i) = 1
    BY <1>1, FS_Singleton DEF Count
<1>3. ASSUME NEW j \in DOMAIN src, src[j].op \in Rejections,
             Count(src, Rejections, j) = 1
      PROVE  j = i
    <2>1. ~ i < j
        BY <1>0, <1>2, <1>3, CountGrows
    <2>2. QED BY <1>0, <1>3, <2>1
<1>4. (CHOOSE j \in DOMAIN src : /\ src[j].op \in Rejections
                                /\ Count(src, Rejections, j) = 1) = i
    BY <1>2, <1>3
<1>5. QED BY <1>4 DEF FirstRejection

(* InOrder lists a finite set of numbers by rank.                          *)
LEMMA InOrderAt ==
    ASSUME NEW S \in SUBSET Nat, IsFiniteSet(S), NEW i \in S
    PROVE  LET k == Cardinality({j \in S : j < i}) + 1 IN
           /\ k \in 1..Cardinality(S)
           /\ InOrder(S)[k] = i
<1> DEFINE B(m) == {j \in S : j < m}
           k == Cardinality(B(i)) + 1
<1>1. \A m \in S : IsFiniteSet(B(m)) /\ Cardinality(B(m)) \in Nat
    <2>1. \A m \in S : B(m) \in SUBSET S
        OBVIOUS
    <2>2. QED BY <2>1, FS_Subset, FS_CardinalityType
<1>2. Cardinality(S) \in Nat
    BY FS_CardinalityType
<1>3. \A m, n \in S : m < n => Cardinality(B(m)) < Cardinality(B(n))
    <2> SUFFICES ASSUME NEW m \in S, NEW n \in S, m < n
                 PROVE  Cardinality(B(m)) < Cardinality(B(n))
        OBVIOUS
    <2>0. m \in Nat /\ n \in Nat
        OBVIOUS
    <2>1. B(m) \in SUBSET B(n) /\ m \in B(n) /\ m \notin B(m)
        <3>1. \A j \in S : j < m => j < n
            BY <2>0
        <3>2. m \in B(n) /\ m \notin B(m)
            BY <2>0
        <3>3. QED BY <3>1, <3>2
    <2>2. B(m) # B(n)
        BY <2>1
    <2> HIDE DEF B
    <2>3. Cardinality(B(m)) <= Cardinality(B(n)) /\ Cardinality(B(m)) # Cardinality(B(n))
        BY <1>1, <2>1, <2>2, FS_Subset
    <2>4. QED BY <1>1, <2>3
<1>4. k \in 1..Cardinality(S)
    <2>1. B(i) \in SUBSET S /\ i \notin B(i)
        OBVIOUS
    <2>2. B(i) # S
        BY <2>1
    <2> HIDE DEF B
    <2>3. Cardinality(B(i)) <= Cardinality(S) /\ Cardinality(B(i)) # Cardinality(S)
        BY <2>1, <2>2, FS_Subset
    <2>4. Cardinality(B(i)) \in Nat
        BY <1>1
    <2>5. QED BY <1>2, <2>3, <2>4
<1>5. InOrder(S)[k] = CHOOSE m \in S : Cardinality(B(m)) = k - 1
    BY <1>4 DEF InOrder
<1> HIDE DEF B
<1>6. \A m \in S : Cardinality(B(m)) = k - 1 <=> m = i
    <2>1. Cardinality(B(i)) \in Nat
        BY <1>1
    <2> SUFFICES ASSUME NEW m \in S, m # i
                 PROVE  Cardinality(B(m)) # k - 1
        BY <2>1
    <2>2. Cardinality(B(m)) \in Nat
        BY <1>1
    <2>3. m < i \/ i < m
        OBVIOUS
    <2>4. QED BY <1>3, <2>1, <2>2, <2>3
<1>7. InOrder(S)[k] = i
    BY <1>5, <1>6
<1>8. QED BY <1>4, <1>7 DEF B

(* The ranks of a finite set leave no gap: there are as many as elements.  *)
LEMMA InOrderIn ==
    ASSUME NEW S \in SUBSET Nat, IsFiniteSet(S), NEW k \in 1..Cardinality(S)
    PROVE  InOrder(S)[k] \in S
<1> DEFINE rank(m) == Cardinality({j \in S : j < m}) + 1
           f == [m \in S |-> rank(m)]
           T == 1..Cardinality(S)
<1>1. \A m \in S : rank(m) \in T /\ InOrder(S)[rank(m)] = m
    BY InOrderAt
<1>2. Cardinality(S) \in Nat
    BY FS_CardinalityType
<1>3. IsFiniteSet(T) /\ Cardinality(T) = Cardinality(S)
    BY <1>2, FS_Interval
<1> HIDE DEF rank, T
<1>4. f \in [S -> T] /\ \A m, n \in S : f[m] = f[n] => m = n
    BY <1>1
<1>5. f \in Injection(S, T)
    BY <1>4, Fun_IsInj
<1>6. f \in Surjection(S, T)
    <2> HIDE DEF f
    <2>1. Cardinality(S) = Cardinality(T) <=> f \in Surjection(S, T)
        BY <1>3, <1>5, FS_Injection
    <2>2. QED BY <1>3, <2>1
<1>7. \E m \in S : f[m] = k
    <2>1. k \in T
        BY DEF T
    <2> HIDE DEF f
    <2>2. \A x \in T : \E m \in S : f[m] = x
        BY <1>6, Fun_SurjectionProperties
    <2>3. QED BY <2>1, <2>2
<1>8. QED BY <1>1, <1>7

(* Body lists the statements that take a place by the number of those up   *)
(* to and including them.                                                  *)
LEMMA BodyAt ==
    ASSUME NEW src \in Seq(Statements), NEW i \in DOMAIN src, src[i].op \in Placed
    PROVE  /\ Count(src, Placed, i) \in DOMAIN Body(src)
           /\ Body(src)[Count(src, Placed, i)] = src[i]
<1> DEFINE S == {j \in DOMAIN src : src[j].op \in Placed}
           B == {j \in S : j < i}
<1>0. DOMAIN src = 1..Len(src) /\ Len(src) \in Nat
    OBVIOUS
<1>1. S = {j \in 1..Len(src) : src[j].op \in Placed}
    BY <1>0
<1>2. IsFiniteSet(S) /\ S \in SUBSET Nat /\ i \in S
    <2>1. IsFiniteSet({j \in 1..Len(src) : src[j].op \in Placed})
        BY <1>0, CountNat
    <2>2. IsFiniteSet(S)
        BY <1>1, <2>1
    <2>3. S \in SUBSET Nat /\ i \in S
        BY <1>0
    <2>4. QED BY <2>2, <2>3
<1>3. Count(src, Placed, i) = Cardinality(B) + 1
    <2>1. B = {j \in 1..(i-1) : src[j].op \in Placed} /\ i - 1 \in Nat
        BY <1>0
    <2>2. Cardinality(B) = Count(src, Placed, i-1)
        BY <2>1 DEF Count
    <2>3. Count(src, Placed, (i-1)+1) = Count(src, Placed, i-1) + 1
        BY <2>1, CountStep, <1>0
    <2>4. (i-1)+1 = i
        BY <1>0
    <2>5. QED BY <2>2, <2>3, <2>4
<1>4. /\ Count(src, Placed, i) \in 1..Cardinality(S)
      /\ InOrder(S)[Count(src, Placed, i)] = i
    <2> HIDE DEF S
    <2>1. QED BY <1>2, <1>3, InOrderAt
<1>5. DOMAIN InOrder(S) = 1..Cardinality(S)
    BY DEF InOrder
<1>6. Body(src) = [k \in DOMAIN InOrder(S) |-> src[InOrder(S)[k]]]
    BY DEF Body
<1>7. QED BY <1>4, <1>5, <1>6

LEMMA BodyLength ==
    ASSUME NEW src \in Seq(Statements)
    PROVE  DOMAIN Body(src) = 1..Count(src, Placed, Len(src))
<1> DEFINE S == {j \in DOMAIN src : src[j].op \in Placed}
<1>1. S = {j \in 1..Len(src) : src[j].op \in Placed}
    OBVIOUS
<1>2. Cardinality(S) = Count(src, Placed, Len(src))
    BY <1>1 DEF Count
<1>3. DOMAIN InOrder(S) = 1..Cardinality(S)
    BY DEF InOrder
<1>4. DOMAIN Body(src) = DOMAIN InOrder(S)
    BY DEF Body
<1>5. QED BY <1>2, <1>3, <1>4

-----------------------------------------------------------------------------
(* What the statements 1..n of a source leave behind.                      *)

Among(src, ops, n) == \E i \in 1..n : src[i].op \in ops
Defines(src, i, m) == src[i].op = "def" /\ src[i].name = m
NoDef(src, n, m)   == \A i \in 1..n : ~ Defines(src, i, m)
FirstDef(src, n, m, i) ==
    i \in 1..n /\ Defines(src, i, m) /\ NoDef(src, i-1, m)

SeenFlags(src, n) ==
    /\ ~ Among(src, {"huge"}, n)
    /\ section <=> Among(src, {"section"}, n)
    /\ \/ directive = "" /\ ~ Among(src, Rejections, n)
       \/ \E i \in 1..n : /\ src[i].op \in Rejections /\ directive = src[i].op
                          /\ ~ Among(src, Rejections, i-1)

SeenText(src, n) ==
    /\ Len(text) = Count(src, Placed, n)
    /\ \A k \in 1..Len(text) : \E i \in 1..n :
           /\ src[i].op \in Placed /\ Count(src, Placed, i) = k
           /\ text[k] = Unit(src[i], {})

SeenLabel(src, n, m) ==
    \/ symbols[m] = Undefined /\ NoDef(src, n, m)
    \/ \E i \in 1..n : /\ FirstDef(src, n, m, i)
                       /\ symbols[m] = InText(Count(src, Placed, i))
SeenLabels(src, n) == \A m \in Names : SeenLabel(src, n, m)

DoubleDef(src, n) ==
    \E i, j \in 1..n : i # j /\ src[i].op = "def" /\ Defines(src, j, src[i].name)
SourceComplaints(src, n) ==
    {m \in {"bad"} : Among(src, {"bad"}, n)}
    \cup {m \in {"redefined"} : DoubleDef(src, n)}

(* An error was counted in this call exactly if one was printed.           *)
Said(before, msgs) ==
    /\ caplog = msgs
    /\ before \in Nat /\ errors >= before
    /\ errors = before <=> msgs = {}

Seen(src, n, before) ==
    /\ SeenFlags(src, n) /\ SeenText(src, n) /\ SeenLabels(src, n)
    /\ Said(before, SourceComplaints(src, n))

-----------------------------------------------------------------------------
(* One more statement.                                                     *)

LEMMA OneMore ==
    ASSUME NEW n \in Nat
    PROVE  /\ 1..n \in SUBSET (1..(n+1))
           /\ n+1 \in 1..(n+1)
           /\ (n+1)-1 = n
OBVIOUS

LEMMA AmongStep ==
    ASSUME NEW src, NEW ops, NEW n \in Nat
    PROVE  Among(src, ops, n+1) <=> Among(src, ops, n) \/ src[n+1].op \in ops
<1>1. 1..(n+1) = (1..n) \cup {n+1}
    OBVIOUS
<1>2. QED BY <1>1 DEF Among

LEMMA NoDefStep ==
    ASSUME NEW src, NEW m, NEW n \in Nat
    PROVE  NoDef(src, n+1, m) <=> NoDef(src, n, m) /\ ~ Defines(src, n+1, m)
<1>1. 1..(n+1) = (1..n) \cup {n+1}
    OBVIOUS
<1>2. QED BY <1>1 DEF NoDef

LEMMA FlagsStep ==
    ASSUME NEW src, NEW n \in Nat, SeenFlags(src, n), src[n+1].op # "huge",
           section' <=> (section \/ src[n+1].op = "section"),
           directive' = IF src[n+1].op \in Rejections /\ directive = ""
                        THEN src[n+1].op ELSE directive
    PROVE  SeenFlags(src, n+1)'
<1>0. 1..n \in SUBSET (1..(n+1)) /\ n+1 \in 1..(n+1) /\ (n+1)-1 = n
    BY OneMore
<1>1. ~ Among(src, {"huge"}, n+1)
    BY AmongStep DEF SeenFlags
<1>2. section' <=> Among(src, {"section"}, n+1)
    BY AmongStep DEF SeenFlags
<1>3. \/ directive' = "" /\ ~ Among(src, Rejections, n+1)
      \/ \E i \in 1..(n+1) : /\ src[i].op \in Rejections /\ directive' = src[i].op
                             /\ ~ Among(src, Rejections, i-1)
    <2>1. CASE directive = "" /\ ~ Among(src, Rejections, n) /\ src[n+1].op \in Rejections
        BY <1>0, <2>1
    <2>2. CASE directive = "" /\ ~ Among(src, Rejections, n) /\ src[n+1].op \notin Rejections
        BY <2>2, AmongStep
    <2>3. CASE \E i \in 1..n : /\ src[i].op \in Rejections /\ directive = src[i].op
                              /\ ~ Among(src, Rejections, i-1)
        <3>1. PICK i \in 1..n : /\ src[i].op \in Rejections /\ directive = src[i].op
                                /\ ~ Among(src, Rejections, i-1)
            BY <2>3
        <3>2. directive # ""
            BY <3>1 DEF Rejections
        <3>3. QED BY <1>0, <3>1, <3>2
    <2>4. QED BY <2>1, <2>2, <2>3 DEF SeenFlags
<1>4. QED BY <1>1, <1>2, <1>3 DEF SeenFlags

LEMMA FlagsKept ==
    ASSUME NEW src, NEW n \in Nat, SeenFlags(src, n),
           src[n+1].op \notin Rejections \cup {"huge", "section"},
           section' = section, directive' = directive
    PROVE  SeenFlags(src, n+1)'
<1>1. section' <=> (section \/ src[n+1].op = "section")
    OBVIOUS
<1>2. QED BY <1>1, FlagsStep

LEMMA TextKept ==
    ASSUME NEW src, NEW n \in Nat, SeenText(src, n),
           src[n+1].op \notin Placed, text' = text
    PROVE  SeenText(src, n+1)'
<1>1. Count(src, Placed, n+1) = Count(src, Placed, n)
    <2>1. Count(src, Placed, n) \in Nat
        BY CountNat
    <2>2. Count(src, Placed, n+1) =
              Count(src, Placed, n) + (IF src[n+1].op \in Placed THEN 1 ELSE 0)
        BY CountStep
    <2>3. QED BY <2>1, <2>2
<1>2. 1..n \in SUBSET (1..(n+1))
    OBVIOUS
<1>3. QED BY <1>1, <1>2 DEF SeenText

LEMMA TextGrows ==
    ASSUME GasTypes, NEW src, NEW n \in Nat, SeenText(src, n),
           src[n+1].op \in Placed, text' = Append(text, Unit(src[n+1], {}))
    PROVE  SeenText(src, n+1)'
<1> DEFINE u == Unit(src[n+1], {})
<1>1. Count(src, Placed, n+1) = Count(src, Placed, n) + 1
    BY CountStep
<1>2. 1..n \in SUBSET (1..(n+1)) /\ n+1 \in 1..(n+1)
    OBVIOUS
<1>3. Len(text) \in Nat /\ Len(text) = Count(src, Placed, n)
    BY DEF GasTypes, SeenText
<1>4. /\ Len(text') = Len(text) + 1
      /\ \A k \in 1..Len(text) : text'[k] = text[k]
      /\ text'[Len(text)+1] = u
    <2> HIDE DEF u
    <2>1. text' = Append(text, u)
        BY DEF u
    <2>2. QED BY <2>1 DEF GasTypes
<1>5. ASSUME NEW k \in 1..(Len(text)+1)
      PROVE  \E i \in 1..(n+1) : /\ src[i].op \in Placed /\ Count(src, Placed, i) = k
                                /\ text'[k] = Unit(src[i], {})
    <2>1. CASE k \in 1..Len(text)
        <3>1. PICK i \in 1..n : /\ src[i].op \in Placed /\ Count(src, Placed, i) = k
                                /\ text[k] = Unit(src[i], {})
            BY <2>1 DEF SeenText
        <3>2. QED BY <1>2, <1>4, <2>1, <3>1
    <2>2. CASE k = Len(text) + 1
        BY <1>1, <1>2, <1>3, <1>4, <2>2
    <2>3. QED BY <1>3, <2>1, <2>2
<1>6. QED BY <1>1, <1>3, <1>4, <1>5 DEF SeenText

LEMMA LabelsKept ==
    ASSUME NEW src, NEW n \in Nat, SeenLabels(src, n),
           src[n+1].op # "def", symbols' = symbols
    PROVE  SeenLabels(src, n+1)'
<1> SUFFICES ASSUME NEW m \in Names PROVE SeenLabel(src, n+1, m)'
    BY DEF SeenLabels
<1>1. SeenLabel(src, n, m)
    BY DEF SeenLabels
<1>2. NoDef(src, n+1, m) <=> NoDef(src, n, m)
    BY NoDefStep DEF Defines
<1>3. 1..n \in SUBSET (1..(n+1))
    OBVIOUS
<1>4. QED BY <1>1, <1>2, <1>3 DEF SeenLabel, FirstDef

(* colon defines a name at its first label only.                           *)
LEMMA LabelsGrow ==
    ASSUME NEW src, NEW n \in Nat, SeenLabels(src, n), SeenText(src, n),
           GasTypes, src[n+1].op = "def",
           LET m == src[n+1].name IN
           \/ ~ IsDefined(m) /\ symbols' = [symbols EXCEPT ![m] = InText(Len(text))]
           \/ IsDefined(m) /\ symbols' = symbols
    PROVE  SeenLabels(src, n+1)'
<1> SUFFICES ASSUME NEW m \in Names PROVE SeenLabel(src, n+1, m)'
    BY DEF SeenLabels
<1>1. SeenLabel(src, n, m)
    BY DEF SeenLabels
<1>2. 1..n \in SUBSET (1..(n+1)) /\ n+1 \in 1..(n+1) /\ (n+1)-1 = n
    OBVIOUS
<1>3. CASE ~ Defines(src, n+1, m)
    <2>1. symbols'[m] = symbols[m]
        BY <1>3 DEF Defines, GasTypes
    <2>2. NoDef(src, n+1, m) <=> NoDef(src, n, m)
        BY <1>3, NoDefStep
    <2>3. QED BY <1>1, <1>2, <2>1, <2>2 DEF SeenLabel, FirstDef
<1>4. CASE Defines(src, n+1, m) /\ NoDef(src, n, m)
    <2>1. symbols[m] = Undefined
        BY <1>1, <1>4 DEF SeenLabel, FirstDef, NoDef
    <2>2. ~ IsDefined(m)
        BY <2>1 DEF IsDefined, Undefined
    <2>3. symbols'[m] = InText(Len(text))
        BY <1>4, <2>2 DEF Defines, GasTypes
    <2>4. Len(text) = Count(src, Placed, n+1)
        <3>1. src[n+1].op \notin Placed
            BY DEF Placed, Units, References
        <3>2. QED BY <3>1, CountStep, CountNat DEF SeenText
    <2>5. QED BY <1>2, <1>4, <2>3, <2>4 DEF SeenLabel, FirstDef
<1>5. CASE Defines(src, n+1, m) /\ ~ NoDef(src, n, m)
    <2>1. PICK i \in 1..n : /\ FirstDef(src, n, m, i)
                            /\ symbols[m] = InText(Count(src, Placed, i))
        BY <1>1, <1>5 DEF SeenLabel
    <2>2. IsDefined(m)
        BY <2>1 DEF IsDefined, InText
    <2>3. symbols'[m] = symbols[m]
        BY <1>5, <2>2 DEF Defines
    <2>4. QED BY <1>2, <2>1, <2>3 DEF SeenLabel, FirstDef
<1>6. QED BY <1>3, <1>4, <1>5

LEMMA DoubleDefStep ==
    ASSUME NEW src, NEW n \in Nat
    PROVE  DoubleDef(src, n+1) <=>
              \/ DoubleDef(src, n)
              \/ src[n+1].op = "def" /\ ~ NoDef(src, n, src[n+1].name)
<1>0. 1..(n+1) = (1..n) \cup {n+1} /\ n+1 \notin 1..n
    OBVIOUS
<1>1. DoubleDef(src, n) => DoubleDef(src, n+1)
    BY <1>0 DEF DoubleDef
<1>2. ASSUME src[n+1].op = "def", ~ NoDef(src, n, src[n+1].name)
      PROVE  DoubleDef(src, n+1)
    BY <1>0, <1>2 DEF DoubleDef, NoDef, Defines
<1>3. ASSUME DoubleDef(src, n+1), ~ DoubleDef(src, n)
      PROVE  src[n+1].op = "def" /\ ~ NoDef(src, n, src[n+1].name)
    BY <1>0, <1>3 DEF DoubleDef, NoDef, Defines
<1>4. QED BY <1>1, <1>2, <1>3

(* Nothing printed, or one message.                                        *)
LEMMA SaysNothing ==
    ASSUME NEW src, NEW n \in Nat, NEW before,
           Said(before, SourceComplaints(src, n)),
           src[n+1].op \notin {"bad", "def"} \/
               (src[n+1].op = "def" /\ NoDef(src, n, src[n+1].name)),
           UNCHANGED <<errors, caplog>>
    PROVE  Said(before, SourceComplaints(src, n+1))'
<1>1. Among(src, {"bad"}, n+1) <=> Among(src, {"bad"}, n)
    BY AmongStep
<1>2. DoubleDef(src, n+1) <=> DoubleDef(src, n)
    BY DoubleDefStep
<1>3. SourceComplaints(src, n+1) = SourceComplaints(src, n)
    BY <1>1, <1>2 DEF SourceComplaints
<1>4. QED BY <1>3 DEF Said

LEMMA SaysBad ==
    ASSUME NEW src, NEW n \in Nat, NEW before, errors \in Nat, capturing,
           Said(before, SourceComplaints(src, n)),
           NEW msg, Bad(msg),
           \/ msg = "bad" /\ src[n+1].op = "bad"
           \/ /\ msg = "redefined" /\ src[n+1].op = "def"
              /\ ~ NoDef(src, n, src[n+1].name)
    PROVE  Said(before, SourceComplaints(src, n+1))'
<1>1. Among(src, {"bad"}, n+1) <=> Among(src, {"bad"}, n) \/ msg = "bad"
    BY AmongStep
<1>2. DoubleDef(src, n+1) <=> DoubleDef(src, n) \/ msg = "redefined"
    BY DoubleDefStep
<1>3. SourceComplaints(src, n+1) = SourceComplaints(src, n) \cup {msg}
    BY <1>1, <1>2 DEF SourceComplaints
<1>4. errors' = errors + 1 /\ caplog' = caplog \cup {msg}
    BY DEF Bad, Report
<1>5. SourceComplaints(src, n+1) # {}
    BY <1>3
<1>6. QED BY <1>3, <1>4, <1>5 DEF Said

(* Where a call is in its source.                                          *)
LEMMA PositionTyped ==
    ASSUME CallTypes, NEW t \in Threads, NEW ops, At(t, ops),
           NEW src, src = input[t].source, NEW n, n = local[t].pos - 1
    PROVE  /\ src \in Seq(Statements) /\ n \in Nat
           /\ src[n+1] = Here(t) /\ src[n+1] \in Statements /\ src[n+1].op \in ops
<1>1. src \in Seq(Statements)
    BY InputTyped
<1>2. local[t].pos \in Nat \ {0}
    BY DEF CallTypes, Locals
<1>3. n \in Nat /\ n + 1 = local[t].pos
    BY <1>2
<1>4. src[n+1] = Here(t)
    BY <1>3 DEF Here
<1>5. Here(t) \in Statements /\ Here(t).op \in ops
    BY HereTyped
<1>6. QED BY <1>1, <1>3, <1>4, <1>5

LEMMA AdvanceMoves ==
    ASSUME CallTypes, NEW t \in Threads, Advance(t), NEW n, n = local[t].pos - 1
    PROVE  /\ local'[t].pos - 1 = n + 1
           /\ local'[t].before = local[t].before
           /\ local'[t].starved = local[t].starved
<1>1. local[t] \in Locals /\ local[t].pos \in Nat
    BY DEF CallTypes, Locals
<1>2. local'[t] = [local[t] EXCEPT !.pos = @ + 1]
    BY DEF Advance, CallTypes
<1>3. QED BY <1>1, <1>2 DEF Locals

(* What each kind of statement adds to what was seen.                      *)
LEMMA SeenStep ==
    ASSUME SInv, NEW t \in Threads, Statement(t), ~ Throws(t), ~ GasExits(t),
           NEW src, src = input[t].source, NEW n, n = local[t].pos - 1,
           NEW before, Seen(src, n, before)
    PROVE  Seen(src, n+1, before)'
<1> USE DEF SInv
<1>0. process = "running" /\ pc[t] \in Printing
    BY DEF Statement, Emits, DefinesLabel, GasRejects, MovesBackwards,
           DriverRejects, SwitchesSection, At, Printing, Inside
<1>1. capturing /\ errors \in Nat
    BY <1>0 DEF Window, GasTypes
<1>2. CASE Emits(t)
    <2>1. n \in Nat /\ src[n+1] = Here(t) /\ src[n+1].op \in Units
        BY <1>2, PositionTyped DEF Emits
    <2>2. src[n+1].op \notin Rejections \cup {"huge", "section", "def", "bad"}
        BY <2>1 DEF Units, References, Rejections
    <2>3. SeenFlags(src, n+1)'
        BY <1>2, <2>1, <2>2, FlagsKept DEF Emits, flags, Seen
    <2>4. SeenText(src, n+1)'
        BY <1>2, <2>1, TextGrows DEF Emits, Seen, Placed
    <2>5. SeenLabels(src, n+1)'
        BY <1>2, <2>1, <2>2, LabelsKept DEF Emits, Seen
    <2>6. Said(before, SourceComplaints(src, n+1))'
        BY <1>2, <2>1, <2>2, SaysNothing DEF Emits, Seen, streams
    <2>7. QED BY <2>3, <2>4, <2>5, <2>6 DEF Seen
<1>3. CASE MovesBackwards(t)
    <2>1. n \in Nat /\ src[n+1] = Here(t) /\ src[n+1].op \in {"org"}
        BY <1>3, PositionTyped DEF MovesBackwards
    <2>2. src[n+1].op \notin Rejections \cup {"huge", "section", "def", "bad"}
        BY <2>1 DEF Rejections
    <2>3. SeenFlags(src, n+1)'
        BY <1>3, <2>1, <2>2, FlagsKept DEF MovesBackwards, flags, Seen
    <2>4. SeenText(src, n+1)'
        BY <1>3, <2>1, TextGrows DEF MovesBackwards, Seen, Placed
    <2>5. SeenLabels(src, n+1)'
        BY <1>3, <2>1, <2>2, LabelsKept DEF MovesBackwards, Seen
    <2>6. Said(before, SourceComplaints(src, n+1))'
        BY <1>3, <2>1, <2>2, SaysNothing DEF MovesBackwards, Seen, streams
    <2>7. QED BY <2>3, <2>4, <2>5, <2>6 DEF Seen
<1>4. CASE DefinesLabel(t)
    <2> DEFINE m == Here(t).name
    <2>1. /\ n \in Nat /\ src[n+1] = Here(t) /\ src[n+1].op \in {"def"}
          /\ src[n+1] \in Statements
        BY <1>4, PositionTyped DEF DefinesLabel
    <2>2. src[n+1].op \notin Rejections \cup Placed \cup {"huge", "section"}
        BY <2>1 DEF Rejections, Placed, Units, References
    <2>3. m \in Names /\ src[n+1].name = m
        BY <2>1 DEF Statements
    <2>4. SeenFlags(src, n+1)'
        BY <1>4, <2>1, <2>2, FlagsKept DEF DefinesLabel, flags, Seen
    <2>5. SeenText(src, n+1)'
        BY <1>4, <2>1, <2>2, TextKept DEF DefinesLabel, Seen
    <2>6. SeenLabels(src, n+1)'
        BY <1>4, <2>1, <2>3, LabelsGrow DEF DefinesLabel, Seen
    <2>7. SeenLabel(src, n, m)
        BY <2>3 DEF Seen, SeenLabels
    <2>8. CASE ~ IsDefined(m)
        <3>1. NoDef(src, n, m)
            <4> HIDE DEF m
            <4>1. ASSUME NEW i, symbols[m] = InText(i) PROVE FALSE
                BY <2>8, <4>1 DEF IsDefined, InText
            <4>2. QED BY <2>7, <4>1 DEF SeenLabel
        <3>2. UNCHANGED <<errors, caplog>>
            BY <1>4, <2>8 DEF DefinesLabel, streams
        <3>3. Said(before, SourceComplaints(src, n+1))'
            BY <2>1, <2>3, <3>1, <3>2, SaysNothing DEF Seen
        <3>4. QED BY <2>4, <2>5, <2>6, <3>3 DEF Seen
    <2>9. CASE IsDefined(m)
        <3>1. ~ NoDef(src, n, m)
            BY <2>7, <2>9 DEF SeenLabel, IsDefined, Undefined, FirstDef, NoDef
        <3>2. Bad("redefined")
            BY <1>4, <2>9 DEF DefinesLabel
        <3>3. Said(before, SourceComplaints(src, n+1))'
            BY <1>1, <2>1, <2>3, <3>1, <3>2, SaysBad DEF Seen
        <3>4. QED BY <2>4, <2>5, <2>6, <3>3 DEF Seen
    <2>10. QED BY <2>8, <2>9
<1>5. CASE GasRejects(t)
    <2>1. n \in Nat /\ src[n+1] = Here(t) /\ src[n+1].op \in {"bad"}
        BY <1>5, PositionTyped DEF GasRejects
    <2>2. src[n+1].op \notin Rejections \cup Placed \cup {"huge", "section", "def"}
        BY <2>1 DEF Rejections, Placed, Units, References
    <2>3. SeenFlags(src, n+1)'
        BY <1>5, <2>1, <2>2, FlagsKept DEF GasRejects, flags, Seen
    <2>4. SeenText(src, n+1)'
        BY <1>5, <2>1, <2>2, TextKept DEF GasRejects, Seen
    <2>5. SeenLabels(src, n+1)'
        BY <1>5, <2>1, <2>2, LabelsKept DEF GasRejects, Seen
    <2>6. Said(before, SourceComplaints(src, n+1))'
        BY <1>1, <1>5, <2>1, SaysBad DEF GasRejects, Seen
    <2>7. QED BY <2>3, <2>4, <2>5, <2>6 DEF Seen
<1>6. CASE DriverRejects(t)
    <2>1. n \in Nat /\ src[n+1] = Here(t) /\ src[n+1].op \in Rejections
        BY <1>6, PositionTyped DEF DriverRejects
    <2>2. src[n+1].op \notin Placed \cup {"huge", "section", "def", "bad"}
        BY <2>1 DEF Rejections, Placed, Units, References
    <2>3. SeenFlags(src, n+1)'
        <3>1. section' = section
            BY <1>6 DEF DriverRejects
        <3>2. directive' = IF directive = "" THEN src[n+1].op ELSE directive
            BY <1>6, <2>1 DEF DriverRejects
        <3>3. section' <=> (section \/ src[n+1].op = "section")
            BY <2>2, <3>1
        <3>4. QED BY <2>1, <2>2, <3>2, <3>3, FlagsStep DEF Seen
    <2>4. SeenText(src, n+1)'
        BY <1>6, <2>1, <2>2, TextKept DEF DriverRejects, Seen, gas
    <2>5. SeenLabels(src, n+1)'
        BY <1>6, <2>1, <2>2, LabelsKept DEF DriverRejects, Seen, gas
    <2>6. Said(before, SourceComplaints(src, n+1))'
        BY <1>6, <2>1, <2>2, SaysNothing DEF DriverRejects, Seen, streams, gas
    <2>7. QED BY <2>3, <2>4, <2>5, <2>6 DEF Seen
<1>7. CASE SwitchesSection(t)
    <2>1. n \in Nat /\ src[n+1] = Here(t) /\ src[n+1].op \in {"section"}
        BY <1>7, PositionTyped DEF SwitchesSection
    <2>2. src[n+1].op \notin Rejections \cup Placed \cup {"huge", "def", "bad"}
        BY <2>1 DEF Rejections, Placed, Units, References
    <2>3. SeenFlags(src, n+1)'
        <3>1. section' <=> (section \/ src[n+1].op = "section")
            BY <1>7, <2>1 DEF SwitchesSection
        <3>2. directive' = directive
            BY <1>7 DEF SwitchesSection
        <3>3. QED BY <2>1, <2>2, <3>1, <3>2, FlagsStep DEF Seen
    <2>4. SeenText(src, n+1)'
        BY <1>7, <2>1, <2>2, TextKept DEF SwitchesSection, Seen, gas
    <2>5. SeenLabels(src, n+1)'
        BY <1>7, <2>1, <2>2, LabelsKept DEF SwitchesSection, Seen, gas
    <2>6. Said(before, SourceComplaints(src, n+1))'
        BY <1>7, <2>1, <2>2, SaysNothing DEF SwitchesSection, Seen, streams, gas
    <2>7. QED BY <2>3, <2>4, <2>5, <2>6 DEF Seen
<1>8. QED BY <1>2, <1>3, <1>4, <1>5, <1>6, <1>7 DEF Statement

(* begin: whatever an earlier call left, nothing is seen yet.              *)
LEMMA SeenBegins ==
    ASSUME SInv, NEW t \in Threads, Begin(t), NEW src, NEW before, before = errors
    PROVE  Seen(src, 0, before)'
<1>0. 1..0 = {}
    OBVIOUS
<1>1. SeenFlags(src, 0)'
    BY <1>0 DEF Begin, SeenFlags, Among
<1>2. SeenText(src, 0)'
    <2>1. text' = <<>>
        BY DEF Begin, GlueReset
    <2>2. Len(text') = 0
        BY <2>1
    <2>3. QED BY <1>0, <2>2, CountZero DEF SeenText
<1>3. SeenLabels(src, 0)'
    BY <1>0 DEF Begin, GlueReset, SeenLabels, SeenLabel, NoDef
<1>4. Said(before, SourceComplaints(src, 0))'
    <2>1. SourceComplaints(src, 0) = {}
        BY <1>0 DEF SourceComplaints, Among, DoubleDef
    <2>2. caplog' = {} /\ errors' = errors
        BY DEF Begin, GlueReset, BeginCapture
    <2>3. QED BY <2>1, <2>2 DEF Said, SInv, GasTypes
<1>5. QED BY <1>1, <1>2, <1>3, <1>4 DEF Seen

-----------------------------------------------------------------------------
(* The labels given to the call.                                           *)

NoGiven(labs, p, m) == \A k \in 1..p : labs[k].name # m

BoundLabel(src, labs, p, m) ==
    \/ symbols[m] = Undefined /\ NoDef(src, Len(src), m) /\ NoGiven(labs, p, m)
    \/ \E i \in 1..Len(src) : /\ FirstDef(src, Len(src), m, i)
                              /\ symbols[m] = InText(Count(src, Placed, i))
    \/ \E k \in 1..p : /\ labs[k].name = m /\ NoGiven(labs, k-1, m)
                       /\ NoDef(src, Len(src), m)
                       /\ symbols[m] = Absolute(labs[k].address)

GivenTwice(src, labs, p) ==
    \E k \in 1..p : \/ ~ NoDef(src, Len(src), labs[k].name)
                    \/ ~ NoGiven(labs, k-1, labs[k].name)
SessionComplaints(src, labs, p) ==
    SourceComplaints(src, Len(src)) \cup {m \in {"twice"} : GivenTwice(src, labs, p)}

Labelled(src, labs, p, before) ==
    /\ SeenFlags(src, Len(src)) /\ SeenText(src, Len(src))
    /\ \A m \in Names : BoundLabel(src, labs, p, m)
    /\ Said(before, SessionComplaints(src, labs, p))

LEMMA LabelledBegins ==
    ASSUME NEW src, NEW labs, NEW before, Seen(src, Len(src), before)
    PROVE  Labelled(src, labs, 0, before)
<1>0. 1..0 = {}
    OBVIOUS
<1>1. SessionComplaints(src, labs, 0) = SourceComplaints(src, Len(src))
    BY <1>0 DEF SessionComplaints, GivenTwice
<1>2. ASSUME NEW m \in Names PROVE BoundLabel(src, labs, 0, m)
    BY <1>0 DEF Seen, SeenLabels, SeenLabel, BoundLabel, NoGiven
<1>3. QED BY <1>1, <1>2 DEF Seen, Labelled

LEMMA GivenTwiceStep ==
    ASSUME NEW src, NEW labs, NEW p \in Nat
    PROVE  GivenTwice(src, labs, p+1) <=>
              \/ GivenTwice(src, labs, p)
              \/ ~ NoDef(src, Len(src), labs[p+1].name)
              \/ ~ NoGiven(labs, p, labs[p+1].name)
<1>1. 1..(p+1) = (1..p) \cup {p+1} /\ (p+1)-1 = p
    OBVIOUS
<1>2. QED BY <1>1 DEF GivenTwice

(* nyxstone_glue_define_abs: the first label of a name wins, and a name    *)
(* the source defines keeps its place.                                     *)
LEMMA LabelledStep ==
    ASSUME GasTypes, capturing, NEW src, NEW labs, NEW p \in Nat, NEW before,
           labs[p+1].name \in Names, Labelled(src, labs, p, before),
           UNCHANGED <<section, directive, text>>,
           LET l == labs[p+1] IN
           \/ /\ ~ IsDefined(l.name)
              /\ symbols' = [symbols EXCEPT ![l.name] = Absolute(l.address)]
              /\ UNCHANGED <<errors, caplog>>
           \/ IsDefined(l.name) /\ Bad("twice") /\ UNCHANGED symbols
    PROVE  Labelled(src, labs, p+1, before)'
<1> DEFINE l == labs[p+1]
<1>0. 1..p \in SUBSET (1..(p+1)) /\ p+1 \in 1..(p+1) /\ (p+1)-1 = p
    BY OneMore
<1>1. SeenFlags(src, Len(src))' /\ SeenText(src, Len(src))'
    BY DEF Labelled, SeenFlags, SeenText
<1>2. BoundLabel(src, labs, p, l.name)
    BY DEF Labelled
<1>3. IsDefined(l.name) <=> \/ ~ NoDef(src, Len(src), l.name)
                            \/ ~ NoGiven(labs, p, l.name)
    <2>1. CASE /\ symbols[l.name] = Undefined /\ NoDef(src, Len(src), l.name)
               /\ NoGiven(labs, p, l.name)
        BY <2>1 DEF IsDefined, Undefined
    <2>2. CASE \E i \in 1..Len(src) : /\ FirstDef(src, Len(src), l.name, i)
                                     /\ symbols[l.name] = InText(Count(src, Placed, i))
        BY <2>2 DEF IsDefined, InText, FirstDef, NoDef
    <2>3. CASE \E k \in 1..p : /\ labs[k].name = l.name
                              /\ symbols[l.name] = Absolute(labs[k].address)
        BY <2>3 DEF IsDefined, Absolute, NoGiven
    <2>4. QED BY <1>2, <2>1, <2>2, <2>3 DEF BoundLabel
<1>4. ASSUME NEW m \in Names PROVE BoundLabel(src, labs, p+1, m)'
    <2>1. BoundLabel(src, labs, p, m)
        BY DEF Labelled
    <2>2. NoGiven(labs, p+1, m) <=> NoGiven(labs, p, m) /\ l.name # m
        <3>1. 1..(p+1) = (1..p) \cup {p+1}
            OBVIOUS
        <3>2. QED BY <3>1 DEF NoGiven
    <2>3. CASE m # l.name
        <3>1. symbols'[m] = symbols[m]
            BY <2>3 DEF GasTypes
        <3>2. QED BY <1>0, <2>1, <2>2, <2>3, <3>1 DEF BoundLabel
    <2>4. CASE m = l.name /\ IsDefined(m)
        <3>1. symbols' = symbols /\ symbols[m] # Undefined
            BY <2>4 DEF IsDefined, Undefined
        <3>2. QED BY <1>0, <2>1, <3>1 DEF BoundLabel
    <2>5. CASE m = l.name /\ ~ IsDefined(m)
        <3>1. symbols'[m] = Absolute(l.address)
            BY <2>5 DEF GasTypes
        <3>2. NoDef(src, Len(src), m) /\ NoGiven(labs, p, m)
            BY <1>3, <2>5
        <3>3. QED BY <1>0, <2>5, <3>1, <3>2 DEF BoundLabel
    <2>6. QED BY <2>3, <2>4, <2>5
<1>5. Said(before, SessionComplaints(src, labs, p+1))'
    <2>1. CASE ~ IsDefined(l.name)
        <3>1. SessionComplaints(src, labs, p+1) = SessionComplaints(src, labs, p)
            BY <1>3, <2>1, GivenTwiceStep DEF SessionComplaints
        <3>2. UNCHANGED <<errors, caplog>>
            BY <2>1
        <3>3. QED BY <3>1, <3>2 DEF Labelled, Said
    <2>2. CASE IsDefined(l.name)
        <3>1. SessionComplaints(src, labs, p+1) =
                  SessionComplaints(src, labs, p) \cup {"twice"}
            BY <1>3, <2>2, GivenTwiceStep DEF SessionComplaints
        <3>2. errors' = errors + 1 /\ caplog' = caplog \cup {"twice"}
            BY <2>2 DEF Bad, Report
        <3>3. SessionComplaints(src, labs, p+1) # {}
            BY <3>1
        <3>4. QED BY <3>1, <3>2, <3>3 DEF Labelled, Said, GasTypes
    <2>3. QED BY <2>1, <2>2
<1>6. QED BY <1>1, <1>4, <1>5 DEF Labelled

-----------------------------------------------------------------------------
(* The end of the source and of the labels.                                *)

IsInput(in) ==
    /\ in.source \in Seq(Statements)
    /\ in.labels \in Seq([name : Names, address : Nat])
    /\ in.address \in Nat /\ in.relocs \in BOOLEAN

Labels(in) == IF in.relocs THEN <<>> ELSE in.labels

LEMMA LabelsTyped ==
    ASSUME NEW in, IsInput(in)
    PROVE  /\ Len(Labels(in)) \in Nat
           /\ \A k \in 1..Len(Labels(in)) :
                  Labels(in)[k].name \in Names /\ Labels(in)[k].address \in Nat
           /\ \A m : Given(in, m) = {k \in 1..Len(Labels(in)) : Labels(in)[k].name = m}
<1> DEFINE L == [name : Names, address : Nat]
<1>1. CASE in.relocs
    <2>1. Labels(in) = <<>> /\ Len(Labels(in)) = 0
        BY <1>1 DEF Labels
    <2>2. 1..0 = {}
        OBVIOUS
    <2>3. \A m : Given(in, m) = {}
        BY <1>1 DEF Given
    <2>4. QED BY <2>1, <2>2, <2>3
<1>2. CASE ~ in.relocs
    <2>1. Labels(in) = in.labels
        BY <1>2 DEF Labels
    <2>2. in.labels \in Seq(L)
        BY DEF IsInput
    <2>3. DOMAIN in.labels = 1..Len(in.labels) /\ Len(in.labels) \in Nat
        BY <2>2
    <2>4. \A k \in 1..Len(in.labels) : in.labels[k] \in L
        <3> HIDE DEF L
        <3>1. QED BY <2>2
    <2>5. \A m : Given(in, m) = {k \in 1..Len(in.labels) : in.labels[k].name = m}
        BY <1>2, <2>3 DEF Given
    <2>6. QED BY <2>1, <2>3, <2>4, <2>5
<1>3. QED BY <1>1, <1>2

LEMMA SourceTyped ==
    ASSUME NEW in, IsInput(in)
    PROVE  LET src == in.source IN
           /\ Len(src) \in Nat /\ DOMAIN src = 1..Len(src)
           /\ \A i \in 1..Len(src) : src[i] \in Statements /\ src[i].name \in Names
           /\ \A m : Places(src, "def", m) = {i \in 1..Len(src) : Defines(src, i, m)}
           /\ \A ops : Has(src, ops) <=> Among(src, ops, Len(src))
<1>1. in.source \in Seq(Statements)
    BY DEF IsInput
<1>2. Len(in.source) \in Nat /\ DOMAIN in.source = 1..Len(in.source)
    BY <1>1
<1>3. \A i \in 1..Len(in.source) : in.source[i] \in Statements
    BY <1>1
<1>4. QED BY <1>2, <1>3 DEF Statements, Places, Defines, Has, Among

(* What was printed is what Expected complains of.                         *)
LEMMA ComplaintsAre ==
    ASSUME NEW in, IsInput(in)
    PROVE  Complaints(in) = SessionComplaints(in.source, Labels(in), Len(Labels(in)))
<1> DEFINE src == in.source
           labs == Labels(in)
           p == Len(labs)
<1>1. /\ \A i \in 1..Len(src) : src[i].name \in Names
      /\ \A m : Places(src, "def", m) = {i \in 1..Len(src) : Defines(src, i, m)}
      /\ Has(src, {"bad"}) <=> Among(src, {"bad"}, Len(src))
    BY SourceTyped
<1>2. /\ p \in Nat
      /\ \A k \in 1..p : labs[k].name \in Names
      /\ \A m : Given(in, m) = {k \in 1..p : labs[k].name = m}
    BY LabelsTyped
<1> HIDE DEF src, labs, p
<1>3. (\E n \in Names : Redefined(src, n)) <=> DoubleDef(src, Len(src))
    <2>1. ASSUME NEW n \in Names, Redefined(src, n)
          PROVE  DoubleDef(src, Len(src))
        <3>1. PICK i \in Places(src, "def", n), j \in Places(src, "def", n) : i # j
            BY <2>1 DEF Redefined
        <3>2. /\ i \in 1..Len(src) /\ Defines(src, i, n)
              /\ j \in 1..Len(src) /\ Defines(src, j, n)
            BY <1>1
        <3>3. QED BY <3>1, <3>2 DEF DoubleDef, Defines
    <2>2. ASSUME DoubleDef(src, Len(src))
          PROVE  \E n \in Names : Redefined(src, n)
        <3>1. PICK i \in 1..Len(src), j \in 1..Len(src) :
                  i # j /\ src[i].op = "def" /\ Defines(src, j, src[i].name)
            BY <2>2 DEF DoubleDef
        <3>2. /\ src[i].name \in Names /\ i \in Places(src, "def", src[i].name)
              /\ j \in Places(src, "def", src[i].name)
            BY <1>1, <3>1 DEF Defines
        <3>3. QED BY <3>1, <3>2 DEF Redefined
    <2>3. QED BY <2>1, <2>2
<1>4. \A m : NoDef(src, Len(src), m) <=> Places(src, "def", m) = {}
    BY <1>1 DEF NoDef
<1>5. ASSUME NEW n \in Names, Places(src, "def", n) # {}, Given(in, n) # {}
      PROVE  GivenTwice(src, labs, p)
    BY <1>2, <1>4, <1>5 DEF GivenTwice
<1>6. ASSUME NEW k \in 1..p, NEW m \in 1..p, labs[k].name = labs[m].name, k < m
      PROVE  GivenTwice(src, labs, p)
    <2>1. k \in 1..(m-1)
        BY <1>2, <1>6
    <2>2. ~ NoGiven(labs, m-1, labs[m].name)
        BY <1>6, <2>1 DEF NoGiven
    <2>3. QED BY <2>2 DEF GivenTwice
<1>7. ASSUME NEW n \in Names, NEW k \in Given(in, n), NEW m \in Given(in, n), m # k
      PROVE  GivenTwice(src, labs, p)
    <2>1. k \in 1..p /\ m \in 1..p /\ labs[k].name = labs[m].name
        BY <1>2
    <2>2. k < m \/ m < k
        BY <1>2, <1>7, <2>1
    <2>3. QED BY <1>6, <2>1, <2>2
<1>8. ASSUME GivenTwice(src, labs, p)
      PROVE  \E n \in Names : TwiceGiven(in, n)
    <2>1. PICK k \in 1..p : \/ ~ NoDef(src, Len(src), labs[k].name)
                            \/ ~ NoGiven(labs, k-1, labs[k].name)
        BY <1>8 DEF GivenTwice
    <2>2. labs[k].name \in Names /\ k \in Given(in, labs[k].name)
        BY <1>2
    <2>3. CASE ~ NoDef(src, Len(src), labs[k].name)
        BY <1>4, <2>2, <2>3 DEF TwiceGiven, src
    <2>4. CASE ~ NoGiven(labs, k-1, labs[k].name)
        <3>1. PICK m \in 1..(k-1) : labs[m].name = labs[k].name
            BY <2>4 DEF NoGiven
        <3>2. m \in 1..p /\ m # k
            BY <1>2
        <3>3. m \in Given(in, labs[k].name)
            BY <1>2, <3>1, <3>2
        <3>4. QED BY <2>2, <3>2, <3>3 DEF TwiceGiven
    <2>5. QED BY <2>1, <2>3, <2>4
<1>9. (\E n \in Names : TwiceGiven(in, n)) <=> GivenTwice(src, labs, p)
    BY <1>5, <1>7, <1>8 DEF TwiceGiven, src
<1>10. Complaints(in) =
           {m \in {"bad"} : Among(src, {"bad"}, Len(src))}
           \cup {m \in {"redefined"} : DoubleDef(src, Len(src))}
           \cup {m \in {"twice"} : GivenTwice(src, labs, p)}
    <2>1. {m \in {"bad"} : Has(in.source, {"bad"})} =
          {m \in {"bad"} : Among(src, {"bad"}, Len(src))}
        BY <1>1 DEF src
    <2>2. {m \in {"redefined"} : \E n \in Names : Redefined(in.source, n)} =
          {m \in {"redefined"} : DoubleDef(src, Len(src))}
        BY <1>3 DEF src
    <2>3. {m \in {"twice"} : \E n \in Names : TwiceGiven(in, n)} =
          {m \in {"twice"} : GivenTwice(src, labs, p)}
        BY <1>9
    <2>4. QED BY <2>1, <2>2, <2>3 DEF Complaints
<1>11. QED BY <1>10 DEF SessionComplaints, SourceComplaints, src, labs, p

(* The state of a call between its labels and its layout.                  *)
Resolving(in, before) ==
    /\ Complaints(in) = {}
    /\ directive = "" /\ ~ section
    /\ Labelled(in.source, Labels(in), Len(Labels(in)), before)

(* A symbol is defined exactly if Expected finds an address, and then it   *)
(* is that one.                                                            *)
LEMMA Bound ==
    ASSUME NEW in, IsInput(in), NEW before, Resolving(in, before), NEW m \in Names
    PROVE  /\ IsDefined(m) => Target(in, m) = {SymAbs(m, in.address)}
           /\ ~ IsDefined(m) => Target(in, m) = {}
<1> DEFINE src == in.source
           labs == Labels(in)
           p == Len(labs)
<1>1. /\ Places(src, "def", m) = {i \in 1..Len(src) : Defines(src, i, m)}
      /\ ~ Redefined(src, m) /\ ~ TwiceGiven(in, m)
    BY SourceTyped DEF Resolving, Complaints
<1>2. Given(in, m) = {k \in 1..p : labs[k].name = m}
    BY LabelsTyped
<1>3. ASSUME NEW k \in Given(in, m)
      PROVE  Places(src, "def", m) = {} /\ Given(in, m) = {k}
    BY <1>1 DEF TwiceGiven
<1>4. \A k \in Given(in, m) : in.labels[k] = labs[k]
    BY DEF Given, Labels
<1>5. BoundLabel(src, labs, p, m)
    BY DEF Resolving, Labelled
<1>6. Target(in, m) =
          {in.address + Count(src, Placed, i) : i \in Places(src, "def", m)}
          \cup {in.labels[k].address : k \in Given(in, m)}
    BY DEF Target
<1> HIDE DEF src, labs, p
<1>7. CASE /\ symbols[m] = Undefined /\ NoDef(src, Len(src), m)
           /\ NoGiven(labs, p, m)
    <2>1. Places(src, "def", m) = {} /\ Given(in, m) = {}
        BY <1>1, <1>2, <1>7 DEF NoDef, NoGiven
    <2>2. ~ IsDefined(m)
        BY <1>7 DEF IsDefined, Undefined
    <2>3. QED BY <1>6, <2>1, <2>2
<1>8. CASE \E i \in 1..Len(src) : /\ FirstDef(src, Len(src), m, i)
                                 /\ symbols[m] = InText(Count(src, Placed, i))
    <2>1. PICK i \in 1..Len(src) : /\ FirstDef(src, Len(src), m, i)
                                   /\ symbols[m] = InText(Count(src, Placed, i))
        BY <1>8
    <2>2. i \in Places(src, "def", m)
        BY <1>1, <2>1 DEF FirstDef
    <2>3. Places(src, "def", m) = {i} /\ Given(in, m) = {}
        BY <1>1, <1>3, <2>2 DEF Redefined
    <2>4. Target(in, m) = {in.address + Count(src, Placed, i)}
        BY <1>6, <2>3
    <2>5. IsDefined(m) /\ SymAbs(m, in.address) = in.address + Count(src, Placed, i)
        BY <2>1 DEF IsDefined, SymAbs, InText
    <2>6. QED BY <2>4, <2>5
<1>9. CASE \E k \in 1..p : labs[k].name = m /\ symbols[m] = Absolute(labs[k].address)
    <2>1. PICK k \in 1..p : labs[k].name = m /\ symbols[m] = Absolute(labs[k].address)
        BY <1>9
    <2>2. k \in Given(in, m)
        BY <1>2, <2>1
    <2>3. Places(src, "def", m) = {} /\ Given(in, m) = {k} /\ in.labels[k] = labs[k]
        BY <1>3, <1>4, <2>2
    <2>4. Target(in, m) = {labs[k].address}
        BY <1>6, <2>3
    <2>5. IsDefined(m) /\ SymAbs(m, in.address) = labs[k].address
        BY <2>1 DEF IsDefined, SymAbs, Absolute
    <2>6. QED BY <2>4, <2>5
<1>10. QED BY <1>5, <1>7, <1>8, <1>9 DEF BoundLabel

(* .text holds the units of Body, in its order.                            *)
LEMMA TextIsBody ==
    ASSUME NEW in, IsInput(in), NEW before, Resolving(in, before)
    PROVE  /\ Len(text) \in Nat
           /\ DOMAIN Body(in.source) = 1..Len(text)
           /\ \A k \in 1..Len(text) :
                  /\ text[k] = Unit(Body(in.source)[k], {})
                  /\ Body(in.source)[k] \in Statements
           /\ \A ops \in SUBSET Placed :
                  Has(in.source, ops) <=>
                     \E k \in 1..Len(text) : Body(in.source)[k].op \in ops
<1> DEFINE src == in.source
<1>0. src \in Seq(Statements) /\ Len(src) \in Nat /\ DOMAIN src = 1..Len(src)
    BY DEF IsInput
<1>1. SeenText(src, Len(src))
    BY DEF Resolving, Labelled
<1>2. \A i \in 1..Len(src) : src[i].op \in Placed =>
          /\ Count(src, Placed, i) \in DOMAIN Body(src)
          /\ Body(src)[Count(src, Placed, i)] = src[i]
    BY <1>0, BodyAt
<1>3. DOMAIN Body(src) = 1..Count(src, Placed, Len(src))
    BY <1>0, BodyLength
<1>4. Count(src, Placed, Len(src)) \in Nat
    BY <1>0, CountNat
<1>5. Len(text) \in Nat /\ DOMAIN Body(src) = 1..Len(text)
    BY <1>1, <1>3, <1>4 DEF SeenText
<1>6. ASSUME NEW k \in 1..Len(text)
      PROVE  \E i \in 1..Len(src) : /\ src[i].op \in Placed
                                   /\ text[k] = Unit(src[i], {})
                                   /\ Body(src)[k] = src[i]
    BY <1>1, <1>2 DEF SeenText
<1>7. \A i \in 1..Len(src) : src[i] \in Statements
    BY <1>0
<1>8. \A k \in 1..Len(text) : text[k] = Unit(Body(src)[k], {}) /\ Body(src)[k] \in Statements
    BY <1>6, <1>7
<1>9. ASSUME NEW ops \in SUBSET Placed
      PROVE  Has(src, ops) <=> \E k \in 1..Len(text) : Body(src)[k].op \in ops
    <2>1. ASSUME Has(src, ops) PROVE \E k \in 1..Len(text) : Body(src)[k].op \in ops
        BY <1>0, <1>2, <1>5, <2>1 DEF Has
    <2>2. ASSUME NEW k \in 1..Len(text), Body(src)[k].op \in ops PROVE Has(src, ops)
        BY <1>0, <1>6, <2>2 DEF Has
    <2>3. QED BY <2>1, <2>2
<1>10. QED BY <1>5, <1>8, <1>9

(* The layout of .text is the one Expected describes.                      *)
LEMMA LayoutIs ==
    ASSUME GasTypes, NEW in, IsInput(in), NEW before, Resolving(in, before)
    PROVE  /\ Fixups = Sites(in)
           /\ DefinedFixups = Sites(in) \ Open(in)
           /\ PendingFixups = Open(in)
           /\ \A i \in Sites(in) \ Open(in) :
                  /\ FieldValue(i, in.address) \in Int
                  /\ Value(in, i) = {FieldValue(i, in.address)}
           /\ TooFar(in.address) = Far(in)
           /\ UnknownForms = {i \in Sites(in) \ Open(in) : Body(in.source)[i].op = "odd"}
           /\ BackwardOrgs = {} <=> ~ Has(in.source, {"org"})
<1> DEFINE body == Body(in.source)
           base == in.address
<1>0. base \in Nat /\ Len(text) \in Nat /\ DOMAIN text = 1..Len(text)
    BY DEF IsInput, GasTypes
<1>1. /\ DOMAIN body = DOMAIN text
      /\ \A k \in DOMAIN text :
             /\ text[k].op = body[k].op /\ text[k].name = body[k].name
             /\ body[k].name \in Names
    <2>1. /\ DOMAIN body = 1..Len(text)
          /\ \A k \in 1..Len(text) : text[k] = Unit(body[k], {}) /\ body[k] \in Statements
        BY TextIsBody
    <2> HIDE DEF body
    <2>2. QED BY <1>0, <2>1 DEF Unit, Statements
<1>2. BackwardOrgs = {} <=> ~ Has(in.source, {"org"})
    <2>1. Has(in.source, {"org"}) <=> \E k \in 1..Len(text) : body[k].op \in {"org"}
        <3>1. {"org"} \in SUBSET Placed
            BY DEF Placed
        <3>2. QED BY <3>1, TextIsBody
    <2> HIDE DEF body
    <2>2. QED BY <1>0, <1>1, <2>1 DEF BackwardOrgs
<1>3. Sites(in) = {i \in DOMAIN body : body[i].op \in References}
    BY DEF Sites
<1>4. Open(in) = {i \in Sites(in) : Target(in, body[i].name) = {}}
    BY DEF Open
<1>5. \A i : Value(in, i) = {v - (IF body[i].op = "word" THEN 0 ELSE base + i - 1) :
                                v \in Target(in, body[i].name)}
    BY DEF Value
<1>6. Far(in) = {i \in Sites(in) \ Open(in) :
                    /\ body[i].op = "near"
                    /\ \E v \in Value(in, i) : v > Reach \/ v < -Reach}
    BY DEF Far
<1>7. \A i \in DOMAIN text :
          /\ IsDefined(body[i].name) => Target(in, body[i].name) = {SymAbs(body[i].name, base)}
          /\ ~ IsDefined(body[i].name) => Target(in, body[i].name) = {}
    BY <1>1, Bound
<1>8. \A i \in DOMAIN text : SymAbs(body[i].name, base) \in Int
    <2>1. \A m \in Names : symbols[m].val \in Nat
        BY DEF GasTypes, SymbolValues
    <2>2. QED BY <1>0, <1>1, <2>1 DEF SymAbs
<1> HIDE DEF body, base
<1>9. Fixups = Sites(in)
    BY <1>1, <1>3 DEF Fixups
<1>10. DefinedFixups = Sites(in) \ Open(in)
    BY <1>1, <1>3, <1>4, <1>7, <1>9 DEF DefinedFixups
<1>11. PendingFixups = Open(in)
    BY <1>4, <1>9, <1>10 DEF PendingFixups
<1>12. ASSUME NEW i \in Sites(in) \ Open(in)
       PROVE  /\ FieldValue(i, base) \in Int
              /\ Value(in, i) = {FieldValue(i, base)}
    <2>1. i \in DOMAIN text /\ i \in Int
        BY <1>0, <1>1, <1>3
    <2>2. Target(in, body[i].name) = {SymAbs(body[i].name, base)}
        BY <1>4, <1>7, <2>1
    <2>3. SymAbs(body[i].name, base) \in Int
        BY <1>8, <2>1
    <2>4. FieldValue(i, base) = SymAbs(body[i].name, base)
                                - (IF body[i].op = "word" THEN 0 ELSE base + i - 1)
        BY <1>0, <1>1, <2>1, <2>3 DEF FieldValue, SiteOf
    <2>5. QED BY <1>0, <1>5, <2>1, <2>2, <2>3, <2>4
<1>13. TooFar(base) = Far(in)
    <2>1. \A i \in Sites(in) \ Open(in) :
              /\ text[i].op = body[i].op
              /\ FieldValue(i, base) \notin (-Reach)..Reach <=>
                     \E v \in Value(in, i) : v > Reach \/ v < -Reach
        <3> SUFFICES ASSUME NEW i \in Sites(in) \ Open(in)
                     PROVE  /\ text[i].op = body[i].op
                            /\ FieldValue(i, base) \notin (-Reach)..Reach <=>
                                  \E v \in Value(in, i) : v > Reach \/ v < -Reach
            OBVIOUS
        <3>1. text[i].op = body[i].op
            BY <1>1, <1>3
        <3>2. Reach \in Nat
            BY SessionAssumption
        <3>3. \A x \in Int : x \notin (-Reach)..Reach <=> x > Reach \/ x < -Reach
            BY <3>2
        <3>4. FieldValue(i, base) \in Int /\ Value(in, i) = {FieldValue(i, base)}
            BY <1>12
        <3>5. QED BY <3>1, <3>3, <3>4
    <2>2. QED BY <1>6, <1>10, <2>1 DEF TooFar
<1>14. UnknownForms = {i \in Sites(in) \ Open(in) : body[i].op = "odd"}
    BY <1>1, <1>3, <1>10 DEF UnknownForms
<1>15. QED BY <1>2, <1>9, <1>10, <1>11, <1>12, <1>13, <1>14 DEF body, base

(* No error so far.                                                        *)
LEMMA NoErrorYet ==
    ASSUME NEW in, IsInput(in), NEW before, Resolving(in, before)
    PROVE  /\ caplog = {} /\ errors = before
           /\ \A ops \in {{"huge"}, Rejections, {"section"}} : ~ Has(in.source, ops)
<1>1. SessionComplaints(in.source, Labels(in), Len(Labels(in))) = {}
    BY ComplaintsAre DEF Resolving
<1>2. caplog = {} /\ errors = before
    BY <1>1 DEF Resolving, Labelled, Said
<1>3. \A ops : Has(in.source, ops) <=> Among(in.source, ops, Len(in.source))
    BY SourceTyped
<1>4. SeenFlags(in.source, Len(in.source)) /\ directive = "" /\ ~ section
    BY DEF Resolving, Labelled
<1>5. ~ Among(in.source, {"huge"}, Len(in.source))
    BY <1>4 DEF SeenFlags
<1>6. ~ Among(in.source, {"section"}, Len(in.source))
    BY <1>4 DEF SeenFlags
<1>7. ~ Among(in.source, Rejections, Len(in.source))
    <2>1. "" \notin Rejections
        BY DEF Rejections
    <2>2. QED BY <1>4, <2>1 DEF SeenFlags
<1>8. QED BY <1>2, <1>3, <1>5, <1>6, <1>7

(* Layout and encoding decide the outcome as Expected does.                *)
LEMMA ResolveDecides ==
    ASSUME SInv, NEW t \in Threads, Resolve(t), NEW in, in = input[t], IsInput(in),
           NEW before, before = local[t].before, Resolving(in, before),
           local[t].parse_err = FALSE, ~ local'[t].starved
    PROVE  Outcome(t)' = Expected(in)
<1> DEFINE body == Body(in.source)
           base == in.address
           late == BackwardOrgs \cup TooFar(base)
           known == DefinedFixups \ (TooFar(base) \cup UnknownForms)
<1>0. GasTypes /\ CallTypes /\ local[t] \in Locals
    BY DEF SInv, CallTypes
<1>1. capturing /\ process = "running"
    BY DEF Resolve, SInv, Window, Printing, Inside
<1>2. /\ text' = [i \in DOMAIN text |->
                    IF i \in known THEN Unit(text[i], {FieldValue(i, base)}) ELSE text[i]]
      /\ errors' = errors + Cardinality(late)
      /\ Report({text[i].op : i \in late})
      /\ unsupported' = (UnknownForms # {})
      /\ local' = [local EXCEPT ![t].unresolved = Cardinality(PendingFixups)]
    <2>1. ASSUME local' = [local EXCEPT ![t].unresolved = Cardinality(PendingFixups),
                                        ![t].starved = TRUE]
          PROVE  FALSE
        BY <1>0, <2>1 DEF CallTypes, Locals
    <2>2. QED BY <2>1 DEF Resolve
<1>3. UNCHANGED <<input, symbols, directive, section>>
    BY DEF Resolve, caller, flags
<1>4. directive = "" /\ section = FALSE
    BY DEF Resolving, SInv, FlagTypes
<1>5. /\ local'[t].parse_err = FALSE /\ local'[t].before = before
      /\ local'[t].unresolved = Cardinality(PendingFixups)
    BY <1>0, <1>2 DEF CallTypes, Locals
<1>6. caplog = {} /\ errors = before
    BY NoErrorYet
<1>7. \A ops \in {{"huge"}, Rejections, {"section"}} : ~ Has(in.source, ops)
    BY NoErrorYet
<1>8. Complaints(in) = {}
    BY DEF Resolving
<1>9. /\ Fixups = Sites(in)
      /\ DefinedFixups = Sites(in) \ Open(in)
      /\ PendingFixups = Open(in)
      /\ \A i \in Sites(in) \ Open(in) :
             /\ FieldValue(i, base) \in Int
             /\ Value(in, i) = {FieldValue(i, base)}
      /\ TooFar(base) = Far(in)
      /\ UnknownForms = {i \in Sites(in) \ Open(in) : body[i].op = "odd"}
      /\ BackwardOrgs = {} <=> ~ Has(in.source, {"org"})
    BY <1>0, LayoutIs
<1>10. /\ Len(text) \in Nat /\ DOMAIN text = 1..Len(text) /\ DOMAIN body = DOMAIN text
       /\ \A k \in DOMAIN text : text[k] = Unit(body[k], {})
    <2>1. /\ DOMAIN body = 1..Len(text)
          /\ \A k \in 1..Len(text) : text[k] = Unit(body[k], {})
        BY TextIsBody
    <2>2. Len(text) \in Nat /\ DOMAIN text = 1..Len(text)
        BY <1>0 DEF GasTypes
    <2>3. QED BY <2>1, <2>2
<1>11. Sites(in) \in SUBSET (DOMAIN text) /\ Open(in) \in SUBSET Sites(in)
    <2>1. Sites(in) \in SUBSET (DOMAIN body) /\ Open(in) \in SUBSET Sites(in)
        BY DEF Sites, Open
    <2>2. QED BY <1>10, <2>1
<1>12. late = {} <=> Late(in) = {}
    BY <1>9 DEF Late
<1>13. {text[i].op : i \in late} = Late(in)
    <2>1. \A i \in BackwardOrgs : text[i].op = "org"
        BY DEF BackwardOrgs
    <2>2. \A i \in TooFar(base) : text[i].op = "near"
        BY DEF TooFar
    <2>3. QED BY <1>9, <2>1, <2>2 DEF Late
<1>14. errors' # before <=> Late(in) # {}
    <2>1. late \in SUBSET (DOMAIN text)
        BY DEF BackwardOrgs, TooFar, DefinedFixups, Fixups
    <2> HIDE DEF late
    <2>2. IsFiniteSet(late) /\ Cardinality(late) \in Nat
        BY <1>0, <2>1, Counted
    <2>3. Cardinality(late) = 0 <=> late = {}
        BY <2>2, FS_EmptySet
    <2>4. before \in Nat
        BY <1>6, <1>0 DEF GasTypes
    <2>5. QED BY <1>2, <1>6, <1>12, <2>2, <2>3, <2>4
<1>15. caplog' = Late(in)
    BY <1>1, <1>2, <1>6, <1>13 DEF Report
<1>16. /\ Cardinality(Open(in)) \in Nat
       /\ Cardinality(Open(in)) > 0 <=> Open(in) # {}
       /\ IsFiniteSet(Open(in)) /\ Open(in) \in SUBSET Nat
    <2>1. IsFiniteSet(Open(in)) /\ Cardinality(Open(in)) \in Nat
        BY <1>0, <1>11, Counted
    <2>2. Cardinality(Open(in)) = 0 <=> Open(in) = {}
        BY <2>1, FS_EmptySet
    <2>3. QED BY <1>10, <1>11, <2>1, <2>2
<1> HIDE DEF body, base, late
<1>17. /\ DOMAIN text' = DOMAIN text
       /\ \A i \in DOMAIN text : text'[i].op = body[i].op /\ text'[i].name = body[i].name
    BY <1>2, <1>10 DEF Unit
<1>18. PendingFixups' = Open(in)
    <2>1. Fixups' = Fixups
        BY <1>10, <1>17 DEF Fixups, Unit
    <2>2. \A i \in Fixups : text'[i].name = text[i].name
        BY <1>10, <1>17 DEF Fixups, Unit
    <2>3. DefinedFixups' = DefinedFixups
        BY <1>3, <2>1, <2>2 DEF DefinedFixups, IsDefined
    <2>4. QED BY <1>9, <2>1, <2>3 DEF PendingFixups
<1>19. {text'[i].name : i \in Open(in)} = {body[i].name : i \in Open(in)}
    BY <1>11, <1>17
<1>20. unsupported' <=> \E i \in Sites(in) \ Open(in) : body[i].op = "odd"
    BY <1>2, <1>9
<1>21. ASSUME Late(in) = {}, ~ unsupported'
       PROVE  text' = [i \in DOMAIN body |->
                          Unit(body[i], IF i \in Sites(in) THEN Value(in, i) ELSE {})]
    <2>1. Far(in) = {} /\ UnknownForms = {}
        BY <1>2, <1>21 DEF Late
    <2>2. known = Sites(in) \ Open(in)
        BY <1>9, <2>1
    <2>3. \A i \in Open(in) : Value(in, i) = {}
        BY DEF Open, Value
    <2>4. ASSUME NEW i \in DOMAIN text
          PROVE  text'[i] = Unit(body[i], IF i \in Sites(in) THEN Value(in, i) ELSE {})
        <3> HIDE DEF known
        <3>1. CASE i \in Sites(in) \ Open(in)
            <4>1. text'[i] = Unit(text[i], {FieldValue(i, base)})
                BY <1>2, <2>2, <3>1
            <4>2. Value(in, i) = {FieldValue(i, base)}
                BY <1>9, <3>1
            <4>3. text[i] = Unit(body[i], {})
                BY <1>10
            <4>4. Unit(text[i], {FieldValue(i, base)}) = Unit(body[i], {FieldValue(i, base)})
                BY <4>3 DEF Unit
            <4>5. QED BY <3>1, <4>1, <4>2, <4>4
        <3>2. CASE i \in Open(in)
            BY <1>2, <1>10, <1>11, <2>2, <2>3, <3>2
        <3>3. CASE i \notin Sites(in)
            BY <1>2, <1>10, <2>2, <3>3
        <3>4. QED BY <3>1, <3>2, <3>3
    <2>5. QED BY <1>2, <1>10, <2>4
<1>22. Relocations(in)' =
           [k \in DOMAIN InOrder(Open(in)) |->
               LET i == InOrder(Open(in))[k] IN
               [offset |-> base + i - 1, symbol |-> body[i].name,
                hint |-> Hint(in.labels, body[i].name)]]
    <2> DEFINE sites == InOrder(Open(in))
    <2>1. DOMAIN sites = 1..Cardinality(Open(in))
        BY DEF InOrder
    <2>2. \A k \in DOMAIN sites : sites[k] \in DOMAIN text
        BY <1>11, <1>16, <2>1, InOrderIn
    <2> HIDE DEF sites
    <2>3. \A k \in DOMAIN sites : text'[sites[k]].name = body[sites[k]].name
        BY <1>17, <2>2
    <2>4. Relocations(in)' =
              [k \in DOMAIN sites |->
                  [offset |-> base + sites[k] - 1, symbol |-> text'[sites[k]].name,
                   hint |-> Hint(in.labels, text'[sites[k]].name)]]
        BY <1>18 DEF Relocations, RelocOffset, SiteOf, sites, base
    <2>5. QED BY <2>3, <2>4 DEF sites
<1>23. Assembled(in) =
           Success([i \in DOMAIN body |->
                       Unit(body[i], IF i \in Sites(in) THEN Value(in, i) ELSE {})],
                   IF ~ in.relocs THEN <<>> ELSE
                   [k \in DOMAIN InOrder(Open(in)) |->
                       LET i == InOrder(Open(in))[k] IN
                       [offset |-> base + i - 1, symbol |-> body[i].name,
                        hint |-> Hint(in.labels, body[i].name)]])
    BY DEF Assembled, body, base
<1>24. Outcome(t)' =
           IF unsupported' THEN Failure("unsupported", {})
           ELSE IF errors' # before THEN Failure("gas", caplog')
           ELSE IF ~ in.relocs /\ Cardinality(Open(in)) > 0
                THEN Failure("undefined", {text'[i].name : i \in Open(in)})
           ELSE Success(text', IF in.relocs THEN Relocations(in)' ELSE <<>>)
    BY <1>3, <1>4, <1>5, <1>9, <1>18 DEF Outcome
<1>25. Expected(in) =
           IF \E i \in Sites(in) \ Open(in) : body[i].op = "odd"
                THEN Failure("unsupported", {})
           ELSE IF Late(in) # {} THEN Failure("gas", Late(in))
           ELSE IF ~ in.relocs /\ Open(in) # {}
                THEN Failure("undefined", {body[i].name : i \in Open(in)})
           ELSE Assembled(in)
    BY <1>7, <1>8 DEF Expected, body
<1>26. CASE unsupported'
    BY <1>20, <1>24, <1>25, <1>26
<1>27. CASE ~ unsupported' /\ Late(in) # {}
    BY <1>14, <1>15, <1>20, <1>24, <1>25, <1>27
<1>28. CASE ~ unsupported' /\ Late(in) = {} /\ ~ in.relocs /\ Open(in) # {}
    BY <1>14, <1>16, <1>19, <1>20, <1>24, <1>25, <1>28
<1>29. CASE ~ unsupported' /\ Late(in) = {} /\ ~ (~ in.relocs /\ Open(in) # {})
    <2>1. Outcome(t)' = Success(text', IF in.relocs THEN Relocations(in)' ELSE <<>>)
        BY <1>14, <1>16, <1>24, <1>29
    <2>2. Expected(in) = Assembled(in)
        BY <1>20, <1>25, <1>29
    <2>3. CASE in.relocs
        BY <1>21, <1>22, <1>23, <1>29, <2>1, <2>2, <2>3
    <2>4. CASE ~ in.relocs
        BY <1>21, <1>23, <1>29, <2>1, <2>2, <2>4
    <2>5. QED BY <2>3, <2>4
<1>30. QED BY <1>26, <1>27, <1>28, <1>29

(* A call with an error is decided before the layout.                      *)
LEMMA LabelsDecide ==
    ASSUME SInv, NEW t \in Threads, LabelsDone(t), NEW in, in = input[t], IsInput(in),
           NEW before, before = local[t].before,
           Labelled(in.source, Labels(in), Len(Labels(in)), before)
    PROVE  \/ /\ pc' = [pc EXCEPT ![t] = "resolve"]
              /\ Resolving(in, before)' /\ local'[t].parse_err = FALSE
           \/ /\ pc' = [pc EXCEPT ![t] = "finish"]
              /\ Outcome(t)' = Expected(in)
<1> DEFINE failed == errors # before
<1>1. /\ local' = [local EXCEPT ![t].parse_err = failed]
      /\ pc' = [pc EXCEPT ![t] = IF failed \/ section \/ directive # ""
                                 THEN "finish" ELSE "resolve"]
      /\ UNCHANGED <<input, symbols, text, errors, unsupported, section, directive, caplog>>
    BY DEF LabelsDone, caller, gas, flags, streams
<1>2. local'[t].parse_err = failed /\ local'[t].before = before
    BY <1>1 DEF SInv, CallTypes, Locals
<1>3. failed <=> Complaints(in) # {}
    BY ComplaintsAre DEF Labelled, Said
<1>4. caplog = Complaints(in)
    BY ComplaintsAre DEF Labelled, Said
<1>5. SeenFlags(in.source, Len(in.source))
    BY DEF Labelled
<1>6. \A ops : Has(in.source, ops) <=> Among(in.source, ops, Len(in.source))
    BY SourceTyped
<1>7. ~ Has(in.source, {"huge"})
    BY <1>5, <1>6 DEF SeenFlags
<1>8. section <=> Has(in.source, {"section"})
    BY <1>5, <1>6 DEF SeenFlags
<1> HIDE DEF failed
<1>9. CASE ~ failed /\ ~ section /\ directive = ""
    <2>1. pc' = [pc EXCEPT ![t] = "resolve"]
        BY <1>1, <1>9
    <2>2. local'[t].parse_err = FALSE
        BY <1>2, <1>9 DEF failed
    <2>3. Labelled(in.source, Labels(in), Len(Labels(in)), before)'
        BY <1>1 DEF Labelled, SeenFlags, SeenText, BoundLabel, Said
    <2>4. Resolving(in, before)'
        BY <1>1, <1>3, <1>9, <2>3 DEF Resolving
    <2>5. QED BY <2>1, <2>2, <2>4
<1>10. CASE directive # ""
    <2>1. PICK i \in 1..Len(in.source) :
              /\ in.source[i].op \in Rejections /\ directive = in.source[i].op
              /\ ~ Among(in.source, Rejections, i-1)
        BY <1>5, <1>10 DEF SeenFlags
    <2>2. in.source \in Seq(Statements) /\ Len(in.source) \in Nat
          /\ DOMAIN in.source = 1..Len(in.source)
        BY SourceTyped DEF IsInput
    <2>3. \A j \in DOMAIN in.source : in.source[j].op \in Rejections => i <= j
        BY <2>1, <2>2 DEF Among
    <2>4. FirstRejection(in.source) = directive
        BY <2>1, <2>2, <2>3, FirstRejectionIs
    <2>5. Has(in.source, Rejections)
        BY <2>1, <2>2 DEF Has
    <2>6. Expected(in) = Failure(directive, {})
        BY <1>7, <2>4, <2>5 DEF Expected
    <2>7. Outcome(t)' = Failure(directive, {})
        BY <1>1, <1>10 DEF Outcome
    <2>8. QED BY <1>1, <1>10, <2>6, <2>7
<1>11. CASE directive = "" /\ (section \/ failed)
    <2>1. ~ Has(in.source, Rejections)
        <3>1. "" \notin Rejections
            BY DEF Rejections
        <3>2. QED BY <1>5, <1>6, <1>11, <3>1 DEF SeenFlags
    <2>2. pc' = [pc EXCEPT ![t] = "finish"]
        BY <1>1, <1>11
    <2>3. CASE section
        <3>1. Expected(in) = Failure("section", {})
            BY <1>7, <1>8, <2>1, <2>3 DEF Expected
        <3>2. Outcome(t)' = Failure("section", {})
            BY <1>1, <1>11, <2>3 DEF Outcome
        <3>3. QED BY <2>2, <3>1, <3>2
    <2>4. CASE ~ section
        <3>1. Expected(in) = Failure("gas", Complaints(in))
            BY <1>3, <1>7, <1>8, <1>11, <2>1, <2>4 DEF Expected
        <3>2. local'[t].parse_err = TRUE
            BY <1>2, <1>11, <2>4 DEF failed
        <3>3. Outcome(t)' = Failure("gas", caplog)
            BY <1>1, <1>11, <2>4, <3>2 DEF Outcome
        <3>4. QED BY <1>4, <2>2, <3>1, <3>3
    <2>5. QED BY <2>3, <2>4
<1>12. QED BY <1>9, <1>10, <1>11

-----------------------------------------------------------------------------
(* The invariant.                                                          *)

Parsing(t) ==
    /\ local[t].pos - 1 \in 0..Len(input[t].source)
    /\ Seen(input[t].source, local[t].pos - 1, local[t].before)
Labelling(t) ==
    /\ local[t].pos - 1 \in 0..Len(Labels(input[t]))
    /\ Labelled(input[t].source, Labels(input[t]), local[t].pos - 1, local[t].before)
LayingOut(t) ==
    local[t].parse_err = FALSE /\ Resolving(input[t], local[t].before)
Deciding(t) ==
    ~ local[t].starved => Outcome(t) = Expected(input[t])

Progress(t) ==
    /\ pc[t] = "parse"   => Parsing(t)
    /\ pc[t] = "labels"  => Labelling(t)
    /\ pc[t] = "resolve" => LayingOut(t)
    /\ pc[t] = "finish"  => Deciding(t)

Answered(t) ==
    Returned(t) /\ ~ local[t].starved => result[t] = Expected(input[t])

RInv == /\ SInv
        /\ DOMAIN result = Threads
        /\ \A t \in Threads : process = "running" => Progress(t)
        /\ \A t \in Threads : Answered(t)

LEMMA InputIs ==
    ASSUME SInv, NEW t \in Threads
    PROVE  IsInput(input[t])
BY InputTyped DEF SInv, IsInput

LEMMA Moves ==
    ASSUME SInv, NEW t \in Threads, NEW to, pc' = [pc EXCEPT ![t] = to]
    PROVE  pc'[t] = to
BY DEF SInv, CallTypes

(* The own progress of each step.                                          *)
LEMMA BeginProgress ==
    ASSUME RInv, NEW t \in Threads, Begin(t)
    PROVE  Progress(t)' /\ Answered(t)'
<1>1. pc'[t] = "parse"
    BY DEF Begin, RInv, SInv, CallTypes
<1>2. local'[t].pos = 1 /\ local'[t].before = errors /\ input'[t] = input[t]
    BY DEF Begin, RInv, SInv, CallTypes, Start, caller
<1>3. PICK src : src = input[t].source
    OBVIOUS
<1>4. PICK before : before = errors
    OBVIOUS
<1>5. Seen(src, 0, before)'
    BY <1>4, SeenBegins DEF RInv
<1>6. Len(src) \in Nat
    BY <1>3, InputTyped DEF RInv, SInv
<1>7. Parsing(t)'
    BY <1>2, <1>3, <1>4, <1>5, <1>6 DEF Parsing
<1>8. QED BY <1>1, <1>7 DEF Progress, Answered, Returned

LEMMA StatementProgress ==
    ASSUME RInv, NEW t \in Threads, Statement(t), ~ Throws(t), ~ GasExits(t)
    PROVE  Progress(t)' /\ Answered(t)'
<1>1. PICK src : src = input[t].source
    OBVIOUS
<1>2. PICK n : n = local[t].pos - 1
    OBVIOUS
<1>3. PICK before : before = local[t].before
    OBVIOUS
<1>4. /\ pc[t] = "parse" /\ process = "running" /\ Advance(t)
      /\ local[t].pos <= Len(src)
    BY <1>1 DEF Statement, Emits, DefinesLabel, GasRejects, MovesBackwards,
                DriverRejects, SwitchesSection, At
<1>5. Seen(src, n, before) /\ n \in 0..Len(src)
    BY <1>1, <1>2, <1>3, <1>4 DEF RInv, Progress, Parsing
<1>6. Seen(src, n+1, before)'
    BY <1>1, <1>2, <1>5, SeenStep DEF RInv
<1>7. local'[t].pos - 1 = n + 1 /\ local'[t].before = before
    BY <1>2, <1>3, <1>4, AdvanceMoves DEF RInv, SInv
<1>8. input'[t].source = src /\ pc'[t] = "parse"
    BY <1>1, <1>4 DEF Advance, caller
<1>9. n + 1 \in 0..Len(src)
    <2>1. Len(src) \in Nat
        BY <1>1, InputTyped DEF RInv, SInv
    <2>2. local[t].pos \in Nat
        BY DEF RInv, SInv, CallTypes, Locals
    <2>3. QED BY <1>2, <1>4, <1>5, <2>1, <2>2
<1>10. Parsing(t)'
    BY <1>6, <1>7, <1>8, <1>9 DEF Parsing
<1>11. QED BY <1>8, <1>10 DEF Progress, Answered, Returned

LEMMA ThrowsAnswers ==
    ASSUME RInv, NEW t \in Threads, Throws(t)
    PROVE  Progress(t)' /\ Answered(t)'
<1>1. pc'[t] = "idle" /\ result'[t] = Failure("huge", {}) /\ input' = input
    BY DEF Throws, RInv, SInv, CallTypes
<1>2. Has(input[t].source, {"huge"})
    <2>1. local[t].pos \in Nat \ {0}
        BY DEF RInv, SInv, CallTypes, Locals
    <2>2. input[t].source \in Seq(Statements)
        BY InputTyped DEF RInv, SInv
    <2>3. QED BY <2>1, <2>2 DEF Throws, At, Has
<1>3. Expected(input[t]) = Failure("huge", {})
    BY <1>2 DEF Expected
<1>4. QED BY <1>1, <1>3 DEF Progress, Answered

LEMMA ParsedProgress ==
    ASSUME RInv, NEW t \in Threads, Parsed(t)
    PROVE  Progress(t)' /\ Answered(t)'
<1>1. PICK in : in = input[t]
    OBVIOUS
<1>2. PICK before : before = local[t].before
    OBVIOUS
<1>3. IsInput(in)
    BY <1>1, InputIs DEF RInv
<1>4. Len(in.source) \in Nat /\ Len(Labels(in)) \in Nat
    BY <1>3, SourceTyped, LabelsTyped
<1>5. /\ pc'[t] = "labels" /\ local'[t].pos = 1 /\ local'[t].before = before
      /\ input'[t] = in
    BY <1>1, <1>2 DEF Parsed, RInv, SInv, CallTypes, Locals, caller
<1>6. local[t].pos - 1 = Len(in.source)
    <2>1. local[t].pos - 1 \in 0..Len(in.source)
        BY <1>1 DEF Parsed, RInv, Progress, Parsing
    <2>2. local[t].pos \in Nat
        BY DEF RInv, SInv, CallTypes, Locals
    <2>3. QED BY <1>1, <1>4, <2>1, <2>2 DEF Parsed
<1>7. Seen(in.source, Len(in.source), before)
    BY <1>1, <1>2, <1>6 DEF Parsed, RInv, Progress, Parsing
<1>8. Labelled(in.source, Labels(in), 0, before)
    BY <1>7, LabelledBegins
<1>9. Labelled(in.source, Labels(in), 0, before)'
    BY <1>8 DEF Parsed, gas, flags, streams, Labelled, SeenFlags, SeenText,
                BoundLabel, Said
<1>10. Labelling(t)'
    BY <1>4, <1>5, <1>9 DEF Labelling
<1>11. QED BY <1>5, <1>10 DEF Progress, Answered, Returned

LEMMA LabelsToDefineIs ==
    ASSUME NEW t \in Threads PROVE LabelsToDefine(t) = Labels(input[t])
BY DEF LabelsToDefine, Labels

LEMMA DefineAbsProgress ==
    ASSUME RInv, NEW t \in Threads, DefineAbs(t)
    PROVE  Progress(t)' /\ Answered(t)'
<1>1. PICK in : in = input[t]
    OBVIOUS
<1>2. PICK p : p = local[t].pos - 1
    OBVIOUS
<1>3. PICK before : before = local[t].before
    OBVIOUS
<1>4. PICK labs : labs = Labels(in)
    OBVIOUS
<1>5. IsInput(in)
    BY <1>1, InputIs DEF RInv
<1>6. Labelled(in.source, labs, p, before) /\ p \in 0..Len(labs)
    BY <1>1, <1>2, <1>3, <1>4 DEF DefineAbs, RInv, Progress, Labelling
<1>7. local[t].pos \in Nat /\ local[t].pos = p + 1 /\ p \in Nat
    <2>1. local[t].pos \in Nat \ {0}
        BY DEF RInv, SInv, CallTypes, Locals
    <2>2. QED BY <1>2, <2>1
<1>8. p + 1 \in 1..Len(labs) /\ labs[p+1].name \in Names
    <2>1. Len(labs) \in Nat /\ \A k \in 1..Len(labs) : labs[k].name \in Names
        BY <1>4, <1>5, LabelsTyped
    <2>2. local[t].pos <= Len(labs)
        BY <1>1, <1>4, LabelsToDefineIs DEF DefineAbs
    <2>3. QED BY <1>7, <2>1, <2>2
<1>9. LET l == labs[p+1] IN
      \/ /\ ~ IsDefined(l.name)
         /\ symbols' = [symbols EXCEPT ![l.name] = Absolute(l.address)]
         /\ UNCHANGED <<errors, caplog>>
      \/ IsDefined(l.name) /\ Bad("twice") /\ UNCHANGED symbols
    <2>1. LabelsToDefine(t)[local[t].pos] = labs[p+1]
        BY <1>1, <1>4, <1>7, LabelsToDefineIs
    <2>2. QED BY <2>1 DEF DefineAbs, streams
<1>10. UNCHANGED <<section, directive, text>> /\ Advance(t)
    BY DEF DefineAbs, flags
<1>11. GasTypes /\ capturing
    BY DEF DefineAbs, RInv, SInv, Window, Printing, Inside
<1>12. Labelled(in.source, labs, p+1, before)'
    BY <1>6, <1>7, <1>8, <1>9, <1>10, <1>11, LabelledStep
<1>13. local'[t].pos - 1 = p + 1 /\ local'[t].before = before
    BY <1>2, <1>3, <1>10, AdvanceMoves DEF RInv, SInv
<1>14. input'[t] = in /\ pc'[t] = "labels"
    BY <1>1, <1>10 DEF DefineAbs, Advance, caller
<1>15. p + 1 \in 0..Len(labs)
    BY <1>7, <1>8
<1>16. Labelling(t)'
    BY <1>4, <1>12, <1>13, <1>14, <1>15 DEF Labelling
<1>17. QED BY <1>14, <1>16 DEF Progress, Answered, Returned

LEMMA LabelsDoneProgress ==
    ASSUME RInv, NEW t \in Threads, LabelsDone(t)
    PROVE  Progress(t)' /\ Answered(t)'
<1>1. PICK in : in = input[t]
    OBVIOUS
<1>2. PICK before : before = local[t].before
    OBVIOUS
<1>3. IsInput(in)
    BY <1>1, InputIs DEF RInv
<1>4. local[t].pos - 1 = Len(Labels(in))
    <2>1. local[t].pos - 1 \in 0..Len(Labels(in))
        BY <1>1 DEF LabelsDone, RInv, Progress, Labelling
    <2>2. local[t].pos \in Nat
        BY DEF RInv, SInv, CallTypes, Locals
    <2>3. Len(Labels(in)) \in Nat
        BY <1>3, LabelsTyped
    <2>4. LabelsToDefine(t) = Labels(in)
        BY <1>1, LabelsToDefineIs
    <2>5. local[t].pos > Len(Labels(in))
        BY <2>4 DEF LabelsDone
    <2>6. QED BY <2>1, <2>2, <2>3, <2>5
<1>5. Labelled(in.source, Labels(in), Len(Labels(in)), before)
    BY <1>1, <1>2, <1>4 DEF LabelsDone, RInv, Progress, Labelling
<1>6. input'[t] = in /\ local'[t].before = before
    BY <1>1, <1>2 DEF LabelsDone, RInv, SInv, CallTypes, Locals, caller
<1>7. SInv
    BY DEF RInv
<1>8. CASE /\ pc' = [pc EXCEPT ![t] = "resolve"]
           /\ Resolving(in, before)' /\ local'[t].parse_err = FALSE
    <2>1. pc'[t] = "resolve"
        BY <1>7, <1>8, Moves
    <2>2. LayingOut(t)'
        BY <1>6, <1>8 DEF LayingOut
    <2>3. QED BY <2>1, <2>2 DEF Progress, Answered, Returned
<1>9. CASE pc' = [pc EXCEPT ![t] = "finish"] /\ Outcome(t)' = Expected(in)
    <2>1. pc'[t] = "finish"
        BY <1>7, <1>9, Moves
    <2>2. Deciding(t)'
        BY <1>6, <1>9 DEF Deciding
    <2>3. QED BY <2>1, <2>2 DEF Progress, Answered, Returned
<1>10. QED BY <1>1, <1>2, <1>3, <1>5, <1>7, <1>8, <1>9, LabelsDecide

LEMMA ResolveProgress ==
    ASSUME RInv, NEW t \in Threads, Resolve(t)
    PROVE  Progress(t)' /\ Answered(t)'
<1>1. PICK in : in = input[t]
    OBVIOUS
<1>2. PICK before : before = local[t].before
    OBVIOUS
<1>3. IsInput(in) /\ SInv
    BY <1>1, InputIs DEF RInv
<1>4. Resolving(in, before) /\ local[t].parse_err = FALSE
    BY <1>1, <1>2 DEF Resolve, RInv, Progress, LayingOut
<1>5. pc'[t] = "finish" /\ input'[t] = in
    BY <1>1 DEF Resolve, RInv, SInv, CallTypes, caller
<1>6. ~ local'[t].starved => Outcome(t)' = Expected(in)
    BY <1>1, <1>2, <1>3, <1>4, ResolveDecides
<1>7. QED BY <1>5, <1>6 DEF Progress, Deciding, Answered, Returned

LEMMA FinishProgress ==
    ASSUME RInv, NEW t \in Threads, Finish(t)
    PROVE  Progress(t)' /\ Answered(t)'
<1>1. /\ pc'[t] = "idle" /\ result'[t] = Outcome(t)
      /\ input'[t] = input[t] /\ local'[t] = local[t]
    BY DEF Finish, RInv, SInv, CallTypes
<1>2. Deciding(t)
    BY DEF Finish, RInv, Progress
<1>3. QED BY <1>1, <1>2 DEF Progress, Answered, Deciding

-----------------------------------------------------------------------------
(* The other threads.                                                      *)

(* A thread outside neither prints, nor touches gas, nor the flags.        *)
LEMMA ProgressKept ==
    ASSUME NEW u \in Threads, Progress(u), UNCHANGED <<gas, flags, caplog, local>>,
           input'[u] = input[u], pc'[u] = pc[u]
    PROVE  Progress(u)'
<1>0. UNCHANGED <<symbols, text, errors, unsupported, section, directive, caplog>>
      /\ local' = local
    BY DEF gas, flags
<1>1. Parsing(u) => Parsing(u)'
    BY <1>0 DEF Parsing, Seen, SeenFlags, SeenText, SeenLabels, SeenLabel, Said
<1>2. Labelling(u) => Labelling(u)'
    <2>1. PICK src, labs, p, before :
              /\ src = input[u].source /\ labs = Labels(input[u])
              /\ p = local[u].pos - 1 /\ before = local[u].before
        OBVIOUS
    <2>2. Labelled(src, labs, p, before) => Labelled(src, labs, p, before)'
        BY <1>0 DEF Labelled, SeenFlags, SeenText, BoundLabel, Said
    <2>3. Labels(input[u])' = labs
        BY <2>1 DEF Labels
    <2>4. QED BY <1>0, <2>1, <2>2, <2>3 DEF Labelling
<1>3. LayingOut(u) => LayingOut(u)'
    BY <1>0 DEF LayingOut, Resolving, Labelled, SeenFlags, SeenText, BoundLabel, Said
<1>4. Deciding(u) => Deciding(u)'
    <2>1. PendingFixups' = PendingFixups
        BY <1>0 DEF PendingFixups, DefinedFixups, Fixups, IsDefined
    <2>2. Outcome(u)' = Outcome(u)
        BY <1>0, <2>1 DEF Outcome, Relocations
    <2>3. QED BY <1>0, <2>2 DEF Deciding
<1>5. QED BY <1>1, <1>2, <1>3, <1>4 DEF Progress

LEMMA OthersUntouched ==
    ASSUME RInv, NEW t \in Threads, Call(t) \/ Step(t), NEW u \in Threads \ {t}
    PROVE  /\ pc'[u] = pc[u] /\ input'[u] = input[u]
           /\ local'[u] = local[u] /\ result'[u] = result[u]
<1> USE DEF RInv, SInv, CallTypes
<1>1. CASE Call(t)
    BY <1>1 DEF Call
<1>2. CASE Acquire(t)
    BY <1>2 DEF Acquire
<1>3. CASE Begin(t)
    BY <1>3 DEF Begin, caller
<1>4. CASE Statement(t)
    BY <1>4 DEF Statement, Emits, DefinesLabel, GasRejects, MovesBackwards,
                DriverRejects, SwitchesSection, Throws, GasExits, Advance, caller
<1>5. CASE Parsed(t)
    BY <1>5 DEF Parsed, caller
<1>6. CASE DefineAbs(t)
    BY <1>6 DEF DefineAbs, Advance, caller
<1>7. CASE LabelsDone(t)
    BY <1>7 DEF LabelsDone, caller
<1>8. CASE Resolve(t)
    BY <1>8 DEF Resolve, caller
<1>9. CASE Finish(t)
    BY <1>9 DEF Finish
<1>10. QED BY <1>1, <1>2, <1>3, <1>4, <1>5, <1>6, <1>7, <1>8, <1>9 DEF Step

(* A step inside the library shuts the others out; a step outside changes  *)
(* nothing they depend on.                                                 *)
LEMMA OthersProgress ==
    ASSUME RInv, NEW t \in Threads, Call(t) \/ Step(t), NEW u \in Threads \ {t}
    PROVE  Answered(u)' /\ (process' = "running" => Progress(u)')
<1>1. /\ pc'[u] = pc[u] /\ input'[u] = input[u]
      /\ local'[u] = local[u] /\ result'[u] = result[u]
    BY OthersUntouched
<1>2. Answered(u)'
    BY <1>1 DEF RInv, Answered, Returned
<1>3. process = "running"
    BY DEF Call, Step, Acquire, Begin, Statement, Emits, DefinesLabel, GasRejects,
           MovesBackwards, DriverRejects, SwitchesSection, Throws, GasExits, At,
           Parsed, DefineAbs, LabelsDone, Resolve, Finish
<1>4. CASE Call(t) \/ Acquire(t)
    <2>1. UNCHANGED <<gas, flags, caplog, local>>
        BY <1>4 DEF Call, Acquire, streams
    <2>2. Progress(u)
        BY <1>3 DEF RInv
    <2>3. QED BY <1>1, <1>2, <2>1, <2>2, ProgressKept
<1>5. CASE ~ Call(t) /\ ~ Acquire(t)
    <2>1. pc[t] \in Inside
        BY <1>5 DEF Step, Begin, Statement, Emits, DefinesLabel, GasRejects,
           MovesBackwards, DriverRejects, SwitchesSection, Throws, GasExits, At,
           Parsed, DefineAbs, LabelsDone, Resolve, Finish, Inside
    <2>2. pc[u] \notin Inside
        BY <1>3, <2>1, OthersOutside DEF RInv
    <2>3. Progress(u)'
        BY <1>1, <2>2 DEF Progress, Inside
    <2>4. QED BY <1>2, <2>3
<1>6. QED BY <1>4, <1>5

(* The thread itself.                                                      *)
LEMMA OwnProgress ==
    ASSUME RInv, NEW t \in Threads, Call(t) \/ Step(t)
    PROVE  Answered(t)' /\ (process' = "running" => Progress(t)')
<1>1. CASE Call(t)
    <2>1. pc'[t] = "waiting"
        BY <1>1 DEF Call, RInv, SInv, CallTypes
    <2>2. QED BY <2>1 DEF Progress, Answered, Returned
<1>2. CASE Acquire(t)
    <2>1. pc'[t] = "begin"
        BY <1>2 DEF Acquire, RInv, SInv, CallTypes
    <2>2. QED BY <2>1 DEF Progress, Answered, Returned
<1>3. CASE Statement(t)
    <2>1. CASE Throws(t)
        BY <2>1, ThrowsAnswers
    <2>2. CASE GasExits(t)
        <3>1. process' = "exited" /\ UNCHANGED <<pc, input, local, result>>
            BY <2>2 DEF GasExits, caller
        <3>2. QED BY <3>1 DEF RInv, Answered, Returned
    <2>3. CASE ~ Throws(t) /\ ~ GasExits(t)
        BY <1>3, <2>3, StatementProgress
    <2>4. QED BY <2>1, <2>2, <2>3
<1>4. QED
    BY <1>1, <1>2, <1>3, BeginProgress, ParsedProgress, DefineAbsProgress,
       LabelsDoneProgress, ResolveProgress, FinishProgress DEF Step

LEMMA ResultDomain ==
    ASSUME RInv, NEW t \in Threads, Call(t) \/ Step(t)
    PROVE  DOMAIN result' = Threads
<1>1. \/ result' = result
      \/ \E r : result' = [result EXCEPT ![t] = r]
    BY DEF Call, Step, Acquire, Begin, Statement, Emits, DefinesLabel, GasRejects,
           MovesBackwards, DriverRejects, SwitchesSection, Throws, GasExits, Advance,
           Parsed, DefineAbs, LabelsDone, Resolve, Finish, caller
<1>2. QED BY <1>1 DEF RInv

LEMMA InitRInv == Init => RInv
<1> SUFFICES ASSUME Init PROVE RInv
    OBVIOUS
<1>1. \A t \in Threads : pc[t] = "idle" /\ result[t] = Nothing
    BY DEF Init
<1>2. DOMAIN result = Threads
    BY DEF Init
<1>3. QED BY <1>1, <1>2, InitSInv DEF RInv, Progress, Answered, Returned

LEMMA NextRInv == RInv /\ [Next]_vars => RInv'
<1> SUFFICES ASSUME RInv, [Next]_vars PROVE RInv'
    OBVIOUS
<1>1. SInv'
    BY NextSInv DEF RInv
<1>2. ASSUME NEW t \in Threads, Call(t) \/ Step(t) PROVE RInv'
    <2>1. \A u \in Threads : Answered(u)' /\ (process' = "running" => Progress(u)')
        BY <1>2, OwnProgress, OthersProgress
    <2>2. DOMAIN result' = Threads
        BY <1>2, ResultDomain
    <2>3. QED BY <1>1, <2>1, <2>2 DEF RInv
<1>3. CASE UNCHANGED vars
    <2>1. UNCHANGED <<gas, flags, caplog, local, input, pc, result, process>>
        BY <1>3 DEF vars, caller, streams
    <2>2. \A u \in Threads : Progress(u) => Progress(u)'
        BY <2>1, ProgressKept
    <2>3. \A u \in Threads : Answered(u) => Answered(u)'
        BY <2>1 DEF Answered, Returned
    <2>4. QED BY <1>1, <2>1, <2>2, <2>3 DEF RInv
<1>4. QED BY <1>2, <1>3 DEF Next, Quiescent

-----------------------------------------------------------------------------
(* A call's result is a function of its arguments, for any threads, names  *)
(* and inputs: the symbol table, the frags, the error counter, the two     *)
(* flags, g_unsupported_reloc and the capture buffer carry nothing from    *)
(* one call into another (do_assemble, nyxstone.cpp:456-464), unless       *)
(* memory ran out in this very call.                                       *)
THEOREM CallsAreIsolated == Spec => []Isolated
<1>1. RInv => Isolated
    BY DEF RInv, Isolated, Answered
<1>2. QED BY <1>1, InitRInv, NextRInv, PTL DEF Spec

-----------------------------------------------------------------------------
(* What Expected says of two calls that differ in one argument.            *)

(* The statements of Body are statements of the source.                    *)
LEMMA BodyFrom ==
    ASSUME NEW in, IsInput(in), NEW k \in DOMAIN Body(in.source)
    PROVE  /\ k \in Nat
           /\ \E i \in DOMAIN in.source : Body(in.source)[k] = in.source[i]
<1> DEFINE src == in.source
           S == {i \in DOMAIN src : src[i].op \in Placed}
<1>1. Len(src) \in Nat /\ DOMAIN src = 1..Len(src)
    BY SourceTyped
<1>2. S = {i \in 1..Len(src) : src[i].op \in Placed}
    BY <1>1
<1>3. IsFiniteSet(S) /\ S \in SUBSET Nat
    <2>1. IsFiniteSet({i \in 1..Len(src) : src[i].op \in Placed})
        BY <1>1, CountNat
    <2>2. IsFiniteSet(S)
        BY <1>2, <2>1
    <2>3. QED BY <1>1, <2>2
<1>4. DOMAIN InOrder(S) = 1..Cardinality(S)
    BY DEF InOrder
<1>5. Body(src) = [m \in DOMAIN InOrder(S) |-> src[InOrder(S)[m]]]
    BY DEF Body
<1>6. k \in 1..Cardinality(S)
    BY <1>4, <1>5
<1>7. InOrder(S)[k] \in S
    <2> HIDE DEF S
    <2>1. QED BY <1>3, <1>6, InOrderIn
<1>8. Body(src)[k] = src[InOrder(S)[k]]
    BY <1>4, <1>5, <1>6
<1>9. k \in Nat
    <2>1. Cardinality(S) \in Nat
        BY <1>3, FS_CardinalityType
    <2>2. QED BY <1>6, <2>1
<1>10. InOrder(S)[k] \in DOMAIN src
    BY <1>7
<1> HIDE DEF S
<1>11. QED BY <1>8, <1>9, <1>10

(* With labels of its own only, nothing depends on the address.            *)
LEMMA AddressFree ==
    ASSUME NEW in \in InputType, NEW at \in Nat, ~ in.relocs, OwnLabelsOnly(in.source)
    PROVE  Expected([in EXCEPT !.address = at]) = Expected(in)
<1> DEFINE to == [in EXCEPT !.address = at]
           src == in.source
           body == Body(src)
<1>1. /\ to.source = src /\ to.labels = in.labels /\ to.relocs = in.relocs
      /\ to.address = at /\ IsInput(to) /\ IsInput(in) /\ in.address \in Nat
    BY DEF InputType, IsInput
<1> HIDE DEF to
<1>2. \A m : Given(to, m) = Given(in, m)
    BY <1>1 DEF Given
<1>3. Complaints(to) = Complaints(in)
    BY <1>1, <1>2 DEF Complaints, TwiceGiven
<1>4. Sites(to) = Sites(in)
    BY <1>1 DEF Sites
<1>5. ASSUME NEW i \in Sites(in)
      PROVE  /\ i \in Nat /\ body[i].op # "word" /\ body[i].name \in Names
             /\ Places(src, "def", body[i].name) # {}
    <2>1. i \in DOMAIN body /\ body[i].op \in References
        BY DEF Sites
    <2>2. PICK j \in DOMAIN src : body[i] = src[j] /\ i \in Nat
        BY <1>1, <2>1, BodyFrom
    <2>3. src[j].name \in Names
        BY <1>1, SourceTyped
    <2>4. src[j].op # "word" /\ (src[j].op \in References =>
                                    Places(src, "def", src[j].name) # {})
        BY DEF OwnLabelsOnly
    <2> HIDE DEF body, src
    <2>5. QED BY <2>1, <2>2, <2>3, <2>4
<1>6. ASSUME Complaints(in) # {}
      PROVE  Expected(to) = Expected(in)
    BY <1>1, <1>3, <1>6 DEF Expected
<1>7. ASSUME Complaints(in) = {}
      PROVE  Expected(to) = Expected(in)
    <2>1. \A i \in Sites(in) : Given(in, body[i].name) = {}
        BY <1>5, <1>7 DEF Complaints, TwiceGiven
    <2>2. \A i \in Sites(in) :
              /\ Target(in, body[i].name) = {in.address + Count(src, Placed, j) :
                                               j \in Places(src, "def", body[i].name)}
              /\ Target(to, body[i].name) = {at + Count(src, Placed, j) :
                                               j \in Places(src, "def", body[i].name)}
        BY <1>1, <1>2, <2>1 DEF Target
    <2>3. \A m : \A j \in Places(src, "def", m) : Count(src, Placed, j) \in Nat
        <3>1. \A m : \A j \in Places(src, "def", m) : j \in Nat
            BY <1>1, SourceTyped DEF Places
        <3>2. QED BY <3>1, CountNat
    <2>4. ASSUME NEW i \in Sites(in) PROVE Value(to, i) = Value(in, i)
        <3> DEFINE P == Places(src, "def", body[i].name)
        <3>1. \A v : v \in Value(in, i) <=>
                  \E j \in P : v = (in.address + Count(src, Placed, j)) - (in.address + i - 1)
            <4>1. Value(in, i) = {v - (in.address + i - 1) : v \in Target(in, body[i].name)}
                BY <1>5 DEF Value
            <4>2. Target(in, body[i].name) = {in.address + Count(src, Placed, j) : j \in P}
                BY <2>2
            <4> HIDE DEF P, src, body
            <4>3. QED BY <4>1, <4>2
        <3>2. \A v : v \in Value(to, i) <=>
                  \E j \in P : v = (at + Count(src, Placed, j)) - (at + i - 1)
            <4>1. Value(to, i) = {v - (at + i - 1) : v \in Target(to, body[i].name)}
                BY <1>1, <1>5 DEF Value
            <4>2. Target(to, body[i].name) = {at + Count(src, Placed, j) : j \in P}
                BY <2>2
            <4> HIDE DEF P, src, body
            <4>3. QED BY <4>1, <4>2
        <3>3. \A j \in P : (in.address + Count(src, Placed, j)) - (in.address + i - 1)
                          = (at + Count(src, Placed, j)) - (at + i - 1)
            <4>1. \A j \in P : Count(src, Placed, j) \in Nat
                BY <2>3
            <4>2. i \in Nat
                BY <1>5
            <4> HIDE DEF P, src
            <4>3. QED BY <1>1, <4>1, <4>2
        <3> HIDE DEF P
        <3>4. QED BY <3>1, <3>2, <3>3
    <2>5. Open(in) = {} /\ Open(to) = {}
        <3>1. \A i \in Sites(in) : Target(in, body[i].name) # {} /\ Target(to, body[i].name) # {}
            BY <1>5, <2>2
        <3>2. QED BY <1>1, <1>4, <3>1 DEF Open
    <2>6. Far(to) = Far(in)
        BY <1>1, <1>4, <2>4, <2>5 DEF Far
    <2>7. Late(to) = Late(in)
        BY <1>1, <2>6 DEF Late
    <2>8. [i \in DOMAIN body |-> Unit(body[i], IF i \in Sites(to) THEN Value(to, i) ELSE {})] =
          [i \in DOMAIN body |-> Unit(body[i], IF i \in Sites(in) THEN Value(in, i) ELSE {})]
        BY <1>4, <2>4
    <2>9. Assembled(to) = Assembled(in)
        BY <1>1, <2>8 DEF Assembled
    <2>10. QED BY <1>1, <1>3, <1>4, <2>5, <2>7, <2>9 DEF Expected
<1>8. QED BY <1>6, <1>7 DEF to

(* Code that refers to its own labels by displacement assembles to the     *)
(* same result at every address, for any threads and inputs                *)
(* (nyxstone.cpp:530-536).                                                 *)
THEOREM AddressIndependent == Spec => []PositionIndependent
<1>1. RInv => PositionIndependent
    <2> SUFFICES ASSUME RInv, NEW t \in Threads, NEW u \in Threads,
                        ~ local[t].starved, ~ local[u].starved,
                        Returned(t), Returned(u), OwnLabelsOnly(input[t].source),
                        input[u] = [input[t] EXCEPT !.address = input[u].address],
                        ~ input[t].relocs
                 PROVE  result[u] = result[t]
        BY DEF PositionIndependent
    <2>1. result[t] = Expected(input[t]) /\ result[u] = Expected(input[u])
        BY DEF RInv, Answered
    <2>2. input[t] \in InputType /\ input[u].address \in Nat
        BY InputTyped DEF RInv, SInv
    <2>3. Expected(input[u]) = Expected(input[t])
        BY <2>2, AddressFree
    <2>4. QED BY <2>1, <2>3
<1>2. QED BY <1>1, InitRInv, NextRInv, PTL DEF Spec

-----------------------------------------------------------------------------
(* The two modes of a call.                                                *)

LEMMA SuccessIs ==
    ASSUME NEW in, Expected(in).status = "OK"
    PROVE  /\ Expected(in) = Assembled(in) /\ Complaints(in) = {}
           /\ ~ in.relocs => Open(in) = {}
<1>1. \A why, diag : Failure(why, diag).status # "OK"
    BY DEF Failure, Classify
<1>2. QED BY <1>1 DEF Expected

(* Where no label is given twice, the hint of a relocation is the address  *)
(* that the other mode encodes.                                            *)
LEMMA HintIsTarget ==
    ASSUME NEW in, IsInput(in), ~ in.relocs, Complaints(in) = {}, NEW n \in Names,
           Places(in.source, "def", n) = {}
    PROVE  Hint(in.labels, n) = Target(in, n)
<1> DEFINE given == {k \in DOMAIN in.labels : in.labels[k].name = n}
<1>1. Given(in, n) = given
    BY DEF Given
<1>2. \A k, m \in given : k = m
    BY <1>1 DEF Complaints, TwiceGiven
<1>3. given \in SUBSET Nat
    <2> DEFINE L == [name : Names, address : Nat]
    <2>1. in.labels \in Seq(L)
        BY DEF IsInput
    <2> HIDE DEF L
    <2>2. DOMAIN in.labels = 1..Len(in.labels) /\ Len(in.labels) \in Nat
        BY <2>1
    <2>3. QED BY <2>2
<1>4. {i \in given : \A j \in given : i <= j} = given
    BY <1>2, <1>3
<1>5. Hint(in.labels, n) = {in.labels[k].address : k \in given}
    BY <1>4 DEF Hint
<1>6. Target(in, n) = {in.labels[k].address : k \in given}
    BY <1>1 DEF Target
<1>7. QED BY <1>5, <1>6

LEMMA SuccessFields ==
    ASSUME NEW b, NEW rs
    PROVE  Success(b, rs).bytes = b /\ Success(b, rs).relocs = rs
BY DEF Success

LEMMA AssembledFields ==
    ASSUME NEW in
    PROVE  /\ Assembled(in).bytes = [i \in DOMAIN Body(in.source) |->
                  Unit(Body(in.source)[i],
                       IF i \in Sites(in) THEN Value(in, i) ELSE {})]
           /\ in.relocs => Assembled(in).relocs =
                  [k \in DOMAIN InOrder(Open(in)) |->
                      LET i == InOrder(Open(in))[k] IN
                      [offset |-> in.address + i - 1,
                       symbol |-> Body(in.source)[i].name,
                       hint   |-> Hint(in.labels, Body(in.source)[i].name)]]
<1> DEFINE body == Body(in.source)
           b == [i \in DOMAIN body |->
                    Unit(body[i], IF i \in Sites(in) THEN Value(in, i) ELSE {})]
           all == [k \in DOMAIN InOrder(Open(in)) |->
                      LET i == InOrder(Open(in))[k] IN
                      [offset |-> in.address + i - 1, symbol |-> body[i].name,
                       hint |-> Hint(in.labels, body[i].name)]]
           rs == IF ~ in.relocs THEN <<>> ELSE all
<1>1. Assembled(in) = Success(b, rs)
    BY DEF Assembled
<1>2. in.relocs => rs = all
    OBVIOUS
<1> HIDE DEF b, rs, all
<1>3. Assembled(in).bytes = b /\ Assembled(in).relocs = rs
    BY <1>1, SuccessFields
<1>4. QED BY <1>2, <1>3 DEF b, all

LEMMA ModesMeet ==
    ASSUME NEW in, IsInput(in), ~ in.relocs, Expected(in).status = "OK",
           NEW rel, IsInput(rel), rel.relocs = TRUE, Expected(rel).status = "OK",
           rel.source = in.source, rel.labels = in.labels, rel.address = in.address
    PROVE  Linked(rel, Expected(rel)) = Expected(in).bytes
<1> DEFINE src == in.source
           body == Body(src)
           base == in.address
           r == Expected(rel)
           open == Open(rel)
<1>1. /\ rel.source = src /\ rel.labels = in.labels /\ rel.relocs = TRUE
      /\ rel.address = base /\ IsInput(rel) /\ IsInput(in) /\ base \in Nat
    BY DEF IsInput
<1>2. Expected(in) = Assembled(in) /\ Complaints(in) = {} /\ Open(in) = {}
    BY SuccessIs
<1>3. r = Assembled(rel)
    BY SuccessIs
<1>4. Sites(rel) = Sites(in) /\ open = {i \in Sites(in) : Target(rel, body[i].name) = {}}
    BY <1>1 DEF Sites, Open
<1>5. Expected(in).bytes = [i \in DOMAIN body |->
          Unit(body[i], IF i \in Sites(in) THEN Value(in, i) ELSE {})]
    <2>1. Assembled(in).bytes = [i \in DOMAIN Body(in.source) |->
              Unit(Body(in.source)[i], IF i \in Sites(in) THEN Value(in, i) ELSE {})]
        BY AssembledFields
    <2>2. QED BY <1>2, <2>1
<1>6. r.bytes = [i \in DOMAIN body |->
          Unit(body[i], IF i \in Sites(in) THEN Value(rel, i) ELSE {})]
    <2>1. Assembled(rel).bytes = [i \in DOMAIN Body(rel.source) |->
              Unit(Body(rel.source)[i], IF i \in Sites(rel) THEN Value(rel, i) ELSE {})]
        BY AssembledFields
    <2>2. QED BY <1>1, <1>3, <1>4, <2>1
<1>7. r.relocs = [k \in DOMAIN InOrder(open) |->
          LET i == InOrder(open)[k] IN
          [offset |-> base + i - 1, symbol |-> body[i].name,
           hint |-> Hint(in.labels, body[i].name)]]
    <2>1. Assembled(rel).relocs = [k \in DOMAIN InOrder(Open(rel)) |->
              LET i == InOrder(Open(rel))[k] IN
              [offset |-> rel.address + i - 1, symbol |-> Body(rel.source)[i].name,
               hint |-> Hint(rel.labels, Body(rel.source)[i].name)]]
        BY <1>1, AssembledFields
    <2>2. QED BY <1>1, <1>3, <2>1
<1>8. /\ DOMAIN body \in SUBSET Nat /\ Sites(in) \in SUBSET (DOMAIN body)
      /\ open \in SUBSET Sites(in)
      /\ \A i \in DOMAIN body : body[i].name \in Names
    <2>1. \A i \in DOMAIN body : i \in Nat /\ \E j \in DOMAIN src : body[i] = src[j]
        BY <1>1, BodyFrom
    <2>2. \A j \in DOMAIN src : src[j].name \in Names
        BY <1>1, SourceTyped
    <2>3. Sites(in) \in SUBSET (DOMAIN body)
        BY DEF Sites
    <2> HIDE DEF body, src
    <2>4. QED BY <1>4, <2>1, <2>2, <2>3
<1>9. IsFiniteSet(open)
    <2>1. DOMAIN body = 1..Count(src, Placed, Len(src))
        BY <1>1, BodyLength DEF IsInput
    <2>2. Count(src, Placed, Len(src)) \in Nat
        BY <1>1, SourceTyped, CountNat
    <2>3. IsFiniteSet(1..Count(src, Placed, Len(src)))
        BY <2>2, FS_Interval
    <2>4. open \in SUBSET (DOMAIN body)
        BY <1>8
    <2>5. QED BY <2>1, <2>3, <2>4, FS_Subset
<1>10. \A i \in Sites(in) : Target(in, body[i].name) # {}
    BY <1>2 DEF Open
<1>11. \A n : /\ Given(rel, n) = {}
              /\ Target(rel, n) = {base + Count(src, Placed, j) : j \in Places(src, "def", n)}
              /\ Target(in, n) = Target(rel, n)
                                 \cup {in.labels[k].address : k \in Given(in, n)}
    <2>1. \A n : Given(rel, n) = {}
        BY <1>1 DEF Given
    <2>2. QED BY <1>1, <2>1 DEF Target
(* A name the source defines means the same in both modes; any other has   *)
(* its address in the hint.                                                *)
<1>12. ASSUME NEW i \in Sites(in) \ open PROVE Value(rel, i) = Value(in, i)
    <2>1. Target(rel, body[i].name) # {}
        BY <1>4
    <2> DEFINE n == body[i].name
    <2>2. /\ n \in Names
          /\ Target(rel, n) = {base + Count(src, Placed, j) : j \in Places(src, "def", n)}
          /\ Target(in, n) = Target(rel, n)
                             \cup {in.labels[k].address : k \in Given(in, n)}
        BY <1>8, <1>11
    <2>3. rel.address = in.address /\ rel.source = in.source
        BY <1>1
    <2>4. /\ Value(rel, i) = {v - (IF body[i].op = "word" THEN 0 ELSE base + i - 1) :
                                  v \in Target(rel, n)}
          /\ Value(in, i) = {v - (IF body[i].op = "word" THEN 0 ELSE base + i - 1) :
                                 v \in Target(in, n)}
        BY <2>3 DEF Value
    <2>5. \A m \in Names : TwiceGiven(in, m) = FALSE
        BY <1>2 DEF Complaints, TwiceGiven
    <2>6. Places(in.source, "def", n) # {} => Given(in, n) = {}
        BY <2>2, <2>5 DEF TwiceGiven
    <2>7. Target(rel, n) # {}
        BY <2>1
    <2> HIDE DEF n, body, open, r, base
    <2>8. Places(src, "def", n) # {}
        <3>1. CASE Places(src, "def", n) = {}
            BY <2>2, <2>7, <3>1
        <3>2. QED BY <3>1
    <2>9. Given(in, n) = {}
        BY <2>6, <2>8
    <2>10. {in.labels[k].address : k \in Given(in, n)} = {}
        BY <2>9
    <2>11. Target(in, n) = Target(rel, n)
        BY <2>2, <2>10
    <2>12. QED BY <2>4, <2>11
<1>13. ASSUME NEW i \in open
       PROVE  Hint(in.labels, body[i].name) = Target(in, body[i].name)
    <2>1. Places(src, "def", body[i].name) = {}
        <3>1. Target(rel, body[i].name) = {}
            BY <1>4
        <3>2. Target(rel, body[i].name) =
                  {base + Count(src, Placed, j) : j \in Places(src, "def", body[i].name)}
            BY <1>11
        <3> HIDE DEF body, open, base, src
        <3>3. QED BY <3>1, <3>2
    <2>2. body[i].name \in Names
        BY <1>8
    <2>3. QED BY <1>1, <1>2, <2>1, <2>2, HintIsTarget
<1>14. Linked(rel, r) = [i \in DOMAIN body |->
           LET site == base + i - 1
               at == {k \in DOMAIN r.relocs : r.relocs[k].offset = site}
               from == IF r.bytes[i].op = "word" THEN 0 ELSE site
           IN  IF at = {} THEN r.bytes[i]
               ELSE [r.bytes[i] EXCEPT
                       !.field = UNION {{h - from : h \in r.relocs[k].hint} : k \in at}]]
    <2>1. DOMAIN r.bytes = DOMAIN body
        BY <1>6
    <2> HIDE DEF r
    <2>2. QED BY <1>1, <2>1 DEF Linked, SiteOf
<1>15. \A i : Value(in, i) = {v - (IF body[i].op = "word" THEN 0 ELSE base + i - 1) :
                                 v \in Target(in, body[i].name)}
    BY DEF Value
<1> HIDE DEF r, open, body, base, src
<1>16. ASSUME NEW k \in DOMAIN r.relocs
       PROVE  /\ InOrder(open)[k] \in open
              /\ r.relocs[k].offset = base + InOrder(open)[k] - 1
              /\ r.relocs[k].hint = Hint(in.labels, body[InOrder(open)[k]].name)
    <2>1. DOMAIN InOrder(open) = 1..Cardinality(open)
        BY DEF InOrder
    <2>2. k \in DOMAIN InOrder(open)
        BY <1>7
    <2>3. InOrder(open)[k] \in open
        BY <1>8, <1>9, <2>1, <2>2, InOrderIn
    <2>4. QED BY <1>7, <2>2, <2>3
<1>17. ASSUME NEW i \in DOMAIN body
       PROVE  Linked(rel, r)[i] = Unit(body[i], IF i \in Sites(in) THEN Value(in, i) ELSE {})
    <2> DEFINE site == base + i - 1
               at == {k \in DOMAIN r.relocs : r.relocs[k].offset = site}
               from == IF r.bytes[i].op = "word" THEN 0 ELSE site
               fills == UNION {{h - from : h \in r.relocs[k].hint} : k \in at}
    <2>1. Linked(rel, r)[i] = IF at = {} THEN r.bytes[i] ELSE [r.bytes[i] EXCEPT !.field = fills]
        BY <1>14
    <2>2. \A k \in at : InOrder(open)[k] = i
        <3>1. \A k \in at : InOrder(open)[k] \in Nat /\ base + InOrder(open)[k] - 1 = base + i - 1
            BY <1>8, <1>16
        <3>2. i \in Nat /\ base \in Nat
            BY <1>1, <1>8
        <3> HIDE DEF at
        <3>3. QED BY <3>1, <3>2
    <2>3. r.bytes[i] = Unit(body[i], IF i \in Sites(in) THEN Value(rel, i) ELSE {})
        BY <1>6
    <2>4. CASE i \notin open
        <3>1. at = {}
            BY <1>16, <2>2, <2>4
        <3>2. Linked(rel, r)[i] = r.bytes[i]
            BY <2>1, <3>1
        <3>3. QED BY <1>12, <2>3, <2>4, <3>2
    <2>5. CASE i \in open
        <3>1. at # {}
            <4> DEFINE k == Cardinality({j \in open : j < i}) + 1
            <4>1. k \in 1..Cardinality(open) /\ InOrder(open)[k] = i
                BY <1>8, <1>9, <2>5, InOrderAt
            <4>2. k \in DOMAIN r.relocs
                BY <1>7, <4>1 DEF InOrder
            <4> HIDE DEF k
            <4>3. k \in at
                BY <1>16, <4>1, <4>2
            <4>4. QED BY <4>3
        <3>2. \A k \in at : r.relocs[k].hint = Target(in, body[i].name)
            BY <1>13, <1>16, <2>2, <2>5
        <3>3. r.bytes[i].op = body[i].op
            BY <2>3 DEF Unit
        <3>4. from = IF body[i].op = "word" THEN 0 ELSE base + i - 1
            BY <3>3
        <3> HIDE DEF at, from
        <3>5. \A k \in at : {h - from : h \in r.relocs[k].hint}
                             = {h - from : h \in Target(in, body[i].name)}
            BY <3>2
        <3>6. fills = {h - from : h \in Target(in, body[i].name)}
            BY <3>1, <3>5
        <3>7. fills = Value(in, i)
            <4>1. Value(in, i) = {v - from : v \in Target(in, body[i].name)}
                BY <1>15, <3>4
            <4> HIDE DEF fills
            <4>2. QED BY <3>6, <4>1
        <3>8. i \in Sites(in)
            BY <1>8, <2>5
        <3> HIDE DEF fills
        <3>9. [r.bytes[i] EXCEPT !.field = fills] = Unit(body[i], fills)
            BY <2>3 DEF Unit
        <3>10. QED BY <2>1, <3>1, <3>7, <3>8, <3>9
    <2>6. QED BY <2>4, <2>5
<1>18. Linked(rel, r) = [i \in DOMAIN body |-> Linked(rel, r)[i]]
    BY <1>14
<1>19. Linked(rel, r) = Expected(in).bytes
    BY <1>5, <1>17, <1>18
<1>20. QED BY <1>19 DEF r

(* Assembling with the labels given, and linking the relocatable result    *)
(* against the hints it carries, produce the same bytes, for any threads   *)
(* and inputs (nyxstone.cpp:430-446).                                      *)
THEOREM BothModesAgree == Spec => []ModesAgree
<1>1. RInv => ModesAgree
    <2> SUFFICES ASSUME RInv, NEW t \in Threads, NEW u \in Threads,
                        ~ local[t].starved, ~ local[u].starved,
                        Succeeded(t), ~ input[t].relocs, Succeeded(u),
                        input[u] = [input[t] EXCEPT !.relocs = TRUE]
                 PROVE  Linked(input[u], result[u]) = result[t].bytes
        BY DEF ModesAgree
    <2>1. result[t] = Expected(input[t]) /\ result[u] = Expected(input[u])
        BY DEF RInv, Answered, Succeeded
    <2>2. /\ input[t] \in InputType /\ input[u] \in InputType
          /\ input[u].source = input[t].source /\ input[u].labels = input[t].labels
          /\ input[u].address = input[t].address /\ input[u].relocs = TRUE
        BY InputTyped DEF RInv, SInv, InputType
    <2>3. /\ Expected(input[t]).status = "OK" /\ Expected(input[u]).status = "OK"
          /\ IsInput(input[t]) /\ IsInput(input[u])
        BY <2>1, <2>2 DEF Succeeded, InputType, IsInput
    <2>4. Linked(input[u], Expected(input[u])) = Expected(input[t]).bytes
        BY <2>2, <2>3, ModesMeet
    <2>5. QED BY <2>1, <2>4
<1>2. QED BY <1>1, InitRInv, NextRInv, PTL DEF Spec

=============================================================================
