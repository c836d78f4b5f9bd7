----------------------------- MODULE AssembleText -----------------------------
(***************************************************************************)
(* One call of the C++ interface on its way from text to bytes and back:   *)
(* do_assemble and do_disassemble of nyxstone.cpp over the passes of       *)
(* nyxstone_glue.c.  AssembleSession is about many calls and what they     *)
(* leave behind; here one call is followed through every pass: statements, *)
(* labels and directives, relaxation, padding, layout, fixups, relocations *)
(* and the decoding of the result.                                         *)
(*                                                                         *)
(* gas is outside src/: its expressions, cons, frag_var, relax_segment and *)
(* md_convert_frag are modelled by what the glue relies on, over a table   *)
(* of instructions.  The registers of an instruction belong to its         *)
(* mnemonic; its operand, if any, is a name with an addend.                *)
(***************************************************************************)
EXTENDS SourceText, FragChain

CONSTANTS
    Jobs,      \* the calls: see JobTypes
    Names,     \* names of symbols
    Locals,    \* numeric labels
    LocalRef,  \* the tokens that refer to them: <<label, instances ahead>>
    Insns      \* mnemonic -> [form, opcode, ...]: see Branches

(* A branch that can relax: form "relax", sub the longest state, opcode by *)
(* state.  Any other: its bytes, and the form of its field or "none".      *)
Branches == {m \in DOMAIN Insns : Insns[m].form = "relax"}
Simple   == {m \in DOMAIN Insns : Insns[m].form = "none"}

Calls == {"assemble", "instructions", "disassemble"}

ASSUME JobTypes ==
    \A j \in Jobs : /\ j.call \in Calls /\ j.relocs \in BOOLEAN
                    /\ j.text \in Seq(Tokens) /\ j.bytes \in Seq(Byte)
                    /\ j.base \in Word /\ j.count \in Nat
                    /\ j.labels \in Seq([name : Names, address : Word])

ASSUME NameTypes ==
    /\ " " \in Tokens /\ "" \notin Tokens /\ Names \cup Locals \subseteq Tokens
    /\ Names \cap Locals = {} /\ LocalRef \in [DOMAIN LocalRef -> Locals \X Nat]
    /\ (Names \cup DOMAIN LocalRef) \cap DOMAIN Number = {}
    /\ \A n \in DOMAIN Number : Number[n].minus \in BOOLEAN

\* The opcodes of a branch are those of its chain, each as long as its state says.
ASSUME InsnTable ==
    /\ \A m \in Branches :
         LET i == Insns[m]  states == DOMAIN i.opcode
         IN /\ states \subseteq States /\ i.sub \in states
            /\ \A s \in states : /\ Longer(s) \in states /\ Shorter(s) \in states
                                /\ i.opcode[s] \in Seq(Byte)
                                /\ Len(i.opcode[s]) = Shape[s].size
                                /\ Shape[s].at + InsnLength(i.opcode[s][Shape[s].at + 1])
                                     <= Shape[s].size
    /\ \A m \in DOMAIN Insns \ Branches :
         /\ Insns[m].bytes \in Seq(Byte) /\ Insns[m].bytes # <<>>
         /\ m \notin Simple => /\ Insns[m].form \in InsnForms
                               /\ Len(Insns[m].bytes) = InsnLength(Insns[m].bytes[1])

\* An opcode has room for the field that its fixup fills.
ASSUME FieldTable ==
    /\ \A m \in Branches : \A s \in DOMAIN Insns[m].opcode :
         Field(Shape[s].form)
           \subseteq 0..(8 * InsnLength(Insns[m].opcode[s][Shape[s].at + 1]) - 1)
    /\ \A m \in DOMAIN Insns \ (Branches \cup Simple) :
         Field(Insns[m].form) \subseteq 0..(8 * InsnLength(Insns[m].bytes[1]) - 1)

VARIABLES
    job,         \* the arguments
    phase,       \* the pass being run
    todo,        \* statements not yet begun
    line,        \* what is left of the current one
    syms,        \* gas's symbol table: the symbols with a definition
    locals,      \* instances of each numeric label so far
    frags,       \* the frag chain of .text, and
    fixes,       \* its fixups
    errors,      \* gas errors
    parseErr,    \* there were some before the fixup pass
    dirErr,      \* g_directive_error is set
    secViol,     \* g_section_violation
    unsup,       \* g_unsupported_reloc is set
    unresolved,  \* fixups left for the linker
    result,      \* status, bytes and relocations
    insns,       \* decoded so far
    off,         \* bytes they cover
    seen, items  \* history: the statements, and what they asked for in order

source  == <<todo, line, seen>>
section == <<syms, locals, frags, fixes, items>>
flags   == <<errors, parseErr, dirErr, secViol, unsup, unresolved>>
outputs == <<result, insns, off>>
vars    == <<job, phase, source, section, flags, outputs>>

Sym(name)   == <<name, 0>>
NoSym       == <<"", 0>>
Symbols     == (Tokens \X {0}) \cup (Locals \X Nat)
InText(f, o) == [seg |-> "text", frag |-> f, off |-> o, val |-> {}, of |-> NoSym,
                 set |-> FALSE]
Absolute(w) == [InText(0, 0) EXCEPT !.seg = "absolute", !.val = w]
AliasOf(s, w) == [InText(0, 0) EXCEPT !.seg = "alias", !.of = s, !.val = w]
Here        == InText(FragNow(frags), FragNowFix(frags))

\* What resolve_symbol_value finds behind the aliases, and what they add.
Behind(r) ==
  IF r[1] \in DOMAIN syms /\ syms[r[1]].seg = "alias"
  THEN <<syms[r[1]].of, Plus(r[2], syms[r[1]].val)>> ELSE r
Resolved(s) ==
  LET n == Cardinality(DOMAIN syms)
  IN After(n, <<s, {}>>, [k \in 1..n |-> [r \in (Symbols \cup {NoSym}) \X Word |-> Behind(r)]])
Root(s) == Resolved(s)[1]
HasValue(s)  == s \in DOMAIN syms /\ syms[s].seg # "alias"
IsDefined(s) == HasValue(Root(s))
IsLocal(s)   == s \in DOMAIN syms /\ syms[s].seg = "text"
IsLabel(s)   == s \in DOMAIN syms /\ ~ syms[s].set

NoResult == [status |-> "none", bytes |-> <<>>, relocs |-> <<>>]

Init ==
    /\ job \in Jobs
    /\ phase = IF job.call = "disassemble" THEN "decode" ELSE "reset"
    /\ todo = <<>> /\ line = <<>> /\ seen = <<>> /\ items = <<>>
    /\ syms = <<>> /\ locals = [l \in Locals |-> 0]
    /\ frags = FreshChain /\ fixes = <<>>
    /\ errors = 0 /\ parseErr = FALSE /\ dirErr = FALSE /\ secViol = FALSE
    /\ unsup = FALSE /\ unresolved = 0
    /\ result = [NoResult EXCEPT !.bytes = job.bytes]
    /\ insns = <<>> /\ off = 0

-----------------------------------------------------------------------------
(* Statements.                                                             *)

Reset ==
    /\ phase = "reset" /\ phase' = "parse"
    /\ todo' = SplitStatements(StripBlockComments(job.text))
    /\ UNCHANGED <<job, line, seen, section, flags, outputs>>

NextStatement ==
    /\ phase = "parse" /\ line = <<>> /\ todo # <<>>
    /\ line' = Trim(StripComment(Head(todo)))
    /\ todo' = Tail(todo)
    /\ seen' = seen \o Inked(<<line'>>)
    /\ UNCHANGED <<job, phase, section, flags, outputs>>

Defined(s, d) == [x \in DOMAIN syms \cup {s} |-> IF x = s THEN d ELSE syms[x]]

HasLabel(s) == Len(s) > 1 /\ s[1] \in Names \cup Locals /\ s[2] = ":"

(* colon: a symbol set by .equ may become a label, a label stays where it  *)
(* is.                                                                     *)
ColonDefines(s) ==
    /\ items' = Append(items, [kind |-> "label", sym |-> s])
    /\ \/ ~ IsLabel(s) /\ syms' = Defined(s, Here) /\ UNCHANGED errors
       \/ IsLabel(s) /\ errors' = errors + (IF syms[s] = Here THEN 0 ELSE 1) /\ UNCHANGED syms

Label ==
    /\ phase = "parse" /\ HasLabel(line)
    /\ LET n == line[1] IN
       \/ n \in Names /\ ColonDefines(Sym(n)) /\ UNCHANGED locals
       \/ /\ n \in Locals
          /\ locals' = [locals EXCEPT ![n] = @ + 1]
          /\ ColonDefines(<<n, locals'[n]>>)
    /\ line' = Trim(SubSeq(line, 3, Len(line)))
    /\ UNCHANGED <<job, phase, todo, seen, frags, fixes, parseErr, dirErr, secViol,
                   unsup, unresolved, outputs>>

(* A statement is done; what it asked for goes into the history.           *)
Handled(what) ==
    /\ line' = <<>> /\ items' = items \o what
    /\ UNCHANGED <<job, phase, todo, seen, locals, parseErr, unsup, unresolved, outputs>>

GasError == errors' = errors + 1 /\ Handled(<<[kind |-> "fault", class |-> "gas"]>>)
            /\ UNCHANGED <<syms, frags, fixes, dirErr, secViol>>

-----------------------------------------------------------------------------
(* gas's expressions: a number, a name with an addend, a difference.       *)

SymOf(token) ==
  IF token \in DOMAIN LocalRef
  THEN <<LocalRef[token][1], locals[LocalRef[token][1]] + LocalRef[token][2]>>
  ELSE Sym(token)
NameTokens == Names \cup DOMAIN LocalRef
IsName(o)  == Len(o) > 0 /\ o[1] \in NameTokens
IsRef(o)   == IsName(o) /\ \/ Len(o) = 1
                           \/ Len(o) = 3 /\ o[2] \in {"+", "-"} /\ o[3] \in DOMAIN Number
IsDifference(o) == IsName(o) /\ Len(o) = 3 /\ o[2] = "-" /\ o[3] \in NameTokens

Addend(o) ==
  IF Len(o) # 3 THEN {}
  ELSE IF o[2] = "+" THEN Exact(Number[o[3]]) ELSE Negative(Exact(Number[o[3]]))

Term(sym, sub, add) == [sym |-> sym, sub |-> sub, add |-> add]
Constant(w) == Term(NoSym, NoSym, w)
IsAbsolute(s) == s \in DOMAIN syms /\ syms[s].seg = "absolute"

(* A name set to a number is replaced at once; a difference is folded only *)
(* between labels of one frag.                                             *)

\* What gas cannot read is an error; sums of three terms and text behind an
\* operand are not among the inputs.
IsExpression(o) == o = <<>> \/ IsNumber(o) \/ IsRef(o) \/ IsDifference(o)
Folds(x, y) == IsLocal(x) /\ IsLocal(y) /\ syms[x].frag = syms[y].frag
Expression(o) ==
  CASE o = <<>>    -> Constant({})
    [] IsNumber(o) -> Constant(Exact(Number[o[1]]))
    [] IsRef(o)    -> IF IsAbsolute(SymOf(o[1]))
                      THEN Constant(Plus(syms[SymOf(o[1])].val, Addend(o)))
                      ELSE Term(SymOf(o[1]), NoSym, Addend(o))
    [] IsDifference(o) ->
         LET x == SymOf(o[1])  y == SymOf(o[3])
         IN IF Folds(x, y) THEN Constant(ToWord(syms[x].off - syms[y].off))
            ELSE Term(x, y, {})

Fix(frag, where, form, e) ==
  [frag |-> frag, where |-> where, form |-> form, sym |-> e.sym, sub |-> e.sub,
   add |-> e.add]

-----------------------------------------------------------------------------
(* Directives.                                                             *)

Directive == IF line # <<>> /\ (Len(line) = 1 \/ line[2] \in Space) THEN line[1] ELSE ""
Args == IF Len(line) < 3 THEN <<>> ELSE Trim(SubSeq(line, 3, Len(line)))
At(ds) == phase = "parse" /\ ~ HasLabel(line) /\ Directive \in ds

DataDirectives == {".byte", ".hword", ".word", ".quad"}
DataWidth(d) == CASE d = ".byte" -> 1 [] d = ".hword" -> 2 [] d = ".word" -> 4
                  [] d = ".quad" -> 8
DataForm(width) == CASE width = 1 -> "8ABS" [] width = 2 -> "16ABS"
                     [] width = 4 -> "32ABS" [] width = 8 -> "64"
Rejected == dirErr' = TRUE /\ Handled(<<[kind |-> "fault", class |-> "directive"]>>)
            /\ UNCHANGED <<syms, frags, fixes, errors, secViol>>
Emits(bytes, what) == frags' = FragMore(frags, bytes) /\ Handled(what)
                      /\ UNCHANGED <<syms, errors, dirErr, secViol>>

Datum(width, e) == [kind |-> "data", width |-> width, term |-> e]
Data(width, operands) ==
  [k \in DOMAIN operands |-> Datum(width, Expression(operands[k]))]

IntList ==
    /\ At(DataDirectives) /\ AllIntLiterals(Args)
    /\ LET w == DataWidth(Directive) IN
       Emits(EmitIntList(Args, w), Data(w, SplitOperands(Args)))
    /\ UNCHANGED fixes

(* nyxstone_glue_emit_cons: zeros and a fixup for every symbolic operand.  *)
Cons1(width, e) ==
  IF e.sym = NoSym THEN LittleEndian(e.add, width) ELSE LittleEndian({}, width)
ConsList ==
    /\ At(DataDirectives) /\ ~ AllIntLiterals(Args)
    /\ LET w  == DataWidth(Directive)
           os == Commas(Args)
           es == [k \in DOMAIN os |-> Expression(os[k])]
           at(k) == FragNowFix(frags) + w * (k - 1)
       IN \/ (\E k \in DOMAIN os : ~ IsExpression(os[k])) /\ GasError
          \/ /\ \A k \in DOMAIN os : IsExpression(os[k])
             /\ Emits(FlattenSeq([k \in DOMAIN os |-> Cons1(w, es[k])]), Data(w, os))
             /\ fixes' = fixes \o FlattenSeq([k \in DOMAIN os |->
                            IF es[k].sym = NoSym THEN <<>>
                            ELSE <<Fix(FragNow(frags), at(k), DataForm(w), es[k])>>])

Bytes(b) == [kind |-> "bytes", bytes |-> b]
Ascii ==
    /\ At({".ascii", ".asciz"})
    /\ LET e == EmitAscii(Args, Directive = ".asciz") IN
       \/ e.ok /\ Emits(e.bytes, <<Bytes(e.bytes)>>) /\ UNCHANGED fixes
       \/ ~ e.ok /\ Rejected

\* Operands are small where they are used as counts: see the instances.
Magnitude(w) ==
  After(64, 0, [i \in 1..64 |-> [n \in Nat |-> 2 * n + (IF 64 - i \in w THEN 1 ELSE 0)]])
IntOf(w) == IF 63 \in w THEN -Magnitude(Negative(w)) ELSE Magnitude(w)
Arg(a, k) == IF k \in DOMAIN a THEN a[k] ELSE {}

Skip ==
    /\ At({".skip", ".zero"})
    /\ LET p == ParseIntArgs(Args, IF Directive = ".zero" THEN 1 ELSE 2) IN
       \/ ~ p.ok /\ Rejected
       \/ p.ok /\ 63 \in p.args[1] /\ Rejected
       \/ /\ p.ok /\ 63 \notin p.args[1] /\ UNCHANGED fixes
          /\ \E fill \in {Low(Arg(p.args, 2), 8)} :
               LET b == [k \in 1..IntOf(p.args[1]) |-> fill] IN Emits(b, <<Bytes(b)>>)

Closes(closed, what) == frags' = FragVar(frags, closed) /\ Handled(<<what>>)
                        /\ UNCHANGED <<syms, fixes, errors, dirErr, secViol>>

Org ==
    /\ At({".org"})
    /\ LET p == ParseIntArgs(Args, 2) IN
       \/ ~ p.ok /\ Rejected
       \/ p.ok /\ 63 \in p.args[1] /\ Rejected
       \/ /\ p.ok /\ 63 \notin p.args[1]
          /\ LET to == IntOf(p.args[1])  fill == Low(Arg(p.args, 2), 8) IN
             Closes([Last(frags) EXCEPT !.type = "org", !.fill = fill, !.off = to],
                    [kind |-> "org", to |-> to, fill |-> fill])

(* .align takes an exponent, .balign a number of bytes.                    *)
PowersOfTwo == {{b} : b \in 0..62}
Exponents   == {ToWord(n) : n \in 0..30}
Align ==
    /\ At({".align", ".balign"})
    /\ LET p == ParseIntArgs(Args, 3)
           legal == p.args[1] \in (IF Directive = ".align" THEN Exponents ELSE PowersOfTwo)
           p2   == IF Directive = ".align" THEN IntOf(p.args[1]) ELSE Min(p.args[1])
           fill == Low(Arg(p.args, 2), 8)
           most == IF 63 \in Arg(p.args, 3) THEN 0 ELSE IntOf(Arg(p.args, 3))
       IN \/ ~ p.ok /\ Rejected
          \/ p.ok /\ ~ legal /\ Rejected
          \/ /\ p.ok /\ legal
             /\ Closes([Last(frags) EXCEPT !.type = "align", !.fill = fill, !.off = p2,
                                            !.sub = most],
                       [kind |-> "align", p2 |-> p2, fill |-> fill, max |-> most])

(* .equ name, expression: a number, the place of a label, or an alias of a *)
(* name that has no definition yet, with what is added to it.  Differences *)
(* that gas cannot fold are not among the inputs.                          *)
EquValue(e) ==
  CASE e.sym = NoSym    -> Absolute(e.add)
    [] IsLocal(e.sym)   -> [syms[e.sym] EXCEPT !.off = @ + IntOf(e.add)]
    [] OTHER            -> AliasOf(e.sym, e.add)
Equ ==
    /\ At({".equ"})
    /\ LET o == Commas(Args)
           ok == Len(o) > 1 /\ o[1] # <<>> /\ o[2] # <<>>
           clear == ~ IsLabel(Sym(o[1][1])) /\ IsExpression(o[2])
           s == Sym(o[1][1])
           e == Expression(o[2])
       IN \/ ~ ok /\ Rejected
          \/ ok /\ ~ clear /\ GasError
          \/ /\ ok /\ clear
             /\ syms' = Defined(s, [EquValue(e) EXCEPT !.set = TRUE])
             /\ Handled(<<[kind |-> "equ", sym |-> s, term |-> e]>>)
             /\ UNCHANGED <<frags, fixes, errors, dirErr, secViol>>

(* The .text-only rule, and directives without effect on the bytes.        *)
TextSections == {".text", ".text.hot"}
Ignored  == {".text", ".global", ".type", ".size"}
Switches == {".data", ".bss", ".previous"}
SectionName == IF Args = <<>> THEN "" ELSE Args[1]

Accepted ==
    /\ At(Ignored \cup {".section"}) /\ (Directive = ".section" => SectionName \in TextSections)
    /\ Handled(<<>>) /\ UNCHANGED <<syms, frags, fixes, errors, dirErr, secViol>>

SwitchesSection ==
    /\ At(Switches \cup {".section"})
    /\ (Directive = ".section" => SectionName \notin TextSections)
    /\ secViol' = TRUE /\ Handled(<<[kind |-> "fault", class |-> "section"]>>)
    /\ UNCHANGED <<syms, frags, fixes, errors, dirErr>>

Handles == DataDirectives \cup Ignored \cup Switches \cup
           {".ascii", ".asciz", ".skip", ".zero", ".org", ".align", ".balign", ".equ",
            ".section"}
DotWords == Handles \cup {".macro"}
Unsupported ==
    /\ phase = "parse" /\ line # <<>> /\ ~ HasLabel(line)
    /\ line[1] \in DotWords /\ Directive \notin Handles
    /\ Rejected

(* md_assemble: opcode bytes and a fixup, or a branch frag in its longest  *)
(* form.  What gas cannot read is an error.  Operands that are numbers gas *)
(* encodes itself; they are not among the inputs.                          *)
Operand == Trim(Tail(line))
Readable(m) ==
    /\ m \in DOMAIN Insns
    /\ IF m \in Simple THEN Len(line) = 1
       ELSE Len(line) > 1 /\ line[2] \in Space /\ IsRef(Operand)
Instruction ==
    /\ phase = "parse" /\ line # <<>> /\ ~ HasLabel(line) /\ line[1] \notin DotWords
    /\ LET m == line[1]
           i == Insns[m]
           e == Expression(Operand)
           what == [kind |-> "insn", op |-> m, term |-> e, frag |-> FragNow(frags)]
       IN \/ ~ Readable(m) /\ GasError
          \/ /\ Readable(m) /\ m \in Simple
             /\ Emits(i.bytes, <<Bytes(i.bytes)>>) /\ UNCHANGED fixes
          \/ /\ Readable(m) /\ m \notin Simple \cup Branches
             /\ fixes' = Append(fixes, Fix(FragNow(frags), FragNowFix(frags), i.form, e))
             /\ Emits(i.bytes, <<[what EXCEPT !.term = e]>>)
          \/ /\ Readable(m) /\ m \in Branches
             /\ LET opened == FragMore(frags, SubSeq(i.opcode[i.sub], 1, OpcodeBytes)) IN
                frags' = FragVar(opened, [Last(opened) EXCEPT
                    !.type = "machine", !.sub = i.sub, !.op = m, !.sym = e.sym,
                    !.off = IntOf(e.add)])
             /\ Handled(<<what>>)
             /\ UNCHANGED <<syms, fixes, errors, dirErr, secViol>>

-----------------------------------------------------------------------------
(* After the parse: the LabelDefinitions of the plain path, in order.      *)

Given == IF job.relocs THEN <<>> ELSE job.labels
Taken(k) == \/ HasValue(Sym(Given[k].name))
            \/ \E i \in 1..(k - 1) : Given[i].name = Given[k].name

DefineLabels ==
    /\ phase = "parse" /\ line = <<>> /\ todo = <<>>
    /\ LET new == {k \in DOMAIN Given : ~ Taken(k)}
           bad == DOMAIN Given \ new
           at(n) == CHOOSE k \in new : Given[k].name = n
           names == {Sym(Given[k].name) : k \in new}
       IN /\ syms' = [s \in DOMAIN syms \cup names |->
                        IF s \in names THEN Absolute(Given[at(s[1])].address) ELSE syms[s]]
          /\ errors' = errors + Cardinality(bad)
          /\ parseErr' = (errors' > 0)
    /\ phase' = IF parseErr' \/ secViol \/ dirErr THEN "report" ELSE "relax"
    /\ UNCHANGED <<job, source, locals, frags, fixes, items, dirErr, secViol, unsup,
                   unresolved, outputs>>

-----------------------------------------------------------------------------
(* The passes of nyxstone_glue_resolve_text_fixups.                        *)

(* relax_branches: frags still without a type are settled, a branch to a   *)
(* label of the section starts in its shortest form, any other is long.    *)
AsSeeded(f)   == ChainTerminal(f.sub)
StartState(f) == IF IsLocal(f.sym) THEN ChainHead(f.sub) ELSE ChainTerminal(f.sub)
Prepared(f) == CASE f.type = "unset"   -> [f EXCEPT !.type = "fill", !.var = 0]
                 [] f.type = "machine" -> [f EXCEPT !.sub = StartState(f)]
                 [] OTHER              -> f
RelaxBranches ==
    /\ phase = "relax" /\ phase' = "relaxing"
    /\ frags' = [i \in DOMAIN frags |-> Prepared(frags[i])]
    /\ UNCHANGED <<job, source, syms, locals, fixes, items, flags, outputs>>

(* relax_segment, until it reports no more change.                         *)
Displacement(i, addr) ==
  LET f == frags[i]
  IN addr[syms[f.sym].frag] + syms[f.sym].off + f.off
       - (addr[i] + FixSize(f) - OpcodeBytes)
Growing ==
  LET addr == RelaxAddresses(frags)
  IN {i \in DOMAIN frags : /\ frags[i].type = "machine" /\ IsLocal(frags[i].sym)
                           /\ RlxMore[frags[i].sub] # 0
                           /\ ~ InRange(frags[i].sub, Displacement(i, addr))}

RelaxSegment ==
    /\ phase = "relaxing"
    /\ \E i \in Growing : frags' = [frags EXCEPT ![i].sub = RlxMore[@]]
    /\ UNCHANGED <<job, phase, source, syms, locals, fixes, items, flags, outputs>>

(* md_convert_frag turns the branches into opcode bytes and fixups, then   *)
(* finalize_align_org sizes the padding.                                   *)
Opcode(f) == Insns[f.op].opcode[f.sub]
BranchFix(i) ==
  LET f == frags[i]  s == Shape[f.sub]
  IN Fix(i, FixSize(f) - OpcodeBytes + s.at, s.form, Term(f.sym, NoSym, ToWord(f.off)))
ConvertAndFinalize ==
    /\ phase = "relaxing" /\ Growing = {} /\ phase' = "fixups"
    /\ LET converted == [i \in DOMAIN frags |->
             IF frags[i].type = "machine" THEN Converted(frags[i], Opcode(frags[i]))
             ELSE frags[i]]
       IN /\ frags' = Finalized(converted)
          /\ fixes' = fixes \o FlattenSeq([i \in DOMAIN frags |->
               IF frags[i].type = "machine" THEN <<BranchFix(i)>> ELSE <<>>])
          /\ errors' = errors + Cardinality(OrgErrors(converted))
    /\ UNCHANGED <<job, source, syms, locals, items, parseErr, dirErr, secViol, unsup,
                   unresolved, outputs>>

(* apply_text_fixups.                                                      *)
HasHowto(form) == form # "64"
Known     == {k \in DOMAIN fixes : IsDefined(fixes[k].sym)}
Encodable == {k \in Known : HasHowto(fixes[k].form)}
Pending   == {k \in DOMAIN fixes : fixes[k].sym # NoSym} \ Known

Site(fx) == Layout(frags)[fx.frag] + fx.where
ValueOf(d) ==
  IF d.seg = "text" THEN Plus(job.base, ToWord(Layout(frags)[d.frag] + d.off)) ELSE d.val
SymAbs(s) == Plus(ValueOf(syms[Root(s)]), Resolved(s)[2])
FieldValue(fx) ==
  LET target == Plus(SymAbs(fx.sym), fx.add)
  IN IF fx.form \in RelForms THEN Minus(target, Plus(job.base, ToWord(Site(fx)))) ELSE target
OutOfRange == {k \in Encodable : ~ Legal(fixes[k].form, FieldValue(fixes[k]))}

EncodedImage ==
  After(Len(fixes), Image(frags), [k \in DOMAIN fixes |-> [buf \in Seq(Byte) |->
          IF k \in Encodable \ OutOfRange
          THEN EncodeAt(buf, Site(fixes[k]), fixes[k].form, FieldValue(fixes[k]))
          ELSE buf]])

ApplyTextFixups ==
    /\ phase = "fixups" /\ phase' = "report"
    /\ frags' = CopiedBack(frags, EncodedImage)
    /\ errors' = errors + Cardinality(OutOfRange)
    /\ unsup' = (Known # Encodable)
    /\ unresolved' = Cardinality(Pending)
    /\ UNCHANGED <<job, source, syms, locals, fixes, items, parseErr, dirErr, secViol,
                   outputs>>

-----------------------------------------------------------------------------
(* The answer.                                                             *)

LastHint(name) ==
  LET m == {k \in DOMAIN job.labels : job.labels[k].name = name}
  IN IF m = {} THEN {} ELSE job.labels[Max(m)].address
Hint(name) ==
  LET m == {k \in DOMAIN job.labels : job.labels[k].name = name}
  IN IF m = {} THEN {} ELSE job.labels[Min(m)].address

\* nyxstone_glue_collect_relocs, and the driver's loop over its result.
CollectRelocs ==
  LET reloc(fx) == [offset |-> Plus(job.base, ToWord(Site(fx))), addend |-> fx.add,
                    type |-> fx.form, symbol |-> fx.sym, hint |-> Hint(fx.sym[1])]
  IN FlattenSeq([k \in DOMAIN fixes |->
                   IF k \in Pending THEN <<reloc(fixes[k])>> ELSE <<>>])

ErrorsFirst == IF dirErr          THEN "directive"
               ELSE IF secViol    THEN "section"
               ELSE IF errors > 0 THEN "gas"
               ELSE IF unsup      THEN "unsupported"
               ELSE IF ~ job.relocs /\ unresolved > 0 THEN "undefined"
               ELSE "OK"
Status == IF dirErr          THEN "directive"
          ELSE IF secViol    THEN "section"
          ELSE IF parseErr   THEN "gas"
          ELSE IF unsup      THEN "unsupported"
          ELSE IF errors > 0 THEN "gas"
          ELSE IF ~ job.relocs /\ unresolved > 0 THEN "undefined"
          ELSE "OK"

Report ==
    /\ phase = "report"
    /\ result' = IF Status # "OK" THEN [NoResult EXCEPT !.status = Status]
                 ELSE [status |-> "OK", bytes |-> Image(frags),
                       relocs |-> IF job.relocs THEN CollectRelocs ELSE <<>>]
    /\ phase' = IF Status = "OK" /\ job.call = "instructions" THEN "decode" ELSE "done"
    /\ UNCHANGED <<job, source, section, flags, insns, off>>

(* print_insn_tricore: 16- and 32-bit instructions, .byte and .hword for   *)
(* what is cut off or unknown.  Some instructions get the address they may *)
(* refer to as a comment, if an earlier one loaded its upper half.         *)
InsnSizes(b) == CASE Len(b) = 1                                -> {1}
                  [] Len(b) > 1 /\ (0 \notin b[1] \/ Len(b) < 4) -> {2}
                  [] OTHER                                     -> {2, 4}
Text(b, note) == <<"op", "%a2">> \o note
Notes(b) == {<<>>} \cup (IF Len(b) = 4 THEN {<<" ", "<", "0xdead", ">">>} ELSE {})

Kept(t) == t
StripAddrAnnotation(t) ==
  LET opens(i) == Pair(t, i) = <<" ", "<">> /\ \E j \in (i + 2)..Len(t) : t[j] = ">"
      inNote == Before(Len(t), FALSE, [i \in DOMAIN t |-> [in \in BOOLEAN |->
                         IF in THEN t[i] # ">" ELSE opens(i)]])
  IN FlattenSeq([i \in DOMAIN t |-> IF inNote[i] \/ opens(i) THEN <<>> ELSE <<t[i]>>])

DisasmOne(rest) ==
  UNION {LET b == SubSeq(rest, 1, n)
         IN {[bytes |-> b, text |-> StripAddrAnnotation(Text(b, note))] : note \in Notes(b)} :
           n \in InsnSizes(rest)}

AlwaysCounted == off < Len(result.bytes) /\ (job.call = "disassemble" => Len(insns) < job.count)
More == off < Len(result.bytes) /\ (job.call = "disassemble" /\ job.count > 0
                                      => Len(insns) < job.count)
DecodeOne ==
    /\ phase = "decode" /\ More
    /\ \E one \in DisasmOne(SubSeq(result.bytes, off + 1, Len(result.bytes))) :
         /\ insns' = Append(insns, [address |-> Plus(job.base, ToWord(off)),
                                    bytes |-> one.bytes, text |-> one.text])
         /\ off' = off + Len(one.bytes)
    /\ UNCHANGED <<job, phase, source, section, flags, result>>

Decoded ==
    /\ phase = "decode" /\ ~ More /\ phase' = "done"
    /\ UNCHANGED <<job, source, section, flags, outputs>>

Returned == phase = "done" /\ UNCHANGED vars

Next == \/ Reset \/ NextStatement \/ Label \/ IntList \/ ConsList \/ Ascii \/ Skip
        \/ Org \/ Align \/ Equ \/ Accepted \/ SwitchesSection \/ Unsupported
        \/ Instruction \/ DefineLabels \/ RelaxBranches \/ RelaxSegment
        \/ ConvertAndFinalize \/ ApplyTextFixups \/ Report \/ DecodeOne \/ Decoded
        \/ Returned

Spec == Init /\ [][Next]_vars

-----------------------------------------------------------------------------
(* Correctness.                                                            *)

TextTypeOK ==
    /\ phase \in {"reset", "parse", "relax", "relaxing", "fixups", "report", "decode",
                  "done"}
    /\ \A s \in DOMAIN syms : s \in Symbols
    /\ \A s \in DOMAIN syms : /\ syms[s].seg \in {"text", "absolute", "alias"}
                              /\ syms[s].frag \in 0..Len(frags) /\ syms[s].val \in Word
    /\ \A i \in DOMAIN frags : IsFrag(frags[i]) /\ (i > 1 => frags[i - 1].type # "unset")
    /\ \A k \in DOMAIN fixes : /\ fixes[k].frag \in DOMAIN frags /\ fixes[k].add \in Word
                               /\ fixes[k].where < FixSize(frags[fixes[k].frag])
    /\ errors \in Nat /\ {parseErr, dirErr, secViol, unsup} \subseteq BOOLEAN
    /\ unresolved \in 0..Len(fixes) /\ off \in 0..Len(result.bytes)

(* What the statements asked for, laid out from the start in one pass: the *)
(* size of everything is known once the branches have their final state.   *)
ItemSize(it, a) ==
  CASE it.kind = "bytes"                       -> Len(it.bytes)
    [] it.kind = "data"                        -> it.width
    [] it.kind = "insn" /\ it.op \in Branches  -> Shape[frags[it.frag].sub].size
    [] it.kind = "insn" /\ it.op \notin Branches -> Len(Insns[it.op].bytes)
    [] it.kind = "org" -> Max({it.to - a, 0})
    [] it.kind = "align" ->
         LET pad == Min({p \in 0..Pow2(it.p2) : (a + p) % Pow2(it.p2) = 0})
         IN IF it.max = 0 \/ pad <= it.max THEN pad ELSE 0
    [] OTHER -> 0

TrueAddress ==
  Before(Len(items), 0, [k \in DOMAIN items |-> [a \in Nat |-> a + ItemSize(items[k], a)]])

Succeeded == result.status = "OK"
Answered(k) == SubSeq(result.bytes, TrueAddress[k] + 1, TrueAddress[k + 1])

(* The padding of .align and .org is exact for the sizes the branches end  *)
(* up with, and everything that needs no fixup is found where it belongs   *)
(* (nyxstone_glue.c:331-337, 429-440).                                     *)
LayoutExact == Succeeded =>
    /\ Len(result.bytes) = TrueAddress[Len(items) + 1]
    /\ \A k \in DOMAIN items :
         /\ items[k].kind = "bytes" => Answered(k) = items[k].bytes
         /\ items[k].kind \in {"align", "org"} =>
              \A i \in DOMAIN Answered(k) : Answered(k)[i] = items[k].fill

(* A number in a data list is stored with its low bits, as gas would store *)
(* it (tests.cpp:720-722), whichever of the two paths the list takes.      *)
DataExact == Succeeded =>
    \A k \in DOMAIN items :
        items[k].kind = "data" /\ items[k].term.sym = NoSym =>
            Answered(k) = LittleEndian(items[k].term.add, items[k].width)

(* What a symbol stands for: its labels, its LabelDefinitions, or what it  *)
(* was set to.                                                             *)
Places(s) ==
    {Plus(job.base, ToWord(TrueAddress[k])) :
        k \in {i \in DOMAIN items : items[i].kind = "label" /\ items[i].sym = s}}
    \cup {Given[k].address : k \in {i \in DOMAIN Given : Sym(Given[i].name) = s}}
SetTo(s) == {items[k].term : k \in {i \in DOMAIN items : items[i].kind = "equ"
                                                         /\ items[i].sym = s}}
Meaning(s) ==
  IF s = NoSym THEN {{}}
  ELSE IF Places(s) # {} THEN Places(s)
  ELSE UNION {{Plus(v, t.add) : v \in IF t.sym = NoSym THEN {{}} ELSE Places(t.sym)} :
                t \in SetTo(s)}

(* The fields that refer to symbols: place in the result, form and meaning.*)
FieldForm(it) == IF it.kind = "data" THEN DataForm(it.width)
                 ELSE IF it.op \in Branches THEN Shape[frags[it.frag].sub].form
                 ELSE Insns[it.op].form
FieldOffset(it) == IF it.kind = "insn" /\ it.op \in Branches
                   THEN Shape[frags[it.frag].sub].at ELSE 0
Symbolic == {k \in DOMAIN items : /\ items[k].kind \in {"data", "insn"}
                                  /\ items[k].term.sym # NoSym}
FieldAt(k) == TrueAddress[k] + FieldOffset(items[k])
FieldMeaning(k) ==
  LET t == items[k].term
      from == IF FieldForm(items[k]) \in RelForms
              THEN {Plus(job.base, ToWord(FieldAt(k)))} ELSE Meaning(t.sub)
  IN {Minus(Plus(v, t.add), w) : v \in Meaning(t.sym), w \in from}

(* Every field whose symbols are known reads back as what was written in   *)
(* the source: the address, the displacement or the difference             *)
(* (nyxstone_glue.c:745-753, apply_text_fixups).                           *)
ReferencesHit == Succeeded =>
    \A k \in Symbolic : \A v \in FieldMeaning(k) :
        LET form == FieldForm(items[k])
            n == FieldLength(form, result.bytes[FieldAt(k) + 1])
        IN Holds(form, RdLe(result.bytes, FieldAt(k), n), v)

(* The relocations are the fields whose symbol has no definition, each     *)
(* once, at its absolute address and with the address of the first         *)
(* LabelDefinition of that name (nyxstone.cpp:598-617).                    *)
FirstAddress(n) == UNION {job.labels[k].address :
    k \in {i \in DOMAIN job.labels : /\ job.labels[i].name = n
                                     /\ \A j \in 1..(i - 1) : job.labels[j].name # n}}
RelocSites == Succeeded =>
    /\ ToSet(result.relocs) =
         {[offset |-> Plus(job.base, ToWord(FieldAt(k))), addend |-> items[k].term.add,
           type |-> FieldForm(items[k]), symbol |-> items[k].term.sym,
           hint |-> FirstAddress(items[k].term.sym[1])] :
             k \in {i \in Symbolic : Meaning(items[i].term.sym) = {}}}
    /\ IsInjective(result.relocs)

(* A branch to a label of the source is as long as it has to be: with the  *)
(* next shorter form its target is out of reach.  Any other branch keeps   *)
(* the longest form (nyxstone_glue.c:491-506, 540-546).                    *)
Unpadded(j, k) == \A i \in (j..k) \cup (k..j) : items[i].kind \notin {"align", "org"}
Shortest == Succeeded =>
    \A k \in Symbolic :
        LET it == items[k]  s == frags[it.frag].sub
        IN it.kind = "insn" /\ it.op \in Branches =>
             /\ ~ IsLocal(it.term.sym) => RlxMore[s] = 0
             /\ \A j \in DOMAIN items, p \in States :
                  /\ items[j].kind = "label" /\ items[j].sym = it.term.sym
                  /\ it.term.add = {} /\ Unpadded(j, k)
                  /\ p # s /\ RlxMore[p] = s
                  => ~ InRange(p, TrueAddress[j] - TrueAddress[k])

(* The call fails exactly when something is wrong with the source, and     *)
(* the error is that of the first pass to find out (nyxstone.cpp:534-584). *)
Has(class) == \E k \in DOMAIN items : items[k].kind = "fault" /\ items[k].class = class
GivesValue(k) ==
    /\ items[k].kind = "equ"
    /\ \/ items[k].term.sym = NoSym
       \/ \E i \in 1..(k - 1) : items[i].kind = "label" /\ items[i].sym = items[k].term.sym
Clash ==
    \/ \E j, k \in DOMAIN items :
         /\ j < k /\ items[j].kind = "label" /\ items[k].kind = "label"
         /\ items[j].sym = items[k].sym
         /\ \/ TrueAddress[j] # TrueAddress[k]
            \/ \E i \in j..k : items[i].kind \in {"align", "org"}
    \/ \E j \in DOMAIN Given :
         \/ \E k \in DOMAIN items : /\ items[k].kind = "label" \/ GivesValue(k)
                                    /\ items[k].sym = Sym(Given[j].name)
         \/ \E k \in 1..(j - 1) : Given[k].name = Given[j].name
Unfit(k) == LET form == FieldForm(items[k]) IN
            \E v \in FieldMeaning(k) : ~ Holds(form, Encode(form, {}, v), v)
Verdict ==
    phase = "done" /\ job.call # "disassemble" =>
        result.status =
          IF Has("directive") THEN "directive"
          ELSE IF Has("section") THEN "section"
          ELSE IF Has("gas") \/ Clash THEN "gas"
          ELSE IF \E k \in Symbolic : FieldForm(items[k]) = "64" /\ FieldMeaning(k) # {}
               THEN "unsupported"
          ELSE IF \/ \E k \in Symbolic : Unfit(k)
                  \/ \E k \in DOMAIN items : items[k].kind = "org" /\ TrueAddress[k] > items[k].to
               THEN "gas"
          ELSE IF ~ job.relocs /\ \E k \in Symbolic : FieldMeaning(k) = {} THEN "undefined"
          ELSE "OK"

(* The three passes over comments, strings and separators find the         *)
(* statements the source has (nyxstone.cpp:105-111, 138-141).              *)
StatementsMatch ==
    phase \notin {"reset", "parse"} /\ job.call # "disassemble" => seen = StatementsOf(job.text)

(* The decoded instructions are consecutive pieces of the bytes, at their  *)
(* addresses, and only the count ends the decoding before the last byte    *)
(* (nyxstone.cpp:630-657).                                                 *)
Counted == job.call = "disassemble" /\ job.count > 0
Decodes ==
    LET at == Before(Len(insns), 0,
                     [k \in DOMAIN insns |-> [n \in Nat |-> n + Len(insns[k].bytes)]])
    IN /\ \A k \in DOMAIN insns :
            /\ insns[k].address = Plus(job.base, ToWord(at[k]))
            /\ insns[k].bytes = SubSeq(result.bytes, at[k] + 1, at[k + 1])
       /\ Counted => Len(insns) <= job.count
       /\ phase = "done" /\ job.call # "assemble" =>
            at[Len(insns) + 1] = Len(result.bytes) \/ (Counted /\ Len(insns) = job.count)

(* The text of an instruction does not depend on what was decoded before   *)
(* it: the address libopcodes reconstructs is never part of it             *)
(* (nyxstone_glue.c:1038-1049).                                            *)
HistoryFree == \A k \in DOMAIN insns : insns[k].text = Text(insns[k].bytes, <<>>)
=============================================================================
