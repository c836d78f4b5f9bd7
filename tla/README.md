# NyxstoneTricoreGCC in TLA+

Models, model-checking runs and machine-checked proofs for NyxstoneTricoreGCC,
an assembler and disassembler library for TriCore that runs GNU gas inside the
calling process, or behind a daemon. Every definition is translated from the
source; `PROJECT.json` maps it to the lines it stands for.

## The system

```
  Rust program (MIT)          Rust program (GPL)   Python program    C++ program
        |                             |                  |               |
  rust-ipc/lib.rs                     |                  |               |
  connection.rs -- socketpair --> nyxstone-tcd           |               |
  daemon.rs  (spawn, reap)            |                  |               |
  protocol.rs                  rust/src/lib.rs      __init__.py          |
                                GLOBAL_LOCK            _LOCK             |
                                      +------- C ABI ----+               |
                                         nyxstone_c.cpp                  |
                                      +----------------------------------+
                                      |  nyxstone.cpp (driver)
                                      |  nyxstone_glue.c
                                      gas, libbfd, libopcodes (prebuilt)
```

| component | state | operations | hard behaviour | what makes it correct |
|---|---|---|---|---|
| IPC connection (`connection.rs`) | `Mutex<Option<Inner>>`, timeout | new, six API methods, drop | timeouts, late answers, partial frames, one retry, threads sharing the instance | an answer is the caller's own; one fault is masked; every call returns |
| daemon life cycle (`daemon.rs`) | child process, socket | spawn, half-close, poll, kill, reap | children that hang, die or block; spawns of several instances at once | one child per instance, always reaped; no process holds another's socket; the child exits when its client dies |
| wire protocol (`protocol.rs`) | none | frames, bodies, handshake | lengths at `MAX_FRAME`, truncation to u32 | both sides agree on layout; nothing oversized is sent |
| `nyxstone-tcd` | one gas | serve loop | gas exits or hangs | each surviving request gets one response |
| C++ driver (`nyxstone.cpp`) | section flag, first directive error | `do_assemble`, `do_disassemble` | errors of several passes, two modes, comments and strings, literals at the limits | the result depends on the arguments only; no wrong bytes without an error |
| glue (`nyxstone_glue.c`) | gas's globals, stderr redirection | reset, define, resolve, collect, extract | state that survives a call, layout after relaxation, 26 ways to place a field | a call starts from nothing; every field reads back as it was written |
| C ABI (`nyxstone_c.cpp`) | none | six entry points, frees | exceptions, allocation failure | all outputs or none; the right status |
| Rust binding (`rust/src/lib.rs`) | `GLOBAL_LOCK` | six methods | threads | one thread in gas at a time |
| Python binding (`__init__.py`) | `_LOCK` | six methods, `__del__` | garbage collection under the lock | no deadlock |

The parts talk by calls, except across the socketpair, where a request frame is
answered by a response frame in strict order, and in the glue, where a call
reaches the next one only through globals.

## Modules

### IpcConnection (with RpcService and IpcInvariant)

The MIT client and its daemon. Threads (`Callers`) share one instance. `pc` is
where a thread is in `connect` / `send_recv` / `round_trip` / `Drop`; `phase`
tells the first attempt from the retry (`fresh`) and from a teardown that ends
in an error (`giveup`). `mutex` and `inner` are the `Mutex<Option<Inner>>`.
Daemons are numbered by generation, so that a respawned one is told from its
predecessor: `dpc` and `dreq` are where it is in `serve` and the request it has
read, `c2d` and `d2c` the chunks in flight, `shut` the client's end of the
socket. Each frame is two chunks, a head and a body, so that both sides can be
interrupted inside one.

Actions, in the order of the code: `New`, `Call`, `DropInstance`; `Lock`,
`SpawnDaemon` / `SpawnFails`, `Connected` / `HandshakeFails`, `Oversize`,
`SendHead`, `SendBody`, `RecvHead`, `RecvBody`, `TransportError`, `FlushOnDrop`
(the `BufWriter` that is dropped with bytes left), `Shutdown`, `ForceKill`,
`Reap`; for the daemon `DaemonInit`, `DaemonHello`, `DaemonRead`, `Dispatch`,
`ReplyHead`, `ReplyBody`; for the environment `DaemonDies`, `ProcessDies`.

A request is reduced to what it makes the two sides do (`Kinds`). Time is left
out: a timeout may fire whenever a read finds nothing or a write finds no room,
which allows every race between a timeout and an answer. `faults` counts what
went wrong *around* the client (a killed daemon, a timeout, a failed spawn, gas
exiting), saturating at 2; it is a history variable that only the properties
read.

`RpcService` is what the crate's documentation promises (rust-ipc `lib.rs`
38-47): invoke, then an answer to the own request, a refusal, or a failure;
nothing while the instance does not exist. `RpcSpec` in `IpcConnection` is the
refinement: a call is pending from `Call` to its return, and the service is up
while the instance is live.

`IpcInvariant` holds the inductive strengthening of the safety properties.

### DaemonFds

The same daemons seen from the descriptor tables, for any number of instances in
one client process. `open` and `cloexec` are the socket ends each process holds
and those its exec would close. Threads of the client go through `Pair`, `Fork`,
`SpawnReturns` or `SpawnFails`, then `HalfClose`, `ForceKill` and `Reap`; a child
through `PreExec`, `Exec` or `ExecFails`, and `DaemonExits` when it reads end of
file. Next to them the client starts children of its own (`Strangers`), which
inherit whatever is open at their fork. `IpcConnection` takes for granted that
closing one side of its socket is seen by the other; this module shows it.
That the client's other children exec is an assumption: one that is forked and
goes on running the client's code keeps every socket open, and then a daemon
outlives its client.

### AssembleSession

Calls of `assemble` and `assemble_with_relocs` down to gas's globals: the lock
of the Rust binding, the exception barrier and the error classification of the
C ABI, `do_assemble`, and the glue. Variables are the globals that survive a
call: `symbols`, `text` (frags and fixups), `errors` (gas's counter, which is
never reset), `section` and `directive` (the driver's flags), `unsupported`,
`capturing` / `caplog` (stderr redirection), plus the lock and, per thread,
`do_assemble`'s locals. `hostlog` collects what gas prints on the real stderr.

One action per statement kind (`Emits`, `DefinesLabel`, `GasRejects`,
`MovesBackwards`, `DriverRejects`, `SwitchesSection`, `Throws`, `GasExits`),
then `DefineAbs` for each LabelDefinition, `LabelsDone` (the `parse_err` test),
`Resolve` (layout and `apply_text_fixups`) and `Finish` (end of capture, error
precedence, bytes and relocations). Instructions are one unit long and in their
final form: text, relaxation and layout are those of `AssembleText`, which
follows one call where this module follows many. References come
in four forms, enough to tell the branches of `apply_text_fixups` apart: a
displacement that always fits, one with a limited reach, an absolute address,
and a form the encoder does not know.

`Expected` is the specification the calls are held to: the result as a function
of the arguments, without lock, counters, passes or globals. A call in which
`apply_text_fixups` ran out of memory (`starved`) is not held to it, but the
calls after it are. A backward `.org` ends in an error, so that what it does to the
layout can only show in which error; both `Expected` and the actions give it the
place of one unit.

### AssembleText (with SourceText, FragChain, FieldEncoding, Words and Scan)

One call followed through every pass, from the text to the bytes, and from
bytes to instructions. `AssembleSession` cannot afford this: its subject is what
calls leave to each other.

- `Words`: the 64-bit integers of the C and C++ code as sets of one bits, so
  that shifts, masks, carries, truncation and sign extension are set operations
  at full width, and TLC's 32-bit integers are no limit.
- `Scan`: a loop that carries a value along (`Before` each step, `After` the last).
  The scanners of the source, the frag addresses and the padding are such loops.
- `SourceText`: `strip_block_comments`, the splitter, `strip_comment`, the
  operand readers and `emit_ascii` of `nyxstone.cpp`. A text is a sequence of
  tokens: the characters that matter stand for themselves. `StatementsOf` is the
  reference, one reader that knows strings and both kinds of comments at once.
- `FragChain`: frags, padding of `.align` and `.org`, the chains of
  `md_relax_table`, the image of the section, reading and writing a field in it.
- `FieldEncoding`: `encode_pcrel_field`, the moves and checks of all 26
  relocation forms, and `Holds`, what the instruction formats read back.
- `AssembleText`: the state machine. `Reset`, `NextStatement`, `Label`, one
  action per directive (`IntList`, `ConsList`, `Ascii`, `Skip`, `Org`, `Align`,
  `Equ`, `Accepted`, `SwitchesSection`, `Unsupported`), `Instruction`,
  `DefineLabels`, `RelaxBranches`, `RelaxSegment` (any branch that is out of
  range grows; the order is gas's), `ConvertAndFinalize`, `ApplyTextFixups`,
  `Report`, and `DecodeOne` / `Decoded` for `do_disassemble`. `items` is a
  history variable, what the statements asked for; only the properties read it.

The properties compare the answer with a layout computed from `items` in one
pass: where each item must lie (`LayoutExact`), what each number, field and
relocation must be (`DataExact`, `ReferencesHit`, `RelocSites`), how long a
branch has to be (`Shortest`; not across padding, where a branch that grew may
come back into reach when an earlier one grows), and which error, if any, the call has to return
(`Verdict`). gas is an environment: its expressions, `cons`, `frag_var`,
`relax_segment` and `md_convert_frag` are external definitions, over a table of
instructions with their real opcode bytes in `MCAssembleText`.

### WireProtocol

What goes over the socket and how each side takes it. A body is a sequence of
fields (`Num`, `Bytes`) whose lengths are counted in units, so that `MAX_FRAME`
and the 32-bit counts can be crossed with small numbers. Each writer of
`protocol.rs` is an operator. A reader takes what is left of a body to the value
it reads and what is left after it, or to `NoParse`; `Then` chains readers as `?`
does, and the loop over a counted list is a recursive function of the number of
elements read. The two
directions of the socket are `c2d` and `d2c`. The actions are those of one
request in flight: `Call` (encode, or refuse before anything is written),
`Serve` and `Respond` (parse, answer, `Downgraded` when the response is too
long), `ServeFails` (a length out of bounds), `ServeAborts`, `Receive` /
`ReceiveFails`, and `SendRaw` for a peer that writes frames of its own.
`ServeAborts` is `Vec::with_capacity` in `parse_assemble`: it asks for room for as
many labels as the 32-bit count says, and Rust ends a process whose allocator
refuses. `MaxReserve` is the largest count that the host's memory allows, a constant
of any value that is enough for the lists that fit a frame. The client's
`read_instructions` and `read_relocations` reserve in the same way. Their step has
no action: the responses come from this daemon, which counts the elements it
writes, and each takes at least a unit of the frame (`InsnListed`, `RelocListed`),
so such a count stays below `MaxReserve`. `Decoded` gives what the API method returns; `Answers` stands for
the driver behind the daemon. Timeouts, deaths and partial frames are left to
`IpcConnection`, which splits the same frames.

### CAbi

`nyxstone_c.cpp`: an entry point is the sequence of its allocations (`Plan`),
any of which may fail. The heap is a set of blocks, each named after its owner,
kind and index, so that a double free, a forgotten block or a wrong element
count shows. `Enter` refuses NULL arguments or clears the outputs, `Driver` is
the C++ call (an error, an exception or a value), `Malloc` / `MallocFails` step
through the plan and unwind, `Deliver` assigns the outputs, `SetErr` writes the
message if there is room. `Begin`, `End` and `Destroy` are a C program that
follows the header. The value itself is only its size: whether there are bytes,
how many instructions, how many relocations. The plan is given in closed form,
so that the block allocated at each step can be computed in the proofs.
Nobody but its creator knows a handle before `nyxstone_create` has returned.

### Binding

`EXTENDS CAbi`, and puts the two language bindings in the place of the C
program. `lock` is `GLOBAL_LOCK` or `_LOCK`; `pc` is where a thread is in a
method, `object` the life of each instance, `dying` and `dpc` the finaliser a
thread runs on top of whatever it was doing. Rust keeps the guard to the end of
a method; Python drops it after the C call, raises or unpacks without it, and
takes it again to free a plain buffer. With `CyclicGarbage`, an instance may
become unreachable inside a cycle and `Collect` then runs its `__del__` in any
thread that executes Python code.

## Runs

| run | question | bounds |
|---|---|---|
| `ipc_faults` | all safety properties, the refinement, and liveness: calls return, drops reap, orphans exit, under every fault | 2 threads, 6 request kinds, 2 daemon versions, 3 spawns, 2 calls each, 1 death, socket buffers of 2, 1 and 2 chunks: 790 000 states |
| `session_calls` | isolation of calls, agreement of the two modes, position independence, silence on the host's stderr, exclusion and termination, `malloc` failing in `apply_text_fixups` | 2 calls by 2 threads over about 110 inputs: 620 000 states |
| `daemon_fds` | no process keeps a socket end of another, and orphans exit, however spawns interleave | 3 daemons, 1 other child: 210 000 states. Deadlock is not checked: the client and all its children may end |
| `assemble_text` | statements, layout, data, fields, relocations, branch sizes, errors and decoding of one call | 5 984 calls: 54 000 states |
| `wire_calls` | requests and answers arrive unchanged or as an error; the stream stays in step; the daemon survives oversized answers and malformed frames, but for a length out of bounds and a label count that cannot be reserved | 1 call at a time, sizes on both sides of the frame limit and of the count's wrap, label counts above the body and at and above `MaxReserve`: 2 700 states |
| `capi_calls` | all or nothing, sound frees, no leaks | 1 caller, 2 handles, every entry point, up to 2 items per array: 3 100 states |
| `binding_calls` | exclusive use of gas, no leaks on any path, the lock is given back | 2 threads, 2 instances, either binding, cyclic garbage, the two entry points with both kinds of outputs, up to 1 item per array: 350 000 states. Deadlock is not checked: Python threads may stop for good (next run) |
| `binding_gc` | a thread never waits for the lock it holds, refuted | as `binding_calls` |
| `session_stderr` | stderr is restored after a call, refuted | 2 calls |
| `text_difference`, `text_relax`, `text_comment` | three statements of comments and tests about the text, refuted | one call each, over a few inputs; every text of up to 4 tokens for the comments |

Why the bounds are enough. Three spawns are the daemon a call starts with, the
one it respawns, and the one the next call needs after a failed retry; at the
bound only `SpawnFails` is left, which the code can meet at any spawn. Two calls
per thread let a late answer meet the next request. One death from outside and
any number of timeouts and gas exits cover all combinations of the two attempts.
A frame is two chunks: a buffer of two holds it, and a buffer of one never does,
so that both sides may block in the middle of a frame, on a first daemon or on
the one that replaces it.
In `daemon_fds` two spawns make the race and a third one inherits from both; a
fourth would only repeat it, and the theorem below has no bound.
In `session_calls` a call reads globals only as the previous one left them, and
`nyxstone_glue_reset` and the flags are set at its start, so two calls show
everything the third could see except a larger error counter, which is only
compared with its own earlier value. The inputs contain every statement kind,
each pair of errors whose precedence the code decides, forward, backward and
external references, duplicate labels and two base addresses.

The calls of `assemble_text` are chosen around boundaries: every text of up to
three tokens over quotes, backslashes, comments and separators (with plain
comments, see below); every form of field with values on both sides of each of
its limits; a branch of every chain before and after each limit of its reach,
alone and in pairs whose sizes depend on each other through `.align` and `.org`;
labels of every kind with every clash; literals around the powers of two of each
width; malformed operands of each directive; instruction streams cut at every
length, with every count. The calls are independent of each other, so a larger
set adds no interaction. Not among them: sums of three terms, text behind an
operand, and names that `.equ` gives to more than one token. The same calls were run against a build of the library,
which gave the bytes, errors and relocations the model gives.

In `capi_calls` two items are the first and the last one of an array, with the
off-by-one between an element that is half filled in and one that is not; one
caller is enough because calls share no state of the ABI. The bindings add the
sharing: two threads and two instances give one in a call while the other calls,
raises, frees or destroys.

Each property of a passing run has a mutant in `PROJECT.json`: a slip in
one definition that TLC must catch. Operators such as `LockIgnored`,
`AlwaysRetry` or `SymbolsKept` are those slips; nothing else uses them.

### Fairness

`IpcConnection` assumes weak fairness of each thread's own steps and of each
daemon's: running threads and processes are scheduled. A thread waiting for a
`std::sync::Mutex` could starve if others called for ever, but the calls are
bounded, so weak fairness is enough. Nothing forces calls, drops, deaths or
kills by the user. `DaemonFds` assumes it of a child between its fork and its
exec, and of a daemon that can read end of file; of no thread of the client.
That a read or write with nothing to do ends is the timeout's promise and holds
only with `Timeouts`. `ForceKill` is a step of the dropping
thread, so a child that hangs is killed eventually. `AssembleSession` assumes
the same of its threads, and `Binding` of each thread's `Continue`: a thread
inside a method is scheduled. Neither lock is fair and nothing bounds the calls,
so a waiting thread may be overtaken for ever; what is checked is that whoever
has the lock gives it back (`LockReleased`). `wire_calls`, `capi_calls` and `assemble_text` check
safety alone: deadlock checking shows that no call gets stuck. In `AssembleText`
the only state without another step is `Returned`, and every pass of a call is
bounded by the length of its text, its frags or its relax chains.

### Disagreements found

1. An exception inside `do_assemble` leaves stderr redirected after the call
   (`session_stderr`).
2. Python's `__del__` takes a lock that is not re-entrant; the collector may run
   it in a thread that holds the lock (`binding_gc`).
3. A difference of two labels that gas does not fold while it reads the line is
   stored as the address of the first (`text_difference`).
4. `jz` and `jnz` on `%d15` keep their 4-byte form where 2 bytes would reach:
   their chain starts at index 0, which the glue takes for a sentinel
   (`text_relax`).
5. Line comments are stripped after block comments, strings and separators have
   been looked for, so that a quote, a `;` or a `/*` in a comment counts
   (`text_comment`). The other runs therefore have plain comments.

The inputs of these five are left out of the passing runs, or the property there
says so. Other disagreements are visible enough to need no run:

- `protocol.rs:258`: `parse_assemble` reserves room for the label count of a request
  before it reads a label. `protocol.rs:32-33` says that a corrupt prefix cannot
  trigger a 4 GiB allocation, which holds of `MAX_FRAME`-checked lengths and not of
  this count (up to 128 GiB); `protocol.rs:238-240` and `nyxstone-tcd.rs:80-82` say
  that a body that cannot be parsed gets `ERR_PROTOCOL` and the daemon serves on.
  Where the allocator refuses, the daemon aborts. `wire_calls` contains such
  frames, and `DaemonServes` says what happens: their sender sees end of file, as
  after a length out of bounds. The client of this repository never sends one:
  a count that fits a frame can be reserved (`NeverOvercommits`).
- `nyxstone_c.cpp:80` classifies errors by their text, so an error that quotes
  an operand can be taken for a section violation.
- `nyxstone.cpp:180`: `.quad` literals above `INT64_MAX` saturate to
  0x7fffffffffffffff, where gas's `cons` stores their 64 bits. No literal of
  `assemble_text` is that large, so `DataExact` does not show it.
- `nyxstone_glue.c:783`: a failed `malloc` in `apply_text_fixups` yields bytes
  whose fixups were never applied, without an error. `Isolated` excludes the
  call in which this happens, and no other.
- `nyxstone_c.cpp:184`: a call refused for a NULL argument leaves the other
  outputs as they were; `nyxstone_c.h:24-25` says outputs are NULL on failure.
- `.byte 1,2,` is two bytes when all operands are literals and three when one is
  an expression: only gas's `cons` takes the missing operand for a 0.
- Text behind an operand of a data list, or behind the value of `.equ`, is dropped
  without an error: `.word x y` assembles as `.word x`.
- rust-ipc `lib.rs:220-221` says later calls of a process reuse the first child,
  while every instance and every respawn has its own.
- `nyxstone.h:54` and `nyxstone_c.h:85` call relocation offsets
  section-relative, while the driver returns absolute ones, as
  `docs/architecture.md` says.

## Proofs

TLAPS proves, for every number of threads, requests, versions, spawns, calls,
deaths and buffer size (`IpcConnection_proofs`): `TypeCorrect`,
`ResponsesMatch`, `DaemonsOwned`, `VersionsGated`, `RetriesAreJustified` and
`FaultsAreMasked`, that is, `Spec => []P` for the properties of `ipc_faults`;
and, in the second half of that module, that `IpcConnection` implements `RpcService`
(`Refinement`). The assumptions are the named ones at the head of
`IpcConnection`: kinds of requests, bounds that are naturals, a buffer of at
least one chunk for each daemon, `NoOne` and `None` being no thread and no
request, and a Boolean for the timeouts.

None of the properties is inductive. `ResponseMatches`, for instance, needs to
know that whatever is on the stream of the daemon in use answers the request in
flight. `IInv` is a conjunction of layers, each proved from the ones before it:

- `TypeOK`: the types;
- `Exclusive`: only the holder of the mutex is between `Lock` and its return;
- `Ownership`: a daemon that is not reaped belongs to `inner` or to the holder;
- `InStep`: the client's position, the two queues and the daemon's position on
  one connection match, chunk by chunk: the alternating request and response;
- `Blank`: generations not spawned yet and closed sockets are empty;
- `SameVersion`: past the handshake the versions agree;
- `Results`: what a finished call returned fits its request;
- `Bookkeeping`: `sends`, `phase` and `faults` are consistent, which relates
  each failure to the faults that caused it.

Each layer has one lemma per action; the generated families (`...Step`) follow
one pattern: the action, the old invariant, the variables it leaves alone. The
temporal theorems combine them with PTL.

`FieldEncoding_proofs` proves, for every relocation form, every opcode word and
every 64-bit value, that `encode_pcrel_field` accepts the value exactly when the
field it writes reads back as that value (`FieldReadsBack`), and that it changes
no bit outside its field (`OpcodeKept`). There is no state and no assumption: the
argument is about one bit at a time. A lemma per form that is put together from
pieces (`Read_24REL` and so on), and one for the fifteen forms with one piece,
say which bit of the value each bit of the gathered field is; then a lemma per
group of forms compares what those bits say with what `Legal` asked. For `HIADJ`
the carry of `v + 0x8000` has to cancel against the sign extension of the low
half: `FlippedBits` shows by the least zero above bit 15 that it does.
`assemble_text` uses the same `Encode`, `Legal` and `Holds` in `ReferencesHit`
and `Verdict`, on the values at the boundaries.

`DaemonFds_proofs` proves, for any number of daemons and other children, that
`OnlyOwnEnd` holds (`EndsNotLeaked`), and the safety half of `OrphansExit`: once
the client is gone and no child is between fork and exec, every daemon can read
end of file (`OrphansHearTheEnd`). The one assumption is that the three kinds of
processes are different. `OnlyOwnEnd` is not inductive: what a child keeps over
its exec depends on the flags it inherited. `FdInv` adds that the client's table
is all CLOEXEC (`HostMarksAll`), that a child's is too until `pre_exec` clears
one flag (`DaemonHolds`, `StrangerHolds`), that the daemon's end is still open
in the client at the fork (`HostHolds`), and that processes which have ended
hold nothing (`GoneHoldsNothing`).

The first half of `Binding_proofs` is about `CAbi` alone. It proves, for any number of callers, handles, instructions and
relocations and for every place where an allocation may fail, that nothing is
freed twice or too early (`FreesSound`), that a call hands over all of its
outputs or none (`OutputsAllOrNothing`) and that a caller which follows the
header keeps nothing (`NoBlockLeaks`). It assumes that there is a handle and
that callers and handles are different things. `CInv` is the invariant: in the
middle of a call, the locals point to exactly the first blocks of its plan
(`Progress`), those and the message are all that the caller owns in the heap
(`Own(c) = Holding(c)`), and one caller at most creates a given handle
(`OneCreator`). What makes it inductive are two facts about the frees, which
select blocks by kind and element: `UnwindIsAll`, that the unwinding after a
failure at step k frees precisely the first k - 1 blocks of the plan, and
`HandedIsAll`, that the header's frees cover the whole of it.

The second half builds on those lemmas: a step inside the C function changes
nothing but its own frame, its own blocks and, in `nyxstone_create`, its own
handle (`Kept`). It proves, for any number of threads and instances, with or
without cyclic garbage, `OneThreadInGas`, `BindingsLeakNothing` and
`BindingTypes`, the three invariants of `binding_calls`. `BInv` says where a
method and where a finaliser has the lock (`LockInv`; never both, though a
finaliser may run on top of a method), what a thread owns at each place of its
method (`Stage`), that the instance a method works on is alive or, while it is
created, nobody else's (`User`), that a dying instance has one finaliser
(`Finaliser`), and when a C handle exists (`HandleInv`). Mutual exclusion alone
is not inductive: without `User` and `Finaliser` a handle could be destroyed
under a call that works on it. The assumptions are those of `CAbi` and
that no thread or instance is `NoOne`.

`AssembleSession_proofs` proves the five invariants of
`session_calls`, for any threads, any names, any set of well-formed inputs, any
number of calls and any reach of the short displacement: `SessionTypes`,
`HostStderrClean`, `CallsAreIsolated`, `AddressIndependent` and `BothModesAgree`.
Inputs and bounds with these types are all they assume, and that `NoOne` is no
thread. Calls in which `malloc` failed are excluded from the last three, as in the
run.

- `SInv` has the types and two facts that need each other: the holder of the lock
  is the thread inside the library (`Exclusive`), and stderr is redirected while a
  thread is in a step that may print (`Window`). Without the first, another
  thread's `Finish` could end the redirection.
- `RInv` follows one call through its passes and says what the globals hold in
  each: the flags, messages, symbols and text of the statements read so far
  (`Seen`), those of the whole source and the first labels (`Labelled`), with no
  complaint left (`Resolving`), and from the layout on that the outcome is
  `Expected` of the arguments (`Deciding`). Nothing is assumed of the globals when
  a call begins: that `Begin` establishes `Seen` from any state an earlier call
  left is the heart of isolation. `Exclusive` keeps the other threads' steps away.
- The reference counts statements where the code advances a position. The lemmas
  between the two are `OneMore` and its successors, one more statement or label
  at a time, and `BodyAt`, `InOrderAt` and `InOrderIn`, that a set of naturals in
  order lists each member at its rank.
- The last two theorems then say something of `Expected` alone: `AddressFree`,
  that the address drops out of every displacement to an own label, and
  `ModesMeet`, that each relocation of one mode stands where the other mode has a
  field, with the hint that field was computed from.

`WireProtocol_proofs` proves, for every size of the units and of `MAX_FRAME`, all
requests, all answers of the driver and all malformed frames, and whatever memory can
be reserved, the five invariants of `wire_calls`: `WireTypes`, `RequestsArrive`, `AnswersArrive`, `StreamStaysInSync` and
`DaemonKeepsServing`.

- Writers and readers are inverse, field by field: reading what `Bytes`, `Label`,
  `Insn`, `Reloc` or `Each` wrote, followed by anything, returns the value and that
  rest. For a counted list the reader's loop is followed along the list
  (`CountIsReads`); the bound on a count comes from the frame, which has at least a
  unit for each element.
- A frame written to an empty stream is a frame: its header says how long the body
  is, `Body` gives it back and `AfterFrame` is empty. Both sides rest on the check
  in `FrameHeader::write`; without it the header would say the length modulo `Base`.
- `WireInv` says what is in flight: nothing (`idle` and `done`), the whole frame of the
  request that was asked, the whole frame of the response to it, a malformed frame, or
  a stream lost because of one, which is `Fatal`: it has a length out of bounds or a
  label count that cannot be reserved. `StreamInSync` and `RequestArrives` follow from it.

`WireAssumption` bounds the constants (room for the daemon's own notices, text units
are units, a frame's length fits its header, memory can be reserved for any list
in a frame); `RawAssumption` says what a malformed
frame is. `wire_calls` evaluates both.

`TextParse_proofs` and `AssembleText_proofs`, which extends it, prove eight of the ten
invariants of `assemble_text`, for any set of calls, any text, any names, any
instruction table and any relax states: `CallTypes`, `PiecesOfTheBytes` and
`TextsAreStateless` in the first, `LaidOutExactly`, `NumbersStored`, `RelocsExact`,
`ReferencesRead` and `ShortestForms` in the second. `RelaxTable`, `RelaxOrder`,
`InsnTable`, `FieldTable`, `JobTypes` and `NameTypes` are the assumptions: an
instruction's opcode has the size its state says, its field lies inside it and has one
of the encodings of `FieldEncoding`, the chains stay inside the table, `rlx_more`
leads to a longer state and to no state twice, a form reaches at least from its own
start to the end of the shortest form, and no number is a name.

- `Types` is the invariant behind `CallTypes`, which alone is not inductive: frags
  are converted, padded and written to in three passes that trust each other. It
  adds that a machine frag is in a state of its own branch, that a label lies in a
  frag that exists, that the offset of a `.org` or `.align` frag is a natural, that
  no frag but the last lacks its variable part, and that a fixup's field lies inside
  its frag, where it stays while frags grow and are closed.
- `TextParse_proofs` begins with the lemmas on the loops of `Scan`, on `FlattenSeq`,
  folds, least elements and on 64-bit words that these proofs share. A loop's run is determined
  by its steps, so that the addresses, the padding and the pieces of a text can be
  followed one position at a time.
- `LayoutInv` is the invariant behind `LaidOutExactly` and `NumbersStored`: every item
  of the text has a spot, a frag and an offset in it (`FragOf`, `PlaceOf`), computed
  from the items before it alone. While the text is read (`Reads`), what is fixed of an
  item is at its spot, and every fixup is about the field of one item. Relaxation
  moves the states of branches and nothing in a frag; `ConvertAndFinalize` settles what
  is open (`Final`): each branch has the bytes of its state, each padding its length,
  and an item's address is the sum over the items before it. The fixups then write
  into their own items only: a field lies within its item (`Roomy`), and the bit that
  tells a 16-bit instruction from a 32-bit one is never part of a field (`SteadyBit`),
  so that an instruction still has the length it was given its place by.
- `NumbersStored` holds of the runs in which `LiteralsFit`: a list of plain numbers is
  read with `strtoll`, which saturates above `INT64_MAX`, where `cons` stores the low
  bits. `LaidOutExactly` has no such condition. In the passing runs every literal fits.
- `RelocInv` is the invariant behind `RelocsExact`. `Meant` says what the symbols of a
  parsed text stand for: a label its frag and offset, a given label its address, and a
  name set by `.equ` what its operand leads to through the aliases, which is
  `Meaning`. `Pairs` and `Matched` pair the fields of the items with the fixups, one
  to one, with the same symbol, addend and place, while the text is read and after
  the branches have been converted. The result's relocations are then the fixups whose
  symbol has no definition, each once (`PendingMeans`, `CollectedAre`), and no two are
  at one address (`OffsetsApart`).
- `RelocsExact` has two conditions. `PlainEqus`: no name is set twice by `.equ` and none
  is set to a name that `.equ` sets, so that what a name leads to is one step away; the
  inputs with longer chains (`.equ x, y`, `.equ y, x` among them) are left to the run.
  `Countable`: the result has at most 2^64 bytes, beyond which addresses wrap around.
- `ReferencesRead` follows a resolved reference from the text into the bytes.
  `HitInv` says when the result stands for all fixups: a result was returned only
  without an error, after every fixup was dealt with. `Located` says, as long as no
  error was counted, that each label is at the spot of its item, that a name set by
  `.equ` is what its operand said, and, after the parse, that each LabelDefinition has
  its address. `LaidOutExactly` turns spots into addresses and `FieldReadsBack` bits into
  numbers; all sums are modulo 2^64, in which an order of additions does not matter.
- `ReferencesRead` has two conditions: `PlainEqus`, as above, and `NoDifferences`, that
  no operand is a difference of two symbols. What becomes of those that gas does not
  fold at once is what `text_difference` shows. Proving it found that `Meaning` had two
  overlapping cases for an operand without a symbol, between which TLC picks the
  first; the definition now has disjoint ones.
- `ShortestForms` compares the states of all branches of a text with each other.
  `ShortInv` is its invariant: from the start of relaxation on, the state before a
  branch's own (`RlxMore[p]` is its state) does not reach its target (`Tight`). It
  holds of the first states, before which there is none (`StartTight`), and
  `relax_segment` takes a branch to its next state only when the last one was out of
  reach. That stays so: frags never shrink, so that a target can only move further off, in
  the direction it was in (`Stretches`, `FarKept`). Between two items that nothing pads
  apart, the addresses that `relax_segment` measures with are as far apart as the final ones
  (`Spaced`), whatever padding precedes both.
- `ShortestForms` has the condition `HeadsFound`: no branch to a symbol of the text is
  of the chain that begins at index 0 of the table, which `chain_head` does not find;
  that is what `text_relax` shows. Across padding the property claims nothing.
- `DecodeInv` says that the offset is the end of the last decoded instruction, that
  each starts where the one before it ended, and that nothing is decoded before the
  answer. `TextIs`, that `StripAddrAnnotation` leaves of any text the same two pieces,
  makes the texts independent of the notes libopcodes adds.

Only model-checked: the liveness properties (`CallsReturn`, `DropReaps`,
`ExitOnEOF`, `OrphansExit`, `CallsEnd`, `LockReleased`), which are out of the prover's
reach, and the other two invariants of `assemble_text`. `StatementsMatch` is about
the scanners for texts of any length, whose loops carry states that do not match one
to one. `Verdict` lists every reason to refuse a text, and has to show that nothing else
refuses it. The library's induction theorems take an operator and
cannot be instantiated; where a proof follows a recursive function step by step, the
induction is one on a set of naturals (`SetInduction`).

## Not modelled

- gas, libbfd and libopcodes themselves; they appear as external definitions.
  Instruction operands that are numbers are encoded by gas without the glue, and
  are not among the inputs. `libopcodes` never returns without having consumed
  something, so the driver's branch for that is left out.
- Mutex poisoning (a panic under the mutex makes later calls fail).
- The pipe through which `Command::spawn` learns whether the child's exec
  succeeded; `DaemonFds` gives it what the child's state says.
- The comment in `connection.rs` that every request is bounded by the timeout:
  the timeout bounds each system call. The setting without a timeout
  (`Timeouts = FALSE`) is in the model and in the proofs, in no run.
- The installer of the daemon, build scripts, `tl::expected`.
- One-time initialisation of gas, and memory exhaustion inside gas and the
  glue's capture and print buffers.
- What other threads of the host print while stderr is redirected.
- Exceptions that Python raises asynchronously (`KeyboardInterrupt`), interpreter
  shutdown, and label names that the bindings refuse before taking the lock.
- A `MemoryError` that Python raises while a method unpacks its results
  (`__init__.py:183-197`, `250`): what the C call returned would not be freed.
  `NoLeak` is about the paths the code itself takes.
- Narrowing casts of directive operands that are counts (`nyxstone.cpp:374-376`,
  `nyxstone_glue.c:318-322`): operands used as counts are small in all inputs, and
  there the casts are the identity.
- The values of integers on the wire: a field is its length and its content.
- The wording of error messages.

## Plan

1. `IpcConnection`, `RpcService`, `DaemonFds`, proofs: done.
2. `AssembleText` with its five modules: modelled and checked; the fields, the types,
   the layout, the numbers, the relocations, the references and the decoding are
   proved, and that branches are no longer than they have to be. To prove: `Verdict`.
3. `AssembleSession`: modelled, checked, and proved, but for liveness.
4. `WireProtocol`: modelled, checked, and proved.
5. `CAbi`: modelled, checked, and proved.
6. `Binding`: modelled, checked, and proved, but for liveness.
7. `InitOnce`: one-time initialisation that fails half-way and is tried again.
