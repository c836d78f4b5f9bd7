---------------------------- MODULE IpcConnection ----------------------------
(***************************************************************************)
(* The MIT client of the IPC mode (bindings/rust-ipc: connection.rs,       *)
(* daemon.rs, protocol.rs) talking to the GPL daemon                       *)
(* (bindings/rust/src/bin/nyxstone-tcd.rs).                                *)
(*                                                                         *)
(* Threads of one process share one NyxstoneTricoreGCC instance.  The      *)
(* instance owns at most one daemon: a child process behind a socketpair.  *)
(* A call takes the instance's mutex, connects if nothing is connected,    *)
(* sends one request frame and reads one response frame.  After any        *)
(* transport error it tears the daemon down, respawns it once and sends    *)
(* the request once more.                                                  *)
(*                                                                         *)
(* Abstractions.  A frame is two chunks, "head" (FrameHeader) and "body",  *)
(* so that a reader or a writer can be interrupted inside a frame.  A      *)
(* payload is the request it belongs to: gas is a pure function of the     *)
(* request.  Time is not modelled: a socket timeout may fire whenever a    *)
(* read finds no data or a write finds no room.                            *)
(***************************************************************************)
EXTENDS Naturals, Sequences

CONSTANTS
    Callers,      \* threads sharing the instance
    Requests,     \* the requests they may send
    NoOne, None,  \* no thread, no request
    Kind,         \* what each request makes the two sides do
    Versions,     \* protocol versions of the daemon binaries on PATH
    OurVersion,   \* PROTOCOL_VERSION the client was built with
    Timeouts,     \* FALSE iff NYXSTONE_TCD_TIMEOUT_MS = 0
    SockBuf,      \* per daemon: how many chunks of a frame fit its socket's buffers
    MaxSpawns,    \* bound: processes that can be spawned
    MaxCalls,     \* bound: new() and method calls per thread
    MaxDeaths     \* bound: daemons that fail to start or are killed

(* good: gas succeeds.  diag: the daemon answers with an error status.     *)
(* fatal: gas exits inside the daemon.  hang: the daemon never answers.    *)
(* oversize: the frame exceeds MAX_FRAME.  overcount: the instruction      *)
(* count does not fit the wire's u32.                                      *)
Kinds == {"good", "diag", "fatal", "hang", "oversize", "overcount"}

ASSUME KindAssumption    == Kind \in [Requests -> Kinds]
ASSUME BoundsAssumption  == /\ MaxSpawns \in Nat /\ MaxCalls \in Nat
                            /\ MaxDeaths \in Nat
ASSUME NoneAssumption    == NoOne \notin Callers /\ None \notin Requests
ASSUME TimeoutAssumption == Timeouts \in BOOLEAN

Gens    == 1..MaxSpawns          \* the n-th daemon this process spawned
NoGen   == 0

ASSUME BufferAssumption  == SockBuf \in [Gens -> Nat \ {0}]

VARIABLES
    instance,  \* life of the NyxstoneTricoreGCC value
    mutex,     \* the thread with exclusive access to the connection
    inner,     \* Mutex<Option<Inner>>: the connected generation or NoGen
    pc,        \* where each thread is
    phase,     \* which part of connect / round_trip / drop it is in
    conn,      \* the generation it is connecting, using or tearing down
    req,       \* its current (or last) request
    reply,     \* what its last call returned
    sends,     \* requests it put on a wire during this call
    calls,     \* calls it made
    spawned,   \* generations spawned so far
    dpc,       \* where each daemon is
    dreq,      \* the request it is serving
    dver,      \* the protocol version it announces
    c2d, d2c,  \* chunks in flight on its socket, per direction
    shut,      \* the client's end of the socket: open, half (write), closed
    deaths,    \* daemons that failed to start or were killed
    faults     \* what went wrong around the client so far, saturating at 2

cvars == <<instance, mutex, inner, pc, phase, conn, req, reply, sends, calls>>
dvars == <<dpc, dreq, dver, c2d, d2c, shut>>
vars  == <<cvars, spawned, dvars, deaths, faults>>

Chunk(part, r) == [part |-> part, req |-> r]
Hello(v)       == [part |-> "hello", ver |-> v]

(* Outcomes of a call: the daemon's response to r, or a client-side error. *)
Response(r)  == [kind |-> "response", req |-> r]
Failed       == [kind |-> "failed"]
Rejected     == [kind |-> "rejected"]
Nothing      == [kind |-> "nothing"]

Fault == faults' = IF faults < 2 THEN faults + 1 ELSE faults
FaultIf(b) == IF b THEN Fault ELSE UNCHANGED faults

Dead(g)     == dpc[g] \in {"exited", "reaped"}
Unreaped(g) == dpc[g] \notin {"none", "reaped"}

-----------------------------------------------------------------------------
Init ==
    /\ instance = "absent" /\ mutex = NoOne /\ inner = NoGen
    /\ pc    = [c \in Callers |-> "idle"]
    /\ phase = [c \in Callers |-> "first"]
    /\ conn  = [c \in Callers |-> NoGen]
    /\ req   = [c \in Callers |-> None]
    /\ reply = [c \in Callers |-> Nothing]
    /\ sends = [c \in Callers |-> 0]
    /\ calls = [c \in Callers |-> 0]
    /\ spawned = 0
    /\ dpc   = [g \in Gens |-> "none"]
    /\ dreq  = [g \in Gens |-> None]
    /\ dver  = [g \in Gens |-> OurVersion]
    /\ c2d   = [g \in Gens |-> <<>>]
    /\ d2c   = [g \in Gens |-> <<>>]
    /\ shut  = [g \in Gens |-> "open"]
    /\ deaths = 0 /\ faults = 0

-----------------------------------------------------------------------------
(* The API: new(), a method call, dropping the instance.                   *)

(* NyxstoneTricoreGCC::new().  A value under construction is reachable     *)
(* from its constructor only, which mutex records.                         *)
New(c) ==
    /\ instance = "absent" /\ pc[c] = "idle" /\ calls[c] < MaxCalls
    /\ instance' = "making" /\ mutex' = c
    /\ pc'    = [pc EXCEPT ![c] = "spawn"]
    /\ phase' = [phase EXCEPT ![c] = "new"]
    /\ reply' = [reply EXCEPT ![c] = Nothing]
    /\ req'   = [req EXCEPT ![c] = None]
    /\ sends' = [sends EXCEPT ![c] = 0]
    /\ calls' = [calls EXCEPT ![c] = @ + 1]
    /\ UNCHANGED <<inner, conn, spawned, dvars, deaths, faults>>

(* A method call.  wire_count refuses an overflowing count before the      *)
(* request is even built.                                                  *)
Call(c, r) ==
    /\ instance = "live" /\ pc[c] = "idle" /\ calls[c] < MaxCalls
    /\ req'   = [req EXCEPT ![c] = r]
    /\ phase' = [phase EXCEPT ![c] = "first"]
    /\ sends' = [sends EXCEPT ![c] = 0]
    /\ calls' = [calls EXCEPT ![c] = @ + 1]
    /\ \/ /\ Kind[r] = "overcount"
          /\ reply' = [reply EXCEPT ![c] = Rejected]
          /\ UNCHANGED pc
       \/ /\ Kind[r] # "overcount"
          /\ reply' = [reply EXCEPT ![c] = Nothing]
          /\ pc'    = [pc EXCEPT ![c] = "lock"]
    /\ UNCHANGED <<instance, mutex, inner, conn, spawned, dvars, deaths,
                   faults>>

(* Dropping the Option<Inner> runs Daemon::drop if a daemon is connected.  *)
Forgotten  == FALSE
HoldsChild == inner # NoGen

(* The last reference goes away: Connection, Inner and Daemon are dropped. *)
DropInstance(c) ==
    /\ instance = "live" /\ \A t \in Callers : pc[t] = "idle"
    /\ inner' = NoGen
    /\ \/ /\ ~ HoldsChild
          /\ instance' = "absent"
          /\ UNCHANGED <<mutex, pc, phase, conn>>
       \/ /\ HoldsChild
          /\ instance' = "dropping" /\ mutex' = c
          /\ pc'    = [pc EXCEPT ![c] = "shutdown"]
          /\ phase' = [phase EXCEPT ![c] = "drop"]
          /\ conn'  = [conn EXCEPT ![c] = inner]
    /\ UNCHANGED <<req, reply, sends, calls, spawned, dvars, deaths, faults>>

-----------------------------------------------------------------------------
(* Steps of a thread inside connect() and round_trip().                    *)

(* The call returns o: the guard g is released.                            *)
Return(c, o) ==
    /\ pc'    = [pc EXCEPT ![c] = "idle"]
    /\ reply' = [reply EXCEPT ![c] = o]
    /\ conn'  = [conn EXCEPT ![c] = NoGen]
    /\ mutex' = NoOne

(* std::sync::Mutex lets one thread in.                                    *)
LockFree == mutex = NoOne

(* self.inner.lock(), then the lazy reconnect test.                        *)
Lock(c) ==
    /\ pc[c] = "lock" /\ LockFree
    /\ mutex' = c
    /\ conn'  = [conn EXCEPT ![c] = inner]
    /\ pc'    = [pc EXCEPT ![c] = IF inner = NoGen THEN "spawn" ELSE "send"]
    /\ UNCHANGED <<instance, inner, phase, req, reply, sends, calls, spawned,
                   dvars, deaths, faults>>

(* Daemon::spawn: socketpair, fork, exec.                                  *)
SpawnDaemon(c) ==
    /\ pc[c] = "spawn" /\ spawned < MaxSpawns
    /\ spawned' = spawned + 1
    /\ dpc' = [dpc EXCEPT ![spawned + 1] = "init"]
    /\ \E v \in Versions : dver' = [dver EXCEPT ![spawned + 1] = v]
    /\ conn' = [conn EXCEPT ![c] = spawned + 1]
    /\ pc'   = [pc EXCEPT ![c] = "hello"]
    /\ UNCHANGED <<instance, mutex, inner, phase, req, reply, sends, calls,
                   dreq, c2d, d2c, shut, deaths, faults>>

(* The binary is missing, fork or exec fails, or a socket option fails.    *)
SpawnFails(c) ==
    /\ pc[c] = "spawn"
    /\ Return(c, Failed)
    /\ instance' = IF phase[c] = "new" THEN "absent" ELSE instance
    /\ Fault
    /\ UNCHANGED <<inner, phase, req, sends, calls, spawned, dvars, deaths>>

(* read_handshake checks the magic and the version.                        *)
AnyHello(chunk)  == chunk.part = "hello"
GoodHello(chunk) == chunk = Hello(OurVersion)

(* The handshake is accepted: new() and a lazy reconnect store the connection *)
(* in the mutex, a respawn keeps it in the local `fresh`.                  *)
Connected(c) ==
    LET g == conn[c] IN
    /\ pc[c] = "hello" /\ d2c[g] # <<>> /\ GoodHello(Head(d2c[g]))
    /\ d2c' = [d2c EXCEPT ![g] = Tail(@)]
    /\ inner' = IF phase[c] = "fresh" THEN inner ELSE g
    /\ IF phase[c] = "new"
         THEN /\ Return(c, Nothing)
              /\ instance' = "live"
         ELSE /\ pc' = [pc EXCEPT ![c] = "send"]
              /\ UNCHANGED <<instance, mutex, conn, reply>>
    /\ UNCHANGED <<phase, req, sends, calls, spawned, dpc, dreq, dver, c2d,
                   shut, deaths, faults>>

(* A read fails at end of file, or times out while there is nothing.       *)
ReadFails(g) == d2c[g] = <<>> /\ (Dead(g) \/ Timeouts)

(* A write fails on a closed peer, or times out while there is no room.    *)
WriteFails(g) == Dead(g) \/ (Len(c2d[g]) >= SockBuf[g] /\ Timeouts)

(* read_handshake fails: connect() drops the daemon and returns the error. *)
HandshakeFails(c) ==
    LET g == conn[c] IN
    /\ pc[c] = "hello"
    /\ \/ ReadFails(g)
       \/ d2c[g] # <<>> /\ ~ GoodHello(Head(d2c[g]))
    /\ pc'    = [pc EXCEPT ![c] = "shutdown"]
    /\ phase' = [phase EXCEPT ![c] = IF @ = "new" THEN "new" ELSE "giveup"]
    /\ FaultIf(d2c[g] # <<>> \/ ~ Dead(g))
    /\ UNCHANGED <<instance, mutex, inner, conn, req, reply, sends, calls,
                   spawned, dvars, deaths>>

(* Request::write refuses an oversized frame (InvalidInput) before a byte  *)
(* is written: the error is returned and the connection is kept.           *)
Oversize(c) ==
    /\ pc[c] = "send" /\ Kind[req[c]] = "oversize"
    /\ Return(c, Rejected)
    /\ UNCHANGED <<instance, inner, phase, req, sends, calls, spawned, dvars,
                   deaths, faults>>

(* The kernel takes a chunk when the peer lives and there is room.         *)
NoBackPressure(g) == ~ Dead(g)
Writable(g)       == ~ Dead(g) /\ Len(c2d[g]) < SockBuf[g]

(* send_recv puts the two parts of the request frame on the socket ...     *)
Write(c, part, next) ==
    LET g == conn[c] IN
    /\ Writable(g)
    /\ c2d' = [c2d EXCEPT ![g] = Append(@, Chunk(part, req[c]))]
    /\ pc'  = [pc EXCEPT ![c] = next]
    /\ UNCHANGED <<instance, mutex, inner, phase, conn, req, reply, calls,
                   spawned, dpc, dreq, dver, d2c, shut, deaths, faults>>

SendHead(c) ==
    /\ pc[c] = "send" /\ Kind[req[c]] # "oversize"
    /\ Write(c, "head", "send_body")
    /\ sends' = [sends EXCEPT ![c] = @ + 1]

SendBody(c) ==
    /\ pc[c] = "send_body"
    /\ Write(c, "body", "recv")
    /\ UNCHANGED sends

(* ... and takes the two parts of one response frame off it.               *)
RecvHead(c) ==
    LET g == conn[c] IN
    /\ pc[c] = "recv" /\ d2c[g] # <<>>
    /\ d2c' = [d2c EXCEPT ![g] = Tail(@)]
    /\ pc'  = [pc EXCEPT ![c] = "recv_body"]
    /\ UNCHANGED <<instance, mutex, inner, phase, conn, req, reply, sends,
                   calls, spawned, dpc, dreq, dver, c2d, shut, deaths, faults>>

(* Any complete response is the result, error statuses included; a fresh   *)
(* connection that served it goes into the mutex.                          *)
RecvBody(c) ==
    LET g == conn[c] IN
    /\ pc[c] = "recv_body" /\ d2c[g] # <<>>
    /\ d2c'   = [d2c EXCEPT ![g] = Tail(@)]
    /\ inner' = g
    /\ Return(c, Response(Head(d2c[g]).req))
    /\ UNCHANGED <<instance, phase, req, sends, calls, spawned, dpc, dreq,
                   dver, c2d, shut, deaths, faults>>

(* Any other error of send_recv.                                           *)
SendRecvFails(c) ==
    \/ pc[c] = "send" /\ Kind[req[c]] # "oversize" /\ WriteFails(conn[c])
    \/ pc[c] = "send_body" /\ WriteFails(conn[c])
    \/ pc[c] \in {"recv", "recv_body"} /\ ReadFails(conn[c])

(* What is dropped first: a BufWriter with bytes left, or the Daemon.      *)
Abandon(p)  == "spawn"
TearDown(p) == IF p = "send_body" THEN "flush" ELSE "shutdown"

(* One retry: an error of the second attempt is returned.                  *)
NeverRetry(p)  == "giveup"
AlwaysRetry(p) == "first"
RetryOnce(p)   == IF p = "first" THEN "first" ELSE "giveup"

(* The first attempt clears the mutex's Option, the retry drops the local  *)
(* `fresh`; either way the stream is never used again.                     *)
KeepStream(c) ==
    /\ SendRecvFails(c) /\ Return(c, Failed) /\ inner' = conn[c]
    /\ UNCHANGED <<instance, phase, req, sends, calls, spawned, dvars, deaths,
                   faults>>
TransportError(c) ==
    /\ SendRecvFails(c)
    /\ inner' = NoGen
    /\ pc'    = [pc EXCEPT ![c] = TearDown(@)]
    /\ phase' = [phase EXCEPT ![c] = RetryOnce(@)]
    /\ FaultIf(~ Dead(conn[c]))
    /\ UNCHANGED <<instance, mutex, conn, req, reply, sends, calls, spawned,
                   dvars, deaths>>

(* Dropping the BufWriter retries the bytes it still holds, ignoring       *)
(* errors: a small frame may yet be completed, a large one is not buffered.*)
FlushOnDrop(c) ==
    LET g == conn[c] IN
    /\ pc[c] = "flush"
    /\ pc' = [pc EXCEPT ![c] = "shutdown"]
    /\ \/ UNCHANGED c2d
       \/ /\ Writable(g)
          /\ c2d' = [c2d EXCEPT ![g] = Append(@, Chunk("body", req[c]))]
    /\ UNCHANGED <<instance, mutex, inner, phase, conn, req, reply, sends,
                   calls, spawned, dpc, dreq, dver, d2c, shut, deaths, faults>>

(* Daemon::drop: half-close, then poll for the exit ...                    *)
Shutdown(c) ==
    /\ pc[c] = "shutdown"
    /\ shut' = [shut EXCEPT ![conn[c]] = "half"]
    /\ pc'   = [pc EXCEPT ![c] = "reap"]
    /\ UNCHANGED <<instance, mutex, inner, phase, conn, req, reply, sends,
                   calls, spawned, dpc, dreq, dver, c2d, d2c, deaths, faults>>

(* ... and kill the child when 50 polls have not seen one ...              *)
NeverKill(c) == FALSE /\ pc[c] = "reap"
ForceKill(c) ==
    /\ pc[c] = "reap" /\ ~ Dead(conn[c])
    /\ dpc' = [dpc EXCEPT ![conn[c]] = "exited"]
    /\ UNCHANGED <<cvars, spawned, dreq, dver, c2d, d2c, shut, deaths, faults>>

(* ... until try_wait or wait has reaped it and the socket is closed.      *)
(* After the first attempt round_trip goes on to respawn, otherwise the    *)
(* error is returned or the drop is complete.                              *)
Reap(c) ==
    LET g == conn[c] IN
    /\ pc[c] = "reap" /\ dpc[g] = "exited"
    /\ dpc'  = [dpc EXCEPT ![g] = "reaped"]
    /\ shut' = [shut EXCEPT ![g] = "closed"]
    /\ c2d'  = [c2d EXCEPT ![g] = <<>>]
    /\ d2c'  = [d2c EXCEPT ![g] = <<>>]
    /\ dreq' = [dreq EXCEPT ![g] = None]
    /\ IF phase[c] = "first"
         THEN /\ pc'    = [pc EXCEPT ![c] = "spawn"]
              /\ phase' = [phase EXCEPT ![c] = "fresh"]
              /\ conn'  = [conn EXCEPT ![c] = NoGen]
              /\ UNCHANGED <<instance, mutex, reply>>
         ELSE /\ Return(c, IF phase[c] = "drop" THEN reply[c] ELSE Failed)
              /\ instance' = IF phase[c] = "giveup" THEN "live" ELSE "absent"
              /\ UNCHANGED phase
    /\ UNCHANGED <<inner, req, sends, calls, spawned, dver, deaths, faults>>

ThreadStep(c) ==
    \/ Lock(c) \/ SpawnDaemon(c) \/ SpawnFails(c)
    \/ Connected(c) \/ HandshakeFails(c)
    \/ Oversize(c) \/ SendHead(c) \/ SendBody(c) \/ RecvHead(c) \/ RecvBody(c)
    \/ TransportError(c) \/ FlushOnDrop(c) \/ Shutdown(c) \/ ForceKill(c)
    \/ Reap(c)

-----------------------------------------------------------------------------
(* Steps of daemon g: main() and serve().                                  *)

DaemonOnly == UNCHANGED <<cvars, spawned, dver, shut, deaths>>

Exit(g) == dpc' = [dpc EXCEPT ![g] = "exited"]

(* main() takes the inherited socket and initialises gas.                  *)
DaemonInit(g) ==
    /\ dpc[g] = "init"
    /\ dpc' = [dpc EXCEPT ![g] = "hello"]
    /\ UNCHANGED <<dreq, c2d, d2c, faults>> /\ DaemonOnly

(* A write of the daemon fails only once the client's end is closed: the   *)
(* half-close of Daemon::drop does not unblock it.                         *)
DaemonWrite(g, chunk, next) ==
    /\ \/ /\ shut[g] # "closed" /\ Len(d2c[g]) < SockBuf[g]
          /\ d2c' = [d2c EXCEPT ![g] = Append(@, chunk)]
          /\ dpc' = [dpc EXCEPT ![g] = next]
       \/ /\ shut[g] = "closed"
          /\ Exit(g)
          /\ UNCHANGED d2c
    /\ UNCHANGED <<dreq, c2d, faults>> /\ DaemonOnly

DaemonHello(g) == dpc[g] = "hello" /\ DaemonWrite(g, Hello(dver[g]), "read")

(* The client's end is half-closed by Daemon::drop, closed by its death.   *)
OnlyHalfClosed(g) == c2d[g] = <<>> /\ shut[g] = "half"
EndOfFile(g)      == c2d[g] = <<>> /\ shut[g] # "open"

(* read_frame: end of file ends the serve loop, inside a frame too.        *)
DaemonRead(g) ==
    /\ dpc[g] \in {"read", "read_body"}
    /\ \/ /\ c2d[g] # <<>>
          /\ c2d'  = [c2d EXCEPT ![g] = Tail(@)]
          /\ dreq' = [dreq EXCEPT ![g] = Head(c2d[g]).req]
          /\ dpc'  = [dpc EXCEPT ![g] = IF @ = "read" THEN "read_body"
                                                      ELSE "dispatch"]
       \/ /\ EndOfFile(g)
          /\ Exit(g)
          /\ UNCHANGED <<c2d, dreq>>
    /\ UNCHANGED <<d2c, faults>> /\ DaemonOnly

(* parse_request and dispatch: every request that gas survives is          *)
(* answered, a malformed one with ERR_PROTOCOL.                            *)
Dispatch(g) ==
    /\ dpc[g] = "dispatch"
    /\ \/ /\ Kind[dreq[g]] \in {"good", "diag"}
          /\ dpc' = [dpc EXCEPT ![g] = "reply"]
          /\ UNCHANGED faults
       \/ /\ Kind[dreq[g]] = "fatal"
          /\ Exit(g)
          /\ Fault
    /\ UNCHANGED <<dreq, c2d, d2c>> /\ DaemonOnly

ReplyHead(g) == dpc[g] = "reply"
                /\ DaemonWrite(g, Chunk("head", dreq[g]), "reply_body")
ReplyBody(g) == dpc[g] = "reply_body"
                /\ DaemonWrite(g, Chunk("body", dreq[g]), "read")

DaemonStep(g) ==
    DaemonInit(g) \/ DaemonHello(g) \/ DaemonRead(g) \/ Dispatch(g)
    \/ ReplyHead(g) \/ ReplyBody(g)

-----------------------------------------------------------------------------
(* The environment.                                                        *)

(* A daemon is killed from outside (kill -9, the OOM killer), or main()    *)
(* exits because it could not initialise.                                  *)
DaemonDies(g) ==
    /\ deaths < MaxDeaths /\ dpc[g] \notin {"none", "exited", "reaped"}
    /\ deaths' = deaths + 1
    /\ Exit(g)
    /\ Fault
    /\ UNCHANGED <<cvars, spawned, dreq, dver, c2d, d2c, shut>>

(* The client process dies: the kernel closes its end of every socket.     *)
ProcessDies ==
    /\ instance # "dead"
    /\ instance' = "dead" /\ inner' = NoGen /\ mutex' = NoOne
    /\ pc'   = [c \in Callers |-> "idle"]
    /\ conn' = [c \in Callers |-> NoGen]
    /\ shut' = [g \in Gens |-> IF Unreaped(g) THEN "closed" ELSE shut[g]]
    /\ UNCHANGED <<phase, req, reply, sends, calls, spawned, dpc, dreq, dver,
                   c2d, d2c, deaths, faults>>

(* Threads may stop calling; daemons then wait for ever.                   *)
Quiescent == (\A c \in Callers : pc[c] = "idle") /\ UNCHANGED vars

Next ==
    \/ \E c \in Callers : New(c) \/ DropInstance(c) \/ ThreadStep(c)
    \/ \E c \in Callers, r \in Requests : Call(c, r)
    \/ \E g \in Gens : DaemonStep(g) \/ DaemonDies(g)
    \/ ProcessDies
    \/ Quiescent

(* Running threads and processes are scheduled; nobody has to call, to     *)
(* drop, to kill or to die.                                                *)
Fairness ==
    /\ \A c \in Callers : WF_vars(ThreadStep(c))
    /\ \A g \in Gens : WF_vars(DaemonStep(g))

Spec == Init /\ [][Next]_vars /\ Fairness

-----------------------------------------------------------------------------
(* Types.                                                                  *)

ClientPC == {"idle", "lock", "spawn", "hello", "send", "send_body", "recv",
             "recv_body", "flush", "shutdown", "reap"}
DaemonPC == {"none", "init", "hello", "read", "read_body", "dispatch", "reply",
             "reply_body", "exited", "reaped"}

Chunks  == [part : {"head", "body"}, req : Requests]
Hellos  == {Hello(v) : v \in Versions \cup {OurVersion}}
Replies == {Failed, Rejected, Nothing} \cup {Response(r) : r \in Requests}

ClientTypes ==
    /\ instance \in {"absent", "making", "live", "dropping", "dead"}
    /\ mutex \in Callers \cup {NoOne}
    /\ inner \in Gens \cup {NoGen}
    /\ pc    \in [Callers -> ClientPC]
    /\ phase \in [Callers -> {"new", "first", "fresh", "giveup", "drop"}]
    /\ conn  \in [Callers -> Gens \cup {NoGen}]
    /\ req   \in [Callers -> Requests \cup {None}]
    /\ reply \in [Callers -> Replies]
    /\ sends \in [Callers -> Nat]
    /\ calls \in [Callers -> 0..MaxCalls]

DaemonTypes ==
    /\ spawned \in 0..MaxSpawns
    /\ dpc   \in [Gens -> DaemonPC]
    /\ dreq  \in [Gens -> Requests \cup {None}]
    /\ dver  \in [Gens -> Versions \cup {OurVersion}]
    /\ shut  \in [Gens -> {"open", "half", "closed"}]
    /\ deaths \in 0..MaxDeaths
    /\ faults \in 0..2

WireTypes ==
    /\ c2d \in [Gens -> Seq(Chunks)]
    /\ d2c \in [Gens -> Seq(Chunks \cup Hellos)]
    /\ \A g \in Gens : Len(c2d[g]) <= SockBuf[g] /\ Len(d2c[g]) <= SockBuf[g]

(* Type invariant of the client (connection.rs:32-51), its threads, the    *)
(* daemons and their sockets, which hold no more than the kernel buffers.  *)
TypeOK == ClientTypes /\ DaemonTypes /\ WireTypes

-----------------------------------------------------------------------------
(* Safety.                                                                 *)

(* A call never returns the response to another request: late and partial  *)
(* responses die with the stream they are on (connection.rs:33-36).        *)
ResponseMatches ==
    \A c \in Callers : reply[c].kind = "response" => reply[c].req = req[c]

(* At most one daemon of the instance is alive, and while the process      *)
(* lives somebody owns it and will reap it: the mutex's Inner, or a thread *)
(* that connects, retries or tears down (daemon.rs:1-4, 53-65).            *)
OneOwnedDaemon ==
    /\ \A g, h \in Gens : Unreaped(g) /\ Unreaped(h) /\ instance # "dead"
                           => g = h
    /\ \A g \in Gens : Unreaped(g) /\ instance # "dead"
            => \/ inner = g
               \/ \E c \in Callers : mutex = c /\ conn[c] = g

(* A request goes on the wire at most twice, and a second time only after  *)
(* something really went wrong: error statuses are answers, never reasons  *)
(* to retry (connection.rs:116-130).                                       *)
RetryOnlyAfterFault ==
    \A c \in Callers : sends[c] <= 2 /\ (sends[c] = 2 => faults > 0)

(* One fault around the client - a killed daemon, a timeout, a failed      *)
(* spawn, a daemon that cannot start - never makes a method call fail:     *)
(* the respawn hides it (connection.rs:117-121).                           *)
OneFaultIsMasked ==
    faults <= 1 => \A c \in Callers : req[c] # None => reply[c] # Failed

(* No request is ever on the wire to a daemon of another protocol version, *)
(* whichever binary a respawn found (protocol.rs:159-172).                 *)
VersionGate ==
    \A g \in Gens : c2d[g] # <<>> \/ dreq[g] # None => dver[g] = OurVersion

-----------------------------------------------------------------------------
(* Liveness.                                                               *)

(* With the timeout on, every call returns, whatever the daemon does       *)
(* (connection.rs:11-17).                                                  *)
CallsReturn ==
    \A c \in Callers : (pc[c] = "lock") ~> (pc[c] = "idle")

(* Dropping the instance ends in a reaped child, also when the child hangs *)
(* or is blocked writing a response nobody reads (daemon.rs:53-65).        *)
DropReaps ==
    (instance \in {"dropping", "absent"}) ~>
        ((\A g \in Gens : ~ Unreaped(g)) \/ instance = "dead")

(* When the process dies, each of its daemons exits on end of file, unless *)
(* gas itself never comes back (daemon.rs:15-16).                          *)
ExitOnEOF ==
    (instance = "dead") ~>
        \A g \in Gens : \/ dpc[g] \in {"none", "exited", "reaped"}
                        \/ dpc[g] = "dispatch" /\ Kind[dreq[g]] = "hang"

-----------------------------------------------------------------------------
(* What the connection promises its callers: RpcService.                   *)

InCall(c) == pc[c] # "idle" /\ phase[c] \in {"first", "fresh", "giveup"}

Pending == [c \in Callers |-> InCall(c)]
Service == CASE instance = "live" -> "up"
             [] instance = "dead" -> "gone"
             [] OTHER             -> "down"
Answers   == {r \in Requests : Kind[r] \in {"good", "diag"}}
Refusals  == {r \in Requests : Kind[r] \in {"oversize", "overcount"}}

Rpc == INSTANCE RpcService WITH
    Answerable <- Answers, Refusable <- Refusals,
    service <- Service, pending <- Pending, asked <- req, answer <- reply

(* IpcConnection implements RpcService.                                    *)
RpcSpec == Rpc!Spec
=============================================================================
