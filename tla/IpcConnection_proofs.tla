------------------------- MODULE IpcConnection_proofs -------------------------
(***************************************************************************)
(* IInv is inductive for IpcConnection, for every set of threads and       *)
(* requests and every bound, and with it every step of a thread, a daemon  *)
(* or the environment is a step of RpcService or a stutter.                *)
(***************************************************************************)
EXTENDS IpcInvariant, TLAPS

USE DEF Gens, NoGen, cvars, dvars, ClientPC, DaemonPC, Return, Fault, FaultIf,
        Exit, DaemonOnly, LockFree, HoldsChild, Write, DaemonWrite, Writable,
        SendRecvFails, TearDown, RetryOnce, EndOfFile

-----------------------------------------------------------------------------
(* Chunks, and the sequences of at most two chunks that sockets hold.      *)

LEMMA ChunkFacts ==
  /\ \A r \in Requests : /\ Chunk("head", r) \in Chunks
                         /\ Chunk("body", r) \in Chunks
  /\ \A p, r : Chunk(p, r).req = r
  /\ \A ch \in Chunks : ch.req \in Requests
  BY DEF Chunk, Chunks

LEMMA HeadTail ==
  ASSUME NEW S, NEW s \in Seq(S), s # <<>>
  PROVE  Head(s) \in S /\ Tail(s) \in Seq(S) /\ Len(Tail(s)) <= Len(s)
  OBVIOUS

LEMMA Pop ==
  /\ \A x : <<x>> # <<>> /\ Head(<<x>>) = x /\ Tail(<<x>>) = <<>>
  /\ \A x, y : <<x, y>> # <<>> /\ Head(<<x, y>>) = x /\ Tail(<<x, y>>) = <<y>>
  OBVIOUS

LEMMA PushOne == ASSUME NEW S, NEW x \in S PROVE Append(<<>>, x) = <<x>>
  OBVIOUS

LEMMA PushTwo ==
  ASSUME NEW S, NEW x \in S, NEW y \in S
  PROVE  Append(<<x>>, y) = <<x, y>>
  <1> DEFINE s == Append(<<x>>, y)
  <1>1. <<x>> \in Seq(S) /\ Len(<<x>>) = 1 /\ <<x>>[1] = x
    OBVIOUS
  <1>2. s \in Seq(S) /\ Len(s) = 2 /\ s[1] = x /\ s[2] = y
    BY <1>1
  <1>3. <<x, y>> \in Seq(S) /\ Len(<<x, y>>) = 2
    OBVIOUS
  <1> HIDE DEF s
  <1>4. s = <<x, y>>
    BY <1>2, <1>3
  <1> QED BY <1>4 DEF s

(* What sending a frame chunk by chunk puts on an empty socket.            *)
LEMMA Push ==
  ASSUME NEW r \in Requests
  PROVE  /\ Append(<<>>, Chunk("head", r)) = <<Chunk("head", r)>>
         /\ Append(<<>>, Chunk("body", r)) = <<Chunk("body", r)>>
         /\ Append(<<Chunk("head", r)>>, Chunk("body", r))
              = <<Chunk("head", r), Chunk("body", r)>>
  BY ChunkFacts, PushOne, PushTwo

LEMMA PushHello == \A v : Append(<<>>, Hello(v)) = <<Hello(v)>>
  <1> TAKE v
  <1>1. Hello(v) \in {Hello(v)}
    OBVIOUS
  <1> QED BY <1>1, PushOne

-----------------------------------------------------------------------------
LEMMA InitIInv == Init => IInv
  <1> SUFFICES ASSUME Init PROVE IInv
    OBVIOUS
  <1>1. TypeOK
    <2>1. WireTypes
      BY BufferAssumption DEF Init, WireTypes
    <2>2. ClientTypes /\ DaemonTypes
      BY BoundsAssumption DEF Init, ClientTypes, DaemonTypes, Replies, Nothing
    <2> QED BY <2>1, <2>2 DEF TypeOK
  <1>2. Exclusive
    BY NoneAssumption DEF Init, Exclusive, Busy, InCall, Linked, Talking, Closing
  <1>3. Ownership
    BY BoundsAssumption
    DEF Init, Ownership, Unreaped, Busy, Linked, Talking, Closing, Alive
  <1>4. InStep
    BY DEF Init, InStep, Agreed
  <1>8. Blank
    BY DEF Init, Blank, Unreaped
  <1>5. SameVersion
    BY DEF Init, SameVersion, VersionGate, Talking
  <1>6. Results
    BY DEF Init, Results, Nothing
  <1>7. Bookkeeping
    BY NoneAssumption
    DEF Init, Bookkeeping, Books, AtRest, Busy, Linked, Talking, Closing
  <1> QED BY <1>1, <1>2, <1>3, <1>4, <1>5, <1>6, <1>7, <1>8 DEF IInv

(* The body a thread completes its response with answers its own request.  *)
LEMMA OwnResponse ==
  ASSUME IInv, NEW c \in Callers, RecvBody(c)
  PROVE  /\ conn[c] \in Gens /\ req[c] \in Requests /\ Served(req[c])
         /\ d2c[conn[c]] = <<Chunk("body", req[c])>>
         /\ Head(d2c[conn[c]]).req = req[c]
         /\ dpc[conn[c]] = "exited"
            \/ (dpc[conn[c]] = "read" /\ c2d[conn[c]] = <<>>)
  <1>1. pc[c] = "recv_body" /\ d2c[conn[c]] # <<>>
    BY DEF RecvBody
  <1>2. conn[c] \in Gens
    BY <1>1 DEF IInv, TypeOK, ClientTypes, Ownership, Linked
  <1>3. req[c] \in Requests
    BY <1>1 DEF IInv, Exclusive, InCall, Talking
  <1>4. HalfAnswered(conn[c], req[c])
    BY <1>1 DEF IInv, InStep, Agreed
  <1> QED BY <1>1, <1>2, <1>3, <1>4, Pop, ChunkFacts DEF HalfAnswered

LEMMA LinkedGen ==
  ASSUME IInv, NEW c \in Callers, pc[c] \in Linked
  PROVE  conn[c] \in Gens
  BY DEF IInv, TypeOK, ClientTypes, Ownership

(* One thread at a time is past the lock.                                  *)
LEMMA Alone ==
  ASSUME IInv, NEW c \in Callers, Busy(c)
  PROVE  /\ mutex = c /\ instance \notin {"dead", "absent"}
         /\ \A d \in Callers : d # c => pc[d] \in {"idle", "lock"}
  BY DEF IInv, TypeOK, ClientTypes, Exclusive, Busy

(* A thread about to spawn has no daemon, and nobody else has one.         *)
LEMMA NothingOwned ==
  ASSUME IInv, NEW c \in Callers, pc[c] = "spawn"
  PROVE  \A g \in Gens : ~ Unreaped(g)
  <1>1. inner = NoGen /\ conn[c] = NoGen
    BY DEF IInv, Ownership, Linked
  <1>2. mutex = c /\ Alive
    BY Alone DEF Busy, Alive
  <1>3. NoGen \notin Gens
    OBVIOUS
  <1> QED BY <1>1, <1>2, <1>3 DEF IInv, Ownership

LEMMA CallRequest ==
  ASSUME IInv, NEW c \in Callers, pc[c] \in Talking \cup {"flush"}
  PROVE  req[c] \in Requests
  BY DEF IInv, Exclusive, InCall, Talking, Closing

LEMMA ServingRequest ==
  ASSUME IInv, NEW g \in Gens,
         dpc[g] \in {"read_body", "dispatch", "reply", "reply_body"}
  PROVE  dreq[g] \in Requests
  BY DEF IInv, Blank

-----------------------------------------------------------------------------
(* What each kind of step does to the types of the wire.                   *)

LEMMA WirePushRequest ==
  ASSUME WireTypes, NEW g \in Gens, NEW x \in Chunks, Len(c2d[g]) < SockBuf[g],
         c2d' = [c2d EXCEPT ![g] = Append(@, x)], UNCHANGED d2c
  PROVE  WireTypes'
  <1>1. c2d[g] \in Seq(Chunks) /\ Len(c2d[g]) \in Nat
    BY DEF WireTypes
  <1>2. Append(c2d[g], x) \in Seq(Chunks) /\ Len(Append(c2d[g], x)) <= SockBuf[g]
    BY <1>1, BufferAssumption
  <1> QED BY <1>2 DEF WireTypes

LEMMA WirePushReply ==
  ASSUME WireTypes, NEW g \in Gens, NEW x \in Chunks \cup Hellos,
         Len(d2c[g]) < SockBuf[g],
         d2c' = [d2c EXCEPT ![g] = Append(@, x)], UNCHANGED c2d
  PROVE  WireTypes'
  <1>1. d2c[g] \in Seq(Chunks \cup Hellos) /\ Len(d2c[g]) \in Nat
    BY DEF WireTypes
  <1>2. /\ Append(d2c[g], x) \in Seq(Chunks \cup Hellos)
        /\ Len(Append(d2c[g], x)) <= SockBuf[g]
    BY <1>1, BufferAssumption
  <1> QED BY <1>2 DEF WireTypes

LEMMA WirePopRequest ==
  ASSUME WireTypes, NEW g \in Gens, c2d[g] # <<>>,
         c2d' = [c2d EXCEPT ![g] = Tail(@)], UNCHANGED d2c
  PROVE  WireTypes' /\ Head(c2d[g]) \in Chunks
  <1>1. c2d[g] \in Seq(Chunks) /\ Len(c2d[g]) <= SockBuf[g]
    BY DEF WireTypes
  <1>2. /\ Head(c2d[g]) \in Chunks /\ Tail(c2d[g]) \in Seq(Chunks)
        /\ Len(Tail(c2d[g])) <= SockBuf[g]
    BY <1>1, BufferAssumption
  <1> QED BY <1>2 DEF WireTypes

LEMMA WirePopReply ==
  ASSUME WireTypes, NEW g \in Gens, d2c[g] # <<>>,
         d2c' = [d2c EXCEPT ![g] = Tail(@)], UNCHANGED c2d
  PROVE  WireTypes'
  <1>1. d2c[g] \in Seq(Chunks \cup Hellos) /\ Len(d2c[g]) <= SockBuf[g]
    BY DEF WireTypes
  <1>2. /\ Tail(d2c[g]) \in Seq(Chunks \cup Hellos)
        /\ Len(Tail(d2c[g])) <= SockBuf[g]
    BY <1>1, BufferAssumption
  <1> QED BY <1>2 DEF WireTypes

LEMMA WireClear ==
  ASSUME WireTypes, NEW g \in Gens,
         c2d' = [c2d EXCEPT ![g] = <<>>], d2c' = [d2c EXCEPT ![g] = <<>>]
  PROVE  WireTypes'
  <1>1. <<>> \in Seq(Chunks) /\ <<>> \in Seq(Chunks \cup Hellos) /\ Len(<<>>) = 0
    OBVIOUS
  <1> QED BY <1>1, BufferAssumption DEF WireTypes

LEMMA WireKept == WireTypes /\ UNCHANGED <<c2d, d2c>> => WireTypes'
  BY DEF WireTypes

-----------------------------------------------------------------------------
(* Types.  Reading extra facts about the wire where a type depends on them. *)

LEMMA ClientTypeStep == IInv /\ [Next]_vars => ClientTypes'
  <1> SUFFICES ASSUME IInv, [Next]_vars PROVE ClientTypes'
    OBVIOUS
  <1> USE BoundsAssumption DEF ClientTypes
  <1>1. ASSUME NEW c \in Callers, New(c) PROVE ClientTypes'
    BY <1>1 DEF New, IInv, TypeOK, Replies
  <1>2. ASSUME NEW c \in Callers, NEW r \in Requests, Call(c, r) PROVE ClientTypes'
    BY <1>2 DEF Call, IInv, TypeOK, Replies
  <1>3. ASSUME NEW c \in Callers, DropInstance(c) PROVE ClientTypes'
    BY <1>3 DEF DropInstance, IInv, TypeOK
  <1>4. ASSUME NEW c \in Callers, Lock(c) PROVE ClientTypes'
    BY <1>4 DEF Lock, IInv, TypeOK
  <1>5. ASSUME NEW c \in Callers, SpawnDaemon(c) PROVE ClientTypes'
    BY <1>5 DEF SpawnDaemon, IInv, TypeOK, DaemonTypes
  <1>6. ASSUME NEW c \in Callers, SpawnFails(c) PROVE ClientTypes'
    BY <1>6 DEF SpawnFails, IInv, TypeOK, Replies
  <1>7. ASSUME NEW c \in Callers, Connected(c) PROVE ClientTypes'
    BY <1>7 DEF Connected, IInv, TypeOK, Replies
  <1>8. ASSUME NEW c \in Callers, HandshakeFails(c) PROVE ClientTypes'
    BY <1>8 DEF HandshakeFails, IInv, TypeOK
  <1>9. ASSUME NEW c \in Callers, Oversize(c) PROVE ClientTypes'
    BY <1>9 DEF Oversize, IInv, TypeOK, Replies
  <1>10. ASSUME NEW c \in Callers, SendHead(c) PROVE ClientTypes'
    BY <1>10 DEF SendHead, IInv, TypeOK
  <1>11. ASSUME NEW c \in Callers, SendBody(c) PROVE ClientTypes'
    BY <1>11 DEF SendBody, IInv, TypeOK
  <1>12. ASSUME NEW c \in Callers, RecvHead(c) PROVE ClientTypes'
    BY <1>12 DEF RecvHead, IInv, TypeOK
  <1>13. ASSUME NEW c \in Callers, RecvBody(c) PROVE ClientTypes'
    BY <1>13, OwnResponse DEF RecvBody, IInv, TypeOK, Replies
  <1>14. ASSUME NEW c \in Callers, TransportError(c) PROVE ClientTypes'
    BY <1>14 DEF TransportError, IInv, TypeOK
  <1>15. ASSUME NEW c \in Callers, FlushOnDrop(c) PROVE ClientTypes'
    BY <1>15 DEF FlushOnDrop, IInv, TypeOK
  <1>16. ASSUME NEW c \in Callers, Shutdown(c) PROVE ClientTypes'
    BY <1>16 DEF Shutdown, IInv, TypeOK
  <1>17. ASSUME NEW c \in Callers, ForceKill(c) PROVE ClientTypes'
    BY <1>17 DEF ForceKill, IInv, TypeOK
  <1>18. ASSUME NEW c \in Callers, Reap(c) PROVE ClientTypes'
    BY <1>18, ZenonT(60) DEF Reap, IInv, TypeOK, Replies
  <1>19. ASSUME NEW g \in Gens, DaemonInit(g) PROVE ClientTypes'
    BY <1>19 DEF DaemonInit, IInv, TypeOK
  <1>20. ASSUME NEW g \in Gens, DaemonHello(g) PROVE ClientTypes'
    BY <1>20 DEF DaemonHello, IInv, TypeOK
  <1>21. ASSUME NEW g \in Gens, DaemonRead(g) PROVE ClientTypes'
    BY <1>21 DEF DaemonRead, IInv, TypeOK
  <1>22. ASSUME NEW g \in Gens, Dispatch(g) PROVE ClientTypes'
    BY <1>22 DEF Dispatch, IInv, TypeOK
  <1>23. ASSUME NEW g \in Gens, ReplyHead(g) PROVE ClientTypes'
    BY <1>23 DEF ReplyHead, IInv, TypeOK
  <1>24. ASSUME NEW g \in Gens, ReplyBody(g) PROVE ClientTypes'
    BY <1>24 DEF ReplyBody, IInv, TypeOK
  <1>25. ASSUME NEW g \in Gens, DaemonDies(g) PROVE ClientTypes'
    BY <1>25 DEF DaemonDies, IInv, TypeOK
  <1>26. CASE ProcessDies
    BY <1>26 DEF ProcessDies, IInv, TypeOK
  <1>27. CASE UNCHANGED vars
    BY <1>27 DEF vars, IInv, TypeOK
  <1> QED
    BY <1>1, <1>2, <1>3, <1>4, <1>5, <1>6, <1>7, <1>8, <1>9, <1>10, <1>11, <1>12, <1>13, <1>14, <1>15, <1>16, <1>17, <1>18, <1>19, <1>20, <1>21, <1>22, <1>23, <1>24, <1>25, <1>26, <1>27
    DEF Next, ThreadStep, DaemonStep, Quiescent

LEMMA DaemonTypeStep == IInv /\ [Next]_vars => DaemonTypes'
  <1> SUFFICES ASSUME IInv, [Next]_vars PROVE DaemonTypes'
    OBVIOUS
  <1> USE BoundsAssumption DEF DaemonTypes
  <1>1. ASSUME NEW c \in Callers, New(c) PROVE DaemonTypes'
    BY <1>1 DEF New, IInv, TypeOK
  <1>2. ASSUME NEW c \in Callers, NEW r \in Requests, Call(c, r) PROVE DaemonTypes'
    BY <1>2 DEF Call, IInv, TypeOK
  <1>3. ASSUME NEW c \in Callers, DropInstance(c) PROVE DaemonTypes'
    BY <1>3 DEF DropInstance, IInv, TypeOK
  <1>4. ASSUME NEW c \in Callers, Lock(c) PROVE DaemonTypes'
    BY <1>4 DEF Lock, IInv, TypeOK
  <1>5. ASSUME NEW c \in Callers, SpawnDaemon(c) PROVE DaemonTypes'
    BY <1>5 DEF SpawnDaemon, IInv, TypeOK
  <1>6. ASSUME NEW c \in Callers, SpawnFails(c) PROVE DaemonTypes'
    BY <1>6 DEF SpawnFails, IInv, TypeOK
  <1>7. ASSUME NEW c \in Callers, Connected(c) PROVE DaemonTypes'
    BY <1>7 DEF Connected, IInv, TypeOK
  <1>8. ASSUME NEW c \in Callers, HandshakeFails(c) PROVE DaemonTypes'
    BY <1>8 DEF HandshakeFails, IInv, TypeOK
  <1>9. ASSUME NEW c \in Callers, Oversize(c) PROVE DaemonTypes'
    BY <1>9 DEF Oversize, IInv, TypeOK
  <1>10. ASSUME NEW c \in Callers, SendHead(c) PROVE DaemonTypes'
    BY <1>10 DEF SendHead, IInv, TypeOK
  <1>11. ASSUME NEW c \in Callers, SendBody(c) PROVE DaemonTypes'
    BY <1>11 DEF SendBody, IInv, TypeOK
  <1>12. ASSUME NEW c \in Callers, RecvHead(c) PROVE DaemonTypes'
    BY <1>12 DEF RecvHead, IInv, TypeOK
  <1>13. ASSUME NEW c \in Callers, RecvBody(c) PROVE DaemonTypes'
    BY <1>13 DEF RecvBody, IInv, TypeOK
  <1>14. ASSUME NEW c \in Callers, TransportError(c) PROVE DaemonTypes'
    BY <1>14 DEF TransportError, IInv, TypeOK
  <1>15. ASSUME NEW c \in Callers, FlushOnDrop(c) PROVE DaemonTypes'
    BY <1>15 DEF FlushOnDrop, IInv, TypeOK
  <1>16. ASSUME NEW c \in Callers, Shutdown(c) PROVE DaemonTypes'
    BY <1>16 DEF Shutdown, IInv, TypeOK
  <1>17. ASSUME NEW c \in Callers, ForceKill(c) PROVE DaemonTypes'
    BY <1>17 DEF ForceKill, IInv, TypeOK
  <1>18. ASSUME NEW c \in Callers, Reap(c) PROVE DaemonTypes'
    BY <1>18 DEF Reap, IInv, TypeOK
  <1>19. ASSUME NEW g \in Gens, DaemonInit(g) PROVE DaemonTypes'
    BY <1>19 DEF DaemonInit, IInv, TypeOK
  <1>20. ASSUME NEW g \in Gens, DaemonHello(g) PROVE DaemonTypes'
    BY <1>20 DEF DaemonHello, IInv, TypeOK
  <1>21. ASSUME NEW g \in Gens, DaemonRead(g) PROVE DaemonTypes'
    <2>1. c2d[g] # <<>> => Head(c2d[g]).req \in Requests
      <3>1. c2d[g] \in Seq(Chunks)
        BY DEF IInv, TypeOK, WireTypes
      <3> QED BY <3>1, HeadTail, ChunkFacts
    <2> QED BY <1>21, <2>1 DEF DaemonRead, IInv, TypeOK
  <1>22. ASSUME NEW g \in Gens, Dispatch(g) PROVE DaemonTypes'
    BY <1>22 DEF Dispatch, IInv, TypeOK
  <1>23. ASSUME NEW g \in Gens, ReplyHead(g) PROVE DaemonTypes'
    BY <1>23 DEF ReplyHead, IInv, TypeOK
  <1>24. ASSUME NEW g \in Gens, ReplyBody(g) PROVE DaemonTypes'
    BY <1>24 DEF ReplyBody, IInv, TypeOK
  <1>25. ASSUME NEW g \in Gens, DaemonDies(g) PROVE DaemonTypes'
    BY <1>25 DEF DaemonDies, IInv, TypeOK
  <1>26. CASE ProcessDies
    BY <1>26 DEF ProcessDies, IInv, TypeOK
  <1>27. CASE UNCHANGED vars
    BY <1>27 DEF vars, IInv, TypeOK
  <1> QED
    BY <1>1, <1>2, <1>3, <1>4, <1>5, <1>6, <1>7, <1>8, <1>9, <1>10, <1>11, <1>12, <1>13, <1>14, <1>15, <1>16, <1>17, <1>18, <1>19, <1>20, <1>21, <1>22, <1>23, <1>24, <1>25, <1>26, <1>27
    DEF Next, ThreadStep, DaemonStep, Quiescent

LEMMA WireTypeStep == IInv /\ [Next]_vars => WireTypes'
  <1> SUFFICES ASSUME IInv, [Next]_vars PROVE WireTypes'
    OBVIOUS
  <1>1. ASSUME NEW c \in Callers, New(c) PROVE WireTypes'
    BY <1>1, WireKept DEF New, IInv, TypeOK
  <1>2. ASSUME NEW c \in Callers, NEW r \in Requests, Call(c, r) PROVE WireTypes'
    BY <1>2, WireKept DEF Call, IInv, TypeOK
  <1>3. ASSUME NEW c \in Callers, DropInstance(c) PROVE WireTypes'
    BY <1>3, WireKept DEF DropInstance, IInv, TypeOK
  <1>4. ASSUME NEW c \in Callers, Lock(c) PROVE WireTypes'
    BY <1>4, WireKept DEF Lock, IInv, TypeOK
  <1>5. ASSUME NEW c \in Callers, SpawnDaemon(c) PROVE WireTypes'
    BY <1>5, WireKept DEF SpawnDaemon, IInv, TypeOK
  <1>6. ASSUME NEW c \in Callers, SpawnFails(c) PROVE WireTypes'
    BY <1>6, WireKept DEF SpawnFails, IInv, TypeOK
  <1>7. ASSUME NEW c \in Callers, Connected(c) PROVE WireTypes'
    BY <1>7, LinkedGen, WirePopReply DEF Connected, IInv, TypeOK, Linked
  <1>8. ASSUME NEW c \in Callers, HandshakeFails(c) PROVE WireTypes'
    BY <1>8, WireKept DEF HandshakeFails, IInv, TypeOK
  <1>9. ASSUME NEW c \in Callers, Oversize(c) PROVE WireTypes'
    BY <1>9, WireKept DEF Oversize, IInv, TypeOK
  <1>10. ASSUME NEW c \in Callers, SendHead(c) PROVE WireTypes'
    BY <1>10, LinkedGen, CallRequest, ChunkFacts, WirePushRequest DEF SendHead, IInv, TypeOK, Linked, Talking
  <1>11. ASSUME NEW c \in Callers, SendBody(c) PROVE WireTypes'
    BY <1>11, LinkedGen, CallRequest, ChunkFacts, WirePushRequest DEF SendBody, IInv, TypeOK, Linked, Talking
  <1>12. ASSUME NEW c \in Callers, RecvHead(c) PROVE WireTypes'
    BY <1>12, LinkedGen, WirePopReply DEF RecvHead, IInv, TypeOK, Linked
  <1>13. ASSUME NEW c \in Callers, RecvBody(c) PROVE WireTypes'
    BY <1>13, LinkedGen, WirePopReply DEF RecvBody, IInv, TypeOK, Linked
  <1>14. ASSUME NEW c \in Callers, TransportError(c) PROVE WireTypes'
    BY <1>14, WireKept DEF TransportError, IInv, TypeOK
  <1>15. ASSUME NEW c \in Callers, FlushOnDrop(c) PROVE WireTypes'
    BY <1>15, LinkedGen, CallRequest, ChunkFacts, WirePushRequest, WireKept DEF FlushOnDrop, IInv, TypeOK, Linked
  <1>16. ASSUME NEW c \in Callers, Shutdown(c) PROVE WireTypes'
    BY <1>16, WireKept DEF Shutdown, IInv, TypeOK
  <1>17. ASSUME NEW c \in Callers, ForceKill(c) PROVE WireTypes'
    BY <1>17, WireKept DEF ForceKill, IInv, TypeOK
  <1>18. ASSUME NEW c \in Callers, Reap(c) PROVE WireTypes'
    BY <1>18, LinkedGen, WireClear DEF Reap, IInv, TypeOK, Linked
  <1>19. ASSUME NEW g \in Gens, DaemonInit(g) PROVE WireTypes'
    BY <1>19, WireKept DEF DaemonInit, IInv, TypeOK
  <1>20. ASSUME NEW g \in Gens, DaemonHello(g) PROVE WireTypes'
    BY <1>20, WirePushReply, WireKept DEF DaemonHello, IInv, TypeOK, Hellos, DaemonTypes
  <1>21. ASSUME NEW g \in Gens, DaemonRead(g) PROVE WireTypes'
    BY <1>21, WirePopRequest, WireKept DEF DaemonRead, IInv, TypeOK
  <1>22. ASSUME NEW g \in Gens, Dispatch(g) PROVE WireTypes'
    BY <1>22, WireKept DEF Dispatch, IInv, TypeOK
  <1>23. ASSUME NEW g \in Gens, ReplyHead(g) PROVE WireTypes'
    BY <1>23, ServingRequest, ChunkFacts, WirePushReply, WireKept DEF ReplyHead, IInv, TypeOK
  <1>24. ASSUME NEW g \in Gens, ReplyBody(g) PROVE WireTypes'
    BY <1>24, ServingRequest, ChunkFacts, WirePushReply, WireKept DEF ReplyBody, IInv, TypeOK
  <1>25. ASSUME NEW g \in Gens, DaemonDies(g) PROVE WireTypes'
    BY <1>25, WireKept DEF DaemonDies, IInv, TypeOK
  <1>26. CASE ProcessDies
    BY <1>26, WireKept DEF ProcessDies, IInv, TypeOK
  <1>27. CASE UNCHANGED vars
    BY <1>27, WireKept DEF vars, IInv, TypeOK
  <1> QED
    BY <1>1, <1>2, <1>3, <1>4, <1>5, <1>6, <1>7, <1>8, <1>9, <1>10, <1>11, <1>12, <1>13, <1>14, <1>15, <1>16, <1>17, <1>18, <1>19, <1>20, <1>21, <1>22, <1>23, <1>24, <1>25, <1>26, <1>27
    DEF Next, ThreadStep, DaemonStep, Quiescent

-----------------------------------------------------------------------------
(* Exclusive access.                                                       *)

LEMMA ExclusiveStep == IInv /\ [Next]_vars => Exclusive'
  <1> SUFFICES ASSUME IInv, [Next]_vars PROVE Exclusive'
    OBVIOUS
  <1> USE NoneAssumption DEF Exclusive, Busy, InCall, Talking, Closing
  <1>1. ASSUME NEW c \in Callers, New(c) PROVE Exclusive'
    BY <1>1 DEF New, IInv, TypeOK, ClientTypes
  <1>2. ASSUME NEW c \in Callers, NEW r \in Requests, Call(c, r) PROVE Exclusive'
    BY <1>2 DEF Call, IInv, TypeOK, ClientTypes
  <1>3. ASSUME NEW c \in Callers, DropInstance(c) PROVE Exclusive'
    BY <1>3 DEF DropInstance, IInv, TypeOK, ClientTypes
  <1>4. ASSUME NEW c \in Callers, Lock(c) PROVE Exclusive'
    BY <1>4 DEF Lock, IInv, TypeOK, ClientTypes
  <1>5. ASSUME NEW c \in Callers, SpawnDaemon(c) PROVE Exclusive'
    BY <1>5 DEF SpawnDaemon, IInv, TypeOK, ClientTypes
  <1>6. ASSUME NEW c \in Callers, SpawnFails(c) PROVE Exclusive'
    BY <1>6 DEF SpawnFails, IInv, TypeOK, ClientTypes
  <1>7. ASSUME NEW c \in Callers, Connected(c) PROVE Exclusive'
    <2>1. mutex = c /\ pc[c] = "hello" /\ UNCHANGED <<req, phase>>
      BY <1>7 DEF Connected, IInv, TypeOK, ClientTypes
    <2>2. CASE phase[c] = "new"
      <3>1. /\ pc' = [pc EXCEPT ![c] = "idle"]
            /\ mutex' = NoOne /\ instance' = "live"
        BY <1>7, <2>2 DEF Connected
      <3> QED BY <2>1, <2>2, <3>1 DEF IInv, TypeOK, ClientTypes
    <2>3. CASE phase[c] # "new"
      <3>1. pc' = [pc EXCEPT ![c] = "send"] /\ UNCHANGED <<instance, mutex>>
        BY <1>7, <2>3 DEF Connected
      <3> QED BY <2>1, <2>3, <3>1 DEF IInv, TypeOK, ClientTypes
    <2> QED BY <2>2, <2>3
  <1>8. ASSUME NEW c \in Callers, HandshakeFails(c) PROVE Exclusive'
    BY <1>8 DEF HandshakeFails, IInv, TypeOK, ClientTypes
  <1>9. ASSUME NEW c \in Callers, Oversize(c) PROVE Exclusive'
    BY <1>9 DEF Oversize, IInv, TypeOK, ClientTypes
  <1>10. ASSUME NEW c \in Callers, SendHead(c) PROVE Exclusive'
    BY <1>10 DEF SendHead, IInv, TypeOK, ClientTypes
  <1>11. ASSUME NEW c \in Callers, SendBody(c) PROVE Exclusive'
    BY <1>11 DEF SendBody, IInv, TypeOK, ClientTypes
  <1>12. ASSUME NEW c \in Callers, RecvHead(c) PROVE Exclusive'
    BY <1>12 DEF RecvHead, IInv, TypeOK, ClientTypes
  <1>13. ASSUME NEW c \in Callers, RecvBody(c) PROVE Exclusive'
    BY <1>13, ZenonT(60) DEF RecvBody, IInv, TypeOK, ClientTypes
  <1>14. ASSUME NEW c \in Callers, TransportError(c) PROVE Exclusive'
    BY <1>14 DEF TransportError, IInv, TypeOK, ClientTypes
  <1>15. ASSUME NEW c \in Callers, FlushOnDrop(c) PROVE Exclusive'
    BY <1>15 DEF FlushOnDrop, IInv, TypeOK, ClientTypes
  <1>16. ASSUME NEW c \in Callers, Shutdown(c) PROVE Exclusive'
    BY <1>16 DEF Shutdown, IInv, TypeOK, ClientTypes
  <1>17. ASSUME NEW c \in Callers, ForceKill(c) PROVE Exclusive'
    BY <1>17 DEF ForceKill, IInv, TypeOK, ClientTypes
  <1>18. ASSUME NEW c \in Callers, Reap(c) PROVE Exclusive'
    <2>1. /\ mutex = c /\ pc[c] = "reap" /\ UNCHANGED <<inner, req>>
          /\ phase[c] \in {"first", "giveup", "new", "drop"}
          /\ instance # "dead" /\ (phase[c] = "giveup" => instance = "live")
          /\ \A d \in Callers : d # c => pc[d] \in {"idle", "lock"}
      BY <1>18 DEF Reap, IInv, TypeOK, ClientTypes
    <2>2. CASE phase[c] = "first"
      <3>1. /\ pc' = [pc EXCEPT ![c] = "spawn"]
            /\ phase' = [phase EXCEPT ![c] = "fresh"]
            /\ UNCHANGED <<instance, mutex>>
        BY <1>18, <2>2 DEF Reap
      <3> QED BY <2>1, <2>2, <3>1 DEF IInv, TypeOK, ClientTypes
    <2>3. CASE phase[c] = "giveup"
      <3>1. /\ pc' = [pc EXCEPT ![c] = "idle"]
            /\ mutex' = NoOne
            /\ UNCHANGED <<instance, phase>>
        BY <1>18, <2>1, <2>3 DEF Reap
      <3> QED BY <2>1, <2>3, <3>1 DEF IInv, TypeOK, ClientTypes
    <2>4. CASE phase[c] \in {"new", "drop"}
      <3>1. \A d \in Callers : pc[d] # "lock"
        BY <2>1, <2>4 DEF IInv, TypeOK, ClientTypes
      <3>2. /\ pc' = [pc EXCEPT ![c] = "idle"]
            /\ mutex' = NoOne /\ instance' = "absent"
            /\ UNCHANGED phase
        BY <1>18, <2>1, <2>4 DEF Reap
      <3> QED BY <2>1, <2>4, <3>1, <3>2 DEF IInv, TypeOK, ClientTypes
    <2> QED BY <2>1, <2>2, <2>3, <2>4
  <1>19. ASSUME NEW g \in Gens, DaemonInit(g) PROVE Exclusive'
    BY <1>19 DEF DaemonInit, IInv, TypeOK, ClientTypes
  <1>20. ASSUME NEW g \in Gens, DaemonHello(g) PROVE Exclusive'
    BY <1>20 DEF DaemonHello, IInv, TypeOK, ClientTypes
  <1>21. ASSUME NEW g \in Gens, DaemonRead(g) PROVE Exclusive'
    BY <1>21 DEF DaemonRead, IInv, TypeOK, ClientTypes
  <1>22. ASSUME NEW g \in Gens, Dispatch(g) PROVE Exclusive'
    BY <1>22 DEF Dispatch, IInv, TypeOK, ClientTypes
  <1>23. ASSUME NEW g \in Gens, ReplyHead(g) PROVE Exclusive'
    BY <1>23 DEF ReplyHead, IInv, TypeOK, ClientTypes
  <1>24. ASSUME NEW g \in Gens, ReplyBody(g) PROVE Exclusive'
    BY <1>24 DEF ReplyBody, IInv, TypeOK, ClientTypes
  <1>25. ASSUME NEW g \in Gens, DaemonDies(g) PROVE Exclusive'
    BY <1>25 DEF DaemonDies, IInv, TypeOK, ClientTypes
  <1>26. CASE ProcessDies
    BY <1>26 DEF ProcessDies, IInv, TypeOK, ClientTypes
  <1>27. CASE UNCHANGED vars
    BY <1>27 DEF vars, IInv, TypeOK, ClientTypes
  <1> QED
    BY <1>1, <1>2, <1>3, <1>4, <1>5, <1>6, <1>7, <1>8, <1>9, <1>10, <1>11, <1>12, <1>13, <1>14, <1>15, <1>16, <1>17, <1>18, <1>19, <1>20, <1>21, <1>22, <1>23, <1>24, <1>25, <1>26, <1>27
    DEF Next, ThreadStep, DaemonStep, Quiescent

LEMMA OwnersOfRunning ==
  ASSUME IInv, UNCHANGED <<cvars, spawned>>, NEW g \in Gens, NEW x,
         x \notin {"none", "reaped"}, Unreaped(g), dpc' = [dpc EXCEPT ![g] = x]
  PROVE  Ownership'
  <1>1. \A h \in Gens : (dpc'[h] = "none" <=> dpc[h] = "none") /\ (Unreaped(h)' <=> Unreaped(h))
    BY DEF Unreaped, IInv, TypeOK, DaemonTypes
  <1>2. inner \in Gens \cup {NoGen} /\ \A c \in Callers : conn[c] \in Gens \cup {NoGen}
    BY DEF IInv, TypeOK, ClientTypes
  <1> QED BY <1>1, <1>2 DEF IInv, Ownership, cvars, Alive, Unreaped

LEMMA OwnershipStep == IInv /\ [Next]_vars => Ownership'
  <1> SUFFICES ASSUME IInv, [Next]_vars PROVE Ownership'
    OBVIOUS
  <1> USE NoneAssumption, BoundsAssumption DEF Ownership, Busy, Unreaped, Alive, Linked, Talking, Closing
  <1>1. ASSUME NEW c \in Callers, New(c) PROVE Ownership'
    BY <1>1 DEF New, IInv, TypeOK, ClientTypes, DaemonTypes, Exclusive
  <1>2. ASSUME NEW c \in Callers, NEW r \in Requests, Call(c, r) PROVE Ownership'
    BY <1>2 DEF Call, IInv, TypeOK, ClientTypes, DaemonTypes, Exclusive
  <1>3. ASSUME NEW c \in Callers, DropInstance(c) PROVE Ownership'
    BY <1>3 DEF DropInstance, IInv, TypeOK, ClientTypes, DaemonTypes, Exclusive
  <1>4. ASSUME NEW c \in Callers, Lock(c) PROVE Ownership'
    BY <1>4 DEF Lock, IInv, TypeOK, ClientTypes, DaemonTypes, Exclusive
  <1>5. ASSUME NEW c \in Callers, SpawnDaemon(c) PROVE Ownership'
    <2>0. \A g \in Gens : ~ Unreaped(g)
      BY <1>5, NothingOwned DEF SpawnDaemon
    <2>1. \A g \in Gens : dpc'[g] = "none" <=> g > spawned'
      <3>1. /\ spawned \in 0..MaxSpawns /\ spawned < MaxSpawns
            /\ spawned' = spawned + 1
            /\ dpc \in [Gens -> DaemonPC]
            /\ dpc' = [dpc EXCEPT ![spawned + 1] = "init"]
        BY <1>5 DEF SpawnDaemon, IInv, TypeOK, DaemonTypes
      <3>2. \A g \in Gens : dpc[g] = "none" <=> g > spawned
        BY DEF IInv
      <3> QED BY <3>1, <3>2
    <2>2. inner' # NoGen => instance' = "live" /\ Unreaped(inner)'
      BY <1>5 DEF SpawnDaemon, IInv, TypeOK, ClientTypes, DaemonTypes, Exclusive
    <2>3. \A d \in Callers :
            /\ pc'[d] \notin Linked => conn'[d] = NoGen
            /\ pc'[d] \in Linked    => conn'[d] # NoGen /\ Unreaped(conn[d])'
            /\ pc'[d] \in {"spawn", "hello"} \cup Closing => inner' = NoGen
            /\ pc'[d] \in Talking   => inner' = IF phase'[d] = "first" THEN conn'[d]
                                                                    ELSE NoGen
      BY <1>5 DEF SpawnDaemon, IInv, TypeOK, ClientTypes, DaemonTypes, Exclusive
    <2>4. Alive' => \A g \in Gens : Unreaped(g)'
                  => inner' = g \/ \E d \in Callers : mutex' = d /\ conn'[d] = g
      BY <1>5, <2>0 DEF SpawnDaemon, IInv, TypeOK, ClientTypes, DaemonTypes, Exclusive
    <2> QED BY <2>1, <2>2, <2>3, <2>4
  <1>6. ASSUME NEW c \in Callers, SpawnFails(c) PROVE Ownership'
    <2>0. \A g \in Gens : ~ Unreaped(g)
      BY <1>6, NothingOwned DEF SpawnFails
    <2>1. \A g \in Gens : dpc'[g] = "none" <=> g > spawned'
      BY <1>6 DEF SpawnFails, IInv, TypeOK, ClientTypes, DaemonTypes, Exclusive
    <2>2. inner' # NoGen => instance' = "live" /\ Unreaped(inner)'
      BY <1>6 DEF SpawnFails, IInv, TypeOK, ClientTypes, DaemonTypes, Exclusive
    <2>3. \A d \in Callers :
            /\ pc'[d] \notin Linked => conn'[d] = NoGen
            /\ pc'[d] \in Linked    => conn'[d] # NoGen /\ Unreaped(conn[d])'
            /\ pc'[d] \in {"spawn", "hello"} \cup Closing => inner' = NoGen
            /\ pc'[d] \in Talking   => inner' = IF phase'[d] = "first" THEN conn'[d]
                                                                    ELSE NoGen
      BY <1>6 DEF SpawnFails, IInv, TypeOK, ClientTypes, DaemonTypes, Exclusive
    <2>4. Alive' => \A g \in Gens : Unreaped(g)'
                  => inner' = g \/ \E d \in Callers : mutex' = d /\ conn'[d] = g
      BY <1>6, <2>0 DEF SpawnFails, IInv, TypeOK, ClientTypes, DaemonTypes, Exclusive
    <2> QED BY <2>1, <2>2, <2>3, <2>4
  <1>7. ASSUME NEW c \in Callers, Connected(c) PROVE Ownership'
    <2> USE <1>7 DEF Connected, IInv, TypeOK, ClientTypes, DaemonTypes, Exclusive
    <2>1. \A g \in Gens : dpc'[g] = "none" <=> g > spawned'
      OBVIOUS
    <2>2. inner' # NoGen => instance' = "live" /\ Unreaped(inner)'
      OBVIOUS
    <2>3. \A d \in Callers :
            /\ pc'[d] \notin Linked => conn'[d] = NoGen
            /\ pc'[d] \in Linked    => conn'[d] # NoGen /\ Unreaped(conn[d])'
            /\ pc'[d] \in {"spawn", "hello"} \cup Closing => inner' = NoGen
            /\ pc'[d] \in Talking   => inner' = IF phase'[d] = "first" THEN conn'[d]
                                                                    ELSE NoGen
      OBVIOUS
    <2>4. Alive' => \A g \in Gens : Unreaped(g)'
                  => inner' = g \/ \E d \in Callers : mutex' = d /\ conn'[d] = g
      OBVIOUS
    <2> QED BY <2>1, <2>2, <2>3, <2>4
  <1>8. ASSUME NEW c \in Callers, HandshakeFails(c) PROVE Ownership'
    BY <1>8 DEF HandshakeFails, IInv, TypeOK, ClientTypes, DaemonTypes, Exclusive
  <1>9. ASSUME NEW c \in Callers, Oversize(c) PROVE Ownership'
    <2>0. /\ conn[c] = inner /\ \A g \in Gens : Unreaped(g) => g = inner
          /\ UNCHANGED <<inner, dpc>>
      BY <1>9 DEF Oversize, IInv, TypeOK, ClientTypes, DaemonTypes, Exclusive
    <2>1. \A g \in Gens : dpc'[g] = "none" <=> g > spawned'
      BY <1>9 DEF Oversize, IInv, TypeOK, ClientTypes, DaemonTypes, Exclusive
    <2>2. inner' # NoGen => instance' = "live" /\ Unreaped(inner)'
      BY <1>9 DEF Oversize, IInv, TypeOK, ClientTypes, DaemonTypes, Exclusive
    <2>3. \A d \in Callers :
            /\ pc'[d] \notin Linked => conn'[d] = NoGen
            /\ pc'[d] \in Linked    => conn'[d] # NoGen /\ Unreaped(conn[d])'
            /\ pc'[d] \in {"spawn", "hello"} \cup Closing => inner' = NoGen
            /\ pc'[d] \in Talking   => inner' = IF phase'[d] = "first" THEN conn'[d]
                                                                    ELSE NoGen
      BY <1>9 DEF Oversize, IInv, TypeOK, ClientTypes, DaemonTypes, Exclusive
    <2>4. Alive' => \A g \in Gens : Unreaped(g)'
                  => inner' = g \/ \E d \in Callers : mutex' = d /\ conn'[d] = g
      BY <1>9, <2>0 DEF Oversize, IInv, TypeOK, ClientTypes, DaemonTypes, Exclusive
    <2> QED BY <2>1, <2>2, <2>3, <2>4
  <1>10. ASSUME NEW c \in Callers, SendHead(c) PROVE Ownership'
    BY <1>10 DEF SendHead, IInv, TypeOK, ClientTypes, DaemonTypes, Exclusive
  <1>11. ASSUME NEW c \in Callers, SendBody(c) PROVE Ownership'
    BY <1>11 DEF SendBody, IInv, TypeOK, ClientTypes, DaemonTypes, Exclusive
  <1>12. ASSUME NEW c \in Callers, RecvHead(c) PROVE Ownership'
    BY <1>12 DEF RecvHead, IInv, TypeOK, ClientTypes, DaemonTypes, Exclusive
  <1>13. ASSUME NEW c \in Callers, RecvBody(c) PROVE Ownership'
    <2>1. \A g \in Gens : dpc'[g] = "none" <=> g > spawned'
      BY <1>13 DEF RecvBody, IInv, TypeOK, ClientTypes, DaemonTypes, Exclusive
    <2>2. inner' # NoGen => instance' = "live" /\ Unreaped(inner)'
      BY <1>13 DEF RecvBody, IInv, TypeOK, ClientTypes, DaemonTypes, Exclusive
    <2>3. \A d \in Callers :
            /\ pc'[d] \notin Linked => conn'[d] = NoGen
            /\ pc'[d] \in Linked    => conn'[d] # NoGen /\ Unreaped(conn[d])'
            /\ pc'[d] \in {"spawn", "hello"} \cup Closing => inner' = NoGen
            /\ pc'[d] \in Talking   => inner' = IF phase'[d] = "first" THEN conn'[d]
                                                                    ELSE NoGen
      BY <1>13 DEF RecvBody, IInv, TypeOK, ClientTypes, DaemonTypes, Exclusive
    <2>4. Alive' => \A g \in Gens : Unreaped(g)'
                  => inner' = g \/ \E d \in Callers : mutex' = d /\ conn'[d] = g
      BY <1>13 DEF RecvBody, IInv, TypeOK, ClientTypes, DaemonTypes, Exclusive
    <2> QED BY <2>1, <2>2, <2>3, <2>4
  <1>14. ASSUME NEW c \in Callers, TransportError(c) PROVE Ownership'
    <2>0. /\ pc[c] \in Talking /\ mutex = c /\ phase[c] \in {"first", "fresh"}
          /\ \A d \in Callers : d # c => pc[d] \in {"idle", "lock"}
      BY <1>14, Alone DEF TransportError, IInv, Exclusive
    <2>1. \A g \in Gens : dpc'[g] = "none" <=> g > spawned'
      BY <1>14 DEF TransportError, IInv, TypeOK, ClientTypes, DaemonTypes, Exclusive
    <2>2. inner' # NoGen => instance' = "live" /\ Unreaped(inner)'
      BY <1>14 DEF TransportError, IInv, TypeOK, ClientTypes, DaemonTypes, Exclusive
    <2>3. \A d \in Callers :
            /\ pc'[d] \notin Linked => conn'[d] = NoGen
            /\ pc'[d] \in Linked    => conn'[d] # NoGen /\ Unreaped(conn[d])'
            /\ pc'[d] \in {"spawn", "hello"} \cup Closing => inner' = NoGen
            /\ pc'[d] \in Talking   => inner' = IF phase'[d] = "first" THEN conn'[d]
                                                                    ELSE NoGen
      BY <1>14, <2>0 DEF TransportError, IInv, TypeOK, ClientTypes
    <2>4. Alive' => \A g \in Gens : Unreaped(g)'
                  => inner' = g \/ \E d \in Callers : mutex' = d /\ conn'[d] = g
      BY <1>14, <2>0 DEF TransportError, IInv, TypeOK, ClientTypes
    <2> QED BY <2>1, <2>2, <2>3, <2>4
  <1>15. ASSUME NEW c \in Callers, FlushOnDrop(c) PROVE Ownership'
    BY <1>15 DEF FlushOnDrop, IInv, TypeOK, ClientTypes, DaemonTypes, Exclusive
  <1>16. ASSUME NEW c \in Callers, Shutdown(c) PROVE Ownership'
    BY <1>16 DEF Shutdown, IInv, TypeOK, ClientTypes, DaemonTypes, Exclusive
  <1>17. ASSUME NEW c \in Callers, ForceKill(c) PROVE Ownership'
    BY <1>17 DEF ForceKill, IInv, TypeOK, ClientTypes, DaemonTypes, Exclusive
  <1>18. ASSUME NEW c \in Callers, Reap(c) PROVE Ownership'
    <2>1. \A g \in Gens : dpc'[g] = "none" <=> g > spawned'
      BY <1>18 DEF Reap, IInv, TypeOK, ClientTypes, DaemonTypes, Exclusive
    <2>2. inner' # NoGen => instance' = "live" /\ Unreaped(inner)'
      BY <1>18 DEF Reap, IInv, TypeOK, ClientTypes, DaemonTypes, Exclusive
    <2>3. \A d \in Callers :
            /\ pc'[d] \notin Linked => conn'[d] = NoGen
            /\ pc'[d] \in Linked    => conn'[d] # NoGen /\ Unreaped(conn[d])'
            /\ pc'[d] \in {"spawn", "hello"} \cup Closing => inner' = NoGen
            /\ pc'[d] \in Talking   => inner' = IF phase'[d] = "first" THEN conn'[d]
                                                                    ELSE NoGen
      BY <1>18 DEF Reap, IInv, TypeOK, ClientTypes, DaemonTypes, Exclusive
    <2>4. Alive' => \A g \in Gens : Unreaped(g)'
                  => inner' = g \/ \E d \in Callers : mutex' = d /\ conn'[d] = g
      BY <1>18 DEF Reap, IInv, TypeOK, ClientTypes, DaemonTypes, Exclusive
    <2> QED BY <2>1, <2>2, <2>3, <2>4
  <1>19. ASSUME NEW g \in Gens, DaemonInit(g) PROVE Ownership'
    BY <1>19, OwnersOfRunning DEF DaemonInit
  <1>20. ASSUME NEW g \in Gens, DaemonHello(g) PROVE Ownership'
    BY <1>20, OwnersOfRunning DEF DaemonHello
  <1>21. ASSUME NEW g \in Gens, DaemonRead(g) PROVE Ownership'
    BY <1>21, OwnersOfRunning DEF DaemonRead
  <1>22. ASSUME NEW g \in Gens, Dispatch(g) PROVE Ownership'
    BY <1>22, OwnersOfRunning DEF Dispatch
  <1>23. ASSUME NEW g \in Gens, ReplyHead(g) PROVE Ownership'
    BY <1>23, OwnersOfRunning DEF ReplyHead
  <1>24. ASSUME NEW g \in Gens, ReplyBody(g) PROVE Ownership'
    BY <1>24, OwnersOfRunning DEF ReplyBody
  <1>25. ASSUME NEW g \in Gens, DaemonDies(g) PROVE Ownership'
    BY <1>25 DEF DaemonDies, IInv, TypeOK, ClientTypes, DaemonTypes, Exclusive
  <1>26. CASE ProcessDies
    BY <1>26 DEF ProcessDies, IInv, TypeOK, ClientTypes, DaemonTypes, Exclusive
  <1>27. CASE UNCHANGED vars
    BY <1>27 DEF vars, IInv, TypeOK, ClientTypes, DaemonTypes, Exclusive
  <1> QED
    BY <1>1, <1>2, <1>3, <1>4, <1>5, <1>6, <1>7, <1>8, <1>9, <1>10, <1>11, <1>12, <1>13, <1>14, <1>15, <1>16, <1>17, <1>18, <1>19, <1>20, <1>21, <1>22, <1>23, <1>24, <1>25, <1>26, <1>27
    DEF Next, ThreadStep, DaemonStep, Quiescent

-----------------------------------------------------------------------------
(* The conversation on the socket.                                         *)

USE DEF Busy, Unreaped, Linked, Talking, Closing

(* A step of the thread that holds the connection: nobody else talks.      *)
LEMMA ThreadAgrees ==
  ASSUME IInv, NEW c \in Callers, Busy(c),
         \A d \in Callers : d # c => pc'[d] = pc[d],
         Agreed(c)',
         mutex' = NoOne /\ inner' # NoGen => Clean(inner)'
  PROVE  InStep'
  <1>1. ASSUME NEW d \in Callers PROVE Agreed(d)'
    <2>1. CASE d = c
      BY <2>1
    <2>2. CASE d # c
      <3>1. pc'[d] \in {"idle", "lock"}
        BY <2>2, Alone
      <3> QED BY <3>1 DEF Agreed
    <2> QED BY <2>1, <2>2
  <1> QED BY <1>1 DEF InStep

(* A step of daemon g: it matters to the thread at the other end, or to    *)
(* the connection at rest.                                                 *)
LEMMA DaemonAgrees ==
  ASSUME IInv, NEW g \in Gens, UNCHANGED cvars, UNCHANGED dver,
         \A h \in Gens : h # g => /\ c2d'[h] = c2d[h] /\ d2c'[h] = d2c[h]
                                  /\ dpc'[h] = dpc[h] /\ dreq'[h] = dreq[h],
         \A c \in Callers : pc[c] \in Linked /\ conn[c] = g => Agreed(c)',
         mutex = NoOne /\ inner = g => Clean(g)'
  PROVE  InStep'
  <1>1. ASSUME NEW c \in Callers PROVE Agreed(c)'
    <2>1. CASE pc[c] \in Linked /\ conn[c] = g
      BY <2>1
    <2>2. CASE pc[c] \in Linked /\ conn[c] # g
      <3>1. conn[c] \in Gens /\ conn'[c] = conn[c] /\ Agreed(c)
        BY <2>2, LinkedGen DEF IInv, InStep
      <3> QED BY <2>2, <3>1 DEF Agreed, Greeting, Clean, HalfAsked, Asked,
                                HalfAnswered
    <2>3. CASE pc[c] \notin Linked
      BY <2>3 DEF Agreed
    <2> QED BY <2>1, <2>2, <2>3
  <1>2. ASSUME mutex = NoOne, inner # NoGen PROVE Clean(inner)'
    <2>1. inner \in Gens /\ Clean(inner)
      BY <1>2 DEF IInv, InStep, TypeOK, ClientTypes
    <2>2. CASE inner = g
      BY <1>2, <2>2
    <2>3. CASE inner # g
      BY <2>1, <2>3 DEF Clean
    <2> QED BY <2>2, <2>3
  <1> QED BY <1>1, <1>2 DEF InStep

LEMMA InStepStep == IInv /\ [Next]_vars => InStep'
  <1> SUFFICES ASSUME IInv, [Next]_vars PROVE InStep'
    OBVIOUS
  <1> USE NoneAssumption
  <1>1. ASSUME NEW c \in Callers, New(c) PROVE InStep'
    BY <1>1, Alone DEF New, InStep, Agreed, IInv, TypeOK, ClientTypes, Exclusive, Ownership,
       Clean, Greeting, HalfAsked, Asked, HalfAnswered, Served
  <1>2. ASSUME NEW c \in Callers, NEW r \in Requests, Call(c, r) PROVE InStep'
    BY SMTT(30), <1>2, Alone DEF Call, InStep, Agreed, IInv, TypeOK, ClientTypes, Exclusive, Ownership,
       Clean, Greeting, HalfAsked, Asked, HalfAnswered, Served
  <1>3. ASSUME NEW c \in Callers, DropInstance(c) PROVE InStep'
    BY <1>3, Alone DEF DropInstance, InStep, Agreed, IInv, TypeOK, ClientTypes, Exclusive, Ownership,
       Clean, Greeting, HalfAsked, Asked, HalfAnswered, Served
  <1>4. ASSUME NEW c \in Callers, Lock(c) PROVE InStep'
    BY <1>4, Alone DEF Lock, InStep, Agreed, IInv, TypeOK, ClientTypes, Exclusive, Ownership,
       Clean, Greeting, HalfAsked, Asked, HalfAnswered, Served
  <1>5. ASSUME NEW c \in Callers, SpawnDaemon(c) PROVE InStep'
    <2>1. /\ pc[c] = "spawn" /\ pc' = [pc EXCEPT ![c] = "hello"]
          /\ conn' = [conn EXCEPT ![c] = spawned + 1]
          /\ dpc' = [dpc EXCEPT ![spawned + 1] = "init"]
          /\ UNCHANGED <<c2d, d2c, dreq, mutex, inner>> /\ spawned + 1 \in Gens
      BY <1>5, BoundsAssumption DEF SpawnDaemon, IInv, TypeOK, DaemonTypes
    <2>2. mutex = c
      BY <2>1, Alone
    <2>3. conn'[c] = spawned + 1 /\ pc'[c] = "hello" /\ dpc'[spawned + 1] = "init"
      BY <2>1 DEF IInv, TypeOK, ClientTypes, DaemonTypes
    <2>4. c2d[spawned + 1] = <<>> /\ d2c[spawned + 1] = <<>> /\ dreq[spawned + 1] = None
      BY <2>1, NothingOwned DEF IInv, Blank
    <2>5. Agreed(c)'
      BY <2>1, <2>3, <2>4 DEF Agreed, Greeting
    <2> QED BY <2>1, <2>2, <2>3, <2>4, <2>5, <1>5, ThreadAgrees DEF IInv, TypeOK, ClientTypes
  <1>6. ASSUME NEW c \in Callers, SpawnFails(c) PROVE InStep'
    BY <1>6, Alone DEF SpawnFails, InStep, Agreed, IInv, TypeOK, ClientTypes, Exclusive, Ownership,
       Clean, Greeting, HalfAsked, Asked, HalfAnswered, Served
  <1>7. ASSUME NEW c \in Callers, Connected(c) PROVE InStep'
    <2> DEFINE g == conn[c]
    <2>1. g \in Gens /\ pc[c] = "hello" /\ d2c[g] # <<>> /\ mutex = c
      BY <1>7, LinkedGen, Alone DEF Connected
    <2>2. Greeting(g)
      BY <2>1 DEF IInv, InStep, Agreed
    <2>3. /\ d2c' = [d2c EXCEPT ![g] = Tail(@)] /\ UNCHANGED <<c2d, dpc>>
          /\ d2c \in [Gens -> Seq(Chunks \cup Hellos)]
      BY <1>7 DEF Connected, IInv, TypeOK, WireTypes
    <2>4. d2c'[g] = <<>>
      BY <2>1, <2>2, <2>3, Pop DEF Greeting
    <2>5. /\ dpc[g] = "exited" \/ (dpc[g] = "read" /\ c2d[g] = <<>>)
      BY <2>1, <2>2 DEF Greeting
    <2>6. pc \in [Callers -> ClientPC] /\ conn \in [Callers -> Gens \cup {NoGen}]
      BY DEF IInv, TypeOK, ClientTypes
    <2>7. CASE phase[c] = "new"
      <3>1. /\ pc' = [pc EXCEPT ![c] = "idle"] /\ mutex' = NoOne /\ inner' = g
        BY <1>7, <2>7 DEF Connected
      <3>2. Clean(inner)'
        BY <2>3, <2>4, <2>5, <3>1 DEF Clean
      <3>3. Agreed(c)' /\ \A d \in Callers : d # c => pc'[d] = pc[d]
        BY <2>6, <3>1 DEF Agreed
      <3> QED BY <2>1, <3>2, <3>3, ThreadAgrees
    <2>8. CASE phase[c] # "new"
      <3>1. pc' = [pc EXCEPT ![c] = "send"] /\ UNCHANGED <<mutex, conn>>
        BY <1>7, <2>8 DEF Connected
      <3>2. Agreed(c)' /\ \A d \in Callers : d # c => pc'[d] = pc[d]
        BY <2>3, <2>4, <2>5, <2>6, <3>1 DEF Agreed, Clean
      <3> QED BY <2>1, <3>1, <3>2, ThreadAgrees, NoneAssumption
    <2> QED BY <2>7, <2>8
  <1>8. ASSUME NEW c \in Callers, HandshakeFails(c) PROVE InStep'
    BY <1>8, Alone DEF HandshakeFails, InStep, Agreed, IInv, TypeOK, ClientTypes, Exclusive, Ownership,
       Clean, Greeting, HalfAsked, Asked, HalfAnswered, Served
  <1>9. ASSUME NEW c \in Callers, Oversize(c) PROVE InStep'
    BY <1>9, Alone DEF Oversize, InStep, Agreed, IInv, TypeOK, ClientTypes, Exclusive, Ownership,
       Clean, Greeting, HalfAsked, Asked, HalfAnswered, Served
  <1>10. ASSUME NEW c \in Callers, SendHead(c) PROVE InStep'
    <2> DEFINE g == conn[c]
    <2>1. g \in Gens /\ pc[c] = "send" /\ mutex = c /\ req[c] \in Requests
      BY <1>10, LinkedGen, CallRequest, Alone DEF SendHead
    <2>2. Clean(g)
      BY <2>1 DEF IInv, InStep, Agreed
    <2>3. /\ c2d' = [c2d EXCEPT ![g] = Append(@, Chunk("head", req[c]))]
          /\ pc' = [pc EXCEPT ![c] = "send_body"] /\ ~ Dead(g)
          /\ UNCHANGED <<d2c, dpc, dreq, conn, req, mutex, inner>>
      BY <1>10 DEF SendHead
    <2>4. /\ pc'[c] = "send_body" /\ \A d \in Callers : d # c => pc'[d] = pc[d]
          /\ c2d'[g] = Append(c2d[g], Chunk("head", req[c]))
      BY <2>1, <2>3 DEF IInv, TypeOK, ClientTypes, WireTypes
    <2>5. HalfAsked(g, req[c])'
      BY <2>1, <2>2, <2>3, <2>4, Push DEF Clean, HalfAsked, Asked, Dead
    <2>6. Agreed(c)'
      BY <2>3, <2>4, <2>5 DEF Agreed
    <2> QED BY <2>1, <2>3, <2>4, <2>6, ThreadAgrees, NoneAssumption
  <1>11. ASSUME NEW c \in Callers, SendBody(c) PROVE InStep'
    <2> DEFINE g == conn[c]
    <2>1. g \in Gens /\ pc[c] = "send_body" /\ mutex = c /\ req[c] \in Requests
      BY <1>11, LinkedGen, CallRequest, Alone DEF SendBody
    <2>2. HalfAsked(g, req[c])
      BY <2>1 DEF IInv, InStep, Agreed
    <2>3. /\ c2d' = [c2d EXCEPT ![g] = Append(@, Chunk("body", req[c]))]
          /\ pc' = [pc EXCEPT ![c] = "recv"] /\ ~ Dead(g)
          /\ UNCHANGED <<d2c, dpc, dreq, conn, req, mutex, inner>>
      BY <1>11 DEF SendBody
    <2>4. /\ pc'[c] = "recv" /\ \A d \in Callers : d # c => pc'[d] = pc[d]
          /\ c2d'[g] = Append(c2d[g], Chunk("body", req[c]))
      BY <2>1, <2>3 DEF IInv, TypeOK, ClientTypes, WireTypes
    <2>5. Asked(g, req[c])'
      BY <2>1, <2>2, <2>3, <2>4, Push DEF Clean, HalfAsked, Asked, Dead
    <2>6. Agreed(c)'
      BY <2>3, <2>4, <2>5 DEF Agreed
    <2> QED BY <2>1, <2>3, <2>4, <2>6, ThreadAgrees, NoneAssumption
  <1>12. ASSUME NEW c \in Callers, RecvHead(c) PROVE InStep'
    <2> DEFINE g == conn[c]
    <2>1. g \in Gens /\ pc[c] = "recv" /\ mutex = c /\ d2c[g] # <<>>
      BY <1>12, LinkedGen, Alone DEF RecvHead
    <2>2. Asked(g, req[c])
      BY <2>1 DEF IInv, InStep, Agreed
    <2>3. /\ d2c' = [d2c EXCEPT ![g] = Tail(@)]
          /\ pc' = [pc EXCEPT ![c] = "recv_body"]
          /\ UNCHANGED <<c2d, dpc, dreq, conn, req, mutex, inner>>
      BY <1>12 DEF RecvHead
    <2>4. /\ pc'[c] = "recv_body" /\ \A d \in Callers : d # c => pc'[d] = pc[d]
          /\ d2c'[g] = Tail(d2c[g])
      BY <2>1, <2>3 DEF IInv, TypeOK, ClientTypes, WireTypes
    <2>5. HalfAnswered(g, req[c])'
      <3>1. /\ Served(req[c])
            /\ \/ /\ d2c[g] = <<Chunk("head", req[c])>>
                  /\ dpc[g] = "exited" \/ (/\ dpc[g] = "reply_body"
                                          /\ c2d[g] = <<>> /\ dreq[g] = req[c])
               \/ /\ d2c[g] = <<Chunk("head", req[c]), Chunk("body", req[c])>>
                  /\ dpc[g] = "exited" \/ (dpc[g] = "read" /\ c2d[g] = <<>>)
        BY <2>1, <2>2 DEF Asked
      <3>2. /\ d2c[g] = <<Chunk("head", req[c])>> => d2c'[g] = <<>>
            /\ d2c[g] = <<Chunk("head", req[c]), Chunk("body", req[c])>>
                 => d2c'[g] = <<Chunk("body", req[c])>>
        <4>1. ASSUME d2c[g] = <<Chunk("head", req[c])>> PROVE d2c'[g] = <<>>
          <5>1. Tail(<<Chunk("head", req[c])>>) = <<>>
            BY Pop
          <5> QED BY <2>4, <4>1, <5>1, Zenon
        <4>2. ASSUME d2c[g] = <<Chunk("head", req[c]), Chunk("body", req[c])>>
              PROVE  d2c'[g] = <<Chunk("body", req[c])>>
          <5>1. Tail(<<Chunk("head", req[c]), Chunk("body", req[c])>>)
                  = <<Chunk("body", req[c])>>
            BY Pop
          <5> QED BY <2>4, <4>2, <5>1, Zenon
        <4> QED BY <4>1, <4>2
      <3>3. Served(req[c])' /\ UNCHANGED <<dpc, c2d, dreq, conn, req>>
        BY <2>3, <3>1 DEF Served
      <3> QED BY <3>1, <3>2, <3>3 DEF HalfAnswered
    <2>6. Agreed(c)'
      BY <2>3, <2>4, <2>5 DEF Agreed
    <2> QED BY <2>1, <2>3, <2>4, <2>6, ThreadAgrees, NoneAssumption
  <1>13. ASSUME NEW c \in Callers, RecvBody(c) PROVE InStep'
    <2> DEFINE g == conn[c]
    <2>1. /\ g \in Gens /\ d2c[g] = <<Chunk("body", req[c])>>
          /\ dpc[g] = "exited" \/ (dpc[g] = "read" /\ c2d[g] = <<>>)
      BY <1>13, OwnResponse
    <2>2. /\ pc[c] = "recv_body" /\ inner' = g /\ d2c' = [d2c EXCEPT ![g] = Tail(@)]
          /\ pc' = [pc EXCEPT ![c] = "idle"] /\ UNCHANGED <<c2d, dpc>>
      BY <1>13 DEF RecvBody
    <2>3. d2c'[g] = <<>> /\ pc'[c] = "idle" /\ \A d \in Callers : d # c => pc'[d] = pc[d]
      BY <2>1, <2>2, Pop DEF IInv, TypeOK, ClientTypes, WireTypes
    <2>4. Clean(inner)' /\ Agreed(c)'
      BY <2>1, <2>2, <2>3 DEF Clean, Agreed
    <2> QED BY <2>2, <2>3, <2>4, ThreadAgrees
  <1>14. ASSUME NEW c \in Callers, TransportError(c) PROVE InStep'
    <2>1. /\ pc[c] \in Talking /\ mutex = c /\ inner' = NoGen /\ UNCHANGED mutex
          /\ pc' = [pc EXCEPT ![c] = IF @ = "send_body" THEN "flush" ELSE "shutdown"]
      BY <1>14, Alone DEF TransportError
    <2>2. /\ pc'[c] \in {"flush", "shutdown"}
          /\ \A d \in Callers : d # c => pc'[d] = pc[d]
      BY <2>1 DEF IInv, TypeOK, ClientTypes
    <2>3. Agreed(c)'
      BY <2>2 DEF Agreed
    <2> QED BY <2>1, <2>2, <2>3, ThreadAgrees
  <1>15. ASSUME NEW c \in Callers, FlushOnDrop(c) PROVE InStep'
    <2>1. /\ pc[c] = "flush" /\ mutex = c /\ pc' = [pc EXCEPT ![c] = "shutdown"]
          /\ UNCHANGED <<inner, mutex>>
      BY <1>15, Alone DEF FlushOnDrop
    <2>2. pc'[c] = "shutdown" /\ \A d \in Callers : d # c => pc'[d] = pc[d]
      BY <2>1 DEF IInv, TypeOK, ClientTypes
    <2>3. Agreed(c)'
      BY <2>2 DEF Agreed
    <2> QED BY <2>1, <2>2, <2>3, ThreadAgrees, NoneAssumption
  <1>16. ASSUME NEW c \in Callers, Shutdown(c) PROVE InStep'
    BY <1>16, Alone DEF Shutdown, InStep, Agreed, IInv, TypeOK, ClientTypes, Exclusive, Ownership,
       Clean, Greeting, HalfAsked, Asked, HalfAnswered, Served
  <1>17. ASSUME NEW c \in Callers, ForceKill(c) PROVE InStep'
    <2>1. pc[c] = "reap" /\ mutex = c /\ UNCHANGED <<pc, inner, mutex>>
      BY <1>17, Alone DEF ForceKill
    <2>2. Agreed(c)'
      BY <2>1 DEF Agreed
    <2> QED BY <2>1, <2>2, ThreadAgrees, NoneAssumption
  <1>18. ASSUME NEW c \in Callers, Reap(c) PROVE InStep'
    <2>1. pc[c] = "reap" /\ inner = NoGen /\ UNCHANGED inner
      BY <1>18 DEF Reap, IInv, Ownership
    <2>2. pc' = [pc EXCEPT ![c] = "spawn"] \/ pc' = [pc EXCEPT ![c] = "idle"]
      BY <1>18 DEF Reap
    <2>3. /\ pc'[c] \in {"spawn", "idle"}
          /\ \A d \in Callers : d # c => pc'[d] = pc[d]
      BY <2>2 DEF IInv, TypeOK, ClientTypes
    <2>4. Agreed(c)'
      BY <2>3 DEF Agreed
    <2> QED BY <2>1, <2>3, <2>4, ThreadAgrees
  <1>19. ASSUME NEW g \in Gens, DaemonInit(g) PROVE InStep'
    <2>1. /\ g \in Gens /\ UNCHANGED <<cvars, dver>>
          /\ dpc[g] = "init" /\ dpc'[g] = "hello"
          /\ c2d'[g] = c2d[g] /\ d2c'[g] = d2c[g] /\ dreq'[g] = dreq[g]
          /\ \A h \in Gens : h # g => /\ c2d'[h] = c2d[h] /\ d2c'[h] = d2c[h]
                                   /\ dpc'[h] = dpc[h] /\ dreq'[h] = dreq[h]
      BY <1>19 DEF DaemonInit, IInv, TypeOK, DaemonTypes, WireTypes
    <2>2. ASSUME NEW c \in Callers, pc[c] \in Linked, conn[c] = g PROVE Agreed(c)'
      <3>1. Agreed(c) /\ (pc[c] \in Talking => req[c] \in Requests)
        BY <2>2, CallRequest DEF IInv, InStep
      <3>2. UNCHANGED <<pc, conn, req>>
        BY <2>1
      <3> QED BY <2>1, <2>2, <3>1, <3>2 DEF Agreed, Dead,
             Clean, Greeting, HalfAsked, Asked, HalfAnswered, Served
    <2>3. mutex = NoOne /\ inner = g => Clean(g)'
      BY <2>1 DEF IInv, InStep, Clean
    <2> QED BY <2>1, <2>2, <2>3, DaemonAgrees
  <1>20. ASSUME NEW g \in Gens, DaemonHello(g) PROVE InStep'
    <2>1. /\ g \in Gens /\ UNCHANGED <<cvars, dver>>
          /\ dpc[g] = "hello"
          /\ c2d'[g] = c2d[g] /\ dreq'[g] = dreq[g]
          /\ \/ d2c'[g] = d2c[g] /\ dpc'[g] = "exited"
             \/ d2c'[g] = Append(d2c[g], Hello(dver[g])) /\ dpc'[g] = "read"
          /\ \A h \in Gens : h # g => /\ c2d'[h] = c2d[h] /\ d2c'[h] = d2c[h]
                                   /\ dpc'[h] = dpc[h] /\ dreq'[h] = dreq[h]
      BY <1>20 DEF DaemonHello, IInv, TypeOK, DaemonTypes, WireTypes
    <2>2. ASSUME NEW c \in Callers, pc[c] \in Linked, conn[c] = g PROVE Agreed(c)'
      <3>1. Agreed(c) /\ (pc[c] \in Talking => req[c] \in Requests)
        BY <2>2, CallRequest DEF IInv, InStep
      <3>2. UNCHANGED <<pc, conn, req>>
        BY <2>1
      <3> QED BY <2>1, <2>2, <3>1, <3>2, PushHello DEF Agreed, Dead,
             Clean, Greeting, HalfAsked, Asked, HalfAnswered, Served
    <2>3. mutex = NoOne /\ inner = g => Clean(g)'
      BY <2>1, PushHello DEF IInv, InStep, Clean
    <2> QED BY <2>1, <2>2, <2>3, DaemonAgrees
  <1>21. ASSUME NEW g \in Gens, DaemonRead(g) PROVE InStep'
    <2>1. /\ g \in Gens /\ UNCHANGED <<cvars, dver>>
          /\ dpc[g] \in {"read", "read_body"} /\ d2c'[g] = d2c[g]
          /\ \/ /\ c2d[g] # <<>> /\ c2d'[g] = Tail(c2d[g])
                /\ dreq'[g] = Head(c2d[g]).req
                /\ dpc'[g] = IF dpc[g] = "read" THEN "read_body" ELSE "dispatch"
             \/ c2d'[g] = c2d[g] /\ dreq'[g] = dreq[g] /\ dpc'[g] = "exited"
          /\ \A h \in Gens : h # g => /\ c2d'[h] = c2d[h] /\ d2c'[h] = d2c[h]
                                   /\ dpc'[h] = dpc[h] /\ dreq'[h] = dreq[h]
      BY <1>21 DEF DaemonRead, IInv, TypeOK, DaemonTypes, WireTypes
    <2>2. ASSUME NEW c \in Callers, pc[c] \in Linked, conn[c] = g PROVE Agreed(c)'
      <3>1. Agreed(c) /\ (pc[c] \in Talking => req[c] \in Requests)
        BY <2>2, CallRequest DEF IInv, InStep
      <3>2. UNCHANGED <<pc, conn, req>>
        BY <2>1
      <3>3. CASE dpc'[g] = "exited" /\ c2d'[g] = c2d[g] /\ dreq'[g] = dreq[g]
        BY <2>1, <2>2, <3>1, <3>2, <3>3 DEF Agreed, Clean, Greeting, HalfAsked,
           Asked, HalfAnswered, Served
      <3>4. CASE /\ c2d[g] # <<>> /\ c2d'[g] = Tail(c2d[g])
                 /\ dreq'[g] = Head(c2d[g]).req
                 /\ dpc'[g] = IF dpc[g] = "read" THEN "read_body" ELSE "dispatch"
        <4>1. CASE pc[c] = "send_body"
          <5>1. dpc[g] = "read" /\ c2d[g] = <<Chunk("head", req[c])>> /\ d2c[g] = <<>>
            BY <2>1, <2>2, <3>1, <3>4, <4>1 DEF Agreed, HalfAsked
          <5>2. dpc'[g] = "read_body" /\ c2d'[g] = <<>> /\ dreq'[g] = req[c]
            BY <3>4, <5>1, Pop, ChunkFacts
          <5> QED BY <2>1, <2>2, <3>2, <4>1, <5>1, <5>2 DEF Agreed, HalfAsked
        <4>2. CASE pc[c] = "recv"
          <5>1. /\ d2c[g] = <<>>
                /\ \/ /\ dpc[g] = "read"
                      /\ c2d[g] = <<Chunk("head", req[c]), Chunk("body", req[c])>>
                   \/ /\ dpc[g] = "read_body" /\ dreq[g] = req[c]
                      /\ c2d[g] = <<Chunk("body", req[c])>>
            BY <2>1, <2>2, <3>1, <3>4, <4>2 DEF Agreed, Asked
          <5>2. /\ dreq'[g] = req[c] /\ d2c'[g] = <<>>
                /\ \/ dpc'[g] = "read_body" /\ c2d'[g] = <<Chunk("body", req[c])>>
                   \/ dpc'[g] = "dispatch" /\ c2d'[g] = <<>>
            <6>1. d2c'[g] = <<>>
              BY <2>1, <5>1
            <6>2. CASE dpc[g] = "read"
              <7>1. c2d[g] = <<Chunk("head", req[c]), Chunk("body", req[c])>>
                BY <5>1, <6>2
              <7>2. /\ Head(c2d[g]) = Chunk("head", req[c])
                    /\ Tail(c2d[g]) = <<Chunk("body", req[c])>>
                BY <7>1, Pop
              <7> QED BY <3>4, <6>1, <6>2, <7>2, ChunkFacts
            <6>3. CASE dpc[g] = "read_body"
              <7>1. c2d[g] = <<Chunk("body", req[c])>>
                BY <5>1, <6>3
              <7>2. Head(c2d[g]) = Chunk("body", req[c]) /\ Tail(c2d[g]) = <<>>
                BY <7>1, Pop
              <7> QED BY <3>4, <6>1, <6>3, <7>2, ChunkFacts
            <6> QED BY <5>1, <6>2, <6>3
          <5> QED BY <2>2, <3>2, <4>2, <5>2 DEF Agreed, Asked
        <4>3. CASE pc[c] \notin {"send_body", "recv"}
          BY <2>1, <2>2, <3>1, <3>2, <3>4, <4>3 DEF Agreed, Clean, Greeting,
             HalfAnswered
        <4> QED BY <4>1, <4>2, <4>3
      <3> QED BY <2>1, <3>3, <3>4
    <2>3. mutex = NoOne /\ inner = g => Clean(g)'
      BY <2>1, Pop, ChunkFacts DEF IInv, InStep, Clean
    <2> QED BY <2>1, <2>2, <2>3, DaemonAgrees
  <1>22. ASSUME NEW g \in Gens, Dispatch(g) PROVE InStep'
    <2>1. /\ g \in Gens /\ UNCHANGED <<cvars, dver>>
          /\ dpc[g] = "dispatch" /\ c2d'[g] = c2d[g] /\ d2c'[g] = d2c[g]
          /\ dreq'[g] = dreq[g]
          /\ \/ dpc'[g] = "reply" /\ Kind[dreq[g]] \in {"good", "diag"}
             \/ dpc'[g] = "exited"
          /\ \A h \in Gens : h # g => /\ c2d'[h] = c2d[h] /\ d2c'[h] = d2c[h]
                                   /\ dpc'[h] = dpc[h] /\ dreq'[h] = dreq[h]
      BY <1>22 DEF Dispatch, IInv, TypeOK, DaemonTypes, WireTypes
    <2>2. ASSUME NEW c \in Callers, pc[c] \in Linked, conn[c] = g PROVE Agreed(c)'
      <3>1. Agreed(c) /\ (pc[c] \in Talking => req[c] \in Requests)
        BY <2>2, CallRequest DEF IInv, InStep
      <3>2. UNCHANGED <<pc, conn, req>>
        BY <2>1
      <3> QED BY <2>1, <2>2, <3>1, <3>2 DEF Agreed, Dead,
             Clean, Greeting, HalfAsked, Asked, HalfAnswered, Served
    <2>3. mutex = NoOne /\ inner = g => Clean(g)'
      BY <2>1 DEF IInv, InStep, Clean
    <2> QED BY <2>1, <2>2, <2>3, DaemonAgrees
  <1>23. ASSUME NEW g \in Gens, ReplyHead(g) PROVE InStep'
    <2>1. /\ g \in Gens /\ UNCHANGED <<cvars, dver>>
          /\ dpc[g] = "reply"
          /\ c2d'[g] = c2d[g] /\ dreq'[g] = dreq[g]
          /\ \/ d2c'[g] = d2c[g] /\ dpc'[g] = "exited"
             \/ d2c'[g] = Append(d2c[g], Chunk("head", dreq[g])) /\ dpc'[g] = "reply_body"
          /\ \A h \in Gens : h # g => /\ c2d'[h] = c2d[h] /\ d2c'[h] = d2c[h]
                                   /\ dpc'[h] = dpc[h] /\ dreq'[h] = dreq[h]
      BY <1>23 DEF ReplyHead, IInv, TypeOK, DaemonTypes, WireTypes
    <2>2. ASSUME NEW c \in Callers, pc[c] \in Linked, conn[c] = g PROVE Agreed(c)'
      <3>1. Agreed(c) /\ (pc[c] \in Talking => req[c] \in Requests)
        BY <2>2, CallRequest DEF IInv, InStep
      <3>2. UNCHANGED <<pc, conn, req>>
        BY <2>1
      <3> QED BY <2>1, <2>2, <3>1, <3>2, Push DEF Agreed, Dead,
             Clean, Greeting, HalfAsked, Asked, HalfAnswered, Served
    <2>3. mutex = NoOne /\ inner = g => Clean(g)'
      BY <2>1, Push DEF IInv, InStep, Clean
    <2> QED BY <2>1, <2>2, <2>3, DaemonAgrees
  <1>24. ASSUME NEW g \in Gens, ReplyBody(g) PROVE InStep'
    <2>1. /\ g \in Gens /\ UNCHANGED <<cvars, dver>>
          /\ dpc[g] = "reply_body"
          /\ c2d'[g] = c2d[g] /\ dreq'[g] = dreq[g]
          /\ \/ d2c'[g] = d2c[g] /\ dpc'[g] = "exited"
             \/ d2c'[g] = Append(d2c[g], Chunk("body", dreq[g])) /\ dpc'[g] = "read"
          /\ \A h \in Gens : h # g => /\ c2d'[h] = c2d[h] /\ d2c'[h] = d2c[h]
                                   /\ dpc'[h] = dpc[h] /\ dreq'[h] = dreq[h]
      BY <1>24 DEF ReplyBody, IInv, TypeOK, DaemonTypes, WireTypes
    <2>2. ASSUME NEW c \in Callers, pc[c] \in Linked, conn[c] = g PROVE Agreed(c)'
      <3>1. Agreed(c) /\ (pc[c] \in Talking => req[c] \in Requests)
        BY <2>2, CallRequest DEF IInv, InStep
      <3>2. UNCHANGED <<pc, conn, req>>
        BY <2>1
      <3> QED BY <2>1, <2>2, <3>1, <3>2, Push, SMTT(60) DEF Agreed, Dead,
             Clean, Greeting, HalfAsked, Asked, HalfAnswered, Served
    <2>3. mutex = NoOne /\ inner = g => Clean(g)'
      BY <2>1, Push DEF IInv, InStep, Clean
    <2> QED BY <2>1, <2>2, <2>3, DaemonAgrees
  <1>25. ASSUME NEW g \in Gens, DaemonDies(g) PROVE InStep'
    <2>1. /\ g \in Gens /\ UNCHANGED <<cvars, dver>>
          /\ dpc'[g] = "exited" /\ c2d'[g] = c2d[g] /\ d2c'[g] = d2c[g]
          /\ dreq'[g] = dreq[g]
          /\ \A h \in Gens : h # g => /\ c2d'[h] = c2d[h] /\ d2c'[h] = d2c[h]
                                   /\ dpc'[h] = dpc[h] /\ dreq'[h] = dreq[h]
      BY <1>25 DEF DaemonDies, IInv, TypeOK, DaemonTypes, WireTypes
    <2>2. ASSUME NEW c \in Callers, pc[c] \in Linked, conn[c] = g PROVE Agreed(c)'
      <3>1. Agreed(c) /\ (pc[c] \in Talking => req[c] \in Requests)
        BY <2>2, CallRequest DEF IInv, InStep
      <3>2. UNCHANGED <<pc, conn, req>>
        BY <2>1
      <3> QED BY <2>1, <2>2, <3>1, <3>2 DEF Agreed, Dead,
             Clean, Greeting, HalfAsked, Asked, HalfAnswered, Served
    <2>3. mutex = NoOne /\ inner = g => Clean(g)'
      BY <2>1 DEF IInv, InStep, Clean
    <2> QED BY <2>1, <2>2, <2>3, DaemonAgrees
  <1>26. CASE ProcessDies
    BY <1>26 DEF ProcessDies, InStep, Agreed
  <1>27. CASE UNCHANGED vars
    <2>1. InStep
      BY DEF IInv
    <2>2. UNCHANGED <<mutex, inner, pc, conn, req, dpc, dreq, dver, c2d, d2c>>
      BY <1>27 DEF vars
    <2>3. ASSUME NEW c \in Callers PROVE Agreed(c)'
      <3>1. Agreed(c)
        BY <2>1 DEF InStep
      <3> QED BY <2>2, <3>1 DEF Agreed, Clean, Greeting, HalfAsked, Asked, HalfAnswered, Served
    <2> QED BY <2>1, <2>2, <2>3 DEF InStep, Clean
  <1> QED
    BY <1>1, <1>2, <1>3, <1>4, <1>5, <1>6, <1>7, <1>8, <1>9, <1>10, <1>11, <1>12, <1>13, <1>14, <1>15, <1>16, <1>17, <1>18, <1>19, <1>20, <1>21, <1>22, <1>23, <1>24, <1>25, <1>26, <1>27
    DEF Next, ThreadStep, DaemonStep, Quiescent

-----------------------------------------------------------------------------
(* Idle generations, versions, results.                                    *)

LEMMA BlankStep == IInv /\ [Next]_vars => Blank'
  <1> SUFFICES ASSUME IInv, [Next]_vars PROVE Blank'
    OBVIOUS
  <1> USE DEF Blank
  <1>1. ASSUME NEW c \in Callers, New(c) PROVE Blank'
    BY <1>1 DEF New, IInv, TypeOK, ClientTypes, DaemonTypes, WireTypes, Ownership
  <1>2. ASSUME NEW c \in Callers, NEW r \in Requests, Call(c, r) PROVE Blank'
    BY <1>2 DEF Call, IInv, TypeOK, ClientTypes, DaemonTypes, WireTypes, Ownership
  <1>3. ASSUME NEW c \in Callers, DropInstance(c) PROVE Blank'
    BY <1>3 DEF DropInstance, IInv, TypeOK, ClientTypes, DaemonTypes, WireTypes, Ownership
  <1>4. ASSUME NEW c \in Callers, Lock(c) PROVE Blank'
    BY <1>4 DEF Lock, IInv, TypeOK, ClientTypes, DaemonTypes, WireTypes, Ownership
  <1>5. ASSUME NEW c \in Callers, SpawnDaemon(c) PROVE Blank'
    BY <1>5 DEF SpawnDaemon, IInv, TypeOK, ClientTypes, DaemonTypes, WireTypes, Ownership
  <1>6. ASSUME NEW c \in Callers, SpawnFails(c) PROVE Blank'
    BY <1>6 DEF SpawnFails, IInv, TypeOK, ClientTypes, DaemonTypes, WireTypes, Ownership
  <1>7. ASSUME NEW c \in Callers, Connected(c) PROVE Blank'
    BY <1>7 DEF Connected, IInv, TypeOK, ClientTypes, DaemonTypes, WireTypes, Ownership
  <1>8. ASSUME NEW c \in Callers, HandshakeFails(c) PROVE Blank'
    BY <1>8 DEF HandshakeFails, IInv, TypeOK, ClientTypes, DaemonTypes, WireTypes, Ownership
  <1>9. ASSUME NEW c \in Callers, Oversize(c) PROVE Blank'
    BY <1>9 DEF Oversize, IInv, TypeOK, ClientTypes, DaemonTypes, WireTypes, Ownership
  <1>10. ASSUME NEW c \in Callers, SendHead(c) PROVE Blank'
    BY <1>10 DEF SendHead, IInv, TypeOK, ClientTypes, DaemonTypes, WireTypes, Ownership
  <1>11. ASSUME NEW c \in Callers, SendBody(c) PROVE Blank'
    BY <1>11 DEF SendBody, IInv, TypeOK, ClientTypes, DaemonTypes, WireTypes, Ownership
  <1>12. ASSUME NEW c \in Callers, RecvHead(c) PROVE Blank'
    BY <1>12 DEF RecvHead, IInv, TypeOK, ClientTypes, DaemonTypes, WireTypes, Ownership
  <1>13. ASSUME NEW c \in Callers, RecvBody(c) PROVE Blank'
    BY <1>13 DEF RecvBody, IInv, TypeOK, ClientTypes, DaemonTypes, WireTypes, Ownership
  <1>14. ASSUME NEW c \in Callers, TransportError(c) PROVE Blank'
    BY <1>14 DEF TransportError, IInv, TypeOK, ClientTypes, DaemonTypes, WireTypes, Ownership
  <1>15. ASSUME NEW c \in Callers, FlushOnDrop(c) PROVE Blank'
    <2>1. /\ pc[c] = "flush" /\ UNCHANGED <<dpc, dreq, d2c, shut>>
          /\ \A h \in Gens : h # conn[c] => c2d'[h] = c2d[h]
      BY <1>15 DEF FlushOnDrop, IInv, TypeOK, WireTypes
    <2>2. Unreaped(conn[c])
      BY <2>1 DEF IInv, Ownership
    <2> QED BY <2>1, <2>2 DEF IInv
  <1>16. ASSUME NEW c \in Callers, Shutdown(c) PROVE Blank'
    BY <1>16 DEF Shutdown, IInv, TypeOK, ClientTypes, DaemonTypes, WireTypes, Ownership
  <1>17. ASSUME NEW c \in Callers, ForceKill(c) PROVE Blank'
    BY <1>17 DEF ForceKill, IInv, TypeOK, ClientTypes, DaemonTypes, WireTypes, Ownership
  <1>18. ASSUME NEW c \in Callers, Reap(c) PROVE Blank'
    BY <1>18 DEF Reap, IInv, TypeOK, ClientTypes, DaemonTypes, WireTypes, Ownership
  <1>19. ASSUME NEW g \in Gens, DaemonInit(g) PROVE Blank'
    BY <1>19 DEF DaemonInit, IInv, TypeOK, ClientTypes, DaemonTypes, WireTypes, Ownership
  <1>20. ASSUME NEW g \in Gens, DaemonHello(g) PROVE Blank'
    <2>1. \A h \in Gens : h # g => /\ c2d'[h] = c2d[h] /\ d2c'[h] = d2c[h]
                                   /\ dpc'[h] = dpc[h] /\ dreq'[h] = dreq[h]
      BY <1>20 DEF DaemonHello, IInv, TypeOK, DaemonTypes, WireTypes
    <2>2. /\ dpc'[g] \notin {"none", "reaped"} /\ dreq'[g] = dreq[g]
          /\ UNCHANGED shut
          /\ dpc'[g] \in {"read_body", "dispatch", "reply", "reply_body"}
               => dpc[g] \in {"read_body", "dispatch", "reply", "reply_body"}
      BY <1>20 DEF DaemonHello, IInv, TypeOK, DaemonTypes
    <2> QED BY <2>1, <2>2 DEF IInv
  <1>21. ASSUME NEW g \in Gens, DaemonRead(g) PROVE Blank'
    <2>1. \A h \in Gens : h # g => /\ c2d'[h] = c2d[h] /\ d2c'[h] = d2c[h]
                                   /\ dpc'[h] = dpc[h] /\ dreq'[h] = dreq[h]
      BY <1>21 DEF DaemonRead, IInv, TypeOK, DaemonTypes, WireTypes
    <2>2. c2d[g] # <<>> => Head(c2d[g]).req \in Requests
      <3>1. c2d[g] \in Seq(Chunks)
        BY DEF IInv, TypeOK, WireTypes
      <3> QED BY <3>1, HeadTail, ChunkFacts
    <2>3. /\ dpc'[g] \notin {"none", "reaped"} /\ UNCHANGED shut
          /\ dpc'[g] \in {"read_body", "dispatch", "reply", "reply_body"} => dreq'[g] \in Requests
      BY <1>21, <2>2 DEF DaemonRead, IInv, TypeOK, DaemonTypes
    <2> QED BY <2>1, <2>3 DEF IInv
  <1>22. ASSUME NEW g \in Gens, Dispatch(g) PROVE Blank'
    <2>1. \A h \in Gens : h # g => /\ c2d'[h] = c2d[h] /\ d2c'[h] = d2c[h]
                                   /\ dpc'[h] = dpc[h] /\ dreq'[h] = dreq[h]
      BY <1>22 DEF Dispatch, IInv, TypeOK, DaemonTypes, WireTypes
    <2>2. /\ dpc'[g] \notin {"none", "reaped"} /\ dreq'[g] = dreq[g]
          /\ UNCHANGED shut
          /\ dpc'[g] \in {"read_body", "dispatch", "reply", "reply_body"}
               => dpc[g] \in {"read_body", "dispatch", "reply", "reply_body"}
      BY <1>22 DEF Dispatch, IInv, TypeOK, DaemonTypes
    <2> QED BY <2>1, <2>2 DEF IInv
  <1>23. ASSUME NEW g \in Gens, ReplyHead(g) PROVE Blank'
    <2>1. \A h \in Gens : h # g => /\ c2d'[h] = c2d[h] /\ d2c'[h] = d2c[h]
                                   /\ dpc'[h] = dpc[h] /\ dreq'[h] = dreq[h]
      BY <1>23 DEF ReplyHead, IInv, TypeOK, DaemonTypes, WireTypes
    <2>2. /\ dpc'[g] \notin {"none", "reaped"} /\ dreq'[g] = dreq[g]
          /\ UNCHANGED shut
          /\ dpc'[g] \in {"read_body", "dispatch", "reply", "reply_body"}
               => dpc[g] \in {"read_body", "dispatch", "reply", "reply_body"}
      BY <1>23 DEF ReplyHead, IInv, TypeOK, DaemonTypes
    <2> QED BY <2>1, <2>2 DEF IInv
  <1>24. ASSUME NEW g \in Gens, ReplyBody(g) PROVE Blank'
    <2>1. \A h \in Gens : h # g => /\ c2d'[h] = c2d[h] /\ d2c'[h] = d2c[h]
                                   /\ dpc'[h] = dpc[h] /\ dreq'[h] = dreq[h]
      BY <1>24 DEF ReplyBody, IInv, TypeOK, DaemonTypes, WireTypes
    <2>2. /\ dpc'[g] \notin {"none", "reaped"} /\ dreq'[g] = dreq[g]
          /\ UNCHANGED shut
          /\ dpc'[g] \in {"read_body", "dispatch", "reply", "reply_body"}
               => dpc[g] \in {"read_body", "dispatch", "reply", "reply_body"}
      BY <1>24 DEF ReplyBody, IInv, TypeOK, DaemonTypes
    <2> QED BY <2>1, <2>2 DEF IInv
  <1>25. ASSUME NEW g \in Gens, DaemonDies(g) PROVE Blank'
    BY <1>25 DEF DaemonDies, IInv, TypeOK, ClientTypes, DaemonTypes, WireTypes, Ownership
  <1>26. CASE ProcessDies
    BY <1>26 DEF ProcessDies, IInv, TypeOK, ClientTypes, DaemonTypes, WireTypes, Ownership
  <1>27. CASE UNCHANGED vars
    BY <1>27 DEF vars, IInv, TypeOK, ClientTypes, DaemonTypes, WireTypes, Ownership
  <1> QED
    BY <1>1, <1>2, <1>3, <1>4, <1>5, <1>6, <1>7, <1>8, <1>9, <1>10, <1>11, <1>12, <1>13, <1>14, <1>15, <1>16, <1>17, <1>18, <1>19, <1>20, <1>21, <1>22, <1>23, <1>24, <1>25, <1>26, <1>27
    DEF Next, ThreadStep, DaemonStep, Quiescent

LEMMA ResultsStep == IInv /\ [Next]_vars => Results'
  <1> SUFFICES ASSUME IInv, [Next]_vars PROVE Results'
    OBVIOUS
  <1> USE DEF Results, Response, Nothing, Failed, Rejected
  <1>1. ASSUME NEW c \in Callers, New(c) PROVE Results'
    BY <1>1 DEF New, IInv, TypeOK, ClientTypes, Exclusive
  <1>2. ASSUME NEW c \in Callers, NEW r \in Requests, Call(c, r) PROVE Results'
    BY <1>2 DEF Call, IInv, TypeOK, ClientTypes, Exclusive
  <1>3. ASSUME NEW c \in Callers, DropInstance(c) PROVE Results'
    BY <1>3 DEF DropInstance, IInv, TypeOK, ClientTypes, Exclusive
  <1>4. ASSUME NEW c \in Callers, Lock(c) PROVE Results'
    BY <1>4 DEF Lock, IInv, TypeOK, ClientTypes, Exclusive
  <1>5. ASSUME NEW c \in Callers, SpawnDaemon(c) PROVE Results'
    BY <1>5 DEF SpawnDaemon, IInv, TypeOK, ClientTypes, Exclusive
  <1>6. ASSUME NEW c \in Callers, SpawnFails(c) PROVE Results'
    BY <1>6 DEF SpawnFails, IInv, TypeOK, ClientTypes, Exclusive
  <1>7. ASSUME NEW c \in Callers, Connected(c) PROVE Results'
    <2>1. UNCHANGED req /\ (reply' = reply \/ reply' = [reply EXCEPT ![c] = Nothing])
      BY <1>7 DEF Connected
    <2> QED BY <2>1 DEF IInv, TypeOK, ClientTypes
  <1>8. ASSUME NEW c \in Callers, HandshakeFails(c) PROVE Results'
    BY <1>8 DEF HandshakeFails, IInv, TypeOK, ClientTypes, Exclusive
  <1>9. ASSUME NEW c \in Callers, Oversize(c) PROVE Results'
    BY <1>9 DEF Oversize, IInv, TypeOK, ClientTypes, Exclusive
  <1>10. ASSUME NEW c \in Callers, SendHead(c) PROVE Results'
    BY <1>10 DEF SendHead, IInv, TypeOK, ClientTypes, Exclusive
  <1>11. ASSUME NEW c \in Callers, SendBody(c) PROVE Results'
    BY <1>11 DEF SendBody, IInv, TypeOK, ClientTypes, Exclusive
  <1>12. ASSUME NEW c \in Callers, RecvHead(c) PROVE Results'
    BY <1>12 DEF RecvHead, IInv, TypeOK, ClientTypes, Exclusive
  <1>13. ASSUME NEW c \in Callers, RecvBody(c) PROVE Results'
    <2>1. Head(d2c[conn[c]]).req = req[c] /\ req[c] \in Requests
      BY <1>13, OwnResponse
    <2>2. reply' = [reply EXCEPT ![c] = Response(Head(d2c[conn[c]]).req)] /\ UNCHANGED req
      BY <1>13 DEF RecvBody
    <2>3. /\ reply'[c] = Response(req'[c])
          /\ \A d \in Callers : d # c => reply'[d] = reply[d] /\ req'[d] = req[d]
      BY <2>1, <2>2 DEF IInv, TypeOK, ClientTypes
    <2> QED BY <2>3 DEF IInv
  <1>14. ASSUME NEW c \in Callers, TransportError(c) PROVE Results'
    BY <1>14 DEF TransportError, IInv, TypeOK, ClientTypes, Exclusive
  <1>15. ASSUME NEW c \in Callers, FlushOnDrop(c) PROVE Results'
    BY <1>15 DEF FlushOnDrop, IInv, TypeOK, ClientTypes, Exclusive
  <1>16. ASSUME NEW c \in Callers, Shutdown(c) PROVE Results'
    BY <1>16 DEF Shutdown, IInv, TypeOK, ClientTypes, Exclusive
  <1>17. ASSUME NEW c \in Callers, ForceKill(c) PROVE Results'
    BY <1>17 DEF ForceKill, IInv, TypeOK, ClientTypes, Exclusive
  <1>18. ASSUME NEW c \in Callers, Reap(c) PROVE Results'
    <2>1. /\ UNCHANGED req
          /\ reply' = reply \/ reply' = [reply EXCEPT ![c] = reply[c]]
             \/ reply' = [reply EXCEPT ![c] = Failed]
      BY <1>18 DEF Reap
    <2> QED BY <2>1 DEF IInv, TypeOK, ClientTypes
  <1>19. ASSUME NEW g \in Gens, DaemonInit(g) PROVE Results'
    BY <1>19 DEF DaemonInit, IInv, TypeOK, ClientTypes, Exclusive
  <1>20. ASSUME NEW g \in Gens, DaemonHello(g) PROVE Results'
    BY <1>20 DEF DaemonHello, IInv, TypeOK, ClientTypes, Exclusive
  <1>21. ASSUME NEW g \in Gens, DaemonRead(g) PROVE Results'
    BY <1>21 DEF DaemonRead, IInv, TypeOK, ClientTypes, Exclusive
  <1>22. ASSUME NEW g \in Gens, Dispatch(g) PROVE Results'
    BY <1>22 DEF Dispatch, IInv, TypeOK, ClientTypes, Exclusive
  <1>23. ASSUME NEW g \in Gens, ReplyHead(g) PROVE Results'
    BY <1>23 DEF ReplyHead, IInv, TypeOK, ClientTypes, Exclusive
  <1>24. ASSUME NEW g \in Gens, ReplyBody(g) PROVE Results'
    BY <1>24 DEF ReplyBody, IInv, TypeOK, ClientTypes, Exclusive
  <1>25. ASSUME NEW g \in Gens, DaemonDies(g) PROVE Results'
    BY <1>25 DEF DaemonDies, IInv, TypeOK, ClientTypes, Exclusive
  <1>26. CASE ProcessDies
    BY <1>26 DEF ProcessDies, IInv, TypeOK, ClientTypes, Exclusive
  <1>27. CASE UNCHANGED vars
    BY <1>27 DEF vars, IInv, TypeOK, ClientTypes, Exclusive
  <1> QED
    BY <1>1, <1>2, <1>3, <1>4, <1>5, <1>6, <1>7, <1>8, <1>9, <1>10, <1>11, <1>12, <1>13, <1>14, <1>15, <1>16, <1>17, <1>18, <1>19, <1>20, <1>21, <1>22, <1>23, <1>24, <1>25, <1>26, <1>27
    DEF Next, ThreadStep, DaemonStep, Quiescent

LEMMA SameVersionStep == IInv /\ [Next]_vars => SameVersion'
  <1> SUFFICES ASSUME IInv, [Next]_vars PROVE SameVersion'
    OBVIOUS
  <1> USE DEF SameVersion, VersionGate
  <1>1. ASSUME NEW c \in Callers, New(c) PROVE SameVersion'
    BY <1>1 DEF New, IInv, TypeOK, ClientTypes, DaemonTypes, WireTypes, Ownership, Exclusive, Blank
  <1>2. ASSUME NEW c \in Callers, NEW r \in Requests, Call(c, r) PROVE SameVersion'
    BY <1>2 DEF Call, IInv, TypeOK, ClientTypes, DaemonTypes, WireTypes, Ownership, Exclusive, Blank
  <1>3. ASSUME NEW c \in Callers, DropInstance(c) PROVE SameVersion'
    BY <1>3 DEF DropInstance, IInv, TypeOK, ClientTypes, DaemonTypes, WireTypes, Ownership, Exclusive, Blank
  <1>4. ASSUME NEW c \in Callers, Lock(c) PROVE SameVersion'
    BY <1>4 DEF Lock, IInv, TypeOK, ClientTypes, DaemonTypes, WireTypes, Ownership, Exclusive, Blank
  <1>5. ASSUME NEW c \in Callers, SpawnDaemon(c) PROVE SameVersion'
    BY <1>5 DEF SpawnDaemon, IInv, TypeOK, ClientTypes, DaemonTypes, WireTypes, Ownership, Exclusive, Blank
  <1>6. ASSUME NEW c \in Callers, SpawnFails(c) PROVE SameVersion'
    BY <1>6 DEF SpawnFails, IInv, TypeOK, ClientTypes, DaemonTypes, WireTypes, Ownership, Exclusive, Blank
  <1>7. ASSUME NEW c \in Callers, Connected(c) PROVE SameVersion'
    <2> DEFINE g == conn[c]
    <2>1. /\ g \in Gens /\ pc[c] = "hello" /\ d2c[g] # <<>>
          /\ Head(d2c[g]) = Hello(OurVersion)
      BY <1>7, LinkedGen DEF Connected, GoodHello
    <2>2. d2c[g] = <<Hello(dver[g])>>
      BY <2>1 DEF IInv, InStep, Agreed, Greeting
    <2>3. dver[g] = OurVersion
      BY <2>1, <2>2, Pop DEF Hello
    <2>4. /\ UNCHANGED <<dver, c2d, dreq>> /\ inner' \in {inner, g}
          /\ \/ pc' = [pc EXCEPT ![c] = "idle"]
             \/ pc' = [pc EXCEPT ![c] = "send"] /\ UNCHANGED conn
      BY <1>7 DEF Connected
    <2>5. \A d \in Callers : d # c => pc[d] \in {"idle", "lock"}
      BY <2>1, Alone
    <2> QED BY <2>3, <2>4, <2>5 DEF IInv, TypeOK, ClientTypes
  <1>8. ASSUME NEW c \in Callers, HandshakeFails(c) PROVE SameVersion'
    BY <1>8 DEF HandshakeFails, IInv, TypeOK, ClientTypes, DaemonTypes, WireTypes, Ownership, Exclusive, Blank
  <1>9. ASSUME NEW c \in Callers, Oversize(c) PROVE SameVersion'
    BY <1>9 DEF Oversize, IInv, TypeOK, ClientTypes, DaemonTypes, WireTypes, Ownership, Exclusive, Blank
  <1>10. ASSUME NEW c \in Callers, SendHead(c) PROVE SameVersion'
    BY <1>10 DEF SendHead, IInv, TypeOK, ClientTypes, DaemonTypes, WireTypes, Ownership, Exclusive, Blank
  <1>11. ASSUME NEW c \in Callers, SendBody(c) PROVE SameVersion'
    BY <1>11 DEF SendBody, IInv, TypeOK, ClientTypes, DaemonTypes, WireTypes, Ownership, Exclusive, Blank
  <1>12. ASSUME NEW c \in Callers, RecvHead(c) PROVE SameVersion'
    BY <1>12 DEF RecvHead, IInv, TypeOK, ClientTypes, DaemonTypes, WireTypes, Ownership, Exclusive, Blank
  <1>13. ASSUME NEW c \in Callers, RecvBody(c) PROVE SameVersion'
    BY <1>13 DEF RecvBody, IInv, TypeOK, ClientTypes, DaemonTypes, WireTypes, Ownership, Exclusive, Blank
  <1>14. ASSUME NEW c \in Callers, TransportError(c) PROVE SameVersion'
    BY <1>14 DEF TransportError, IInv, TypeOK, ClientTypes, DaemonTypes, WireTypes, Ownership, Exclusive, Blank
  <1>15. ASSUME NEW c \in Callers, FlushOnDrop(c) PROVE SameVersion'
    <2>1. /\ pc[c] = "flush" /\ UNCHANGED <<dver, dreq, inner, conn>>
          /\ pc' = [pc EXCEPT ![c] = "shutdown"]
          /\ \A h \in Gens : h # conn[c] => c2d'[h] = c2d[h]
      BY <1>15 DEF FlushOnDrop, IInv, TypeOK, WireTypes
    <2>2. dver[conn[c]] = OurVersion
      BY <2>1 DEF IInv
    <2> QED BY <2>1, <2>2 DEF IInv, TypeOK, ClientTypes
  <1>16. ASSUME NEW c \in Callers, Shutdown(c) PROVE SameVersion'
    BY <1>16 DEF Shutdown, IInv, TypeOK, ClientTypes, DaemonTypes, WireTypes, Ownership, Exclusive, Blank
  <1>17. ASSUME NEW c \in Callers, ForceKill(c) PROVE SameVersion'
    BY <1>17 DEF ForceKill, IInv, TypeOK, ClientTypes, DaemonTypes, WireTypes, Ownership, Exclusive, Blank
  <1>18. ASSUME NEW c \in Callers, Reap(c) PROVE SameVersion'
    <2> DEFINE g == conn[c]
    <2>1. /\ UNCHANGED <<dver, inner>> /\ c2d' = [c2d EXCEPT ![g] = <<>>]
          /\ dreq' = [dreq EXCEPT ![g] = None]
      BY <1>18 DEF Reap
    <2>2. g \in Gens /\ \A d \in Callers : d # c => pc[d] \in {"idle", "lock"}
      BY <1>18, Alone, LinkedGen DEF Reap
    <2>3. pc' = [pc EXCEPT ![c] = "spawn"] \/ pc' = [pc EXCEPT ![c] = "idle"]
      BY <1>18 DEF Reap
    <2>4. \A d \in Callers : pc'[d] \notin Talking \cup {"flush"}
      BY <2>2, <2>3, ZenonT(60) DEF IInv, TypeOK, ClientTypes
    <2>5. \A h \in Gens : c2d'[h] # <<>> \/ dreq'[h] # None
                          => c2d[h] # <<>> \/ dreq[h] # None
      BY <2>1 DEF IInv, TypeOK, WireTypes, DaemonTypes
    <2> QED BY <2>1, <2>4, <2>5 DEF IInv
  <1>19. ASSUME NEW g \in Gens, DaemonInit(g) PROVE SameVersion'
    BY <1>19 DEF DaemonInit, IInv, TypeOK, ClientTypes, DaemonTypes, WireTypes, Ownership, Exclusive, Blank
  <1>20. ASSUME NEW g \in Gens, DaemonHello(g) PROVE SameVersion'
    BY <1>20 DEF DaemonHello, IInv, TypeOK, ClientTypes, DaemonTypes, WireTypes, Ownership, Exclusive, Blank
  <1>21. ASSUME NEW g \in Gens, DaemonRead(g) PROVE SameVersion'
    <2>1. /\ UNCHANGED <<dver, inner, pc, conn>>
          /\ \A h \in Gens : h # g => c2d'[h] = c2d[h] /\ dreq'[h] = dreq[h]
          /\ c2d[g] # <<>> \/ (c2d'[g] = c2d[g] /\ dreq'[g] = dreq[g])
      BY <1>21 DEF DaemonRead, IInv, TypeOK, DaemonTypes, WireTypes
    <2> QED BY <2>1 DEF IInv
  <1>22. ASSUME NEW g \in Gens, Dispatch(g) PROVE SameVersion'
    BY <1>22 DEF Dispatch, IInv, TypeOK, ClientTypes, DaemonTypes, WireTypes, Ownership, Exclusive, Blank
  <1>23. ASSUME NEW g \in Gens, ReplyHead(g) PROVE SameVersion'
    BY <1>23 DEF ReplyHead, IInv, TypeOK, ClientTypes, DaemonTypes, WireTypes, Ownership, Exclusive, Blank
  <1>24. ASSUME NEW g \in Gens, ReplyBody(g) PROVE SameVersion'
    BY <1>24 DEF ReplyBody, IInv, TypeOK, ClientTypes, DaemonTypes, WireTypes, Ownership, Exclusive, Blank
  <1>25. ASSUME NEW g \in Gens, DaemonDies(g) PROVE SameVersion'
    BY <1>25 DEF DaemonDies, IInv, TypeOK, ClientTypes, DaemonTypes, WireTypes, Ownership, Exclusive, Blank
  <1>26. CASE ProcessDies
    BY <1>26 DEF ProcessDies, IInv, TypeOK, ClientTypes, DaemonTypes, WireTypes, Ownership, Exclusive, Blank
  <1>27. CASE UNCHANGED vars
    BY <1>27 DEF vars, IInv, TypeOK, ClientTypes, DaemonTypes, WireTypes, Ownership, Exclusive, Blank
  <1> QED
    BY <1>1, <1>2, <1>3, <1>4, <1>5, <1>6, <1>7, <1>8, <1>9, <1>10, <1>11, <1>12, <1>13, <1>14, <1>15, <1>16, <1>17, <1>18, <1>19, <1>20, <1>21, <1>22, <1>23, <1>24, <1>25, <1>26, <1>27
    DEF Next, ThreadStep, DaemonStep, Quiescent

-----------------------------------------------------------------------------
(* Faults.                                                                 *)

(* A step of thread c while nobody else is past the lock.                  *)
LEMMA ThreadBooks ==
  ASSUME IInv, NEW c \in Callers,
         \A d \in Callers : d # c =>
            /\ pc[d] \in {"idle", "lock"} /\ pc'[d] = pc[d]
            /\ sends'[d] = sends[d] /\ reply'[d] = reply[d] /\ req'[d] = req[d],
         faults' \in {faults, 2} \/ (faults = 0 /\ faults' = 1),
         Books(c)',
         inner' # NoGen => shut'[inner'] = "open",
         AtRest'
  PROVE  Bookkeeping'
  <1>1. ASSUME NEW d \in Callers, d # c PROVE Books(d)'
    BY <1>1 DEF Books, IInv, Bookkeeping, TypeOK, DaemonTypes
  <1> QED BY <1>1 DEF Bookkeeping

(* A thread that is tearing down no longer depends on the daemon's life.   *)
LEMMA Reaping ==
  ASSUME IInv, NEW c \in Callers, pc[c] = "reap"
  PROVE  phase[c] # "fresh" /\ Busy(c) /\ pc[c] \notin Talking
  BY DEF IInv, Exclusive

(* A step of daemon g: it exits with a fault, or because the client has    *)
(* shut the socket down.                                                   *)
LEMMA DaemonBooks ==
  ASSUME IInv, NEW g \in Gens, UNCHANGED <<cvars, shut>>,
         \A h \in Gens : h # g => dpc'[h] = dpc[h],
         \/ faults' = faults /\ (Dead(g)' => Dead(g) \/ shut[g] # "open")
         \/ faults' = IF faults < 2 THEN faults + 1 ELSE faults
  PROVE  Bookkeeping'
  <1>1. /\ UNCHANGED <<instance, mutex, inner, pc, phase, conn, req, reply, sends>>
        /\ UNCHANGED shut
    OBVIOUS
  <1>2. faults \in 0..2
    BY DEF IInv, TypeOK, DaemonTypes
  <1>3. ASSUME NEW c \in Callers PROVE Books(c)'
    <2>1. Books(c)
      BY DEF IInv, Bookkeeping
    <2>2. CASE pc[c] \in Linked
      <3>1. conn[c] \in Gens
        BY <2>2, LinkedGen
      <3>2. \/ faults' = faults /\ (Dead(conn[c])' => Dead(conn[c]) \/ pc[c] = "reap")
            \/ faults' = IF faults < 2 THEN faults + 1 ELSE faults
        BY <1>1, <2>1, <2>2, <3>1 DEF Dead, Books
      <3> QED BY <1>1, <1>2, <2>1, <2>2, <3>2, Reaping DEF Books
    <2>3. CASE pc[c] \notin Linked
      <3>1. pc[c] \in {"idle", "lock", "spawn"}
        BY <2>3 DEF IInv, TypeOK, ClientTypes
      <3> QED BY <1>1, <1>2, <2>1, <3>1 DEF Books
    <2> QED BY <2>2, <2>3
  <1>4. AtRest'
    <2>1. AtRest /\ (inner # NoGen => inner \in Gens /\ shut[inner] = "open")
      BY DEF IInv, Bookkeeping, TypeOK, ClientTypes
    <2> QED BY <1>1, <1>2, <2>1 DEF AtRest, Dead
  <1> QED BY <1>1, <1>3, <1>4 DEF IInv, Bookkeeping

LEMMA BookkeepingStep == IInv /\ [Next]_vars => Bookkeeping'
  <1> SUFFICES ASSUME IInv, [Next]_vars PROVE Bookkeeping'
    OBVIOUS
  <1> USE NoneAssumption
  <1>1. ASSUME NEW c \in Callers, New(c) PROVE Bookkeeping'
    BY <1>1 DEF New, IInv, TypeOK, ClientTypes, DaemonTypes, Ownership, Exclusive, Bookkeeping, Books, AtRest
  <1>2. ASSUME NEW c \in Callers, NEW r \in Requests, Call(c, r) PROVE Bookkeeping'
    <2>1. /\ pc[c] = "idle" /\ pc'[c] \in {"idle", "lock"} /\ sends'[c] = 0
          /\ reply'[c] # Failed
          /\ UNCHANGED <<instance, mutex, inner, conn, shut, dpc, faults>>
      BY <1>2 DEF Call, IInv, TypeOK, ClientTypes, Failed, Rejected, Nothing
    <2>2. \A d \in Callers : d # c =>
             /\ pc'[d] = pc[d] /\ phase'[d] = phase[d] /\ req'[d] = req[d]
             /\ sends'[d] = sends[d] /\ reply'[d] = reply[d]
      BY <1>2 DEF Call, IInv, TypeOK, ClientTypes
    <2>3. Bookkeeping
      BY DEF IInv
    <2>4. Books(c)'
      BY <2>1 DEF Books
    <2>5. ASSUME NEW d \in Callers, d # c PROVE Books(d)'
      <3>1. Books(d)
        BY <2>3 DEF Bookkeeping
      <3> QED BY <2>1, <2>2, <2>5, <3>1 DEF Books, Dead
    <2>6. AtRest'
      BY <2>1, <2>3 DEF Bookkeeping, AtRest, Dead
    <2> QED BY <2>1, <2>3, <2>4, <2>5, <2>6 DEF Bookkeeping
  <1>3. ASSUME NEW c \in Callers, DropInstance(c) PROVE Bookkeeping'
    BY <1>3 DEF DropInstance, IInv, TypeOK, ClientTypes, DaemonTypes, Ownership, Exclusive, Bookkeeping, Books, AtRest
  <1>4. ASSUME NEW c \in Callers, Lock(c) PROVE Bookkeeping'
    <2>1. /\ pc[c] = "lock" /\ pc'[c] = (IF inner = NoGen THEN "spawn" ELSE "send")
          /\ mutex = NoOne /\ mutex' = c /\ conn'[c] = inner /\ phase'[c] = phase[c] /\ reply'[c] = reply[c] /\ req'[c] = req[c]
          /\ sends'[c] = sends[c]
          /\ UNCHANGED <<inner, dpc, shut, faults>>
      BY <1>4 DEF Lock, IInv, TypeOK, ClientTypes
    <2>2. \A d \in Callers : d # c =>
             /\ pc[d] \in {"idle", "lock"} /\ pc'[d] = pc[d]
             /\ sends'[d] = sends[d] /\ reply'[d] = reply[d] /\ req'[d] = req[d]
      BY <1>4, <2>1, Alone DEF Lock, IInv, TypeOK, ClientTypes
    <2>3. /\ Books(c) /\ AtRest /\ instance = "live" /\ phase[c] = "first"
          /\ (inner # NoGen => shut[inner] = "open")
      BY <2>1 DEF IInv, Bookkeeping, Exclusive
    <2>4. Books(c)'
      BY <2>1, <2>3 DEF Books, Dead, AtRest
    <2>5. (inner' # NoGen => shut'[inner'] = "open") /\ AtRest'
      BY <2>1, <2>3, NoneAssumption DEF AtRest, Dead
    <2> QED BY <2>1, <2>2, <2>4, <2>5, ThreadBooks
  <1>5. ASSUME NEW c \in Callers, SpawnDaemon(c) PROVE Bookkeeping'
    <2>1. /\ pc[c] = "spawn" /\ pc'[c] = "hello" /\ phase'[c] = phase[c] /\ reply'[c] = reply[c] /\ req'[c] = req[c]
          /\ sends'[c] = sends[c] /\ conn'[c] = spawned + 1
          /\ dpc' = [dpc EXCEPT ![spawned + 1] = "init"]
          /\ UNCHANGED <<inner, mutex, shut, faults>>
      BY <1>5 DEF SpawnDaemon, IInv, TypeOK, ClientTypes
    <2>2. \A d \in Callers : d # c =>
             /\ pc[d] \in {"idle", "lock"} /\ pc'[d] = pc[d]
             /\ sends'[d] = sends[d] /\ reply'[d] = reply[d] /\ req'[d] = req[d]
      BY <1>5, <2>1, Alone DEF SpawnDaemon, IInv, TypeOK, ClientTypes
    <2>3. /\ Books(c) /\ inner = NoGen /\ mutex = c /\ phase[c] # "giveup"
          /\ shut[spawned + 1] = "open" /\ dpc'[spawned + 1] = "init"
      BY <1>5, <2>1, Alone, BoundsAssumption
      DEF SpawnDaemon, IInv, Bookkeeping, TypeOK, DaemonTypes, Ownership,
          Exclusive, Blank
    <2>4. Books(c)'
      BY <2>1, <2>3 DEF Books, Dead
    <2>5. (inner' # NoGen => shut'[inner'] = "open") /\ AtRest'
      BY <2>1, <2>3, NoneAssumption DEF AtRest, Dead
    <2> QED BY <2>1, <2>2, <2>4, <2>5, ThreadBooks
  <1>6. ASSUME NEW c \in Callers, SpawnFails(c) PROVE Bookkeeping'
    BY <1>6 DEF SpawnFails, IInv, TypeOK, ClientTypes, DaemonTypes, Ownership, Exclusive, Bookkeeping, Books, AtRest
  <1>7. ASSUME NEW c \in Callers, Connected(c) PROVE Bookkeeping'
    <2> DEFINE g == conn[c]
    <2>1. /\ pc[c] = "hello" /\ g \in Gens
          /\ UNCHANGED <<phase, req, sends, dpc, shut, faults>>
          /\ inner' = IF phase[c] = "fresh" THEN inner ELSE g
      BY <1>7, LinkedGen DEF Connected
    <2>2. \A d \in Callers : d # c =>
             /\ pc[d] \in {"idle", "lock"} /\ pc'[d] = pc[d]
             /\ sends'[d] = sends[d] /\ reply'[d] = reply[d] /\ req'[d] = req[d]
      BY <1>7, <2>1, Alone, ZenonT(60) DEF Connected, IInv, TypeOK, ClientTypes
    <2>3. /\ Books(c) /\ inner = NoGen /\ mutex = c
          /\ phase[c] \in {"new", "first", "fresh"}
          /\ phase[c] = "new" => req[c] = None
      BY <2>1, Alone DEF IInv, Bookkeeping, Ownership, Exclusive
    <2>4. CASE phase[c] = "new"
      <3>1. /\ pc'[c] = "idle" /\ mutex' = NoOne
        BY <1>7, <2>4 DEF Connected, IInv, TypeOK, ClientTypes
      <3>2. Books(c)'
        BY <2>1, <2>3, <2>4, <3>1 DEF Books
      <3>3. Dead(g) => faults >= 1
        BY <2>1, <2>3, <2>4 DEF Books
      <3>4. AtRest' /\ (inner' # NoGen => shut'[inner'] = "open")
        BY <2>1, <2>3, <2>4, <3>1, <3>3 DEF Books, AtRest, Dead
      <3> QED BY <2>1, <2>2, <3>2, <3>4, ThreadBooks
    <2>5. CASE phase[c] # "new"
      <3>1. pc'[c] = "send" /\ UNCHANGED <<mutex, conn, reply>>
        BY <1>7, <2>5 DEF Connected, IInv, TypeOK, ClientTypes
      <3>2. Books(c)'
        BY <2>1, <2>3, <2>5, <3>1 DEF Books, Dead
      <3>3. AtRest' /\ (inner' # NoGen => shut'[inner'] = "open")
        BY <2>1, <2>3, <3>1 DEF Books, AtRest
      <3> QED BY <2>1, <2>2, <3>2, <3>3, ThreadBooks
    <2> QED BY <2>4, <2>5
  <1>8. ASSUME NEW c \in Callers, HandshakeFails(c) PROVE Bookkeeping'
    BY <1>8 DEF HandshakeFails, IInv, TypeOK, ClientTypes, DaemonTypes, Ownership, Exclusive, Bookkeeping, Books, AtRest
  <1>9. ASSUME NEW c \in Callers, Oversize(c) PROVE Bookkeeping'
    <2>1. /\ pc[c] = "send" /\ pc'[c] = "idle" /\ phase'[c] = phase[c] /\ req'[c] = req[c]
          /\ reply'[c] = Rejected /\ sends'[c] = sends[c] /\ mutex' = NoOne
          /\ UNCHANGED <<inner, dpc, shut, faults, instance>>
      BY <1>9 DEF Oversize, IInv, TypeOK, ClientTypes
    <2>2. \A d \in Callers : d # c =>
             /\ pc[d] \in {"idle", "lock"} /\ pc'[d] = pc[d]
             /\ sends'[d] = sends[d] /\ reply'[d] = reply[d] /\ req'[d] = req[d]
      BY <1>9, <2>1, Alone DEF Oversize, IInv, TypeOK, ClientTypes
    <2>3. /\ Books(c) /\ mutex = c /\ phase[c] = "first" /\ inner = conn[c]
          /\ conn[c] \in Gens
      BY <1>9, <2>1, Alone, LinkedGen
      DEF Oversize, IInv, Bookkeeping, Ownership, Exclusive
    <2>4. Books(c)'
      BY <2>1, <2>3 DEF Books, Dead, Failed, Rejected
    <2>5. (inner' # NoGen => shut'[inner'] = "open") /\ AtRest'
      BY <2>1, <2>3, NoneAssumption DEF AtRest, Dead, Books
    <2> QED BY <2>1, <2>2, <2>4, <2>5, ThreadBooks
  <1>10. ASSUME NEW c \in Callers, SendHead(c) PROVE Bookkeeping'
    <2>1. /\ pc[c] = "send" /\ pc'[c] = "send_body" /\ phase'[c] = phase[c] /\ reply'[c] = reply[c] /\ req'[c] = req[c]
          /\ sends'[c] = sends[c] + 1 /\ sends[c] \in Nat /\ conn'[c] = conn[c]
          /\ UNCHANGED <<inner, mutex, dpc, shut, faults>>
      BY <1>10 DEF SendHead, IInv, TypeOK, ClientTypes
    <2>2. \A d \in Callers : d # c =>
             /\ pc[d] \in {"idle", "lock"} /\ pc'[d] = pc[d]
             /\ sends'[d] = sends[d] /\ reply'[d] = reply[d] /\ req'[d] = req[d]
      BY <1>10, <2>1, Alone DEF SendHead, IInv, TypeOK, ClientTypes
    <2>3. /\ Books(c) /\ mutex = c /\ phase[c] \in {"first", "fresh"}
          /\ inner = (IF phase[c] = "first" THEN conn[c] ELSE NoGen)
          /\ faults \in 0..2
      BY <2>1, Alone
      DEF IInv, TypeOK, DaemonTypes, Bookkeeping, Ownership, Exclusive
    <2>4. Books(c)'
      BY <2>1, <2>3 DEF Books, Dead
    <2>5. (inner' # NoGen => shut'[inner'] = "open") /\ AtRest'
      BY <2>1, <2>3, NoneAssumption DEF AtRest, Dead, Books
    <2> QED BY <2>1, <2>2, <2>4, <2>5, ThreadBooks
  <1>11. ASSUME NEW c \in Callers, SendBody(c) PROVE Bookkeeping'
    <2>1. /\ pc[c] = "send_body" /\ pc'[c] = "recv" /\ phase'[c] = phase[c] /\ reply'[c] = reply[c] /\ req'[c] = req[c]
          /\ sends'[c] = sends[c] /\ sends[c] \in Nat /\ conn'[c] = conn[c]
          /\ UNCHANGED <<inner, mutex, dpc, shut, faults>>
      BY <1>11 DEF SendBody, IInv, TypeOK, ClientTypes
    <2>2. \A d \in Callers : d # c =>
             /\ pc[d] \in {"idle", "lock"} /\ pc'[d] = pc[d]
             /\ sends'[d] = sends[d] /\ reply'[d] = reply[d] /\ req'[d] = req[d]
      BY <1>11, <2>1, Alone DEF SendBody, IInv, TypeOK, ClientTypes
    <2>3. /\ Books(c) /\ mutex = c /\ phase[c] \in {"first", "fresh"}
          /\ inner = (IF phase[c] = "first" THEN conn[c] ELSE NoGen)
          /\ faults \in 0..2
      BY <2>1, Alone
      DEF IInv, TypeOK, DaemonTypes, Bookkeeping, Ownership, Exclusive
    <2>4. Books(c)'
      BY <2>1, <2>3 DEF Books, Dead
    <2>5. (inner' # NoGen => shut'[inner'] = "open") /\ AtRest'
      BY <2>1, <2>3, NoneAssumption DEF AtRest, Dead, Books
    <2> QED BY <2>1, <2>2, <2>4, <2>5, ThreadBooks
  <1>12. ASSUME NEW c \in Callers, RecvHead(c) PROVE Bookkeeping'
    <2>1. /\ pc[c] = "recv" /\ pc'[c] = "recv_body" /\ phase'[c] = phase[c] /\ reply'[c] = reply[c] /\ req'[c] = req[c]
          /\ sends'[c] = sends[c] /\ sends[c] \in Nat /\ conn'[c] = conn[c]
          /\ UNCHANGED <<inner, mutex, dpc, shut, faults>>
      BY <1>12 DEF RecvHead, IInv, TypeOK, ClientTypes
    <2>2. \A d \in Callers : d # c =>
             /\ pc[d] \in {"idle", "lock"} /\ pc'[d] = pc[d]
             /\ sends'[d] = sends[d] /\ reply'[d] = reply[d] /\ req'[d] = req[d]
      BY <1>12, <2>1, Alone DEF RecvHead, IInv, TypeOK, ClientTypes
    <2>3. /\ Books(c) /\ mutex = c /\ phase[c] \in {"first", "fresh"}
          /\ inner = (IF phase[c] = "first" THEN conn[c] ELSE NoGen)
          /\ faults \in 0..2
      BY <2>1, Alone
      DEF IInv, TypeOK, DaemonTypes, Bookkeeping, Ownership, Exclusive
    <2>4. Books(c)'
      BY <2>1, <2>3 DEF Books, Dead
    <2>5. (inner' # NoGen => shut'[inner'] = "open") /\ AtRest'
      BY <2>1, <2>3, NoneAssumption DEF AtRest, Dead, Books
    <2> QED BY <2>1, <2>2, <2>4, <2>5, ThreadBooks
  <1>13. ASSUME NEW c \in Callers, RecvBody(c) PROVE Bookkeeping'
    <2>1. /\ pc[c] = "recv_body" /\ pc'[c] = "idle" /\ phase'[c] = phase[c] /\ req'[c] = req[c]
          /\ reply'[c] # Failed /\ sends'[c] = sends[c] /\ mutex' = NoOne
          /\ inner' = conn[c]
          /\ UNCHANGED <<dpc, shut, faults, instance>>
      BY <1>13 DEF RecvBody, IInv, TypeOK, ClientTypes, Response, Failed
    <2>2. \A d \in Callers : d # c =>
             /\ pc[d] \in {"idle", "lock"} /\ pc'[d] = pc[d]
             /\ sends'[d] = sends[d] /\ reply'[d] = reply[d] /\ req'[d] = req[d]
      BY <1>13, <2>1, Alone DEF RecvBody, IInv, TypeOK, ClientTypes
    <2>3. /\ Books(c) /\ mutex = c /\ phase[c] \in {"first", "fresh"}
          /\ conn[c] \in Gens
      BY <1>13, <2>1, Alone, LinkedGen
      DEF RecvBody, IInv, Bookkeeping, Ownership, Exclusive
    <2>4. Books(c)'
      BY <2>1, <2>3 DEF Books, Dead
    <2>5. (inner' # NoGen => shut'[inner'] = "open") /\ AtRest'
      BY <2>1, <2>3, NoneAssumption DEF AtRest, Dead, Books
    <2> QED BY <2>1, <2>2, <2>4, <2>5, ThreadBooks
  <1>14. ASSUME NEW c \in Callers, TransportError(c) PROVE Bookkeeping'
    BY <1>14 DEF TransportError, IInv, TypeOK, ClientTypes, DaemonTypes, Ownership, Exclusive, Bookkeeping, Books, AtRest
  <1>15. ASSUME NEW c \in Callers, FlushOnDrop(c) PROVE Bookkeeping'
    BY <1>15 DEF FlushOnDrop, IInv, TypeOK, ClientTypes, DaemonTypes, Ownership, Exclusive, Bookkeeping, Books, AtRest
  <1>16. ASSUME NEW c \in Callers, Shutdown(c) PROVE Bookkeeping'
    BY <1>16 DEF Shutdown, IInv, TypeOK, ClientTypes, DaemonTypes, Ownership, Exclusive, Bookkeeping, Books, AtRest
  <1>17. ASSUME NEW c \in Callers, ForceKill(c) PROVE Bookkeeping'
    BY <1>17 DEF ForceKill, IInv, TypeOK, ClientTypes, DaemonTypes, Ownership, Exclusive, Bookkeeping, Books, AtRest
  <1>18. ASSUME NEW c \in Callers, Reap(c) PROVE Bookkeeping'
    <2> DEFINE g == conn[c]
    <2>1. /\ pc[c] = "reap" /\ g \in Gens
          /\ UNCHANGED <<inner, req, sends, faults>>
      BY <1>18, LinkedGen DEF Reap
    <2>2. \A d \in Callers : d # c =>
             /\ pc[d] \in {"idle", "lock"} /\ pc'[d] = pc[d]
             /\ sends'[d] = sends[d] /\ reply'[d] = reply[d] /\ req'[d] = req[d]
      BY <1>18, <2>1, Alone, ZenonT(60) DEF Reap, IInv, TypeOK, ClientTypes
    <2>3. /\ Books(c) /\ inner = NoGen /\ mutex = c /\ Busy(c) /\ pc[c] \in Closing
          /\ phase[c] \in {"new", "first", "giveup", "drop"}
          /\ phase[c] = "new" => req[c] = None
      BY <2>1, Alone DEF IInv, TypeOK, ClientTypes, Bookkeeping, Ownership, Exclusive
    <2>4. CASE phase[c] = "first"
      <3>1. /\ pc'[c] = "spawn" /\ phase'[c] = "fresh" /\ UNCHANGED <<mutex, reply>>
        BY <1>18, <2>4 DEF Reap, IInv, TypeOK, ClientTypes
      <3>2. Books(c)' /\ AtRest'
        BY <2>1, <2>3, <2>4, <3>1, NoneAssumption DEF Books, AtRest
      <3> QED BY <2>1, <2>2, <2>3, <3>2, ThreadBooks
    <2>5. CASE phase[c] # "first"
      <3>1. /\ pc'[c] = "idle" /\ UNCHANGED phase
            /\ reply'[c] = (IF phase[c] = "drop" THEN reply[c] ELSE Failed)
            /\ instance' = (IF phase[c] = "giveup" THEN "live" ELSE "absent")
        BY <1>18, <2>5 DEF Reap, IInv, TypeOK, ClientTypes
      <3>2. Books(c)' /\ AtRest'
        BY <2>1, <2>3, <2>5, <3>1 DEF Books, AtRest
      <3> QED BY <2>1, <2>2, <2>3, <3>2, ThreadBooks
    <2> QED BY <2>4, <2>5
  <1>19. ASSUME NEW g \in Gens, DaemonInit(g) PROVE Bookkeeping'
    <2>1. /\ UNCHANGED <<cvars, shut>> /\ \A h \in Gens : h # g => dpc'[h] = dpc[h]
          /\ \/ faults' = faults /\ (Dead(g)' => Dead(g) \/ shut[g] # "open")
             \/ faults' = IF faults < 2 THEN faults + 1 ELSE faults
      BY <1>19 DEF DaemonInit, Dead, IInv, TypeOK, DaemonTypes
    <2> QED BY <2>1, DaemonBooks
  <1>20. ASSUME NEW g \in Gens, DaemonHello(g) PROVE Bookkeeping'
    <2>1. /\ UNCHANGED <<cvars, shut>> /\ \A h \in Gens : h # g => dpc'[h] = dpc[h]
          /\ \/ faults' = faults /\ (Dead(g)' => Dead(g) \/ shut[g] # "open")
             \/ faults' = IF faults < 2 THEN faults + 1 ELSE faults
      BY <1>20 DEF DaemonHello, Dead, IInv, TypeOK, DaemonTypes
    <2> QED BY <2>1, DaemonBooks
  <1>21. ASSUME NEW g \in Gens, DaemonRead(g) PROVE Bookkeeping'
    <2>1. /\ UNCHANGED <<cvars, shut>> /\ \A h \in Gens : h # g => dpc'[h] = dpc[h]
          /\ \/ faults' = faults /\ (Dead(g)' => Dead(g) \/ shut[g] # "open")
             \/ faults' = IF faults < 2 THEN faults + 1 ELSE faults
      BY <1>21 DEF DaemonRead, Dead, IInv, TypeOK, DaemonTypes
    <2> QED BY <2>1, DaemonBooks
  <1>22. ASSUME NEW g \in Gens, Dispatch(g) PROVE Bookkeeping'
    <2>1. /\ UNCHANGED <<cvars, shut>> /\ \A h \in Gens : h # g => dpc'[h] = dpc[h]
          /\ \/ faults' = faults /\ (Dead(g)' => Dead(g) \/ shut[g] # "open")
             \/ faults' = IF faults < 2 THEN faults + 1 ELSE faults
      BY <1>22 DEF Dispatch, Dead, IInv, TypeOK, DaemonTypes
    <2> QED BY <2>1, DaemonBooks
  <1>23. ASSUME NEW g \in Gens, ReplyHead(g) PROVE Bookkeeping'
    <2>1. /\ UNCHANGED <<cvars, shut>> /\ \A h \in Gens : h # g => dpc'[h] = dpc[h]
          /\ \/ faults' = faults /\ (Dead(g)' => Dead(g) \/ shut[g] # "open")
             \/ faults' = IF faults < 2 THEN faults + 1 ELSE faults
      BY <1>23 DEF ReplyHead, Dead, IInv, TypeOK, DaemonTypes
    <2> QED BY <2>1, DaemonBooks
  <1>24. ASSUME NEW g \in Gens, ReplyBody(g) PROVE Bookkeeping'
    <2>1. /\ UNCHANGED <<cvars, shut>> /\ \A h \in Gens : h # g => dpc'[h] = dpc[h]
          /\ \/ faults' = faults /\ (Dead(g)' => Dead(g) \/ shut[g] # "open")
             \/ faults' = IF faults < 2 THEN faults + 1 ELSE faults
      BY <1>24 DEF ReplyBody, Dead, IInv, TypeOK, DaemonTypes
    <2> QED BY <2>1, DaemonBooks
  <1>25. ASSUME NEW g \in Gens, DaemonDies(g) PROVE Bookkeeping'
    <2>1. /\ UNCHANGED <<cvars, shut>> /\ \A h \in Gens : h # g => dpc'[h] = dpc[h]
          /\ \/ faults' = faults /\ (Dead(g)' => Dead(g) \/ shut[g] # "open")
             \/ faults' = IF faults < 2 THEN faults + 1 ELSE faults
      BY <1>25 DEF DaemonDies, Dead, IInv, TypeOK, DaemonTypes
    <2> QED BY <2>1, DaemonBooks
  <1>26. CASE ProcessDies
    BY <1>26 DEF ProcessDies, IInv, TypeOK, ClientTypes, DaemonTypes, Ownership, Exclusive, Bookkeeping, Books, AtRest
  <1>27. CASE UNCHANGED vars
    BY <1>27 DEF vars, IInv, Bookkeeping, Books, AtRest, Dead
  <1> QED
    BY <1>1, <1>2, <1>3, <1>4, <1>5, <1>6, <1>7, <1>8, <1>9, <1>10, <1>11, <1>12, <1>13, <1>14, <1>15, <1>16, <1>17, <1>18, <1>19, <1>20, <1>21, <1>22, <1>23, <1>24, <1>25, <1>26, <1>27
    DEF Next, ThreadStep, DaemonStep, Quiescent

-----------------------------------------------------------------------------
(* IInv holds in every reachable state.                                    *)
THEOREM Invariance == Spec => []IInv
  <1>1. IInv /\ [Next]_vars => TypeOK'
    BY ClientTypeStep, DaemonTypeStep, WireTypeStep DEF TypeOK
  <1>2. IInv /\ [Next]_vars => IInv'
    BY <1>1, ExclusiveStep, OwnershipStep, InStepStep, BlankStep, SameVersionStep,
       ResultsStep, BookkeepingStep DEF IInv
  <1> QED BY InitIInv, <1>2, PTL DEF Spec

(* Type correctness, with the bound on what a socket holds.                *)
THEOREM TypeCorrect == Spec => []TypeOK
  <1>1. IInv => TypeOK
    BY DEF IInv
  <1> QED BY Invariance, <1>1, PTL

(* Every response a call returns is the response to its own request,       *)
(* whatever was lost, retried or left over before (connection.rs:105-131). *)
THEOREM ResponsesMatch == Spec => []ResponseMatches
  <1>1. \A r : Response(r).req = r
    BY DEF Response
  <1>2. IInv => ResponseMatches
    BY <1>1 DEF IInv, Results, ResponseMatches
  <1> QED BY Invariance, <1>2, PTL

(* No orphaned and no second daemon (daemon.rs:53-65).                     *)
THEOREM DaemonsOwned == Spec => []OneOwnedDaemon
  <1>1. ASSUME IInv PROVE OneOwnedDaemon
    <2>1. ASSUME NEW g \in Gens, Unreaped(g), Alive
          PROVE  inner = g \/ \E c \in Callers : mutex = c /\ conn[c] = g
      BY <1>1, <2>1 DEF IInv, Ownership
    <2>2. ASSUME NEW g \in Gens, NEW h \in Gens, Unreaped(g), Unreaped(h), Alive
          PROVE  g = h
      <3>1. CASE inner = g /\ inner = h
        BY <3>1
      <3>2. ASSUME NEW c \in Callers, mutex = c, conn[c] \in {g, h}
            PROVE  inner = NoGen \/ inner = conn[c]
        <4>1. pc[c] \in Linked /\ pc[c] \in ClientPC
          BY <1>1, <3>2 DEF IInv, TypeOK, ClientTypes, Ownership
        <4> QED BY <1>1, <4>1 DEF IInv, Ownership
      <3> QED BY <2>1, <2>2, <3>1, <3>2
    <2> QED BY <2>1, <2>2 DEF OneOwnedDaemon, Alive
  <1> QED BY Invariance, <1>1, PTL

(* No request reaches a daemon of another protocol version.                *)
THEOREM VersionsGated == Spec => []VersionGate
  <1>1. IInv => VersionGate
    BY DEF IInv, SameVersion
  <1> QED BY Invariance, <1>1, PTL

(* At most one resend, and only after a fault (connection.rs:116-130).     *)
THEOREM RetriesAreJustified == Spec => []RetryOnlyAfterFault
  <1>1. IInv => RetryOnlyAfterFault
    BY DEF IInv, Bookkeeping, Books, RetryOnlyAfterFault
  <1> QED BY Invariance, <1>1, PTL

(* One fault never makes a method call fail (connection.rs:117-121).       *)
THEOREM FaultsAreMasked == Spec => []OneFaultIsMasked
  <1>1. IInv => OneFaultIsMasked
    BY DEF IInv, Bookkeeping, Books, OneFaultIsMasked
  <1> QED BY Invariance, <1>1, PTL

-----------------------------------------------------------------------------
(* IpcConnection implements RpcService: every step of a thread, a daemon   *)
(* or the environment is a step of the abstract service or a stutter.      *)

AbstractStep == [Rpc!Next]_Rpc!vars

LEMMA PendingKept ==
  ASSUME \A c \in Callers : InCall(c)' <=> InCall(c)
  PROVE  Pending' = Pending
  <1>1. \A c \in Callers : InCall(c)' = InCall(c)
    BY DEF InCall
  <1> QED BY <1>1 DEF Pending

(* Steps the callers of the service cannot see.                            *)
LEMMA Hidden ==
  ASSUME Service' = Service, \A c \in Callers : InCall(c)' <=> InCall(c),
         UNCHANGED <<req, reply>>
  PROVE  AbstractStep
  <1>1. Pending' = Pending
    BY PendingKept
  <1> QED BY <1>1 DEF AbstractStep, Rpc!vars

(* The last step of a call: the abstract service is up and c is pending.   *)
LEMMA Finishes ==
  ASSUME NEW c \in Callers, NEW o,
         Service = "up", Service' = "up", InCall(c),
         \A d \in Callers : InCall(d)' <=> InCall(d) /\ d # c,
         UNCHANGED req, reply' = [reply EXCEPT ![c] = o],
         \/ o = Failed
         \/ o = Response(req[c]) /\ req[c] \in Answers
         \/ o = Rejected /\ req[c] \in Refusals
  PROVE  AbstractStep
  <1>1. \A d \in Callers : InCall(d)' = IF d = c THEN FALSE ELSE InCall(d)
    BY DEF InCall
  <1>2. Pending[c] /\ Pending' = [Pending EXCEPT ![c] = FALSE]
    BY <1>1 DEF Pending
  <1>3. Rpc!Finish(c, o)
    BY <1>2 DEF Rpc!Finish
  <1>4. Rpc!Answer(c) \/ Rpc!Refuse(c) \/ Rpc!Fail(c)
    BY <1>3 DEF Rpc!Answer, Rpc!Refuse, Rpc!Fail, Rpc!Response, Rpc!Failed,
       Rpc!Rejected, Response, Failed, Rejected
  <1> QED BY <1>4 DEF AbstractStep, Rpc!Next

(* The constructor's outcome.                                              *)
LEMMA Constructs ==
  ASSUME NEW c \in Callers, NEW o \in {Nothing, Failed},
         Service = "down", Service' \in {"down", "up"},
         \A d \in Callers : InCall(d)' <=> InCall(d),
         req' = [req EXCEPT ![c] = None], reply' = [reply EXCEPT ![c] = o]
  PROVE  AbstractStep
  <1>1. Pending' = Pending
    BY PendingKept
  <1>2. Rpc!Construct(c)
    BY <1>1 DEF Rpc!Construct, Rpc!Nothing, Rpc!Failed, Nothing, Failed
  <1> QED BY <1>2 DEF AbstractStep, Rpc!Next
-----------------------------------------------------------------------------
(* Every step of the detailed system is one of the service, or hidden.        *)

USE DEF cvars, dvars, Return, DaemonOnly, Write, DaemonWrite, Busy, Linked,
        Talking, Closing, ClientPC

LEMMA RefinementStep == IInv /\ [Next]_vars => AbstractStep
  <1> SUFFICES ASSUME IInv, [Next]_vars PROVE AbstractStep
    OBVIOUS
  <1> USE NoneAssumption
  <1>1. ASSUME NEW c \in Callers, New(c) PROVE AbstractStep
    BY <1>1, Constructs DEF New, IInv, TypeOK, ClientTypes, Exclusive, InCall, Service
  <1>2. ASSUME NEW c \in Callers, NEW r \in Requests, Call(c, r) PROVE AbstractStep
    <2>1. Service = "up" /\ Service' = "up" /\ ~ InCall(c) /\ ~ Pending[c]
      BY <1>2 DEF Call, InCall, Service, Pending
    <2>2. \A d \in Callers : d # c => InCall(d)' <=> InCall(d)
      BY <1>2 DEF Call, InCall, IInv, TypeOK, ClientTypes
    <2>3. CASE Kind[r] = "overcount"
      <3>1. ~ InCall(c)' /\ reply' = [reply EXCEPT ![c] = Rejected] /\ r \in Refusals
            /\ req' = [req EXCEPT ![c] = r]
        BY <1>2, <2>3 DEF Call, InCall, Refusals
      <3>2. Pending' = Pending
        BY <2>1, <2>2, <3>1, PendingKept
      <3>3. Rpc!Invoke(c, r)
        BY <2>1, <3>1, <3>2 DEF Rpc!Invoke, Rpc!Rejected, Rejected
      <3> QED BY <3>3 DEF AbstractStep, Rpc!Next
    <2>4. CASE Kind[r] # "overcount"
      <3>1. InCall(c)' /\ reply' = [reply EXCEPT ![c] = Nothing]
            /\ req' = [req EXCEPT ![c] = r]
        BY <1>2, <2>4 DEF Call, InCall, IInv, TypeOK, ClientTypes
      <3>2. \A d \in Callers : InCall(d)' = IF d = c THEN TRUE ELSE InCall(d)
        BY <2>2, <3>1 DEF InCall
      <3>3. Pending' = [Pending EXCEPT ![c] = TRUE]
        BY <3>2 DEF Pending
      <3>4. Rpc!Invoke(c, r)
        BY <2>1, <3>1, <3>3 DEF Rpc!Invoke, Rpc!Nothing, Nothing
      <3> QED BY <3>4 DEF AbstractStep, Rpc!Next
    <2> QED BY <2>3, <2>4
  <1>3. ASSUME NEW c \in Callers, DropInstance(c) PROVE AbstractStep
    <2>1. /\ Service = "up" /\ Service' = "down" /\ UNCHANGED <<req, reply>>
          /\ \A d \in Callers : ~ InCall(d) /\ ~ InCall(d)'
      BY <1>3 DEF DropInstance, InCall, Service, IInv, TypeOK, ClientTypes
    <2>2. Pending' = Pending /\ \A d \in Callers : ~ Pending[d]
      BY <2>1, PendingKept DEF Pending
    <2>3. Rpc!Drop
      BY <2>1, <2>2 DEF Rpc!Drop
    <2> QED BY <2>3 DEF AbstractStep, Rpc!Next
  <1>4. ASSUME NEW c \in Callers, Lock(c) PROVE AbstractStep
    BY <1>4, Alone, Hidden DEF Lock, IInv, TypeOK, ClientTypes, Exclusive, InCall, Service
  <1>5. ASSUME NEW c \in Callers, SpawnDaemon(c) PROVE AbstractStep
    BY <1>5, Alone, Hidden DEF SpawnDaemon, IInv, TypeOK, ClientTypes, Exclusive, InCall, Service
  <1>6. ASSUME NEW c \in Callers, SpawnFails(c) PROVE AbstractStep
    <2>1. /\ pc[c] = "spawn" /\ UNCHANGED <<phase, req>>
          /\ pc' = [pc EXCEPT ![c] = "idle"] /\ reply' = [reply EXCEPT ![c] = Failed]
          /\ phase[c] \in {"new", "first", "fresh"}
          /\ \A d \in Callers : InCall(d)' <=> InCall(d) /\ d # c
      BY <1>6 DEF SpawnFails, IInv, TypeOK, ClientTypes, Exclusive, InCall
    <2>2. CASE phase[c] = "new"
      <3>1. /\ Service = "down" /\ Service' = "down" /\ ~ InCall(c) /\ req[c] = None
        BY <1>6, <2>1, <2>2 DEF SpawnFails, IInv, Exclusive, Service, InCall
      <3>2. req' = [req EXCEPT ![c] = None]
        BY <2>1, <3>1 DEF IInv, TypeOK, ClientTypes
      <3> QED BY <2>1, <3>1, <3>2, Constructs
    <2>3. CASE phase[c] # "new"
      <3>1. Service = "up" /\ Service' = "up" /\ InCall(c)
        BY <1>6, <2>1, <2>3 DEF SpawnFails, IInv, Exclusive, Service, InCall
      <3> QED BY <2>1, <3>1, Finishes
    <2> QED BY <2>2, <2>3
  <1>7. ASSUME NEW c \in Callers, Connected(c) PROVE AbstractStep
    <2>1. /\ pc[c] = "hello" /\ UNCHANGED <<phase, req>>
          /\ phase[c] \in {"new", "first", "fresh"}
      BY <1>7 DEF Connected, IInv, Exclusive
    <2>2. CASE phase[c] = "new"
      <3>1. /\ Service = "down" /\ Service' = "up" /\ req[c] = None
            /\ reply' = [reply EXCEPT ![c] = Nothing]
            /\ pc' = [pc EXCEPT ![c] = "idle"]
        BY <1>7, <2>1, <2>2 DEF Connected, IInv, Exclusive, Service
      <3>2. /\ req' = [req EXCEPT ![c] = None]
            /\ \A d \in Callers : InCall(d)' <=> InCall(d)
        BY <2>1, <2>2, <3>1 DEF IInv, TypeOK, ClientTypes, InCall
      <3> QED BY <3>1, <3>2, Constructs
    <2>3. CASE phase[c] # "new"
      <3>1. /\ pc' = [pc EXCEPT ![c] = "send"] /\ UNCHANGED <<instance, reply>>
        BY <1>7, <2>3 DEF Connected
      <3>2. \A d \in Callers : InCall(d)' <=> InCall(d)
        BY <2>1, <3>1 DEF IInv, TypeOK, ClientTypes, InCall
      <3> QED BY <2>1, <3>1, <3>2, Hidden DEF Service
    <2> QED BY <2>2, <2>3
  <1>8. ASSUME NEW c \in Callers, HandshakeFails(c) PROVE AbstractStep
    BY <1>8, Alone, Hidden DEF HandshakeFails, IInv, TypeOK, ClientTypes, Exclusive, InCall, Service
  <1>9. ASSUME NEW c \in Callers, Oversize(c) PROVE AbstractStep
    <2>1. /\ pc[c] = "send" /\ UNCHANGED <<phase, req, instance>>
          /\ reply' = [reply EXCEPT ![c] = Rejected] /\ Kind[req[c]] = "oversize"
          /\ pc' = [pc EXCEPT ![c] = "idle"]
      BY <1>9 DEF Oversize
    <2>2. /\ instance = "live" /\ InCall(c) /\ req[c] \in Requests
          /\ \A d \in Callers : InCall(d)' <=> InCall(d) /\ d # c
      BY <2>1 DEF IInv, TypeOK, ClientTypes, Exclusive, InCall
    <2> QED BY <2>1, <2>2, Finishes DEF Service, Refusals
  <1>10. ASSUME NEW c \in Callers, SendHead(c) PROVE AbstractStep
    BY <1>10, Alone, Hidden DEF SendHead, IInv, TypeOK, ClientTypes, Exclusive, InCall, Service
  <1>11. ASSUME NEW c \in Callers, SendBody(c) PROVE AbstractStep
    BY <1>11, Alone, Hidden DEF SendBody, IInv, TypeOK, ClientTypes, Exclusive, InCall, Service
  <1>12. ASSUME NEW c \in Callers, RecvHead(c) PROVE AbstractStep
    BY <1>12, Alone, Hidden DEF RecvHead, IInv, TypeOK, ClientTypes, Exclusive, InCall, Service
  <1>13. ASSUME NEW c \in Callers, RecvBody(c) PROVE AbstractStep
    <2>1. /\ pc[c] = "recv_body" /\ UNCHANGED <<phase, req, instance>>
          /\ pc' = [pc EXCEPT ![c] = "idle"]
          /\ reply' = [reply EXCEPT ![c] = Response(Head(d2c[conn[c]]).req)]
      BY <1>13 DEF RecvBody
    <2>2. /\ reply' = [reply EXCEPT ![c] = Response(req[c])]
          /\ req[c] \in Answers
      BY <1>13, <2>1, OwnResponse DEF Answers, Served
    <2>3. /\ instance = "live" /\ InCall(c)
          /\ \A d \in Callers : InCall(d)' <=> InCall(d) /\ d # c
      BY <2>1 DEF IInv, TypeOK, ClientTypes, Exclusive, InCall
    <2> QED BY <2>1, <2>2, <2>3, Finishes DEF Service
  <1>14. ASSUME NEW c \in Callers, TransportError(c) PROVE AbstractStep
    <2>1. /\ pc[c] \in Talking /\ UNCHANGED <<instance, req, reply>>
          /\ \E p \in {"flush", "shutdown"} : pc' = [pc EXCEPT ![c] = p]
          /\ \E p \in {"first", "giveup"} : phase' = [phase EXCEPT ![c] = p]
      BY <1>14 DEF TransportError, TearDown, RetryOnce, SendRecvFails
    <2>2. phase[c] \in {"first", "fresh"}
      BY <2>1 DEF IInv, Exclusive
    <2>3. \A d \in Callers : InCall(d)' <=> InCall(d)
      BY <2>1, <2>2 DEF IInv, TypeOK, ClientTypes, InCall
    <2> QED BY <2>1, <2>3, Hidden DEF Service
  <1>15. ASSUME NEW c \in Callers, FlushOnDrop(c) PROVE AbstractStep
    BY <1>15, Alone, Hidden DEF FlushOnDrop, IInv, TypeOK, ClientTypes, Exclusive, InCall, Service
  <1>16. ASSUME NEW c \in Callers, Shutdown(c) PROVE AbstractStep
    BY <1>16, Alone, Hidden DEF Shutdown, IInv, TypeOK, ClientTypes, Exclusive, InCall, Service
  <1>17. ASSUME NEW c \in Callers, ForceKill(c) PROVE AbstractStep
    BY <1>17, Alone, Hidden DEF ForceKill, IInv, TypeOK, ClientTypes, Exclusive, InCall, Service
  <1>18. ASSUME NEW c \in Callers, Reap(c) PROVE AbstractStep
    <2>1. /\ pc[c] = "reap" /\ UNCHANGED req
          /\ phase[c] \in {"new", "first", "giveup", "drop"}
      BY <1>18 DEF Reap, IInv, TypeOK, ClientTypes, Exclusive
    <2>2. CASE phase[c] = "first"
      <3>1. /\ pc' = [pc EXCEPT ![c] = "spawn"] /\ phase' = [phase EXCEPT ![c] = "fresh"]
            /\ UNCHANGED <<instance, reply>>
        BY <1>18, <2>2 DEF Reap
      <3>2. \A d \in Callers : InCall(d)' <=> InCall(d)
        BY <2>1, <2>2, <3>1 DEF IInv, TypeOK, ClientTypes, InCall
      <3> QED BY <2>1, <3>1, <3>2, Hidden DEF Service
    <2>3. CASE phase[c] # "first"
      <3>1. /\ pc' = [pc EXCEPT ![c] = "idle"] /\ UNCHANGED phase
            /\ reply' = [reply EXCEPT ![c] = IF phase[c] = "drop" THEN reply[c] ELSE Failed]
            /\ instance' = IF phase[c] = "giveup" THEN "live" ELSE "absent"
        BY <1>18, <2>3 DEF Reap
      <3>2. /\ \A d \in Callers : InCall(d)' <=> InCall(d) /\ d # c
            /\ InCall(c) <=> phase[c] = "giveup"
        BY <2>1, <2>3, <3>1 DEF IInv, TypeOK, ClientTypes, InCall
      <3>3. CASE phase[c] = "giveup"
        <4>1. Service = "up" /\ Service' = "up"
          BY <2>1, <3>1, <3>3 DEF IInv, Exclusive, Service
        <4> QED BY <2>1, <3>1, <3>2, <3>3, <4>1, Finishes
      <3>4. CASE phase[c] = "new"
        <4>1. Service = "down" /\ Service' = "down" /\ req[c] = None
          BY <2>1, <3>1, <3>4 DEF IInv, Exclusive, Service
        <4>2. req' = [req EXCEPT ![c] = None]
          BY <2>1, <4>1 DEF IInv, TypeOK, ClientTypes
        <4> QED BY <3>1, <3>2, <3>4, <4>1, <4>2, Constructs
      <3>5. CASE phase[c] = "drop"
        <4>1. Service = "down" /\ Service' = "down"
          BY <2>1, <3>1, <3>5 DEF IInv, Exclusive, Service
        <4>2. UNCHANGED reply
          BY <3>1, <3>5 DEF IInv, TypeOK, ClientTypes
        <4> QED BY <2>1, <3>2, <3>5, <4>1, <4>2, Hidden
      <3> QED BY <2>1, <2>3, <3>3, <3>4, <3>5
    <2> QED BY <2>2, <2>3
  <1>19. ASSUME NEW g \in Gens, DaemonInit(g) PROVE AbstractStep
    BY <1>19, Hidden DEF DaemonInit, InCall, Service
  <1>20. ASSUME NEW g \in Gens, DaemonHello(g) PROVE AbstractStep
    BY <1>20, Hidden DEF DaemonHello, InCall, Service
  <1>21. ASSUME NEW g \in Gens, DaemonRead(g) PROVE AbstractStep
    BY <1>21, Hidden DEF DaemonRead, InCall, Service
  <1>22. ASSUME NEW g \in Gens, Dispatch(g) PROVE AbstractStep
    BY <1>22, Hidden DEF Dispatch, InCall, Service
  <1>23. ASSUME NEW g \in Gens, ReplyHead(g) PROVE AbstractStep
    BY <1>23, Hidden DEF ReplyHead, InCall, Service
  <1>24. ASSUME NEW g \in Gens, ReplyBody(g) PROVE AbstractStep
    BY <1>24, Hidden DEF ReplyBody, InCall, Service
  <1>25. ASSUME NEW g \in Gens, DaemonDies(g) PROVE AbstractStep
    BY <1>25, Hidden DEF DaemonDies, InCall, Service
  <1>26. CASE ProcessDies
    <2>1. /\ Service # "gone" /\ Service' = "gone" /\ UNCHANGED <<req, reply>>
          /\ pc' = [c \in Callers |-> "idle"]
      BY <1>26 DEF ProcessDies, Service
    <2>2. Pending' = [c \in Callers |-> FALSE]
      BY <2>1 DEF Pending, InCall
    <2>3. Rpc!Die
      BY <2>1, <2>2 DEF Rpc!Die
    <2> QED BY <2>3 DEF AbstractStep, Rpc!Next
  <1>27. CASE UNCHANGED vars
    BY <1>27, Hidden DEF vars, InCall, Service
  <1> QED
    BY <1>1, <1>2, <1>3, <1>4, <1>5, <1>6, <1>7, <1>8, <1>9, <1>10, <1>11, <1>12, <1>13, <1>14, <1>15, <1>16, <1>17, <1>18, <1>19, <1>20, <1>21, <1>22, <1>23, <1>24, <1>25, <1>26, <1>27
    DEF Next, ThreadStep, DaemonStep, Quiescent

(* The connection implements the service it promises (lib.rs:38-47): each  *)
(* call ends in the response to its own request, in a refusal of a request *)
(* that cannot be encoded, or in a transport error.                        *)
THEOREM Refinement == Spec => RpcSpec
  <1>1. Init => Rpc!Init
    BY DEF Init, Rpc!Init, Service, Pending, InCall, Nothing, Rpc!Nothing
  <1>2. IInv /\ [Next]_vars => [Rpc!Next]_Rpc!vars
    BY RefinementStep DEF AbstractStep
  <1> QED BY Invariance, <1>1, <1>2, PTL DEF Spec, RpcSpec, Rpc!Spec

=============================================================================
