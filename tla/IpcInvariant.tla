----------------------------- MODULE IpcInvariant -----------------------------
(***************************************************************************)
(* The inductive invariant of IpcConnection: what is true between any two  *)
(* steps, in layers that rest on each other.                               *)
(***************************************************************************)
EXTENDS IpcConnection

Linked   == {"hello", "send", "send_body", "recv", "recv_body", "flush",
             "shutdown", "reap"}                  \* conn is a generation
Talking  == {"send", "send_body", "recv", "recv_body"}
Closing  == {"flush", "shutdown", "reap"}

Busy(c)  == pc[c] \notin {"idle", "lock"}
Alive    == instance # "dead"

-----------------------------------------------------------------------------
(* Who may touch the connection, and in which part of its life.            *)

Exclusive ==
    /\ \A c \in Callers : Busy(c) <=> mutex = c
    /\ instance \in {"absent", "dead"} => \A c \in Callers : pc[c] = "idle"
    /\ \A c \in Callers :
          /\ pc[c] = "lock" => instance = "live" /\ phase[c] = "first"
          /\ Busy(c) => CASE phase[c] = "new"  -> instance = "making"
                          [] phase[c] = "drop" -> instance = "dropping"
                          [] OTHER             -> instance = "live"
          /\ Busy(c) /\ phase[c] = "new"    => req[c] = None
          /\ InCall(c)                      => req[c] \in Requests
          /\ pc[c] \in {"spawn", "hello"}   => phase[c] \in {"new", "first", "fresh"}
          /\ pc[c] \in Talking              => phase[c] \in {"first", "fresh"}
          /\ pc[c] \in Closing              => phase[c] # "fresh"
          /\ pc[c] = "flush"                => phase[c] \in {"first", "giveup"}
          /\ \/ pc[c] \in {"send_body", "recv", "recv_body"}
             \/ pc[c] \in Closing /\ phase[c] = "first"
             \/ Busy(c) /\ phase[c] = "fresh"
             => Kind[req[c]] # "oversize"

(* Which generation is whose.                                              *)
Ownership ==
    /\ \A g \in Gens : dpc[g] = "none" <=> g > spawned
    /\ inner # NoGen => instance = "live" /\ Unreaped(inner)
    /\ \A c \in Callers :
          /\ pc[c] \notin Linked => conn[c] = NoGen
          /\ pc[c] \in Linked    => conn[c] # NoGen /\ Unreaped(conn[c])
          /\ pc[c] \in {"spawn", "hello"} \cup Closing => inner = NoGen
          /\ pc[c] \in Talking   => inner = IF phase[c] = "first" THEN conn[c]
                                                                  ELSE NoGen
    /\ Alive => \A g \in Gens : Unreaped(g)
                  => inner = g \/ \E c \in Callers : mutex = c /\ conn[c] = g

-----------------------------------------------------------------------------
(* What is on the sockets.                                                 *)

Served(r)   == Kind[r] \in {"good", "diag"}
Clean(g)    == /\ d2c[g] = <<>>
               /\ dpc[g] = "exited" \/ (dpc[g] = "read" /\ c2d[g] = <<>>)

Greeting(g) == /\ c2d[g] = <<>> /\ dreq[g] = None
               /\ \/ dpc[g] \in {"init", "hello", "exited"} /\ d2c[g] = <<>>
                  \/ dpc[g] \in {"read", "exited"} /\ d2c[g] = <<Hello(dver[g])>>

HalfAsked(g, r) ==
    /\ d2c[g] = <<>>
    /\ \/ dpc[g] = "read" /\ c2d[g] = <<Chunk("head", r)>>
       \/ dpc[g] = "read_body" /\ c2d[g] = <<>> /\ dreq[g] = r
       \/ dpc[g] = "exited"

Asked(g, r) ==
    \/ /\ d2c[g] = <<>>
       /\ \/ dpc[g] = "read" /\ c2d[g] = <<Chunk("head", r), Chunk("body", r)>>
          \/ dpc[g] = "read_body" /\ c2d[g] = <<Chunk("body", r)>> /\ dreq[g] = r
          \/ dpc[g] = "dispatch" /\ c2d[g] = <<>> /\ dreq[g] = r
          \/ dpc[g] = "reply" /\ c2d[g] = <<>> /\ dreq[g] = r /\ Served(r)
          \/ dpc[g] = "exited"
    \/ /\ d2c[g] = <<Chunk("head", r)>> /\ Served(r)
       /\ \/ dpc[g] = "reply_body" /\ c2d[g] = <<>> /\ dreq[g] = r
          \/ dpc[g] = "exited"
    \/ /\ d2c[g] = <<Chunk("head", r), Chunk("body", r)>> /\ Served(r)
       /\ dpc[g] = "exited" \/ (dpc[g] = "read" /\ c2d[g] = <<>>)

HalfAnswered(g, r) ==
    /\ Served(r)
    /\ \/ /\ d2c[g] = <<>>
          /\ \/ dpc[g] = "reply_body" /\ c2d[g] = <<>> /\ dreq[g] = r
             \/ dpc[g] = "exited"
       \/ /\ d2c[g] = <<Chunk("body", r)>>
          /\ dpc[g] = "exited" \/ (dpc[g] = "read" /\ c2d[g] = <<>>)

(* Thread c and its daemon agree on where in the conversation they are.    *)
Agreed(c) ==
    /\ pc[c] = "hello"     => Greeting(conn[c])
    /\ pc[c] = "send"      => Clean(conn[c])
    /\ pc[c] = "send_body" => HalfAsked(conn[c], req[c])
    /\ pc[c] = "recv"      => Asked(conn[c], req[c])
    /\ pc[c] = "recv_body" => HalfAnswered(conn[c], req[c])

InStep ==
    /\ mutex = NoOne /\ inner # NoGen => Clean(inner)
    /\ \A c \in Callers : Agreed(c)

(* Generations that are not running hold nothing, a serving one a request. *)
Blank ==
    \A g \in Gens :
        /\ ~ Unreaped(g) => c2d[g] = <<>> /\ d2c[g] = <<>> /\ dreq[g] = None
        /\ dpc[g] \in {"read_body", "dispatch", "reply", "reply_body"}
              => dreq[g] \in Requests
        /\ dpc[g] = "none" => shut[g] = "open"

(* Only a daemon that passed the handshake is used.                        *)
SameVersion ==
    /\ VersionGate
    /\ inner # NoGen => dver[inner] = OurVersion
    /\ \A c \in Callers :
          pc[c] \in Talking \cup {"flush"} => dver[conn[c]] = OurVersion

Results ==
    \A c \in Callers : reply[c].kind = "response" => reply[c] = Response(req[c])

-----------------------------------------------------------------------------
(* What a torn-down connection proves about the faults so far.             *)

(* The faults behind the state of thread c, and what it has sent.          *)
Books(c) ==
    /\ pc[c] \in Linked \ {"reap"} => shut[conn[c]] = "open"
    /\ Busy(c) /\ phase[c] = "new" /\ pc[c] = "hello" /\ Dead(conn[c])
          => faults >= 1
    /\ Busy(c) /\ phase[c] = "first" =>
          /\ pc[c] \in {"spawn", "hello"} => faults = 2
          /\ pc[c] \in Talking /\ Dead(conn[c]) => faults >= 1
          /\ pc[c] \in Closing => faults >= 1
          /\ sends[c] <= IF pc[c] \in {"spawn", "hello", "send"} THEN 0 ELSE 1
    /\ Busy(c) /\ phase[c] = "fresh" =>
          /\ faults >= 1
          /\ pc[c] # "spawn" /\ Dead(conn[c]) => faults = 2
          /\ pc[c] \in {"spawn", "hello", "send"} => sends[c] <= 1
    /\ Busy(c) /\ phase[c] = "giveup" => faults = 2
    /\ pc[c] = "lock" => sends[c] = 0
    /\ sends[c] <= 2 /\ (sends[c] = 2 => faults > 0)
    /\ faults <= 1 /\ req[c] # None => reply[c] # Failed

(* The faults behind an instance that nobody is using.                     *)
AtRest ==
    mutex = NoOne /\ instance = "live" =>
        IF inner = NoGen THEN faults = 2 ELSE Dead(inner) => faults >= 1

Bookkeeping ==
    /\ inner # NoGen => shut[inner] = "open"
    /\ \A c \in Callers : Books(c)
    /\ AtRest

IInv == /\ TypeOK /\ Exclusive /\ Ownership /\ InStep /\ Blank
        /\ SameVersion /\ Results /\ Bookkeeping
=============================================================================
