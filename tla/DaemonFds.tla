----------------------------- MODULE DaemonFds -----------------------------
(***************************************************************************)
(* The file-descriptor tables of one client process that spawns several    *)
(* daemons at once, each from a thread of its own, and starts children of  *)
(* its own meanwhile (src/bindings/rust-ipc/src/daemon.rs, spawn_with and  *)
(* Drop).  A fork copies the whole table, so a child holds ends of every   *)
(* socket the client has open until its exec closes those marked CLOEXEC.  *)
(* A daemon learns of the client's end from end of file alone, which comes *)
(* when no process holds the client's end any more: what IpcConnection     *)
(* takes for granted of the one connection it models is shown here.        *)
(*                                                                         *)
(* Each member of Daemons is one value of the Rust type Daemon, used once: *)
(* a respawn is another member.  Frames are left to IpcConnection.         *)
(***************************************************************************)
CONSTANTS
    Host,       \* the client process
    Daemons,    \* the Daemon values it makes
    Strangers   \* other children it starts with std::process::Command

Children == Daemons \cup Strangers
Processes == Children \cup {Host}

ASSUME DistinctAssumption == Host \notin Children /\ Daemons \cap Strangers = {}

VARIABLES
    alive,      \* whether the client process runs
    thread,     \* where the client is with each Daemon value
    proc,       \* the state of each child process
    open,       \* the socket ends each process holds
    cloexec,    \* those that its exec would close
    shut        \* the daemons whose socket is half-closed

fds == <<open, cloexec>>
vars == <<alive, thread, proc, fds, shut>>

Ends == {"parent", "child"} \X Daemons
ParentEnd(d) == <<"parent", d>>
ChildEnd(d) == <<"child", d>>

ThreadState == {"none", "paired", "spawning", "owned", "dropping", "gone"}
ProcState == {"none", "forked", "cleared", "running", "failed", "exited", "reaped"}

(***************************************************************************)
(* The tables.                                                             *)
(***************************************************************************)
CloseInHost(ends) ==
    /\ open' = [open EXCEPT ![Host] = @ \ ends]
    /\ cloexec' = [cloexec EXCEPT ![Host] = @ \ ends]

Inherit(p) ==
    /\ open' = [open EXCEPT ![p] = open[Host]]
    /\ cloexec' = [cloexec EXCEPT ![p] = cloexec[Host]]

CloseOnExec(p) ==
    /\ open' = [open EXCEPT ![p] = @ \ cloexec[p]]
    /\ cloexec' = [cloexec EXCEPT ![p] = {}]

CloseAll(p) ==
    /\ open' = [open EXCEPT ![p] = {}]
    /\ cloexec' = [cloexec EXCEPT ![p] = {}]

\* read returns 0: nobody is left who could write.
EndOfFile(d) == d \in shut \/ \A p \in Processes : ParentEnd(d) \notin open[p]

(***************************************************************************)
(* The client: spawn_with and Drop.                                        *)
(***************************************************************************)
\* Slips: the flag of the child end is cleared in the client; the client's end
\* can be inherited.
MarksParent(d) == {ParentEnd(d)}
MarksChild(d) == {ChildEnd(d)}

\* UnixStream::pair marks both ends.
Marked(d) == {ParentEnd(d), ChildEnd(d)}

Pair(d) ==
    /\ alive /\ thread[d] = "none"
    /\ thread' = [thread EXCEPT ![d] = "paired"]
    /\ open' = [open EXCEPT ![Host] = @ \cup {ParentEnd(d), ChildEnd(d)}]
    /\ cloexec' = [cloexec EXCEPT ![Host] = @ \cup Marked(d)]
    /\ UNCHANGED <<alive, proc, shut>>

Fork(d) ==
    /\ alive /\ thread[d] = "paired"
    /\ thread' = [thread EXCEPT ![d] = "spawning"]
    /\ proc' = [proc EXCEPT ![d] = "forked"]
    /\ Inherit(d)
    /\ UNCHANGED <<alive, shut>>

\* Either the fork fails, or the child reports that pre_exec or exec did and is
\* waited for; then both ends are closed.
SpawnFails(d) ==
    /\ alive
    /\ \/ thread[d] = "paired" /\ UNCHANGED proc
       \/ thread[d] = "spawning" /\ proc[d] = "failed" /\ proc' = [proc EXCEPT ![d] = "reaped"]
    /\ thread' = [thread EXCEPT ![d] = "gone"]
    /\ CloseInHost({ParentEnd(d), ChildEnd(d)})
    /\ UNCHANGED <<alive, shut>>

\* A child killed before its exec counts as spawned: its pipe closes without an error.
SpawnReturns(d) ==
    /\ alive /\ thread[d] = "spawning" /\ proc[d] \in {"running", "exited"}
    /\ thread' = [thread EXCEPT ![d] = "owned"]
    /\ CloseInHost({ChildEnd(d)})
    /\ UNCHANGED <<alive, proc, shut>>

HalfClose(d) ==
    /\ alive /\ thread[d] = "owned"
    /\ thread' = [thread EXCEPT ![d] = "dropping"]
    /\ shut' = shut \cup {d}
    /\ UNCHANGED <<alive, proc, fds>>

ForceKill(d) ==
    /\ alive /\ thread[d] = "dropping" /\ proc[d] = "running"
    /\ proc' = [proc EXCEPT ![d] = "exited"]
    /\ CloseAll(d)
    /\ UNCHANGED <<alive, thread, shut>>

\* try_wait or wait succeeds; the field `stream` is dropped after the body of drop.
Reap(d) ==
    /\ alive /\ thread[d] = "dropping" /\ proc[d] = "exited"
    /\ thread' = [thread EXCEPT ![d] = "gone"]
    /\ proc' = [proc EXCEPT ![d] = "reaped"]
    /\ CloseInHost({ParentEnd(d)})
    /\ UNCHANGED <<alive, shut>>

HostDies ==
    /\ alive
    /\ alive' = FALSE
    /\ CloseAll(Host)
    /\ UNCHANGED <<thread, proc, shut>>

(***************************************************************************)
(* The daemon's process, from the fork on.                                 *)
(***************************************************************************)
\* The closure given to pre_exec clears the flag in the child's own table.
PreExec(d) ==
    /\ proc[d] = "forked"
    /\ proc' = [proc EXCEPT ![d] = "cleared"]
    /\ cloexec' = [cloexec EXCEPT ![d] = @ \ {ChildEnd(d)}]
    /\ UNCHANGED <<alive, thread, open, shut>>

Exec(d) ==
    /\ proc[d] = "cleared"
    /\ proc' = [proc EXCEPT ![d] = "running"]
    /\ CloseOnExec(d)
    /\ UNCHANGED <<alive, thread, shut>>

ExecFails(d) ==
    /\ proc[d] \in {"forked", "cleared"}
    /\ proc' = [proc EXCEPT ![d] = "failed"]
    /\ CloseAll(d)
    /\ UNCHANGED <<alive, thread, shut>>

\* serve returns at end of file.
DaemonExits(d) ==
    /\ proc[d] = "running" /\ EndOfFile(d)
    /\ proc' = [proc EXCEPT ![d] = "exited"]
    /\ CloseAll(d)
    /\ UNCHANGED <<alive, thread, shut>>

DaemonDies(d) ==
    /\ proc[d] \in {"forked", "cleared", "running"}
    /\ proc' = [proc EXCEPT ![d] = "exited"]
    /\ CloseAll(d)
    /\ UNCHANGED <<alive, thread, shut>>

(***************************************************************************)
(* Other children of the client: they exec, and need never end.            *)
(***************************************************************************)
StrangerForked(s) ==
    /\ alive /\ proc[s] = "none"
    /\ proc' = [proc EXCEPT ![s] = "forked"]
    /\ Inherit(s)
    /\ UNCHANGED <<alive, thread, shut>>

StrangerExecs(s) ==
    /\ proc[s] = "forked"
    /\ proc' = [proc EXCEPT ![s] = "running"]
    /\ CloseOnExec(s)
    /\ UNCHANGED <<alive, thread, shut>>

StrangerExits(s) ==
    /\ proc[s] \in {"forked", "running"}
    /\ proc' = [proc EXCEPT ![s] = "exited"]
    /\ CloseAll(s)
    /\ UNCHANGED <<alive, thread, shut>>

Init ==
    /\ alive = TRUE
    /\ thread = [d \in Daemons |-> "none"]
    /\ proc = [p \in Children |-> "none"]
    /\ open = [p \in Processes |-> {}]
    /\ cloexec = [p \in Processes |-> {}]
    /\ shut = {}

HostStep(d) ==
    \/ Pair(d) \/ Fork(d) \/ SpawnFails(d) \/ SpawnReturns(d)
    \/ HalfClose(d) \/ ForceKill(d) \/ Reap(d)

DaemonStep(d) == PreExec(d) \/ Exec(d) \/ ExecFails(d) \/ DaemonExits(d)

StrangerStep(s) == StrangerForked(s) \/ StrangerExecs(s) \/ StrangerExits(s)

Next ==
    \/ \E d \in Daemons : HostStep(d) \/ DaemonStep(d) \/ DaemonDies(d)
    \/ \E s \in Strangers : StrangerStep(s)
    \/ HostDies

\* A child between fork and exec is scheduled, and so is a daemon that can read
\* end of file.
Fairness ==
    /\ \A d \in Daemons : WF_vars(DaemonStep(d))
    /\ \A s \in Strangers : WF_vars(StrangerExecs(s))

Spec == Init /\ [][Next]_vars /\ Fairness

(***************************************************************************)
(* Properties.                                                             *)
(***************************************************************************)
FdTypeOK ==
    /\ alive \in BOOLEAN
    /\ thread \in [Daemons -> ThreadState]
    /\ proc \in [Children -> ProcState]
    /\ open \in [Processes -> SUBSET Ends]
    /\ cloexec \in [Processes -> SUBSET Ends]
    /\ shut \in SUBSET Daemons

(***************************************************************************)
(* However the spawns interleave, a daemon that runs holds its own end of  *)
(* its own socket and no other end, other children hold none, and the      *)
(* client keeps the daemon's end only until spawn_with returns: closing    *)
(* one side is seen by the other (daemon.rs:163-168, 192-198).             *)
(***************************************************************************)
OnlyOwnEnd ==
    /\ \A d \in Daemons : proc[d] = "running" => open[d] = {ChildEnd(d)}
    /\ \A s \in Strangers : proc[s] = "running" => open[s] = {}
    /\ \A d \in Daemons :
         ChildEnd(d) \in open[Host] => thread[d] \in {"paired", "spawning"}

(***************************************************************************)
(* When the client process is gone, however far its spawns had got, no     *)
(* daemon is left running, whatever its other children do: it exits on end *)
(* of file, which the system sends when the process dies (daemon.rs:       *)
(* 170-173).                                                               *)
(***************************************************************************)
OrphansExit ==
    \A d \in Daemons : ~alive ~> proc[d] \notin {"forked", "cleared", "running"}
=============================================================================
