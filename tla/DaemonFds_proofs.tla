-------------------------- MODULE DaemonFds_proofs --------------------------
(***************************************************************************)
(* OnlyOwnEnd for any number of daemons and other children, and the end of *)
(* file every orphan gets.                                                 *)
(***************************************************************************)
EXTENDS DaemonFds, TLAPS

(***************************************************************************)
(* The inductive invariant: what each process holds and what its exec      *)
(* would close, by how far it has got.                                     *)
(***************************************************************************)
HostMarksAll == cloexec[Host] = open[Host]

HostHolds ==
    \A d \in Daemons :
      /\ ChildEnd(d) \in open[Host] => thread[d] \in {"paired", "spawning"}
      /\ alive /\ thread[d] = "paired" => ChildEnd(d) \in open[Host]

GoneHoldsNothing ==
    /\ ~alive => open[Host] = {}
    /\ \A p \in Children :
         proc[p] \notin {"forked", "cleared", "running"} => open[p] = {}

DaemonHolds ==
    \A d \in Daemons :
      /\ proc[d] = "forked" => ChildEnd(d) \in open[d] /\ cloexec[d] = open[d]
      /\ proc[d] = "cleared" =>
           ChildEnd(d) \in open[d] /\ cloexec[d] = open[d] \ {ChildEnd(d)}
      /\ proc[d] = "running" => open[d] = {ChildEnd(d)}

StrangerHolds ==
    \A s \in Strangers :
      /\ proc[s] # "cleared"
      /\ proc[s] = "forked" => cloexec[s] = open[s]
      /\ proc[s] = "running" => open[s] = {}

FdInv ==
    /\ FdTypeOK /\ HostMarksAll /\ HostHolds
    /\ GoneHoldsNothing /\ DaemonHolds /\ StrangerHolds

(***************************************************************************)
(* The ends of different daemons, and the two ends of one, are different.  *)
(***************************************************************************)
LEMMA EndsDiffer ==
    ASSUME NEW d \in Daemons, NEW e \in Daemons
    PROVE  /\ ParentEnd(d) \in Ends /\ ChildEnd(d) \in Ends
           /\ ChildEnd(d) # ParentEnd(e)
           /\ ChildEnd(d) = ChildEnd(e) => d = e
  BY DEF Ends, ParentEnd, ChildEnd

LEMMA InitInv == Init => FdInv
  BY DEF Init, FdInv, FdTypeOK, HostMarksAll, HostHolds, GoneHoldsNothing,
         DaemonHolds, StrangerHolds, ThreadState, ProcState, Processes, Children

(***************************************************************************)
(* Steps of the client's threads: only Fork touches a child's table.       *)
(***************************************************************************)
LEMMA HostStepInv ==
    ASSUME FdInv, NEW d \in Daemons, HostStep(d)
    PROVE  FdInv'
  <1> USE DistinctAssumption, EndsDiffer
        DEF FdInv, FdTypeOK, HostMarksAll, HostHolds, GoneHoldsNothing, DaemonHolds,
            StrangerHolds, Processes, Children, ThreadState, ProcState, fds
  <1>1. CASE Pair(d)
    BY <1>1 DEF Pair, Marked
  <1>2. CASE Fork(d)
    BY <1>2 DEF Fork, Inherit
  <1>3. CASE SpawnFails(d)
    BY <1>3 DEF SpawnFails, CloseInHost
  <1>4. CASE SpawnReturns(d)
    BY <1>4 DEF SpawnReturns, CloseInHost
  <1>5. CASE HalfClose(d)
    BY <1>5 DEF HalfClose
  <1>6. CASE ForceKill(d)
    BY <1>6 DEF ForceKill, CloseAll
  <1>7. CASE Reap(d)
    BY <1>7 DEF Reap, CloseInHost
  <1> QED
    BY <1>1, <1>2, <1>3, <1>4, <1>5, <1>6, <1>7 DEF HostStep

(***************************************************************************)
(* Steps of a daemon's process change nothing but its own table.           *)
(***************************************************************************)
LEMMA DaemonStepInv ==
    ASSUME FdInv, NEW d \in Daemons, DaemonStep(d) \/ DaemonDies(d)
    PROVE  FdInv'
  <1> USE DistinctAssumption, EndsDiffer
        DEF FdInv, FdTypeOK, HostMarksAll, HostHolds, GoneHoldsNothing, DaemonHolds,
            StrangerHolds, Processes, Children, ProcState
  <1>1. CASE PreExec(d)
    BY <1>1 DEF PreExec
  <1>2. CASE Exec(d)
    BY <1>2 DEF Exec, CloseOnExec
  <1>3. CASE ExecFails(d)
    BY <1>3 DEF ExecFails, CloseAll
  <1>4. CASE DaemonExits(d)
    BY <1>4 DEF DaemonExits, CloseAll
  <1>5. CASE DaemonDies(d)
    BY <1>5 DEF DaemonDies, CloseAll
  <1> QED
    BY <1>1, <1>2, <1>3, <1>4, <1>5 DEF DaemonStep

LEMMA StrangerStepInv ==
    ASSUME FdInv, NEW s \in Strangers, StrangerStep(s)
    PROVE  FdInv'
  <1> USE DistinctAssumption
        DEF FdInv, FdTypeOK, HostMarksAll, HostHolds, GoneHoldsNothing, DaemonHolds,
            StrangerHolds, Processes, Children, ProcState
  <1>1. CASE StrangerForked(s)
    BY <1>1 DEF StrangerForked, Inherit
  <1>2. CASE StrangerExecs(s)
    BY <1>2 DEF StrangerExecs, CloseOnExec
  <1>3. CASE StrangerExits(s)
    BY <1>3 DEF StrangerExits, CloseAll
  <1> QED
    BY <1>1, <1>2, <1>3 DEF StrangerStep

LEMMA NextInv == FdInv /\ [Next]_vars => FdInv'
  <1> SUFFICES ASSUME FdInv, [Next]_vars PROVE FdInv'
    OBVIOUS
  <1>1. CASE \E d \in Daemons : HostStep(d) \/ DaemonStep(d) \/ DaemonDies(d)
    BY <1>1, HostStepInv, DaemonStepInv
  <1>2. CASE \E s \in Strangers : StrangerStep(s)
    BY <1>2, StrangerStepInv
  <1>3. CASE HostDies
    BY <1>3, DistinctAssumption
       DEF HostDies, CloseAll, FdInv, FdTypeOK, HostMarksAll, HostHolds,
           GoneHoldsNothing, DaemonHolds, StrangerHolds, Processes, Children
  <1>4. CASE UNCHANGED vars
    BY <1>4 DEF vars, fds, FdInv, FdTypeOK, HostMarksAll, HostHolds,
                GoneHoldsNothing, DaemonHolds, StrangerHolds
  <1> QED
    BY <1>1, <1>2, <1>3, <1>4 DEF Next

LEMMA FdInvariant == Spec => []FdInv
  <1> QED
    BY InitInv, NextInv, PTL DEF Spec

(***************************************************************************)
(* However many spawns interleave, a running daemon holds its own end and  *)
(* nothing else, other children hold no end, and the client closes the     *)
(* daemon's end before spawn_with returns.                                 *)
(***************************************************************************)
THEOREM EndsNotLeaked == Spec => []OnlyOwnEnd
  <1>1. FdInv => OnlyOwnEnd
    BY DEF FdInv, DaemonHolds, StrangerHolds, HostHolds, OnlyOwnEnd
  <1> QED
    BY <1>1, FdInvariant, PTL

(***************************************************************************)
(* Once the client is gone, an open client end can only be the inheritance *)
(* of a child that has not come to its exec: with none of those, every     *)
(* daemon reads end of file, whatever other children still run.            *)
(***************************************************************************)
HearsTheEnd ==
    ~alive /\ (\A p \in Children : proc[p] \notin {"forked", "cleared"})
      => \A d \in Daemons : EndOfFile(d)

THEOREM OrphansHearTheEnd == Spec => []HearsTheEnd
  <1>1. FdInv => HearsTheEnd
    <2> SUFFICES ASSUME FdInv, ~alive,
                        \A p \in Children : proc[p] \notin {"forked", "cleared"},
                        NEW d \in Daemons, NEW p \in Processes
                 PROVE  ParentEnd(d) \notin open[p]
      BY DEF HearsTheEnd, EndOfFile
    <2>1. CASE p = Host
      BY <2>1 DEF FdInv, GoneHoldsNothing
    <2>2. CASE p \in Strangers
      BY <2>2 DEF FdInv, GoneHoldsNothing, StrangerHolds, Children
    <2>3. CASE p \in Daemons
      BY <2>3, EndsDiffer DEF FdInv, GoneHoldsNothing, DaemonHolds, Children
    <2> QED
      BY <2>1, <2>2, <2>3 DEF Processes, Children
  <1> QED
    BY <1>1, FdInvariant, PTL
=============================================================================
