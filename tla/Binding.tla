------------------------------ MODULE Binding -------------------------------
(***************************************************************************)
(* Threads of one process calling the C ABI through a language binding:    *)
(* the Python package (bindings/python/nyxstone_tricore_gcc/__init__.py)   *)
(* or the Rust crate (bindings/rust/src/lib.rs).  Both serialise the C     *)
(* calls with one process-wide lock that is not re-entrant and free what   *)
(* the call returned; they differ in how long they hold the lock.          *)
(*                                                                         *)
(* Rust holds the guard to the end of the method.  Python holds it for the *)
(* C call (and all of __init__), unpacks without it, and takes it again to *)
(* free a plain buffer.  Python's __del__ takes the lock in whichever      *)
(* thread drops the last reference or, for an instance in a reference      *)
(* cycle, in whichever thread the garbage collector happens to run.        *)
(***************************************************************************)
EXTENDS CAbi

CONSTANTS
    Languages,       \* "python" and "rust": a process uses one of them
    CyclicGarbage,   \* do instances get into reference cycles (Python)
    NoOne            \* no thread, no instance

ASSUME BindingAssumption ==
    /\ Languages \subseteq {"python", "rust"} /\ CyclicGarbage \in BOOLEAN
    /\ NoOne \notin Callers \cup Handles

VARIABLES
    language, \* the binding of this process
    lock,     \* _LOCK / GLOBAL_LOCK
    pc,       \* where each thread is in its method
    object,   \* the instances: one per handle
    dying,    \* the instance whose __del__ / drop a thread runs
    dpc       \* and where it is in it
bvars == <<language, lock, pc, object, dying, dpc>>
vars == <<cvars, bvars>>

Python == language = "python"
Api(t) == frame[t].api
Uses(t, h) == pc[t] # "idle" /\ frame[t].handle = h

-----------------------------------------------------------------------------
(* The lock.                                                               *)

\* Slip: a method that does not take the lock.
AnyTime == TRUE
LockFree == lock = NoOne
GoTo(t, p) == pc' = [pc EXCEPT ![t] = p]
Running(t) == dpc[t] = "none"

(* A method starts: arguments are packed before the lock is taken.         *)
BeginMethod(t) ==
    /\ pc[t] = "idle" /\ Running(t)
    /\ \E api \in Apis, h \in Handles :
           /\ object[h] = IF api = "create" THEN "unborn" ELSE "live"
           /\ ~\E u \in Callers : Uses(u, h) /\ Api(u) = "create"
           /\ frame' = [frame EXCEPT ![t].api = api, ![t].handle = h]
    /\ GoTo(t, "lock")
    /\ UNCHANGED <<language, heap, badFree, lock, object, dying, dpc>>

Acquire(t) ==
    /\ pc[t] \in {"lock", "lock_free"} /\ Running(t) /\ LockFree
    /\ lock' = t
    /\ GoTo(t, IF pc[t] = "lock" THEN "locked" ELSE "free")
    /\ UNCHANGED <<language, cvars, object, dying, dpc>>

(* The out parameters are fresh variables of the binding, all NULL.        *)
EnterC(t) ==
    /\ pc[t] = "locked" /\ Running(t)
    /\ Enter(t, Api(t), frame[t].handle, TRUE)
    /\ GoTo(t, "call")
    /\ UNCHANGED <<language, lock, object, dying, dpc>>

InC(t) ==
    /\ pc[t] = "call" /\ Running(t) /\ CallStep(t)
    /\ UNCHANGED bvars

(* Where a method goes once the C function has returned, once the error    *)
(* message is taken, and at its end.                                       *)
\* Slip: the lock is kept.
ForgetsLock(t) == "idle"
EndOfMethod(t) == IF lock = t THEN "unlock" ELSE "idle"

LeaveC(t) ==
    /\ pc[t] = "call" /\ Running(t) /\ frame[t].pc = "returned"
    /\ lock' = IF Python /\ Api(t) # "create" THEN NoOne ELSE lock
    /\ GoTo(t, "take_err")
    /\ UNCHANGED <<language, cvars, object, dying, dpc>>

(* _take_err / take_err free the message; a failure is raised from here.   *)
\* Slip: the message is read but not freed.
Keeps(t)    == {}
ErrBlock(t) == IF frame[t].err = "set" THEN {Block(t, "err", 0)} ELSE {}

Returned(t) == [frame EXCEPT ![t] = [Fresh(@) EXCEPT !.main = "null", !.rel = "null",
                                                     !.err = "null"]]

TakeErr(t) ==
    /\ pc[t] = "take_err" /\ Running(t)
    /\ Free(ErrBlock(t))
    /\ \/ /\ frame[t].status # "ok"
          /\ frame' = Returned(t)
          /\ GoTo(t, EndOfMethod(t))
          /\ UNCHANGED object
       \/ /\ frame[t].status = "ok" /\ Api(t) = "create"
          /\ object' = [object EXCEPT ![frame[t].handle] = "live"]
          /\ frame' = Returned(t)
          /\ GoTo(t, EndOfMethod(t))
       \/ /\ frame[t].status = "ok" /\ Api(t) # "create"
          /\ frame' = [frame EXCEPT ![t].err = "null"]
          /\ GoTo(t, "unpack")
          /\ UNCHANGED object
    /\ UNCHANGED <<language, lock, dying, dpc>>

(* A buffer or a text is freed under the lock, arrays are freed while they *)
(* are unpacked.                                                           *)
Plain(t) == Api(t) \notin InsnApis
Unpack(t) ==
    /\ pc[t] = "unpack" /\ Running(t)
    /\ GoTo(t, IF frame[t].main # "set" THEN "relocs"
               ELSE IF Python /\ Plain(t) THEN "lock_free" ELSE "free")
    /\ UNCHANGED <<language, cvars, lock, object, dying, dpc>>

FreeOutput(t) ==
    /\ pc[t] = "free" /\ Running(t)
    /\ Free(FreeMain(t, frame[t]))
    /\ lock' = IF Python /\ Plain(t) THEN NoOne ELSE lock
    /\ GoTo(t, "relocs")
    /\ UNCHANGED <<language, frame, object, dying, dpc>>

UnpackRelocs(t) ==
    /\ pc[t] = "relocs" /\ Running(t)
    /\ Free(IF frame[t].rel = "set" THEN FreeRelocs(t, frame[t].ptrs, frame[t].relocs) ELSE {})
    /\ frame' = Returned(t)
    /\ GoTo(t, EndOfMethod(t))
    /\ UNCHANGED <<language, lock, object, dying, dpc>>

Release(t) ==
    /\ pc[t] = "unlock" /\ Running(t)
    /\ lock' = NoOne
    /\ GoTo(t, "idle")
    /\ UNCHANGED <<language, cvars, object, dying, dpc>>

-----------------------------------------------------------------------------
(* The end of an instance.                                                 *)

Finalise(t, h) ==
    /\ object' = [object EXCEPT ![h] = "dying"]
    /\ dying' = [dying EXCEPT ![t] = h]
    /\ dpc' = [dpc EXCEPT ![t] = "lock"]
    /\ UNCHANGED <<language, cvars, lock, pc>>

Unused(h) == \A u \in Callers : ~Uses(u, h)

(* The last reference goes away, in code that calls no method.             *)
DropLast(t, h) ==
    /\ pc[t] = "idle" /\ Running(t) /\ object[h] = "live" /\ Unused(h)
    /\ Finalise(t, h)

(* It goes away inside a cycle: nothing happens until a collection, which  *)
(* may start wherever a thread runs Python code.                           *)
DropInCycle(h) ==
    /\ CyclicGarbage /\ Python /\ object[h] = "live" /\ Unused(h)
    /\ object' = [object EXCEPT ![h] = "cyclic"]
    /\ UNCHANGED <<language, cvars, lock, pc, dying, dpc>>

RunsPython(t) == pc[t] # "call" /\ Running(t)
Collect(t, h) ==
    /\ object[h] = "cyclic" /\ RunsPython(t)
    /\ Finalise(t, h)

DelAcquire(t) ==
    /\ dpc[t] = "lock" /\ LockFree
    /\ lock' = t /\ dpc' = [dpc EXCEPT ![t] = "destroy"]
    /\ UNCHANGED <<language, cvars, pc, object, dying>>

DelDestroy(t) ==
    /\ dpc[t] = "destroy"
    /\ Free({HandleBlock(dying[t])})
    /\ object' = [object EXCEPT ![dying[t]] = "unborn"]
    /\ dpc' = [dpc EXCEPT ![t] = "unlock"]
    /\ UNCHANGED <<language, frame, lock, pc, dying>>

DelRelease(t) ==
    /\ dpc[t] = "unlock"
    /\ lock' = NoOne
    /\ dpc' = [dpc EXCEPT ![t] = "none"] /\ dying' = [dying EXCEPT ![t] = NoOne]
    /\ UNCHANGED <<language, cvars, pc, object>>

-----------------------------------------------------------------------------
Init ==
    /\ language \in Languages
    /\ heap = {} /\ badFree = FALSE
    /\ frame = [t \in Callers |->
           [pc |-> "idle", api |-> "create", handle |-> CHOOSE h \in Handles : TRUE,
            wantErr |-> TRUE, bytes |-> FALSE, insns |-> 0, relocs |-> 0, step |-> 1,
            ptrs |-> {}, status |-> "none", main |-> "null", rel |-> "null", err |-> "null"]]
    /\ lock = NoOne
    /\ pc = [t \in Callers |-> "idle"]
    /\ object = [h \in Handles |-> "unborn"]
    /\ dying = [t \in Callers |-> NoOne]
    /\ dpc = [t \in Callers |-> "none"]

(* What a thread does once it has started something.                       *)
Continue(t) ==
    \/ Acquire(t) \/ EnterC(t) \/ InC(t) \/ LeaveC(t) \/ TakeErr(t) \/ Unpack(t)
    \/ FreeOutput(t) \/ UnpackRelocs(t) \/ Release(t)
    \/ DelAcquire(t) \/ DelDestroy(t) \/ DelRelease(t)

Next ==
    \/ \E t \in Callers : BeginMethod(t) \/ Continue(t)
                          \/ \E h \in Handles : DropLast(t, h) \/ Collect(t, h)
    \/ \E h \in Handles : DropInCycle(h)

(* The operating system schedules every thread.  Neither lock is fair, so  *)
(* a thread that waits for it may be overtaken for ever.                   *)
Spec == Init /\ [][Next]_vars /\ \A t \in Callers : WF_vars(Continue(t))

-----------------------------------------------------------------------------
(* At most one thread is inside a C function that works on gas's globals,  *)
(* and the handle it works on exists (lib.rs:60-63, __init__.py:30-32).    *)
GasExclusive ==
    \A t \in Callers : frame[t].pc \in {"driver", "alloc", "message"} =>
        /\ lock = t
        /\ \A u \in Callers \ {t} : frame[u].pc \notin {"driver", "alloc", "message"}
        /\ Api(t) # "create" => Usable(frame[t].handle)

(* A thread outside a method owns no block of the C heap, whatever the     *)
(* method did, raised or returned; a handle exists exactly as long as its  *)
(* instance; and nothing is freed twice.                                   *)
NoLeak ==
    /\ \A t \in Callers : pc[t] = "idle" => Own(t) = {}
    /\ \A h \in Handles :
           /\ object[h] \in {"live", "cyclic", "dying"} => Usable(h)
           /\ object[h] = "unborn" /\ Unused(h) => ~Usable(h)
    /\ ~badFree

(* The lock is always given back, on every path, unless a finaliser that   *)
(* Python runs in the thread that holds the lock waits for it.             *)
WaitsForItself(t) == dpc[t] = "lock" /\ lock = t
LockReleased ==
    \A t \in Callers : lock = t ~> (lock # t \/ (Python /\ WaitsForItself(t)))

(* "Holding multiple NyxstoneTricoreGCC instances is fine; calls are       *)
(* simply serialized" (__init__.py:31-32): no thread waits for the lock    *)
(* it holds itself.                                                        *)
NeverWaitsForItself == \A t \in Callers : ~ WaitsForItself(t)

(* The lock belongs to a thread where the code holds it, and to no thread  *)
(* outside the library.                                                    *)
BTypeOK ==
    /\ CTypeOK /\ language \in Languages /\ lock \in Callers \cup {NoOne}
    /\ pc \in [Callers -> {"idle", "lock", "locked", "call", "take_err", "unpack",
                           "lock_free", "free", "relocs", "unlock"}]
    /\ object \in [Handles -> {"unborn", "live", "cyclic", "dying"}]
    /\ dying \in [Callers -> Handles \cup {NoOne}]
    /\ dpc \in [Callers -> {"none", "lock", "destroy", "unlock"}]
    /\ \A t \in Callers :
           (pc[t] \in {"locked", "call", "unlock"} \/ dpc[t] \in {"destroy", "unlock"}) => lock = t
    /\ \A t \in Callers : pc[t] = "idle" /\ dpc[t] = "none" => lock # t
=============================================================================
