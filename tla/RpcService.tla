----------------------------- MODULE RpcService -----------------------------
(***************************************************************************)
(* What a NyxstoneTricoreGCC instance of the IPC mode promises the threads *)
(* that share it (bindings/rust-ipc/src/lib.rs:38-47): each call ends in   *)
(* the response to its own request, in a refusal of a request that cannot  *)
(* be encoded, or in a transport error; nothing is answered while the      *)
(* instance does not exist.                                                *)
(***************************************************************************)
CONSTANTS Callers, Requests, None,
          Answerable,   \* requests the daemon has a response to
          Refusable     \* requests the client cannot encode

VARIABLES service,  \* down, up, or gone with its process
          pending,  \* pending[c]: thread c is inside a method call
          asked,    \* its current or last request
          answer    \* what its last call returned

vars == <<service, pending, asked, answer>>

Response(r) == [kind |-> "response", req |-> r]
Failed      == [kind |-> "failed"]
Rejected    == [kind |-> "rejected"]
Nothing     == [kind |-> "nothing"]

Init ==
    /\ service = "down"
    /\ pending = [c \in Callers |-> FALSE]
    /\ asked   = [c \in Callers |-> None]
    /\ answer  = [c \in Callers |-> Nothing]

(* A constructor starts, succeeds or fails.                                *)
Construct(c) ==
    /\ service = "down"
    /\ service' \in {"down", "up"}
    /\ asked'  = [asked EXCEPT ![c] = None]
    /\ answer' \in {[answer EXCEPT ![c] = o] : o \in {Nothing, Failed}}
    /\ UNCHANGED pending

Invoke(c, r) ==
    /\ service = "up" /\ ~ pending[c]
    /\ asked' = [asked EXCEPT ![c] = r]
    /\ \/ /\ pending' = [pending EXCEPT ![c] = TRUE]
          /\ answer'  = [answer EXCEPT ![c] = Nothing]
       \/ /\ r \in Refusable
          /\ answer'  = [answer EXCEPT ![c] = Rejected]
          /\ UNCHANGED pending
    /\ UNCHANGED service

Finish(c, o) ==
    /\ service = "up" /\ pending[c]
    /\ pending' = [pending EXCEPT ![c] = FALSE]
    /\ answer'  = [answer EXCEPT ![c] = o]
    /\ UNCHANGED <<service, asked>>

Answer(c) == asked[c] \in Answerable /\ Finish(c, Response(asked[c]))
Refuse(c) == asked[c] \in Refusable /\ Finish(c, Rejected)
Fail(c)   == Finish(c, Failed)

(* Dropping the instance: no call may be in progress.                      *)
Drop == /\ service = "up" /\ \A c \in Callers : ~ pending[c]
        /\ service' = "down"
        /\ UNCHANGED <<pending, asked, answer>>

(* The process dies with its calls.                                        *)
Die == /\ service # "gone" /\ service' = "gone"
       /\ pending' = [c \in Callers |-> FALSE]
       /\ UNCHANGED <<asked, answer>>

Next ==
    \/ \E c \in Callers : Construct(c) \/ Answer(c) \/ Refuse(c) \/ Fail(c)
    \/ \E c \in Callers, r \in Requests : Invoke(c, r)
    \/ Drop \/ Die

Spec == Init /\ [][Next]_vars
=============================================================================
