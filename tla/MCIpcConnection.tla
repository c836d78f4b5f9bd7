--------------------------- MODULE MCIpcConnection ---------------------------
(* Instances of IpcConnection for TLC: a request is named after its kind.  *)
EXTENDS IpcInvariant

MCKind == [r \in Requests |-> r]

\* Frames that fit the socket, and frames that do not.
MCSockBuf == <<2, 1, 2>>
=============================================================================
