\* Two threads, every fault, frames that fit the socket buffer or not, timeouts on.
SPECIFICATION Spec
CONSTANTS
    Callers = {t1, t2}
    NoOne = NoOne
    None = None
    Requests = {"good", "diag", "fatal", "hang", "oversize", "overcount"}
    Kind <- MCKind
    Versions = {"v1", "v2"}
    OurVersion = "v1"
    Timeouts = TRUE
    SockBuf <- MCSockBuf
    MaxSpawns = 3
    MaxCalls = 2
    MaxDeaths = 1
INVARIANTS
    TypeOK ResponseMatches OneOwnedDaemon RetryOnlyAfterFault OneFaultIsMasked VersionGate
PROPERTIES
    RpcSpec CallsReturn DropReaps ExitOnEOF
