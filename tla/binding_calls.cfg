\* Two threads, two instances and either binding.  Python's finalisers may
\* stop every thread for good.
CHECK_DEADLOCK FALSE
SPECIFICATION Spec
CONSTANTS
    Callers = {t1, t2}
    Handles = {h1, h2}
    NoOne = NoOne
    Apis <- SomeApis
    MaxItems = 1
    NullArgs = FALSE
    Languages = {"python", "rust"}
    CyclicGarbage = TRUE
INVARIANTS
    BTypeOK GasExclusive NoLeak
PROPERTIES
    LockReleased
