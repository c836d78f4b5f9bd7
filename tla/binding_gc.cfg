\* A collection under the lock runs __del__ there.
SPECIFICATION Spec
CONSTANTS
    Callers = {t1, t2}
    Handles = {h1, h2}
    NoOne = NoOne
    Apis <- SomeApis
    MaxItems = 1
    NullArgs = FALSE
    Languages = {"python", "rust"}
    CyclicGarbage = TRUE
INVARIANT
    NeverWaitsForItself
