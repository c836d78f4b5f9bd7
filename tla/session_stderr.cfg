\* An exception in the middle of a call.
SPECIFICATION Spec
CONSTANTS
    Threads = {t1, t2}
    NoOne = NoOne
    a = a
    b = b
    Names = {a, b}
    Inputs <- FewInputs
    Reach = 2
    MaxCalls = 2
    AllocMayFail = FALSE
INVARIANT
    StderrRestored
