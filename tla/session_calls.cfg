\* Two calls, in sequence or overlapping, over inputs of every kind.
SPECIFICATION Spec
CONSTANTS
    Threads = {t1, t2}
    NoOne = NoOne
    a = a
    b = b
    Names = {a, b}
    Inputs <- SmallInputs
    Reach = 2
    MaxCalls = 2
    AllocMayFail = TRUE
INVARIANTS
    TypeOK Isolated GasSilent ModesAgree PositionIndependent
PROPERTIES
    CallsEnd
