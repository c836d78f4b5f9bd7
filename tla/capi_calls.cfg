\* Every entry point, every result of up to two items, every allocation failing.
SPECIFICATION CSpec
CONSTANTS
    Callers = {c1}
    Handles = {h1, h2}
    Apis <- EveryApi
    MaxItems = 2
    NullArgs = TRUE
INVARIANTS
    AllOrNothing FreesAreSound NothingLeaks
