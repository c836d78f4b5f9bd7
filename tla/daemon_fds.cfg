\* Three spawns at once next to one other child of the client.
\* The system may really stop: once the client is gone and its daemons with it.
SPECIFICATION Spec
CONSTANTS
    Host = Host
    Daemons = {d1, d2, d3}
    Strangers = {s1}
INVARIANTS
    OnlyOwnEnd
PROPERTIES
    OrphansExit
CHECK_DEADLOCK FALSE
