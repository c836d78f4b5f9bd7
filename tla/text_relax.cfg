\* The relax chain that starts at index 0 of the table.
SPECIFICATION Spec
CONSTANTS
    Jobs <- ShortJobs
    Names <- TheNames
    Locals <- TheLocals
    LocalRef <- TheLocalRef
    Insns <- TheInsns
    Tokens <- TheTokens
    Number <- TheNumber
    Code <- TheCode
    RlxMore <- TheRlxMore
    RlxRange <- TheRlxRange
    Shape <- TheShape
INVARIANTS
    Shortest
