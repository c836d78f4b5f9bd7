\* Differences of labels that gas does not fold.
SPECIFICATION Spec
CONSTANTS
    Jobs <- DifferenceJobs
    Names <- TheNames
    Locals <- TheLocals
    LocalRef <- TheLocalRef
    Insns <- TheInsns
    Tokens <- TheTokens
    Number <- TheNumber
    Code <- TheCode
    RlxMore <- TheRlxMore
    RlxRange <- TheRlxRange
    Shape <- TheShape
INVARIANTS
    ReferencesHit
