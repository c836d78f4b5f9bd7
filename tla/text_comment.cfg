\* Every text of four tokens, comments with separators and quotes included.
SPECIFICATION Spec
CONSTANTS
    Jobs <- CommentJobs
    Names <- TheNames
    Locals <- TheLocals
    LocalRef <- TheLocalRef
    Insns <- TheInsns
    Tokens <- TheTokens
    Number <- TheNumber
    Code <- TheCode
    RlxMore <- TheRlxMore
    RlxRange <- TheRlxRange
    Shape <- TheShape
INVARIANTS
    StatementsMatch
