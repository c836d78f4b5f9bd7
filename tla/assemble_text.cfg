\* One call at a time: sources and bytes around every boundary.
SPECIFICATION Spec
CONSTANTS
    Jobs <- AllJobs
    Names <- TheNames
    Locals <- TheLocals
    LocalRef <- TheLocalRef
    Insns <- TheInsns
    Tokens <- TheTokens
    Number <- TheNumber
    Code <- TheCode
    RlxMore <- TheRlxMore
    RlxRange <- TheRlxRange
    Shape <- TheShape
INVARIANTS
    TextTypeOK StatementsMatch LayoutExact DataExact ReferencesHit RelocSites Shortest
    Verdict Decodes HistoryFree
