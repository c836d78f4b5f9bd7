\* Every call against every answer, and malformed frames, on one stream.
SPECIFICATION Spec
CONSTANTS
    None = None
    Base = 16
    MaxFrame = 12
    MaxReserve = 13
    TextUnits = {10, 11}
    Requests <- Calls
    RawFrames <- Malformed
    Texts <- SomeTexts
    ByteStrings <- SomeBytes
    InsnLists <- SomeInsns
    RelocLists <- SomeRelocs
    Errors <- SomeErrors
INVARIANTS
    TypeOK RequestArrives AnswerArrives StreamInSync DaemonServes
