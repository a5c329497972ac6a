SPECIFICATION Spec
CONSTANTS
    NoPacket = NoPacket
    Calls <- AllCalls
    CallHeader <- Header258
    RawFrames <- AllFrames
INVARIANTS
    NothingIsLostOnTheWire
    ConformingIsAnswered
    AnswersTheRequest
    FaultsAreReported
    DropHasCause
CHECK_DEADLOCK FALSE
