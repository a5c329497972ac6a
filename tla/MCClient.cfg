SPECIFICATION FairSpec
CONSTANTS
    Modulus = 3
    MaxStale = 1
    DeviceMay = {"ignore", "reorder", "repeat", "garble", "stall"}
    MaxRequests = 4
    MaxPipe = 3
INVARIANTS
    TypeOK
    AnswersTheQuestion
PROPERTIES
    DropsOnlyTheStale
    WaitingEnds
