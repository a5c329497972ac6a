SPECIFICATION FairSpec
CONSTANTS
    Senders = {s1, s2}
    Readers = {r1}
    NoThread = NoThread
    HeaderSize = 2
    PduLength <- Lengths
    FragSizes <- Sizes
    ShortSends = FALSE
    MaxRuns = 1
INVARIANTS
    FramesAreWhole
    RunsDoNotMix
    StopsAtTheBoundary
PROPERTIES
    CapturesWhatIsSent
    EverythingArrives
CHECK_DEADLOCK FALSE
