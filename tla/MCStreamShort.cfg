SPECIFICATION Spec
CONSTANTS
    Senders = {s1}
    Readers = {r1}
    NoThread = NoThread
    HeaderSize = 2
    PduLength <- Lengths
    FragSizes <- Sizes
    ShortSends = TRUE
    MaxRuns = 1
INVARIANT FramesAreWhole
CHECK_DEADLOCK FALSE
