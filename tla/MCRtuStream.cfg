SPECIFICATION FairSpec
CONSTANTS
    Layout <- LayoutTable
    CrcSize = 1
    Lines <- StreamLines
    Echoes = {TRUE, FALSE}
    Sends <- Requests
    Answers <- Replies
    LineMay = {"late", "collide", "fail"}
    MaxFrame = 6
    MaxSends = 1
INVARIANTS EchoStaysOut InOrder ReplyIsCurrent
PROPERTIES KeepsWholeFrames CallsEnd
CHECK_DEADLOCK FALSE
