SPECIFICATION FairSpec
CONSTANTS
    Conns = {c1}
    NoConn = NoConn
    InitialLimit = 1
    Timeout = 0
    PrintPeriod = 1
    Modes = {TRUE}
    Secure = TRUE
    PeerMay = {"half", "rst", "bad", "deaf"}
    CallerMay = {"stop", "reset"}
    MaxInbox = 1
    MaxClock = 1
INVARIANTS
    EndsClean
    StartReportsTheEnd
PROPERTY StopEnds
CHECK_DEADLOCK FALSE
