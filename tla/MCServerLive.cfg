SPECIFICATION FairSpec
CONSTANTS
    Conns = {c1, c2}
    NoConn = NoConn
    InitialLimit = 1
    Timeout = 0
    PrintPeriod = 1
    Modes = {TRUE}
    Secure = TRUE
    PeerMay = {"half", "deaf"}
    CallerMay = {}
    MaxInbox = 1
    MaxClock = 1
PROPERTIES
    ConnectionAnswered
    SilentIsClosed
    SweepReadsFirst
CHECK_DEADLOCK FALSE
