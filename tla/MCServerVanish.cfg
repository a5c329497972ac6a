SPECIFICATION Spec
CONSTANTS
    Conns = {c1}
    NoConn = NoConn
    InitialLimit = 1
    Timeout = 1
    PrintPeriod = 1
    Modes = {TRUE}
    Secure = FALSE
    PeerMay = {"rst"}
    CallerMay = {}
    MaxInbox = 1
    MaxClock = 2
INVARIANT ServerSurvives
CHECK_DEADLOCK FALSE
