SPECIFICATION Spec
CONSTANTS
    Conns = {c1}
    NoConn = NoConn
    InitialLimit = 1
    Timeout = 1
    PrintPeriod = 1
    Modes = {TRUE}
    Secure = TRUE
    PeerMay = {}
    CallerMay = {}
    MaxInbox = 1
    MaxClock = 0
INVARIANT ServerSurvives
CHECK_DEADLOCK FALSE
