SPECIFICATION Spec
CONSTANTS
    Conns = {c1, c2}
    NoConn = NoConn
    InitialLimit = 1
    Timeout = 1
    PrintPeriod = 1
    Modes = {TRUE, FALSE}
    Secure = FALSE
    PeerMay = {"half", "rst"}
    CallerMay = {"reset", "limit", "accept"}
    MaxInbox = 1
    MaxClock = 0
SYMMETRY ConnSymmetry
CONSTRAINT WhileServing
INVARIANTS
    TypeOK
    TablesAgree
    OpenIsTracked
    CrashHasCause
    WithinLimit
    HandedInOrder
    HeldOnlyInsideAFrame
CHECK_DEADLOCK FALSE
