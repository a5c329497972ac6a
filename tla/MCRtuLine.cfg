SPECIFICATION LineSpec
CONSTANTS
    Packets <- AllPackets
    Flips <- AllFlips
    Following <- AllFollowing
INVARIANTS
    ChecksumIsTheRemainder
    WhatIsReadWasSent
    DamageIsReported
    TheFrameIsFound
    ReaderIsAbstracted
CHECK_DEADLOCK FALSE
