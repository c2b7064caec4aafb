\* Two branches, one step each, an evicting neighbour, a lost connection, a shutdown.
SPECIFICATION StreamSpec
CONSTANTS
    b1 = b1
    b2 = b2
    r1 = r1
    Branches <- TwoBranches
    OtherKeys <- OtherRequests
    Steps = 1
    MaxConnects = 2
    MaxBuf = 2
    MaxKeys = 1
    ChanCap = 2
INVARIANTS
    StreamTypeOK
    Deliveries
PROPERTIES
    StreamEnds
