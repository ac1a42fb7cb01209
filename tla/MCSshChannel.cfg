SPECIFICATION FairSpec
CONSTANTS
    Chans = {1}
    Ops <- AllOps
    Kinds = {"data", "eof", "close", "adjust", "request", "disconnect"}
    Lens = {4, 6}
    Blocking = {"data", "eof", "close", "adjust", "failure"}
    Window = 6
    PacketSize = 3
    LowWater = 4
    MinAdjust = 4
    MaxPackets = 2
    MaxCalls = 3
INVARIANTS
    NothingLost
    WindowIsGrant
    WireDiscipline
PROPERTIES
    ZeroMeansEnd
    FreeReturns
CHECK_DEADLOCK FALSE
