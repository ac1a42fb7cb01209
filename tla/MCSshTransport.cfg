SPECIFICATION FairSpec
CONSTANTS
    BlockSize = 6
    MacLen = 2
    BufSize = 9
    Sizes <- MCSizes
    Messages <- MCMessages
    MaxIn = 2
    MaxOut = 1
INVARIANTS
    StreamInSync
    WireIsWhole
    BlockingNeverMisuses
PROPERTIES
    ImplementsLink
    BlockedCallReturns
