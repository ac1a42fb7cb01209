CONSTANTS
    KexMethods <- Kexs
    HostkeyMethods <- Hostkeys
    CryptMethods <- Crypts
    Fixed <- FixedGroups
    Offers <- SomeOffers
    MaxExchanges = 3
    MaxData = 2
    MaxBlocks = 2
    BannerLen = 2
SPECIFICATION Spec
INVARIANTS KeysAgree KeysAreVerified OfferIsAnswered
PROPERTY StartupReturns
CHECK_DEADLOCK FALSE
