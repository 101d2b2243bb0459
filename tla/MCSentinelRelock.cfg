CONSTANTS
    n1 = n1
    Nicks = {n1}
    Kinds = {"cc"}
    Limit = 2
    Window = 2
    IlockTime = 4
    MlockTime = 3
    ShortLock = FALSE
    KickDelay = 1
    BanDelay = 2
    ShortDelay = 1
    NickHold = 1
    RecentUnlock = 0
    BfullTime = 1
    Lag = 1
    OthersMode = {}
    OpLost = FALSE
    BotLeaves = FALSE
    BansFill = FALSE
    MaxFloods = 2
    MaxParts = 2
    MaxWire = 2
SPECIFICATION FairSpec
CHECK_DEADLOCK FALSE
PROPERTIES LockLifted
