CONSTANTS
    n1 = n1
    Nicks = {n1}
    Kinds = {"nk","tx"}
    Limit = 1
    Window = 1
    IlockTime = 4
    MlockTime = 3
    ShortLock = TRUE
    KickDelay = 1
    BanDelay = 2
    ShortDelay = 1
    NickHold = 1
    RecentUnlock = 0
    BfullTime = 1
    Lag = 1
    OthersMode = {"+","-"}
    OpLost = TRUE
    BotLeaves = TRUE
    BansFill = TRUE
    MaxFloods = 1
    MaxParts = 1
    MaxWire = 1
SPECIFICATION Spec
CHECK_DEADLOCK FALSE
INVARIANTS QueueIsPending
