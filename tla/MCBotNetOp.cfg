CONSTANTS
    b1 = b1
    b2 = b2
    b3 = b3
    Bots = {b1, b2, b3}
    Trusts <- MCTrusts
    FirstOps = {b1, b2}
    Shaky = {b1}
    MaxReq = 1
    LinkOp = TRUE
    ModeOp = TRUE
    OSync = FALSE
    Unset = Unset
    MaxMail = 1
    MaxUpsets = 1
SPECIFICATION FairSpec
CHECK_DEADLOCK FALSE
INVARIANTS AskFlagsArePending FullCounterIsReset
PROPERTIES NeedyGetOps
