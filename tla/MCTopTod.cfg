CONSTANTS
    ab = ab
    slashed = slashed
    robot = robot
    PageSize = 2
    ScanLimit = 2
    todlogchannel <- MCLogged
    Channels <- MCChannels
    Bots = {robot}
    Niks <- MCNiks
    Matches <- MCMatches
    Texts <- MCTexts
    WordsOf <- MCWordsOf
    Dash = "-"
    NoText = "none"
    NoFile = NoFile
    MayFail = FALSE
    MaxDay = 3
    MaxEntries = 2
    MaxWords = 2
    MaxHistory = 3
SPECIFICATION Spec
CHECK_DEADLOCK FALSE
INVARIANTS TypeOK  OneEntryPerNick ExactToday 
 
