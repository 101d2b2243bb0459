CONSTANTS
    Torn = Torn
    OnePerSecond = TRUE
    MaxForeign = 0
    MaxNow = 2
    MaxTimers = 4
    MaxCrashes = 1
SPECIFICATION FairSpec
CHECK_DEADLOCK FALSE
INVARIANTS EveryReminderArmed
PROPERTIES CancelIsFinal RemindersEnd
