CONSTANTS
    Torn = Torn
    OnePerSecond = TRUE
    MaxForeign = 1
    MaxNow = 2
    MaxTimers = 4
    MaxCrashes = 1
SPECIFICATION Spec
CHECK_DEADLOCK FALSE
INVARIANTS EveryReminderArmed
