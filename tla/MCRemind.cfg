CONSTANTS
    Torn = Torn
    OnePerSecond = TRUE
    MaxForeign = 1
    MaxNow = 2
    MaxTimers = 4
    MaxCrashes = 2
SPECIFICATION Spec
CHECK_DEADLOCK FALSE
INVARIANTS TypeOK NeverEarly  
