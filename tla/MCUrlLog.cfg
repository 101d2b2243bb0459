CONSTANTS
    u1 = u1
    u2 = u2
    u3 = u3
    Urls <- MCUrls
    Lines <- MCLines
    FirstId = 3844
    MaxLines = 3
SPECIFICATION FairSpec
CHECK_DEADLOCK FALSE
INVARIANTS UrlOnce ConfirmedIsStored ShortCodesDiffer
PROPERTIES OneStepEach 
