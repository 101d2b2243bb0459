CONSTANTS
    a = a
    b = b
    c = c
    d = d
    PageSize = 2
    ScanLimit = 4
    Lists <- MCLists
    Askers = {a}
    Chans = {"#x", "#y", "#z"}
    Asked = {0, 1, 3, 4, 5}
    NoPage = NoPage
SPECIFICATION Spec
CHECK_DEADLOCK FALSE
INVARIANT RowsAreRanked
PROPERTIES QueryEnds
