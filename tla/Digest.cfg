SPECIFICATION FairSpec
CONSTANTS
    PageSize = 8
    Closings = {"consumed"}
    Shelf <- MCShelf
    DayLength = 2
    Start = 2
    End = 3
    Offsets = {0, 1}
    Dues = {1}
    Tickers = {"timer", "control"}
    MaxTries = 2
    MaxFaults = 2
INVARIANTS
    TypeOK
    UntrackedAreFaults
    OneDigestADay
PROPERTIES
    CleanerSparesOpen
    DigestsCleaned
