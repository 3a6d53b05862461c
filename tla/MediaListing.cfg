SPECIFICATION FairSpec
CONSTANTS
    NItems = 9
    MaxShots = 4
    PageSize = 2
    MaxPages = 4
    Retries = 3
    MaxLost = 4
    MaxLate = 1
INVARIANTS
    NoHole
    FullRelist
    StopsAfterTheEnd
PROPERTY ListingEnds
