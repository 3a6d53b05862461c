SPECIFICATION PiecesSpec
CONSTANTS
    PhotoLen = 3
    OtherLen = 1
    Starts <- WrapBetween
    StaleSeqs <- OneStale
    Modulus = 8
    Window = 3
    AckEvery = 2
    Eager = 1
    MaxRequests = 2
    MaxUnderWay = 2
    MaxLost = 1
    NoSeq = NoSeq
    Weekdays <- AnyWeekday
    Hours <- AnyHour
    LastHour <- FiveWeeks
    Settings <- SomeSettings
    Options <- SomeOptions
    Names = {"hci0", "hci1"}
    Addrs = {"A", "B"}
    Absent = Absent
    OldCard <- FiveOnCard
    NewItems <- TwoMore
    WantedItems <- SomeWanted
    PerPage = 2
    PageLimit = 3
    MaxReplies = 2
    OldNames <- FourOld
    NewName <- OldToNew
    SizeOf <- OldSizes
    Archived <- InARow
    Offsets <- EastAndWest
    MaxStops = 2
    Gone = Gone
INVARIANTS
    PiecesTypesOK
    LabelIsWeekSinceRollover
    CheckedIsResolved
    RefusedBeforeConnect
    FoundIfListed
    LargestKept
    ShiftedOnce
    WholeOrNothing
    ReceivedIsWritten
    BothAcknowledged
PROPERTY
    StopsOnlyWhenDone
