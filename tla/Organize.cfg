SPECIFICATION FairSpec
CONSTANTS
    Items <- FiveItems
    Contents <- FourContents
    Names <- FourNames
    Content <- SomeContent
    MediaName <- SomeMediaNames
    OwnName <- SomeOwnNames
    FileSystems <- OneOrTwo
    MaxCrashes = 1
    Absent = Absent
    Torn = Torn
INVARIANTS
    NothingLost
PROPERTIES
    TreeNeverOverwritten
    StagingEmpties
