SPECIFICATION Spec
CONSTANTS
    NCameras = 2
    Keys <- TwoKeys
    Shots <- TwoCameraShots
    Unmatched <- SecondKey
    Modes <- AllModes
    Broken <- SecondCamera
    LossyListing = TRUE
    LossyDownloads = TRUE
    TornWrites = TRUE
    ShootsWhileConnected = TRUE
    MaxFaults = 2
    Absent = Absent
    Partial = Partial
PROPERTIES
    ListedErasedOnlyIfStaged
    RotatedOnlyWhenAllDone
    NeverRefetched
