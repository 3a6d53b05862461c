SPECIFICATION Spec
CONSTANTS
    NCameras = 1
    Keys <- TwoKeys
    Shots <- OneCameraShots
    Unmatched <- NoKeys
    Modes <- SyncOnly
    Broken <- NoCameras
    LossyListing = FALSE
    LossyDownloads = TRUE
    TornWrites = FALSE
    ShootsWhileConnected = FALSE
    MaxFaults = 0
    Absent = Absent
    Partial = Partial
PROPERTIES
    ErasedOnlyIfStaged
