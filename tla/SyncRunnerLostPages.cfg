SPECIFICATION Spec
CONSTANTS
    NCameras = 1
    Keys <- TwoKeys
    Shots <- OneCameraShots
    Unmatched <- NoKeys
    Modes <- SyncOnly
    Broken <- NoCameras
    LossyListing = TRUE
    LossyDownloads = FALSE
    TornWrites = FALSE
    ShootsWhileConnected = FALSE
    MaxFaults = 1
    Absent = Absent
    Partial = Partial
PROPERTIES
    ErasedOnlyIfStaged
