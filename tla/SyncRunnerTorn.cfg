SPECIFICATION Spec
CONSTANTS
    NCameras = 1
    Keys <- TwoKeys
    Shots <- OneCameraShots
    Unmatched <- NoKeys
    Modes <- SyncOnly
    Broken <- NoCameras
    LossyListing = FALSE
    LossyDownloads = FALSE
    TornWrites = TRUE
    ShootsWhileConnected = FALSE
    MaxFaults = 2
    Absent = Absent
    Partial = Partial
INVARIANTS
    NoLoss
