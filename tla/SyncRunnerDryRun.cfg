SPECIFICATION Spec
CONSTANTS
    NCameras = 1
    Keys <- OneKey
    Shots <- OneShot
    Unmatched <- NoKeys
    Modes <- SyncOrDry
    Broken <- NoCameras
    LossyListing = FALSE
    LossyDownloads = FALSE
    TornWrites = FALSE
    ShootsWhileConnected = FALSE
    MaxFaults = 0
    Absent = Absent
    Partial = Partial
INVARIANTS
    DoneMeansOrganized
