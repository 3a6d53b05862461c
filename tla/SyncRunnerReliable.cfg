SPECIFICATION FairSpec
CONSTANTS
    NCameras = 2
    Keys <- TwoKeys
    Shots <- TwoCameraShots
    Unmatched <- NoKeys
    Modes <- SyncOrStage
    Broken <- NoCameras
    LossyListing = FALSE
    LossyDownloads = FALSE
    TornWrites = FALSE
    ShootsWhileConnected = FALSE
    MaxFaults = 2
    Absent = Absent
    Partial = Partial
INVARIANTS
    NoLoss
    DoneMeansOrganized
    StateFileTruthful
PROPERTIES
    ArchivePromise
    EventuallyArchived
    RunsEnd
