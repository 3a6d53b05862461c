SPECIFICATION HostSpec
CONSTANTS
    timer = timer
    person = person
    Invocations <- TimerAndPerson
    Scheduled <- TimerOnly
    MaxAttempts = 3
    MaxOutages = 1
    OpHoldsLock = FALSE
    Op = Op
    Nobody = Nobody
    Cameras = {1, 2}
    MaxTries = 2
    MaxRunner = 1
    MaxFaults = 2
    None = None
INVARIANTS
    OneSyncAtATime
    LockHolderLives
    OneTruthfulEmail
    OwnCamera
PROPERTIES
    InvocationsEnd
    NeverWedged
