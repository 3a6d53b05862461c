SPECIFICATION Spec
CONSTANTS
    timer = timer
    person = person
    Invocations <- TimerAndPerson
    Scheduled <- TimerOnly
    MaxAttempts = 3
    MaxOutages = 1
    OpHoldsLock = TRUE
    Op = Op
    Nobody = Nobody
PROPERTY SkippedOnlyIfBusy
