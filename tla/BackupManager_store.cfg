SPECIFICATION Spec
CONSTANTS
    Run = {r1, r2, r3}
    MaxTime = 3
    Day = 2
    Retention = 0
    SameSecond = TRUE
    Missing = Missing
    Empty = Empty
CHECK_DEADLOCK FALSE
SYMMETRY RunSymmetry
INVARIANTS
    CommittedKept
    OrphanOnlyFromPrune
    VerifyExact
    SuccessPrunes
PROPERTIES
    RemovedForCause
    EndsInSteps
    MeetsBackupContract
