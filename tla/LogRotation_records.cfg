SPECIFICATION Spec
CONSTANTS
    Proc = {p1, p2}
    Keep = 2
    MaxRecords = 5
    MaxOpens = 4
    NoFile = NoFile
    Fallback = Fallback
INVARIANTS
    HandlePlace
    RetentionExact
    RotationNeedsStart
PROPERTY MeetsLogContract
CHECK_DEADLOCK FALSE
