SPECIFICATION Spec
CONSTANTS
    Run = {r1}
    MaxTime = 1
    Day = 1
    Retention = 1
    SameSecond = FALSE
    Missing = Missing
    Empty = Empty
CHECK_DEADLOCK FALSE
INVARIANT CommittedHoldsTargets
