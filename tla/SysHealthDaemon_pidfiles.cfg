SPECIFICATION Spec
CONSTANTS
    Pid = {p1, p2, p3}
    Absent = Absent
    Empty = Empty
    MaxVersion = 1
    BadShape = {}
SYMMETRY PidSymmetry
VIEW PidFileView
INVARIANTS
    PidFileNamesHandlers
    StalePidExplained
    LogrotateReachesLoneService
CHECK_DEADLOCK FALSE
