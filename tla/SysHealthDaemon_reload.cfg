SPECIFICATION Spec
CONSTANTS
    Pid = {p1}
    Absent = Absent
    Empty = Empty
    MaxVersion = 3
    BadShape = {2}
INVARIANTS
    CleanReloadSeen
PROPERTIES
    MeetsDaemonContract
    TermEndsLoop
    CleanReloadServed
    StopEndsService
CHECK_DEADLOCK FALSE
