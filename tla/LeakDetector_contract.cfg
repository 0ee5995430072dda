SPECIFICATION Spec
CONSTANTS
    Pid = {1, 2}
    MaxSize = 3
    WindowSize = 4
    Threshold = 3
    MinGrowth = 3
    TrackTopN = 1
INVARIANTS
    QueueIsRecentRun
    TrackedBounded
PROPERTIES
    MeetsLeakContract
