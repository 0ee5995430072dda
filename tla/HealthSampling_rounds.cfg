SPECIFICATION Spec
CONSTANTS
    Mount = {m1, m2}
    Percent = {0, 8700}
    Load = {0, 200}
    Thresholds <- BothThresholds
    MaxBusy = 2
    MaxIdle = 1
    NoReading = NoReading
SYMMETRY MountSymmetry
INVARIANTS
    VerdictIsWorst
    TicksCountedOnce
