SPECIFICATION Spec
CONSTANT Count = 2
INVARIANTS
    VerdictSound
    OmitsOnlyFailedUdp
    FileAgrees
    ExportExact
PROPERTY EveryRunEnds
CHECK_DEADLOCK FALSE
