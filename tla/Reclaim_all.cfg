SPECIFICATION Spec
SYMMETRY Symmetry
CONSTANTS
    w1 = w1
    w2 = w2
    Writers = {w1, w2}
    None = None
    Grace = 1
    LeaseTtl = 1
    PlanTtl = 1
    MaxTime = 2
    MaxSeq = 2
    MaxSeg = 2
    MaxCrash = 1
    MaxPins = 1
    Overlap = FALSE
INVARIANTS RetainedReadable SnapshotReadable
CONSTRAINT OneFault
PROPERTY PlanKept
CHECK_DEADLOCK FALSE
