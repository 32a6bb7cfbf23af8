SPECIFICATION Spec
CONSTANTS
    Names = {"t", "n"}
    ForkNames = {f, g}
    f = f
    g = g
    None = None
    First = "t"
    Versions = 2
    MaxTable = 3
    MaxSeg = 4
    MaxSeq = 4
    MaxOps = 4
    MaxCrash = 1
    MaxSize = 2
    Allowed = {}
SYMMETRY Interchangeable
INVARIANTS ViewsReadable Refinement
PROPERTY PromoteExact
CHECK_DEADLOCK FALSE
