SPECIFICATION Spec
SYMMETRY Symmetry
CONSTANTS
    w1 = w1
    w2 = w2
    Writers = {w1, w2}
    Payloads = {"p", "q"}
    NoKey = NoKey
    NoSum = NoSum
    MaxId = 3
    MaxSeq = 3
    MaxPowerLoss = 1
    MaxCrash = 1
    Lookback = 1
    SegLimit = 2
    MaxRetries = 1
    Calls <- MixedCalls
    Clock = {0}
    SharedKeys = FALSE
INVARIANTS HeadIntact NoLostAck RefusedUnpublished
PROPERTY ImplementsTable
CHECK_DEADLOCK FALSE
