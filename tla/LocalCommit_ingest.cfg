SPECIFICATION FairSpec
CONSTANTS
    w1 = w1
    w2 = w2
    Writers = {w1, w2}
    Payloads = {"p", "q"}
    NoKey = NoKey
    NoSum = NoSum
    MaxId = 4
    MaxSeq = 4
    MaxPowerLoss = 0
    MaxCrash = 1
    Lookback = 1
    SegLimit = 2
    MaxRetries = 1
    Calls <- IngestCalls
    Clock = {0, 3}
    SharedKeys = FALSE
INVARIANTS KeyOnce TimestampsIncrease
PROPERTY CallsReturn
CHECK_DEADLOCK FALSE
