SPECIFICATION Spec
CONSTANTS
    k1 = k1
    k2 = k2
    p1 = p1
    p2 = p2
    Tables = {"a", "b"}
    Tasks = {k1, k2}
    Procs = {p1, p2}
    Settings <- MCSettings
    NoOne = NoOne
    Groups <- TxnAndTable
    MaxId = 3
    MaxSeq = 2
    MaxCrash = 2
    MaxPowerLoss = 1
INVARIANT AnswersTrue
PROPERTY ImplementsAtomic
CHECK_DEADLOCK FALSE
