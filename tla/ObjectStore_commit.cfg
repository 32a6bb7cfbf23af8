SPECIFICATION FairSpec
CONSTANTS
    Writers = {"w1", "w2"}
    Vacuums = {"v1"}
    None = None
    Payloads = {"a", "c"}
    Calls <- EveryCall
    Schemas = {"s1", "s2", "s3"}
    InitSchema = "s1"
    Evolutions <- AddColumn
    MaxId = 3
    MaxSeq = 2
    MaxFault = 1
    MaxRetries = 1
    RestoreAcross = FALSE
INVARIANTS AckedKept SchemaStable
PROPERTIES OrphanCleared ImplementsTable
CHECK_DEADLOCK FALSE
