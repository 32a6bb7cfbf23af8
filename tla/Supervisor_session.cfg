SPECIFICATION FairSpec
CONSTANTS
    c1 = c1
    c2 = c2
    c3 = c3
    Clients = {c1, c2, c3}
    Mixes <- Races
    Sups = {1, 2}
    None = None
    MaxCrash = 1
    Allowed = {}
INVARIANTS OneOwner ActsOnce AnsweredKept
PROPERTY StopStops
CHECK_DEADLOCK FALSE
