SPECIFICATION FairSpec
CONSTANTS
    Workers = {w1, w2}
    NoWorker = NoWorker
    Orphan = Orphan
    NoState = NoState
    Human = Human
    Nobody = Nobody
    Runs = {r1}
    HumanGated = {r1}
    Overlap = TRUE
    MaxClaims = 2
    MaxCrashes = 1
    MaxEdits = 1
CHECK_DEADLOCK FALSE
PROPERTIES LockFreed RunRests
