SPECIFICATION Spec
CONSTANTS
    Workers = {w1, w2}
    NoWorker = NoWorker
    Orphan = Orphan
    NoState = NoState
    Human = Human
    Nobody = Nobody
    Runs = {r1}
    HumanGated = {r1}
    Overlap = FALSE
    MaxClaims = 2
    MaxCrashes = 1
    MaxEdits = 0
CHECK_DEADLOCK FALSE
INVARIANT EveryWriteInLedger
