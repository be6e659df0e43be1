SPECIFICATION ScenarioSpec
CONSTANTS
    r1 = r1
    r2 = r2
    w1 = w1
    w2 = w2
    Scenarios = {"one run", "two runs"}
    Workers = {w1, w2}
    NoWorker = NoWorker
    Orphan = Orphan
    NoState = NoState
    Human = Human
    Nobody = Nobody
    Runs = {r1, r2}
    HumanGated = {r1}
    Overlap = TRUE
    MaxClaims = 3
    MaxCrashes = 1
    MaxEdits = 1
SYMMETRY WorkerSymmetry
CHECK_DEADLOCK FALSE
INVARIANTS TargetExclusion DeployedEvidence LedgerOrdered RolledBackTruth
PROPERTIES NoRedeploy
