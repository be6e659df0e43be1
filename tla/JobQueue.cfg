\* The constants are those of "on time"; the module names those of "late".
SPECIFICATION ScenarioSpec
CONSTANTS
    j1 = j1
    j2 = j2
    w1 = w1
    w2 = w2
    Scenarios = {"late", "on time"}
    Jobs = {j1, j2}
    Workers = {w1, w2}
    NoJob = NoJob
    NoWorker = NoWorker
    Lease = 3
    MaxAttempts = 2
    Skew <- SkewOfOne
    Mortal = {w1}
    Timely = TRUE
    MaxClaims = 5
    MaxFaults = 1
INVARIANTS OwnerHoldsLatestClaim RetryBudget HealthyHolder
PROPERTIES ImplementsContract JobsSettle
