\* What documents, comments and tests claim and the code does not keep.  TLC stops at the
\* first violation: leave one property at a time to see each.
SPECIFICATION AllSpec
CONSTANTS
    Acting = {"migrations", "experiments"}
    r1 = r1
    r2 = r2
    Runners = {r1, r2}
    NoRunner = NoRunner
    Orphan = Orphan
    Upgrades = {4, 18, 23}
    Downgrades = {3, 10, 15}
    MaxCommands = 3
    MaxCrashes = 1
    MaxWrites = 2
    \* A pair of trials, a publication of a calibration and one more pair, and one publication
    \* of each generation before
    Standard = {"s"}
    Publication = {"p"}
    Superseded = {"old"}
    Legacy = {"older"}
    Calibration = 1
    Pairs = 2
    Noisy = {}
    Selections = {{"standard", "publication"}, {"standard", "safety", "nosql"}}
    MaxLaunches = 3
    MaxFaults = 1
    MaxInvalidations = 2
    \* Two datasets, and an index with the prefix of the optimizer or without
    Profiles = {"smoke", "standard"}
    Owned = {"optimizer_customer"}
    Foreign = {"candidate_customer_id"}
    MaxPairCalls = 3
    MaxPairFaults = 1
SYMMETRY Symmetry
CHECK_DEADLOCK FALSE
INVARIANTS SupersededStaysOut OperationalIndexesAdded LaunchReads
PROPERTIES Resumable
