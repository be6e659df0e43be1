\* What documents, comments and tests claim and the code does not keep.  TLC stops at the
\* first violation: leave one property at a time to see each.
SPECIFICATION AllSpec
CONSTANTS
    Acting = {"direct", "shift", "trial"}
    ShiftTasks = {"t1", "t2"}
    Executors = {"w1", "w2"}
    Evaluators = {"e1"}
    Shapes <- MCShapes
    Baseline <- MCBaseline
    Observable <- MCObservable
    Threshold = 20
    Required = 3
    MaxWindows = 8
    Overlap = TRUE
    TrialCandidates = {"c1", "c2"}
    Pairs = 3
    BA = {2}
    MaxExecutions = 3
    Callers <- MCCallers
    Provider <- MCProvider
    Candidates = {"c1"}
    CollectionCount = 1
    Contents = {0, 1}
    MaxWrites = 2
    Missing = Missing
    NoTask = NoTask
    NoRequest = NoRequest
    Tasks = {"t1", "t2"}
    Actions = {"a1"}
    Evidence = {"e1", "e2"}
    Humans = TRUE
    Raises = TRUE
    MaxCalls = 3
    MaxRequests = 1
CHECK_DEADLOCK FALSE
INVARIANTS OncePerEpisode PairRecordedOnce HonestPairs
PROPERTIES DropsWhatItVerified
