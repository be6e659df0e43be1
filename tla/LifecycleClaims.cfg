\* What documents, comments and tests claim and the code does not keep.  TLC stops at the
\* first violation: leave one property at a time to see each.
SPECIFICATION FairSpec
CONSTANTS
    w1 = w1
    w2 = w2
    c1 = c1
    c2 = c2
    requester = requester
    approver = approver
    Workers = {w1, w2}
    NoWorker = NoWorker
    Candidates = {c1}
    NoCandidate = NoCandidate
    Absent = Absent
    Users = {requester, approver}
    Requester = requester
    Nobody = Nobody
    PlanLimit = 1
    MaxAttempts = 2
    Overlap = FALSE
    MaxClaims = 2
    MaxCrashes = 1
CHECK_DEADLOCK FALSE
INVARIANTS OneJobDrivesRun
PROPERTIES FailedJobEndsRun
