SPECIFICATION Spec
CONSTANTS
    w1 = w1
    w2 = w2
    c1 = c1
    c2 = c2
    requester = requester
    approver = approver
    Workers = {w1, w2}
    NoWorker = NoWorker
    Candidates = {c1, c2}
    NoCandidate = NoCandidate
    Absent = Absent
    Users = {requester, approver}
    Requester = requester
    Nobody = Nobody
    PlanLimit = 1
    MaxAttempts = 2
    Overlap = TRUE
    MaxClaims = 2
    MaxCrashes = 1
CHECK_DEADLOCK FALSE
SYMMETRY Symmetry
INVARIANTS EvidenceChain ProductionIsAuthorized DecisionTakesEffect NothingStranded
PROPERTIES EvidenceFrozen
