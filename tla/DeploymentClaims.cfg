\* What documents, comments and tests claim and the code does not keep.  TLC stops at the
\* first violation: leave one property at a time to see each.
SPECIFICATION Spec
CONSTANTS
    Workers = {w1, w2}
    NoWorker = NoWorker
    Orphan = Orphan
    NoState = NoState
    Human = Human
    Nobody = Nobody
    Runs = {r1, r2}
    HumanGated = {r1}
    Overlap = FALSE
    MaxClaims = 2
    MaxCrashes = 1
    MaxEdits = 0
CHECK_DEADLOCK FALSE
INVARIANTS RecordedRollbackIsFinal BlockedIsRecorded
PROPERTIES ExpiredApprovalFailsClosed DropsOwnIndexOnly
