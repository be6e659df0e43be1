SPECIFICATION AllSpec
CONSTANTS
    Acting = {"ledger", "diagnosis", "one diagnosis", "snapshots", "passwords", "tokens"}
    Writers = {"l1", "l2", "l3"}
    Targets = {t1, t2}
    Entries = {1, 2, 3, 4}
    GENESIS_HASH = 0
    Workers = {w1, w2}
    Answers = {"a1", "a2"}
    NoArtifact = NoArtifact
    NoInvocation = NoInvocation
    MaxCalls = 4
    Runs = {r1, r2}
    NoRun = NoRun
    NoSnapshot = NoSnapshot
    Lookback = 1
    MaxAge = 1
    Delay = 1
    Length = 1
    MaxTime = 3
    MaxWindows = 2
    FAILED_LOGIN_LIMIT = 2
    LOCKOUT_DURATION = 2
    Lifetime = 2
    SessionTime = 3
    MaxTokens = 3
    MaxChecks = 4
SYMMETRY Symmetry
INVARIANTS ChainsVerify DiagnosisIsSound SnapshotIsSound SessionsAreSound
PROPERTIES AppendedAtEnd
CHECK_DEADLOCK FALSE
