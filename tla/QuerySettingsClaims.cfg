\* What documents, comments and tests claim and the code does not keep.  TLC stops at the
\* first violation: leave one property at a time to see each.
SPECIFICATION AllSpec
CONSTANTS
    p1 = p1
    p2 = p2
    h1 = h1
    h2 = h2
    e1 = e1
    e2 = e2
    Processes = {p1, p2}
    Nobody = Nobody
    Hints = {h1, h2}
    Actions <- MCActions
    HumanHint = HumanHint
    NoHint = NoHint
    Human = Human
    Evidence = {e1}
    Absent = Absent
    MaxCalls = 4
    MaxCrashes = 1
    MaxEdits = 1
    Acting = {"durable"}
    Deployments <- MCDeployments
    MaxDeployments = 4
    MaxDisturbances = 1
SYMMETRY Symmetry
CHECK_DEADLOCK FALSE
INVARIANTS LedgerTellsState
PROPERTIES NeverUndoesAnother HumanSettingKept RestoresWhatItReplaced
