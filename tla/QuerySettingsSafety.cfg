SPECIFICATION AllSpec
CONSTANTS
    p1 = p1
    p2 = p2
    h1 = h1
    h2 = h2
    e1 = e1
    e2 = e2
    Processes = {p1, p2}
    Nobody = Nobody
    Hints = {h1, h2}
    Actions <- MCActions
    HumanHint = HumanHint
    NoHint = NoHint
    Human = Human
    Evidence = {e1, e2}
    Absent = Absent
    MaxCalls = 4
    MaxCrashes = 1
    MaxEdits = 1
    Acting = {"durable", "direct"}
    Deployments <- MCDeployments
    MaxDeployments = 4
    MaxDisturbances = 1
SYMMETRY Symmetry
CHECK_DEADLOCK FALSE
INVARIANTS LedgeredOnce RowsTellWhatWasSeen
PROPERTIES UndoesOwnHintOnly SettingsAreAtomic
