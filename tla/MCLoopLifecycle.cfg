SPECIFICATION Spec
CONSTANTS
    base = base
    stray = stray
    narrow = narrow
    wide = wide
    qa = qa
    artifact = artifact
    handoff = handoff
    t1 = t1
    t2 = t2
    t3 = t3
    owner = owner
    Clients = {c1, c2}
    Prints = {narrow, wide}
    Baseline = narrow
    Checks <- MCChecks
    Passing <- MCPassing
    Live = {artifact}
    Terms = {t1, t2}
    Criteria <- MCCriteria
    Keys <- MCKeys
    Gates <- MCGates
    Escaping <- MCEscaping
    RequireChange = FALSE
    Contexts = {x1}
    Failures = {}
    None = None
    MaxIterations = 1
    MaxNoProgress = 1
    MaxRepeatedFailure = 2
    MaxEvents = 4
    MaxRevisions = 3
    HistoryKept = 1
    OscillationWindow = 0
SYMMETRY ClientSymmetry
INVARIANTS SuccessIsEarned ReceiptsAgree EveryLoopCanEnd
PROPERTIES PauseHolds ImplementsAttestedLoop
