\* Breakers that trip by stagnation and repetition before the iteration limit,
\* and room for checkpoints after each of two revisions that resume the loop.
SPECIFICATION Spec
CONSTANTS
    base = base
    stray = stray
    narrow = narrow
    wide = wide
    qa = qa
    artifact = artifact
    handoff = handoff
    t1 = t1
    t2 = t2
    t3 = t3
    owner = owner
    Clients = {c1}
    Prints = {base, stray}
    Baseline = base
    Checks <- MCChecks
    Passing <- MCPassing
    Live = {artifact}
    Terms = {t2, t3}
    Criteria <- MCCriteria
    Keys <- MCKeys
    Gates <- MCGates
    Escaping <- MCEscaping
    RequireChange = TRUE
    Contexts = {x1, x2}
    Failures = {f1}
    None = None
    MaxIterations = 4
    MaxNoProgress = 2
    MaxRepeatedFailure = 2
    MaxEvents = 8
    MaxRevisions = 3
    HistoryKept = 3
    OscillationWindow = 2
INVARIANTS UnattendedIsBounded ApprovalsMatchTarget
