SPECIFICATION Spec
CONSTANTS
    a = a
    b = b
    c = c
    a1 = a1
    a2 = a2
    b1 = b1
    b2 = b2
    b3 = b3
    c1 = c1
    d1 = d1
    e1 = e1
    desk = desk
    bench = bench
    None = None
    Phases = {a, b, c}
    Bodies = {a1, a2, b1, b2, b3, c1}
    Plans <- Chain
    Draft <- ChainDraft
    Rank <- ChainRank
    Core <- MCCore
    Needs <- MCNeeds
    Before <- ChainBefore
    After <- ChainAfter
    Roams = {a1}
    Overlaps = {}
    MaxParallel = 2
    HumanGates = {desk}
    ExternalGates = {bench}
    FinalGates = {}
    Voices = {v1}
    Enough <- MCEnough
    Loops = {l1, l2, l3}
    MaxRevisions = 2
    MaxEditions = 2
    MaxHeads = 1
    MaxUnsettled = 2
SYMMETRY LoopSymmetry
INVARIANTS BuiltInOrder ProofsMatch OneLoopOnePhase ClockHonest CompletionStands
PROPERTIES PausedWorkStands ImplementsPhaseOrder
CHECK_DEADLOCK FALSE
