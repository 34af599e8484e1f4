SPECIFICATION Spec
CONSTANTS
    a = a
    b = b
    c = c
    a1 = a1
    a2 = a2
    b1 = b1
    b2 = b2
    b3 = b3
    c1 = c1
    d1 = d1
    e1 = e1
    desk = desk
    bench = bench
    None = None
    Phases = {a, b, c}
    Bodies = {d1, e1}
    Plans <- Apart
    Draft <- ApartDraft
    Rank <- ApartRank
    Core <- MCCore
    Needs <- MCNeeds
    Before <- ApartBefore
    After <- ApartAfter
    Roams = {d1, e1}
    Overlaps <- ApartOverlaps
    MaxParallel = 2
    HumanGates = {desk}
    ExternalGates = {bench}
    FinalGates = {}
    Voices = {v1}
    Enough <- MCEnough
    Loops = {l1, l2}
    MaxRevisions = 1
    MaxEditions = 2
    MaxHeads = 1
    MaxUnsettled = 2
SYMMETRY LoopSymmetry
INVARIANT ParallelIsSafe
CHECK_DEADLOCK FALSE
