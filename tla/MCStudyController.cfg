SPECIFICATION FairSpec
CONSTANTS
    NumCells = 2
    Runners = {r1, r2}
    MaxParallel = 2
    None = None
    MaxRecords = 4
    MaxFaults = 2
INVARIANTS OneInvocation AlwaysLoads
PROPERTIES ImplementsSchedule CompleteIsSealed
CHECK_DEADLOCK FALSE
