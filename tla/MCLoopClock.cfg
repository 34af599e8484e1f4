SPECIFICATION Spec
CONSTANTS
    Horizon = 6
    MaySetBack = TRUE
    NotRunning = NotRunning
\* The clock stops at the horizon, and a stopped loop stays as it is.
CHECK_DEADLOCK FALSE
INVARIANTS TypeOK WaitingIsFree
