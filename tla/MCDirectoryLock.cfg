\* Processes may die anywhere inside the lock; none keeps it for more than 30
\* seconds.
CONSTANTS
    Procs = {p1, p2, p3, p4}
    None = None
    MaxCallers = 4
    Faults = {"crash"}
SPECIFICATION FairSpec
INVARIANTS
    MutualExclusion
    OwnerNamed
PROPERTIES
    AbandonedLockReclaimed
\* When every process is dead nothing happens any more.
CHECK_DEADLOCK FALSE
