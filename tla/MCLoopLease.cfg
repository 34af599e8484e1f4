\* Three loops, so that a third can start while one is paused and another
\* holds the lease.  Every operation may be cut short by a crash, and every
\* commit may raise, before or after its journal is in place.
CONSTANTS
    Loops = {l1, l2, l3}
    None = None
SPECIFICATION Spec
SYMMETRY Symmetry
INVARIANTS
    WriterHoldsLease
    LatestLoads
    LeaseReconciles
PROPERTIES
    ImplementsMutex
\* Once every loop is terminal nothing more can be asked of them.
CHECK_DEADLOCK FALSE
