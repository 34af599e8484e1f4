\* Three programs, so that a retry can find its program behind a newer one;
\* every call may be cut short by a crash or an error.
CONSTANTS
    MaxPrograms = 3
    MaxOperations = 2
    OpIds = {o1, o2, o3, o4}
    Inputs = {x, y}
    None = None
    Faults = {"crash", "io"}
SPECIFICATION Spec
SYMMETRY Symmetry
INVARIANTS
    TypeOK
    OneRunning
    RefsLoad
    StatusIsCurrent
    AnswerIsRecorded
PROPERTIES
    RetriesAgree
    ImplementsOneSlot
\* A lock without an owner is never taken again.
CHECK_DEADLOCK FALSE
