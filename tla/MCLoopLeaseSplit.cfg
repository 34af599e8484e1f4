\* Two write loops become active when a commit raises after its journal is in place.
CONSTANTS
    Loops = {l1, l2, l3}
    None = None
SPECIFICATION Spec
SYMMETRY Symmetry
INVARIANTS
    OneWriter
CHECK_DEADLOCK FALSE
