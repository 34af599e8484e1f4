\* Two contract bodies, at most three revisions and four events: a revision
\* can follow an interrupted revision, and the log can fill up.
CONSTANTS
    Bodies = {b1, b2}
    MaxEvents = 4
    MaxRevisions = 3
    NoFile = NoFile
SPECIFICATION Spec
SYMMETRY Symmetry
INVARIANTS
    TypeOK
    CommittedLoads
    NoStaleJournal
PROPERTIES
    RevisionsImmutable
    AcknowledgedIsCommitted
    ImplementsDurableLoop
