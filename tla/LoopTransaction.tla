-------------------------- MODULE LoopTransaction --------------------------
(***************************************************************************)
(* The value one loop commits: a contract, an event log and a snapshot,    *)
(* bound to one another by digests (loop/protocol.py).  A digest is        *)
(* modelled by the value it is the digest of, so two digests are equal     *)
(* exactly when the values are.                                            *)
(***************************************************************************)
EXTENDS Naturals, Sequences

CONSTANTS
    Bodies,        \* what two contracts, or two snapshots, may differ in
    MaxEvents,     \* MAX_EVENTS
    MaxRevisions,  \* MAX_CONTRACT_REVISIONS
    NoFile         \* a file that is not there

ASSUME LimitsAssumption ==
    /\ MaxEvents \in Nat /\ MaxEvents > 1
    /\ MaxRevisions \in Nat /\ MaxRevisions > 0

Revisions == 1 .. MaxRevisions

\* A contract: its revision number and everything else it says.
Contract == [revision : Revisions, body : Bodies]

\* What the snapshotDigest in the newest event covers: every snapshot field
\* but latestEventHash.
Bound == [contract : Contract, sequence : 1 .. MaxEvents, body : Bodies]

\* An event log, by what the loader looks at: how many events, the contract
\* digests in its loop-started and contract-revised events in order, and the
\* snapshotDigest of the newest event.
Log == [length : 1 .. MaxEvents, chain : Seq(Contract), bound : Bound]

\* A snapshot also names the newest event by its hash, which covers the log.
Snapshot == [bound : Bound, latest : Log]

Transaction == [contract : Contract, events : Log, snapshot : Snapshot]

ASSUME NoFileAssumption ==
    /\ NoFile \notin Contract
    /\ NoFile \notin Log
    /\ NoFile \notin Snapshot
    /\ NoFile \notin Transaction

\* _append_event, _prepare_snapshot: the transaction that records contract c,
\* the log's chain ch and the snapshot body b as event number n.
Record(c, ch, n, b) ==
    LET bound == [contract |-> c, sequence |-> n, body |-> b]
        log == [length |-> n, chain |-> ch, bound |-> bound]
    IN  [contract |-> c, events |-> log,
         snapshot |-> [bound |-> bound, latest |-> log]]

\* start: revision 1 and the loop-started event.
FirstTransactions ==
    {Record([revision |-> 1, body |-> b], <<[revision |-> 1, body |-> b]>>, 1, s) :
        b \in Bodies, s \in Bodies}

\* Mutant of Capacity: > where the code has >=.
CapacityOffByOne(terminal) == IF terminal THEN MaxEvents + 1 ELSE MaxEvents

\* The last slot of the log is reserved for a terminal event.
Capacity(terminal) == IF terminal THEN MaxEvents ELSE MaxEvents - 1

\* checkpoint, stop and finalize: one more event under the same contract.
SameContract(t) ==
    {Record(t.contract, t.events.chain, t.events.length + 1, s) : s \in Bodies}

\* revise: a new contract revision, recorded by one more event.
NewContract(t) ==
    {LET c == [revision |-> t.contract.revision + 1, body |-> b]
     IN  Record(c, Append(t.events.chain, c), t.events.length + 1, s) :
        b \in Bodies, s \in Bodies}

\* The transactions an operation on t may commit next: a terminal event may
\* take the last slot, a revision may not.
Successors(t) ==
    (IF t.events.length < Capacity(TRUE) THEN SameContract(t) ELSE {})
    \cup
    (IF t.contract.revision < MaxRevisions /\ t.events.length < Capacity(FALSE)
        THEN NewContract(t) ELSE {})

\* _validate_snapshot_binding and the binding checks of _load and
\* _recover_pending.
BindingsHold(c, log, snap) ==
    /\ snap.bound.contract = c
    /\ snap.bound.sequence = log.length
    /\ snap.latest = log
    /\ log.bound = snap.bound
=============================================================================
