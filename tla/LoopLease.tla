----------------------------- MODULE LoopLease -----------------------------
(***************************************************************************)
(* The loops of one checkout and the two references they share,            *)
(* active.json (the write lease) and latest.json.  An operation of         *)
(* LoopService runs under the state lock (DirectoryLock), so operations do *)
(* not interleave; but it moves a loop and the lease in separate file      *)
(* writes, and it may die between any two of them or meet an error in the  *)
(* middle of its commit.  A commit itself is one step, because LoopStore   *)
(* implements DurableLoop: it happens when the journal is in place.        *)
(***************************************************************************)
EXTENDS Naturals, FiniteSets

CONSTANTS
    Loops,   \* the loops that may be started
    None     \* no loop

VARIABLES
    status,  \* status of each loop; "bare" is a directory nothing was committed to
    writes,  \* whether its contract's autonomyLevel is in WRITE_AUTONOMY
    lease,   \* active.json
    latest,  \* latest.json
    pc,      \* what the operation under way does next
    op,      \* the operation: its loop and what it commits
    struck   \* history variable: "crash" once an operation died, "late" once a
             \* commit raised although its journal was in place

vars == <<status, writes, lease, latest, pc, op, struck>>

Statuses == {"absent", "bare", "active", "needs_approval", "stopped", "succeeded"}
TerminalStatuses == {"stopped", "succeeded"}
Unloadable == {"absent", "bare"}

Operation ==
    [name : {"start", "checkpoint", "revise", "stop", "finalize"},
     loop : Loops, status : Statuses \ Unloadable, writes : BOOLEAN,
     acquired : BOOLEAN]   \* what the except clause of its commit releases

ASSUME NoneAssumption == None \notin Loops /\ None \notin Operation

TypeOK ==
    /\ status \in [Loops -> Statuses]
    /\ writes \in [Loops -> BOOLEAN]
    /\ lease \in Loops \cup {None}
    /\ latest \in Loops \cup {None}
    /\ pc \in {"idle", "lease", "commit", "settle"}
    /\ op \in Operation \cup {None}
    /\ pc = "idle" <=> op = None
    /\ struck \subseteq {"crash", "late"}

Init ==
    /\ status = [l \in Loops |-> "absent"]
    /\ writes = [l \in Loops |-> FALSE]
    /\ lease = None
    /\ latest = None
    /\ pc = "idle"
    /\ op = None
    /\ struck = {}

\* A loop that may change the checkout now.
Writer(l) == status[l] = "active" /\ writes[l]

\* _active_loop raises: active.json names a loop that does not load.
Unreconcilable == lease # None /\ status[lease] \in Unloadable

\* What _active_loop returns otherwise; when that is None, active.json is gone.
Holder == IF lease # None /\ Writer(lease) THEN lease ELSE None

\* Mutant of Released: whoever holds the lease loses it.
ReleasedUnchecked(l) == None

\* _release_active: the lease after loop l lets go of it.
Released(l) == IF lease = l THEN None ELSE lease

-----------------------------------------------------------------------------
\* start, up to the new directory: a write loop first reconciles the lease
\* and is refused when another loop holds it.
StartBegin(l, w) ==
    /\ pc = "idle"
    /\ status[l] = "absent"
    /\ w => ~Unreconcilable /\ Holder = None
    /\ lease' = IF w THEN None ELSE lease
    /\ status' = [status EXCEPT ![l] = "bare"]
    /\ op' = [name |-> "start", loop |-> l, status |-> "active", writes |-> w,
              acquired |-> TRUE]
    /\ pc' = IF w THEN "lease" ELSE "commit"
    /\ UNCHANGED <<writes, latest, struck>>

\* Mutant of StartLease: latest.json is written together with active.json.
StartLeaseAndLatest ==
    /\ pc = "lease"
    /\ lease' = op.loop
    /\ latest' = op.loop
    /\ pc' = "commit"
    /\ UNCHANGED <<status, writes, op, struck>>

\* start: _set_active before the first commit.
StartLease ==
    /\ pc = "lease"
    /\ lease' = op.loop
    /\ pc' = "commit"
    /\ UNCHANGED <<status, writes, latest, op, struck>>

\* Mutant of ReviseBegin: a resumed loop takes the lease back from its holder.
ReviseBeginUnguarded(l, w) ==
    /\ pc = "idle"
    /\ status[l] \in {"active", "needs_approval"}
    /\ lease' = IF w THEN l ELSE lease
    /\ op' = [name |-> "revise", loop |-> l, status |-> "active", writes |-> w,
              acquired |-> w /\ Holder = None]
    /\ pc' = "commit"
    /\ UNCHANGED <<status, writes, latest, struck>>

\* revise, up to its commit: the loop (re)acquires the lease if the revised
\* contract may write, and is refused when another loop holds it.
ReviseBegin(l, w) ==
    /\ pc = "idle"
    /\ status[l] \in {"active", "needs_approval"}
    /\ w => ~Unreconcilable /\ Holder \in {None, l}
    /\ lease' = IF w THEN l ELSE lease
    /\ op' = [name |-> "revise", loop |-> l, status |-> "active", writes |-> w,
              acquired |-> w /\ Holder = None]
    /\ pc' = "commit"
    /\ UNCHANGED <<status, writes, latest, struck>>

\* checkpoint: the loop goes on, is paused by a breaker, or is stopped by a
\* policy violation.
CheckpointBegin(l, s) ==
    /\ pc = "idle"
    /\ status[l] = "active"
    /\ op' = [name |-> "checkpoint", loop |-> l, status |-> s,
              writes |-> writes[l], acquired |-> FALSE]
    /\ pc' = "commit"
    /\ UNCHANGED <<status, writes, lease, latest, struck>>

\* stop: a user may stop a running or a paused loop.
StopBegin(l) ==
    /\ pc = "idle"
    /\ status[l] \in {"active", "needs_approval"}
    /\ op' = [name |-> "stop", loop |-> l, status |-> "stopped",
              writes |-> writes[l], acquired |-> FALSE]
    /\ pc' = "commit"
    /\ UNCHANGED <<status, writes, lease, latest, struck>>

\* finalize; on a loop that has succeeded it appends completion-revalidated,
\* which changes nothing here.
FinalizeBegin(l) ==
    /\ pc = "idle"
    /\ status[l] = "active"
    /\ op' = [name |-> "finalize", loop |-> l, status |-> "succeeded",
              writes |-> writes[l], acquired |-> FALSE]
    /\ pc' = "commit"
    /\ UNCHANGED <<status, writes, lease, latest, struck>>

\* status without a loop_id: _active_loop removes a lease that is not held.
Status ==
    /\ pc = "idle"
    /\ ~Unreconcilable
    /\ lease' = Holder
    /\ UNCHANGED <<status, writes, latest, pc, op, struck>>

-----------------------------------------------------------------------------
Committed ==
    /\ status' = [status EXCEPT ![op.loop] = op.status]
    /\ writes' = [writes EXCEPT ![op.loop] = op.writes]

\* _commit_state returns.
Commit ==
    /\ pc = "commit"
    /\ Committed
    /\ pc' = "settle"
    /\ UNCHANGED <<lease, latest, op, struck>>

\* Mutant of Unwound: start and revise have no except clause.
UnwoundNot == lease

\* What the except clause around the commit of start and revise does.
Unwound == IF op.acquired THEN Released(op.loop) ELSE lease

\* _commit_state raises before its journal is in place: nothing is committed.
CommitFails ==
    /\ pc = "commit"
    /\ lease' = Unwound
    /\ pc' = "idle"
    /\ op' = None
    /\ UNCHANGED <<status, writes, latest, struck>>

\* _commit_state raises after its journal is in place: the caller is told
\* that the commit failed, and the next load replays it.
CommitFailsLate ==
    /\ pc = "commit"
    /\ Committed
    /\ lease' = Unwound
    /\ pc' = "idle"
    /\ op' = None
    /\ struck' = struck \union {"late"}
    /\ UNCHANGED latest

\* The writes after the commit: start names the loop latest.json, revise
\* renews or drops the lease, the others drop it unless the loop goes on.
Settle ==
    /\ pc = "settle"
    /\ latest' = IF op.name = "start" THEN op.loop ELSE latest
    /\ lease' = IF op.status # "active" \/ (op.name = "revise" /\ ~op.writes)
                THEN Released(op.loop)
                ELSE IF op.name = "revise" THEN op.loop ELSE lease
    /\ pc' = "idle"
    /\ op' = None
    /\ UNCHANGED <<status, writes, struck>>

\* The process dies.  An event log at its capacity, or an error outside the
\* try blocks, ends an operation the same way.
Crash ==
    /\ pc # "idle"
    /\ pc' = "idle"
    /\ op' = None
    /\ struck' = struck \union {"crash"}
    /\ UNCHANGED <<status, writes, lease, latest>>

Begin ==
    \E l \in Loops :
        \/ \E w \in BOOLEAN : StartBegin(l, w) \/ ReviseBegin(l, w)
        \/ \E s \in {"active", "needs_approval", "stopped"} : CheckpointBegin(l, s)
        \/ StopBegin(l)
        \/ FinalizeBegin(l)

Next ==
    \/ Begin \/ StartLease \/ Status
    \/ Commit \/ CommitFails \/ CommitFailsLate \/ Settle \/ Crash

Spec == Init /\ [][Next]_vars

-----------------------------------------------------------------------------
\* At most one loop that may write is active in the checkout, wherever the
\* operations before it were cut short.
OneWriter ==
    \A l, m \in Loops : Writer(l) /\ Writer(m) => l = m

\* A loop that may write holds the lease, so that the next write loop to
\* start or resume is refused, wherever operations died or raised, until a
\* commit raises whose journal is in place.
WriterHoldsLease ==
    "late" \notin struck => \A l \in Loops : Writer(l) => lease = l

\* latest.json only ever names a loop that loads, so status always has an
\* answer once a loop was started.
LatestLoads ==
    latest # None => status[latest] \notin Unloadable

\* No operation that returns or raises, whatever error its commit met, leaves
\* a lease that _active_loop cannot reconcile: such a lease would refuse every
\* later write loop of the checkout.  (A process that dies between _set_active
\* and the first journal does leave one: "crash" is excepted.)
LeaseReconciles ==
    pc = "idle" /\ "crash" \notin struck => ~Unreconcilable

\* A terminal loop is never revived, not even by a commit that was reported
\* as failed.
TerminalIsForever ==
    [][\A l \in Loops : status[l] \in TerminalStatuses => status'[l] = status[l]]_vars

\* For the checkout, the loops are clients of one mutex, as long as no commit
\* raises behind its journal; after that nothing is claimed of it.
CurrentWriter ==
    IF "late" \notin struck /\ \E l \in Loops : Writer(l)
    THEN CHOOSE l \in Loops : Writer(l)
    ELSE None

Mutex == INSTANCE CheckoutMutex WITH writer <- CurrentWriter

ImplementsMutex == Mutex!Spec
=============================================================================
