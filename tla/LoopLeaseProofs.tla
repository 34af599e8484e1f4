-------------------------- MODULE LoopLeaseProofs --------------------------
(***************************************************************************)
(* The write lease of a checkout, for every set of loops.  What holds      *)
(* whatever interrupts an operation is proved of every behaviour; that the *)
(* lease excludes a second writer is proved until a commit raises after    *)
(* its journal is in place, and that it reconciles until a process dies.   *)
(***************************************************************************)
EXTENDS LoopLease, TLAPS

\* What an operation under way found when it began, and has done since.
OperationInv ==
    /\ pc \in {"lease", "commit"} => status[op.loop] \notin TerminalStatuses
    /\ pc = "settle" => /\ status[op.loop] = op.status
                        /\ writes[op.loop] = op.writes

Base == TypeOK /\ OperationInv /\ LatestLoads

\* The lease is taken before the commit that makes its loop a writer, and a
\* commit that raises gives back only a lease that no writer holds.
Exclusive ==
    /\ \A l \in Loops : Writer(l) => lease = l
    /\ pc = "lease" => \A l \in Loops : ~Writer(l)
    /\ pc = "commit" /\ op.status = "active" /\ op.writes => lease = op.loop
    /\ pc = "commit" /\ op.acquired => ~Writer(op.loop)

\* It excludes a second writer until a commit raises behind its journal.
ExclusiveYet == "late" \notin struck => Exclusive

\* An operation under way is one, and has a loop.
LEMMA Busy ==
    ASSUME TypeOK, pc # "idle"
    PROVE  /\ op \in Operation /\ op.loop \in Loops
           /\ op.status \in Statuses \ Unloadable /\ op.writes \in BOOLEAN
<1>1. op # None
  BY DEF TypeOK
<1> QED
  BY <1>1 DEF TypeOK, Operation

LEMMA InitBase == Init => Base /\ ExclusiveYet
  BY DEF Init, Base, ExclusiveYet, Exclusive, TypeOK, Statuses, OperationInv,
         LatestLoads, Writer

\* The steps that begin an operation keep the base invariant: they find the
\* loop in a state that is not terminal.
LEMMA BeginBase ==
    ASSUME Base, Begin
    PROVE  Base'
<1> USE DEF Base
<1>1. PICK l \in Loops :
          \/ \E w \in BOOLEAN : StartBegin(l, w) \/ ReviseBegin(l, w)
          \/ \E s \in {"active", "needs_approval", "stopped"} : CheckpointBegin(l, s)
          \/ StopBegin(l)
          \/ FinalizeBegin(l)
  BY DEF Begin
<1>2. CASE \E w \in BOOLEAN : StartBegin(l, w)
  <2>1. PICK w \in BOOLEAN : StartBegin(l, w)
    BY <1>2
  <2>2. op' \in Operation /\ op'.loop = l
    BY <2>1 DEF StartBegin, Operation, Statuses, Unloadable
  <2>3. TypeOK'
    BY <2>1, <2>2, NoneAssumption DEF StartBegin, TypeOK, Statuses
  <2> QED
    BY <2>1, <2>2, <2>3
       DEF StartBegin, OperationInv, LatestLoads, TypeOK, TerminalStatuses, Unloadable
<1>3. CASE \E w \in BOOLEAN : ReviseBegin(l, w)
  <2>1. PICK w \in BOOLEAN : ReviseBegin(l, w)
    BY <1>3
  <2>2. op' \in Operation /\ op'.loop = l
    BY <2>1 DEF ReviseBegin, Operation, Statuses, Unloadable
  <2>3. TypeOK'
    BY <2>1, <2>2, NoneAssumption DEF ReviseBegin, TypeOK
  <2> QED
    BY <2>1, <2>2, <2>3
       DEF ReviseBegin, OperationInv, LatestLoads, TerminalStatuses
<1>4. CASE \E s \in {"active", "needs_approval", "stopped"} : CheckpointBegin(l, s)
  <2>1. PICK s \in {"active", "needs_approval", "stopped"} : CheckpointBegin(l, s)
    BY <1>4
  <2>2. op' \in Operation /\ op'.loop = l
    BY <2>1 DEF CheckpointBegin, Operation, Statuses, Unloadable, TypeOK
  <2>3. TypeOK'
    BY <2>1, <2>2, NoneAssumption DEF CheckpointBegin, TypeOK
  <2> QED
    BY <2>1, <2>2, <2>3
       DEF CheckpointBegin, OperationInv, LatestLoads, TerminalStatuses
<1>5. CASE StopBegin(l)
  <2>1. op' \in Operation /\ op'.loop = l
    BY <1>5 DEF StopBegin, Operation, Statuses, Unloadable, TypeOK
  <2>2. TypeOK'
    BY <1>5, <2>1, NoneAssumption DEF StopBegin, TypeOK
  <2> QED
    BY <1>5, <2>1, <2>2
       DEF StopBegin, OperationInv, LatestLoads, TerminalStatuses
<1>6. CASE FinalizeBegin(l)
  <2>1. op' \in Operation /\ op'.loop = l
    BY <1>6 DEF FinalizeBegin, Operation, Statuses, Unloadable, TypeOK
  <2>2. TypeOK'
    BY <1>6, <2>1, NoneAssumption DEF FinalizeBegin, TypeOK
  <2> QED
    BY <1>6, <2>1, <2>2
       DEF FinalizeBegin, OperationInv, LatestLoads, TerminalStatuses
<1> QED
  BY <1>1, <1>2, <1>3, <1>4, <1>5, <1>6

\* The other steps keep it.
LEMMA StepBase ==
    ASSUME Base, [Next]_vars
    PROVE  Base'
<1> USE DEF Base
<1>1. CASE Begin
  BY <1>1, BeginBase
<1>2. CASE StartLease
  <2>1. op \in Operation /\ op.loop \in Loops
    BY <1>2, Busy DEF StartLease
  <2> QED
    BY <1>2, <2>1 DEF StartLease, TypeOK, OperationInv, LatestLoads
<1>3. CASE Status
  BY <1>3 DEF Status, Holder, TypeOK, OperationInv, LatestLoads
<1>4. CASE Commit
  <2>1. op \in Operation /\ op.loop \in Loops /\ op.status \in Statuses \ Unloadable
    BY <1>4, Busy DEF Commit
  <2>2. TypeOK'
    BY <1>4, <2>1 DEF Commit, Committed, TypeOK, Operation
  <2> QED
    BY <1>4, <2>1, <2>2
       DEF Commit, Committed, TypeOK, OperationInv, LatestLoads, Unloadable
<1>5. CASE CommitFails
  BY <1>5 DEF CommitFails, Unwound, Released, TypeOK, OperationInv, LatestLoads
<1>6. CASE CommitFailsLate
  <2>1. op \in Operation /\ op.loop \in Loops /\ op.status \in Statuses \ Unloadable
    BY <1>6, Busy DEF CommitFailsLate
  <2>2. TypeOK'
    BY <1>6, <2>1 DEF CommitFailsLate, Committed, Unwound, Released, TypeOK, Operation
  <2> QED
    BY <1>6, <2>1, <2>2
       DEF CommitFailsLate, Committed, TypeOK, OperationInv, LatestLoads, Unloadable
<1>7. CASE Settle
  <2>1. /\ op \in Operation /\ op.loop \in Loops
        /\ status[op.loop] = op.status /\ op.status \in Statuses \ Unloadable
    BY <1>7, Busy DEF Settle, OperationInv
  <2>2. TypeOK'
    BY <1>7, <2>1 DEF Settle, Released, TypeOK
  <2> QED
    BY <1>7, <2>1, <2>2 DEF Settle, OperationInv, LatestLoads
<1>8. CASE Crash
  BY <1>8 DEF Crash, TypeOK, OperationInv, LatestLoads
<1>9. CASE UNCHANGED vars
  BY <1>9 DEF vars, TypeOK, OperationInv, LatestLoads
<1> QED
  BY <1>1, <1>2, <1>3, <1>4, <1>5, <1>6, <1>7, <1>8, <1>9 DEF Next

THEOREM BaseInvariance == Spec => []Base
<1>1. Init => Base
  BY InitBase
<1>2. Base /\ [Next]_vars => Base'
  BY StepBase
<1> QED
  BY <1>1, <1>2, PTL DEF Spec

\* Every variable keeps its type, and an idle service has no operation.
THEOREM LeaseTypeCorrect == Spec => []TypeOK
<1>1. Base => TypeOK
  BY DEF Base
<1> QED
  BY <1>1, BaseInvariance, PTL

\* latest.json never names a loop that does not load, whatever interrupts the
\* operations.
THEOREM LatestAlwaysLoads == Spec => []LatestLoads
<1>1. Base => LatestLoads
  BY DEF Base
<1> QED
  BY <1>1, BaseInvariance, PTL

\* A stopped or succeeded loop stays as it is, whatever interrupts the
\* operations.
THEOREM TerminalNeverLeft == Spec => TerminalIsForever
<1>1. Base /\ [Next]_vars =>
        [\A l \in Loops : status[l] \in TerminalStatuses => status'[l] = status[l]]_vars
  <2> SUFFICES ASSUME Base, [Next]_vars, NEW l \in Loops,
                      status[l] \in TerminalStatuses
               PROVE  status'[l] = status[l]
    OBVIOUS
  <2> USE DEF Base
  <2>1. CASE Begin
    <3>1. PICK m \in Loops :
              \/ \E w \in BOOLEAN : StartBegin(m, w) \/ ReviseBegin(m, w)
              \/ \E s \in {"active", "needs_approval", "stopped"} : CheckpointBegin(m, s)
              \/ StopBegin(m)
              \/ FinalizeBegin(m)
      BY <2>1 DEF Begin
    <3> QED
      BY <3>1 DEF StartBegin, ReviseBegin, CheckpointBegin, StopBegin, FinalizeBegin,
                  TypeOK, TerminalStatuses
  <2>2. CASE Commit \/ CommitFailsLate
    <3>1. status[op.loop] \notin TerminalStatuses /\ Committed
      BY <2>2 DEF Commit, CommitFailsLate, OperationInv
    <3> QED
      BY <3>1 DEF Committed, TypeOK
  <2>3. CASE StartLease \/ Status \/ CommitFails \/ Settle \/ Crash \/ UNCHANGED vars
    BY <2>3 DEF StartLease, Status, CommitFails, Settle, Crash, vars
  <2> QED
    BY <2>1, <2>2, <2>3 DEF Next
<1> QED
  BY <1>1, BaseInvariance, PTL DEF Spec, TerminalIsForever

-----------------------------------------------------------------------------
\* When the lease is Exclusive, what _active_loop returns is the only loop
\* that may write.
LEMMA HolderIsWriter ==
    ASSUME TypeOK, Exclusive, NEW l \in Loops, Writer(l)
    PROVE  Holder = l /\ lease = l
  BY NoneAssumption DEF Exclusive, Holder, TypeOK

\* The steps that begin an operation keep the lease exclusive.
LEMMA BeginExclusive ==
    ASSUME Base, Exclusive, Begin
    PROVE  Exclusive'
<1> USE DEF Base, Exclusive
<1>1. PICK l \in Loops :
          \/ \E w \in BOOLEAN : StartBegin(l, w) \/ ReviseBegin(l, w)
          \/ \E s \in {"active", "needs_approval", "stopped"} : CheckpointBegin(l, s)
          \/ StopBegin(l)
          \/ FinalizeBegin(l)
  BY DEF Begin
<1>2. CASE \E w \in BOOLEAN : StartBegin(l, w)
  <2>1. PICK w \in BOOLEAN : StartBegin(l, w)
    BY <1>2
  <2>2. \A m \in Loops : Writer(m)' => Writer(m)
    BY <2>1 DEF StartBegin, Writer, TypeOK
  <2>3. w => \A m \in Loops : ~Writer(m)
    BY <2>1, HolderIsWriter, NoneAssumption DEF StartBegin
  <2>4. op'.loop = l /\ op'.writes = w /\ ~Writer(l)'
    BY <2>1 DEF StartBegin, Writer, TypeOK
  <2> QED
    BY <2>1, <2>2, <2>3, <2>4 DEF StartBegin
<1>3. CASE \E w \in BOOLEAN : ReviseBegin(l, w)
  <2>1. PICK w \in BOOLEAN : ReviseBegin(l, w)
    BY <1>3
  <2>2. \A m \in Loops : Writer(m)' = Writer(m)
    BY <2>1 DEF ReviseBegin, Writer
  <2>3. w => \A m \in Loops : Writer(m) => m = l
    BY <2>1, HolderIsWriter, NoneAssumption DEF ReviseBegin
  <2>4. op'.loop = l /\ op'.writes = w /\ (op'.acquired => ~Writer(l))
    <3>1. op'.loop = l /\ op'.writes = w /\ (op'.acquired <=> w /\ Holder = None)
      BY <2>1 DEF ReviseBegin
    <3> QED
      BY <3>1, HolderIsWriter, NoneAssumption
  <2> QED
    BY <2>1, <2>2, <2>3, <2>4 DEF ReviseBegin
<1>4. CASE \E s \in {"active", "needs_approval", "stopped"} : CheckpointBegin(l, s)
  BY <1>4 DEF CheckpointBegin, Writer
<1>5. CASE StopBegin(l)
  BY <1>5 DEF StopBegin, Writer
<1>6. CASE FinalizeBegin(l)
  BY <1>6 DEF FinalizeBegin, Writer
<1> QED
  BY <1>1, <1>2, <1>3, <1>4, <1>5, <1>6

\* When nothing is committed behind the caller's back, every step does.
LEMMA StepExclusive ==
    ASSUME Base, Exclusive, [Next]_vars, "late" \notin struck'
    PROVE  Exclusive'
<1> USE DEF Base, Exclusive
<1>1. CASE Begin
  BY <1>1, BeginExclusive
<1>2. CASE StartLease
  <2>1. \A l \in Loops : Writer(l)' = Writer(l)
    BY <1>2 DEF StartLease, Writer
  <2>2. op.loop \in Loops
    BY <1>2, Busy DEF StartLease
  <2> QED
    BY <1>2, <2>1, <2>2 DEF StartLease
<1>3. CASE Status
  <2>1. \A l \in Loops : Writer(l)' = Writer(l)
    BY <1>3 DEF Status, Writer
  <2> QED
    BY <1>3, <2>1, HolderIsWriter DEF Status
<1>4. CASE Commit
  <2>1. op.loop \in Loops
    BY <1>4, Busy DEF Commit
  <2>2. \A l \in Loops : l # op.loop => Writer(l)' = Writer(l)
    BY <1>4, <2>1 DEF Commit, Committed, TypeOK, Writer
  <2>3. Writer(op.loop)' => op.status = "active" /\ op.writes
    BY <1>4, <2>1 DEF Commit, Committed, TypeOK, Writer
  <2> QED
    BY <1>4, <2>2, <2>3 DEF Commit
<1>5. CASE Settle
  <2>1. /\ op.loop \in Loops /\ status[op.loop] = op.status
        /\ writes[op.loop] = op.writes
    BY <1>5, Busy DEF Settle, OperationInv
  <2>2. \A l \in Loops : Writer(l)' = Writer(l)
    BY <1>5 DEF Settle, Writer
  <2>3. Writer(op.loop) => op.status = "active" /\ op.writes
    BY <2>1 DEF Writer
  <2>4. op.status = "active" /\ op.writes => Writer(op.loop)
    BY <2>1 DEF Writer
  <2>5. op.writes \in BOOLEAN
    BY <1>5, Busy DEF Settle
  <2> QED
    BY <1>5, <2>1, <2>2, <2>3, <2>4, <2>5 DEF Settle, Released
<1>6. CASE Crash
  BY <1>6 DEF Crash, Writer
<1>7. CASE CommitFails
  <2>1. \A l \in Loops : Writer(l)' = Writer(l)
    BY <1>7 DEF CommitFails, Writer
  <2>2. op.acquired => ~Writer(op.loop)
    BY <1>7 DEF CommitFails
  <2> QED
    BY <1>7, <2>1, <2>2 DEF CommitFails, Unwound, Released
<1>8. CASE CommitFailsLate
  BY <1>8 DEF CommitFailsLate
<1>9. CASE UNCHANGED vars
  BY <1>9 DEF vars, Writer
<1> QED
  BY <1>1, <1>2, <1>3, <1>4, <1>5, <1>6, <1>7, <1>8, <1>9 DEF Next

\* What has struck once has struck for good.
LEMMA StruckGrows ==
    ASSUME [Next]_vars
    PROVE  struck \subseteq struck'
  BY DEF Next, Begin, StartBegin, ReviseBegin, CheckpointBegin, StopBegin, FinalizeBegin,
         StartLease, Status, Commit, CommitFails, CommitFailsLate, Settle, Crash, vars

LEMMA ExclusiveInvariance == Spec => [](Base /\ ExclusiveYet)
<1>1. Init => Base /\ ExclusiveYet
  BY InitBase
<1>2. Base /\ ExclusiveYet /\ [Next]_vars => Base' /\ ExclusiveYet'
  BY StepBase, StepExclusive, StruckGrows DEF ExclusiveYet
<1> QED
  BY <1>1, <1>2, PTL DEF Spec

\* Every loop that may write holds the lease of the checkout, wherever the
\* operations before it died or raised, until a commit raises whose journal
\* is in place.
THEOREM LeaseHeld == Spec => []WriterHoldsLease
<1>1. ExclusiveYet => WriterHoldsLease
  BY DEF ExclusiveYet, Exclusive, WriterHoldsLease
<1> QED
  BY <1>1, ExclusiveInvariance, PTL

\* Two loops of one checkout never may write at the same time, until then.
THEOREM SingleWriter == Spec => []("late" \notin struck => OneWriter)
<1>1. ExclusiveYet => ("late" \notin struck => OneWriter)
  BY DEF ExclusiveYet, Exclusive, OneWriter
<1> QED
  BY <1>1, ExclusiveInvariance, PTL

-----------------------------------------------------------------------------
\* The loops implement one mutex: a commit is its Acquire or its Release, and
\* a commit that raises late is the last step it takes, if it takes one.
THEOREM MutexRefinement == Spec => ImplementsMutex
<1>1. Init => Mutex!Init
  BY DEF Init, Mutex!Init, CurrentWriter, Writer
<1>2. Base /\ ExclusiveYet /\ [Next]_vars => [Mutex!Next]_CurrentWriter
  <2> SUFFICES ASSUME Base, ExclusiveYet, [Next]_vars
               PROVE  Mutex!Next \/ CurrentWriter' = CurrentWriter
    OBVIOUS
  <2>0. CASE "late" \in struck'
    <3>1. CurrentWriter' = None
      BY <2>0 DEF CurrentWriter
    <3>2. CurrentWriter \in Loops \union {None}
      BY DEF CurrentWriter
    <3> QED
      BY <3>1, <3>2 DEF Mutex!Next, Mutex!Release
  <2> SUFFICES ASSUME "late" \notin struck'
               PROVE  Mutex!Next \/ CurrentWriter' = CurrentWriter
    BY <2>0
  <2>a. "late" \notin struck /\ Exclusive
    BY StruckGrows DEF ExclusiveYet
  <2> USE <2>a DEF Base, Exclusive
  <2>1. CASE UNCHANGED <<status, writes>>
    BY <2>1 DEF CurrentWriter, Writer
  <2>2. CASE \E l \in Loops, w \in BOOLEAN : StartBegin(l, w)
    <3>1. PICK l \in Loops, w \in BOOLEAN : StartBegin(l, w)
      BY <2>2
    <3>2. \A m \in Loops : Writer(m)' = Writer(m)
      BY <3>1 DEF StartBegin, Writer, TypeOK
    <3> QED
      BY <3>2 DEF CurrentWriter
  <2>3. CASE Commit
    <3>1. PICK k \in Loops : k = op.loop
      BY <2>3, Busy DEF Commit
    <3>2. \A l \in Loops : l # k => Writer(l)' = Writer(l)
      BY <2>3, <3>1 DEF Commit, Committed, TypeOK, Writer
    <3>3. Exclusive'
      BY <2>3, StepExclusive DEF Next
    <3>4. CASE Writer(k) /\ Writer(k)'
      <4>1. \A l \in Loops : Writer(l)' = Writer(l)
        BY <3>2, <3>4 DEF Writer
      <4> QED
        BY <4>1 DEF CurrentWriter
    <3>5. CASE Writer(k) /\ ~Writer(k)'
      <4>1. \A l \in Loops : Writer(l) => l = k
        BY <3>1, <3>5
      <4>2. CurrentWriter = k
        BY <3>1, <3>5, <4>1 DEF CurrentWriter
      <4>3. \A l \in Loops : ~Writer(l)'
        BY <3>2, <3>5, <4>1
      <4>4. CurrentWriter' = None
        BY <4>3 DEF CurrentWriter
      <4> QED
        BY <3>1, <4>2, <4>4 DEF Mutex!Next, Mutex!Release
    <3>6. CASE ~Writer(k) /\ Writer(k)'
      <4>1. \A l \in Loops : Writer(l)' => l = k
        BY <3>1, <3>3, <3>6
      <4>2. CurrentWriter' = k
        BY <3>1, <3>6, <4>1 DEF CurrentWriter
      <4>3. \A l \in Loops : ~Writer(l)
        BY <3>2, <3>6, <4>1
      <4>4. CurrentWriter = None
        BY <4>3 DEF CurrentWriter
      <4> QED
        BY <3>1, <4>2, <4>4 DEF Mutex!Next, Mutex!Acquire
    <3>7. CASE ~Writer(k) /\ ~Writer(k)'
      <4>1. \A l \in Loops : Writer(l)' = Writer(l)
        BY <3>2, <3>7 DEF Writer
      <4> QED
        BY <4>1 DEF CurrentWriter
    <3> QED
      BY <3>4, <3>5, <3>6, <3>7
  <2> QED
    BY <2>1, <2>2, <2>3
       DEF Next, Begin, ReviseBegin, CheckpointBegin, StopBegin, FinalizeBegin,
           StartLease, Status, CommitFails, CommitFailsLate, Settle, Crash, vars
<1> QED
  BY <1>1, <1>2, ExclusiveInvariance, PTL DEF Spec, ImplementsMutex, Mutex!Spec

-----------------------------------------------------------------------------
\* Until a process dies, a lease on a loop that does not load is the lease
\* that a start has just taken: its commit makes the loop loadable, or its
\* except clause gives the lease back.
Reconciled ==
    /\ Unreconcilable =>
          pc = "commit" /\ op.name = "start" /\ op.loop = lease /\ op.acquired
    /\ pc = "lease" => op.name = "start" /\ op.acquired

ReconciledYet == "crash" \notin struck => Reconciled

\* Every step that is not a crash keeps it.
LEMMA StepReconciled ==
    ASSUME Base, Reconciled, [Next]_vars, "crash" \notin struck'
    PROVE  Reconciled'
<1> USE NoneAssumption DEF Base, Reconciled, Unreconcilable
<1>1. CASE \E l \in Loops, w \in BOOLEAN : StartBegin(l, w)
  \* The new directory is not the lease's: an idle lease names a loop that loads.
  <2>1. PICK l \in Loops, w \in BOOLEAN : StartBegin(l, w)
    BY <1>1
  <2>2. lease # None => lease # l /\ status[lease] \notin Unloadable
    BY <2>1 DEF StartBegin, Unloadable
  <2> QED
    BY <2>1, <2>2 DEF StartBegin, TypeOK
<1>2. CASE \E l \in Loops, w \in BOOLEAN : ReviseBegin(l, w)
  BY <1>2 DEF ReviseBegin, Unloadable
<1>3. CASE \E l \in Loops :
             \/ \E s \in {"active", "needs_approval", "stopped"} : CheckpointBegin(l, s)
             \/ StopBegin(l)
             \/ FinalizeBegin(l)
  BY <1>3 DEF CheckpointBegin, StopBegin, FinalizeBegin
<1>4. CASE StartLease
  BY <1>4 DEF StartLease
<1>5. CASE Status
  BY <1>5 DEF Status, Holder
<1>6. CASE Commit
  <2>1. op.loop \in Loops /\ op.status \notin Unloadable
    BY <1>6, Busy DEF Commit
  <2> QED
    BY <1>6, <2>1 DEF Commit, Committed, TypeOK
<1>7. CASE CommitFails
  BY <1>7 DEF CommitFails, Unwound, Released
<1>8. CASE CommitFailsLate
  <2>1. op.loop \in Loops /\ op.status \notin Unloadable
    BY <1>8, Busy DEF CommitFailsLate
  <2> QED
    BY <1>8, <2>1 DEF CommitFailsLate, Committed, Unwound, Released, TypeOK
<1>9. CASE Settle
  <2>1. status[op.loop] \notin Unloadable
    BY <1>9, Busy DEF Settle, OperationInv
  <2> QED
    BY <1>9, <2>1 DEF Settle, Released
<1>10. CASE UNCHANGED vars
  BY <1>10 DEF vars
<1> QED
  BY <1>1, <1>2, <1>3, <1>4, <1>5, <1>6, <1>7, <1>8, <1>9, <1>10 DEF Next, Begin, Crash

LEMMA ReconciledInvariance == Spec => [](Base /\ ReconciledYet)
<1>1. Init => Base /\ ReconciledYet
  BY InitBase DEF Init, ReconciledYet, Reconciled, Unreconcilable
<1>2. Base /\ ReconciledYet /\ [Next]_vars => Base' /\ ReconciledYet'
  BY StepBase, StepReconciled, StruckGrows DEF ReconciledYet
<1> QED
  BY <1>1, <1>2, PTL DEF Spec

\* No operation that returns or raises, however its commit failed, leaves a
\* lease that refuses every later write loop, until a process dies.
THEOREM LeaseAlwaysReconciles == Spec => []LeaseReconciles
<1>1. ReconciledYet => LeaseReconciles
  BY DEF ReconciledYet, Reconciled, LeaseReconciles
<1> QED
  BY <1>1, ReconciledInvariance, PTL
=============================================================================
