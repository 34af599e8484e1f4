-------------------------- MODULE LoopClockProofs --------------------------
(***************************************************************************)
(* WaitingIsFree for every horizon.  By itself it is not inductive: what   *)
(* ActiveElapsed amounts to after a pause or a resumption depends on       *)
(* whether activeSince is set, which TimeAccounted ties to the status.     *)
(***************************************************************************)
EXTENDS LoopClock, TLAPS

TimeAccounted ==
    /\ status = "active" => since # NotRunning
    /\ status # "stopped" => ActiveElapsed <= worked
    /\ status \in {"needs_approval", "succeeded"} =>
          since = NotRunning

IInv == TypeOK /\ TimeAccounted

\* Every operation, and the passing of time, keeps the account: a pause moves
\* the open interval into activeElapsedSeconds and a resumption opens a new one.
THEOREM ClockInvariance == Spec => []IInv
<1> USE ClockAssumption
<1>1. Init => IInv
  BY DEF Init, IInv, TypeOK, TimeAccounted, ActiveElapsed
<1>2. IInv /\ [Next]_vars => IInv'
  <2> SUFFICES ASSUME IInv, [Next]_vars PROVE IInv'
    OBVIOUS
  <2> USE DEF IInv, TypeOK, TimeAccounted, ActiveElapsed
  <2>1. CASE Tick
    BY <2>1 DEF Tick
  <2>2. CASE SetBack
    BY <2>2 DEF SetBack
  <2>3. CASE CheckpointPauses
    BY <2>3 DEF CheckpointPauses, PauseClock
  <2>4. CASE CheckpointStops
    BY <2>4 DEF CheckpointStops
  <2>5. CASE Revise
    BY <2>5 DEF Revise, ResumeClock
  <2>6. CASE Stop
    <3>1. ActiveElapsed \in Nat
      BY <2>6 DEF Stop
    <3> QED BY <2>6, <3>1 DEF Stop, PauseClock
  <2>7. CASE Finalize
    BY <2>7 DEF Finalize, PauseClock
  <2>8. CASE UNCHANGED vars
    BY <2>8 DEF vars
  <2> QED BY <2>1, <2>2, <2>3, <2>4, <2>5, <2>6, <2>7, <2>8 DEF Next
<1> QED BY <1>1, <1>2, PTL DEF Spec

\* The clock's fields keep their types, and activeElapsedSeconds never becomes
\* negative, though the wall clock may be set back.
THEOREM ClockTypeCorrect == Spec => []TypeOK
<1>1. IInv => TypeOK
  BY DEF IInv
<1> QED BY <1>1, ClockInvariance, PTL

\* However often a loop is paused, resumed, revised, finalized and
\* revalidated, its elapsed-time limit is charged for nothing but work.
THEOREM WaitingNeverCharged == Spec => []WaitingIsFree
<1>1. IInv => WaitingIsFree
  BY ClockAssumption DEF IInv, TypeOK, TimeAccounted, WaitingIsFree, ActiveElapsed
<1> QED BY <1>1, ClockInvariance, PTL

-----------------------------------------------------------------------------
(* How much work goes uncharged, on a wall clock nobody sets back.         *)

\* Work the limit is not charged for.
Uncharged == worked - ActiveElapsed

\* The account is exact but for one operation: only a revision of an active
\* loop, which opens a new interval without closing the running one, lets
\* work go uncharged, and what it forgives is never charged later.
OnlyRevisionForgives ==
    [][status # "stopped" =>
          \/ Uncharged' = Uncharged
          \/ Revise /\ status = "active" /\ Uncharged' >= Uncharged]_vars

ClockAhead == since # NotRunning => since <= now

LEMMA ClockStaysAhead ==
    ASSUME ~MaySetBack PROVE Spec => []ClockAhead
<1> USE ClockAssumption
<1>1. Init => ClockAhead
  BY DEF Init, ClockAhead
<1>2. TypeOK /\ ClockAhead /\ [Next]_vars => ClockAhead'
  BY DEF TypeOK, ClockAhead, Next, vars, Tick, SetBack, CheckpointPauses, CheckpointStops,
         Revise, Stop, Finalize, PauseClock, ResumeClock
<1> QED BY <1>1, <1>2, ClockTypeCorrect, PTL DEF Spec

\* Pauses, resumptions, stops and revalidations neither lose nor invent time.
THEOREM AccountIsExact ==
    ASSUME ~MaySetBack PROVE Spec => OnlyRevisionForgives
<1> USE ClockAssumption
<1> DEFINE A == status # "stopped" =>
                  \/ Uncharged' = Uncharged
                  \/ Revise /\ status = "active" /\ Uncharged' >= Uncharged
<1>1. IInv /\ ClockAhead /\ [Next]_vars => [A]_vars
  <2> SUFFICES ASSUME IInv, ClockAhead, Next, status # "stopped" PROVE A
    OBVIOUS
  <2> USE DEF IInv, TypeOK, TimeAccounted, ClockAhead, Uncharged, ActiveElapsed
  <2>1. CASE Tick
    BY <2>1 DEF Tick
  <2>2. CASE CheckpointPauses
    BY <2>2 DEF CheckpointPauses, PauseClock
  <2>3. CASE CheckpointStops
    BY <2>3 DEF CheckpointStops
  <2>4. CASE Revise
    BY <2>4 DEF Revise, ResumeClock
  <2>5. CASE Stop
    BY <2>5 DEF Stop, PauseClock
  <2>6. CASE Finalize
    BY <2>6 DEF Finalize, PauseClock
  <2> QED BY <2>1, <2>2, <2>3, <2>4, <2>5, <2>6 DEF Next, SetBack
<1> QED BY <1>1, ClockInvariance, ClockStaysAhead, PTL DEF Spec, OnlyRevisionForgives
=============================================================================
