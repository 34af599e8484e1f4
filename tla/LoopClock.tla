----------------------------- MODULE LoopClock -----------------------------
(***************************************************************************)
(* How a loop accounts for the time it has been at work: the fields        *)
(* activeElapsedSeconds and activeSince of its snapshot, which every       *)
(* operation of LoopService moves and checkpoint compares with the         *)
(* contract's maxElapsedMinutes.  An operation that leaves both fields      *)
(* alone, such as a checkpoint that goes on, is a stutter here.            *)
(***************************************************************************)
EXTENDS Integers

CONSTANTS
    Horizon,       \* bound: the clock, and the work, are observed up to this tick
    MaySetBack,    \* whether somebody may set the wall clock back
    NotRunning     \* activeSince is null

ASSUME ClockAssumption ==
    /\ Horizon \in Nat
    /\ MaySetBack \in BOOLEAN
    /\ NotRunning \notin Nat

VARIABLES
    status,    \* snapshot.status
    elapsed,   \* snapshot.activeElapsedSeconds
    since,     \* snapshot.activeSince
    now,       \* the wall clock
    worked     \* history variable: ticks the loop has in fact been active

vars == <<status, elapsed, since, now, worked>>

\* Mutant of ActiveElapsed: the interval is not clipped at 0.
ActiveElapsedUnclipped ==
    elapsed + (IF since = NotRunning THEN 0 ELSE now - since)

\* _active_elapsed_seconds.
ActiveElapsed ==
    elapsed + (IF since = NotRunning \/ now < since THEN 0 ELSE now - since)

\* LoopService.start.
Init ==
    /\ status = "active"
    /\ elapsed = 0 /\ since = 0
    /\ now = 0 /\ worked = 0

Tick ==
    /\ now < Horizon /\ worked < Horizon
    /\ now' = now + 1
    /\ worked' = IF status = "active" THEN worked + 1 ELSE worked
    /\ UNCHANGED <<status, elapsed, since>>

\* _now() is the wall clock, which may jump back.
SetBack ==
    /\ MaySetBack
    /\ \E earlier \in 0..Horizon : earlier < now /\ now' = earlier
    /\ UNCHANGED <<status, elapsed, since, worked>>

\* Mutant of PauseClock: the running interval is left open.
PauseClockLeftOpen ==
    /\ elapsed' = ActiveElapsed
    /\ UNCHANGED since

\* _pause_active_clock.
PauseClock ==
    /\ elapsed' = ActiveElapsed
    /\ since' = NotRunning

\* _resume_active_clock.
ResumeClock ==
    /\ since' = now
    /\ UNCHANGED elapsed

\* A checkpoint that decides needs_approval.
CheckpointPauses ==
    /\ status = "active"
    /\ status' = "needs_approval"
    /\ PauseClock
    /\ UNCHANGED <<now, worked>>

\* A checkpoint that decides policy_stop; the clock is not touched.
CheckpointStops ==
    /\ status = "active"
    /\ status' = "stopped"
    /\ UNCHANGED <<elapsed, since, now, worked>>

\* revise, from an active loop as well as from a paused one.
Revise ==
    /\ status \in {"active", "needs_approval"}
    /\ status' = "active"
    /\ ResumeClock
    /\ UNCHANGED <<now, worked>>

Stop ==
    /\ status \in {"active", "needs_approval"}
    /\ status' = "stopped"
    /\ PauseClock
    /\ UNCHANGED <<now, worked>>

\* finalize, and its revalidation of a loop that has succeeded.
Finalize ==
    /\ status \in {"active", "succeeded"}
    /\ status' = "succeeded"
    /\ PauseClock
    /\ UNCHANGED <<now, worked>>

Next ==
    \/ Tick \/ SetBack \/ CheckpointPauses \/ CheckpointStops \/ Revise \/ Stop \/ Finalize

Spec == Init /\ [][Next]_vars

-----------------------------------------------------------------------------
(* Properties.                                                             *)

\* The types of the clock's fields.
TypeOK ==
    /\ status \in {"active", "needs_approval", "succeeded", "stopped"}
    /\ elapsed \in Nat
    /\ since \in 0..Horizon \union {NotRunning}
    /\ now \in 0..Horizon
    /\ worked \in 0..Horizon

\* docs/loop-system.md: an approval wait suspends active elapsed time, so the
\* time limit is never spent on anything but work, however often the loop is
\* paused, resumed, revised, finalized and revalidated, and however often the
\* wall clock is set back.
WaitingIsFree == status # "stopped" => ActiveElapsed <= worked

=============================================================================
