-------------------------- MODULE StudyController --------------------------
(***************************************************************************)
(* StudyRunController and the runners that drive it: each cell of a frozen *)
(* schedule is reserved, consumed by one scored model invocation, and      *)
(* recorded as terminal; at the end the set is sealed.  The controller's   *)
(* methods run one at a time, under a file lock the system releases when   *)
(* its holder dies.  Every file they write is a step, and a runner may die *)
(* or an error be raised between any two; a new one takes over what it     *)
(* finds.                                                                  *)
(*                                                                         *)
(* The journal is held as what _derive_state makes of it: a state per      *)
(* cell, how far the seal has come, and the number of records.  A record's *)
(* position stands for its digest, as the journal only grows.  It is the    *)
(* one file that is written in place: every other write is of a new file   *)
(* that takes its name when it is whole.                                   *)
(***************************************************************************)
EXTENDS Naturals, FiniteSets

CONSTANTS
    NumCells,     \* EXPECTED_RUN_COUNT: cells by their ordinal
    Runners,      \* invocations of the run-study command
    MaxParallel,
    None,
    MaxRecords,   \* bound: journal length beyond which no cell is reserved
    MaxFaults     \* bound: deaths and errors

ASSUME StudyAssumption ==
    /\ NumCells \in Nat \ {0} /\ MaxParallel \in Nat
    /\ MaxRecords \in Nat /\ MaxFaults \in Nat

VARIABLES
    cell, seal, records,  \* journal.jsonl, as derived
    anchors, checkpoints, \* revisions of journal.anchor.json and their checkpoints
    debris,               \* a dead writer's temporary file among the checkpoints
    torn,                 \* part of a record at the end of journal.jsonl
    start, terminal,      \* receipts per cell; a start names its reservation
    prep,                 \* the cell's own ledger and anchor files
    shelf,                \* quarantine directory of a release at the present anchor
    output,               \* the sealed terminal set has been written
    work,                 \* the method under way, or None
    hand,                 \* what each runner has in hand between methods
    launched,             \* history: model invocations per cell
    faults

journal == <<cell, seal, records>>
chain == <<anchors, checkpoints, debris, torn>>
receipts == <<start, terminal>>
files == <<prep, shelf, output>>
history == <<launched, faults>>
vars == <<journal, chain, receipts, files, work, hand, history>>

Cells == 1 .. NumCells
Prepared == {"ledger", "anchor"}
Stages == {"reserved", "ready", "failed", "releasing", "begun", "ran", "written"}
Idle == {"initialize", "reserve", "resume", "seal"}
Methods == Idle \cup {"begin", "check", "release", "record"}
Steps == {"load", "prepare", "publish", "move", "shelved", "output", "sealing", "append"}

Held == [cell : Cells, entry : Nat, stage : Stages]
Underway == [who : Runners, op : Methods, cell : Cells \cup {0}, step : Steps]

ASSUME NoneAssumption ==
    /\ None \notin Held /\ None \notin Underway
    /\ \A S \in SUBSET Prepared : S # None

Init ==
    /\ cell = [c \in Cells |-> [state |-> "pending", entry |-> 0]]
    /\ seal = "open" /\ records = 0
    /\ anchors = 0 /\ checkpoints = 0 /\ debris = FALSE /\ torn = FALSE
    /\ start = [c \in Cells |-> 0] /\ terminal = [c \in Cells |-> FALSE]
    /\ prep = [c \in Cells |-> {}]
    /\ shelf = [c \in Cells |-> [moved |-> {}, manifest |-> None]]
    /\ output = FALSE
    /\ work = None /\ hand = [r \in Runners |-> None]
    /\ launched = [c \in Cells |-> 0] /\ faults = 0

-----------------------------------------------------------------------------
(* What a method finds.                                                    *)

Active == {c \in Cells : cell[c].state \in {"reserved", "started"}}
Pending == {c \in Cells : cell[c].state = "pending"}
First(S) == {c \in S : \A d \in S : c <= d}

\* _validate_ledger_bytes, _validate_checkpoint_chain and the record counts of
\* _load_journal_and_catch_up: every record is whole, and one checkpoint and one
\* anchored record may be missing, only at the end.
Recoverable ==
    /\ ~torn /\ ~debris
    /\ anchors \in {checkpoints, checkpoints + 1}
    /\ anchors \in {records, records + 1}

\* _validate_referenced_artifacts, and the published starts' bindings.
Referenced ==
    \A c \in Cells :
        /\ cell[c].state = "pending" => start[c] = 0 /\ ~terminal[c]
        /\ cell[c].state = "reserved" => start[c] \in {0, cell[c].entry}
        /\ cell[c].state \in {"started", "terminal"} => start[c] = cell[c].entry
        /\ cell[c].state = "terminal" => terminal[c] /\ prep[c] = Prepared

\* Mutant of Settled: what is not anchored yet is left to the next append.
SettledButLast == checkpoints = anchors

\* Everything the journal says is anchored, and every anchor has its checkpoint.
Settled == anchors = records + 1 /\ checkpoints = anchors

\* Starts that were published by a method that did not live to record them.
Unrecorded == {c \in Cells : cell[c].state = "reserved" /\ start[c] # 0}

At(op, step) == work # None /\ work.op = op /\ work.step = step

\* Only initialize makes what is not there.
Acceptable ==
    /\ Recoverable
    /\ Settled => Referenced
    /\ work.op = "initialize" \/ (anchors > 0 /\ (Settled => records > 0))

\* The method has caught up with what it found, and turns to its own business.
Loaded(op) == At(op, "load") /\ Acceptable /\ Settled /\ Unrecorded = {}

-----------------------------------------------------------------------------
(* How a method ends.                                                      *)

Go(step) == work' = [work EXCEPT !.step = step] /\ UNCHANGED hand

Return(h) == work' = None /\ hand' = [hand EXCEPT ![work.who] = h]

\* A failure to begin is looked into by _execute_reserved_attempt; any other
\* ends the runner's part in the attempt.
Fail ==
    IF work.op = "begin" THEN Return([hand[work.who] EXCEPT !.stage = "failed"])
                         ELSE Return(None)

Hold(c, stage) == [cell |-> c, entry |-> cell[c].entry, stage |-> stage]

\* One record, written before it is anchored.
Append(c, state) ==
    /\ cell' = [cell EXCEPT ![c].state = state]
    /\ records' = records + 1
    /\ UNCHANGED seal

-----------------------------------------------------------------------------
(* Entering a method, catching up, and the three writes of _append.        *)

\* A runner with nothing in hand may call anything its command offers; one
\* in an attempt goes on with it.
Wanted(r) ==
    IF hand[r] = None THEN Idle
    ELSE CASE hand[r].stage = "ready" -> {"begin"}
           [] hand[r].stage = "failed" -> {"check"}
           [] hand[r].stage = "releasing" -> {"release"}
           [] hand[r].stage = "written" -> {"record"}
           [] OTHER -> {}

Enter(r, op) ==
    /\ work = None /\ op \in Wanted(r)
    /\ work' = [who |-> r, op |-> op, step |-> "load",
                cell |-> IF hand[r] = None THEN 0 ELSE hand[r].cell]
    /\ UNCHANGED <<journal, chain, receipts, files, hand, history>>

Refuse ==
    /\ work # None /\ work.step = "load" /\ ~Acceptable
    /\ Fail
    /\ UNCHANGED <<journal, chain, receipts, files, history>>

MayWrite == work # None /\ work.step \in {"load", "append"} /\ Acceptable

AdvanceAnchor ==
    /\ MayWrite /\ checkpoints = anchors /\ anchors <= records
    /\ anchors' = anchors + 1
    /\ shelf' = [c \in Cells |-> [moved |-> {}, manifest |-> None]]
    /\ UNCHANGED <<journal, checkpoints, debris, torn, receipts, prep, output, work, hand, history>>

WriteCheckpoint ==
    /\ MayWrite /\ checkpoints < anchors
    /\ checkpoints' = anchors
    /\ UNCHANGED <<journal, anchors, debris, torn, receipts, files, work, hand, history>>

\* _reconcile_published_starts, in the order of the schedule.
RecordPublished ==
    /\ work # None /\ work.step = "load" /\ Acceptable /\ Settled /\ Unrecorded # {}
    /\ \E c \in First(Unrecorded) : Append(c, "started")
    /\ UNCHANGED <<chain, receipts, files, work, hand, history>>

\* The record of the method is anchored and has its checkpoint.
Appended ==
    /\ work # None /\ work.step = "append" /\ Settled
    /\ CASE work.op = "reserve" -> Return(Hold(work.cell, "reserved"))
         [] work.op = "begin" -> Return([hand[work.who] EXCEPT !.stage = "begun"])
         [] work.op = "seal" /\ seal = "started" -> Go("output")
         [] OTHER -> Return(None)
    /\ UNCHANGED <<journal, chain, receipts, files, history>>

-----------------------------------------------------------------------------
(* initialize, reserve_next, and the choice of _run_study_cell.            *)

Initialize ==
    /\ Loaded("initialize")
    /\ IF records = 0 THEN records' = 1 /\ Go("append") ELSE Return(None) /\ UNCHANGED records
    /\ UNCHANGED <<cell, seal, chain, receipts, files, history>>

\* The earliest cell that nobody has, while there is room.
Reserve ==
    /\ Loaded("reserve")
    /\ IF seal # "open" THEN Fail /\ UNCHANGED journal
       ELSE IF Cardinality(Active) >= MaxParallel \/ Pending = {}
       THEN Return(None) /\ UNCHANGED journal
       ELSE \E c \in First(Pending) :
            /\ records <= MaxRecords
            /\ cell' = [cell EXCEPT ![c] = [state |-> "reserved", entry |-> records + 1]]
            /\ records' = records + 1
            /\ work' = [work EXCEPT !.step = "append", !.cell = c]
            /\ UNCHANGED <<seal, hand>>
    /\ UNCHANGED <<chain, receipts, files, history>>

\* A resumed study takes over its first active cell; one that was started is
\* only ever recorded, from the terminal receipt its runner left.
Resume ==
    /\ Loaded("resume")
    /\ IF Active = {} THEN Return(None)
       ELSE \E c \in First(Active) :
            IF cell[c].state = "reserved" THEN Return(Hold(c, "reserved"))
            ELSE IF terminal[c] THEN Return(Hold(c, "written")) ELSE Fail
    /\ UNCHANGED <<journal, chain, receipts, files, history>>

-----------------------------------------------------------------------------
(* begin_reserved_attempt.                                                 *)

\* The handle is the reservation in force, and nothing has been published.
Begins(h) ==
    /\ cell[h.cell] = [state |-> "reserved", entry |-> h.entry]
    /\ ~terminal[h.cell]

\* Mutant of Begin: a call that finds its start recorded answers as if it were
\* the one that recorded it.
BeginAgain ==
    /\ Loaded("begin")
    /\ LET h == hand[work.who] IN
       IF Begins(h) THEN Go("prepare")
       ELSE IF cell[h.cell] = [state |-> "started", entry |-> h.entry]
       THEN Return([h EXCEPT !.stage = "begun"])
       ELSE Fail
    /\ UNCHANGED <<journal, chain, receipts, files, history>>

Begin ==
    /\ Loaded("begin")
    /\ IF Begins(hand[work.who]) THEN Go("prepare") ELSE Fail
    /\ UNCHANGED <<journal, chain, receipts, files, history>>

\* The cell's ledger, then its anchor; what is there is kept.
Prepare ==
    /\ At("begin", "prepare") /\ prep[work.cell] # Prepared
    /\ prep' = [prep EXCEPT ![work.cell] =
                  @ \cup {IF "ledger" \in @ THEN "anchor" ELSE "ledger"}]
    /\ UNCHANGED <<journal, chain, receipts, shelf, output, work, hand, history>>

\* The irreversible step.
PublishStart ==
    /\ At("begin", "prepare") /\ prep[work.cell] = Prepared
    /\ IF start[work.cell] # 0 THEN Fail /\ UNCHANGED start
       ELSE /\ start' = [start EXCEPT ![work.cell] = hand[work.who].entry]
            /\ Go("publish")
    /\ UNCHANGED <<journal, chain, terminal, files, history>>

RecordStart ==
    /\ At("begin", "publish")
    /\ Append(work.cell, "started")
    /\ Go("append")
    /\ UNCHANGED <<chain, receipts, files, history>>

-----------------------------------------------------------------------------
(* release_prestart, after a failure that was looked into.                 *)

Check ==
    /\ Loaded("check")
    /\ LET h == hand[work.who] IN
       Return(IF cell[h.cell] = [state |-> "reserved", entry |-> h.entry]
              THEN [h EXCEPT !.stage = "releasing"] ELSE None)
    /\ UNCHANGED <<journal, chain, receipts, files, history>>

\* Mutant of Release: any active cell is put back.
ReleaseActive ==
    /\ Loaded("release")
    /\ IF work.cell \in Active THEN Go("move") ELSE Fail
    /\ UNCHANGED <<journal, chain, receipts, files, history>>

\* The cell is released, whatever reservation of it is in force by now.
Release ==
    /\ Loaded("release")
    /\ IF cell[work.cell].state = "reserved" /\ start[work.cell] = 0 /\ ~terminal[work.cell]
       THEN Go("move") ELSE Fail
    /\ UNCHANGED <<journal, chain, receipts, files, history>>

\* What was prepared goes to the quarantine, the ledger first.
MoveAway ==
    /\ At("release", "move") /\ prep[work.cell] # {}
    /\ LET f == IF "ledger" \in prep[work.cell] THEN "ledger" ELSE "anchor" IN
       IF f \in shelf[work.cell].moved THEN Fail /\ UNCHANGED files
       ELSE /\ prep' = [prep EXCEPT ![work.cell] = @ \ {f}]
            /\ shelf' = [shelf EXCEPT ![work.cell].moved = @ \cup {f}]
            /\ UNCHANGED <<output, work, hand>>
    /\ UNCHANGED <<journal, chain, receipts, history>>

\* The manifest of an earlier try is kept if it says the same.
WriteManifest ==
    /\ At("release", "move") /\ prep[work.cell] = {}
    /\ LET q == shelf[work.cell] IN
       IF q.manifest \in {None, q.moved}
       THEN shelf' = [shelf EXCEPT ![work.cell].manifest = q.moved] /\ Go("shelved")
       ELSE Fail /\ UNCHANGED shelf
    /\ UNCHANGED <<journal, chain, receipts, prep, output, history>>

RecordRelease ==
    /\ At("release", "shelved")
    /\ cell' = [cell EXCEPT ![work.cell] = [state |-> "pending", entry |-> 0]]
    /\ records' = records + 1
    /\ Go("append")
    /\ UNCHANGED <<seal, chain, receipts, files, history>>

-----------------------------------------------------------------------------
(* record_terminal and seal.                                               *)

\* A terminal that another runner has recorded meanwhile is as good.
Record ==
    /\ Loaded("record")
    /\ IF cell[work.cell].state = "started" /\ terminal[work.cell]
       THEN Append(work.cell, "terminal") /\ Go("append")
       ELSE Fail /\ UNCHANGED journal
    /\ UNCHANGED <<chain, receipts, files, history>>

AllTerminal == \A c \in Cells : cell[c].state = "terminal"

\* Mutant of Seal: a seal that was prepared is not taken up again.
SealOnce ==
    /\ Loaded("seal")
    /\ IF ~AllTerminal \/ seal # "open" THEN Fail /\ UNCHANGED journal
       ELSE /\ seal' = "started" /\ records' = records + 1 /\ UNCHANGED cell
            /\ Go("append")
    /\ UNCHANGED <<chain, receipts, files, history>>

\* A seal that was prepared is taken up where it stopped.
Seal ==
    /\ Loaded("seal")
    /\ IF ~AllTerminal THEN Fail /\ UNCHANGED journal
       ELSE IF seal = "sealed" THEN Return(None) /\ UNCHANGED journal
       ELSE IF seal = "started" THEN Go("output") /\ UNCHANGED journal
       ELSE /\ seal' = "started" /\ records' = records + 1 /\ UNCHANGED cell
            /\ Go("append")
    /\ UNCHANGED <<chain, receipts, files, history>>

WriteOutput ==
    /\ At("seal", "output")
    /\ output' = TRUE
    /\ Go("sealing")
    /\ UNCHANGED <<journal, chain, receipts, prep, shelf, history>>

RecordSeal ==
    /\ At("seal", "sealing")
    /\ seal' = "sealed" /\ records' = records + 1 /\ UNCHANGED cell
    /\ Go("append")
    /\ UNCHANGED <<chain, receipts, files, history>>

-----------------------------------------------------------------------------
(* What a runner does between the methods, run_model_attempt.              *)

Turn(r, stage) ==
    /\ hand' = [hand EXCEPT ![r].stage = stage]
    /\ UNCHANGED <<journal, chain, receipts, files, work, faults>>

\* Trusted admission: nothing of the attempt may be there.
Admit(r) ==
    /\ hand[r] # None /\ hand[r].stage = "reserved"
    /\ LET c == hand[r].cell IN prep[c] = {} /\ start[c] = 0 /\ ~terminal[c]
    /\ Turn(r, "ready") /\ UNCHANGED launched

\* It is, or another reason is found.
Reject(r) ==
    /\ hand[r] # None /\ hand[r].stage = "reserved"
    /\ Turn(r, "failed") /\ UNCHANGED launched

\* modelStartRequested; the time may be up before the model answers.
Launch(r) ==
    /\ hand[r] # None /\ hand[r].stage = "begun"
    /\ launched' = [launched EXCEPT ![hand[r].cell] = @ + 1]
    /\ Turn(r, "ran")

\* terminalize_attempt: the receipt is written once.
Terminalize(r) ==
    /\ hand[r] # None /\ hand[r].stage = "ran" /\ ~terminal[hand[r].cell]
    /\ terminal' = [terminal EXCEPT ![hand[r].cell] = TRUE]
    /\ hand' = [hand EXCEPT ![r].stage = "written"]
    /\ UNCHANGED <<journal, chain, start, files, work, history>>

\* AttemptRecoveryRequired: no evidence that would do for a terminal receipt.
Abandon(r) ==
    /\ hand[r] # None /\ hand[r].stage \in {"begun", "ran"}
    /\ hand' = [hand EXCEPT ![r] = None]
    /\ UNCHANGED <<journal, chain, receipts, files, work, history>>

-----------------------------------------------------------------------------
(* Faults.                                                                 *)

Fault == faults < MaxFaults /\ faults' = faults + 1 /\ UNCHANGED launched

\* The next write of the method under way is a record of the journal.
Appending ==
    \/ At("begin", "publish") \/ At("release", "shelved") \/ At("seal", "sealing")
    \/ /\ work # None /\ work.step = "load" /\ Acceptable /\ Settled
       /\ \/ Unrecorded # {}
          \/ work.op = "initialize" /\ records = 0
          \/ work.op = "reserve" /\ seal = "open" /\ records <= MaxRecords
             /\ Cardinality(Active) < MaxParallel /\ Pending # {}
          \/ work.op = "record" /\ cell[work.cell].state = "started" /\ terminal[work.cell]
          \/ work.op = "seal" /\ seal = "open" /\ AllTerminal

\* _write_all may stop with part of the record written; nothing takes it back.
MayTear == torn' \in {torn, torn \/ Appending}

\* A runner dies; what it was writing may leave its temporary file, or a part
\* of itself if it was a record.
Die(r) ==
    /\ Fault
    /\ hand[r] # None \/ (work # None /\ work.who = r)
    /\ hand' = [hand EXCEPT ![r] = None]
    /\ IF work # None /\ work.who = r
       THEN /\ work' = None
            /\ debris' \in {debris, debris \/ (MayWrite /\ checkpoints < anchors)}
            /\ MayTear
       ELSE UNCHANGED <<work, debris, torn>>
    /\ UNCHANGED <<journal, anchors, checkpoints, receipts, files>>

\* The write a method is about to make raises, a record perhaps half way.
Raise ==
    /\ Fault
    /\ work # None
    /\ Fail
    /\ MayTear
    /\ UNCHANGED <<journal, anchors, checkpoints, debris, receipts, files>>

-----------------------------------------------------------------------------
Method ==
    \/ Refuse \/ AdvanceAnchor \/ WriteCheckpoint \/ RecordPublished \/ Appended
    \/ Initialize \/ Reserve \/ Resume
    \/ Begin \/ Prepare \/ PublishStart \/ RecordStart
    \/ Check \/ Release \/ MoveAway \/ WriteManifest \/ RecordRelease
    \/ Record \/ Seal \/ WriteOutput \/ RecordSeal

Attempt(r) ==
    \/ Admit(r) \/ Reject(r) \/ Launch(r) \/ Terminalize(r) \/ Abandon(r)

Next ==
    \/ Method
    \/ \E r \in Runners : Attempt(r) \/ Die(r) \/ \E op \in Methods : Enter(r, op)
    \/ Raise

Spec == Init /\ [][Next]_vars

-----------------------------------------------------------------------------
(* Properties.                                                             *)

TypeOK ==
    /\ cell \in [Cells -> [state : {"pending", "reserved", "started", "terminal"}, entry : Nat]]
    /\ seal \in {"open", "started", "sealed"} /\ records \in Nat
    /\ anchors \in Nat /\ checkpoints \in Nat /\ debris \in BOOLEAN /\ torn \in BOOLEAN
    /\ start \in [Cells -> Nat] /\ terminal \in [Cells -> BOOLEAN]
    /\ prep \in [Cells -> SUBSET Prepared]
    /\ shelf \in [Cells -> [moved : SUBSET Prepared, manifest : {None} \cup SUBSET Prepared]]
    /\ output \in BOOLEAN
    /\ work \in Underway \cup {None} /\ hand \in [Runners -> Held \cup {None}]
    /\ launched \in [Cells -> Nat] /\ faults \in Nat

\* A cell's model is invoked at most once, whoever resumes, releases or
\* reserves it again after a death or an error ("one-scored-invocation-no-retry").
OneInvocation ==
    \A c \in Cells : launched[c] <= 1

\* Wherever a runner was interrupted, the next load finds the journal, its
\* anchor, the checkpoints and the receipts in a shape it accepts or repairs,
\* unless a temporary file was left among the checkpoints or a part of a record
\* at the end of the journal.
AlwaysLoads ==
    ~debris /\ ~torn => Recoverable /\ Referenced

\* A start receipt is the moment from which a cell is consumed.
Standing ==
    [c \in Cells |-> IF cell[c].state = "started" \/ c \in Unrecorded
                     THEN "consumed" ELSE cell[c].state]

Sealed == seal = "sealed"

Schedule == INSTANCE AttemptSchedule WITH state <- Standing, sealed <- Sealed

\* What reaches the disk follows the registered schedule, with a start receipt
\* as the moment from which a cell cannot be put back.
ImplementsSchedule == Schedule!Spec

\* Some runner keeps coming, and one that is at it goes on.
Fairness ==
    /\ WF_vars(Method)
    /\ SF_vars(\E r \in Runners : Enter(r, "resume"))
    /\ SF_vars(\E r \in Runners : Enter(r, "seal"))
    /\ \A r \in Runners : SF_vars(\E op \in Methods \ Idle : Enter(r, op)) /\ WF_vars(Attempt(r))

FairSpec == Spec /\ Fairness

\* Once every attempt has left its terminal receipt, the set is recorded and
\* sealed, however many runners died on the way, unless one of them left what
\* no load accepts.
CompleteIsSealed ==
    (\A c \in Cells : terminal[c]) ~> (seal = "sealed" /\ output) \/ debris \/ torn
=============================================================================
