----------------------- MODULE StudyControllerProofs -----------------------
(***************************************************************************)
(* The attempts of a study, for every number of cells and runners and      *)
(* whatever deaths and errors interrupt the controller's methods.          *)
(***************************************************************************)
EXTENDS StudyController, FiniteSetTheorems, TLAPS

\* The journal, its anchor and the checkpoints, at most one write apart.
Chained == anchors \in {checkpoints, checkpoints + 1} /\ anchors \in {records, records + 1}

\* The receipts and files that go with what the journal says.
Recorded ==
    /\ Referenced
    /\ \A c \in Cells : cell[c].state # "pending" => cell[c].entry # 0
    /\ \A c \in Cells : cell[c].state \in {"pending", "reserved"} => ~terminal[c]
    /\ \A c \in Cells : start[c] # 0 => prep[c] = Prepared
    /\ seal # "open" => AllTerminal

\* The method under way stands where its kind can, and is of the attempt that
\* its runner has in hand.
Shape ==
    work # None =>
      /\ work.step \in {"prepare", "publish"} => work.op = "begin"
      /\ work.step \in {"move", "shelved"} => work.op = "release"
      /\ work.step \in {"output", "sealing"} => work.op = "seal"
      /\ work.step = "append" => work.op \notin {"resume", "check"}
      /\ work.op \in Idle <=> hand[work.who] = None
      /\ work.op \notin Idle =>
           work.cell = hand[work.who].cell /\ work.op \in Wanted(work.who)
      /\ work.op = "reserve" /\ work.step = "append" => work.cell \in Cells

\* What the method under way has found, and still holds.
Sees ==
    work # None =>
      /\ work.step \notin {"load", "append"} => Settled
      /\ work.step \in {"prepare", "publish"} =>
           cell[work.cell] = [state |-> "reserved", entry |-> hand[work.who].entry]
      /\ work.step = "publish" => start[work.cell] # 0
      /\ work.step \in {"move", "shelved"} =>
           cell[work.cell].state = "reserved" /\ start[work.cell] = 0
      /\ work.step \in {"output", "sealing"} => seal = "started"

\* One runner at most is about to invoke the model of a cell, and only if
\* nobody has.
BegunBy(r, c) ==
    \/ hand[r] # None /\ hand[r].stage = "begun" /\ hand[r].cell = c
    \/ At("begin", "append") /\ work.who = r /\ work.cell = c

RanBy(r, c) == hand[r] # None /\ hand[r].stage = "ran" /\ hand[r].cell = c

Launches ==
    \A c \in Cells :
        /\ launched[c] # 0 => cell[c].state \in {"started", "terminal"}
        /\ launched[c] <= 1
        /\ \A r \in Runners :
             /\ BegunBy(r, c) =>
                  cell[c].state \in {"started", "terminal"} /\ launched[c] = 0
             /\ RanBy(r, c) => cell[c].state \in {"started", "terminal"}
             /\ \A s \in Runners : BegunBy(r, c) /\ BegunBy(s, c) => r = s

IInv == TypeOK /\ Chained /\ Recorded /\ Shape /\ Sees /\ Launches

USE DEF Held, Underway

\* A method ends with its runner's part in the attempt over, or at a stage.
LEMMA FailType ==
    ASSUME TypeOK, Shape, work # None, Fail
    PROVE  /\ work' = None /\ work.who \in Runners
           /\ \E h \in [cell : Cells, entry : Nat, stage : {"failed"}] \cup {None} :
                hand' = [hand EXCEPT ![work.who] = h]
<1>1. work.who \in Runners /\ work.op \in Methods
    BY DEF TypeOK
<1>2. CASE work.op = "begin"
    <2>1. hand[work.who] # None
        BY <1>2 DEF Shape, Idle
    <2>2. hand[work.who] \in Held
        BY <1>1, <2>1 DEF TypeOK
    <2> DEFINE h == [hand[work.who] EXCEPT !.stage = "failed"]
    <2>3. h \in [cell : Cells, entry : Nat, stage : {"failed"}]
        BY <2>2
    <2> QED BY <1>1, <1>2, <2>3 DEF Fail, Return
<1>3. CASE work.op # "begin"
    BY <1>1, <1>3 DEF Fail, Return
<1> QED BY <1>2, <1>3

\* A runner's part ends, or goes on at a stage.
LEMMA ReturnType ==
    ASSUME TypeOK, work # None, NEW h, Return(h),
           h \in Held \cup {None}
    PROVE  /\ work' \in Underway \cup {None}
           /\ hand' \in [Runners -> Held \cup {None}]
BY DEF TypeOK, Return

LEMMA FailTypeOK ==
    ASSUME TypeOK, Shape, work # None, Fail
    PROVE  /\ work' \in Underway \cup {None}
           /\ hand' \in [Runners -> Held \cup {None}]
<1>1. PICK h \in [cell : Cells, entry : Nat, stage : {"failed"}] \cup {None} :
        hand' = [hand EXCEPT ![work.who] = h]
    BY FailType
<1>2. h \in Held \cup {None}
    BY DEF Stages
<1> QED BY <1>1, <1>2, FailType DEF TypeOK

LEMMA GoType ==
    ASSUME TypeOK, work # None, NEW step \in Steps, Go(step)
    PROVE  /\ work' \in Underway \cup {None}
           /\ hand' \in [Runners -> Held \cup {None}]
BY DEF TypeOK, Go

\* What an attempt's runner holds is of a cell of the schedule.
LEMMA HoldType ==
    ASSUME TypeOK, NEW c \in Cells, NEW stage \in Stages
    PROVE  Hold(c, stage) \in Held
BY DEF TypeOK, Hold

LEMMA HandType ==
    ASSUME TypeOK, Shape, work # None, work.op \notin Idle
    PROVE  /\ hand[work.who] # None /\ work.cell \in Cells
           /\ \A stage \in Stages :
                [hand[work.who] EXCEPT !.stage = stage] \in Held
<1>1. work.who \in Runners /\ hand[work.who] # None /\ work.cell = hand[work.who].cell
    BY DEF TypeOK, Shape
<1>2. hand[work.who] \in Held
    BY <1>1 DEF TypeOK
<1> QED BY <1>1, <1>2

\* A record is torn or it is not.
LEMMA Tears ==
    ASSUME TypeOK, MayTear
    PROVE  torn' \in BOOLEAN
<1>1. torn \in BOOLEAN
    BY DEF TypeOK
<1>2. torn' \in {torn, torn \/ Appending}
    BY DEF MayTear
<1> QED BY <1>1, <1>2, Zenon

LEMMA TypeStep == IInv /\ [Next]_vars => TypeOK'
<1> SUFFICES ASSUME TypeOK, Shape, [Next]_vars
             PROVE  TypeOK'
    BY DEF IInv
<1> USE StudyAssumption DEF journal, chain, receipts, files, history
<1>1. CASE UNCHANGED vars
    BY <1>1 DEF TypeOK, vars
<1>2. CASE Refuse \/ Raise
    <2>1. work # None /\ Fail
        BY <1>2 DEF Refuse, Raise
    <2>2. faults' \in Nat
        BY <1>2 DEF Refuse, Raise, Fault, TypeOK
    <2>3. torn' \in BOOLEAN
        BY <1>2, Tears DEF Refuse, Raise, TypeOK
    <2> QED BY <1>2, <2>1, <2>2, <2>3, FailTypeOK DEF Refuse, Raise, Fault, TypeOK
<1>3. CASE AdvanceAnchor \/ WriteCheckpoint
    <2>1. shelf' \in [Cells -> [moved : SUBSET Prepared, manifest : {None} \cup SUBSET Prepared]]
        BY <1>3 DEF AdvanceAnchor, WriteCheckpoint, TypeOK
    <2> QED BY <1>3, <2>1 DEF AdvanceAnchor, WriteCheckpoint, TypeOK
<1>4. CASE RecordPublished
    BY <1>4 DEF RecordPublished, First, Unrecorded, Append, TypeOK
<1>5. CASE Appended
    <2>1. work # None
        BY <1>5 DEF Appended
    <2>2. CASE work.op = "reserve"
        <3>1. work.cell \in Cells /\ Return(Hold(work.cell, "reserved"))
            BY <1>5, <2>1, <2>2 DEF Appended, Shape
        <3> QED BY <1>5, <2>1, <3>1, HoldType, ReturnType DEF Appended, TypeOK, Stages
    <2>3. CASE work.op = "begin"
        <3>1. Return([hand[work.who] EXCEPT !.stage = "begun"])
            BY <1>5, <2>3 DEF Appended
        <3>2. [hand[work.who] EXCEPT !.stage = "begun"] \in Held
            BY <2>1, <2>3, HandType DEF Idle, Stages
        <3> QED BY <1>5, <2>1, <3>1, <3>2, ReturnType DEF Appended, TypeOK
    <2>4. CASE work.op \notin {"reserve", "begin"}
        <3>1. Go("output") \/ Return(None)
            BY <1>5, <2>4 DEF Appended
        <3> QED BY <1>5, <2>1, <3>1, GoType, ReturnType DEF Appended, TypeOK, Steps
    <2> QED BY <2>2, <2>3, <2>4
<1>6. CASE Initialize \/ Reserve \/ Resume
    <2>1. work # None
        BY <1>6 DEF Initialize, Reserve, Resume, Loaded, At
    <2>2. CASE Initialize
        <3>1. Go("append") \/ Return(None)
            BY <2>2 DEF Initialize
        <3> QED BY <2>1, <2>2, <3>1, GoType, ReturnType DEF Initialize, TypeOK, Steps
    <2> DEFINE full == Cardinality(Active) >= MaxParallel \/ Pending = {}
    <2>3. CASE Reserve /\ (seal # "open" \/ full)
        <3>1. (Fail \/ Return(None)) /\ UNCHANGED journal
            BY <2>3 DEF Reserve
        <3> QED BY <2>1, <2>3, <3>1, FailTypeOK, ReturnType DEF Reserve, TypeOK
    <2>4. CASE Reserve /\ seal = "open" /\ ~full
        <3>1. PICK c \in Pending :
                /\ cell' = [cell EXCEPT ![c] = [state |-> "reserved", entry |-> records + 1]]
                /\ records' = records + 1
                /\ work' = [work EXCEPT !.step = "append", !.cell = c]
                /\ UNCHANGED <<seal, hand>>
            BY <2>4 DEF Reserve, First
        <3>2. work' \in Underway
            BY <2>1, <3>1 DEF TypeOK, Pending, Steps
        <3>3. cell' \in [Cells -> [state : {"pending", "reserved", "started", "terminal"}, entry : Nat]]
            BY <3>1 DEF TypeOK, Pending
        <3>4. UNCHANGED <<seal, chain, receipts, files, hand, history>>
            BY <2>4, <3>1 DEF Reserve
        <3> QED BY <3>1, <3>2, <3>3, <3>4 DEF TypeOK
    <2>5. CASE Resume
        <3>1. CASE \E c \in Cells, stage \in {"reserved", "written"} : Return(Hold(c, stage))
            BY <2>1, <2>5, <3>1, HoldType, ReturnType DEF Resume, TypeOK, Stages
        <3>2. CASE Fail \/ Return(None)
            BY <2>1, <2>5, <3>2, FailTypeOK, ReturnType DEF Resume, TypeOK
        <3> QED BY <2>5, <3>1, <3>2 DEF Resume, First, Active
    <2> QED BY <1>6, <2>2, <2>3, <2>4, <2>5
<1>7. CASE Begin \/ Release
    <2>1. work # None /\ (Fail \/ Go("prepare") \/ Go("move"))
        BY <1>7 DEF Begin, Release, Loaded, At
    <2> QED BY <1>7, <2>1, GoType, FailTypeOK DEF Begin, Release, TypeOK, Steps
<1>8. CASE Prepare \/ MoveAway \/ WriteManifest
    <2>1. work # None /\ work.op \notin Idle
        BY <1>8 DEF Prepare, MoveAway, WriteManifest, At, Idle
    <2>2. work.cell \in Cells
        BY <2>1, HandType
    <2>3. CASE Prepare
        BY <2>1, <2>2, <2>3 DEF Prepare, TypeOK, Prepared
    <2>4. CASE MoveAway
        <3>1. CASE UNCHANGED files
            BY <2>1, <2>4, <3>1, FailTypeOK DEF MoveAway, TypeOK
        <3>2. CASE ~UNCHANGED files
            <4>1. PICK f \in Prepared :
                    /\ prep' = [prep EXCEPT ![work.cell] = @ \ {f}]
                    /\ shelf' = [shelf EXCEPT ![work.cell].moved = @ \cup {f}]
                    /\ UNCHANGED <<output, work, hand>>
                BY <2>4, <3>2 DEF MoveAway, Prepared
            <4>2. shelf' \in [Cells -> [moved : SUBSET Prepared, manifest : {None} \cup SUBSET Prepared]]
                BY <2>2, <4>1 DEF TypeOK
            <4>3. prep' \in [Cells -> SUBSET Prepared]
                BY <2>2, <4>1 DEF TypeOK
            <4> QED BY <2>4, <4>1, <4>2, <4>3 DEF MoveAway, TypeOK
        <3> QED BY <3>1, <3>2
    <2>5. CASE WriteManifest
        <3>1. Fail \/ Go("shelved")
            BY <2>5 DEF WriteManifest
        <3>2. shelf' \in [Cells -> [moved : SUBSET Prepared, manifest : {None} \cup SUBSET Prepared]]
            BY <2>2, <2>5 DEF WriteManifest, TypeOK
        <3> QED BY <2>1, <2>5, <3>1, <3>2, FailTypeOK, GoType DEF WriteManifest, TypeOK, Steps
    <2> QED BY <1>8, <2>3, <2>4, <2>5
<1>9. CASE PublishStart \/ RecordStart \/ RecordRelease \/ Record
    <2>1. work # None /\ work.op \notin Idle
        BY <1>9 DEF PublishStart, RecordStart, RecordRelease, Record, Loaded, At, Idle
    <2>2. work.cell \in Cells /\ hand[work.who] \in Held
        BY <2>1, HandType DEF TypeOK, Shape
    <2>3. Fail \/ Go("publish") \/ Go("append")
        BY <1>9 DEF PublishStart, RecordStart, RecordRelease, Record
    <2>4. work' \in Underway \cup {None} /\ hand' \in [Runners -> Held \cup {None}]
        BY <2>1, <2>3, FailTypeOK, GoType DEF Steps
    <2>5. start' \in [Cells -> Nat] /\ records' \in Nat
        BY <1>9, <2>2 DEF PublishStart, RecordStart, RecordRelease, Record, Append, TypeOK
    <2>6. cell' \in [Cells -> [state : {"pending", "reserved", "started", "terminal"}, entry : Nat]]
        BY <1>9, <2>2 DEF PublishStart, RecordStart, RecordRelease, Record, Append, TypeOK
    <2> QED BY <1>9, <2>4, <2>5, <2>6
            DEF PublishStart, RecordStart, RecordRelease, Record, Append, TypeOK
<1>10. CASE Check
    <2>1. work # None /\ work.op \notin Idle
        BY <1>10 DEF Check, Loaded, At, Idle
    <2>2. PICK h \in Held \cup {None} : Return(h)
        BY <1>10, <2>1, HandType DEF Check, Stages
    <2> QED BY <1>10, <2>1, <2>2, ReturnType DEF Check, TypeOK
<1>11. CASE Seal \/ WriteOutput \/ RecordSeal
    <2>1. work # None
        BY <1>11 DEF Seal, WriteOutput, RecordSeal, Loaded, At
    <2>2. Fail \/ Return(None) \/ Go("output") \/ Go("append") \/ Go("sealing")
        BY <1>11 DEF Seal, WriteOutput, RecordSeal
    <2>3. work' \in Underway \cup {None} /\ hand' \in [Runners -> Held \cup {None}]
        BY <2>1, <2>2, FailTypeOK, ReturnType, GoType DEF Steps
    <2>4. seal' \in {"open", "started", "sealed"} /\ records' \in Nat
        BY <1>11 DEF Seal, WriteOutput, RecordSeal, TypeOK
    <2>5. output' \in {output, TRUE}
        BY <1>11 DEF Seal, WriteOutput, RecordSeal
    <2>6. UNCHANGED <<cell, chain, receipts, prep, shelf, history>>
        BY <1>11 DEF Seal, WriteOutput, RecordSeal
    <2> QED BY <2>3, <2>4, <2>5, <2>6 DEF TypeOK
<1>12. ASSUME NEW r \in Runners, Attempt(r)
       PROVE  TypeOK'
    <2>1. hand[r] \in Held
        BY <1>12 DEF Attempt, Admit, Reject, Launch, Terminalize, Abandon, TypeOK
    <2>2. PICK h \in Held \cup {None} : hand' = [hand EXCEPT ![r] = h]
        <3>1. CASE Abandon(r)
            BY <3>1 DEF Abandon
        <3>2. CASE ~Abandon(r)
            <4>1. PICK stage \in Stages : hand' = [hand EXCEPT ![r].stage = stage]
                BY <1>12, <3>2 DEF Attempt, Admit, Reject, Launch, Terminalize, Turn, Stages
            <4> DEFINE h == [hand[r] EXCEPT !.stage = stage]
            <4>2. h \in Held /\ hand' = [hand EXCEPT ![r] = h]
                BY <2>1, <4>1
            <4> QED BY <4>2
        <3> QED BY <3>1, <3>2
    <2>3. hand' \in [Runners -> Held \cup {None}]
        BY <2>2 DEF TypeOK
    <2>4. launched' \in [Cells -> Nat] /\ terminal' \in [Cells -> BOOLEAN]
        <3>1. CASE UNCHANGED launched
            BY <1>12, <2>1, <3>1
            DEF Attempt, Admit, Reject, Launch, Terminalize, Abandon, Turn, TypeOK
        <3>2. CASE Launch(r)
            BY <2>1, <3>2 DEF Launch, Turn, TypeOK
        <3> QED BY <1>12, <3>1, <3>2 DEF Attempt, Admit, Reject, Terminalize, Abandon
    <2>5. UNCHANGED <<journal, chain, start, files, work, faults>>
        BY <1>12 DEF Attempt, Admit, Reject, Launch, Terminalize, Abandon, Turn
    <2> QED BY <2>3, <2>4, <2>5 DEF TypeOK
<1>13. ASSUME NEW r \in Runners, Die(r)
       PROVE  TypeOK'
    <2>1. hand' \in [Runners -> Held \cup {None}] /\ work' \in Underway \cup {None}
        BY <1>13 DEF Die, TypeOK
    <2>2. debris' \in BOOLEAN
        <3>1. debris \in BOOLEAN
            BY DEF TypeOK
        <3>2. debris' \in {debris, debris \/ (MayWrite /\ checkpoints < anchors)} \/ debris' = debris
            BY <1>13 DEF Die
        <3> QED BY <3>1, <3>2, Zenon
    <2>3. torn' \in BOOLEAN
        BY <1>13, Tears DEF Die, TypeOK
    <2>4. faults' \in Nat
        BY <1>13 DEF Die, Fault, TypeOK
    <2>5. UNCHANGED <<journal, anchors, checkpoints, receipts, files, launched>>
        BY <1>13 DEF Die, Fault
    <2> QED BY <2>1, <2>2, <2>3, <2>4, <2>5 DEF TypeOK
<1>14. ASSUME NEW r \in Runners, NEW op \in Methods, Enter(r, op)
       PROVE  TypeOK'
    <2>1. hand[r] # None => hand[r].cell \in Cells
        BY DEF TypeOK
    <2>2. work' \in Underway
        BY <1>14, <2>1 DEF Enter, Steps
    <2> QED BY <1>14, <2>2 DEF Enter, TypeOK
<1> QED
    BY <1>1, <1>2, <1>3, <1>4, <1>5, <1>6, <1>7, <1>8, <1>9, <1>10, <1>11, <1>12, <1>13, <1>14
    DEF Next, Method

\* A record is written only once all others are anchored and checkpointed.
LEMMA RecordsStep ==
    ASSUME TypeOK, Sees, [Next]_vars
    PROVE  \/ UNCHANGED records
           \/ Settled /\ records' = records + 1 /\ UNCHANGED <<anchors, checkpoints>>
<1> USE DEF journal, chain
<1>1. CASE UNCHANGED vars
    BY <1>1 DEF vars
<1>2. CASE Initialize \/ Reserve \/ Record \/ Seal \/ RecordPublished
    <2>1. Settled /\ UNCHANGED <<anchors, checkpoints>>
        BY <1>2 DEF Initialize, Reserve, Record, Seal, RecordPublished, Loaded
    <2>2. UNCHANGED records \/ records' = records + 1
        <3>1. CASE Reserve
            BY <3>1 DEF Reserve
        <3>2. CASE Initialize \/ Record \/ Seal \/ RecordPublished
            BY <3>2 DEF Initialize, Record, Seal, RecordPublished, Append
        <3> QED BY <1>2, <3>1, <3>2
    <2> QED BY <2>1, <2>2
<1>3. CASE RecordStart \/ RecordRelease \/ RecordSeal
    BY <1>3 DEF RecordStart, RecordRelease, RecordSeal, Append, At, Sees
<1>4. CASE Refuse \/ AdvanceAnchor \/ WriteCheckpoint \/ Appended \/ Resume \/ Raise
    BY <1>4 DEF Refuse, AdvanceAnchor, WriteCheckpoint, Appended, Resume, Raise
<1>5. CASE Begin \/ Prepare \/ PublishStart \/ Check \/ Release \/ MoveAway
             \/ WriteManifest \/ WriteOutput
    BY <1>5 DEF Begin, Prepare, PublishStart, Check, Release, MoveAway, WriteManifest, WriteOutput
<1>6. ASSUME NEW r \in Runners,
             Attempt(r) \/ Die(r) \/ \E op \in Methods : Enter(r, op)
      PROVE  UNCHANGED records
    BY <1>6 DEF Attempt, Admit, Reject, Launch, Terminalize, Abandon, Turn, Die, Enter
<1> QED BY <1>1, <1>2, <1>3, <1>4, <1>5, <1>6 DEF Next, Method

LEMMA ChainStep == IInv /\ [Next]_vars => Chained'
<1> SUFFICES ASSUME TypeOK, Chained, Sees, [Next]_vars
             PROVE  Chained'
    BY DEF IInv
<1>1. CASE AdvanceAnchor \/ WriteCheckpoint
    BY <1>1 DEF AdvanceAnchor, WriteCheckpoint, Chained, TypeOK, journal
<1>2. CASE ~(AdvanceAnchor \/ WriteCheckpoint)
    <2>1. UNCHANGED <<anchors, checkpoints>>
        <3> USE DEF chain
        <3>1. CASE UNCHANGED vars
            BY <3>1 DEF vars
        <3>2. CASE Method
            BY <1>2, <3>2
            DEF Method, Initialize, Reserve, Record, Seal, RecordPublished, RecordStart,
                RecordRelease, RecordSeal, Refuse, Appended, Resume, Begin, Prepare,
                PublishStart, Check, Release, MoveAway, WriteManifest, WriteOutput
        <3>3. CASE Raise
            BY <3>3 DEF Raise
        <3>4. ASSUME NEW r \in Runners,
                     Attempt(r) \/ Die(r) \/ \E op \in Methods : Enter(r, op)
              PROVE  UNCHANGED <<anchors, checkpoints>>
            BY <3>4 DEF Attempt, Admit, Reject, Launch, Terminalize, Abandon, Turn, Die, Enter
        <3> QED BY <3>1, <3>2, <3>3, <3>4 DEF Next
    <2> QED BY <2>1, RecordsStep DEF Chained, Settled, TypeOK
<1> QED BY <1>1, <1>2

-----------------------------------------------------------------------------
(* What a step does to the journal's cells and the receipts.               *)

Takes(c) ==
    /\ c \in First(Pending) /\ seal = "open" /\ ~(Cardinality(Active) >= MaxParallel)
    /\ cell' = [cell EXCEPT ![c] = [state |-> "reserved", entry |-> records + 1]]
    /\ UNCHANGED <<seal, receipts, prep>>

Readies(c) ==
    /\ cell[c].state = "reserved" /\ start[c] = 0
    /\ \E S \in SUBSET Prepared : prep' = [prep EXCEPT ![c] = S]
    /\ UNCHANGED <<cell, seal, receipts>>

Publishes(c) ==
    /\ cell[c].state = "reserved" /\ start[c] = 0 /\ prep[c] = Prepared
    /\ start' = [start EXCEPT ![c] = cell[c].entry]
    /\ UNCHANGED <<cell, seal, terminal, prep>>

Starts(c) ==
    /\ cell[c].state = "reserved" /\ start[c] # 0
    /\ cell' = [cell EXCEPT ![c].state = "started"]
    /\ UNCHANGED <<seal, receipts, prep>>

Releases(c) ==
    /\ cell[c].state = "reserved" /\ start[c] = 0
    /\ cell' = [cell EXCEPT ![c] = [state |-> "pending", entry |-> 0]]
    /\ UNCHANGED <<seal, receipts, prep>>

Leaves(c) ==
    /\ cell[c].state \in {"started", "terminal"}
    /\ terminal' = [terminal EXCEPT ![c] = TRUE]
    /\ UNCHANGED <<cell, seal, start, prep>>

Ends(c) ==
    /\ cell[c].state = "started" /\ terminal[c]
    /\ cell' = [cell EXCEPT ![c].state = "terminal"]
    /\ UNCHANGED <<seal, receipts, prep>>

Seals ==
    /\ AllTerminal
    /\ \/ seal = "open" /\ seal' = "started"
       \/ seal = "started" /\ seal' = "sealed"
    /\ UNCHANGED <<cell, receipts, prep>>

DataSteps ==
    \/ UNCHANGED <<cell, seal, receipts, prep>>
    \/ Seals
    \/ \E c \in Cells :
         Takes(c) \/ Readies(c) \/ Publishes(c) \/ Starts(c) \/ Releases(c) \/ Leaves(c) \/ Ends(c)

LEMMA DataStep ==
    ASSUME TypeOK, Recorded, Shape, Sees, Launches, [Next]_vars
    PROVE  DataSteps
<1> USE DEF journal, chain, receipts, files, DataSteps
<1>1. CASE UNCHANGED vars
    BY <1>1 DEF vars
<1>2. CASE Refuse \/ Raise \/ AdvanceAnchor \/ WriteCheckpoint \/ Appended \/ Initialize
          \/ Resume \/ Begin \/ Check \/ Release \/ WriteManifest \/ WriteOutput
    BY <1>2 DEF Refuse, Raise, AdvanceAnchor, WriteCheckpoint, Appended, Initialize, Resume,
                Begin, Check, Release, WriteManifest, WriteOutput
<1>3. CASE Reserve
    <2>1. CASE UNCHANGED journal
        BY <1>3, <2>1 DEF Reserve
    <2>2. CASE ~UNCHANGED journal
        <3>1. PICK c \in First(Pending) :
                /\ cell' = [cell EXCEPT ![c] = [state |-> "reserved", entry |-> records + 1]]
                /\ UNCHANGED <<seal, hand>>
            BY <1>3, <2>2 DEF Reserve
        <3>2. c \in Cells
            BY DEF First, Pending
        <3> QED BY <1>3, <2>2, <3>1, <3>2 DEF Reserve, Takes
    <2> QED BY <2>1, <2>2
<1>4. CASE RecordPublished
    BY <1>4 DEF RecordPublished, First, Unrecorded, Append, Starts
<1>5. CASE Prepare \/ PublishStart \/ RecordStart
    <2>1. work # None /\ work.op = "begin" /\ work.op \notin Idle
        BY <1>5 DEF Prepare, PublishStart, RecordStart, At, Idle
    <2>2. work.cell \in Cells
        BY <2>1, HandType
    <2>3. cell[work.cell].state = "reserved" /\ cell[work.cell].entry = hand[work.who].entry
        BY <1>5, <2>1 DEF Prepare, PublishStart, RecordStart, At, Sees
    <2>4. CASE Prepare
        <3>1. start[work.cell] = 0
            BY <2>2, <2>4 DEF Prepare, Recorded
        <3>2. PICK f \in Prepared : prep' = [prep EXCEPT ![work.cell] = @ \cup {f}]
            BY <2>4 DEF Prepare, Prepared
        <3>3. prep[work.cell] \cup {f} \in SUBSET Prepared
            BY <2>2 DEF TypeOK
        <3>4. prep' = [prep EXCEPT ![work.cell] = prep[work.cell] \cup {f}]
            BY <3>2
        <3>5. UNCHANGED <<cell, seal, receipts>>
            BY <2>4 DEF Prepare
        <3>6. Readies(work.cell)
            BY <2>3, <3>1, <3>3, <3>4, <3>5 DEF Readies
        <3> QED BY <2>2, <3>6
    <2>5. CASE PublishStart
        <3>1. CASE start[work.cell] = 0
            <4>1. start' = [start EXCEPT ![work.cell] = cell[work.cell].entry]
                BY <2>3, <2>5, <3>1 DEF PublishStart
            <4> QED BY <2>2, <2>3, <2>5, <3>1, <4>1 DEF PublishStart, Publishes
        <3>2. CASE start[work.cell] # 0
            BY <2>5, <3>2 DEF PublishStart
        <3> QED BY <3>1, <3>2
    <2>6. CASE RecordStart
        BY <2>1, <2>2, <2>3, <2>6 DEF RecordStart, Append, Starts, At, Sees
    <2> QED BY <1>5, <2>4, <2>5, <2>6
<1>6. CASE MoveAway \/ RecordRelease
    <2>1. work # None /\ work.op \notin Idle
        BY <1>6 DEF MoveAway, RecordRelease, At, Idle
    <2>2. work.cell \in Cells
        BY <2>1, HandType
    <2>3. cell[work.cell].state = "reserved" /\ start[work.cell] = 0
        BY <1>6, <2>1 DEF MoveAway, RecordRelease, At, Sees
    <2>4. CASE MoveAway
        <3>1. CASE UNCHANGED files
            BY <2>4, <3>1 DEF MoveAway
        <3>2. CASE ~UNCHANGED files
            <4>1. PICK f \in Prepared : prep' = [prep EXCEPT ![work.cell] = @ \ {f}]
                BY <2>4, <3>2 DEF MoveAway, Prepared
            <4>2. prep[work.cell] \ {f} \in SUBSET Prepared
                BY <2>2 DEF TypeOK
            <4>3. prep' = [prep EXCEPT ![work.cell] = prep[work.cell] \ {f}]
                BY <4>1
            <4> QED BY <2>2, <2>3, <2>4, <4>2, <4>3 DEF MoveAway, Readies
        <3> QED BY <3>1, <3>2
    <2>5. CASE RecordRelease
        BY <2>2, <2>3, <2>5 DEF RecordRelease, Releases
    <2> QED BY <1>6, <2>4, <2>5
<1>7. CASE Record
    <2>1. work.cell \in Cells
        BY <1>7, HandType DEF Record, Loaded, At, Idle
    <2> QED BY <1>7, <2>1 DEF Record, Append, Ends
<1>8. CASE Seal \/ RecordSeal
    <2>1. CASE Seal
        BY <2>1 DEF Seal, Seals, AllTerminal, TypeOK
    <2>2. CASE RecordSeal
        <3>1. seal = "started"
            BY <2>2 DEF RecordSeal, At, Sees
        <3> QED BY <2>2, <3>1 DEF RecordSeal, Recorded, Seals
    <2> QED BY <1>8, <2>1, <2>2
<1>9. ASSUME NEW r \in Runners, Attempt(r)
      PROVE  DataSteps
    <2>1. CASE Terminalize(r)
        <3>1. hand[r].cell \in Cells
            BY <2>1 DEF Terminalize, TypeOK
        <3>2. cell[hand[r].cell].state \in {"started", "terminal"}
            BY <2>1, <3>1 DEF Terminalize, Launches, RanBy
        <3> QED BY <2>1, <3>1, <3>2 DEF Terminalize, Leaves
    <2>2. CASE ~Terminalize(r)
        BY <1>9, <2>2 DEF Attempt, Admit, Reject, Launch, Abandon, Turn
    <2> QED BY <2>1, <2>2
<1>10. ASSUME NEW r \in Runners, Die(r) \/ \E op \in Methods : Enter(r, op)
       PROVE  DataSteps
    BY <1>10 DEF Die, Enter
<1> QED BY <1>1, <1>2, <1>3, <1>4, <1>5, <1>6, <1>7, <1>8, <1>9, <1>10 DEF Next, Method

LEMMA RecordedStep == IInv /\ [Next]_vars => Recorded'
<1> SUFFICES ASSUME IInv, [Next]_vars
             PROVE  Recorded'
    OBVIOUS
<1>1. DataSteps
    BY DataStep DEF IInv
<1> USE DEF IInv, Recorded, Referenced, TypeOK, receipts
<1>2. CASE UNCHANGED <<cell, seal, receipts, prep>>
    BY <1>2 DEF AllTerminal
<1>3. CASE Seals
    BY <1>3 DEF Seals, AllTerminal
<1>4. ASSUME NEW c \in Cells,
             Takes(c) \/ Starts(c) \/ Releases(c) \/ Ends(c)
      PROVE  Recorded'
    <2>1. seal' = "open"
        BY <1>4 DEF Takes, Starts, Releases, Ends, AllTerminal
    <2>2. UNCHANGED <<start, terminal, prep>>
        BY <1>4 DEF Takes, Starts, Releases, Ends
    <2>3. \A d \in Cells \ {c} : cell'[d] = cell[d]
        BY <1>4 DEF Takes, Starts, Releases, Ends
    <2>4. CASE Takes(c)
        <3>1. cell'[c] = [state |-> "reserved", entry |-> records + 1] /\ cell[c].state = "pending"
            BY <2>4 DEF Takes, First, Pending
        <3>2. cell'[c].state = "reserved" /\ cell'[c].entry # 0
            BY <3>1
        <3>3. start'[c] = 0 /\ ~terminal'[c]
            BY <2>2, <3>1
        <3>4. Referenced'
            BY <2>2, <2>3, <3>2, <3>3
        <3>5. \A d \in Cells : cell'[d].state \in {"pending", "reserved"} => ~terminal'[d]
            BY <2>2, <2>3, <3>3
        <3> QED BY <2>1, <2>2, <2>3, <3>2, <3>4, <3>5
    <2>5. CASE Starts(c)
        <3>1. cell'[c].state = "started" /\ cell'[c].entry = cell[c].entry
            BY <2>5 DEF Starts
        <3> QED BY <2>1, <2>2, <2>3, <2>5, <3>1 DEF Starts
    <2>6. CASE Releases(c)
        <3>1. cell'[c].state = "pending"
            BY <2>6 DEF Releases
        <3> QED BY <2>1, <2>2, <2>3, <2>6, <3>1 DEF Releases
    <2>7. CASE Ends(c)
        <3>1. cell'[c].state = "terminal" /\ cell'[c].entry = cell[c].entry
            BY <2>7 DEF Ends
        <3> QED BY <2>1, <2>2, <2>3, <2>7, <3>1 DEF Ends
    <2> QED BY <1>4, <2>4, <2>5, <2>6, <2>7
<1>5. ASSUME NEW c \in Cells, Readies(c) \/ Publishes(c) \/ Leaves(c)
      PROVE  Recorded'
    <2>1. CASE Readies(c)
        BY <2>1 DEF Readies, AllTerminal
    <2>2. CASE Publishes(c)
        BY <2>2 DEF Publishes, AllTerminal
    <2>3. CASE Leaves(c)
        BY <2>3 DEF Leaves, AllTerminal
    <2> QED BY <1>5, <2>1, <2>2, <2>3
<1> QED BY <1>1, <1>2, <1>3, <1>4, <1>5 DEF DataSteps

-----------------------------------------------------------------------------
(* Where methods and runners stand.                                        *)

\* A method that is left goes no further.
LEMMA Gone ==
    ASSUME TypeOK, Shape, work # None, Fail \/ \E h \in Held \cup {None} : Return(h)
    PROVE  work' = None
BY FailType DEF Return

\* A runner that acts between the methods has none under way.
LEMMA Elsewhere ==
    ASSUME TypeOK, Shape, work # None, NEW r \in Runners, Attempt(r)
    PROVE  work.who # r
<1>1. hand[r] # None /\ hand[r].stage \in {"reserved", "begun", "ran"}
    BY DEF Attempt, Admit, Reject, Launch, Terminalize, Abandon
<1>2. \A op \in Methods : op \notin Wanted(r)
    BY <1>1 DEF Wanted
<1>3. SUFFICES ASSUME work.who = r
               PROVE  FALSE
    OBVIOUS
<1>4. work.op \in Methods /\ work.op \notin Wanted(work.who)
    BY <1>2, <1>3 DEF TypeOK
<1>5. hand[work.who] # None
    BY <1>1, <1>3
<1>6. work.op \notin Idle
    BY <1>5 DEF Shape
<1> QED BY <1>4, <1>6 DEF Shape

\* The method under way goes to a step of its kind.
LEMMA GoShape ==
    ASSUME TypeOK, Shape, work # None, NEW step \in Steps, Go(step),
           step \in {"prepare", "publish"} => work.op = "begin",
           step \in {"move", "shelved"} => work.op = "release",
           step \in {"output", "sealing"} => work.op = "seal",
           step = "append" => work.op \notin {"resume", "check", "reserve"}
    PROVE  Shape'
<1>1. /\ work'.step = step /\ work'.op = work.op
      /\ work'.who = work.who /\ work'.cell = work.cell /\ hand' = hand
    BY DEF Go, TypeOK
<1>2. Wanted(work.who)' = Wanted(work.who)
    BY <1>1 DEF Wanted
<1> QED BY <1>1, <1>2 DEF Shape

LEMMA ShapeStep == IInv /\ [Next]_vars => Shape'
<1> SUFFICES ASSUME TypeOK, Shape, Sees, [Next]_vars, work' # None
             PROVE  Shape'
    BY DEF IInv, Shape
<1>1. CASE UNCHANGED <<work, hand>>
    BY <1>1 DEF Shape, Wanted
<1>2. CASE Refuse \/ Raise \/ Resume \/ Check
    <2>1. work # None /\ (Fail \/ \E h \in Held \cup {None} : Return(h))
        <3>1. CASE Refuse \/ Raise
            BY <3>1 DEF Refuse, Raise
        <3>2. CASE Resume
            BY <3>2, HoldType DEF Resume, Loaded, At, First, Active, Stages
        <3>3. CASE Check
            BY <3>3, HandType DEF Check, Loaded, At, Idle, Stages
        <3> QED BY <1>2, <3>1, <3>2, <3>3
    <2> QED BY <2>1, Gone
<1>3. CASE Appended
    <2>1. work.op = "seal" /\ Go("output")
        BY <1>3 DEF Appended, Return
    <2> QED BY <1>3, <2>1, GoShape DEF Appended, Steps
<1>4. CASE Initialize \/ Begin \/ PublishStart \/ RecordStart \/ Release
    <2>1. work # None
        BY <1>4 DEF Initialize, Begin, PublishStart, RecordStart, Release, Loaded, At
    <2>2. ~Fail /\ ~Return(None)
        BY <2>1, Gone DEF Return
    <2>3. \/ work.op = "initialize" /\ Go("append")
          \/ work.op = "begin" /\ (Go("prepare") \/ Go("publish") \/ Go("append"))
          \/ work.op = "release" /\ Go("move")
        BY <1>4, <2>2 DEF Initialize, Begin, PublishStart, RecordStart, Release, Loaded, At
    <2> QED BY <2>1, <2>3, GoShape DEF Steps
<1>5. CASE WriteManifest \/ RecordRelease \/ Record \/ Seal \/ WriteOutput \/ RecordSeal
    <2>1. work # None
        BY <1>5 DEF WriteManifest, RecordRelease, Record, Seal, WriteOutput, RecordSeal, Loaded, At
    <2>2. ~Fail /\ ~Return(None)
        BY <2>1, Gone DEF Return
    <2>3. \/ work.op = "release" /\ (Go("shelved") \/ Go("append"))
          \/ work.op = "record" /\ Go("append")
          \/ work.op = "seal" /\ (Go("output") \/ Go("sealing") \/ Go("append"))
        BY <1>5, <2>2
        DEF WriteManifest, RecordRelease, Record, Seal, WriteOutput, RecordSeal, Loaded, At
    <2> QED BY <2>1, <2>3, GoShape DEF Steps
<1>6. CASE Reserve
    <2>1. work # None /\ work.op = "reserve"
        BY <1>6 DEF Reserve, Loaded, At
    <2>2. ~Fail /\ ~Return(None)
        BY <2>1, Gone DEF Return
    <2>3. PICK c \in First(Pending) :
            work' = [work EXCEPT !.step = "append", !.cell = c] /\ UNCHANGED hand
        BY <1>6, <2>2 DEF Reserve
    <2>4. /\ work'.step = "append" /\ work'.op = "reserve" /\ work'.cell = c
          /\ work'.who = work.who /\ c \in Cells
        BY <2>1, <2>3 DEF TypeOK, First, Pending
    <2> QED BY <2>1, <2>3, <2>4 DEF Shape, Idle
<1>7. CASE MoveAway
    <2>1. UNCHANGED <<work, hand>>
        BY <1>7, Gone DEF MoveAway, At
    <2> QED BY <1>1, <2>1
<1>8. ASSUME NEW r \in Runners, Attempt(r)
      PROVE  Shape'
    <2>1. work' = work
        BY <1>8 DEF Attempt, Admit, Reject, Launch, Terminalize, Abandon, Turn
    <2>2. work.who # r
        BY <1>8, <2>1, Elsewhere
    <2>3. hand'[work.who] = hand[work.who]
        BY <1>8, <2>1, <2>2
        DEF Attempt, Admit, Reject, Launch, Terminalize, Abandon, Turn, TypeOK
    <2> QED BY <2>1, <2>3 DEF Shape, Wanted
<1>9. ASSUME NEW r \in Runners, Die(r)
      PROVE  Shape'
    <2>1. work' = work /\ work.who # r
        BY <1>9 DEF Die
    <2>2. hand'[work.who] = hand[work.who]
        BY <1>9, <2>1 DEF Die, TypeOK
    <2> QED BY <2>1, <2>2 DEF Shape, Wanted
<1>10. ASSUME NEW r \in Runners, NEW op \in Methods, Enter(r, op)
       PROVE  Shape'
    <2>1. /\ work'.who = r /\ work'.op = op /\ work'.step = "load" /\ hand' = hand
          /\ work'.cell = (IF hand[r] = None THEN 0 ELSE hand[r].cell) /\ op \in Wanted(r)
        BY <1>10 DEF Enter
    <2>2. op \in Idle <=> hand[r] = None
        BY <2>1 DEF Wanted, Idle
    <2>3. Wanted(r)' = Wanted(r)
        BY <2>1 DEF Wanted
    <2> QED BY <2>1, <2>2, <2>3 DEF Shape
<1>11. CASE AdvanceAnchor \/ WriteCheckpoint \/ RecordPublished \/ Prepare \/ UNCHANGED vars
    BY <1>1, <1>11 DEF AdvanceAnchor, WriteCheckpoint, RecordPublished, Prepare, vars
<1> QED BY <1>2, <1>3, <1>4, <1>5, <1>6, <1>7, <1>8, <1>9, <1>10, <1>11 DEF Next, Method

LEMMA SeesStep == IInv /\ [Next]_vars => Sees'
<1> SUFFICES ASSUME IInv, [Next]_vars, work' # None, work'.step \notin {"load", "append"}
             PROVE  Sees'
    BY DEF Sees
<1> USE DEF IInv, journal, chain, receipts, files
<1>1. CASE UNCHANGED <<cell, seal, records, anchors, checkpoints, start, work, hand>>
    BY <1>1 DEF Sees, Settled
<1>2. CASE Refuse \/ Raise \/ Resume \/ Check
    <2>1. work # None /\ (Fail \/ \E h \in Held \cup {None} : Return(h))
        <3>1. CASE Refuse \/ Raise
            BY <3>1 DEF Refuse, Raise
        <3>2. CASE Resume
            BY <3>2, HoldType DEF Resume, Loaded, At, First, Active, Stages
        <3>3. CASE Check
            BY <3>3, HandType DEF Check, Loaded, At, Idle, Stages
        <3> QED BY <1>2, <3>1, <3>2, <3>3
    <2> QED BY <2>1, Gone
<1>3. CASE AdvanceAnchor \/ WriteCheckpoint \/ RecordPublished
    BY <1>3 DEF AdvanceAnchor, WriteCheckpoint, RecordPublished, MayWrite
<1>4. CASE Initialize \/ Reserve \/ RecordStart \/ RecordRelease \/ RecordSeal \/ Record
    <2>1. work # None
        BY <1>4 DEF Initialize, Reserve, RecordStart, RecordRelease, RecordSeal, Record, Loaded, At
    <2>2. ~Fail /\ ~Return(None)
        BY <2>1, Gone DEF Return
    <2>3. work'.step = "append"
        <3>1. CASE Reserve
            BY <2>1, <2>2, <3>1 DEF Reserve, TypeOK
        <3>2. CASE Go("append")
            BY <2>1, <3>2 DEF Go, TypeOK
        <3> QED BY <1>4, <2>2, <3>1, <3>2
                DEF Initialize, RecordStart, RecordRelease, RecordSeal, Record
    <2> QED BY <2>3
<1>5. CASE Appended \/ Seal \/ WriteOutput
    <2>1. work # None /\ work.op = "seal" /\ ~Fail /\ ~Return(None)
        <3>1. work # None
            BY <1>5 DEF Appended, Seal, WriteOutput, Loaded, At
        <3>2. ~Fail /\ \A h : ~Return(h)
            BY <3>1, Gone DEF Return
        <3> QED BY <1>5, <3>1, <3>2 DEF Appended, Seal, WriteOutput, Loaded, At
    <2>2. Go("output") \/ Go("sealing") \/ Go("append")
        BY <1>5, <2>1 DEF Appended, Seal, WriteOutput
    <2>3. work'.step \in {"output", "sealing"} /\ ~Go("append")
        BY <2>1, <2>2 DEF Go, TypeOK
    <2>4. Settled /\ seal = "started" /\ UNCHANGED <<seal, records, anchors, checkpoints>>
        BY <1>5, <2>1, <2>3 DEF Appended, Seal, WriteOutput, Loaded, At, Sees, Return
    <2> QED BY <2>3, <2>4 DEF Sees, Settled
<1>6. CASE Begin \/ Release
    <2>1. work # None /\ work.op \notin Idle /\ ~Fail
        BY <1>6, Gone DEF Begin, Release, Loaded, At, Idle
    <2>2. /\ work.cell \in Cells /\ work.cell = hand[work.who].cell /\ Settled
          /\ cell[work.cell].state = "reserved"
          /\ UNCHANGED <<cell, start, records, anchors, checkpoints, hand>>
        BY <1>6, <2>1, HandType DEF Begin, Begins, Release, Loaded, Shape, Go
    <2>3. CASE Begin
        <3>1. /\ work'.step = "prepare" /\ work'.cell = work.cell /\ work'.who = work.who
              /\ cell[work.cell] = [state |-> "reserved", entry |-> hand[work.who].entry]
            BY <2>1, <2>2, <2>3 DEF Begin, Begins, Go, TypeOK
        <3> QED BY <2>2, <3>1 DEF Sees, Settled
    <2>4. CASE Release
        <3>1. work'.step = "move" /\ work'.cell = work.cell /\ start[work.cell] = 0
            BY <2>1, <2>2, <2>4 DEF Release, Go, TypeOK
        <3> QED BY <2>2, <3>1 DEF Sees, Settled
    <2> QED BY <1>6, <2>3, <2>4
<1>7. CASE PublishStart
    <2>1. work # None /\ work.op = "begin" /\ ~Fail
        BY <1>7, Gone DEF PublishStart, At
    <2>2. work.cell \in Cells
        BY <2>1, HandType DEF Idle
    <2>3. /\ cell[work.cell] = [state |-> "reserved", entry |-> hand[work.who].entry]
          /\ Settled
        BY <1>7, <2>1 DEF PublishStart, At, Sees
    <2>4. hand[work.who].entry # 0
        BY <2>2, <2>3 DEF Recorded
    <2>5. /\ start' = [start EXCEPT ![work.cell] = hand[work.who].entry]
          /\ UNCHANGED <<cell, records, anchors, checkpoints, hand>> /\ Go("publish")
        BY <1>7, <2>1 DEF PublishStart, Go
    <2>6. work'.step = "publish" /\ work'.cell = work.cell /\ work'.who = work.who
        BY <2>1, <2>5 DEF Go, TypeOK
    <2>7. start'[work.cell] # 0
        BY <2>2, <2>4, <2>5 DEF TypeOK
    <2> QED BY <2>3, <2>5, <2>6, <2>7 DEF Sees, Settled
<1>8. CASE WriteManifest
    <2>1. work # None /\ work.step = "move" /\ Go("shelved")
        BY <1>8, Gone DEF WriteManifest, At
    <2>2. work'.step = "shelved" /\ work'.cell = work.cell
        BY <2>1 DEF Go, TypeOK
    <2>3. UNCHANGED <<cell, start, records, anchors, checkpoints>>
        BY <1>8 DEF WriteManifest
    <2> QED BY <2>1, <2>2, <2>3 DEF Sees, Settled
<1>9. CASE Prepare \/ MoveAway \/ UNCHANGED vars
    <2>1. UNCHANGED <<work, hand>>
        BY <1>9, Gone DEF Prepare, MoveAway, At, vars
    <2> QED BY <1>1, <1>9, <2>1 DEF Prepare, MoveAway, vars
<1>10. ASSUME NEW r \in Runners, Attempt(r) \/ Die(r) \/ \E op \in Methods : Enter(r, op)
       PROVE  Sees'
    <2>1. work' = work
        BY <1>10 DEF Attempt, Admit, Reject, Launch, Terminalize, Abandon, Turn, Die, Enter
    <2>2. work.who # r
        BY <1>10, <2>1, Elsewhere DEF Die, Enter
    <2>3. hand'[work.who] = hand[work.who]
        BY <1>10, <2>1, <2>2
        DEF Attempt, Admit, Reject, Launch, Terminalize, Abandon, Turn, Die, Enter, TypeOK
    <2>4. UNCHANGED <<cell, seal, records, anchors, checkpoints, start>>
        BY <1>10 DEF Attempt, Admit, Reject, Launch, Terminalize, Abandon, Turn, Die, Enter
    <2> QED BY <2>1, <2>3, <2>4 DEF Sees, Settled
<1> QED BY <1>2, <1>3, <1>4, <1>5, <1>6, <1>7, <1>8, <1>9, <1>10 DEF Next, Method

\* A cell whose attempt was consumed stays so.
LEMMA StaysConsumed ==
    ASSUME TypeOK, DataSteps, NEW c \in Cells, cell[c].state \in {"started", "terminal"}
    PROVE  cell'[c].state \in {"started", "terminal"}
<1> USE DEF TypeOK
<1>1. CASE UNCHANGED cell
    BY <1>1
<1>2. ASSUME NEW d \in Cells, Takes(d) \/ Releases(d)
      PROVE  cell'[c].state \in {"started", "terminal"}
    BY <1>2 DEF Takes, Releases, First, Pending
<1>3. ASSUME NEW d \in Cells, Starts(d) \/ Ends(d)
      PROVE  cell'[c].state \in {"started", "terminal"}
    BY <1>3 DEF Starts, Ends
<1> QED BY <1>1, <1>2, <1>3 DEF DataSteps, Seals, Readies, Publishes, Leaves

\* No runner comes nearer to a model invocation.
Quiet ==
    /\ \A r \in Runners :
         hand'[r] = hand[r] \/ hand'[r] = None \/ hand'[r].stage \notin {"begun", "ran"}
    /\ At("begin", "append")' => work' = work
    /\ UNCHANGED launched

LEMMA KeepLaunches ==
    ASSUME TypeOK, Launches, DataSteps, UNCHANGED launched,
           \A r \in Runners, c \in Cells :
             (BegunBy(r, c)' => BegunBy(r, c)) /\ (RanBy(r, c)' => RanBy(r, c))
    PROVE  Launches'
<1>1. \A c \in Cells : cell[c].state \in {"started", "terminal"} =>
                        cell'[c].state \in {"started", "terminal"}
    BY StaysConsumed
<1> QED BY <1>1 DEF Launches

LEMMA QuietLaunches ==
    ASSUME TypeOK, Launches, DataSteps, Quiet
    PROVE  Launches'
<1>1. \A r \in Runners, c \in Cells : BegunBy(r, c)' => BegunBy(r, c)
    BY DEF Quiet, BegunBy, At
<1>2. \A r \in Runners, c \in Cells : RanBy(r, c)' => RanBy(r, c)
    BY DEF Quiet, RanBy
<1> QED BY <1>1, <1>2, KeepLaunches DEF Quiet

LEMMA ReturnQuiet ==
    ASSUME TypeOK, Shape, work # None, UNCHANGED launched,
           Fail \/ \E h \in Held \cup {None} :
                     Return(h) /\ (h = None \/ h.stage \notin {"begun", "ran"})
    PROVE  Quiet
<1>1. work' = None
    BY Gone
<1>2. PICK h \in Held \cup {None} :
        /\ hand' = [hand EXCEPT ![work.who] = h]
        /\ h = None \/ h.stage \notin {"begun", "ran"}
    <2>1. CASE Fail
        BY <2>1, FailType DEF Stages
    <2>2. CASE ~Fail
        BY <2>2 DEF Return
    <2> QED BY <2>1, <2>2
<1>3. \A r \in Runners : hand'[r] = hand[r] \/ hand'[r] = h
    BY <1>2 DEF TypeOK
<1> QED BY <1>1, <1>2, <1>3 DEF Quiet, At

LEMMA GoQuiet ==
    ASSUME TypeOK, work # None, UNCHANGED launched, NEW step \in Steps, Go(step),
           step = "append" => work.op # "begin"
    PROVE  Quiet
<1>1. work'.step = step /\ work'.op = work.op /\ hand' = hand
    BY DEF Go, TypeOK
<1> QED BY <1>1 DEF Quiet, At

LEMMA LaunchesStep == IInv /\ [Next]_vars => Launches'
<1> SUFFICES ASSUME IInv, [Next]_vars
             PROVE  Launches'
    OBVIOUS
<1> USE DEF IInv, history
<1>1. DataSteps
    BY DataStep
<1>2. CASE Quiet
    BY <1>1, <1>2, QuietLaunches
<1>3. CASE UNCHANGED vars \/ AdvanceAnchor \/ WriteCheckpoint \/ RecordPublished \/ Prepare
    <2>1. Quiet
        BY <1>3 DEF AdvanceAnchor, WriteCheckpoint, RecordPublished, Prepare, vars, Quiet
    <2> QED BY <1>2, <2>1
<1>4. CASE Refuse \/ Raise \/ Resume \/ Check
    <2>1. work # None /\ UNCHANGED launched
        BY <1>4 DEF Refuse, Raise, Fault, Resume, Check, Loaded, At
    <2>2. Fail \/ \E h \in Held \cup {None} :
                    Return(h) /\ (h = None \/ h.stage \notin {"begun", "ran"})
        <3>1. CASE Refuse \/ Raise
            BY <3>1 DEF Refuse, Raise
        <3>2. CASE Resume
            <4>1. \A c \in Cells : Hold(c, "reserved") \in Held /\ Hold(c, "written") \in Held
                BY HoldType DEF Stages
            <4>2. \A c \in Cells :
                    Hold(c, "reserved").stage = "reserved" /\ Hold(c, "written").stage = "written"
                BY DEF Hold
            <4> QED BY <3>2, <4>1, <4>2 DEF Resume, First, Active
        <3>3. CASE Check
            <4>1. hand[work.who] \in Held
                BY <3>3, HandType DEF Check, Loaded, At, Idle, TypeOK
            <4> DEFINE h == [hand[work.who] EXCEPT !.stage = "releasing"]
            <4>2. h \in Held /\ h.stage = "releasing"
                BY <4>1 DEF Stages
            <4> QED BY <3>3, <4>2 DEF Check
        <3> QED BY <1>4, <3>1, <3>2, <3>3
    <2> QED BY <1>2, <2>1, <2>2, ReturnQuiet
<1>5. CASE Initialize \/ Begin \/ PublishStart \/ Release \/ WriteManifest \/ RecordRelease
          \/ Record \/ Seal \/ WriteOutput \/ RecordSeal
    <2>1. work # None /\ UNCHANGED launched
        BY <1>5 DEF Initialize, Begin, PublishStart, Release, WriteManifest, RecordRelease,
                    Record, Seal, WriteOutput, RecordSeal, Loaded, At
    <2>2. \/ Fail \/ Return(None)
          \/ \E step \in Steps : Go(step) /\ (step = "append" => work.op # "begin")
        BY <1>5 DEF Initialize, Begin, PublishStart, Release, WriteManifest, RecordRelease,
                    Record, Seal, WriteOutput, RecordSeal, Loaded, At, Steps
    <2> QED BY <1>2, <2>1, <2>2, GoQuiet, ReturnQuiet
<1>6. CASE Reserve
    <2>1. work # None /\ work.op = "reserve" /\ UNCHANGED launched
        BY <1>6 DEF Reserve, Loaded, At
    <2>2. CASE Fail \/ Return(None)
        BY <1>2, <2>1, <2>2, ReturnQuiet
    <2>3. CASE ~Fail /\ ~Return(None)
        <3>1. PICK c \in First(Pending) :
                work' = [work EXCEPT !.step = "append", !.cell = c] /\ UNCHANGED hand
            BY <1>6, <2>3 DEF Reserve
        <3>2. work'.op = "reserve"
            BY <2>1, <3>1 DEF TypeOK
        <3> QED BY <1>2, <2>1, <3>1, <3>2 DEF Quiet, At
    <2> QED BY <2>2, <2>3
<1>7. CASE MoveAway
    <2>1. work # None /\ UNCHANGED launched /\ (Fail \/ UNCHANGED <<work, hand>>)
        BY <1>7 DEF MoveAway, At
    <2>2. Quiet
        BY <2>1, ReturnQuiet DEF Quiet
    <2> QED BY <1>2, <2>2
<1>8. CASE Appended
    <2>1. work # None /\ work.step = "append" /\ UNCHANGED launched
        BY <1>8 DEF Appended
    <2>2. CASE work.op = "begin"
        <3>1. work.cell = hand[work.who].cell /\ hand[work.who] \in Held
            BY <2>1, <2>2, HandType DEF Shape, Idle, TypeOK
        <3>2. work' = None /\ hand' = [hand EXCEPT ![work.who] = [@ EXCEPT !.stage = "begun"]]
            BY <1>8, <2>2 DEF Appended, Return
        <3>3. \A r \in Runners, c \in Cells : BegunBy(r, c)' => BegunBy(r, c)
            BY <2>1, <2>2, <3>1, <3>2 DEF BegunBy, At, TypeOK
        <3>4. \A r \in Runners, c \in Cells : RanBy(r, c)' => RanBy(r, c)
            BY <3>1, <3>2 DEF RanBy, TypeOK
        <3> QED BY <1>1, <2>1, <3>3, <3>4, KeepLaunches
    <2>3. CASE work.op = "reserve"
        <3>1. work.cell \in Cells /\ Return(Hold(work.cell, "reserved"))
            BY <1>8, <2>1, <2>3 DEF Appended, Shape
        <3>2. Hold(work.cell, "reserved") \in Held /\ Hold(work.cell, "reserved").stage = "reserved"
            BY <3>1, HoldType DEF Hold, Stages
        <3> QED BY <1>2, <2>1, <3>1, <3>2, ReturnQuiet
    <2>4. CASE work.op \notin {"begin", "reserve"}
        <3>1. Return(None) \/ Go("output")
            BY <1>8, <2>4 DEF Appended
        <3> QED BY <1>2, <2>1, <3>1, GoQuiet, ReturnQuiet DEF Steps
    <2> QED BY <2>2, <2>3, <2>4
<1>9. CASE RecordStart
    <2>1. /\ work # None /\ work.op = "begin" /\ work.step = "publish"
          /\ Go("append") /\ UNCHANGED launched
        BY <1>9 DEF RecordStart, At
    <2>2. work.cell \in Cells /\ work.who \in Runners
        BY <2>1, HandType DEF Idle, TypeOK
    <2>3. cell[work.cell].state = "reserved" /\ cell'[work.cell].state = "started"
        BY <1>9, <2>1, <2>2 DEF RecordStart, Append, Sees, TypeOK
    <2>4. /\ launched[work.cell] = 0
          /\ \A r \in Runners : ~BegunBy(r, work.cell)
        BY <2>2, <2>3 DEF Launches, TypeOK
    <2>5. /\ hand' = hand /\ work'.cell = work.cell /\ work'.who = work.who
        BY <2>1 DEF Go, TypeOK
    <2>6. \A r \in Runners, c \in Cells :
            BegunBy(r, c)' => BegunBy(r, c) \/ (r = work.who /\ c = work.cell)
        BY <2>5 DEF BegunBy, At
    <2>7. \A r \in Runners, c \in Cells : RanBy(r, c)' => RanBy(r, c)
        BY <2>5 DEF RanBy
    <2>8. \A c \in Cells : cell[c].state \in {"started", "terminal"} =>
                            cell'[c].state \in {"started", "terminal"}
        BY <1>1, StaysConsumed
    <2> QED BY <2>1, <2>2, <2>3, <2>4, <2>6, <2>7, <2>8 DEF Launches
<1>10. ASSUME NEW r \in Runners, Launch(r)
       PROVE  Launches'
    <2> DEFINE c == hand[r].cell
    <2>1. /\ BegunBy(r, c) /\ c \in Cells /\ hand[r] \in Held
          /\ hand' = [hand EXCEPT ![r].stage = "ran"]
          /\ launched' = [launched EXCEPT ![c] = @ + 1] /\ UNCHANGED <<cell, work>>
        BY <1>10 DEF Launch, Turn, BegunBy, TypeOK, journal
    <2>2. launched[c] = 0 /\ cell[c].state \in {"started", "terminal"}
        BY <2>1 DEF Launches
    <2>3. ~(At("begin", "append") /\ work.who = r)
        BY <1>10, Elsewhere DEF At, Attempt
    <2>4. \A s \in Runners, d \in Cells : BegunBy(s, d)' => BegunBy(s, d) /\ s # r
        BY <2>1, <2>3 DEF BegunBy, At, TypeOK
    <2>5. \A s \in Runners : ~BegunBy(s, c)'
        BY <2>1, <2>4 DEF Launches
    <2>6. \A s \in Runners, d \in Cells : RanBy(s, d)' => RanBy(s, d) \/ d = c
        BY <2>1 DEF RanBy, TypeOK
    <2>7. launched'[c] = 1 /\ \A d \in Cells \ {c} : launched'[d] = launched[d]
        BY <2>1, <2>2 DEF TypeOK
    <2> QED BY <2>1, <2>2, <2>4, <2>5, <2>6, <2>7 DEF Launches
<1>11. ASSUME NEW r \in Runners,
              \/ Admit(r) \/ Reject(r) \/ Terminalize(r) \/ Abandon(r) \/ Die(r)
              \/ \E op \in Methods : Enter(r, op)
       PROVE  Launches'
    <2>1. UNCHANGED launched /\ (work' = work \/ work' = None \/ work'.step = "load")
        BY <1>11 DEF Admit, Reject, Terminalize, Abandon, Turn, Die, Fault, Enter
    <2>2. /\ \A s \in Runners \ {r} : hand'[s] = hand[s]
          /\ hand'[r] = hand[r] \/ hand'[r] = None \/ hand'[r].stage \notin {"begun", "ran"}
        BY <1>11 DEF Admit, Reject, Terminalize, Abandon, Turn, Die, Enter, TypeOK
    <2>3. Quiet
        BY <2>1, <2>2 DEF Quiet, At
    <2> QED BY <1>2, <2>3
<1> QED BY <1>3, <1>4, <1>5, <1>6, <1>7, <1>8, <1>9, <1>10, <1>11 DEF Next, Method, Attempt

-----------------------------------------------------------------------------
(* The theorems.                                                           *)

LEMMA InitInv == Init => IInv
<1> SUFFICES ASSUME Init
             PROVE  IInv
    OBVIOUS
<1>1. TypeOK
    BY DEF Init, TypeOK
<1>2. Chained /\ Recorded
    BY DEF Init, Chained, Recorded, Referenced
<1>3. Shape /\ Sees /\ Launches
    BY DEF Init, Shape, Sees, Launches, BegunBy, RanBy, At
<1> QED BY <1>1, <1>2, <1>3 DEF IInv

THEOREM Invariance == Spec => []IInv
<1>1. IInv /\ [Next]_vars => IInv'
    BY TypeStep, ChainStep, RecordedStep, ShapeStep, SeesStep, LaunchesStep DEF IInv
<1> QED BY <1>1, InitInv, PTL DEF Spec

\* The journal, the receipts and what the runners have in hand keep their types.
THEOREM TypeCorrect == Spec => []TypeOK
<1>1. IInv => TypeOK
    BY DEF IInv
<1> QED BY <1>1, Invariance, PTL

\* The model of a cell is invoked at most once, for any number of runners.
THEOREM InvokedOnce == Spec => []OneInvocation
<1>1. IInv => OneInvocation
    BY DEF IInv, Launches, OneInvocation
<1> QED BY <1>1, Invariance, PTL

\* Whatever was interrupted, the next load accepts or repairs what it finds.
THEOREM Loads == Spec => []AlwaysLoads
<1>1. IInv => AlwaysLoads
    BY DEF IInv, Chained, Recorded, Recoverable, AlwaysLoads
<1> QED BY <1>1, Invariance, PTL

\* Steps of the journal's cells and of the start receipts, in the schedule.
LEMMA Stays ==
    ASSUME UNCHANGED <<cell, start>>
    PROVE  Standing' = Standing
BY DEF Standing, Unrecorded

LEMMA OneCell ==
    ASSUME NEW c \in Cells, NEW s,
           \A d \in Cells \ {c} : cell'[d] = cell[d] /\ start'[d] = start[d],
           Standing'[c] = s
    PROVE  Standing' = [Standing EXCEPT ![c] = s]
BY DEF Standing, Unrecorded

\* A study follows its schedule, for any number of cells and runners and any
\* parallelism.
THEOREM Follows == Spec => ImplementsSchedule
<1>1. Init => Schedule!Init
    BY DEF Init, Schedule!Init, Standing, Sealed, Unrecorded, Schedule!Cells, Cells
<1>2. IInv /\ [Next]_vars => [Schedule!Next]_<<Standing, Sealed>>
    <2> SUFFICES ASSUME IInv, [Next]_vars
                 PROVE  [Schedule!Next]_<<Standing, Sealed>>
        OBVIOUS
    <2> USE DEF receipts
    <2>1. DataSteps /\ TypeOK /\ Recorded
        BY DataStep DEF IInv
    <2>2. CASE UNCHANGED <<cell, seal, receipts, prep>>
        BY <2>2, Stays DEF Sealed
    <2>3. CASE Seals
        <3>1. Standing' = Standing
            BY <2>3, Stays DEF Seals
        <3>2. CASE seal = "open"
            BY <2>3, <3>1, <3>2 DEF Seals, Sealed
        <3>3. CASE seal = "started"
            <4>1. \A c \in Cells : Standing[c] = "terminal"
                BY <2>3 DEF Seals, AllTerminal, Standing, Unrecorded
            <4>2. Sealed = FALSE /\ Sealed' = TRUE
                BY <2>3, <3>3 DEF Seals, Sealed
            <4> QED BY <3>1, <4>1, <4>2
                    DEF Schedule!Next, Schedule!Seal, Schedule!Cells, Cells
        <3> QED BY <2>3, <3>2, <3>3 DEF Seals
    <2>4. ASSUME NEW c \in Cells, Readies(c) \/ Leaves(c)
          PROVE  UNCHANGED <<Standing, Sealed>>
        BY <2>4, Stays DEF Readies, Leaves, Sealed
    <2>5. ASSUME NEW c \in Cells, Takes(c)
          PROVE  Schedule!Reserve(c)
        <3>1. cell[c].state = "pending" /\ start[c] = 0 /\ cell'[c].state = "reserved"
            BY <2>1, <2>5 DEF Takes, First, Pending, Recorded, Referenced, TypeOK
        <3>2. Standing[c] = "pending"
            BY <3>1 DEF Standing, Unrecorded
        <3>3. \A d \in 1 .. c - 1 : Standing[d] # "pending"
            <4>1. \A d \in 1 .. c - 1 : d \in Cells /\ cell[d].state # "pending"
                BY <2>5, StudyAssumption DEF Takes, First, Pending, Cells
            <4> QED BY <4>1 DEF Standing
        <3>4. Schedule!Under = Active
            BY <2>1 DEF Schedule!Under, Schedule!Cells, Active, Standing, Unrecorded, Cells, TypeOK
        <3>5. Standing'[c] = "reserved"
            BY <2>5, <3>1 DEF Standing, Unrecorded, Takes
        <3>6. Standing' = [Standing EXCEPT ![c] = "reserved"]
            BY <2>5, <3>5, OneCell DEF Takes, TypeOK
        <3>7. Cardinality(Schedule!Under) < MaxParallel
            <4>1. IsFiniteSet(Cells)
                BY FS_Interval, StudyAssumption DEF Cells
            <4>2. Cardinality(Active) \in Nat
                BY <4>1, FS_Subset, FS_CardinalityType DEF Active
            <4> QED BY <2>5, <3>4, <4>2, StudyAssumption DEF Takes
        <3>8. Sealed' = Sealed
            BY <2>5 DEF Takes, Sealed
        <3>9. Schedule!Cardinality(Schedule!Under) = Cardinality(Schedule!Under)
            BY Zenon DEF Schedule!Cardinality, Cardinality
        <3> QED BY <3>2, <3>3, <3>6, <3>7, <3>8, <3>9 DEF Schedule!Reserve
    <2>6. ASSUME NEW c \in Cells, Publishes(c)
          PROVE  Schedule!Move(c, "reserved", "consumed")
        <3>1. cell[c].state = "reserved" /\ start[c] = 0 /\ cell' = cell /\ start'[c] # 0
            BY <2>1, <2>6 DEF Publishes, Recorded, TypeOK
        <3>2. Standing[c] = "reserved" /\ Standing'[c] = "consumed"
            BY <3>1 DEF Standing, Unrecorded
        <3>3. Standing' = [Standing EXCEPT ![c] = "consumed"]
            BY <2>1, <2>6, <3>2, OneCell DEF Publishes, TypeOK
        <3> QED BY <2>6, <3>2, <3>3 DEF Publishes, Schedule!Move, Sealed
    <2>7. ASSUME NEW c \in Cells, Starts(c)
          PROVE  UNCHANGED <<Standing, Sealed>>
        <3>1. cell[c].state = "reserved" /\ start[c] # 0 /\ cell'[c].state = "started"
            BY <2>1, <2>7 DEF Starts, TypeOK
        <3>2. Standing[c] = "consumed" /\ Standing'[c] = "consumed"
            BY <3>1 DEF Standing, Unrecorded
        <3>3. Standing' = [Standing EXCEPT ![c] = "consumed"]
            BY <2>1, <2>7, <3>2, OneCell DEF Starts, TypeOK
        <3>4. Standing' = Standing
            BY <3>2, <3>3 DEF Standing
        <3> QED BY <2>7, <3>4 DEF Starts, Sealed
    <2>8. ASSUME NEW c \in Cells, Releases(c)
          PROVE  Schedule!Move(c, "reserved", "pending")
        <3>1. cell[c].state = "reserved" /\ start[c] = 0 /\ cell'[c].state = "pending"
            BY <2>1, <2>8 DEF Releases, TypeOK
        <3>2. Standing[c] = "reserved" /\ Standing'[c] = "pending"
            BY <3>1 DEF Standing, Unrecorded
        <3>3. Standing' = [Standing EXCEPT ![c] = "pending"]
            BY <2>1, <2>8, <3>2, OneCell DEF Releases, TypeOK
        <3> QED BY <2>8, <3>2, <3>3 DEF Releases, Schedule!Move, Sealed
    <2>9. ASSUME NEW c \in Cells, Ends(c)
          PROVE  Schedule!Move(c, "consumed", "terminal")
        <3>1. cell[c].state = "started" /\ cell'[c].state = "terminal"
            BY <2>1, <2>9 DEF Ends, TypeOK
        <3>2. Standing[c] = "consumed" /\ Standing'[c] = "terminal"
            BY <3>1 DEF Standing, Unrecorded
        <3>3. Standing' = [Standing EXCEPT ![c] = "terminal"]
            BY <2>1, <2>9, <3>2, OneCell DEF Ends, TypeOK
        <3> QED BY <2>9, <3>2, <3>3 DEF Ends, Schedule!Move, Sealed
    <2> QED BY <2>1, <2>2, <2>3, <2>4, <2>5, <2>6, <2>7, <2>8, <2>9
            DEF DataSteps, Schedule!Next, Schedule!Cells, Cells
<1> QED BY <1>1, <1>2, Invariance, PTL DEF Spec, ImplementsSchedule, Schedule!Spec

-----------------------------------------------------------------------------
(* What the schedule's promises leave open, for every number of cells.     *)

\* No two maintainer processes take more cells than the ceiling allows
\* (reserve_next counts the active cells under the file lock).
WithinCeiling == Cardinality(Active) <= MaxParallel

LEMMA ActiveFinite == IsFiniteSet(Active) /\ Cardinality(Active) \in Nat
<1>1. IsFiniteSet(Cells)
    BY FS_Interval, StudyAssumption DEF Cells
<1> QED BY <1>1, FS_Subset, FS_CardinalityType DEF Active

LEMMA OneMore ==
    ASSUME NEW S, NEW x, IsFiniteSet(S)
    PROVE  Cardinality(S \cup {x}) \in Nat /\ Cardinality(S \cup {x}) <= Cardinality(S) + 1
<1>1. Cardinality(S) \in Nat
    BY FS_CardinalityType
<1> QED BY <1>1, FS_AddElement

\* Only a reservation adds to the active cells, and it finds room.
LEMMA CeilingStep ==
    ASSUME TypeOK, DataSteps, WithinCeiling
    PROVE  WithinCeiling'
<1> USE DEF TypeOK
<1>1. CASE UNCHANGED cell
    BY <1>1 DEF WithinCeiling, Active
<1>2. ASSUME NEW c \in Cells, Takes(c)
      PROVE  WithinCeiling'
    <2>1. Active' = Active \cup {c}
        BY <1>2 DEF Takes, First, Pending, Active
    <2>2. /\ Cardinality(Active \cup {c}) \in Nat
          /\ Cardinality(Active \cup {c}) <= Cardinality(Active) + 1
        BY ActiveFinite, OneMore
    <2>3. ~(Cardinality(Active) >= MaxParallel)
        BY <1>2 DEF Takes
    <2> QED BY <2>1, <2>2, <2>3, ActiveFinite, StudyAssumption DEF WithinCeiling
<1>3. ASSUME NEW c \in Cells, Starts(c) \/ Releases(c) \/ Ends(c)
      PROVE  WithinCeiling'
    <2>1. Active' \subseteq Active
        BY <1>3 DEF Starts, Releases, Ends, Active
    <2>2. Cardinality(Active') <= Cardinality(Active) /\ Cardinality(Active') \in Nat
        BY <2>1, ActiveFinite, FS_Subset, FS_CardinalityType
    <2> QED BY <2>2, ActiveFinite, StudyAssumption DEF WithinCeiling
<1> QED BY <1>1, <1>2, <1>3 DEF DataSteps, Seals, Readies, Publishes, Leaves

\* At no time are more than MaxParallel cells reserved or started, however the
\* runners die and take over from one another.
THEOREM CeilingHeld == Spec => []WithinCeiling
<1>1. Init => WithinCeiling
    <2> SUFFICES ASSUME Init
                 PROVE  WithinCeiling
        OBVIOUS
    <2>1. Active = {}
        BY DEF Init, Active
    <2> QED BY <2>1, FS_EmptySet, StudyAssumption DEF WithinCeiling
<1>2. IInv /\ WithinCeiling /\ [Next]_vars => WithinCeiling'
    BY DataStep, CeilingStep DEF IInv
<1> QED BY <1>1, <1>2, Invariance, PTL DEF Spec

\* A published start is bound to the reservation it names for good: the cell
\* is never released, reserved again or put back a state, and neither of its
\* receipts is taken back.
StartsBind ==
    [][\A c \in Cells : start[c] # 0 =>
         /\ start'[c] = start[c] /\ cell'[c].entry = start[c]
         /\ cell'[c].state \in {cell[c].state, "started", "terminal"}
         /\ cell[c].state = "terminal" => cell'[c].state = "terminal"
         /\ terminal[c] => terminal'[c]]_vars

THEOREM StartIsIrreversible == Spec => StartsBind
<1>1. IInv /\ [Next]_vars =>
        [\A c \in Cells : start[c] # 0 =>
           /\ start'[c] = start[c] /\ cell'[c].entry = start[c]
           /\ cell'[c].state \in {cell[c].state, "started", "terminal"}
           /\ cell[c].state = "terminal" => cell'[c].state = "terminal"
           /\ terminal[c] => terminal'[c]]_vars
    <2> SUFFICES ASSUME IInv, [Next]_vars, NEW c \in Cells, start[c] # 0
                 PROVE  /\ start'[c] = start[c] /\ cell'[c].entry = start[c]
                        /\ cell'[c].state \in {cell[c].state, "started", "terminal"}
                        /\ cell[c].state = "terminal" => cell'[c].state = "terminal"
                        /\ terminal[c] => terminal'[c]
        OBVIOUS
    <2> USE DEF IInv, TypeOK, receipts
    <2>1. DataSteps
        BY DataStep
    <2>2. cell[c].entry = start[c] /\ cell[c].state # "pending"
        BY DEF Recorded, Referenced
    <2>3. CASE UNCHANGED <<cell, receipts>> \/ Seals
        BY <2>2, <2>3 DEF Seals
    <2>4. ASSUME NEW d \in Cells, Takes(d) \/ Releases(d)
          PROVE  UNCHANGED receipts /\ cell'[c] = cell[c]
        BY <2>2, <2>4 DEF Takes, Releases, First, Pending
    <2>5. ASSUME NEW d \in Cells, Starts(d) \/ Ends(d)
          PROVE  /\ UNCHANGED receipts /\ cell'[c].entry = cell[c].entry
                 /\ cell'[c].state \in {cell[c].state, "started", "terminal"}
                 /\ cell[c].state = "terminal" => cell'[c].state = "terminal"
        BY <2>5 DEF Starts, Ends
    <2>6. ASSUME NEW d \in Cells, Readies(d) \/ Publishes(d) \/ Leaves(d)
          PROVE  cell' = cell /\ start'[c] = start[c] /\ (terminal[c] => terminal'[c])
        BY <2>6 DEF Readies, Publishes, Leaves
    <2> QED BY <2>1, <2>2, <2>3, <2>4, <2>5, <2>6 DEF DataSteps
<1> QED BY <1>1, Invariance, PTL DEF Spec, StartsBind

-----------------------------------------------------------------------------
\* The sealed set is written when every cell of the schedule has its receipts,
\* and the journal says it is sealed only when it was written.
SealedIsComplete ==
    /\ output => \A c \in Cells : start[c] # 0 /\ terminal[c]
    /\ seal = "sealed" => output

\* The set is written between the two records of the seal.
Sealing ==
    /\ output => seal # "open"
    /\ seal = "sealed" => output
    /\ work # None /\ work.step = "sealing" => output

LEMMA SealingStep ==
    ASSUME IInv, Sealing, [Next]_vars
    PROVE  Sealing'
<1> USE DEF IInv, Sealing, journal, files
<1>1. CASE WriteOutput
    <2>1. seal = "started" /\ output' = TRUE /\ seal' = seal
        BY <1>1 DEF WriteOutput, At, Sees
    <2> QED BY <2>1
<1>2. CASE Seal \/ RecordSeal
    <2>1. work # None
        BY <1>2 DEF Seal, RecordSeal, Loaded, At
    <2>2. work' # None => work'.step \in {"output", "append"}
        <3>1. ~Fail /\ ~Return(None) => Go("output") \/ Go("append")
            BY <1>2 DEF Seal, RecordSeal
        <3>2. Fail \/ Return(None) => work' = None
            BY <2>1, Gone DEF Return
        <3> QED BY <2>1, <3>1, <3>2 DEF Go, TypeOK
    <2>3. CASE Seal
        BY <2>2, <2>3 DEF Seal
    <2>4. CASE RecordSeal
        BY <2>2, <2>4 DEF RecordSeal, At
    <2> QED BY <1>2, <2>3, <2>4
<1>3. CASE ~(WriteOutput \/ Seal \/ RecordSeal)
    <2>1. UNCHANGED <<seal, output>>
        <3>1. CASE Method
            BY <1>3, <3>1
            DEF Method, Initialize, Reserve, Record, RecordPublished, RecordStart, Append,
                RecordRelease, Refuse, AdvanceAnchor, WriteCheckpoint, Appended, Resume,
                Begin, Prepare, PublishStart, Check, Release, MoveAway, WriteManifest
        <3>2. CASE Raise \/ UNCHANGED vars
            BY <3>2 DEF Raise, vars
        <3>3. ASSUME NEW r \in Runners,
                     Attempt(r) \/ Die(r) \/ \E op \in Methods : Enter(r, op)
              PROVE  UNCHANGED <<seal, output>>
            BY <3>3 DEF Attempt, Admit, Reject, Launch, Terminalize, Abandon, Turn, Die, Enter
        <3> QED BY <3>1, <3>2, <3>3 DEF Next
    <2>2. work' # None /\ work'.step = "sealing" => work # None /\ work.step = "sealing"
        <3>1. CASE UNCHANGED work
            BY <3>1
        <3>2. CASE work # None /\ \E step \in Steps \ {"sealing"} : Go(step)
            BY <3>2 DEF Go, TypeOK
        <3>3. CASE work # None /\ (Fail \/ \E h : Return(h))
            BY <3>3, FailType DEF Return
        <3>4. CASE Reserve /\ ~UNCHANGED work
            <4>1. Fail \/ Return(None) \/ \E c \in Cells : work' = [work EXCEPT !.step = "append", !.cell = c]
                BY <3>4 DEF Reserve, First, Pending
            <4> QED BY <3>3, <3>4, <4>1 DEF Reserve, Loaded, At, TypeOK
        <3>5. CASE Method /\ ~Reserve
            BY <1>3, <3>1, <3>2, <3>3, <3>5
            DEF Method, Initialize, Record, RecordPublished, RecordStart, At, Loaded,
                RecordRelease, Refuse, AdvanceAnchor, WriteCheckpoint, Appended, Resume,
                Begin, Prepare, PublishStart, Check, Release, MoveAway, WriteManifest, Steps
        <3>6. CASE Raise \/ UNCHANGED vars
            BY <3>1, <3>3, <3>6 DEF Raise, vars
        <3>7. ASSUME NEW r \in Runners,
                     Attempt(r) \/ Die(r) \/ \E op \in Methods : Enter(r, op)
              PROVE  work' = work \/ work' = None \/ work'.step = "load"
            BY <3>7 DEF Attempt, Admit, Reject, Launch, Terminalize, Abandon, Turn, Die, Enter
        <3> QED BY <3>1, <3>4, <3>5, <3>6, <3>7 DEF Next
    <2> QED BY <2>1, <2>2
<1> QED BY <1>1, <1>2, <1>3

\* What a study publishes as its result is complete.
THEOREM ResultIsComplete == Spec => []SealedIsComplete
<1>1. Init => Sealing
    BY DEF Init, Sealing
<1>2. IInv /\ Sealing /\ [Next]_vars => Sealing'
    BY SealingStep
<1>3. IInv /\ Sealing => SealedIsComplete
    BY DEF IInv, Sealing, Recorded, Referenced, AllTerminal, SealedIsComplete, TypeOK
<1> QED BY <1>1, <1>2, <1>3, Invariance, PTL DEF Spec

-----------------------------------------------------------------------------
(* A method never goes on forever, so the file lock it runs under is let   *)
(* go: what it has left to do, at most, counted in its steps.              *)

\* Writes until everything the journal says is anchored and checkpointed.
ChainLeft == 2 * (records + 1 - anchors) + (anchors - checkpoints)

Files(c) ==
    (IF "ledger" \in prep[c] THEN 1 ELSE 0) + (IF "anchor" \in prep[c] THEN 1 ELSE 0)

Left ==
    IF work = None THEN 0
    ELSE CASE work.step = "load" -> 20 + 3 * Cardinality(Unrecorded) + ChainLeft
           [] work.step = "prepare" -> 14 - Files(work.cell)
           [] work.step = "publish" -> 10
           [] work.step = "move" -> 12 + Files(work.cell)
           [] work.step = "shelved" -> 10
           [] work.step = "output" -> 12
           [] work.step = "sealing" -> 11
           [] work.step = "append" ->
                ChainLeft + (IF work.op = "seal" /\ seal = "started" THEN 14 ELSE 1)

\* While a method is under way, each of its own steps and an error bring its
\* end nearer, and nothing that others do takes it further away.
MethodsEnd ==
    [][work # None => /\ Left' <= Left
                      /\ Method \/ Raise => Left' < Left]_vars

LEMMA UnrecordedFinite == IsFiniteSet(Unrecorded) /\ Cardinality(Unrecorded) \in Nat
<1>1. IsFiniteSet(Cells)
    BY FS_Interval, StudyAssumption DEF Cells
<1> QED BY <1>1, FS_Subset, FS_CardinalityType DEF Unrecorded

LEMMA FilesType == \A c : Files(c) \in 0 .. 2
BY DEF Files

\* The counts are of a bounded range, and something is left to do while a
\* method is under way.
LEMMA Counts ==
    IInv => /\ ChainLeft \in 0 .. 3
            /\ Settled => ChainLeft = 0
            /\ Left \in Nat
            /\ work # None => Left >= 1
            /\ work # None /\ work.step = "load" => Left >= 20
            /\ work # None /\ work.step \in {"prepare", "move", "output", "append"} => Left <= 17
<1> SUFFICES ASSUME TypeOK, Chained
             PROVE  /\ ChainLeft \in 0 .. 3
                    /\ Settled => ChainLeft = 0
                    /\ Left \in Nat
                    /\ work # None => Left >= 1
                    /\ work # None /\ work.step = "load" => Left >= 20
                    /\ work # None /\ work.step \in {"prepare", "move", "output", "append"} => Left <= 17
    BY DEF IInv
<1>1. ChainLeft \in 0 .. 3 /\ (Settled => ChainLeft = 0)
    BY DEF TypeOK, Chained, ChainLeft, Settled
<1>2. work # None => work.step \in Steps
    BY DEF TypeOK
<1>3. Files(work.cell) \in 0 .. 2
    BY FilesType
<1>4. work = None => Left = 0
    BY DEF Left
<1>5. work # None /\ work.step = "load" => Left \in Nat /\ Left >= 20
    BY <1>1, UnrecordedFinite DEF Left
<1>6. work # None /\ work.step = "append" => Left \in 1 .. 17
    BY <1>1 DEF Left
<1>7. work # None /\ work.step \in {"prepare", "move"} => Left \in 1 .. 17
    BY <1>3 DEF Left
<1>8. work # None /\ work.step \in {"publish", "shelved", "output", "sealing"} => Left \in 1 .. 17
    BY DEF Left
<1> QED BY <1>1, <1>2, <1>4, <1>5, <1>6, <1>7, <1>8 DEF Steps

LEMMA CountsNext ==
    IInv' => /\ (ChainLeft \in 0 .. 3)'
             /\ (Left \in Nat)'
             /\ (work # None /\ work.step \in {"prepare", "move", "output", "append"} => Left <= 17)'
BY Counts, PTL

\* The next step of an orderly method is of a lower count.
LEMMA LeftGo ==
    ASSUME TypeOK, work # None, NEW step \in Steps, Go(step)
    PROVE  /\ work' # None /\ work'.step = step /\ work'.op = work.op
           /\ work'.cell = work.cell
BY NoneAssumption DEF TypeOK, Go

LEMMA MethodLeft ==
    ASSUME IInv, IInv', Method, work # None
    PROVE  Left' < Left
<1> USE DEF IInv, journal, chain, receipts, files
<1>1. Left \in Nat /\ Left >= 1 /\ (work.step = "load" => Left >= 20)
    BY Counts
<1> DEFINE own == {"prepare", "move", "output", "append"}
<1>13. /\ ChainLeft' \in 0 .. 3 /\ Left' \in Nat
       /\ work' # None /\ work'.step \in own => Left' <= 17
    BY CountsNext
<1> HIDE DEF own
<1>14. PICK n \in 0 .. 3 : ChainLeft' = n
    BY <1>13
<1>2. CASE work' = None
    <2>1. Left' = 0
        BY <1>2 DEF Left
    <2> QED BY <1>1, <2>1
<1> HIDE DEF IInv
<1>3. CASE Refuse \/ Resume \/ Check
    <2>1. Fail \/ \E h \in Held \cup {None} : Return(h)
        <3>1. CASE Refuse
            BY <3>1 DEF Refuse
        <3>2. CASE Resume
            BY <3>2, HoldType DEF Resume, First, Active, Stages, IInv
        <3>3. CASE Check
            BY <3>3, HandType DEF Check, Loaded, At, Idle, Stages, IInv
        <3> QED BY <1>3, <3>1, <3>2, <3>3
    <2> QED BY <1>2, <2>1, Gone DEF IInv
<1>4. CASE AdvanceAnchor \/ WriteCheckpoint
    <2>1. ChainLeft' = ChainLeft - 1 /\ ChainLeft \in Nat
        <3>1. records \in Nat /\ anchors \in Nat /\ checkpoints \in Nat /\ Chained
            BY DEF IInv, TypeOK
        <3>2. records' = records
            BY <1>4 DEF AdvanceAnchor, WriteCheckpoint
        <3>3. CASE AdvanceAnchor
            <4>1. checkpoints = anchors /\ anchors' = anchors + 1 /\ checkpoints' = checkpoints
                BY <3>3 DEF AdvanceAnchor
            <4>2. anchors <= records
                BY <3>3 DEF AdvanceAnchor
            <4> QED BY <3>1, <3>2, <4>1, <4>2 DEF ChainLeft, Chained
        <3>4. CASE WriteCheckpoint
            <4>1. checkpoints < anchors /\ anchors' = anchors /\ checkpoints' = anchors
                BY <3>4 DEF WriteCheckpoint
            <4> QED BY <3>1, <3>2, <4>1 DEF ChainLeft, Chained
        <3> QED BY <1>4, <3>3, <3>4
    <2>2. UNCHANGED <<work, cell, seal, start>> /\ work.step \in {"load", "append"}
        BY <1>4 DEF AdvanceAnchor, WriteCheckpoint, MayWrite
    <2>3. Unrecorded' = Unrecorded
        BY <2>2 DEF Unrecorded
    <2> QED BY <2>1, <2>2, <2>3, UnrecordedFinite DEF Left
<1>5. CASE RecordPublished
    <2>1. PICK c \in Unrecorded : Append(c, "started")
        BY <1>5 DEF RecordPublished, First
    <2>2. ChainLeft = 0 /\ ChainLeft' = 2
        BY <1>5, <2>1 DEF RecordPublished, Append, ChainLeft, Settled, IInv, TypeOK
    <2>3. Unrecorded' = Unrecorded \ {c}
        BY <1>5, <2>1 DEF RecordPublished, Append, Unrecorded, IInv, TypeOK
    <2>4. Cardinality(Unrecorded \ {c}) = Cardinality(Unrecorded) - 1
        BY <2>1, UnrecordedFinite, FS_RemoveElement
    <2>5. UNCHANGED work /\ work.step = "load"
        BY <1>5 DEF RecordPublished
    <2> QED BY <2>2, <2>3, <2>4, <2>5, UnrecordedFinite DEF Left
<1>6. CASE Appended
    <2>1. CASE work.op = "seal" /\ seal = "started"
        <3>1. Go("output") /\ Settled /\ work.step = "append"
            BY <1>6, <2>1 DEF Appended
        <3>2. ChainLeft = 0
            BY <3>1, Counts
        <3>3. Left = 14
            BY <2>1, <3>1, <3>2 DEF Left
        <3> QED BY <3>1, <3>3, LeftGo DEF Left, IInv, Steps
    <2>2. CASE ~(work.op = "seal" /\ seal = "started")
        <3>1. \E h : Return(h)
            BY <1>6, <2>2 DEF Appended
        <3> QED BY <1>2, <3>1 DEF Return
    <2> QED BY <2>1, <2>2
<1>7. CASE Initialize \/ Reserve \/ Begin \/ Release \/ Record \/ Seal
    <2>1. work.step = "load"
        BY <1>7 DEF Initialize, Reserve, Begin, Release, Record, Seal, Loaded, At
    <2>2. CASE Fail \/ Return(None)
        BY <1>2, <2>2, Gone DEF IInv
    <2>3. CASE ~(Fail \/ Return(None))
        <3>1. work' # None /\ work'.step \in own
            <4>1. CASE Reserve
                <5>1. PICK c \in Cells : work' = [work EXCEPT !.step = "append", !.cell = c]
                    BY <2>3, <4>1 DEF Reserve, First, Pending
                <5>2. work \in Underway
                    BY DEF IInv, TypeOK
                <5>3. work' \in Underway /\ work'.step = "append"
                    BY <5>1, <5>2 DEF Steps
                <5> QED BY <5>3, NoneAssumption DEF own
            <4>2. CASE \E step \in {"prepare", "move", "output", "append"} : Go(step)
                BY <4>2, LeftGo DEF IInv, Steps, own
            <4> QED BY <1>7, <2>3, <4>1, <4>2
                    DEF Initialize, Begin, Release, Record, Seal
        <3> QED BY <1>1, <1>13, <2>1, <3>1
    <2> QED BY <2>2, <2>3
<1>8. CASE Prepare \/ MoveAway
    <2>1. work.op \notin Idle
        BY <1>8 DEF Prepare, MoveAway, At, Idle
    <2>2. work.cell \in Cells
        BY <2>1, HandType DEF IInv
    <2>3. prep[work.cell] \in SUBSET Prepared
        BY <2>2 DEF IInv, TypeOK
    <2>4. CASE Prepare
        <3>1. Files(work.cell)' = Files(work.cell) + 1
            BY <2>2, <2>3, <2>4 DEF Prepare, Files, Prepared, IInv, TypeOK
        <3> QED BY <2>4, <3>1, FilesType DEF Prepare, At, Left
    <2>5. CASE MoveAway /\ work' # None
        <3>1. ~Fail
            BY <2>5, Gone DEF IInv
        <3>2. Files(work.cell)' = Files(work.cell) - 1 /\ UNCHANGED work
            BY <2>2, <2>3, <2>5, <3>1 DEF MoveAway, Files, Prepared, IInv, TypeOK
        <3> QED BY <2>5, <3>2, FilesType DEF MoveAway, At, Left
    <2> QED BY <1>2, <1>8, <2>4, <2>5
<1>9. CASE PublishStart \/ WriteManifest
    <2>1. CASE Fail
        BY <1>2, <2>1, Gone DEF IInv
    <2>2. CASE ~Fail
        <3>1. Left >= 12
            BY <1>9, FilesType DEF PublishStart, WriteManifest, At, Left
        <3>2. Go("publish") \/ Go("shelved")
            BY <1>9, <2>2 DEF PublishStart, WriteManifest
        <3>3. Left' = 10
            BY <3>2, LeftGo DEF Left, IInv, Steps
        <3> QED BY <1>1, <3>1, <3>3
    <2> QED BY <2>1, <2>2
<1>10. CASE RecordStart \/ RecordRelease
    <2>1. work.step \in {"publish", "shelved"} /\ Left = 10 /\ work.op \in {"begin", "release"}
        BY <1>10 DEF RecordStart, RecordRelease, At, Left
    <2>2. Go("append")
        BY <1>10 DEF RecordStart, RecordRelease
    <2>3. Left' = n + 1
        BY <1>14, <2>1, <2>2, LeftGo DEF Left, IInv, Steps
    <2> QED BY <2>1, <2>3
<1>11. CASE WriteOutput
    BY <1>11, LeftGo DEF WriteOutput, At, Left, IInv, Steps
<1>12. CASE RecordSeal
    <2>1. Left = 11 /\ seal' = "sealed" /\ Go("append")
        BY <1>12 DEF RecordSeal, At, Left
    <2>2. Left' = n + 1
        BY <1>14, <2>1, LeftGo DEF Left, IInv, Steps
    <2> QED BY <2>1, <2>2
<1> QED BY <1>3, <1>4, <1>5, <1>6, <1>7, <1>8, <1>9, <1>10, <1>11, <1>12 DEF Method

\* Every method ends, whatever it finds: it holds the lock for a bounded number
\* of steps, and the next runner gets its turn.
THEOREM MethodTerminates == Spec => MethodsEnd
<1>1. IInv /\ IInv' /\ [Next]_vars =>
        [work # None => /\ Left' <= Left
                        /\ Method \/ Raise => Left' < Left]_vars
    <2> SUFFICES ASSUME IInv, IInv', [Next]_vars, work # None
                 PROVE  /\ Left' <= Left
                        /\ (Method \/ Raise) /\ ~UNCHANGED vars => Left' < Left
        OBVIOUS
    <2>1. Left \in Nat /\ Left >= 1 /\ Left' \in Nat
        BY Counts, CountsNext
    <2>2. CASE Method
        BY <2>1, <2>2, MethodLeft
    <2>3. CASE work' = None
        <3>1. Left' = 0
            BY <2>3 DEF Left
        <3> QED BY <2>1, <3>1
    <2>4. CASE Raise
        BY <2>3, <2>4, Gone DEF Raise, IInv
    <2>5. ASSUME NEW r \in Runners, ~Method, ~Raise,
                 Attempt(r) \/ Die(r) \/ \E op \in Methods : Enter(r, op)
          PROVE  work' = None \/ Left' = Left
        <3>1. \/ work' = None
              \/ UNCHANGED <<work, cell, seal, start, records, anchors, checkpoints, prep>>
            BY <2>5 DEF Attempt, Admit, Reject, Launch, Terminalize, Abandon, Turn, Die, Enter,
                        journal, chain, receipts, files
        <3>2. CASE UNCHANGED <<work, cell, seal, start, records, anchors, checkpoints, prep>>
            <4>1. Unrecorded' = Unrecorded /\ ChainLeft' = ChainLeft
                BY <3>2 DEF Unrecorded, ChainLeft
            <4>2. Files(work.cell)' = Files(work.cell)
                BY <3>2 DEF Files
            <4> QED BY <3>2, <4>1, <4>2 DEF Left
        <3> QED BY <3>1, <3>2
    <2>6. CASE UNCHANGED vars
        <3>1. Left' = Left
            BY <2>6 DEF vars, journal, chain, receipts, files, Left, ChainLeft, Files, Unrecorded
        <3> QED BY <2>1, <2>6, <3>1
    <2> QED BY <2>1, <2>2, <2>3, <2>4, <2>5, <2>6 DEF Next
<1> QED BY <1>1, Invariance, PTL DEF Spec, MethodsEnd
=============================================================================
