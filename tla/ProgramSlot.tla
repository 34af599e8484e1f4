---------------------------- MODULE ProgramSlot ----------------------------
(***************************************************************************)
(* The programs of one repository, the two references they share           *)
(* (active.json and latest.json), and the calls that start, end and look   *)
(* them up.  ProgramService takes the lock for the whole of a call, so     *)
(* calls do not interleave; but a call makes several file writes and may   *)
(* die between any two of them, with the lock held.  A commit is one step, *)
(* because the transaction is the one LoopStore refines to DurableLoop: it *)
(* happens when pending.json is in place.                                  *)
(***************************************************************************)
EXTENDS Naturals, FiniteSets

CONSTANTS
    MaxPrograms,   \* bound: programs this repository ever stores
    MaxOperations, \* MAX_OPERATIONS, of one program
    OpIds,         \* operation ids that callers make up
    Inputs,        \* what the digest of a start's payload tells apart
    None,          \* no program, no record
    Faults         \* a subset of {"crash", "io"}

Programs == 1 .. MaxPrograms   \* in the order of their createdAt

ASSUME BoundAssumption == MaxPrograms \in Nat /\ MaxOperations \in Nat \ {0}
ASSUME FaultsAssumption == Faults \subseteq {"crash", "io"}

VARIABLES
    dir,    \* each program's directory: its status, or "empty" before one is committed
    ops,    \* the operations its snapshot records, by operation id
    active, \* active.json
    latest, \* latest.json
    lock,   \* the lock directory; "bare" is one without an owner.json
    work,   \* the call that has it
    told    \* history: the program each start was answered with

vars == <<dir, ops, active, latest, lock, work, told>>

Terminal == {"completed", "cancelled"}
Loadable == Terminal \cup {"running"}
Ends == {"cancel", "finalize"}
Digests == ({"start"} \X Inputs) \cup ((Ends \cup {"change"}) \X {None})

Call == [action : Ends \cup {"start", "status", "change", "reclaim"}, id : OpIds \cup {None}, input : Inputs \cup {None},
         program : Programs \cup {None},  \* the program it is about
         result : Programs \cup {None},   \* what it returns; None is an error
         step : {"owner", "active", "latest", "restore", "scan", "commit",
                 "activate", "publish", "load", "release", "unlink", "rmdir"}]

ASSUME NoneAssumption == None \notin Programs \cup Call \cup Digests \cup OpIds

\* The operation ids a program's snapshot records.
Recorded(p) == {o \in OpIds : ops[p][o] # None}

TypeOK ==
    /\ dir \in [Programs -> Loadable \cup {"absent", "empty"}]
    /\ ops \in [Programs -> [OpIds -> Digests \cup {None}]]
    /\ active \in Programs \cup {None}
    /\ latest \in Programs \cup {None}
    /\ lock \in {"free", "bare", "owned", "dead"}
    /\ work \in Call \cup {None}
    /\ told \in [OpIds -> Programs \cup {None}]
    /\ \A p \in Programs : Cardinality(Recorded(p)) <= MaxOperations

Init ==
    /\ dir = [p \in Programs |-> "absent"]
    /\ ops = [p \in Programs |-> [o \in OpIds |-> None]]
    /\ active = None
    /\ latest = None
    /\ lock = "free"
    /\ work = None
    /\ told = [o \in OpIds |-> None]

Stored == {p \in Programs : dir[p] # "absent"}
RunningPrograms == {p \in Programs : dir[p] = "running"}
IsNewest(p, S) == p \in S /\ \A q \in S : q <= p

At(step) == work # None /\ work.step = step
Go(step) == work' = [work EXCEPT !.step = step]

\* The call leaves the with block, with an answer or with an exception.
Answer(p) == work' = [work EXCEPT !.step = "unlink", !.result = p]
Fail == Answer(None)

-----------------------------------------------------------------------------
\* Bound: no start that would need one more program.
Room == Stored # Programs

\* _DirectoryLock

Enter(action, o, i, p) ==
    /\ work = None
    /\ action = "start" => Room \/ \E q \in Stored : ops[q][o] # None
    /\ lock = "free"
    /\ lock' = "bare"
    /\ work' = [action |-> action, id |-> o, input |-> i, program |-> p,
                result |-> None, step |-> "owner"]
    /\ UNCHANGED <<dir, ops, active, latest, told>>

WriteOwner ==
    /\ At("owner")
    /\ lock' = "owned"
    /\ Go(IF work.action \in {"start", "status"} /\ work.program = None
          THEN "active" ELSE "load")
    /\ UNCHANGED <<dir, ops, active, latest, told>>

\* The exception leaves __enter__, so __exit__ never runs.
OwnerFails ==
    /\ "io" \in Faults
    /\ At("owner")
    /\ work' = None
    /\ UNCHANGED <<dir, ops, active, latest, lock, told>>

UnlinkOwner ==
    /\ At("unlink")
    /\ lock' = "bare"
    /\ Go("rmdir")
    /\ UNCHANGED <<dir, ops, active, latest, told>>

\* The caller has its answer.
Return ==
    /\ work' = None
    /\ told' = IF work.action = "start" /\ work.result # None
               THEN [told EXCEPT ![work.id] = work.result] ELSE told
    /\ UNCHANGED <<dir, ops, active, latest>>

RemoveLock ==
    /\ At("rmdir")
    /\ lock' = "free"
    /\ Return

\* __exit__ ignores an error: what it did not remove stays, an owner.json
\* until its process is gone.
ExitFails ==
    /\ "io" \in Faults
    /\ At("unlink") \/ At("rmdir")
    /\ lock' = IF At("unlink") THEN "dead" ELSE "bare"
    /\ Return

\* The owner is dead and its lock older than LOCK_STALE_SECONDS.
Reclaim ==
    /\ work = None
    /\ lock = "dead"
    /\ lock' = "bare"
    /\ work' = [action |-> "reclaim", id |-> None, input |-> None, program |-> None,
                result |-> None, step |-> "rmdir"]
    /\ UNCHANGED <<dir, ops, active, latest, told>>

-----------------------------------------------------------------------------
\* Finding the program a call is about

\* Mutant of Same: any use of the id by the same action is the same call.
SameAction(p) == ops[p][work.id] # None /\ ops[p][work.id][1] = work.action

Same(p) == ops[p][work.id] = <<work.action, work.input>>

\* _idempotent_replay, where the id has a record: the outcome or an error.
Replay(p) == IF Same(p) THEN Answer(p) ELSE Fail

\* A call without a program id meets the running program p.
Found(p) ==
    IF work.action = "status" THEN Answer(p)
    ELSE IF ops[p][work.id] # None THEN Replay(p) ELSE Fail

\* The reference _active_program returns without looking further.
Current == active # None /\ dir[active] = "running"

\* Mutant of ReadActive: without active.json there is no active program.
ReadActiveOnly ==
    /\ At("active")
    /\ IF active # None /\ dir[active] \notin Loadable
       THEN Fail /\ UNCHANGED active
       ELSE IF Current
       THEN Found(active) /\ UNCHANGED active
       ELSE Go(IF work.action = "start" THEN "scan" ELSE "latest") /\ active' = None
    /\ UNCHANGED <<dir, ops, latest, lock, told>>

ReadActive ==
    /\ At("active")
    /\ IF active # None /\ dir[active] \notin Loadable
       THEN Fail /\ UNCHANGED active
       ELSE IF Current
       THEN Found(active) /\ UNCHANGED active
       ELSE Go("latest") /\ active' = None
    /\ UNCHANGED <<dir, ops, latest, lock, told>>

\* _recover_references loads every stored program before it writes.
Unrecoverable ==
    \/ \E p \in Stored : dir[p] \notin Loadable
    \/ Cardinality(RunningPrograms) > 1

\* Mutant of RecoverLatest: a latest.json that is there is left alone.
RecoverLatestIfMissing ==
    /\ At("latest")
    /\ IF Unrecoverable
       THEN Fail /\ UNCHANGED latest
       ELSE /\ IF latest # None \/ Stored = {} THEN UNCHANGED latest
               ELSE latest' \in {p \in Stored : IsNewest(p, Stored)}
            /\ IF RunningPrograms # {} THEN Go("restore")
               ELSE IF work.action = "start" THEN Go("scan")
               ELSE Answer(latest')
    /\ UNCHANGED <<dir, ops, active, lock, told>>

RecoverLatest ==
    /\ At("latest")
    /\ IF Unrecoverable
       THEN Fail /\ UNCHANGED latest
       ELSE /\ IF Stored = {} THEN UNCHANGED latest
               ELSE latest' \in {p \in Stored : IsNewest(p, Stored)}
            /\ IF RunningPrograms # {} THEN Go("restore")
               ELSE IF work.action = "start" THEN Go("scan")
               ELSE Answer(latest')
    /\ UNCHANGED <<dir, ops, active, lock, told>>

RestoreActive ==
    /\ At("restore")
    /\ active' \in RunningPrograms
    /\ Found(active')
    /\ UNCHANGED <<dir, ops, latest, lock, told>>

-----------------------------------------------------------------------------
\* start

\* Mutant of UsedIn: only the newest program is searched.
UsedInNewest == {p \in Stored : IsNewest(p, Stored) /\ ops[p][work.id] # None}

\* The programs in which the call's operation id was used before.
UsedIn == {p \in Stored : ops[p][work.id] # None}

\* Mutant of Scan: the new program is made the active one before its first commit.
ScanActivating ==
    /\ At("scan")
    /\ IF UsedIn # {}
       THEN (\E p \in UsedIn : IsNewest(p, UsedIn) /\ Replay(p)) /\ UNCHANGED <<dir, active>>
       ELSE \E p \in Programs :
              /\ Stored = 1 .. p - 1
              /\ dir' = [dir EXCEPT ![p] = "empty"]
              /\ active' = p
              /\ work' = [work EXCEPT !.program = p, !.step = "commit"]
    /\ UNCHANGED <<ops, latest, lock, told>>

Scan ==
    /\ At("scan")
    /\ IF UsedIn # {}
       THEN (\E p \in UsedIn : IsNewest(p, UsedIn) /\ Replay(p)) /\ UNCHANGED dir
       ELSE \E p \in Programs :   \* none left is the bound MaxPrograms
              /\ Stored = 1 .. p - 1
              /\ dir' = [dir EXCEPT ![p] = "empty"]
              /\ work' = [work EXCEPT !.program = p, !.step = "commit"]
    /\ UNCHANGED <<ops, active, latest, lock, told>>

\* The status a call gives its program.
Outcome ==
    CASE work.action = "start" -> "running"
      [] work.action = "cancel" -> "cancelled"
      [] work.action = "finalize" -> "completed"
      [] OTHER -> dir[work.program]

\* Mutant of Record: a program that ends keeps no record of earlier calls.
RecordAndTrim ==
    LET kept == IF Outcome \in Terminal THEN [o \in OpIds |-> None] ELSE ops[work.program]
    IN  /\ dir' = [dir EXCEPT ![work.program] = Outcome]
        /\ ops' = [ops EXCEPT ![work.program] =
                     [kept EXCEPT ![work.id] = <<work.action, work.input>>]]

Record ==
    /\ dir' = [dir EXCEPT ![work.program] = Outcome]
    /\ ops' = [ops EXCEPT ![work.program][work.id] = <<work.action, work.input>>]

\* What follows the commit of the call.
Commit ==
    /\ At("commit")
    /\ Record
    /\ IF work.action = "start" THEN Go("activate")
       ELSE IF dir[work.program] = "running" /\ Outcome \in Terminal THEN Go("release")
       ELSE Answer(work.program)
    /\ UNCHANGED <<active, latest, lock, told>>

\* A commit that raises once pending.json is in place: done, and reported as failed.
CommitRaises ==
    /\ "io" \in Faults
    /\ At("commit")
    /\ Record
    /\ Fail
    /\ UNCHANGED <<active, latest, lock, told>>

SetActive ==
    /\ At("activate")
    /\ active' = work.program
    /\ Go("publish")
    /\ UNCHANGED <<dir, ops, latest, lock, told>>

SetLatest ==
    /\ At("publish")
    /\ latest' = work.program
    /\ Answer(work.program)
    /\ UNCHANGED <<dir, ops, active, lock, told>>

-----------------------------------------------------------------------------
\* Calls that name their program: status, cancel, finalize and the changes of
\* ProgramPhases, taken together.

\* Mutant of Permitted: one record too many.
PermittedAtLimit ==
    /\ \/ dir[work.program] = "running"
       \/ dir[work.program] = "completed" /\ work.action = "finalize"
    /\ Cardinality(Recorded(work.program)) <= MaxOperations

Permitted ==
    /\ \/ dir[work.program] = "running"
       \/ dir[work.program] = "completed" /\ work.action = "finalize"
    /\ Cardinality(Recorded(work.program)) < MaxOperations

Load ==
    /\ At("load")
    /\ IF dir[work.program] \notin Loadable THEN Fail
       ELSE IF work.action = "status" THEN Answer(work.program)
       ELSE IF ops[work.program][work.id] # None THEN Replay(work.program)
       ELSE IF Permitted THEN Go("commit")
       ELSE Fail
    /\ UNCHANGED <<dir, ops, active, latest, lock, told>>

ReleaseActive ==
    /\ At("release")
    /\ active' = IF active = work.program THEN None ELSE active
    /\ Answer(work.program)
    /\ UNCHANGED <<dir, ops, latest, lock, told>>

-----------------------------------------------------------------------------
\* Faults

\* The process dies; the lock it held keeps its owner.json.
Crash ==
    /\ "crash" \in Faults
    /\ work # None
    /\ work' = None
    /\ lock' = IF lock = "owned" THEN "dead" ELSE lock
    /\ UNCHANGED <<dir, ops, active, latest, told>>

\* The write the call is about to make raises, and leaves the file as it was.
WriteRaises ==
    /\ "io" \in Faults
    /\ \E step \in {"latest", "restore", "scan", "commit", "activate", "publish", "release"} :
         At(step)
    /\ Fail
    /\ UNCHANGED <<dir, ops, active, latest, lock, told>>

Next ==
    \/ \E p \in Stored \cup {None} : Enter("status", None, None, p)
    \/ \E o \in OpIds :
         \/ \E i \in Inputs : Enter("start", o, i, None)
         \/ \E a \in Ends \cup {"change"}, p \in Stored : Enter(a, o, None, p)
    \/ WriteOwner \/ OwnerFails \/ UnlinkOwner \/ RemoveLock \/ ExitFails \/ Reclaim
    \/ ReadActive \/ RecoverLatest \/ RestoreActive
    \/ Scan \/ Commit \/ CommitRaises \/ SetActive \/ SetLatest
    \/ Load \/ ReleaseActive
    \/ Crash \/ WriteRaises

Spec == Init /\ [][Next]_vars

-----------------------------------------------------------------------------
\* Two programs never run at once: a start meets either the reference to the
\* running program or, when a crash or an error has lost it, a scan of all.
OneRunning ==
    Cardinality(RunningPrograms) <= 1

\* A reference never names a directory without a transaction, so that a call
\* that follows it can always load what it finds.
RefsLoad ==
    \A ref \in {active, latest} \ {None} : dir[ref] \in Loadable

\* A status call without a program id, wherever earlier calls were cut short,
\* answers with the running program, and with the newest one when none runs.
StatusIsCurrent ==
    At("unlink") /\ work.action = "status" /\ work.program = None /\ work.result # None
      => IF RunningPrograms # {} THEN work.result \in RunningPrograms
         ELSE IsNewest(work.result, Stored)

\* An answer to a start or a change rests on a record of that very call, with
\* its payload, in the program it names: no retry is answered for other work.
AnswerIsRecorded ==
    At("unlink") /\ work.action \notin {"status", "reclaim"} /\ work.result # None
      => ops[work.result][work.id] = <<work.action, work.input>>

\* Any two answers that callers are given for one start name the same program,
\* whatever is started, ended or lost between them.  That a retry is answered at
\* all is not said: start refuses it while a newer program runs.
RetriesAgree ==
    [][\A o \in OpIds : told[o] # None => told'[o] = told[o]]_vars

\* The program an operation id has started.
StartedBy(o) ==
    LET mine == {p \in Programs : \E i \in Inputs : ops[p][o] = <<"start", i>>}
    IN  IF mine = {} THEN None ELSE CHOOSE p \in mine : TRUE

Slot == INSTANCE OneSlot WITH
    holder <- IF RunningPrograms = {} THEN None ELSE CHOOSE p \in RunningPrograms : TRUE,
    begun <- [o \in OpIds |-> StartedBy(o)]

\* The repository is a slot for one program at a time, and an operation id
\* starts at most one program, also across calls that died half way.
ImplementsOneSlot == Slot!Spec
=============================================================================
