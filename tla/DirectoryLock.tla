--------------------------- MODULE DirectoryLock ---------------------------
(***************************************************************************)
(* _DirectoryLock of loop/protocol.py: the lock that serialises the        *)
(* operations of all server processes on one checkout's loop state.  The   *)
(* lock is a directory; whoever creates it holds it, writes its pid to     *)
(* owner.json inside, and removes both when done.  A waiter that finds the *)
(* directory older than LOCK_STALE_SECONDS and no live owner moves it      *)
(* away.  Every file operation is a step of its own.                       *)
(***************************************************************************)
EXTENDS Naturals, FiniteSets

CONSTANTS
    Procs,       \* server processes, each with a pid of its own
    None,        \* no directory, no owner.json
    MaxCallers,  \* how many live processes use the lock at a time
    Faults       \* a subset of {"crash", "slow"}

ASSUME FaultsAssumption == Faults \subseteq {"crash", "slow"}
ASSUME CallersAssumption == MaxCallers \in Nat

VARIABLES
    pc,    \* where each process is
    dir,   \* the lock directory: the pid in owner.json, and whether its mtime
           \* is more than LOCK_STALE_SECONDS ago
    aged   \* what each waiter last measured of that age

vars == <<pc, dir, aged>>

Directory == [owner : Procs \cup {None}, old : BOOLEAN]

ASSUME NoneAssumption == None \notin Procs /\ None \notin Directory

TypeOK ==
    /\ pc \in [Procs -> {"out", "mkdir", "own", "in", "drop", "stat", "owner",
                         "break", "dead"}]
    /\ dir \in Directory \cup {None}
    /\ aged \in [Procs -> BOOLEAN]

Init ==
    /\ pc = [p \in Procs |-> "out"]
    /\ dir = None
    /\ aged = [p \in Procs |-> FALSE]

\* A directory just written to: its mtime is now.
Fresh(o) == [owner |-> o, old |-> FALSE]

Live(p) == pc[p] # "dead"

\* os.kill(pid, 0) on the pid in owner.json; no owner.json, no live owner.
OwnerAlive == dir # None /\ dir.owner # None /\ Live(dir.owner)

Calling == {p \in Procs : pc[p] \notin {"out", "dead"}}

\* A live process between its mkdir and its last step on the directory.
Holds(p) == pc[p] \in {"own", "in", "drop"}

-----------------------------------------------------------------------------
\* An operation asks for the lock.
Call(p) ==
    /\ pc[p] = "out"
    /\ Cardinality(Calling) < MaxCallers
    /\ pc' = [pc EXCEPT ![p] = "mkdir"]
    /\ UNCHANGED <<dir, aged>>

\* Mutant of Mkdir: mkdir with exist_ok=True.
MkdirExistOk(p) ==
    /\ pc[p] = "mkdir"
    /\ dir' = Fresh(None)
    /\ pc' = [pc EXCEPT ![p] = "own"]
    /\ UNCHANGED aged

\* __enter__: mkdir creates the directory, or finds it there.
Mkdir(p) ==
    /\ pc[p] = "mkdir"
    /\ \/ /\ dir = None
          /\ dir' = Fresh(None)
          /\ pc' = [pc EXCEPT ![p] = "own"]
       \/ /\ dir # None
          /\ dir' = dir
          /\ pc' = [pc EXCEPT ![p] = "stat"]
    /\ UNCHANGED aged

\* owner.json is written by path, into whatever directory is there now;
\* _atomic_write makes the directory again if it is gone.
WriteOwner(p) ==
    /\ pc[p] = "own"
    /\ dir' = Fresh(p)
    /\ pc' = [pc EXCEPT ![p] = "in"]
    /\ UNCHANGED aged

\* That write raises: rmtree of whatever directory is there now, its owner.json
\* first, and the operation does not get the lock.
WriteOwnerRaises(p) ==
    /\ pc[p] = "own"
    /\ dir' = IF dir = None THEN None ELSE Fresh(None)
    /\ pc' = [pc EXCEPT ![p] = "drop"]
    /\ UNCHANGED aged

\* A waiter reads the directory's mtime; a directory that is gone has age 0.
Stat(p) ==
    /\ pc[p] = "stat"
    /\ aged' = [aged EXCEPT ![p] = dir # None /\ dir.old]
    /\ pc' = [pc EXCEPT ![p] = "owner"]
    /\ UNCHANGED dir

\* Mutant of ReadOwner: a lock is stale as soon as it has no live owner.
ReadOwnerIgnoringAge(p) ==
    /\ pc[p] = "owner"
    /\ \/ /\ ~OwnerAlive
          /\ pc' = [pc EXCEPT ![p] = "break"]
       \/ /\ OwnerAlive
          /\ \E next \in {"mkdir", "out"} : pc' = [pc EXCEPT ![p] = next]
    /\ UNCHANGED <<dir, aged>>

\* Mutant of ReadOwner: without owner.json a lock is never stale.
ReadOwnerNeedingOwner(p) ==
    /\ pc[p] = "owner"
    /\ \/ /\ aged[p] /\ dir # None /\ dir.owner # None /\ ~OwnerAlive
          /\ pc' = [pc EXCEPT ![p] = "break"]
       \/ /\ ~(aged[p] /\ dir # None /\ dir.owner # None /\ ~OwnerAlive)
          /\ \E next \in {"mkdir", "out"} : pc' = [pc EXCEPT ![p] = next]
    /\ UNCHANGED <<dir, aged>>

\* A waiter reads owner.json and decides.  If the lock is not stale it tries
\* again after a pause, or gives up when its deadline has passed.
ReadOwner(p) ==
    /\ pc[p] = "owner"
    /\ \/ /\ aged[p] /\ ~OwnerAlive
          /\ pc' = [pc EXCEPT ![p] = "break"]
       \/ /\ ~aged[p] \/ OwnerAlive
          /\ \E next \in {"mkdir", "out"} : pc' = [pc EXCEPT ![p] = next]
    /\ UNCHANGED <<dir, aged>>

\* os.replace moves the directory away, whichever directory it is by now.
Break(p) ==
    /\ pc[p] = "break"
    /\ dir' = None
    /\ pc' = [pc EXCEPT ![p] = "mkdir"]
    /\ UNCHANGED aged

\* __exit__: rmtree removes owner.json ...
DropOwner(p) ==
    /\ pc[p] = "in"
    /\ dir' = IF dir = None THEN None ELSE Fresh(None)
    /\ pc' = [pc EXCEPT ![p] = "drop"]
    /\ UNCHANGED aged

\* ... and then the directory, if that is empty.
DropDirectory(p) ==
    /\ pc[p] = "drop"
    /\ dir' = IF dir # None /\ dir.owner = None THEN None ELSE dir
    /\ pc' = [pc EXCEPT ![p] = "out"]
    /\ UNCHANGED aged

\* A process dies while it uses the lock.
Crash(p) ==
    /\ "crash" \in Faults
    /\ p \in Calling
    /\ pc' = [pc EXCEPT ![p] = "dead"]
    /\ UNCHANGED <<dir, aged>>

\* Time passes.  Unless "slow" is in Faults, a live holder is done with the
\* directory before LOCK_STALE_SECONDS are over.
Age ==
    /\ dir # None /\ ~dir.old
    /\ "slow" \in Faults \/ \A p \in Procs : ~Holds(p)
    /\ dir' = [dir EXCEPT !.old = TRUE]
    /\ UNCHANGED <<pc, aged>>

\* What a running process does by itself.
Step(p) ==
    \/ Mkdir(p) \/ WriteOwner(p) \/ Stat(p) \/ ReadOwner(p) \/ Break(p)
    \/ DropOwner(p) \/ DropDirectory(p)

Next == (\E p \in Procs : Call(p) \/ Step(p) \/ WriteOwnerRaises(p) \/ Crash(p)) \/ Age

Spec == Init /\ [][Next]_vars

\* A running process is scheduled and time passes; and as long as a process is
\* left, some operation asks for the lock again.  A write of owner.json may raise
\* each time.
FairSpec ==
    /\ Spec
    /\ \A p \in Procs : WF_vars(Step(p))
    /\ WF_vars(Age)
    /\ WF_vars(\E p \in Procs : Call(p))

-----------------------------------------------------------------------------
NobodyDied == \A p \in Procs : Live(p)

\* As long as no process has died inside it, the lock is never broken: two
\* processes are never inside together, however they wait and give up.
MutualExclusion ==
    NobodyDied => \A p, q \in Procs : pc[p] = "in" /\ pc[q] = "in" => p = q

\* The process inside the lock is then the one its owner.json names, so that
\* no waiter can judge the lock stale while it works.
OwnerNamed ==
    NobodyDied => \A p \in Procs : pc[p] = "in" => dir # None /\ dir.owner = p

\* A directory that a dead process left behind, with or without owner.json,
\* does not stay: it is reclaimed, or a live process holds the lock.
AbandonedLockReclaimed ==
    (dir # None /\ \A p \in Procs : ~Holds(p)) /\ (\E p \in Procs : Live(p))
        ~> (dir = None \/ (\E p \in Procs : Holds(p)) \/ (\A p \in Procs : ~Live(p)))
=============================================================================
