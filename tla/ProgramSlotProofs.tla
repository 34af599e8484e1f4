------------------------- MODULE ProgramSlotProofs -------------------------
(***************************************************************************)
(* The orchestration slot of a repository, for every number of programs,   *)
(* operation ids and payloads and whatever faults interrupt the calls.     *)
(***************************************************************************)
EXTENDS ProgramSlot, FiniteSetTheorems, TLAPS

Changes == Ends \cup {"change"}

\* Operation o has started program p.
Started(p, o) == \E i \in Inputs : ops[p][o] = <<"start", i>>

\* The call under way stands where calls of its kind can.
Shape ==
    work # None =>
      /\ work.action = "start" => work.id \in OpIds /\ work.input \in Inputs
      /\ work.action \in Changes => work.id \in OpIds /\ work.input = None
      /\ work.action = "reclaim" => work.step = "rmdir"
      /\ work.step = "owner" /\ work.action = "start" => work.program = None
      /\ work.step = "owner" /\ work.action \in Changes => work.program \in Programs
      /\ work.step \in {"active", "latest", "restore"} =>
           work.action \in {"start", "status"} /\ work.program = None
      /\ work.step = "scan" => work.action = "start" /\ work.program = None
      /\ work.step = "load" =>
           work.action \in Changes \cup {"status"} /\ work.program \in Programs
      /\ work.step = "commit" =>
           work.action \in Changes \cup {"start"} /\ work.program \in Programs
      /\ work.step \in {"activate", "publish"} =>
           work.action = "start" /\ work.program \in Programs
      /\ work.step = "release" => work.action \in Ends /\ work.program \in Programs

\* What the calls so far have left on disk, and told their callers.
Store ==
    /\ \A p, q \in RunningPrograms : p = q
    /\ \A p \in Programs : dir[p] \notin Loadable => \A o \in OpIds : ops[p][o] = None
    /\ \A p, q \in Programs, o \in OpIds : Started(p, o) /\ Started(q, o) => p = q
    /\ \A o \in OpIds : told[o] # None => Started(told[o], o)
    /\ \A p \in Programs : IsFiniteSet(Recorded(p))

\* What the call under way has found, and still holds.
Sees ==
    work # None =>
      /\ work.step = "scan" =>
           RunningPrograms = {} /\ \A p \in Stored : dir[p] \in Loadable
      /\ work.step = "commit" /\ work.action = "start" =>
           /\ RunningPrograms = {} /\ dir[work.program] = "empty"
           /\ \A p \in Programs : ops[p][work.id] = None
      /\ work.step = "commit" /\ work.action # "start" =>
           /\ dir[work.program] \in Loadable /\ ops[work.program][work.id] = None
           /\ Permitted
      /\ work.step \in {"activate", "publish", "release"} =>
           /\ dir[work.program] \in Loadable
           /\ ops[work.program][work.id] = <<work.action, work.input>>
      /\ work.step \in {"unlink", "rmdir"} /\ work.action \notin {"status", "reclaim"}
           /\ work.result # None =>
           ops[work.result][work.id] = <<work.action, work.input>>

IInv == TypeOK /\ Shape /\ Store /\ Sees /\ RefsLoad /\ StatusIsCurrent

LEMMA InitInv == Init => IInv
<1> SUFFICES ASSUME Init PROVE IInv
  OBVIOUS
<1>1. \A p \in Programs : Recorded(p) = {}
  BY DEF Init, Recorded
<1>2. TypeOK
  BY <1>1, FS_EmptySet, BoundAssumption DEF Init, TypeOK
<1>3. Store
  <2>1. \A i \in Inputs : <<"start", i>> # None
    BY NoneAssumption DEF Digests
  <2> QED
    BY <1>1, <2>1, FS_EmptySet DEF Init, Store, RunningPrograms, Started, Loadable, Terminal
<1> QED
  BY <1>2, <1>3 DEF Init, IInv, Shape, Sees, RefsLoad, StatusIsCurrent, At

Steps == {"owner", "active", "latest", "restore", "scan", "commit",
          "activate", "publish", "load", "release", "unlink", "rmdir"}

\* A call that moves on, with or without an answer, is still the same call.
LEMMA Moving ==
    ASSUME TypeOK, work # None, NEW s \in Steps, work' = [work EXCEPT !.step = s]
    PROVE  /\ work' \in Call /\ work' # None
           /\ work'.action = work.action /\ work'.id = work.id /\ work'.input = work.input
           /\ work'.program = work.program /\ work'.result = work.result /\ work'.step = s
<1>1. work \in Call
  BY DEF TypeOK
<1>2. work' \in Call
  BY <1>1 DEF Call, Steps
<1> QED
  BY <1>1, <1>2, NoneAssumption DEF Call

LEMMA Answering ==
    ASSUME TypeOK, work # None, NEW r \in Programs \cup {None}, Answer(r)
    PROVE  /\ work' \in Call /\ work' # None
           /\ work'.action = work.action /\ work'.id = work.id /\ work'.input = work.input
           /\ work'.program = work.program /\ work'.result = r /\ work'.step = "unlink"
<1>1. work \in Call
  BY DEF TypeOK
<1>2. work' \in Call
  BY <1>1 DEF Call, Answer
<1> QED
  BY <1>1, <1>2, NoneAssumption DEF Call, Answer

\* A step that leaves the programs, what is told and the references alone
\* keeps the type invariant and the store.
LEMMA Quiet ==
    ASSUME IInv, UNCHANGED <<dir, ops, told>>
    PROVE  /\ Store'
           /\ active' \in Programs \cup {None} /\ latest' \in Programs \cup {None}
                /\ lock' \in {"free", "bare", "owned", "dead"} /\ work' \in Call \cup {None}
                => TypeOK'
           /\ RunningPrograms' = RunningPrograms /\ Stored' = Stored
<1>1. \A p : Recorded(p)' = Recorded(p)
  BY DEF Recorded
<1>2. RunningPrograms' = RunningPrograms /\ Stored' = Stored
  BY DEF RunningPrograms, Stored
<1>3. Store'
  BY <1>1, <1>2 DEF IInv, Store, Started
<1> QED
  BY <1>1, <1>2, <1>3 DEF IInv, TypeOK

\* Leaving the with block keeps the invariant, once the answer is justified.
LEMMA Leaves ==
    ASSUME IInv, work # None, NEW r \in Programs \cup {None}, Answer(r),
           UNCHANGED <<dir, ops, lock, told>>,
           active' \in Programs \cup {None}, latest' \in Programs \cup {None}, RefsLoad',
           work.action # "reclaim",
           work.action # "status" /\ r # None => ops[r][work.id] = <<work.action, work.input>>,
           work.action = "status" /\ work.program = None /\ r # None =>
             IF RunningPrograms # {} THEN r \in RunningPrograms ELSE IsNewest(r, Stored)
    PROVE  IInv'
<1>1. /\ work' \in Call /\ work' # None
      /\ work'.action = work.action /\ work'.id = work.id /\ work'.input = work.input
      /\ work'.program = work.program /\ work'.result = r /\ work'.step = "unlink"
  BY Answering DEF IInv
<1>2. TypeOK' /\ Store' /\ RunningPrograms' = RunningPrograms /\ Stored' = Stored
  BY <1>1, Quiet DEF IInv, TypeOK
<1>3. Shape'
  BY <1>1 DEF IInv, Shape
<1>4. Sees'
  BY <1>1 DEF Sees
<1>5. StatusIsCurrent'
  BY <1>1, <1>2 DEF StatusIsCurrent, At, IsNewest
<1> QED
  BY <1>2, <1>3, <1>4, <1>5 DEF IInv

\* An exception answers nothing.
LEMMA Fails ==
    ASSUME IInv, work # None, work.action # "reclaim", Fail,
           UNCHANGED <<dir, ops, active, latest, lock, told>>
    PROVE  IInv'
<1>1. RefsLoad'
  BY DEF IInv, RefsLoad
<1> QED
  BY <1>1, Leaves DEF Fail, IInv, TypeOK

LEMMA EnterInv ==
    ASSUME IInv,
           \/ \E p \in Stored \cup {None} : Enter("status", None, None, p)
           \/ \E o \in OpIds :
                \/ \E i \in Inputs : Enter("start", o, i, None)
                \/ \E a \in Changes, p \in Stored : Enter(a, o, None, p)
    PROVE  IInv'
<1>1. PICK a \in Changes \cup {"start", "status"}, o \in OpIds \cup {None},
           i \in Inputs \cup {None}, p \in Stored \cup {None} :
             /\ Enter(a, o, i, p)
             /\ a = "start" => o \in OpIds /\ i \in Inputs /\ p = None
             /\ a \in Changes => o \in OpIds /\ i = None /\ p \in Programs
  BY DEF Changes, Ends, Stored
<1> DEFINE w == [action |-> a, id |-> o, input |-> i, program |-> p,
                 result |-> None, step |-> "owner"]
<1>2. w \in Call
  BY DEF Call, Changes, Stored
<1>3. work' = w /\ w # None /\ UNCHANGED <<dir, ops, active, latest, told>> /\ lock' = "bare"
  BY <1>1, <1>2, NoneAssumption DEF Enter
<1>4. TypeOK' /\ Store'
  BY <1>2, <1>3, Quiet DEF IInv, TypeOK
<1>5. Shape'
  BY <1>1, <1>3 DEF Shape, Changes, Ends
<1>6. Sees' /\ StatusIsCurrent'
  BY <1>3 DEF Sees, StatusIsCurrent, At
<1>7. RefsLoad'
  BY <1>3 DEF IInv, RefsLoad
<1> QED
  BY <1>4, <1>5, <1>6, <1>7 DEF IInv

\* The steps on the lock directory, and a crash.
LEMMA LockInv ==
    ASSUME IInv,
           WriteOwner \/ OwnerFails \/ UnlinkOwner \/ RemoveLock \/ ExitFails \/ Reclaim \/ Crash
    PROVE  IInv'
<1>1. CASE WriteOwner
  <2>1. PICK s \in {"active", "load"} : work' = [work EXCEPT !.step = s]
          /\ (s = "active" <=> work.action \in {"start", "status"} /\ work.program = None)
    BY <1>1 DEF WriteOwner, Go
  <2>2. /\ work # None /\ work.step = "owner" /\ lock' = "owned"
        /\ UNCHANGED <<dir, ops, active, latest, told>>
    BY <1>1 DEF WriteOwner, At
  <2>3. /\ work' \in Call /\ work' # None
        /\ work'.action = work.action /\ work'.id = work.id /\ work'.input = work.input
        /\ work'.program = work.program /\ work'.result = work.result /\ work'.step = s
    BY <2>1, <2>2, Moving DEF IInv, Steps
  <2>4. TypeOK' /\ Store'
    BY <2>2, <2>3, Quiet DEF IInv, TypeOK
  <2>5. work \in Call
    BY <2>2 DEF IInv, TypeOK
  <2>6. work.action \in Changes \cup {"start", "status"} /\ work.program \in Programs \cup {None}
    BY <2>2, <2>5 DEF IInv, Shape, Call, Changes, Ends
  <2>7. Shape'
    BY <2>1, <2>2, <2>3, <2>6 DEF IInv, Shape, Changes, Ends
  <2>8. Sees' /\ StatusIsCurrent'
    BY <2>3 DEF Sees, StatusIsCurrent, At
  <2>9. RefsLoad'
    BY <2>2 DEF IInv, RefsLoad
  <2> QED
    BY <2>4, <2>7, <2>8, <2>9 DEF IInv
<1>2. CASE UnlinkOwner
  <2>1. /\ work # None /\ work.step = "unlink" /\ lock' = "bare"
        /\ work' = [work EXCEPT !.step = "rmdir"]
        /\ UNCHANGED <<dir, ops, active, latest, told>>
    BY <1>2 DEF UnlinkOwner, At, Go
  <2>2. /\ work' \in Call /\ work' # None
        /\ work'.action = work.action /\ work'.id = work.id /\ work'.input = work.input
        /\ work'.program = work.program /\ work'.result = work.result /\ work'.step = "rmdir"
    BY <2>1, Moving DEF IInv, Steps
  <2>3. TypeOK' /\ Store'
    BY <2>1, <2>2, Quiet DEF IInv, TypeOK
  <2>4. Shape' /\ Sees' /\ StatusIsCurrent'
    BY <2>1, <2>2 DEF IInv, Shape, Sees, StatusIsCurrent, At
  <2>5. RefsLoad'
    BY <2>1 DEF IInv, RefsLoad
  <2> QED
    BY <2>3, <2>4, <2>5 DEF IInv
<1>3. CASE OwnerFails \/ Crash
  <2>1. work' = None /\ UNCHANGED <<dir, ops, active, latest, told>> /\ lock' \in {lock, "dead"}
    BY <1>3 DEF OwnerFails, Crash
  <2>2. TypeOK' /\ Store'
    BY <2>1, Quiet DEF IInv, TypeOK
  <2> QED
    BY <2>1, <2>2 DEF IInv, Shape, Sees, StatusIsCurrent, At, RefsLoad
<1>4. CASE RemoveLock \/ ExitFails
  <2>1. /\ work # None /\ work.step \in {"unlink", "rmdir"} /\ Return
        /\ lock' \in {"free", "dead", "bare"}
    BY <1>4 DEF RemoveLock, ExitFails, At
  <2>2. work \in Call
    BY <2>1 DEF IInv, TypeOK
  <2>3. CASE work.action = "start" /\ work.result # None
    <3>1. work.id \in OpIds /\ work.input \in Inputs /\ work.result \in Programs
      BY <2>1, <2>2, <2>3 DEF IInv, Shape, Call
    <3>2. ops[work.result][work.id] = <<"start", work.input>>
      BY <2>1, <2>3 DEF IInv, Sees
    <3>3. told' = [told EXCEPT ![work.id] = work.result] /\ UNCHANGED <<dir, ops, active, latest>>
          /\ work' = None
      BY <2>1, <2>3 DEF Return
    <3>4. Started(work.result, work.id)
      BY <3>1, <3>2 DEF Started
    <3>5. \A p \in Programs : Recorded(p)' = Recorded(p)
      BY <3>3 DEF Recorded
    <3>6. TypeOK'
      BY <2>1, <3>1, <3>3, <3>5 DEF IInv, TypeOK
    <3>7. \A p, o : Started(p, o)' <=> Started(p, o)
      BY <3>3 DEF Started
    <3>8. \A o \in OpIds : told'[o] # None => Started(told'[o], o)
      BY <3>1, <3>3, <3>4 DEF IInv, Store, TypeOK
    <3>9. Store'
      BY <3>3, <3>5, <3>7, <3>8 DEF IInv, Store, RunningPrograms
    <3> QED
      BY <3>3, <3>6, <3>9 DEF IInv, Shape, Sees, StatusIsCurrent, At, RefsLoad
  <2>4. CASE ~(work.action = "start" /\ work.result # None)
    <3>1. work' = None /\ UNCHANGED <<dir, ops, active, latest, told>>
      BY <2>1, <2>4 DEF Return
    <3>2. TypeOK' /\ Store'
      BY <2>1, <3>1, Quiet DEF IInv, TypeOK
    <3> QED
      BY <3>1, <3>2 DEF IInv, Shape, Sees, StatusIsCurrent, At, RefsLoad
  <2> QED
    BY <2>3, <2>4
<1>5. CASE Reclaim
  <2> DEFINE w == [action |-> "reclaim", id |-> None, input |-> None, program |-> None,
                   result |-> None, step |-> "rmdir"]
  <2>1. w \in Call
    BY DEF Call
  <2>2. work' = w /\ w # None /\ lock' = "bare" /\ UNCHANGED <<dir, ops, active, latest, told>>
    BY <1>5, <2>1, NoneAssumption DEF Reclaim
  <2>3. TypeOK' /\ Store'
    BY <2>1, <2>2, Quiet DEF IInv, TypeOK
  <2>4. Shape' /\ Sees' /\ StatusIsCurrent'
    BY <2>2 DEF Shape, Sees, StatusIsCurrent, At, Changes, Ends
  <2> QED
    BY <2>2, <2>3, <2>4 DEF IInv, RefsLoad
<1> QED
  BY <1>1, <1>2, <1>3, <1>4, <1>5

\* A call that meets a running program is answered with it or fails.
LEMMA FoundAnswers ==
    ASSUME IInv, work # None, NEW p \in RunningPrograms, Found(p),
           work.action \in {"start", "status"}
    PROVE  \E r \in Programs \cup {None} :
             /\ Answer(r)
             /\ work.action # "status" /\ r # None => ops[r][work.id] = <<work.action, work.input>>
             /\ work.action = "status" => r = p
<1>1. p \in Programs
  BY DEF RunningPrograms
<1> QED
  BY <1>1 DEF Found, Replay, Same, Fail

LEMMA ReadActiveInv ==
    ASSUME IInv, ReadActive
    PROVE  IInv'
<1>1. /\ work # None /\ work.step = "active" /\ work.action \in {"start", "status"}
      /\ work.program = None
      /\ UNCHANGED <<dir, ops, latest, lock, told>>
  BY DEF ReadActive, At, IInv, Shape
<1>2. CASE active # None /\ dir[active] \notin Loadable
  BY <1>2 DEF IInv, RefsLoad
<1>3. CASE Current
  <2>1. active \in RunningPrograms /\ UNCHANGED active /\ Found(active)
    BY <1>2, <1>3 DEF ReadActive, Current, RunningPrograms, IInv, TypeOK
  <2>2. PICK r \in Programs \cup {None} :
             /\ Answer(r)
             /\ work.action # "status" /\ r # None => ops[r][work.id] = <<work.action, work.input>>
             /\ work.action = "status" => r = active
    BY <1>1, <2>1, FoundAnswers
  <2>3. RefsLoad'
    BY <1>1, <2>1 DEF IInv, RefsLoad
  <2>4. active' \in Programs \cup {None} /\ latest' \in Programs \cup {None}
    BY <1>1, <2>1 DEF IInv, TypeOK
  <2> QED
    BY <1>1, <2>1, <2>2, <2>3, <2>4, Leaves
<1>4. CASE ~Current /\ ~(active # None /\ dir[active] \notin Loadable)
  <2>1. work' = [work EXCEPT !.step = "latest"] /\ active' = None
    BY <1>4 DEF ReadActive, Go
  <2>2. /\ work' \in Call /\ work' # None
        /\ work'.action = work.action /\ work'.id = work.id /\ work'.input = work.input
        /\ work'.program = work.program /\ work'.result = work.result /\ work'.step = "latest"
    BY <1>1, <2>1, Moving DEF IInv, Steps
  <2>3. TypeOK' /\ Store'
    BY <1>1, <2>1, <2>2, Quiet DEF IInv, TypeOK
  <2>4. Shape' /\ Sees' /\ StatusIsCurrent'
    BY <1>1, <2>2 DEF IInv, Shape, Sees, StatusIsCurrent, At, Changes, Ends
  <2>5. RefsLoad'
    BY <1>1, <2>1 DEF IInv, RefsLoad
  <2> QED
    BY <2>3, <2>4, <2>5 DEF IInv
<1> QED
  BY <1>2, <1>3, <1>4

LEMMA RecoverLatestInv ==
    ASSUME IInv, RecoverLatest
    PROVE  IInv'
<1>1. /\ work # None /\ work.step = "latest" /\ work.action \in {"start", "status"}
      /\ work.program = None
      /\ UNCHANGED <<dir, ops, active, lock, told>>
  BY DEF RecoverLatest, At, IInv, Shape
<1>2. CASE Unrecoverable
  BY <1>1, <1>2, Fails DEF RecoverLatest
<1>3. CASE ~Unrecoverable
  <2>1. \A p \in Stored : dir[p] \in Loadable
    BY <1>3 DEF Unrecoverable
  <2>2. latest' \in Programs \cup {None} /\ active' \in Programs \cup {None}
        /\ (latest' # None => latest' \in Programs /\ dir[latest'] \in Loadable)
        /\ (Stored = {} => latest' = latest)
        /\ (Stored # {} => IsNewest(latest', Stored))
    BY <1>1, <1>3, <2>1 DEF RecoverLatest, IInv, TypeOK, RefsLoad, Stored
  <2>3. RefsLoad'
    BY <1>1, <2>2 DEF IInv, RefsLoad
  <2>4. CASE RunningPrograms # {} \/ work.action = "start"
    <3>1. PICK s \in {"restore", "scan"} : work' = [work EXCEPT !.step = s]
            /\ (s = "scan" => RunningPrograms = {} /\ work.action = "start")
      BY <1>3, <2>4 DEF RecoverLatest, Go
    <3>2. /\ work' \in Call /\ work' # None
          /\ work'.action = work.action /\ work'.id = work.id /\ work'.input = work.input
          /\ work'.program = work.program /\ work'.result = work.result /\ work'.step = s
      BY <1>1, <3>1, Moving DEF IInv, Steps
    <3>3. TypeOK' /\ Store' /\ RunningPrograms' = RunningPrograms /\ Stored' = Stored
      BY <1>1, <2>2, <3>2, Quiet DEF IInv, TypeOK
    <3>4. Shape' /\ StatusIsCurrent'
      BY <1>1, <3>1, <3>2 DEF IInv, Shape, StatusIsCurrent, At, Changes, Ends
    <3>5. Sees'
      BY <1>1, <2>1, <3>1, <3>2, <3>3 DEF Sees
    <3> QED
      BY <2>3, <3>3, <3>4, <3>5 DEF IInv
  <2>5. CASE RunningPrograms = {} /\ work.action = "status"
    <3>1. Answer(latest')
      BY <1>3, <2>5 DEF RecoverLatest
    <3>2. latest' # None => Stored # {}
      <4> HAVE latest' # None
      <4>1. latest' \in Programs /\ dir[latest'] # "absent"
        BY <2>2 DEF Loadable, Terminal
      <4> QED
        BY <4>1 DEF Stored
    <3> QED
      BY <1>1, <2>2, <2>3, <2>5, <3>1, <3>2, Leaves
  <2> QED
    BY <1>1, <2>4, <2>5
<1> QED
  BY <1>2, <1>3

LEMMA RestoreActiveInv ==
    ASSUME IInv, RestoreActive
    PROVE  IInv'
<1>1. /\ work # None /\ work.step = "restore" /\ work.action \in {"start", "status"}
      /\ UNCHANGED <<dir, ops, latest, lock, told>>
      /\ active' \in RunningPrograms /\ Found(active')
  BY DEF RestoreActive, At, IInv, Shape
<1>2. PICK r \in Programs \cup {None} :
         /\ Answer(r)
         /\ work.action # "status" /\ r # None => ops[r][work.id] = <<work.action, work.input>>
         /\ work.action = "status" => r = active'
  BY <1>1, FoundAnswers
<1>3. active' \in Programs /\ dir[active'] = "running" /\ latest' \in Programs \cup {None}
  BY <1>1 DEF RunningPrograms, IInv, TypeOK
<1>4. RefsLoad'
  BY <1>1, <1>3 DEF IInv, RefsLoad, Loadable
<1> QED
  BY <1>1, <1>2, <1>3, <1>4, Leaves

LEMMA LoadInv ==
    ASSUME IInv, Load
    PROVE  IInv'
<1>1. /\ work # None /\ work.step = "load" /\ work.action \in Changes \cup {"status"}
      /\ work.program \in Programs
      /\ UNCHANGED <<dir, ops, active, latest, lock, told>>
  BY DEF Load, At, IInv, Shape
<1>2. work.action # "reclaim" /\ work.program # None
  BY <1>1, NoneAssumption DEF Changes, Ends
<1>3. RefsLoad' /\ active' \in Programs \cup {None} /\ latest' \in Programs \cup {None}
  BY <1>1 DEF IInv, RefsLoad, TypeOK
<1>4. CASE Fail
  BY <1>1, <1>2, <1>4, Fails
<1>5. CASE Answer(work.program)
           /\ (work.action # "status" => ops[work.program][work.id] = <<work.action, work.input>>)
  BY <1>1, <1>2, <1>3, <1>5, Leaves
<1>6. CASE /\ work' = [work EXCEPT !.step = "commit"] /\ work.action # "status"
           /\ dir[work.program] \in Loadable /\ ops[work.program][work.id] = None /\ Permitted
  <2>1. /\ work' \in Call /\ work' # None
        /\ work'.action = work.action /\ work'.id = work.id /\ work'.input = work.input
        /\ work'.program = work.program /\ work'.result = work.result /\ work'.step = "commit"
    BY <1>1, <1>6, Moving DEF IInv, Steps
  <2>2. TypeOK' /\ Store'
    BY <1>1, <1>3, <2>1, Quiet DEF IInv, TypeOK
  <2>3. Shape' /\ StatusIsCurrent'
    BY <1>1, <1>6, <2>1 DEF IInv, Shape, StatusIsCurrent, At
  <2>4. Permitted'
    BY <1>1, <1>6, <2>1 DEF Permitted, Recorded
  <2>5. Sees'
    BY <1>1, <1>6, <2>1, <2>4 DEF Sees, Changes, Ends
  <2> QED
    BY <1>3, <2>2, <2>3, <2>5 DEF IInv
<1> QED
  BY <1>4, <1>5, <1>6 DEF Load, Replay, Same, Go

LEMMA ScanInv ==
    ASSUME IInv, Scan
    PROVE  IInv'
<1>1. /\ work # None /\ work.step = "scan" /\ work.action = "start"
      /\ work.id \in OpIds /\ work.input \in Inputs
      /\ RunningPrograms = {} /\ \A p \in Stored : dir[p] \in Loadable
      /\ UNCHANGED <<ops, active, latest, lock, told>>
  BY DEF Scan, At, IInv, Shape, Sees
<1>2. active' \in Programs \cup {None} /\ latest' \in Programs \cup {None}
  BY <1>1 DEF IInv, TypeOK
<1>3. CASE UsedIn # {}
  <2>1. PICK p \in UsedIn : Replay(p) /\ UNCHANGED dir
    BY <1>3 DEF Scan
  <2>2. RefsLoad' /\ p \in Programs
    BY <1>1, <2>1 DEF IInv, RefsLoad, UsedIn, Stored
  <2>3. CASE Same(p)
    BY <1>1, <1>2, <2>1, <2>2, <2>3, Leaves DEF Replay, Same
  <2>4. CASE ~Same(p)
    BY <1>1, <2>1, <2>4, Fails DEF Replay
  <2> QED
    BY <2>3, <2>4
<1>4. CASE UsedIn = {}
  <2>1. PICK p \in Programs :
          /\ Stored = 1 .. p - 1
          /\ dir' = [dir EXCEPT ![p] = "empty"]
          /\ work' = [work EXCEPT !.program = p, !.step = "commit"]
    BY <1>4 DEF Scan
  <2>2. work \in Call
    BY <1>1 DEF IInv, TypeOK
  <2>3. work' \in Call
    BY <2>1, <2>2 DEF Call
  <2>4. /\ work' # None /\ work'.action = "start" /\ work'.id = work.id
        /\ work'.input = work.input /\ work'.program = p /\ work'.step = "commit"
    BY <1>1, <2>1, <2>2, <2>3, NoneAssumption DEF Call
  <2>5. p \notin Stored
    BY <2>1, BoundAssumption DEF Programs
  <2>6. dir[p] = "absent"
    BY <2>5 DEF Stored
  <2>7. \A q \in Programs : ops[q][work.id] = None
    BY <1>1, <1>4, <2>6 DEF UsedIn, Stored, IInv, Store, Loadable, Terminal
  <2>8. \A q : Recorded(q)' = Recorded(q)
    BY <1>1 DEF Recorded
  <2>9. TypeOK'
    BY <1>1, <2>1, <2>3, <2>8 DEF IInv, TypeOK
  <2>10. RunningPrograms' = {} /\ dir'[p] = "empty"
    BY <1>1, <2>1 DEF IInv, TypeOK, RunningPrograms
  <2>11. \A q, o : Started(q, o)' <=> Started(q, o)
    BY <1>1 DEF Started
  <2>12. Store'
    BY <1>1, <2>1, <2>6, <2>8, <2>10, <2>11 DEF IInv, TypeOK, Store, Loadable, Terminal
  <2>13. Shape' /\ StatusIsCurrent'
    BY <1>1, <2>4 DEF Shape, StatusIsCurrent, At, Changes, Ends
  <2>14. Sees'
    BY <1>1, <2>4, <2>7, <2>10 DEF Sees
  <2>15. RefsLoad'
    BY <1>1, <2>1, <2>6 DEF IInv, TypeOK, RefsLoad, Loadable, Terminal
  <2> QED
    BY <2>9, <2>12, <2>13, <2>14, <2>15 DEF IInv
<1> QED
  BY <1>3, <1>4

\* What a commit puts in place, whether or not it is reported as done.
LEMMA Committed ==
    ASSUME IInv, At("commit"), Record, UNCHANGED <<active, latest, told>>,
           work' \in Call, lock' = lock
    PROVE  /\ TypeOK' /\ Store' /\ RefsLoad'
           /\ dir'[work.program] \in Loadable
           /\ ops'[work.program][work.id] = <<work.action, work.input>>
<1>0. PICK p \in Programs, o \in OpIds, d \in Digests :
        p = work.program /\ o = work.id /\ d = <<work.action, work.input>>
  BY DEF At, IInv, TypeOK, Shape, Digests, Changes, Ends, Call
<1>1. /\ work # None /\ work.step = "commit" /\ work \in Call
      /\ work.action \in Changes \cup {"start"}
      /\ p = work.program /\ o = work.id /\ d = <<work.action, work.input>>
  BY <1>0 DEF At, IInv, TypeOK, Shape
<1>2. /\ dir' = [dir EXCEPT ![p] = Outcome]
      /\ ops' = [ops EXCEPT ![p][o] = d]
  BY <1>1 DEF Record
<1>3. d # None
  BY NoneAssumption
<1>4. ops[p][o] = None
  BY <1>1 DEF IInv, Sees
<1>5. Outcome \in Loadable
  BY <1>1 DEF Outcome, IInv, Sees, Loadable, Terminal, Changes, Ends
<1>6. /\ Recorded(p)' = Recorded(p) \cup {o} /\ o \notin Recorded(p)
      /\ \A q \in Programs \ {p} : Recorded(q)' = Recorded(q)
  BY <1>1, <1>2, <1>3, <1>4 DEF Recorded, IInv, TypeOK
<1>7. Cardinality(Recorded(p)) < MaxOperations /\ Cardinality(Recorded(p)) \in Nat
  <2>1. IsFiniteSet(Recorded(p))
    BY <1>1 DEF IInv, Store
  <2>2. Cardinality(Recorded(p)) \in Nat
    BY <2>1, FS_CardinalityType
  <2>3. CASE work.action = "start"
    <3>1. \A x \in OpIds : ops[p][x] = None
      BY <1>1, <2>3 DEF IInv, Sees, Store, Loadable, Terminal
    <3>2. Recorded(p) = {}
      BY <3>1 DEF Recorded
    <3> QED
      BY <2>2, <3>2, FS_EmptySet, BoundAssumption
  <2>4. CASE work.action # "start"
    BY <1>1, <2>2, <2>4 DEF IInv, Sees, Permitted
  <2> QED
    BY <2>2, <2>3, <2>4
<1>8. /\ IsFiniteSet(Recorded(p)')
      /\ Cardinality(Recorded(p)') = Cardinality(Recorded(p)) + 1
  <2>1. IsFiniteSet(Recorded(p))
    BY DEF IInv, Store
  <2>2. /\ IsFiniteSet(Recorded(p) \cup {o})
        /\ Cardinality(Recorded(p) \cup {o}) = Cardinality(Recorded(p)) + 1
    BY <1>6, <2>1, FS_AddElement
  <2> QED
    BY <1>6, <2>2
<1>9. TypeOK'
  <2>1. dir' \in [Programs -> Loadable \cup {"absent", "empty"}]
    BY <1>1, <1>2, <1>5 DEF IInv, TypeOK
  <2>2. ops' \in [Programs -> [OpIds -> Digests \cup {None}]]
    BY <1>1, <1>2 DEF IInv, TypeOK
  <2>3. \A q \in Programs : Cardinality(Recorded(q))' <= MaxOperations
    <3>1. Cardinality(Recorded(p)') <= MaxOperations
      BY <1>7, <1>8, BoundAssumption
    <3>2. \A q \in Programs \ {p} : Cardinality(Recorded(q)') <= MaxOperations
      BY <1>6 DEF IInv, TypeOK
    <3> QED
      BY <3>1, <3>2
  <2> QED
    BY <2>1, <2>2, <2>3 DEF IInv, TypeOK
<1>10. /\ dir'[p] = Outcome /\ ops'[p][o] = d
       /\ \A q \in Programs, x \in OpIds : (q # p \/ x # o) => ops'[q][x] = ops[q][x]
       /\ \A q \in Programs \ {p} : dir'[q] = dir[q]
  BY <1>1, <1>2 DEF IInv, TypeOK
<1>11. \A q, r \in RunningPrograms' : q = r
  <2>1. CASE work.action = "start"
    BY <1>1, <1>10, <2>1 DEF IInv, Sees, RunningPrograms
  <2>2. CASE work.action # "start"
    <3>1. RunningPrograms' \subseteq RunningPrograms
      BY <1>1, <1>10, <2>2 DEF RunningPrograms, Outcome, IInv, Changes, Ends
    <3> QED
      BY <3>1 DEF IInv, Store
  <2> QED
    BY <2>1, <2>2
<1>12. \A q \in Programs : dir'[q] \notin Loadable => \A x \in OpIds : ops'[q][x] = None
  BY <1>1, <1>5, <1>10 DEF IInv, Store
<1>13. \A q \in Programs, x \in OpIds : Started(q, x) => Started(q, x)'
  BY <1>1, <1>4, <1>3, <1>10, NoneAssumption DEF Started, Digests
<1>14. \A q \in Programs, x \in OpIds : Started(q, x)' =>
         Started(q, x) \/ (q = p /\ x = o /\ work.action = "start")
  BY <1>1, <1>10 DEF Started
<1>15. work.action = "start" => \A q \in Programs : ~Started(q, o)
  <2>1. \A i \in Inputs : <<"start", i>> # None
    BY NoneAssumption DEF Digests
  <2> QED
    BY <1>1, <2>1 DEF IInv, Sees, Started
<1>16. \A q, r \in Programs, x \in OpIds : Started(q, x)' /\ Started(r, x)' => q = r
  BY <1>14, <1>15 DEF IInv, Store
<1>17. \A x \in OpIds : told'[x] # None => Started(told[x], x)'
  BY <1>13 DEF IInv, Store, TypeOK
<1>18. Store'
  BY <1>6, <1>8, <1>11, <1>12, <1>16, <1>17 DEF IInv, Store
<1>19. RefsLoad'
  BY <1>1, <1>5, <1>10 DEF IInv, TypeOK, RefsLoad
<1> QED
  BY <1>1, <1>5, <1>9, <1>10, <1>18, <1>19

LEMMA CommitInv ==
    ASSUME IInv, Commit \/ CommitRaises
    PROVE  IInv'
<1>1. /\ At("commit") /\ Record /\ UNCHANGED <<active, latest, lock, told>>
      /\ work # None /\ work.step = "commit" /\ work \in Call
      /\ work.action \in Changes \cup {"start"} /\ work.program \in Programs
  BY DEF Commit, CommitRaises, At, IInv, TypeOK, Shape
<1>2. CASE \E s \in {"activate", "release"} :
             /\ work' = [work EXCEPT !.step = s]
             /\ (s = "activate" => work.action = "start")
             /\ (s = "release" => work.action \in Ends)
  <2>1. PICK s \in {"activate", "release"} :
             /\ work' = [work EXCEPT !.step = s]
             /\ (s = "activate" => work.action = "start")
             /\ (s = "release" => work.action \in Ends)
    BY <1>2
  <2>2. /\ work' \in Call /\ work' # None
        /\ work'.action = work.action /\ work'.id = work.id /\ work'.input = work.input
        /\ work'.program = work.program /\ work'.result = work.result /\ work'.step = s
    BY <1>1, <2>1, Moving DEF IInv, Steps
  <2>3. /\ TypeOK' /\ Store' /\ RefsLoad'
        /\ dir'[work.program] \in Loadable
        /\ ops'[work.program][work.id] = <<work.action, work.input>>
    BY <1>1, <2>2, Committed
  <2>4. Shape' /\ StatusIsCurrent'
    BY <1>1, <2>1, <2>2 DEF IInv, Shape, StatusIsCurrent, At
  <2>5. Sees'
    BY <2>1, <2>2, <2>3 DEF Sees
  <2> QED
    BY <2>3, <2>4, <2>5 DEF IInv
<1>3. CASE \E r \in {None, work.program} : Answer(r)
  <2>1. PICK r \in {None, work.program} : Answer(r)
    BY <1>3
  <2>2. /\ work' \in Call /\ work' # None
        /\ work'.action = work.action /\ work'.id = work.id /\ work'.input = work.input
        /\ work'.program = work.program /\ work'.result = r /\ work'.step = "unlink"
    BY <1>1, <2>1, Answering DEF IInv
  <2>3. /\ TypeOK' /\ Store' /\ RefsLoad'
        /\ ops'[work.program][work.id] = <<work.action, work.input>>
    BY <1>1, <2>2, Committed
  <2>4. Shape' /\ StatusIsCurrent'
    BY <1>1, <2>2 DEF IInv, Shape, StatusIsCurrent, At, Changes, Ends
  <2>5. Sees'
    BY <2>1, <2>2, <2>3 DEF Sees
  <2> QED
    BY <2>3, <2>4, <2>5 DEF IInv
<1>4. Outcome \in Terminal /\ dir[work.program] = "running" /\ work.action # "start"
        => work.action \in Ends
  BY <1>1 DEF Outcome, Terminal, Changes, Ends
<1> QED
  BY <1>1, <1>2, <1>3, <1>4 DEF Commit, CommitRaises, Fail, Go

LEMMA SettleInv ==
    ASSUME IInv, SetActive \/ SetLatest \/ ReleaseActive
    PROVE  IInv'
<1>1. /\ work # None /\ work.step \in {"activate", "publish", "release"}
      /\ work.program \in Programs /\ work.action \in Ends \cup {"start"}
      /\ dir[work.program] \in Loadable
      /\ ops[work.program][work.id] = <<work.action, work.input>>
      /\ UNCHANGED <<dir, ops, lock, told>>
      /\ active' \in {None, active, work.program} /\ latest' \in {latest, work.program}
  BY DEF SetActive, SetLatest, ReleaseActive, At, IInv, Shape, Sees
<1>2. RefsLoad' /\ active' \in Programs \cup {None} /\ latest' \in Programs \cup {None}
  BY <1>1 DEF IInv, RefsLoad, TypeOK
<1>3. CASE SetActive
  <2>1. work' = [work EXCEPT !.step = "publish"] /\ work.step = "activate"
    BY <1>3 DEF SetActive, Go, At
  <2>2. /\ work' \in Call /\ work' # None
        /\ work'.action = work.action /\ work'.id = work.id /\ work'.input = work.input
        /\ work'.program = work.program /\ work'.result = work.result /\ work'.step = "publish"
    BY <1>1, <2>1, Moving DEF IInv, Steps
  <2>3. TypeOK' /\ Store'
    BY <1>1, <1>2, <2>2, Quiet DEF IInv, TypeOK
  <2>4. Shape' /\ Sees' /\ StatusIsCurrent'
    BY <1>1, <2>1, <2>2 DEF IInv, Shape, Sees, StatusIsCurrent, At
  <2> QED
    BY <1>2, <2>3, <2>4 DEF IInv
<1>4. CASE SetLatest \/ ReleaseActive
  <2>1. Answer(work.program)
    BY <1>4 DEF SetLatest, ReleaseActive
  <2>2. work.action \notin {"reclaim", "status"}
    BY <1>1 DEF Ends
  <2> QED
    BY <1>1, <1>2, <2>1, <2>2, Leaves
<1> QED
  BY <1>3, <1>4

LEMMA RaiseInv ==
    ASSUME IInv, WriteRaises
    PROVE  IInv'
<1>1. /\ work # None /\ work.step \notin {"rmdir"} /\ Fail
      /\ UNCHANGED <<dir, ops, active, latest, lock, told>>
  BY DEF WriteRaises, At
<1> QED
  BY <1>1, Fails DEF IInv, Shape

LEMMA NextInv == IInv /\ [Next]_vars => IInv'
<1> SUFFICES ASSUME IInv, [Next]_vars PROVE IInv'
  OBVIOUS
<1>1. CASE UNCHANGED vars
  <2>1. \A p : Recorded(p)' = Recorded(p)
    BY <1>1 DEF vars, Recorded
  <2>2. TypeOK' /\ Store'
    BY <1>1, <2>1, Quiet DEF IInv, TypeOK, vars
  <2>3. Permitted' = Permitted /\ RunningPrograms' = RunningPrograms /\ Stored' = Stored
    BY <1>1 DEF vars, Permitted, Recorded, RunningPrograms, Stored
  <2>4. Shape' /\ RefsLoad'
    BY <1>1 DEF IInv, vars, Shape, RefsLoad
  <2>5. Sees' /\ StatusIsCurrent'
    BY <1>1, <2>3 DEF IInv, vars, Sees, StatusIsCurrent, At, IsNewest
  <2> QED
    BY <2>2, <2>4, <2>5 DEF IInv
<1>2. CASE Next
  BY <1>2, EnterInv, LockInv, ReadActiveInv, RecoverLatestInv, RestoreActiveInv, LoadInv,
     ScanInv, CommitInv, SettleInv, RaiseInv DEF Next, Changes
<1> QED
  BY <1>1, <1>2

\* The inductive invariant: whatever the calls, their order and the faults.
THEOREM Invariance == Spec => []IInv
  BY InitInv, NextInv, PTL DEF Spec

\* Every variable stays in its type, and no program records more operations
\* than MAX_OPERATIONS.
THEOREM TypeCorrect == Spec => []TypeOK
<1>1. IInv => TypeOK
  BY DEF IInv
<1> QED
  BY <1>1, Invariance, PTL

\* Two programs of one repository never run at once.
THEOREM OneRuns == Spec => []OneRunning
<1>1. IInv => OneRunning
  <2> SUFFICES ASSUME IInv PROVE OneRunning
    OBVIOUS
  <2>1. CASE RunningPrograms = {}
    BY <2>1, FS_EmptySet DEF OneRunning
  <2>2. CASE RunningPrograms # {}
    <3>1. PICK p : RunningPrograms = {p}
      BY <2>2 DEF IInv, Store
    <3> QED
      BY <3>1, FS_Singleton DEF OneRunning
  <2> QED
    BY <2>1, <2>2
<1> QED
  BY <1>1, Invariance, PTL

\* The references never name a directory without a transaction.
THEOREM RefsAlwaysLoad == Spec => []RefsLoad
<1>1. IInv => RefsLoad
  BY DEF IInv
<1> QED
  BY <1>1, Invariance, PTL

\* A status call is answered with the running program, or else the newest.
THEOREM StatusCurrent == Spec => []StatusIsCurrent
<1>1. IInv => StatusIsCurrent
  BY DEF IInv
<1> QED
  BY <1>1, Invariance, PTL

\* No call is answered for other work than its own.
THEOREM AnswersRecorded == Spec => []AnswerIsRecorded
<1>1. IInv => AnswerIsRecorded
  BY DEF IInv, Sees, AnswerIsRecorded, At
<1> QED
  BY <1>1, Invariance, PTL

\* A retried start that is answered is answered as the first time.
THEOREM Agreed == Spec => RetriesAgree
<1>1. IInv /\ [Next]_vars => [\A o \in OpIds : told[o] # None => told'[o] = told[o]]_vars
  <2> SUFFICES ASSUME IInv, Next, NEW o \in OpIds, told[o] # None
               PROVE  told'[o] = told[o]
    BY DEF vars
  <2>1. CASE UNCHANGED told
    BY <2>1
  <2>2. CASE RemoveLock \/ ExitFails
    <3>1. /\ work # None /\ work.step \in {"unlink", "rmdir"} /\ Return /\ work \in Call
      BY <2>2 DEF RemoveLock, ExitFails, At, IInv, TypeOK
    <3>2. CASE work.action = "start" /\ work.result # None /\ work.id = o
      <4>1. Started(work.result, o) /\ work.result \in Programs
        BY <3>1, <3>2 DEF IInv, Shape, Sees, Started, Call
      <4>2. Started(told[o], o) /\ told[o] \in Programs
        BY DEF IInv, Store, TypeOK
      <4>3. work.result = told[o]
        BY <4>1, <4>2 DEF IInv, Store
      <4> QED
        BY <3>1, <3>2, <4>3 DEF Return, IInv, TypeOK
    <3> QED
      BY <3>1, <3>2 DEF Return, IInv, TypeOK
  <2> QED
    BY <2>1, <2>2 DEF Next, Enter, WriteOwner, OwnerFails, UnlinkOwner, Reclaim, ReadActive,
       RecoverLatest, RestoreActive, Scan, Commit, CommitRaises, SetActive, SetLatest, Load,
       ReleaseActive, Crash, WriteRaises
<1> QED
  BY <1>1, Invariance, PTL DEF Spec, RetriesAgree

Holder == IF RunningPrograms = {} THEN None ELSE CHOOSE p \in RunningPrograms : TRUE
Begun == [o \in OpIds |-> StartedBy(o)]

\* The mapping's two values, where the store is sound.
LEMMA Mapped ==
    ASSUME Store
    PROVE  /\ \A p \in RunningPrograms : Holder = p
           /\ \A p \in Programs, o \in OpIds : Started(p, o) => StartedBy(o) = p
           /\ \A o \in OpIds : (\A p \in Programs : ~Started(p, o)) => StartedBy(o) = None
<1>1. ASSUME NEW p \in RunningPrograms PROVE Holder = p
  <2>1. RunningPrograms = {p}
    BY <1>1 DEF Store
  <2> QED
    BY <2>1 DEF Holder
<1>2. ASSUME NEW p \in Programs, NEW o \in OpIds, Started(p, o) PROVE StartedBy(o) = p
  <2> DEFINE mine == {q \in Programs : \E i \in Inputs : ops[q][o] = <<"start", i>>}
  <2>1. mine = {p}
    BY <1>2 DEF Store, Started
  <2>2. StartedBy(o) = CHOOSE q \in mine : TRUE
    BY <2>1 DEF StartedBy
  <2> QED
    BY <2>1, <2>2
<1>3. ASSUME NEW o \in OpIds, \A p \in Programs : ~Started(p, o) PROVE StartedBy(o) = None
  BY <1>3 DEF StartedBy, Started
<1> QED
  BY <1>1, <1>2, <1>3

LEMMA MappedNext ==
    ASSUME Store'
    PROVE  /\ \A p \in RunningPrograms' : Holder' = p
           /\ \A p \in Programs, o \in OpIds : Started(p, o)' => StartedBy(o)' = p
           /\ \A o \in OpIds : (\A p \in Programs : ~Started(p, o)') => StartedBy(o)' = None
<1>1. ASSUME NEW p \in RunningPrograms' PROVE Holder' = p
  <2>1. RunningPrograms' = {p}
    BY <1>1 DEF Store
  <2> QED
    BY <2>1 DEF Holder
<1>2. ASSUME NEW p \in Programs, NEW o \in OpIds, Started(p, o)' PROVE StartedBy(o)' = p
  <2> DEFINE mine == {q \in Programs : \E i \in Inputs : ops'[q][o] = <<"start", i>>}
  <2>1. mine = {p}
    BY <1>2 DEF Store, Started
  <2>2. StartedBy(o)' = CHOOSE q \in mine : TRUE
    BY <2>1 DEF StartedBy
  <2> QED
    BY <2>1, <2>2
<1>3. ASSUME NEW o \in OpIds, \A p \in Programs : ~Started(p, o)' PROVE StartedBy(o)' = None
  BY <1>3 DEF StartedBy, Started
<1> QED
  BY <1>1, <1>2, <1>3

\* A step that moves no program's status and records no call maps to a stutter.
LEMMA Stutters ==
    ASSUME RunningPrograms' = RunningPrograms, UNCHANGED ops
    PROVE  Holder' = Holder /\ Begun' = Begun
BY DEF Holder, Begun, StartedBy

\* A commit begins a program, ends one, or does not move the slot.
LEMMA RecordMaps ==
    ASSUME IInv, IInv', At("commit"), Record
    PROVE  \/ \E o \in OpIds, p \in Programs :
                /\ Holder = None /\ Begun[o] = None
                /\ \A other \in OpIds : Begun[other] # p
                /\ Holder' = p /\ Begun' = [Begun EXCEPT ![o] = p]
           \/ Holder # None /\ Holder' = None /\ Begun' = Begun
           \/ Holder' = Holder /\ Begun' = Begun
<1>0. PICK p \in Programs, o \in OpIds :
        /\ work # None /\ work.step = "commit" /\ p = work.program /\ o = work.id
        /\ work.action \in Changes \cup {"start"}
  BY DEF At, IInv, TypeOK, Shape, Changes, Ends
<1>1. /\ dir'[p] = Outcome /\ ops'[p][o] = <<work.action, work.input>>
      /\ \A q \in Programs, x \in OpIds : (q # p \/ x # o) => ops'[q][x] = ops[q][x]
      /\ \A q \in Programs \ {p} : dir'[q] = dir[q]
  BY <1>0 DEF Record, IInv, TypeOK
<1>2. Store /\ Store'
  BY DEF IInv
<1>3. \A i \in Inputs : <<"start", i>> # None
  BY NoneAssumption DEF Digests
<1>4. None \notin Programs
  BY NoneAssumption
<1>5. CASE work.action = "start"
  <2>1. /\ RunningPrograms = {} /\ dir[p] = "empty"
        /\ \A q \in Programs : ops[q][o] = None
    BY <1>0, <1>5 DEF IInv, Sees
  <2>2. Holder = None
    BY <2>1 DEF Holder
  <2>3. \A q \in Programs : ~Started(q, o)
    BY <1>3, <2>1 DEF Started
  <2>4. \A x \in OpIds : ~Started(p, x)
    BY <1>3, <2>1 DEF Started, Store, IInv, Loadable, Terminal
  <2>5. p \in RunningPrograms'
    BY <1>1, <1>5 DEF RunningPrograms, Outcome
  <2>6. Holder' = p
    BY <1>2, <2>5, MappedNext
  <2>7. Started(p, o)'
    BY <1>0, <1>1, <1>5 DEF IInv, Shape, Started
  <2>8. \A q \in Programs, x \in OpIds : x # o => (Started(q, x)' <=> Started(q, x))
    BY <1>1 DEF Started
  <2>9. StartedBy(o) = None /\ StartedBy(o)' = p
    BY <1>2, <2>3, <2>7, Mapped, MappedNext
  <2>10. ASSUME NEW x \in OpIds, x # o PROVE StartedBy(x)' = StartedBy(x)
    <3>1. CASE \E q \in Programs : Started(q, x)
      BY <1>2, <2>8, <2>10, <3>1, Mapped, MappedNext
    <3>2. CASE \A q \in Programs : ~Started(q, x)
      BY <1>2, <2>8, <2>10, <3>2, Mapped, MappedNext
    <3> QED
      BY <3>1, <3>2
  <2>11. ASSUME NEW x \in OpIds PROVE StartedBy(x) # p
    <3>1. CASE \E q \in Programs : Started(q, x)
      BY <1>2, <2>4, <2>11, <3>1, Mapped
    <3>2. CASE \A q \in Programs : ~Started(q, x)
      BY <1>2, <1>4, <2>11, <3>2, Mapped
    <3> QED
      BY <3>1, <3>2
  <2>12. Begun' = [Begun EXCEPT ![o] = p]
    BY <2>9, <2>10 DEF Begun
  <2> QED
    BY <2>2, <2>6, <2>9, <2>11, <2>12 DEF Begun
<1>6. CASE work.action # "start"
  <2>1. /\ dir[p] \in Loadable /\ ops[p][o] = None /\ Permitted
    BY <1>0, <1>6 DEF IInv, Sees
  <2>2. \A q \in Programs, x \in OpIds : Started(q, x)' <=> Started(q, x)
    <3>1. \A i \in Inputs : ops[p][o] # <<"start", i>> /\ ops'[p][o] # <<"start", i>>
      BY <1>1, <1>3, <1>6, <2>1
    <3>2. TAKE q \in Programs, x \in OpIds
    <3>3. CASE q = p /\ x = o
      BY <3>1, <3>3 DEF Started
    <3>4. CASE q # p \/ x # o
      BY <1>1, <3>4 DEF Started
    <3> QED
      BY <3>3, <3>4
  <2>3. ASSUME NEW x \in OpIds PROVE StartedBy(x)' = StartedBy(x)
    <3>1. CASE \E q \in Programs : Started(q, x)
      BY <1>2, <2>2, <2>3, <3>1, Mapped, MappedNext
    <3>2. CASE \A q \in Programs : ~Started(q, x)
      BY <1>2, <2>2, <2>3, <3>2, Mapped, MappedNext
    <3> QED
      BY <3>1, <3>2
  <2>4. Begun' = Begun
    BY <2>3 DEF Begun
  <2>5. CASE RunningPrograms' = RunningPrograms
    BY <2>4, <2>5 DEF Holder
  <2>6. CASE RunningPrograms' # RunningPrograms
    <3>1. dir[p] = "running" /\ Outcome # "running"
      BY <1>0, <1>1, <1>6, <2>1, <2>6 DEF RunningPrograms, Outcome, Permitted, Changes, Ends
    <3>2. p \in RunningPrograms
      BY <3>1 DEF RunningPrograms
    <3>3. RunningPrograms' = {}
      BY <1>1, <1>2, <3>1, <3>2 DEF Store, RunningPrograms
    <3>4. Holder = p
      BY <1>2, <3>2, Mapped
    <3>5. Holder' = None
      BY <3>3 DEF Holder
    <3> QED
      BY <1>4, <2>4, <3>4, <3>5
  <2> QED
    BY <2>5, <2>6
<1> QED
  BY <1>5, <1>6

\* The repository is a slot for one program at a time, and an operation id
\* starts at most one.
THEOREM Slots == Spec => ImplementsOneSlot
<1>1. Init => Slot!Init
  <2> SUFFICES ASSUME Init PROVE Slot!Init
    OBVIOUS
  <2>1. Store /\ RunningPrograms = {}
    BY InitInv DEF Init, IInv, RunningPrograms
  <2>2. \A p \in Programs, o \in OpIds : ~Started(p, o)
    BY NoneAssumption DEF Init, Started, Digests
  <2>3. \A o \in OpIds : StartedBy(o) = None
    BY <2>1, <2>2, Mapped
  <2> QED
    BY <2>1, <2>3 DEF Slot!Init
<1>2. IInv /\ IInv' /\ [Next]_vars => [Slot!Next]_<<Holder, Begun>>
  <2> SUFFICES ASSUME IInv, IInv', [Next]_vars PROVE [Slot!Next]_<<Holder, Begun>>
    OBVIOUS
  <2>1. CASE UNCHANGED <<dir, ops>>
    <3>1. RunningPrograms' = RunningPrograms
      BY <2>1 DEF RunningPrograms
    <3> QED
      BY <2>1, <3>1, Stutters
  <2>2. CASE Scan
    <3>1. CASE UNCHANGED dir
      BY <2>2, <3>1, <2>1 DEF Scan
    <3>2. CASE ~UNCHANGED dir
      <4>1. PICK p \in Programs : Stored = 1 .. p - 1 /\ dir' = [dir EXCEPT ![p] = "empty"]
        BY <2>2, <3>2 DEF Scan
      <4>2. dir[p] = "absent"
        BY <4>1, BoundAssumption DEF Stored, Programs
      <4>3. RunningPrograms' = RunningPrograms
        BY <4>1, <4>2 DEF RunningPrograms, IInv, TypeOK
      <4> QED
        BY <2>2, <4>3, Stutters DEF Scan
    <3> QED
      BY <3>1, <3>2
  <2>3. CASE Commit \/ CommitRaises
    <3>1. At("commit") /\ Record
      BY <2>3 DEF Commit, CommitRaises
    <3> QED
      BY <3>1, RecordMaps DEF Slot!Next, Slot!Begin, Slot!End, Holder, Begun
  <2> QED
    BY <2>1, <2>2, <2>3 DEF Next, Enter, WriteOwner, OwnerFails, UnlinkOwner, RemoveLock,
       ExitFails, Return, Reclaim, ReadActive, RecoverLatest, RestoreActive, SetActive,
       SetLatest, Load, ReleaseActive, Crash, WriteRaises, vars
<1> QED
  BY <1>1, <1>2, Invariance, PTL DEF Spec, ImplementsOneSlot, Slot!Spec, Holder, Begun

-----------------------------------------------------------------------------
(* What is on disk is never taken back, by a call or by a fault.           *)

\* Operation records outlive everything: MAX_OPERATIONS refuses the next one,
\* it never makes room by dropping an old one, and no id is recorded twice.
RecordsStand ==
    [][\A p \in Programs, o \in OpIds :
          ops[p][o] # None => ops'[p][o] = ops[p][o]]_vars

\* A program that has ended stays as it ended, and none disappears.
EndsStand ==
    [][\A p \in Programs :
          /\ dir[p] \in Terminal => dir'[p] = dir[p]
          /\ dir[p] \in Loadable => dir'[p] \in Loadable]_vars

\* The call that commits: a start fills an empty directory, any other call
\* changes a program that permits it, and neither has a record of its id yet.
LEMMA Committing ==
    ASSUME IInv, At("commit")
    PROVE  /\ work.program \in Programs /\ work.id \in OpIds
           /\ work.action \in Changes \cup {"start"}
           /\ ops[work.program][work.id] = None
           /\ work.action = "start" => dir[work.program] = "empty"
           /\ work.action # "start" =>
                /\ dir[work.program] \in Loadable
                /\ \/ dir[work.program] = "running"
                   \/ dir[work.program] = "completed" /\ work.action = "finalize"
<1>1. work # None /\ work.step = "commit" /\ Shape /\ Sees
  BY DEF At, IInv
<1>2. /\ work.program \in Programs /\ work.action \in Changes \cup {"start"}
      /\ work.id \in OpIds
  BY <1>1 DEF Shape
<1>3. CASE work.action = "start"
  BY <1>1, <1>2, <1>3 DEF Sees
<1>4. CASE work.action # "start"
  <2>1. /\ dir[work.program] \in Loadable /\ ops[work.program][work.id] = None
        /\ Permitted
    BY <1>1, <1>4 DEF Sees
  <2> QED
    BY <1>2, <1>4, <2>1 DEF Permitted
<1> QED
  BY <1>2, <1>3, <1>4

\* Only a commit writes into the records.
LEMMA OthersKeepRecords ==
    ASSUME Next, ~(At("commit") /\ Record) PROVE ops' = ops
BY DEF Next, Enter, WriteOwner, OwnerFails, UnlinkOwner, RemoveLock, ExitFails, Return,
       Reclaim, ReadActive, RecoverLatest, RestoreActive, Scan, Commit, CommitRaises,
       SetActive, SetLatest, Load, ReleaseActive, Crash, WriteRaises

\* A start makes its directory where there was none.
LEMMA OthersKeepPrograms ==
    ASSUME IInv, Next, ~(At("commit") /\ Record), NEW p \in Programs, dir[p] # "absent"
    PROVE  dir'[p] = dir[p]
<1>1. CASE Scan /\ ~UNCHANGED dir
  <2>1. PICK q \in Programs : Stored = 1 .. q - 1 /\ dir' = [dir EXCEPT ![q] = "empty"]
    BY <1>1 DEF Scan
  <2>2. dir[q] = "absent"
    BY <2>1, BoundAssumption DEF Stored, Programs
  <2> QED
    BY <2>1, <2>2 DEF IInv, TypeOK
<1>2. CASE UNCHANGED dir
  BY <1>2
<1> QED
  BY <1>1, <1>2 DEF Next, Enter, WriteOwner, OwnerFails, UnlinkOwner, RemoveLock, ExitFails,
     Return, Reclaim, ReadActive, RecoverLatest, RestoreActive, Scan, Commit, CommitRaises,
     SetActive, SetLatest, Load, ReleaseActive, Crash, WriteRaises

\* No record of an operation is ever lost or overwritten.
THEOREM RecordsAreKept == Spec => RecordsStand
<1>1. ASSUME IInv, Next, NEW p \in Programs, NEW o \in OpIds, ops[p][o] # None
      PROVE  ops'[p][o] = ops[p][o]
  <2>1. CASE At("commit") /\ Record
    <3>1. /\ work.program \in Programs /\ work.id \in OpIds
          /\ ops[work.program][work.id] = None
      BY <1>1, <2>1, Committing
    <3>2. /\ ops \in [Programs -> [OpIds -> Digests \cup {None}]]
          /\ ops' = [ops EXCEPT ![work.program][work.id] = <<work.action, work.input>>]
      BY <1>1, <2>1 DEF Record, IInv, TypeOK
    <3> QED
      BY <1>1, <3>1, <3>2
  <2> QED
    BY <1>1, <2>1, OthersKeepRecords
<1>2. IInv /\ [Next]_vars =>
        [\A p \in Programs, o \in OpIds : ops[p][o] # None => ops'[p][o] = ops[p][o]]_vars
  BY <1>1 DEF vars
<1> QED
  BY <1>2, Invariance, PTL DEF Spec, RecordsStand

\* A program that was completed or cancelled stays so.
THEOREM EndsAreKept == Spec => EndsStand
<1>1. ASSUME IInv, Next, NEW p \in Programs
      PROVE  /\ dir[p] \in Terminal => dir'[p] = dir[p]
             /\ dir[p] \in Loadable => dir'[p] \in Loadable
  <2>1. CASE At("commit") /\ Record
    <3>1. /\ work.program \in Programs /\ work.action \in Changes \cup {"start"}
          /\ work.action = "start" => dir[work.program] = "empty"
      BY <1>1, <2>1, Committing
    <3>2. dir' = [dir EXCEPT ![work.program] = Outcome]
      BY <2>1 DEF Record
    <3>3. work.action # "start" =>
            /\ dir[work.program] \in Loadable
            /\ \/ dir[work.program] = "running"
               \/ dir[work.program] = "completed" /\ work.action = "finalize"
      BY <1>1, <2>1, Committing
    <3>5. Outcome \in Loadable
      BY <3>1, <3>3 DEF Outcome, Loadable, Terminal, Changes, Ends
    <3>6. dir[work.program] \in Terminal => Outcome = dir[work.program]
      BY <3>1, <3>3 DEF Outcome, Loadable, Terminal, Changes, Ends
    <3> QED
      BY <1>1, <3>1, <3>2, <3>5, <3>6 DEF IInv, TypeOK
  <2>2. CASE ~(At("commit") /\ Record)
    <3>1. dir[p] \in Loadable => dir'[p] = dir[p]
      BY <1>1, <2>2, OthersKeepPrograms DEF Loadable, Terminal
    <3> QED
      BY <3>1 DEF Loadable
  <2> QED
    BY <2>1, <2>2
<1>2. IInv /\ [Next]_vars =>
        [\A p \in Programs :
            /\ dir[p] \in Terminal => dir'[p] = dir[p]
            /\ dir[p] \in Loadable => dir'[p] \in Loadable]_vars
  BY <1>1 DEF vars
<1> QED
  BY <1>2, Invariance, PTL DEF Spec, EndsStand

-----------------------------------------------------------------------------
(* The reference to the running program, after a call has looked it up.    *)

ActiveExact == IF RunningPrograms = {} THEN active = None ELSE active \in RunningPrograms

\* A start, or a status call without a program id.
LooksUp == work.action = "start" \/ (work.action = "status" /\ work.program = None)

\* However earlier calls were cut short, a start or a status call that finds
\* its program leaves active.json naming the running program, or removed.
LookupRepairs == At("unlink") /\ LooksUp /\ work.result # None => ActiveExact

\* On its way the call first removes a reference it cannot use, and a start
\* writes the new one before it answers.
Repairing ==
    work # None =>
      /\ work.step \in {"latest", "restore", "scan"} => active = None
      /\ work.step = "commit" /\ work.action = "start" => active = None
      /\ work.step \in {"activate", "publish"} => dir[work.program] = "running"
      /\ work.step = "publish" => active = work.program
      /\ work.step \in {"unlink", "rmdir"} /\ LooksUp /\ work.result # None => ActiveExact

\* An answer is all that has to be right when a call is over.
LEMMA AnswerRepairs ==
    ASSUME IInv, work # None, NEW r \in Programs \cup {None}, Answer(r),
           LooksUp /\ r # None => ActiveExact'
    PROVE  Repairing'
<1>1. /\ work' # None /\ work'.action = work.action /\ work'.program = work.program
      /\ work'.result = r /\ work'.step = "unlink"
  BY Answering DEF IInv
<1> QED
  BY <1>1 DEF Repairing, LooksUp

LEMMA FailRepairs ==
    ASSUME IInv, work # None, Fail PROVE Repairing'
BY AnswerRepairs DEF Fail

\* Taking and leaving the lock.
LEMMA LockRepairs ==
    ASSUME IInv, Repairing,
           \/ \E a, o, i, p : Enter(a, o, i, p)
           \/ WriteOwner \/ OwnerFails \/ UnlinkOwner \/ RemoveLock \/ ExitFails \/ Reclaim
           \/ Crash
    PROVE  Repairing'
<1>1. CASE \E a, o, i, p : Enter(a, o, i, p)
  <2>1. work'.step = "owner"
    BY <1>1 DEF Enter
  <2> QED
    BY <2>1 DEF Repairing
<1>2. CASE WriteOwner
  <2>1. PICK s \in Steps : s \in {"active", "load"} /\ work' = [work EXCEPT !.step = s]
    BY <1>2 DEF WriteOwner, Go, Steps
  <2>2. work'.step = s
    BY <1>2, <2>1, Moving DEF IInv, WriteOwner, At
  <2> QED
    BY <2>1, <2>2 DEF Repairing
<1>3. CASE UnlinkOwner
  <2>1. work # None /\ work.step = "unlink" /\ UNCHANGED <<dir, active>>
        /\ work' = [work EXCEPT !.step = "rmdir"]
    BY <1>3 DEF UnlinkOwner, At, Go
  <2>2. /\ work'.action = work.action /\ work'.program = work.program
        /\ work'.result = work.result /\ work'.step = "rmdir"
    BY <2>1, Moving DEF IInv, Steps
  <2> QED
    BY <2>1, <2>2 DEF Repairing, LooksUp, ActiveExact, RunningPrograms
<1>4. CASE Reclaim
  <2>1. work'.action = "reclaim" /\ work'.step = "rmdir"
    BY <1>4 DEF Reclaim
  <2> QED
    BY <2>1 DEF Repairing, LooksUp
<1>5. CASE OwnerFails \/ RemoveLock \/ ExitFails \/ Crash
  BY <1>5 DEF OwnerFails, RemoveLock, ExitFails, Return, Crash, Repairing
<1> QED
  BY <1>1, <1>2, <1>3, <1>4, <1>5

\* Looking the program up.
LEMMA LookupStepRepairs ==
    ASSUME IInv, Repairing, ReadActive \/ RecoverLatest \/ RestoreActive
    PROVE  Repairing'
<1>1. CASE ReadActive
  <2>1. /\ work # None /\ work.step = "active" /\ work.action \in {"start", "status"}
        /\ dir' = dir
    BY <1>1 DEF ReadActive, At, IInv, Shape
  <2>2. CASE active # None /\ dir[active] \notin Loadable
    BY <1>1, <2>1, <2>2, FailRepairs DEF ReadActive
  <2>3. CASE Current
    <3>1. active \in RunningPrograms /\ active' = active /\ Found(active)
      BY <1>1, <2>2, <2>3 DEF ReadActive, Current, RunningPrograms, IInv, TypeOK
    <3>2. ActiveExact'
      BY <2>1, <3>1 DEF ActiveExact, RunningPrograms
    <3>3. PICK r \in Programs \cup {None} : Answer(r)
      BY <2>1, <3>1, FoundAnswers
    <3> QED
      BY <2>1, <3>2, <3>3, AnswerRepairs
  <2>4. CASE ~Current /\ ~(active # None /\ dir[active] \notin Loadable)
    <3>1. work' = [work EXCEPT !.step = "latest"] /\ active' = None
      BY <1>1, <2>4 DEF ReadActive, Go
    <3>2. work'.step = "latest"
      BY <2>1, <3>1, Moving DEF IInv, Steps
    <3> QED
      BY <3>1, <3>2 DEF Repairing
  <2> QED
    BY <2>2, <2>3, <2>4
<1>2. CASE RecoverLatest
  <2>1. work # None /\ work.step = "latest" /\ UNCHANGED <<dir, active>> /\ active = None
    BY <1>2 DEF RecoverLatest, At, Repairing
  <2>2. CASE Unrecoverable
    BY <1>2, <2>1, <2>2, FailRepairs DEF RecoverLatest
  <2>3. ASSUME NEW s \in {"restore", "scan"}, Go(s) PROVE Repairing'
    <3>1. work' = [work EXCEPT !.step = s] /\ s \in Steps
      BY <2>3 DEF Go, Steps
    <3>2. work'.step = s
      BY <2>1, <3>1, Moving DEF IInv
    <3> QED
      BY <2>1, <2>3, <3>2 DEF Repairing
  <2>4. CASE ~Unrecoverable /\ RunningPrograms = {} /\ work.action # "start"
    <3>1. ActiveExact'
      BY <2>1, <2>4 DEF ActiveExact, RunningPrograms
    <3>2. Answer(latest')
      BY <1>2, <2>4 DEF RecoverLatest
    <3>3. latest' \in Programs \cup {None}
      BY <1>2, <2>4 DEF RecoverLatest, Stored, IInv, TypeOK
    <3>4. PICK r \in Programs \cup {None} : r = latest'
      BY <3>3
    <3> QED
      BY <2>1, <3>1, <3>2, <3>4, AnswerRepairs
  <2> QED
    BY <1>2, <2>2, <2>3, <2>4 DEF RecoverLatest
<1>3. CASE RestoreActive
  <2>1. /\ work # None /\ work.action \in {"start", "status"}
        /\ active' \in RunningPrograms /\ Found(active') /\ dir' = dir
    BY <1>3 DEF RestoreActive, At, IInv, Shape
  <2>2. PICK p \in RunningPrograms : p = active'
    BY <2>1
  <2>3. PICK r \in Programs \cup {None} : Answer(r)
    BY <2>1, <2>2, FoundAnswers
  <2>4. ActiveExact'
    BY <2>1 DEF ActiveExact, RunningPrograms
  <2> QED
    BY <2>1, <2>3, <2>4, AnswerRepairs
<1> QED
  BY <1>1, <1>2, <1>3

\* Starting and changing a program.
LEMMA WorkStepRepairs ==
    ASSUME IInv, Repairing,
           \/ Scan \/ Commit \/ CommitRaises \/ SetActive \/ SetLatest
           \/ Load \/ ReleaseActive \/ WriteRaises
    PROVE  Repairing'
<1>1. CASE Scan
  <2>1. /\ work # None /\ work.step = "scan" /\ RunningPrograms = {} /\ active = None
        /\ active' = active
    BY <1>1 DEF Scan, At, Repairing, IInv, Sees
  <2>2. CASE UsedIn # {}
    <3>1. PICK p \in UsedIn : Replay(p)
      BY <1>1, <2>2 DEF Scan
    <3>2. PICK r \in Programs \cup {None} : Answer(r)
      BY <3>1 DEF Replay, Fail, UsedIn, Stored
    <3>3. ActiveExact'
      BY <1>1, <2>1, <2>2 DEF Scan, ActiveExact, RunningPrograms
    <3> QED
      BY <2>1, <3>2, <3>3, AnswerRepairs
  <2>3. CASE UsedIn = {}
    <3>1. work'.step = "commit"
      <4>1. work \in Call
        BY <2>1 DEF IInv, TypeOK
      <4> QED
        BY <1>1, <2>3, <4>1 DEF Scan, Call
    <3> QED
      BY <2>1, <3>1 DEF Repairing
  <2> QED
    BY <2>2, <2>3
<1>2. CASE Commit
  <2>1. /\ At("commit") /\ work # None /\ Record /\ work.program \in Programs
        /\ work.action \in Changes \cup {"start"}
    BY <1>2, Committing DEF Commit, At
  <2>2. CASE work.action = "start"
    <3>1. dir'[work.program] = "running"
      BY <2>1, <2>2 DEF Record, Outcome, IInv, TypeOK
    <3>2. work' = [work EXCEPT !.step = "activate"]
      BY <1>2, <2>2 DEF Commit, Go
    <3>3. work'.step = "activate" /\ work'.program = work.program
      BY <2>1, <3>2, Moving DEF IInv, Steps
    <3> QED
      BY <3>1, <3>3 DEF Repairing
  <2>3. CASE work.action # "start"
    <3>1. ~LooksUp
      BY <2>1, <2>3 DEF LooksUp, Changes, Ends
    <3>2. CASE Answer(work.program)
      BY <2>1, <3>1, <3>2, AnswerRepairs
    <3>3. CASE Go("release")
      <4>1. work' = [work EXCEPT !.step = "release"]
        BY <3>3 DEF Go
      <4>2. work'.step = "release"
        BY <2>1, <4>1, Moving DEF IInv, Steps
      <4> QED
        BY <4>2 DEF Repairing
    <3> QED
      BY <1>2, <2>3, <3>2, <3>3 DEF Commit
  <2> QED
    BY <2>2, <2>3
<1>3. CASE CommitRaises \/ WriteRaises
  BY <1>3, FailRepairs DEF CommitRaises, WriteRaises, At
<1>4. CASE SetActive
  <2>1. /\ work # None /\ work.step = "activate" /\ dir[work.program] = "running"
        /\ active' = work.program /\ dir' = dir /\ work' = [work EXCEPT !.step = "publish"]
    BY <1>4 DEF SetActive, At, Go, Repairing
  <2>2. work'.step = "publish" /\ work'.program = work.program
    BY <2>1, Moving DEF IInv, Steps
  <2> QED
    BY <2>1, <2>2 DEF Repairing
<1>5. CASE SetLatest
  <2>1. /\ work # None /\ dir[work.program] = "running" /\ active = work.program
        /\ UNCHANGED <<dir, active>> /\ Answer(work.program)
        /\ work.program \in Programs
    BY <1>5 DEF SetLatest, At, Repairing, IInv, Shape
  <2>2. ActiveExact'
    BY <2>1 DEF ActiveExact, RunningPrograms
  <2> QED
    BY <2>1, <2>2, AnswerRepairs
<1>6. CASE Load
  <2>1. /\ work # None /\ work.step = "load"
        /\ work.action \in Changes \cup {"status"} /\ work.program \in Programs
    BY <1>6 DEF Load, At, IInv, Shape
  <2>2. ~LooksUp
    BY <2>1, NoneAssumption DEF LooksUp, Changes, Ends
  <2>3. CASE \E r \in Programs \cup {None} : Answer(r)
    BY <2>1, <2>2, <2>3, AnswerRepairs
  <2>4. CASE Go("commit")
    <3>1. work' = [work EXCEPT !.step = "commit"]
      BY <2>4 DEF Go
    <3>2. work'.step = "commit" /\ work'.action = work.action
      BY <2>1, <3>1, Moving DEF IInv, Steps
    <3> QED
      BY <2>1, <3>2 DEF Repairing, Changes, Ends
  <2>5. work.program \in Programs \cup {None} /\ None \in Programs \cup {None}
    BY <2>1
  <2> QED
    BY <1>6, <2>3, <2>4, <2>5 DEF Load, Replay, Fail
<1>7. CASE ReleaseActive
  <2>1. work # None /\ work.program \in Programs /\ Answer(work.program) /\ ~LooksUp
    BY <1>7 DEF ReleaseActive, At, IInv, Shape, LooksUp, Ends
  <2> QED
    BY <2>1, AnswerRepairs
<1> QED
  BY <1>1, <1>2, <1>3, <1>4, <1>5, <1>6, <1>7

\* A look-up repairs what a crash or an error left of active.json.
THEOREM LookupsRepair == Spec => []LookupRepairs
<1>1. Init => Repairing
  BY DEF Init, Repairing
<1>2. IInv /\ Repairing /\ [Next]_vars => Repairing'
  <2>1. CASE UNCHANGED vars
    BY <2>1 DEF vars, Repairing, LooksUp, ActiveExact, RunningPrograms
  <2>2. CASE Next
    BY <2>2, LockRepairs, LookupStepRepairs, WorkStepRepairs DEF Next
  <2> QED
    BY <2>1, <2>2
<1>3. Repairing => LookupRepairs
  BY DEF Repairing, LookupRepairs, At
<1> QED
  BY <1>1, <1>2, <1>3, Invariance, PTL DEF Spec
=============================================================================
